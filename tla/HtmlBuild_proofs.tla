------------------------- MODULE HtmlBuild_proofs -------------------------
(***************************************************************************)
(* Proofs about HtmlBuild, for any sites, pages, texts and files.          *)
(***************************************************************************)
EXTENDS HtmlBuild, TLAPS, FiniteSetTheorems, SequenceTheorems, WellFoundedInduction

(* What is written is one of the sources that the assumption is about. *)
Sourced == source \in [Pages -> Sources]

IsSeq(s) == \E S : s \in Seq(S)

(* The pieces of r cover the text up to d. *)
Cover(r, d) ==
  \A c \in 0 .. d - 1 : \E k \in 1 .. Len(r) : r[k].from <= c /\ c < r[k].to

(* Each piece of r begins where the one before ends, the last one at d. *)
Chain(r, d) ==
  /\ \A k \in 1 .. Len(r) : r[k].from = IF k = 1 THEN 0 ELSE r[k - 1].to
  /\ d = IF Len(r) = 0 THEN 0 ELSE r[Len(r)].to

(* A process between pages, or within markup_refs. *)
MarkTyped ==
  /\ marking \in {"idle", "busy", "done"}
  /\ AM!IsText(text)
  /\ done \in 0 .. text.length
  /\ pending \in Seq(text.matches)
  /\ IsSeq(repl)
  /\ marking = "idle" => pending = <<>> /\ done = 0 /\ repl = <<>>
  /\ marking = "done" => done = text.length

(* The matches that are left are sorted, and, where none overlap, ahead. *)
Ahead ==
  /\ \A j, k \in 1 .. Len(pending) : j < k => AM!Earlier(pending[j], pending[k])
  /\ AM!Disjoint => \A k \in 1 .. Len(pending) : done <= pending[k].start

MarkInv ==
  /\ MarkTyped
  /\ Ahead
  /\ Cover(repl, done)
  /\ AM!Disjoint => Chain(repl, done)

----------------------------------------------------------------------------
(* Sequences of pieces. *)

Grown(r, s, e) ==
  /\ IsSeq(r)
  /\ Len(s) \in Nat
  /\ Len(r) = Len(s) + 1
  /\ \A k \in 1 .. Len(s) : r[k] = s[k]
  /\ r[Len(s) + 1] = e

LEMMA OneMore ==
  ASSUME NEW s, IsSeq(s), NEW e
  PROVE  Grown(s \o <<e>>, s, e)
<1>1. PICK S : s \in Seq(S)
  BY DEF IsSeq
<1>2. s \in Seq(S \cup {e}) /\ <<e>> \in Seq(S \cup {e}) /\ Len(s) \in Nat
  BY <1>1
<1>3. Len(<<e>>) = 1 /\ <<e>>[1] = e
  OBVIOUS
<1> DEFINE r == s \o <<e>>
<1>4. /\ r \in Seq(S \cup {e})
      /\ Len(r) = Len(s) + Len(<<e>>)
      /\ \A k \in 1 .. Len(s) + Len(<<e>>) :
           r[k] = IF k <= Len(s) THEN s[k] ELSE <<e>>[k - Len(s)]
  BY <1>2, ConcatProperties
<1> HIDE DEF r
<1>5. /\ Len(r) = Len(s) + 1
      /\ \A k \in 1 .. Len(s) + 1 : r[k] = IF k <= Len(s) THEN s[k] ELSE <<e>>[k - Len(s)]
  BY <1>3, <1>4
<1>6. \A k \in 1 .. Len(s) : r[k] = s[k]
  BY <1>2, <1>5
<1>7. r[Len(s) + 1] = e
  <2>1. Len(s) + 1 \in 1 .. Len(s) + 1 /\ ~(Len(s) + 1 <= Len(s)) /\ Len(s) + 1 - Len(s) = 1
    BY <1>2
  <2> QED
    BY <1>3, <1>5, <2>1
<1>8. IsSeq(r)
  BY <1>4 DEF IsSeq
<1>9. Grown(r, s, e)
  BY <1>2, <1>5, <1>6, <1>7, <1>8 DEF Grown
<1> QED
  BY <1>9 DEF r

(* A piece that begins within what is covered extends it. *)
LEMMA CoverMore ==
  ASSUME NEW s, IsSeq(s), NEW d \in Nat, Cover(s, d),
         NEW e, e.from \in Nat, e.to \in Nat, e.from <= d
  PROVE  Cover(s \o <<e>>, e.to)
<1> DEFINE r == s \o <<e>>
<1>1. Grown(r, s, e)
  BY OneMore
<1> HIDE DEF r
<1>2. ASSUME NEW c \in 0 .. e.to - 1
      PROVE  \E k \in 1 .. Len(r) : r[k].from <= c /\ c < r[k].to
  <2>1. CASE c < e.from
    <3>1. c \in 0 .. d - 1
      BY <1>2, <2>1
    <3>2. PICK k \in 1 .. Len(s) : s[k].from <= c /\ c < s[k].to
      BY <3>1 DEF Cover
    <3>3. k \in 1 .. Len(r) /\ r[k] = s[k]
      BY <1>1 DEF Grown
    <3> QED
      BY <3>2, <3>3
  <2>2. CASE e.from <= c
    <3>1. Len(s) + 1 \in 1 .. Len(r) /\ r[Len(s) + 1] = e
      BY <1>1 DEF Grown
    <3>2. c < e.to
      BY <1>2
    <3> QED
      BY <2>2, <3>1, <3>2
  <2> QED
    BY <1>2, <2>1, <2>2
<1>3. Cover(r, e.to)
  BY <1>2 DEF Cover
<1> QED
  BY <1>3 DEF r

(* A piece that begins where the last one ends goes on with the chain. *)
LEMMA ChainMore ==
  ASSUME NEW s, IsSeq(s), NEW d, Chain(s, d), NEW e, e.from = d
  PROVE  Chain(s \o <<e>>, e.to)
<1> DEFINE r == s \o <<e>>
<1>1. Grown(r, s, e)
  BY OneMore
<1> HIDE DEF r
<1>2. ASSUME NEW k \in 1 .. Len(r) PROVE r[k].from = IF k = 1 THEN 0 ELSE r[k - 1].to
  <2>1. CASE k \in 1 .. Len(s)
    <3>1. r[k] = s[k] /\ s[k].from = IF k = 1 THEN 0 ELSE s[k - 1].to
      BY <1>1, <2>1 DEF Grown, Chain
    <3>2. k # 1 => k - 1 \in 1 .. Len(s)
      BY <1>1, <2>1 DEF Grown
    <3>3. k # 1 => r[k - 1] = s[k - 1]
      BY <1>1, <3>2 DEF Grown
    <3> QED
      BY <3>1, <3>3
  <2>2. CASE k = Len(s) + 1
    <3>1. r[k] = e /\ d = IF Len(s) = 0 THEN 0 ELSE s[Len(s)].to
      BY <1>1, <2>2 DEF Grown, Chain
    <3>2. k - 1 = Len(s) /\ (k = 1 <=> Len(s) = 0)
      BY <1>1, <2>2 DEF Grown
    <3>3. Len(s) # 0 => r[Len(s)] = s[Len(s)]
      <4>1. Len(s) # 0 => Len(s) \in 1 .. Len(s)
        BY <1>1 DEF Grown
      <4> QED
        BY <1>1, <4>1 DEF Grown
    <3> QED
      BY <3>1, <3>2, <3>3
  <2> QED
    BY <1>1, <2>1, <2>2 DEF Grown
<1>3. Len(r) # 0 /\ r[Len(r)] = e
  BY <1>1 DEF Grown
<1>4. Chain(r, e.to)
  BY <1>2, <1>3 DEF Chain
<1> QED
  BY <1>4 DEF r

----------------------------------------------------------------------------
(* The text of a page. *)

(* The operators on sets that Automarkup takes from the standard modules. *)
LEMMA SameSets ==
  ASSUME NEW S
  PROVE  /\ AM!IsFiniteSet(S) <=> IsFiniteSet(S)
         /\ AM!Cardinality(S) = Cardinality(S)
         /\ AM!ToSet(S) = ToSet(S)
<1>1. AM!IsFiniteSet(S) <=> IsFiniteSet(S)
  BY DEF IsFiniteSet, AM!IsFiniteSet
<1>2. AM!Cardinality(S) = Cardinality(S)
  BY DEF Cardinality, AM!Cardinality, IsFiniteSet, AM!IsFiniteSet
<1>3. AM!ToSet(S) = ToSet(S)
  BY DEF ToSet, AM!ToSet
<1> QED
  BY <1>1, <1>2, <1>3

LEMMA NoTextIsText == AM!IsText(AM!NoText) /\ AM!NoText = NoText
<1>1. IsFiniteSet({})
  BY FS_EmptySet
<1> QED
  BY <1>1, SameSets, SiteAssumption DEF AM!IsText, AM!NoText, NoText

LEMMA ParsedIsText ==
  ASSUME Sourced, NEW p \in Pages
  PROVE  AM!IsText(Parsed(p).text)
<1>1. IsSource(source[p])
  BY SiteAssumption DEF Sourced
<1>2. AM!IsText(source[p].text) /\ "text" \in DOMAIN source[p]
  BY <1>1 DEF IsSource
<1>3. Parsed(p).text \in {source[p].text, NoText}
  BY <1>2 DEF Parsed
<1> QED
  BY <1>2, <1>3, NoTextIsText

(* Whatever a match becomes, it takes the place of the match. *)
LEMMA InPlace ==
  ASSUME AM!IsText(text), NEW m \in text.matches
  PROVE  /\ AM!MarkedUp(m).from = m.start
         /\ AM!MarkedUp(m).to = m.end
<1>1. m.pattern \in ToSet(AM!Patterns)
  BY SameSets DEF AM!IsText
<1>2. m.pattern \in {"doc", "abi_file", "abi_symbol", "function", "struct", "git"}
  BY <1>1 DEF ToSet, AM!Patterns
<1>3. AM!CReference(m).from = m.start /\ AM!CReference(m).to = m.end
  BY DEF AM!CReference, AM!Plain, AM!Piece
<1>4. AM!PageReference(m).from = m.start /\ AM!PageReference(m).to = m.end
  BY DEF AM!PageReference, AM!Plain, AM!Piece
<1> QED
  BY <1>2, <1>3, <1>4 DEF AM!MarkedUp, AM!Piece

----------------------------------------------------------------------------
(* The marking up of a text, step by step. *)

LEMMA InitMark == Init => MarkInv
<1> SUFFICES ASSUME Init PROVE MarkInv
  OBVIOUS
<1>0. text = AM!NoText /\ marking = "idle" /\ pending = <<>> /\ done = 0 /\ repl = <<>>
  BY DEF Init, AM!Init
<1>1. text.length = 0 /\ text.matches = {} /\ AM!IsText(text)
  BY <1>0, NoTextIsText DEF AM!NoText
<1>2. IsSeq(repl) /\ Len(repl) = 0 /\ Len(pending) = 0
  BY <1>0 DEF IsSeq
<1>3. MarkTyped
  BY <1>0, <1>1, <1>2 DEF MarkTyped
<1>4. Ahead
  BY <1>0, <1>2 DEF Ahead
<1>5. Cover(repl, done) /\ Chain(repl, done)
  BY <1>0, <1>2 DEF Cover, Chain
<1> QED
  BY <1>3, <1>4, <1>5 DEF MarkInv

LEMMA UnchangedMark == MarkInv /\ UNCHANGED markVars => MarkInv'
<1> SUFFICES ASSUME MarkInv, UNCHANGED markVars PROVE MarkInv'
  OBVIOUS
<1>1. text' = text /\ marking' = marking /\ pending' = pending /\ done' = done /\ repl' = repl
  BY DEF markVars
<1>2. AM!IsText(text)' /\ (AM!Disjoint' <=> AM!Disjoint)
  BY <1>1 DEF MarkInv, MarkTyped, AM!IsText, AM!Disjoint
<1>3. MarkTyped'
  BY <1>1, <1>2 DEF MarkInv, MarkTyped, IsSeq
<1>4. Ahead'
  <2>1. (\A j, k \in 1 .. Len(pending) : j < k => AM!Earlier(pending[j], pending[k]))'
    <3>1. \A j, k \in 1 .. Len(pending) : j < k => AM!Earlier(pending[j], pending[k])
      BY DEF MarkInv, Ahead
    <3> QED
      BY <1>1, <3>1
  <2> QED
    BY <1>1, <1>2, <2>1 DEF MarkInv, Ahead
<1>5. Cover(repl, done)' /\ (AM!Disjoint' => Chain(repl, done)')
  BY <1>1, <1>2 DEF MarkInv, Cover, Chain
<1> QED
  BY <1>3, <1>4, <1>5 DEF MarkInv

(* The process ends, or begins the next text. *)
LEMMA BlankMark ==
  ASSUME text' = AM!NoText, marking' = "idle", pending' = <<>>, done' = 0, repl' = <<>>
  PROVE  MarkInv'
<1>1. text'.length = 0 /\ text'.matches = {} /\ AM!IsText(text')
  BY NoTextIsText DEF AM!NoText
<1>2. IsSeq(repl') /\ Len(repl') = 0 /\ Len(pending') = 0
  BY DEF IsSeq
<1>3. MarkTyped'
  BY <1>1, <1>2 DEF MarkTyped
<1>4. Ahead'
  BY <1>2 DEF Ahead
<1>5. Cover(repl, done)' /\ Chain(repl, done)'
  BY <1>2 DEF Cover, Chain
<1> QED
  BY <1>3, <1>4, <1>5 DEF MarkInv

LEMMA MatchMark ==
  ASSUME MarkInv, NEW t, AM!IsText(t), NEW namespace, NEW made, AM!Match(t, namespace, made)
  PROVE  MarkInv'
<1> DEFINE n == Cardinality(t.matches)
<1>1. IsFiniteSet(t.matches) /\ t.length \in Nat
  BY SameSets DEF AM!IsText
<1>2. n \in Nat
  BY <1>1, FS_CardinalityType
<1>3. /\ marking = "idle" /\ marking' = "busy" /\ text' = t
      /\ done' = 0 /\ repl' = <<>>
  BY DEF MarkInv, MarkTyped, AM!Match
<1>4. /\ pending' \in [1 .. n -> t.matches]
      /\ \A j, k \in 1 .. n : j < k => AM!Earlier(pending'[j], pending'[k])
  BY SameSets DEF AM!Match, AM!Sorted
<1> HIDE DEF n
<1>5. pending' \in Seq(t.matches) /\ Len(pending') = n
  BY <1>2, <1>4
<1>6. IsSeq(repl') /\ Len(repl') = 0
  BY <1>3 DEF IsSeq
<1>7. MarkTyped'
  <2>1. AM!IsText(text)'
    BY <1>3 DEF AM!IsText
  <2> QED
    BY <1>1, <1>3, <1>5, <1>6, <2>1 DEF MarkTyped
<1>8. Ahead'
  <2>1. ASSUME NEW k \in 1 .. n PROVE 0 <= pending'[k].start
    <3>1. pending'[k] \in t.matches
      BY <1>4
    <3> QED
      BY <3>1 DEF AM!IsText
  <2> QED
    BY <1>3, <1>4, <1>5, <2>1 DEF Ahead, AM!Earlier, AM!Rank
<1>9. Cover(repl, done)' /\ Chain(repl, done)'
  BY <1>3, <1>6 DEF Cover, Chain
<1> QED
  BY <1>7, <1>8, <1>9 DEF MarkInv

LEMMA ReplaceMark ==
  ASSUME MarkInv, AM!Replace
  PROVE  MarkInv'
<1> DEFINE m == Head(pending)
           mid == repl \o AM!Before(m)
           now == IF m.start > done THEN m.start ELSE done
<1>1. /\ marking = "busy" /\ marking' = "busy" /\ text' = text
      /\ pending # <<>> /\ pending' = Tail(pending)
      /\ repl' = mid \o <<AM!MarkedUp(m)>>
      /\ done' = m.end
  BY DEF AM!Replace
<1>2. /\ pending \in Seq(text.matches) /\ Len(pending) \in Nat /\ Len(pending) >= 1
      /\ m = pending[1] /\ m \in text.matches
  BY <1>1 DEF MarkInv, MarkTyped
<1>3. /\ pending' \in Seq(text.matches) /\ Len(pending') = Len(pending) - 1
      /\ \A k \in 1 .. Len(pending') : pending'[k] = pending[k + 1] /\ k + 1 \in 1 .. Len(pending)
  BY <1>1, <1>2, HeadTailProperties
<1>4. /\ m.start \in Nat /\ m.end \in Nat /\ m.start < m.end /\ m.end <= text.length
      /\ text.length \in Nat /\ done \in Nat
  BY <1>2 DEF MarkInv, MarkTyped, AM!IsText
<1>5. IsSeq(repl) /\ Cover(repl, done) /\ (AM!Disjoint => Chain(repl, done))
  BY DEF MarkInv, MarkTyped
<1>6. /\ IsSeq(mid)
      /\ now \in Nat /\ m.start <= now
      /\ Cover(mid, now)
      /\ AM!Disjoint => Chain(mid, now)
  <2>1. CASE m.start > done
    <3> DEFINE gap == AM!Plain(done, m.start)
    <3>1. AM!Before(m) = <<gap>> /\ gap.from = done /\ gap.to = m.start /\ now = m.start
      BY <2>1 DEF AM!Before, AM!Plain, AM!Piece
    <3> HIDE DEF gap, m
    <3>2. mid = repl \o <<gap>>
      BY <3>1
    <3>3. IsSeq(mid)
      BY <1>5, <3>2, OneMore DEF Grown
    <3>4. Cover(mid, m.start)
      <4>1. gap.from \in Nat /\ gap.to \in Nat /\ gap.from <= done
        BY <1>4, <3>1
      <4>2. Cover(repl \o <<gap>>, gap.to)
        BY <1>4, <1>5, <4>1, CoverMore
      <4> QED
        BY <3>1, <3>2, <4>2
    <3>5. AM!Disjoint => Chain(mid, m.start)
      BY <1>5, <3>1, <3>2, ChainMore
    <3> QED
      BY <1>4, <3>1, <3>3, <3>4, <3>5
  <2>2. CASE ~(m.start > done)
    <3>1. AM!Before(m) = <<>> /\ now = done
      BY <2>2 DEF AM!Before
    <3>2. mid = repl
      <4>1. PICK S : repl \in Seq(S)
        BY <1>5 DEF IsSeq
      <4> QED
        BY <3>1, <4>1, ConcatEmptySeq
    <3>3. now \in Nat /\ m.start <= now
      BY <1>4, <2>2, <3>1
    <3> HIDE DEF mid, now, m
    <3> QED
      BY <3>3, <1>4, <1>5, <2>2, <3>1, <3>2
  <2> QED
    BY <2>1, <2>2
<1>7. AM!Disjoint => m.start = now
  <2>1. AM!Disjoint => done <= m.start
    BY <1>2 DEF MarkInv, Ahead
  <2> QED
    BY <1>4, <2>1
<1> DEFINE piece == AM!MarkedUp(m)
<1>8. piece.from = m.start /\ piece.to = m.end
  BY <1>2, InPlace DEF MarkInv, MarkTyped
<1> HIDE DEF piece, mid, now
<1>9. IsSeq(repl') /\ Cover(repl', done')
  <2>1. repl' = mid \o <<piece>>
    BY <1>1 DEF piece
  <2>2. piece.from \in Nat /\ piece.to \in Nat /\ piece.from <= now
    BY <1>4, <1>6, <1>8
  <2>3. Cover(mid \o <<piece>>, piece.to)
    BY <1>6, <2>2, CoverMore
  <2>4. IsSeq(mid \o <<piece>>)
    BY <1>6, OneMore DEF Grown
  <2> QED
    BY <1>1, <1>8, <2>1, <2>3, <2>4
<1>10. AM!Disjoint => Chain(repl', done')
  <2>1. repl' = mid \o <<piece>>
    BY <1>1 DEF piece
  <2>2. ASSUME AM!Disjoint PROVE Chain(mid \o <<piece>>, piece.to)
    BY <1>6, <1>7, <1>8, <2>2, ChainMore
  <2> QED
    BY <1>1, <1>8, <2>1, <2>2
<1>11. MarkTyped'
  <2>1. AM!IsText(text)'
    BY <1>1 DEF MarkInv, MarkTyped, AM!IsText
  <2>2. done' \in 0 .. text.length
    BY <1>1, <1>4
  <2> QED
    BY <1>1, <1>3, <1>9, <2>1, <2>2 DEF MarkTyped
<1>12. ASSUME NEW j \in 1 .. Len(pending'), NEW k \in 1 .. Len(pending'), j < k
       PROVE  AM!Earlier(pending'[j], pending'[k])
  <2>1. j + 1 < k + 1
    BY <1>12, <1>2, <1>3
  <2> QED
    BY <1>3, <2>1 DEF MarkInv, Ahead
<1>13. ASSUME AM!Disjoint, NEW k \in 1 .. Len(pending') PROVE done' <= pending'[k].start
  <2> DEFINE o == pending[k + 1]
  <2>1. o = pending'[k] /\ k + 1 \in 1 .. Len(pending) /\ 1 < k + 1 /\ 1 \in 1 .. Len(pending)
    BY <1>2, <1>3
  <2>2. AM!Earlier(m, o)
    BY <1>2, <2>1 DEF MarkInv, Ahead
  <2>3. o \in text.matches
    BY <1>2, <2>1
  <2>4. o.start \in Nat /\ o.end \in Nat /\ o.start < o.end
    BY <2>3 DEF MarkInv, MarkTyped, AM!IsText
  <2> HIDE DEF o, m
  <2>5. m.start <= o.start
    BY <1>4, <2>2, <2>4 DEF AM!Earlier
  <2>6. m # o
    <3> SUFFICES ASSUME m = o PROVE FALSE
      OBVIOUS
    <3>1. m.start = o.start /\ AM!Rank(m) = AM!Rank(o) /\ ~(m.start < o.start)
      BY <1>4
    <3>2. AM!Rank(m) < AM!Rank(m)
      BY <2>2, <3>1 DEF AM!Earlier
    <3>3. AM!Rank(m) \in Nat
      <4>1. m.pattern \in ToSet(AM!Patterns)
        BY <1>2, SameSets DEF MarkInv, MarkTyped, AM!IsText
      <4>2. \E i \in 1 .. Len(AM!Patterns) : AM!Patterns[i] = m.pattern
        BY <4>1 DEF ToSet, AM!Patterns
      <4>3. AM!Rank(m) \in 1 .. Len(AM!Patterns)
        BY <4>2 DEF AM!Rank
      <4> QED
        BY <4>3 DEF AM!Patterns
    <3> QED
      BY <3>2, <3>3
  <2>7. m.end <= o.start \/ o.end <= m.start
    BY <1>2, <1>13, <2>3, <2>6 DEF AM!Disjoint
  <2>8. m.end <= o.start
    BY <1>4, <2>4, <2>5, <2>7
  <2> QED
    BY <1>1, <2>1, <2>8
<1>14. Ahead'
  <2>1. AM!Disjoint' => AM!Disjoint
    BY <1>1 DEF AM!Disjoint
  <2> QED
    BY <1>12, <1>13, <2>1 DEF Ahead, AM!Earlier, AM!Rank
<1>15. AM!Disjoint' => AM!Disjoint
  BY <1>1 DEF AM!Disjoint
<1> QED
  BY <1>9, <1>10, <1>11, <1>14, <1>15 DEF MarkInv, Cover, Chain

LEMMA AddRestMark ==
  ASSUME MarkInv, AM!AddRest
  PROVE  MarkInv'
<1> DEFINE rest == AM!Plain(done, text.length)
<1>1. /\ marking = "busy" /\ marking' = "done" /\ text' = text
      /\ pending = <<>> /\ pending' = pending
      /\ done' = text.length
      /\ repl' = IF done < text.length THEN Append(repl, rest) ELSE repl
  BY DEF AM!AddRest
<1>2. done \in Nat /\ text.length \in Nat /\ done <= text.length /\ AM!IsText(text)
  BY DEF MarkInv, MarkTyped, AM!IsText
<1>3. IsSeq(repl) /\ Cover(repl, done) /\ (AM!Disjoint => Chain(repl, done))
  BY DEF MarkInv, MarkTyped
<1>4. rest.from = done /\ rest.to = text.length
  BY DEF AM!Plain, AM!Piece
<1> HIDE DEF rest
<1>5. /\ IsSeq(repl')
      /\ Cover(repl', text.length)
      /\ AM!Disjoint => Chain(repl', text.length)
  <2>1. CASE done < text.length
    <3>1. repl' = repl \o <<rest>>
      <4>1. PICK S : repl \in Seq(S)
        BY <1>3 DEF IsSeq
      <4>2. repl \in Seq(S \cup {rest})
        BY <4>1
      <4>3. Append(repl, rest) = repl \o <<rest>>
        BY <4>2, AppendIsConcat
      <4> QED
        BY <1>1, <2>1, <4>3
    <3>2. IsSeq(repl \o <<rest>>)
      BY <1>3, OneMore DEF Grown
    <3>3. Cover(repl \o <<rest>>, rest.to)
      <4>1. rest.from \in Nat /\ rest.to \in Nat /\ rest.from <= done
        BY <1>2, <1>4
      <4> QED
        BY <1>2, <1>3, <4>1, CoverMore
    <3>4. AM!Disjoint => Chain(repl \o <<rest>>, rest.to)
      BY <1>3, <1>4, ChainMore
    <3> QED
      BY <1>4, <3>1, <3>2, <3>3, <3>4
  <2>2. CASE ~(done < text.length)
    <3>1. repl' = repl /\ done = text.length
      BY <1>1, <1>2, <2>2
    <3> QED
      BY <1>3, <3>1
  <2> QED
    BY <2>1, <2>2
<1>6. AM!IsText(text)' /\ (AM!Disjoint' <=> AM!Disjoint)
  BY <1>1, <1>2 DEF AM!IsText, AM!Disjoint
<1>7. MarkTyped'
  BY <1>1, <1>2, <1>5, <1>6 DEF MarkInv, MarkTyped
<1>8. Ahead'
  <2>1. Len(pending') = 0
    BY <1>1
  <2> QED
    BY <2>1 DEF Ahead
<1>9. Cover(repl, done)' /\ (AM!Disjoint' => Chain(repl, done)')
  BY <1>1, <1>5, <1>6 DEF Cover, Chain
<1> QED
  BY <1>7, <1>8, <1>9 DEF MarkInv

LEMMA EndMark == EndProcess => MarkInv'
BY BlankMark DEF EndProcess

(* Only the writing of a page touches the marking up of its text, and the end of the
   process. *)
LEMMA NextMark ==
  ASSUME Sourced, MarkInv, [Next]_vars
  PROVE  MarkInv'
<1>1. ASSUME NEW p \in Pages, WritePage(p) PROVE MarkInv'
  <2>1. PICK namespace, made : AM!Match(Parsed(p).text, namespace, made)
    BY <1>1 DEF WritePage, MarkPage, MarkBook
  <2> QED
    BY <2>1, ParsedIsText, MatchMark
<1>2. CASE MarkStep
  <2>1. CASE AM!Replace
    BY <2>1, ReplaceMark
  <2>2. CASE AM!AddRest
    BY <2>2, AddRestMark
  <2>3. CASE AM!PutBack
    BY <2>3, BlankMark DEF AM!PutBack
  <2> QED
    BY <1>2, <2>1, <2>2, <2>3 DEF MarkStep, AM!Step
<1>3. CASE EndBuild \/ Crash \/ Kill
  BY <1>3, EndMark DEF EndBuild, Crash, Kill
<1>4. ASSUME UNCHANGED markVars PROVE MarkInv'
  BY <1>4, UnchangedMark
<1>5. ASSUME NEW p \in Pages, EditPage(p) \/ ReadPage(p) PROVE UNCHANGED markVars
  BY <1>5 DEF EditPage, ReadPage
<1>6. ASSUME NEW f \in Files, EditFile(f) PROVE UNCHANGED markVars
  BY <1>6 DEF EditFile
<1>7. CASE StartBuild \/ TableStep \/ IncludeStep \/ EndPage \/ EndReading
  BY <1>4, <1>7 DEF StartBuild, TableStep, IncludeStep, EndPage, EndReading
<1>8. CASE UNCHANGED vars
  BY <1>4, <1>8 DEF vars
<1> QED
  BY <1>1, <1>2, <1>3, <1>4, <1>5, <1>6, <1>7, <1>8 DEF Next

(* No step gives a page a source that the assumption is not about. *)
LEMMA InitSourced == Init => Sourced
<1> SUFFICES ASSUME Init PROVE Sourced
  OBVIOUS
<1>1. PICK site \in Sites : source = site.source
  BY DEF Init
<1>2. site.source = [p \in Pages |-> site.source[p]]
  BY SiteAssumption DEF IsSite
<1>3. \A p \in Pages : site.source[p] \in Sources
  BY DEF Sources
<1> QED
  BY <1>1, <1>2, <1>3 DEF Sourced

LEMMA NextSourced ==
  ASSUME Sourced, [Next]_vars
  PROVE  Sourced'
<1>1. ASSUME NEW p \in Pages, EditPage(p) PROVE Sourced'
  <2>1. PICK s \in Revisions(source[p]) : source' = [source EXCEPT ![p] = s]
    BY <1>1 DEF EditPage
  <2>2. s \in Sources
    BY SiteAssumption DEF Sourced
  <2> QED
    BY <2>1, <2>2 DEF Sourced
<1>2. ASSUME NEW p \in Pages, ReadPage(p) \/ WritePage(p) PROVE Sourced'
  BY <1>2 DEF Sourced, ReadPage, WritePage
<1>3. ASSUME NEW f \in Files, EditFile(f) PROVE Sourced'
  BY <1>3 DEF Sourced, EditFile
<1>4. CASE StartBuild \/ TableStep \/ IncludeStep \/ EndPage \/ EndReading \/ MarkStep
  BY <1>4 DEF Sourced, StartBuild, TableStep, IncludeStep, EndPage, EndReading, MarkStep, buildVars
<1>5. CASE EndBuild \/ Crash \/ Kill
  BY <1>5 DEF Sourced, EndBuild, Crash, Kill, EndProcess
<1>6. CASE UNCHANGED vars
  BY <1>6 DEF Sourced, vars, buildVars
<1> QED
  BY <1>1, <1>2, <1>3, <1>4, <1>5, <1>6 DEF Next

LEMMA MarkInvariant == Spec => []MarkInv
<1> DEFINE Inv == Sourced /\ MarkInv
<1>1. Init => Inv
  BY InitSourced, InitMark
<1>2. Inv /\ [Next]_vars => Inv'
  BY NextSourced, NextMark
<1>3. Inv => MarkInv
  OBVIOUS
<1> HIDE DEF Inv
<1> QED
  BY <1>1, <1>2, <1>3, PTL DEF Spec

(* Of a text of any length, with any number of matches that meet in any way, markup_refs
   loses no character, and doubles none where no matches overlap. *)
THEOREM NothingLost == Spec => []TextKept
<1>1. ASSUME MarkInv PROVE TextKept
  <2> SUFFICES ASSUME marking = "done"
               PROVE  /\ \A c \in 0 .. text.length - 1 :
                           \E k \in 1 .. Len(repl) : repl[k].from <= c /\ c < repl[k].to
                      /\ AM!Disjoint =>
                           \A k \in 1 .. Len(repl) :
                             repl[k].from = IF k = 1 THEN 0 ELSE repl[k - 1].to
    BY DEF TextKept
  <2>1. done = text.length
    BY <1>1 DEF MarkInv, MarkTyped
  <2> QED
    BY <1>1, <2>1 DEF MarkInv, Cover, Chain
<1> QED
  BY <1>1, MarkInvariant, PTL

----------------------------------------------------------------------------
(* Which documents a build takes. *)

(* The names conf.py writes are strings, which the provers do not know of a literal. *)
Words == STRING \cup {"", ".yaml", "output", "sphinx-includes", "netlink", "specs", "devicetree",
                       "bindings", "core-api", "kho", "index"}

Dirs == Seq(Words)

PatternSet == [dir : Dirs, depth : {"whole", "in", "below"}, suffix : Words]

LEMMA DirOf ==
  ASSUME NEW S, NEW T, S \subseteq T, NEW t \in Seq(S)
  PROVE  t \in Seq(T)
OBVIOUS

LEMMA ShortSeqs ==
  ASSUME NEW S, NEW u \in S, NEW v \in S, NEW w \in S
  PROVE  /\ <<u>> \in Seq(S) /\ <<u>> # <<>>
         /\ <<u, v>> \in Seq(S) /\ <<u, v>> # <<>>
         /\ <<u, v, w>> \in Seq(S) /\ <<u, v, w>> # <<>>
OBVIOUS

(* The operators on sequences that Conf takes from the community modules. *)
LEMMA SamePrefix ==
  ASSUME NEW s, NEW t
  PROVE  /\ CONF!IsPrefix(s, t) <=> IsPrefix(s, t)
BY DEF CONF!IsPrefix, IsPrefix

LEMMA DocDir ==
  ASSUME NEW d, CONF!IsDoc(d)
  PROVE  d.dir \in Dirs
<1>1. STRING \subseteq Words /\ d.dir \in Seq(STRING)
  BY DEF Words, CONF!IsDoc
<1> QED
  BY <1>1, DirOf DEF Dirs

LEMMA PrefixEach ==
  ASSUME NEW s \in Dirs, NEW t \in Dirs
  PROVE  CONF!IsPrefix(s, t) <=> Len(s) <= Len(t) /\ \A k \in 1 .. Len(s) : s[k] = t[k]
<1>1. Len(s) \in Nat /\ Len(t) \in Nat
  BY DEF Dirs
<1>2. SubSeq(s, 1, Len(s)) = s
  BY <1>1 DEF Dirs
<1> DEFINE u == SubSeq(t, 1, Len(s))
<1>3. ASSUME Len(s) <= Len(t)
      PROVE  u \in Seq(Words) /\ Len(u) = Len(s) /\ \A k \in 1 .. Len(s) : u[k] = t[k]
  <2>1. \A k \in 1 .. Len(s) : t[k] \in Words
    BY <1>1, <1>3 DEF Dirs
  <2> QED
    BY <1>1, <1>3, <2>1, SubSeqProperties
<1> HIDE DEF u
<1>4. ASSUME Len(s) <= Len(t) PROVE s = u <=> \A k \in 1 .. Len(s) : s[k] = t[k]
  <2>1. ASSUME \A k \in 1 .. Len(s) : s[k] = t[k] PROVE s = u
    BY <1>3, <1>4, <2>1, SeqEqual DEF Dirs
  <2> QED
    BY <1>3, <1>4, <2>1
<1>5. CONF!IsPrefix(s, t) <=> Len(s) <= Len(t) /\ s = u
  BY <1>2 DEF CONF!IsPrefix, u
<1> QED
  BY <1>4, <1>5

LEMMA BelowEach ==
  ASSUME NEW D \in Dirs, NEW t \in Dirs, CONF!IsPrefix(D, t)
  PROVE  /\ CONF!Below(D, t) \in Dirs
         /\ Len(CONF!Below(D, t)) = Len(t) - Len(D)
         /\ Len(D) <= Len(t)
         /\ \A k \in 1 .. Len(t) - Len(D) : CONF!Below(D, t)[k] = t[Len(D) + k]
<1>1. Len(D) \in Nat /\ Len(t) \in Nat /\ Len(D) <= Len(t)
  BY PrefixEach DEF Dirs
<1>2. \A k \in Len(D) + 1 .. Len(t) : t[k] \in Words
  BY <1>1 DEF Dirs
<1> DEFINE u == SubSeq(t, Len(D) + 1, Len(t))
<1>3. /\ u \in Seq(Words)
      /\ Len(u) = IF Len(D) + 1 <= Len(t) THEN Len(t) - (Len(D) + 1) + 1 ELSE 0
      /\ \A k \in 1 .. Len(t) - (Len(D) + 1) + 1 : u[k] = t[Len(D) + 1 + k - 1]
  BY <1>1, <1>2, SubSeqProperties
<1> HIDE DEF u
<1>4. /\ Len(t) - (Len(D) + 1) + 1 = Len(t) - Len(D)
      /\ ~(Len(D) + 1 <= Len(t)) => Len(t) - Len(D) = 0
      /\ \A k \in 1 .. Len(t) - Len(D) : Len(D) + 1 + k - 1 = Len(D) + k
  BY <1>1
<1>5. /\ u \in Dirs /\ Len(u) = Len(t) - Len(D)
      /\ \A k \in 1 .. Len(t) - Len(D) : u[k] = t[Len(D) + k]
  BY <1>3, <1>4 DEF Dirs
<1> QED
  BY <1>1, <1>5 DEF CONF!Below, u

(* Below the directory D that holds both, one directory is in another just as before. *)
LEMMA PrefixBelow ==
  ASSUME NEW D \in Dirs, NEW s \in Dirs, NEW t \in Dirs,
         CONF!IsPrefix(D, s), CONF!IsPrefix(D, t)
  PROVE  /\ CONF!IsPrefix(CONF!Below(D, s), CONF!Below(D, t)) <=> CONF!IsPrefix(s, t)
         /\ CONF!Below(D, s) = CONF!Below(D, t) <=> s = t
<1> DEFINE a == CONF!Below(D, s)
           b == CONF!Below(D, t)
<1>1. /\ a \in Dirs /\ Len(a) = Len(s) - Len(D) /\ Len(D) <= Len(s)
      /\ \A k \in 1 .. Len(s) - Len(D) : a[k] = s[Len(D) + k]
  BY BelowEach
<1>2. /\ b \in Dirs /\ Len(b) = Len(t) - Len(D) /\ Len(D) <= Len(t)
      /\ \A k \in 1 .. Len(t) - Len(D) : b[k] = t[Len(D) + k]
  BY BelowEach
<1>3. Len(D) \in Nat /\ Len(s) \in Nat /\ Len(t) \in Nat
  BY DEF Dirs
<1>4. \A k \in 1 .. Len(D) : s[k] = t[k]
  <2>1. \A k \in 1 .. Len(D) : D[k] = s[k] /\ D[k] = t[k]
    BY PrefixEach
  <2> QED
    BY <2>1
<1> HIDE DEF a, b
<1>5. ASSUME CONF!IsPrefix(s, t) PROVE CONF!IsPrefix(a, b)
  <2>1. Len(s) <= Len(t) /\ \A k \in 1 .. Len(s) : s[k] = t[k]
    BY <1>5, PrefixEach
  <2>2. ASSUME NEW k \in 1 .. Len(a) PROVE a[k] = b[k]
    <3>1. Len(D) + k \in 1 .. Len(s) /\ k \in 1 .. Len(s) - Len(D) /\ k \in 1 .. Len(t) - Len(D)
      BY <1>1, <1>2, <1>3, <2>1
    <3> QED
      BY <1>1, <1>2, <2>1, <3>1
  <2>3. Len(a) <= Len(b)
    BY <1>1, <1>2, <1>3, <2>1
  <2> QED
    BY <1>1, <1>2, <2>2, <2>3, PrefixEach
<1>6. ASSUME CONF!IsPrefix(a, b) PROVE CONF!IsPrefix(s, t)
  <2>1. Len(a) <= Len(b) /\ \A k \in 1 .. Len(a) : a[k] = b[k]
    BY <1>1, <1>2, <1>6, PrefixEach
  <2>2. Len(s) <= Len(t)
    BY <1>1, <1>2, <1>3, <2>1
  <2>3. ASSUME NEW k \in 1 .. Len(s) PROVE s[k] = t[k]
    <3>1. CASE k <= Len(D)
      BY <1>3, <1>4, <3>1
    <3>2. CASE k > Len(D)
      <4>1. /\ k - Len(D) \in 1 .. Len(a) /\ k - Len(D) \in 1 .. Len(s) - Len(D)
            /\ k - Len(D) \in 1 .. Len(t) - Len(D) /\ Len(D) + (k - Len(D)) = k
        BY <1>1, <1>3, <2>2, <3>2
      <4> QED
        BY <1>1, <1>2, <2>1, <4>1
    <3> QED
      BY <1>3, <3>1, <3>2
  <2> QED
    BY <2>2, <2>3, PrefixEach
<1>7. ASSUME a = b PROVE s = t
  <2>1. CONF!IsPrefix(a, b) /\ CONF!IsPrefix(b, a)
    BY <1>1, <1>2, <1>3, <1>7, PrefixEach
  <2>2. CONF!IsPrefix(s, t)
    BY <1>6, <2>1
  <2>3. Len(s) = Len(t) /\ \A k \in 1 .. Len(s) : s[k] = t[k]
    BY <1>1, <1>2, <1>3, <1>7, <2>2, PrefixEach
  <2> QED
    BY <2>3, SeqEqual DEF Dirs
<1>8. s = t => a = b
  BY DEF a, b
<1>9. (CONF!IsPrefix(a, b) <=> CONF!IsPrefix(s, t)) /\ (a = b <=> s = t)
  BY <1>5, <1>6, <1>7, <1>8
<1> QED
  BY <1>9 DEF a, b

(* Of two directories that hold a third, one holds the other. *)
LEMMA Comparable ==
  ASSUME NEW s \in Dirs, NEW t \in Dirs, NEW u \in Dirs,
         CONF!IsPrefix(s, u), CONF!IsPrefix(t, u)
  PROVE  CONF!IsPrefix(s, t) \/ CONF!IsPrefix(t, s)
<1>1. Len(s) \in Nat /\ Len(t) \in Nat
  BY DEF Dirs
<1>2. /\ \A k \in 1 .. Len(s) : s[k] = u[k]
      /\ \A k \in 1 .. Len(t) : t[k] = u[k]
  BY PrefixEach
<1>3. CASE Len(s) <= Len(t)
  <2>1. \A k \in 1 .. Len(s) : s[k] = t[k]
    BY <1>1, <1>2, <1>3
  <2> QED
    BY <1>3, <2>1, PrefixEach
<1>4. CASE Len(t) <= Len(s)
  <2>1. \A k \in 1 .. Len(t) : t[k] = s[k]
    BY <1>1, <1>2, <1>4
  <2> QED
    BY <1>4, <2>1, PrefixEach
<1> QED
  BY <1>1, <1>3, <1>4

LEMMA Root ==
  ASSUME NEW t \in Dirs
  PROVE  <<>> \in Dirs /\ CONF!IsPrefix(<<>>, t) /\ CONF!Below(<<>>, t) = t /\ CONF!IsPrefix(t, t)
<1>1. <<>> \in Dirs /\ Len(<<>>) = 0 /\ Len(t) \in Nat
  BY DEF Dirs
<1>2. CONF!IsPrefix(<<>>, t) /\ CONF!IsPrefix(t, t)
  BY <1>1, PrefixEach
<1>3. CONF!Below(<<>>, t) = t
  BY <1>1 DEF CONF!Below, Dirs
<1> QED
  BY <1>1, <1>2, <1>3

(* The patterns of conf.py. *)
LEMMA PatternTyped ==
  ASSUME NEW dir \in Dirs, NEW depth \in {"whole", "in", "below"}, NEW suffix \in Words
  PROVE  /\ CONF!Pattern(dir, depth, suffix) \in PatternSet
         /\ CONF!Pattern(dir, depth, suffix).dir = dir
         /\ CONF!Pattern(dir, depth, suffix).depth = depth
         /\ CONF!Pattern(dir, depth, suffix).suffix = suffix
BY DEF CONF!Pattern, PatternSet

LEMMA PatternsTyped ==
  ASSUME NEW h \in BOOLEAN
  PROVE  /\ CONF!DynExclude(h) \subseteq PatternSet
         /\ CONF!DynInclude \subseteq PatternSet
         /\ \A q \in CONF!DynInclude : q.depth = "in"
         /\ \A q \in CONF!DynExclude(h) : q.depth # "whole" => q.suffix = ".yaml"
         /\ \A q \in CONF!DynExclude(h) : q.depth # "in" => q.dir # <<>>
<1>1. /\ "" \in Words /\ ".yaml" \in Words /\ "netlink" \in Words /\ "specs" \in Words
      /\ "devicetree" \in Words /\ "bindings" \in Words /\ "core-api" \in Words
      /\ "kho" \in Words /\ "output" \in Words /\ "sphinx-includes" \in Words
  BY DEF Words
<1> DEFINE Good(q) == /\ q \in PatternSet
                      /\ q.depth # "whole" => q.suffix = ".yaml"
                      /\ q.depth # "in" => q.dir # <<>>
<1>2. ASSUME NEW dir \in Dirs
      PROVE  /\ dir # <<>> => Good(CONF!Pattern(dir, "whole", ""))
             /\ dir # <<>> => Good(CONF!Pattern(dir, "below", ".yaml"))
             /\ Good(CONF!Pattern(dir, "in", ".yaml"))
             /\ CONF!Pattern(dir, "in", ".yaml") \in PatternSet
             /\ CONF!Pattern(dir, "in", ".yaml").depth = "in"
  <2> DEFINE Made(q, depth, suffix) ==
        /\ q \in PatternSet /\ q.dir = dir /\ q.depth = depth /\ q.suffix = suffix
  <2>1. \A depth \in {"whole", "in", "below"}, suffix \in Words :
          Made(CONF!Pattern(dir, depth, suffix), depth, suffix)
    BY PatternTyped
  <2>2. \A q : Made(q, "whole", "") => q \in PatternSet /\ q.depth = "whole" /\ q.dir = dir
    OBVIOUS
  <2>3. \A q : Made(q, "below", ".yaml") =>
                  q \in PatternSet /\ q.depth = "below" /\ q.dir = dir /\ q.suffix = ".yaml"
    OBVIOUS
  <2>4. \A q : Made(q, "in", ".yaml") =>
                  q \in PatternSet /\ q.depth = "in" /\ q.suffix = ".yaml"
    OBVIOUS
  <2> HIDE DEF Made
  <2>5. "whole" # "in" /\ "below" # "in" /\ "below" # "whole"
    OBVIOUS
  <2>6. /\ Made(CONF!Pattern(dir, "whole", ""), "whole", "")
        /\ Made(CONF!Pattern(dir, "below", ".yaml"), "below", ".yaml")
        /\ Made(CONF!Pattern(dir, "in", ".yaml"), "in", ".yaml")
    BY <1>1, <2>1, Zenon
  <2>7. \A q : q \in PatternSet /\ q.depth = "whole" /\ q.dir = dir /\ dir # <<>> => Good(q)
    BY <2>5
  <2>8. \A q : q \in PatternSet /\ q.depth = "below" /\ q.dir = dir /\ q.suffix = ".yaml"
                  /\ dir # <<>> => Good(q)
    BY <2>5
  <2>9. \A q : q \in PatternSet /\ q.depth = "in" /\ q.suffix = ".yaml" => Good(q)
    BY <2>5
  <2> HIDE DEF Good
  <2> QED
    BY <2>2, <2>3, <2>4, <2>6, <2>7, <2>8, <2>9, Zenon
<1> HIDE DEF Good
<1>3. ASSUME NEW q \in CONF!DynInclude PROVE q \in PatternSet /\ q.depth = "in"
  <2>1. <<"netlink", "specs">> \in Dirs
    BY <1>1, ShortSeqs DEF Dirs
  <2>2. q = CONF!Pattern(<<"netlink", "specs">>, "in", ".yaml")
    BY Zenon DEF CONF!DynInclude
  <2> QED
    BY <1>2, <2>1, <2>2, Zenon
<1>4. ASSUME NEW q \in CONF!DynExclude(h) PROVE Good(q)
  <2>1. ASSUME NEW dir \in {"output", "sphinx-includes"}, q = CONF!Pattern(<<dir>>, "whole", "")
        PROVE  Good(q)
    <3>1. <<dir>> \in Dirs /\ <<dir>> # <<>>
      BY <1>1, ShortSeqs DEF Dirs
    <3> QED
      BY <1>2, <2>1, <3>1, Zenon
  <2>2. CASE q = CONF!Pattern(<<"netlink">>, "in", ".yaml")
    <3>1. <<"netlink">> \in Dirs
      BY <1>1, ShortSeqs DEF Dirs
    <3> QED
      BY <1>2, <2>2, <3>1, Zenon
  <2>3. CASE q = CONF!Pattern(<<"devicetree", "bindings">>, "below", ".yaml")
    <3>1. <<"devicetree", "bindings">> \in Dirs /\ <<"devicetree", "bindings">> # <<>>
      BY <1>1, ShortSeqs DEF Dirs
    <3> QED
      BY <1>2, <2>3, <3>1, Zenon
  <2>4. CASE q = CONF!Pattern(<<"core-api", "kho", "bindings">>, "below", ".yaml")
    <3>1. /\ <<"core-api", "kho", "bindings">> \in Dirs
          /\ <<"core-api", "kho", "bindings">> # <<>>
      BY <1>1, ShortSeqs DEF Dirs
    <3> QED
      BY <1>2, <2>4, <3>1, Zenon
  <2>5. \/ \E dir \in {"output", "sphinx-includes"} : q = CONF!Pattern(<<dir>>, "whole", "")
        \/ q = CONF!Pattern(<<"netlink">>, "in", ".yaml")
        \/ q = CONF!Pattern(<<"devicetree", "bindings">>, "below", ".yaml")
        \/ q = CONF!Pattern(<<"core-api", "kho", "bindings">>, "below", ".yaml")
    BY Zenon DEF CONF!DynExclude
  <2> QED
    BY <2>1, <2>2, <2>3, <2>4, <2>5
<1> QED
  BY <1>3, <1>4 DEF Good

Moved(q, D) == [q EXCEPT !.dir = CONF!Below(D, @)]

(* A pattern below D matches below D what it matches from the root. *)
LEMMA SameMatch ==
  ASSUME NEW D \in Dirs, NEW q \in PatternSet, NEW t \in Dirs, NEW suffix,
         CONF!IsPrefix(D, q.dir), CONF!IsPrefix(D, t)
  PROVE  CONF!Matches(Moved(q, D), CONF!Below(D, t), suffix) <=> CONF!Matches(q, t, suffix)
<1>1. /\ Moved(q, D).dir = CONF!Below(D, q.dir)
      /\ Moved(q, D).depth = q.depth
      /\ Moved(q, D).suffix = q.suffix
      /\ q.dir \in Dirs /\ q.depth \in {"whole", "in", "below"}
  BY DEF Moved, PatternSet
<1>2. /\ CONF!IsPrefix(CONF!Below(D, q.dir), CONF!Below(D, t)) <=> CONF!IsPrefix(q.dir, t)
      /\ CONF!Below(D, q.dir) = CONF!Below(D, t) <=> q.dir = t
  BY <1>1, PrefixBelow
<1>3. CASE q.depth = "whole"
  BY <1>1, <1>2, <1>3 DEF CONF!Matches
<1>4. CASE q.depth = "in"
  BY <1>1, <1>2, <1>4 DEF CONF!Matches
<1>5. CASE q.depth = "below"
  BY <1>1, <1>2, <1>5 DEF CONF!Matches
<1> QED
  BY <1>1, <1>3, <1>4, <1>5

(* The patterns made relative to D match what they match from the root, if none takes
   D away as a whole. *)
LEMMA SameMatches ==
  ASSUME NEW P \in SUBSET PatternSet, NEW D \in Dirs, NEW t \in Dirs, NEW suffix,
         CONF!IsPrefix(D, t),
         \A q \in P : q.depth = "in" \/ ~CONF!IsPrefix(q.dir, D)
  PROVE  (\E p \in CONF!Relative(P, D) : CONF!Matches(p, CONF!Below(D, t), suffix))
           <=> \E q \in P : CONF!Matches(q, t, suffix)
<1> DEFINE Kept == {q \in P : CONF!IsPrefix(D, q.dir) /\ (q.depth = "whole" => q.dir # D)}
<1>1. CONF!Relative(P, D) = {Moved(q, D) : q \in Kept}
  BY DEF CONF!Relative, Moved
<1>2. ASSUME NEW q \in Kept, CONF!Matches(Moved(q, D), CONF!Below(D, t), suffix)
      PROVE  CONF!Matches(q, t, suffix)
  BY <1>2, SameMatch
<1>3. ASSUME NEW q \in P, CONF!Matches(q, t, suffix)
      PROVE  q \in Kept /\ CONF!Matches(Moved(q, D), CONF!Below(D, t), suffix)
  <2>1. q.dir \in Dirs /\ q.depth \in {"whole", "in", "below"} /\ q \in PatternSet
    BY DEF PatternSet
  <2>2. CONF!IsPrefix(D, q.dir)
    <3>1. CASE q.depth = "in"
      BY <1>3, <3>1 DEF CONF!Matches
    <3>2. CASE q.depth # "in"
      <4>1. CONF!IsPrefix(q.dir, t)
        BY <1>3, <2>1, <3>2 DEF CONF!Matches
      <4> QED
        BY <2>1, <3>2, <4>1, Comparable
    <3> QED
      BY <3>1, <3>2
  <2>3. q.depth = "whole" => q.dir # D
    <3>1. CONF!IsPrefix(D, D)
      BY Root
    <3> QED
      BY <3>1
  <2>4. q \in Kept
    BY <2>2, <2>3
  <2> QED
    BY <1>3, <2>1, <2>2, <2>4, SameMatch
<1> HIDE DEF Kept
<1>4. (\E p \in CONF!Relative(P, D) : CONF!Matches(p, CONF!Below(D, t), suffix))
        <=> \E q \in Kept : CONF!Matches(Moved(q, D), CONF!Below(D, t), suffix)
  BY <1>1
<1>5. Kept \subseteq P
  BY DEF Kept
<1> QED
  BY <1>2, <1>3, <1>4, <1>5

(* A build of the directory D takes of the documents in it those that the full build
   takes. *)
LEMMA SameTaken ==
  ASSUME NEW D \in Dirs, NEW h \in BOOLEAN, NEW docs, NEW d, CONF!IsDoc(d),
         \A q \in CONF!DynExclude(h) : q.depth = "in" \/ ~CONF!IsPrefix(q.dir, D)
  PROVE  CONF!Takes(CONF!ConfigInit(D, h, docs), D, d) <=>
           CONF!IsPrefix(D, d.dir) /\ CONF!Takes(CONF!ConfigInit(<<>>, h, docs), <<>>, d)
<1> DEFINE Ex == CONF!DynExclude(h)
           Inc == CONF!DynInclude
           Hit(patterns, dir) == \E p \in patterns : CONF!Matches(p, dir, d.suffix)
           Rst == CONF!IncludePatterns
           here == CONF!Below(D, d.dir)
<1>1. d.dir \in Dirs /\ <<>> \in Dirs /\ CONF!IsPrefix(<<>>, d.dir) /\ CONF!Below(<<>>, d.dir) = d.dir
  BY DocDir, Root
<1>2. Ex \in SUBSET PatternSet /\ Inc \in SUBSET PatternSet /\ \A q \in Inc : q.depth = "in"
  BY PatternsTyped
<1>3. /\ Hit(CONF!Relative(Ex, <<>>), d.dir) <=> Hit(Ex, d.dir)
      /\ Hit(CONF!Relative(Inc, <<>>), d.dir) <=> Hit(Inc, d.dir)
  <2>1. \A q \in Ex : q.depth = "in" \/ ~CONF!IsPrefix(q.dir, <<>>)
    <3>1. ASSUME NEW q \in Ex, q.depth # "in", CONF!IsPrefix(q.dir, <<>>) PROVE FALSE
      <4>1. q.dir \in Dirs /\ q.dir # <<>>
        BY <3>1, PatternsTyped DEF PatternSet
      <4>2. Len(q.dir) <= Len(<<>>)
        BY <1>1, <3>1, <4>1, PrefixEach
      <4> QED
        BY <4>1, <4>2 DEF Dirs
    <3> QED
      BY <3>1
  <2> HIDE DEF Ex, Inc
  <2>2. Hit(CONF!Relative(Ex, <<>>), CONF!Below(<<>>, d.dir)) <=> Hit(Ex, d.dir)
    BY <1>1, <1>2, <2>1, SameMatches
  <2>3. Hit(CONF!Relative(Inc, <<>>), CONF!Below(<<>>, d.dir)) <=> Hit(Inc, d.dir)
    BY <1>1, <1>2, SameMatches
  <2> QED
    BY <1>1, <2>2, <2>3
<1>4. ASSUME CONF!IsPrefix(D, d.dir)
      PROVE  /\ Hit(CONF!Relative(Ex, D), here) <=> Hit(Ex, d.dir)
             /\ Hit(CONF!Relative(Inc, D), here) <=> Hit(Inc, d.dir)
  <2>1. \A q \in Ex : q.depth = "in" \/ ~CONF!IsPrefix(q.dir, D)
    OBVIOUS
  <2> HIDE DEF Ex, Inc
  <2>2. Hit(CONF!Relative(Ex, D), CONF!Below(D, d.dir)) <=> Hit(Ex, d.dir)
    BY <1>1, <1>2, <1>4, <2>1, SameMatches
  <2>3. Hit(CONF!Relative(Inc, D), CONF!Below(D, d.dir)) <=> Hit(Inc, d.dir)
    BY <1>1, <1>2, <1>4, SameMatches
  <2> QED
    BY <2>2, <2>3
<1>5. ASSUME CONF!IsPrefix(D, d.dir) PROVE Hit(Rst, here) <=> Hit(Rst, d.dir)
  <2>1. here \in Dirs
    BY <1>1, <1>5, BelowEach
  <2>2. CONF!IsPrefix(<<>>, here)
    BY <2>1, Root
  <2> QED
    BY <1>1, <2>2 DEF CONF!IncludePatterns, CONF!Pattern, CONF!Matches
<1> DEFINE part == CONF!ConfigInit(D, h, docs)
           full == CONF!ConfigInit(<<>>, h, docs)
<1>6. /\ part.exclude = CONF!Relative(Ex, D) /\ full.exclude = CONF!Relative(Ex, <<>>)
      /\ part.include = IF h THEN Rst \cup CONF!Relative(Inc, D) ELSE {}
      /\ full.include = IF h THEN Rst \cup CONF!Relative(Inc, <<>>) ELSE {}
  BY DEF CONF!ConfigInit
<1>7. Rst # {}
  BY DEF CONF!IncludePatterns
<1>8. CONF!Takes(part, D, d) <=>
        /\ CONF!IsPrefix(D, d.dir)
        /\ part.include # {} => Hit(part.include, here)
        /\ ~Hit(part.exclude, here)
  BY DEF CONF!Takes
<1>9. CONF!Takes(full, <<>>, d) <=>
        /\ full.include # {} => Hit(full.include, d.dir)
        /\ ~Hit(full.exclude, d.dir)
  BY <1>1 DEF CONF!Takes
<1> HIDE DEF part, full, Ex, Inc, Rst, here
<1>10. ASSUME CONF!IsPrefix(D, d.dir) PROVE Hit(part.exclude, here) <=> Hit(full.exclude, d.dir)
  BY <1>3, <1>4, <1>6, <1>10
<1>11. ASSUME CONF!IsPrefix(D, d.dir), h PROVE Hit(part.include, here) <=> Hit(full.include, d.dir)
  <2>1. Hit(part.include, here) <=> Hit(Rst, here) \/ Hit(CONF!Relative(Inc, D), here)
    BY <1>6, <1>11
  <2>2. Hit(full.include, d.dir) <=> Hit(Rst, d.dir) \/ Hit(CONF!Relative(Inc, <<>>), d.dir)
    BY <1>6, <1>11
  <2>3. Hit(Rst, here) <=> Hit(Rst, d.dir)
    BY <1>5, <1>11
  <2>4. Hit(CONF!Relative(Inc, D), here) <=> Hit(CONF!Relative(Inc, <<>>), d.dir)
    BY <1>3, <1>4, <1>11
  <2> QED
    BY <2>1, <2>2, <2>3, <2>4
<1>12. IF h THEN part.include # {} /\ full.include # {}
       ELSE part.include = {} /\ full.include = {}
  BY <1>6, <1>7
<1> HIDE DEF Hit
<1>13. CONF!Takes(part, D, d) <=>
         CONF!IsPrefix(D, d.dir) /\ CONF!Takes(full, <<>>, d)
  BY <1>8, <1>9, <1>10, <1>11, <1>12
<1> QED
  BY <1>13 DEF part, full

(* No directory taken away as a whole holds D, if none of the full build does. *)
LEMMA NoneHolds ==
  ASSUME NEW D \in Dirs, NEW h \in BOOLEAN, NEW docs,
         ~\E q \in CONF!ConfigInit(<<>>, h, docs).exclude : q.depth # "in" /\ IsPrefix(q.dir, D)
  PROVE  \A q \in CONF!DynExclude(h) : q.depth = "in" \/ ~CONF!IsPrefix(q.dir, D)
<1> SUFFICES ASSUME NEW q \in CONF!DynExclude(h), q.depth # "in", CONF!IsPrefix(q.dir, D)
             PROVE  FALSE
  OBVIOUS
<1>1. q \in PatternSet /\ q.dir \in Dirs /\ q.dir # <<>>
  BY PatternsTyped DEF PatternSet
<1>2. CONF!IsPrefix(<<>>, q.dir) /\ CONF!Below(<<>>, q.dir) = q.dir
  BY <1>1, Root
<1>3. Moved(q, <<>>) \in CONF!ConfigInit(<<>>, h, docs).exclude
  BY <1>1, <1>2 DEF CONF!ConfigInit, CONF!Relative, Moved
<1>4. Moved(q, <<>>).dir = q.dir /\ Moved(q, <<>>).depth = q.depth
  BY <1>1, <1>2 DEF Moved, PatternSet
<1>5. IsPrefix(Moved(q, <<>>).dir, D)
  BY <1>4, SamePrefix
<1> QED
  BY <1>3, <1>4, <1>5

(* What is left of the patterns of a build: where one takes a directory away as a whole,
   that is not the source directory; the others take away YAML. *)
LEMMA Excluded ==
  ASSUME NEW D \in Dirs, NEW h \in BOOLEAN, NEW r \in CONF!Relative(CONF!DynExclude(h), D)
  PROVE  /\ r.dir \in Dirs
         /\ r.depth \in {"whole", "in", "below"}
         /\ r.depth = "whole" => r.dir # <<>>
         /\ r.depth # "whole" => r.suffix = ".yaml"
<1>1. PICK q \in CONF!DynExclude(h) :
        CONF!IsPrefix(D, q.dir) /\ (q.depth = "whole" => q.dir # D) /\ r = Moved(q, D)
  BY DEF CONF!Relative, Moved
<1>2. q \in PatternSet /\ q.dir \in Dirs /\ (q.depth # "whole" => q.suffix = ".yaml")
  BY PatternsTyped DEF PatternSet
<1>3. /\ r.dir = CONF!Below(D, q.dir) /\ r.depth = q.depth /\ r.suffix = q.suffix
      /\ q.depth \in {"whole", "in", "below"}
  BY <1>1, <1>2 DEF Moved, PatternSet
<1>4. CONF!Below(D, q.dir) \in Dirs /\ Len(CONF!Below(D, q.dir)) = Len(q.dir) - Len(D)
  BY <1>1, <1>2, BelowEach
<1>5. CONF!Below(D, q.dir) = <<>> => q.dir = D
  <2> SUFFICES ASSUME CONF!Below(D, q.dir) = <<>> PROVE q.dir = D
    OBVIOUS
  <2>1. Len(q.dir) = Len(D)
    BY <1>2, <1>4 DEF Dirs
  <2>2. \A k \in 1 .. Len(D) : D[k] = q.dir[k]
    BY <1>1, <1>2, PrefixEach
  <2> QED
    BY <1>2, <2>1, <2>2, SeqEqual DEF Dirs
<1> QED
  BY <1>1, <1>2, <1>3, <1>4, <1>5

(* So an .rst document in a directory that no pattern takes away is taken. *)
LEMMA RstTaken ==
  ASSUME NEW D \in Dirs, NEW h \in BOOLEAN, NEW docs, NEW d, CONF!IsDoc(d), d.suffix = ".rst",
         CONF!IsPrefix(D, d.dir),
         \A r \in CONF!ConfigInit(D, h, docs).exclude :
           r.depth = "whole" => ~CONF!IsPrefix(r.dir, CONF!Below(D, d.dir))
  PROVE  CONF!Takes(CONF!ConfigInit(D, h, docs), D, d)
<1> DEFINE here == CONF!Below(D, d.dir)
           conf == CONF!ConfigInit(D, h, docs)
<1>1. here \in Dirs /\ CONF!IsPrefix(<<>>, here)
  <2>1. here \in Dirs
    BY DocDir, BelowEach
  <2> QED
    BY <2>1, Root
<1>2. /\ conf.exclude = CONF!Relative(CONF!DynExclude(h), D)
      /\ conf.include # {} => CONF!IncludePatterns \subseteq conf.include
  BY DEF CONF!ConfigInit
<1>3. \A r \in CONF!IncludePatterns : CONF!Matches(r, here, ".rst")
  BY <1>1 DEF CONF!IncludePatterns, CONF!Pattern, CONF!Matches
<1>4. \E r \in CONF!IncludePatterns : TRUE
  BY DEF CONF!IncludePatterns
<1>5. ASSUME NEW r \in conf.exclude, CONF!Matches(r, here, ".rst") PROVE FALSE
  <2>1. /\ r.depth \in {"whole", "in", "below"}
        /\ r.depth # "whole" => r.suffix = ".yaml"
    BY <1>2, Excluded
  <2>2. r.depth = "whole" => ~CONF!IsPrefix(r.dir, here)
    OBVIOUS
  <2> QED
    BY <1>5, <2>1, <2>2 DEF CONF!Matches
<1> HIDE DEF conf, here
<1>6. /\ CONF!IsPrefix(D, d.dir)
      /\ conf.include # {} => \E r \in conf.include : CONF!Matches(r, here, d.suffix)
      /\ ~\E r \in conf.exclude : CONF!Matches(r, here, d.suffix)
  BY <1>2, <1>3, <1>4, <1>5
<1> QED
  BY <1>6 DEF conf, here, CONF!Takes

LEMMA Pair ==
  ASSUME NEW u, NEW v
  PROVE  Front(<<u, v>>) = <<u>> /\ Append(<<u>>, v) = <<u, v>>
<1> DEFINE S == {u, v}
<1>1. <<u, v>> \in Seq(S) /\ <<u>> \in Seq(S) /\ Len(<<u, v>>) - 1 = 1
  OBVIOUS
<1> DEFINE p == <<u, v>>
           q == <<u>>
<1>2. p \in Seq(S) /\ Len(p) = 2 /\ p[1] = u /\ p[2] = v
  BY <1>1
<1>3. q \in Seq(S) /\ Len(q) = 1 /\ q[1] = u
  BY <1>1
<1>4. v \in S
  OBVIOUS
<1> HIDE DEF p, q, S
<1>5. Front(p) = q
  <2>1. SubSeq(p, 1, 1) \in Seq(S) /\ Len(SubSeq(p, 1, 1)) = 1 /\ SubSeq(p, 1, 1)[1] = u
    BY <1>2
  <2>2. SubSeq(p, 1, 1) = q
    BY <1>3, <2>1, SeqEqual
  <2> QED
    BY <1>2, <2>2 DEF Front
<1>6. Append(q, v) = p
  <2>1. /\ Append(q, v) \in Seq(S) /\ Len(Append(q, v)) = 2
        /\ Append(q, v)[1] = u /\ Append(q, v)[2] = v
    <3>1. /\ Append(q, v) \in Seq(S)
          /\ Len(Append(q, v)) = Len(q) + 1
          /\ \A k \in 1 .. Len(q) : Append(q, v)[k] = q[k]
          /\ Append(q, v)[Len(q) + 1] = v
      BY <1>3, <1>4, AppendProperties
    <3>2. Len(q) + 1 = 2 /\ 1 \in 1 .. Len(q)
      BY <1>3
    <3> QED
      BY <1>3, <3>1, <3>2
  <2> QED
    BY <1>2, <2>1, SeqEqual
<1> QED
  BY <1>5, <1>6 DEF p, q

LEMMA Child ==
  ASSUME NEW D \in Dirs, NEW s, Append(D, s) \in Dirs
  PROVE  /\ s \in Words
         /\ CONF!IsPrefix(D, Append(D, s))
         /\ CONF!Below(D, Append(D, s)) = <<s>>
<1> DEFINE t == Append(D, s)
<1>1. D \in Seq(Words \cup {s}) /\ Len(D) \in Nat
  BY DEF Dirs
<1>2. Len(t) = Len(D) + 1 /\ t[Len(D) + 1] = s /\ \A k \in 1 .. Len(D) : t[k] = D[k]
  BY <1>1
<1>3. t \in Dirs
  OBVIOUS
<1> HIDE DEF t
<1>4. s \in Words
  BY <1>1, <1>2, <1>3 DEF Dirs
<1>5. CONF!IsPrefix(D, t)
  BY <1>1, <1>2, <1>3, PrefixEach
<1>6. /\ CONF!Below(D, t) \in Dirs
      /\ Len(CONF!Below(D, t)) = 1
      /\ CONF!Below(D, t)[1] = s
  <2>1. /\ CONF!Below(D, t) \in Dirs
        /\ Len(CONF!Below(D, t)) = Len(t) - Len(D)
        /\ \A k \in 1 .. Len(t) - Len(D) : CONF!Below(D, t)[k] = t[Len(D) + k]
    BY <1>3, <1>5, BelowEach
  <2>2. Len(t) - Len(D) = 1
    BY <1>1, <1>2
  <2> QED
    BY <1>2, <2>1, <2>2
<1>7. CONF!Below(D, t) = <<s>>
  BY <1>6 DEF Dirs
<1> QED
  BY <1>4, <1>5, <1>7 DEF t

(* The books are among the documents of the build, except the index of a directory that
   a pattern takes away as a whole. *)
LEMMA BookTaken ==
  ASSUME NEW D \in Dirs, NEW h \in BOOLEAN, NEW docs, \A d \in docs : CONF!IsDoc(d),
         NEW book \in CONF!ConfigInit(D, h, docs).books
  PROVE  \/ \E d \in docs :
              CONF!Takes(CONF!ConfigInit(D, h, docs), D, d) /\ book = CONF!Docname(D, d)
         \/ \E r \in CONF!ConfigInit(D, h, docs).exclude :
              r.depth = "whole" /\ r.dir = Front(book)
<1> DEFINE conf == CONF!ConfigInit(D, h, docs)
           Index(dir, d) == d = [dir |-> dir, name |-> "index", suffix |-> ".rst"]
<1>1. /\ book \in CONF!Books(D, docs)
      /\ conf.exclude = CONF!Relative(CONF!DynExclude(h), D)
  BY DEF CONF!ConfigInit
<1>2. \/ book = <<"index">> /\ \E d \in docs : Index(D, d)
      \/ \E s : book = <<s, "index">> /\ \E d \in docs : Index(Append(D, s), d)
  BY <1>1 DEF CONF!Books
<1>3. ASSUME NEW r \in conf.exclude, r.depth = "whole" PROVE r.dir \in Dirs /\ r.dir # <<>>
  BY <1>1, <1>3, Excluded
<1> HIDE DEF conf
<1>4. ASSUME NEW d \in docs, Index(D, d), book = <<"index">>
      PROVE  CONF!Takes(conf, D, d) /\ book = CONF!Docname(D, d)
  <2>1. d.dir = D /\ d.name = "index" /\ d.suffix = ".rst"
    BY <1>4
  <2>2. CONF!IsPrefix(D, D)
    BY Root
  <2>3. CONF!Below(D, D) = <<>>
    <3>1. CONF!Below(D, D) \in Dirs /\ Len(CONF!Below(D, D)) = Len(D) - Len(D) /\ Len(D) \in Nat
      BY <2>2, BelowEach DEF Dirs
    <3> QED
      BY <3>1 DEF Dirs
  <2>4. ASSUME NEW r \in conf.exclude, r.depth = "whole", CONF!IsPrefix(r.dir, <<>>) PROVE FALSE
    <3>1. r.dir \in Dirs /\ r.dir # <<>> /\ <<>> \in Dirs
      BY <1>3, <2>4, Root
    <3>2. Len(r.dir) <= Len(<<>>)
      BY <2>4, <3>1, PrefixEach
    <3> QED
      BY <3>1, <3>2 DEF Dirs
  <2>5. CONF!Takes(conf, D, d)
    BY <2>1, <2>2, <2>3, <2>4, RstTaken DEF conf
  <2>6. CONF!Docname(D, d) = <<"index">>
    BY <2>1, <2>3 DEF CONF!Docname
  <2> QED
    BY <1>4, <2>5, <2>6
<1>5. ASSUME NEW s, NEW d \in docs, Index(Append(D, s), d), book = <<s, "index">>,
             ~\E r \in conf.exclude : r.depth = "whole" /\ r.dir = Front(book)
      PROVE  CONF!Takes(conf, D, d) /\ book = CONF!Docname(D, d)
  <2>1. d.dir = Append(D, s) /\ d.name = "index" /\ d.suffix = ".rst" /\ d.dir \in Dirs
    BY <1>5, DocDir
  <2>2. /\ CONF!IsPrefix(D, d.dir)
        /\ CONF!Below(D, d.dir) = <<s>>
        /\ s \in Words
    BY <2>1, Child
  <2>3. Front(book) = <<s>>
    BY <1>5, Pair
  <2>4. ASSUME NEW r \in conf.exclude, r.depth = "whole", CONF!IsPrefix(r.dir, <<s>>) PROVE FALSE
    <3>1. r.dir \in Dirs /\ r.dir # <<>> /\ <<s>> \in Dirs
      BY <1>3, <2>2, <2>4, ShortSeqs DEF Dirs
    <3>2. Len(r.dir) <= 1 /\ \A k \in 1 .. Len(r.dir) : r.dir[k] = <<s>>[k]
      BY <2>4, <3>1, PrefixEach
    <3>3. r.dir = <<s>>
      BY <3>1, <3>2 DEF Dirs
    <3> QED
      BY <1>5, <2>3, <2>4, <3>3
  <2>5. CONF!Takes(conf, D, d)
    BY <2>1, <2>2, <2>4, RstTaken DEF conf
  <2>6. CONF!Docname(D, d) = <<s, "index">>
    BY <2>1, <2>2, Pair DEF CONF!Docname
  <2> QED
    BY <1>5, <2>5, <2>6
<1> QED
  BY <1>2, <1>4, <1>5 DEF conf

(* A build, once begun, has the configuration of its setting, and the pages are not
   written to until it ends. *)
Configured ==
  /\ setting.srcdir \in Dirs /\ setting.hasInclude \in BOOLEAN
  /\ stage # "off" =>
       config = CONF!ConfigInit(setting.srcdir, setting.hasInclude, {source[p].at : p \in Pages})

LEMMA InitConfigured == Init => Configured
<1> SUFFICES ASSUME Init PROVE Configured
  OBVIOUS
<1>1. PICK site \in Sites : setting = site.setting
  BY DEF Init
<1>2. setting.srcdir \in Seq(STRING) /\ setting.hasInclude \in BOOLEAN
  BY <1>1, SiteAssumption DEF IsSite
<1>3. setting.srcdir \in Dirs
  <2>1. STRING \subseteq Words
    BY DEF Words
  <2> QED
    BY <1>2, <2>1, DirOf DEF Dirs
<1>4. stage = "off"
  BY DEF Init
<1> QED
  BY <1>2, <1>3, <1>4 DEF Configured

LEMMA NextConfigured ==
  ASSUME Configured, [Next]_vars
  PROVE  Configured'
<1> DEFINE Kept == UNCHANGED <<setting, config, source, stage>>
<1>1. ASSUME Kept PROVE Configured'
  BY <1>1 DEF Configured
<1>2. ASSUME NEW p \in Pages, EditPage(p) PROVE Configured'
  BY <1>2 DEF Configured, EditPage
<1>3. ASSUME NEW p \in Pages, ReadPage(p) \/ WritePage(p) PROVE Kept
  BY <1>3 DEF ReadPage, WritePage
<1>4. ASSUME NEW f \in Files, EditFile(f) PROVE Kept
  BY <1>4 DEF EditFile
<1>5. CASE StartBuild
  BY <1>5 DEF Configured, StartBuild
<1>6. CASE TableStep \/ IncludeStep \/ EndPage \/ MarkStep
  BY <1>1, <1>6 DEF TableStep, IncludeStep, EndPage, MarkStep, buildVars
<1>7. CASE EndReading
  BY <1>7 DEF Configured, EndReading
<1>8. CASE EndBuild \/ Crash \/ Kill
  BY <1>8 DEF Configured, EndBuild, Crash, Kill, EndProcess
<1>9. CASE UNCHANGED vars
  BY <1>1, <1>9 DEF vars, buildVars
<1> QED
  BY <1>1, <1>2, <1>3, <1>4, <1>5, <1>6, <1>7, <1>8, <1>9 DEF Next

(* Whatever the directory, the documents and the version of Sphinx, a build of a part
   takes what the full build takes of it, and the books it lists, except those in a
   directory that a pattern takes away as a whole. *)
THEOREM PartTakesSame == Spec => []SubprojectAlike
<1> DEFINE Inv == Sourced /\ Configured
<1>1. Init => Inv
  BY InitSourced, InitConfigured
<1>2. Inv /\ [Next]_vars => Inv'
  BY NextSourced, NextConfigured
<1>3. ASSUME Inv PROVE SubprojectAlike
  <2> SUFFICES ASSUME stage = "read"
               PROVE  /\ \/ \E q \in CONF!ConfigInit(<<>>, setting.hasInclude,
                                                    {source[p].at : p \in Pages}).exclude :
                              q.depth # "in" /\ IsPrefix(q.dir, setting.srcdir)
                         \/ \A p \in Pages :
                              p \in Found(config) <=>
                                /\ IsPrefix(setting.srcdir, source[p].at.dir)
                                /\ CONF!Takes(CONF!ConfigInit(<<>>, setting.hasInclude,
                                                              {source[r].at : r \in Pages}),
                                              <<>>, source[p].at)
                      /\ \A book \in config.books :
                           \/ \E p \in Found(config) : book = Docname(p)
                           \/ \E q \in config.exclude : q.depth = "whole" /\ q.dir = Front(book)
    BY DEF SubprojectAlike
  <2> DEFINE docs == {source[p].at : p \in Pages}
             D == setting.srcdir
             h == setting.hasInclude
  <2>1. D \in Dirs /\ h \in BOOLEAN /\ config = CONF!ConfigInit(D, h, docs)
    BY <1>3 DEF Configured
  <2>2. ASSUME NEW p \in Pages PROVE CONF!IsDoc(source[p].at)
    BY <1>3, SiteAssumption DEF Sourced, IsSource
  <2>3. \A p \in Pages : p \in Found(config) <=> CONF!Takes(config, D, source[p].at)
    BY DEF Found
  <2>4. ASSUME ~\E q \in CONF!ConfigInit(<<>>, h, docs).exclude :
                  q.depth # "in" /\ IsPrefix(q.dir, D),
               NEW p \in Pages
        PROVE  p \in Found(config) <=>
                 /\ IsPrefix(D, source[p].at.dir)
                 /\ CONF!Takes(CONF!ConfigInit(<<>>, h, docs), <<>>, source[p].at)
    <3> HIDE DEF docs, D, h
    <3>1. \A q \in CONF!DynExclude(h) : q.depth = "in" \/ ~CONF!IsPrefix(q.dir, D)
      BY <2>1, <2>4, NoneHolds
    <3>2. CONF!Takes(config, D, source[p].at) <=>
            /\ CONF!IsPrefix(D, source[p].at.dir)
            /\ CONF!Takes(CONF!ConfigInit(<<>>, h, docs), <<>>, source[p].at)
      BY <2>1, <2>2, <3>1, SameTaken
    <3>3. CONF!IsPrefix(D, source[p].at.dir) <=> IsPrefix(D, source[p].at.dir)
      BY SamePrefix
    <3> QED
      BY <2>3, <3>2, <3>3
  <2>5. ASSUME NEW book \in config.books
        PROVE  \/ \E p \in Found(config) : book = Docname(p)
               \/ \E q \in config.exclude : q.depth = "whole" /\ q.dir = Front(book)
    <3>1. \A d \in docs : CONF!IsDoc(d)
      BY <2>2
    <3>2. ASSUME NEW d \in docs, CONF!Takes(config, D, d), book = CONF!Docname(D, d)
          PROVE  \E p \in Found(config) : book = Docname(p)
      <4>1. PICK p \in Pages : d = source[p].at
        OBVIOUS
      <4> QED
        BY <2>3, <3>2, <4>1 DEF Docname
    <3> HIDE DEF docs, D, h
    <3>3. \/ \E d \in docs : CONF!Takes(config, D, d) /\ book = CONF!Docname(D, d)
          \/ \E r \in config.exclude : r.depth = "whole" /\ r.dir = Front(book)
      BY <2>1, <3>1, BookTaken
    <3> QED
      BY <3>2, <3>3
  <2> QED
    BY <2>4, <2>5
<1> HIDE DEF Inv
<1> QED
  BY <1>1, <1>2, <1>3, PTL DEF Spec

----------------------------------------------------------------------------
(* What a page holds of files. *)

(* The directives of a page, and the files that one may ever take in. *)
Listed(p) == ToSet(Parsed(p).directives)

Scope(d) ==
  CASE d.kind \in {"xref", "warn"} -> INC!XrefText(d)
    [] d.kind = "doc" -> {d.file} \cup INC!In(d.dir)
    [] d.kind = "abi" -> INC!In(AbiDir)
    [] d.kind = "feat" -> INC!In(d.dir)
    [] OTHER -> {d.file}

Exceptions(ds) == {d.extra : d \in {e \in ds : e.kind \in {"xref", "warn"}}}

(* What is held is of some directive, and noted, if it is not a file of exceptions. *)
Held(content, deps, ds) ==
  \A c \in content :
    /\ \E d \in ds : c[1] \in Scope(d)
    /\ c[1] \in deps \cup Exceptions(ds)

(* An entry of the environment, of a page that was not edited since: what it holds is of
   the version there is, unless that is newer. *)
EntryFields == {"declares", "languages", "deps", "content", "newer", "raced"}

Entry(e, p, ds, versions) ==
  p \notin e.newer /\ ~e.raced =>
    /\ e.content \subseteq Files \X Nat
    /\ Held(e.content, e.deps, ds)
    /\ \A c \in e.content : c[1] \in e.newer \/ versions[c[1]] = c[2]

Entries(entries) ==
  /\ entries = [p \in Pages |-> entries[p]]
  /\ \A p \in Pages : DOMAIN entries[p] = EntryFields
  /\ \A p \in Pages : Entry(entries[p], p, Listed(p), version)

(* Each change of a file makes a version that there was not before. *)
Stamps ==
  /\ fileEdits \in Nat
  /\ version \in [Files -> 0 .. fileEdits + 1]
  /\ \A f \in DOMAIN cache : cache[f] \in 0 .. fileEdits + 1

(* The page being read: what was taken in and not noted is gone, which ends in raced. *)
There(content, versions) == {c \in content : c[2] = 0 \/ versions[c[1]] = c[2]}

ReadInv ==
  /\ stage # "read" => page = Nothing /\ reads = env
  /\ page = Nothing => left = <<>>
  /\ page # Nothing =>
       /\ page \in Pages
       /\ left \in Seq(Listed(page))
       /\ taken \subseteq Files \X (0 .. fileEdits + 1)
       /\ Held(There(taken, version), noted, Listed(page))

(* What the pages are parsed to depends on the configuration, which the first build
   makes. *)
Settled ==
  \/ config.subproject = (setting.srcdir # <<>>)
  \/ stage = "off" /\ \A p \in Pages : p \in env[p].newer

HeldInv == Stamps /\ ReadInv /\ Entries(env) /\ Entries(reads) /\ Settled

LEMMA ScopeRead ==
  ASSUME NEW d, NEW f \in Files, f \in Scope(d), version[f] > 0
  PROVE  f \in INC!Reads(d)
<1>1. \A fs : f \in fs => f \in INC!Present(fs)
  BY DEF INC!Present
<1>2. CASE d.kind \in {"xref", "warn"}
  BY <1>2 DEF Scope, INC!Reads
<1>3. CASE d.kind = "doc"
  BY <1>1, <1>3 DEF Scope, INC!Reads, INC!HandleArgs
<1>4. CASE d.kind = "abi"
  BY <1>1, <1>4 DEF Scope, INC!Reads
<1>5. CASE d.kind = "feat"
  BY <1>1, <1>5 DEF Scope, INC!Reads
<1>6. CASE d.kind = "plain"
  BY <1>1, <1>6 DEF Scope, INC!Reads
<1>7. CASE d.kind \notin {"xref", "warn", "doc", "abi", "feat", "plain"}
  BY <1>7 DEF Scope, INC!Reads
<1> QED
  BY <1>2, <1>3, <1>4, <1>5, <1>6, <1>7

(* What an entry holds decides what its page would take in now. *)
LEMMA HeldCurrent ==
  ASSUME Stamps, Entries(env)
  PROVE  IncludesCurrent
<1> SUFFICES ASSUME NEW p \in Pages \ Outdated, ~env[p].raced,
                    NEW c \in (env[p].content \ INC!FromScratch(Parsed(p).directives))
                                \cup (INC!FromScratch(Parsed(p).directives) \ env[p].content)
             PROVE  c[1] \in INC!Overlooked(Parsed(p).directives, env[p].content)
  BY DEF IncludesCurrent
<1> DEFINE ds == Parsed(p).directives
           held == env[p].content
           now == INC!FromScratch(ds)
<1>1. /\ p \notin env[p].newer
      /\ \A f \in env[p].deps : f \notin env[p].newer /\ version[f] # 0
  BY DEF Outdated
<1>2. /\ held \subseteq Files \X Nat
      /\ Held(held, env[p].deps, Listed(p))
      /\ \A a \in held : a[1] \in env[p].newer \/ version[a[1]] = a[2]
  BY <1>1 DEF Entries, Entry
<1>3. Listed(p) = {ds[k] : k \in 1 .. Len(ds)}
  BY DEF Listed, ToSet
<1>4. ASSUME NEW f \in Exceptions(Listed(p)) PROVE f \in INC!Overlooked(ds, held)
  BY <1>3 DEF Exceptions, INC!Overlooked
<1>5. ASSUME NEW a \in held, a[1] \notin Exceptions(Listed(p))
      PROVE  a[1] \in Files /\ version[a[1]] = a[2] /\ version[a[1]] > 0
  <2>1. a[1] \in env[p].deps /\ a[1] \in Files
    BY <1>2, <1>5 DEF Held
  <2>2. version[a[1]] \in Nat
    BY <2>1 DEF Stamps
  <2> QED
    BY <1>1, <1>2, <2>1, <2>2
<1>6. CASE c \in held /\ c[1] \notin Exceptions(Listed(p))
  <2>1. PICK d \in Listed(p) : c[1] \in Scope(d)
    BY <1>2, <1>6 DEF Held
  <2>2. c[1] \in INC!Reads(d)
    BY <1>5, <1>6, <2>1, ScopeRead
  <2>3. c = <<c[1], version[c[1]]>>
    BY <1>2, <1>5, <1>6
  <2>4. c \in now
    BY <1>3, <2>2, <2>3 DEF INC!FromScratch, INC!At
  <2> QED
    BY <1>6, <2>4
<1>7. CASE c \in now /\ c \notin held /\ c[1] \notin Exceptions(Listed(p))
  <2>1. PICK k \in 1 .. Len(ds) : c \in INC!At(INC!Reads(ds[k]), version)
    BY <1>7 DEF INC!FromScratch
  <2>2. c[1] \in INC!Reads(ds[k]) /\ c = <<c[1], version[c[1]]>>
    BY <2>1 DEF INC!At
  <2>3. \A v : <<c[1], v>> \notin held
    <3>1. ASSUME NEW v, <<c[1], v>> \in held PROVE FALSE
      <4>1. version[c[1]] = v
        BY <1>5, <1>7, <3>1
      <4> QED
        BY <1>7, <2>2, <3>1, <4>1
    <3> QED
      BY <3>1
  <2> QED
    BY <2>2, <2>3 DEF INC!Overlooked
<1> QED
  BY <1>4, <1>6, <1>7

LEMMA SameParsed ==
  ASSUME NEW p \in Pages, source'[p] = source[p], UNCHANGED setting,
         config'.subproject = config.subproject
  PROVE  Listed(p)' = Listed(p) /\ Parsed(p)' = Parsed(p)
<1>1. /\ CONF!Ignored(source'[p].at) = CONF!Ignored(source[p].at)
      /\ CONF!AddsIndex(config', setting'.srcdir, setting'.format, source'[p].at)
           <=> CONF!AddsIndex(config, setting.srcdir, setting.format, source[p].at)
  BY DEF CONF!AddsIndex
<1>2. Parsed(p)' = Parsed(p)
  BY <1>1 DEF Parsed, IndexDirective
<1> QED
  BY <1>2 DEF Listed

(* An entry stays as it is, if its page is parsed alike and the files whose versions
   change are newer; and so does one of a page that was edited. *)
LEMMA EntryKept ==
  ASSUME NEW e, NEW p, NEW ds, NEW vs, NEW ws, Entry(e, p, ds, vs),
         \A f \in Files \ e.newer : ws[f] = vs[f]
  PROVE  Entry(e, p, ds, ws)
BY DEF Entry

LEMMA EntryGrown ==
  ASSUME NEW e, NEW g, NEW p, NEW ds, NEW vs, Entry(e, p, ds, vs),
         g.content = e.content, g.deps = e.deps, g.raced = e.raced, e.newer \subseteq g.newer
  PROVE  Entry(g, p, ds, vs)
BY DEF Entry

LEMMA NewerKept ==
  ASSUME NEW e, NEW S, DOMAIN e = EntryFields
  PROVE  LET g == [e EXCEPT !.newer = S] IN
         /\ DOMAIN g = EntryFields
         /\ g.newer = S /\ g.content = e.content /\ g.deps = e.deps /\ g.raced = e.raced
BY DEF EntryFields

LEMMA UnchangedHeld ==
  ASSUME HeldInv,
         UNCHANGED <<setting, config, source, env, reads, stage, fileEdits, version, cache, page,
                     left, noted, taken>>
  PROVE  HeldInv'
<1>1. ASSUME NEW p \in Pages PROVE Listed(p)' = Listed(p)
  BY SameParsed
<1>2. Stamps' /\ Settled'
  BY DEF HeldInv, Stamps, Settled
<1>3. ReadInv'
  BY <1>1 DEF HeldInv, ReadInv
<1>4. Entries(env)' /\ Entries(reads)'
  BY <1>1 DEF HeldInv, Entries
<1> QED
  BY <1>2, <1>3, <1>4 DEF HeldInv

(* Of the files that the directive takes in, those that are still there are noted. *)
LEMMA RanHeld ==
  ASSUME HeldInv, page # Nothing, left # <<>>, UNCHANGED version, UNCHANGED buildVars,
         NEW deps, NEW files, NEW vs, INC!Ran(deps, files, vs),
         files \subseteq Scope(Head(left)) \cap Files,
         \A f \in files : vs[f] \in 0 .. fileEdits + 1,
         \A f \in files : vs[f] = 0 \/ version[f] = vs[f] =>
                            f \in deps \cup Exceptions(Listed(page)),
         DOMAIN cache' \subseteq DOMAIN cache \cup Files,
         \A f \in DOMAIN cache' : cache'[f] \in 0 .. fileEdits + 1
  PROVE  HeldInv'
<1> DEFINE ds == Listed(page)
<1>1. /\ noted' = noted \cup deps /\ taken' = taken \cup INC!At(files, vs)
      /\ left' = Tail(left) /\ page' = page
  BY DEF INC!Ran
<1>2. /\ UNCHANGED <<setting, config, source, env, reads, stage, fileEdits>>
  BY DEF buildVars
<1>3. /\ page \in Pages /\ left \in Seq(ds)
      /\ taken \subseteq Files \X (0 .. fileEdits + 1)
      /\ Held(There(taken, version), noted, ds)
  BY DEF HeldInv, ReadInv
<1>4. ASSUME NEW p \in Pages PROVE Listed(p)' = Listed(p)
  BY <1>2, SameParsed
<1>5. Listed(page)' = ds
  BY <1>1, <1>3, <1>4
<1> HIDE DEF ds
<1>6. Head(left) \in ds /\ Tail(left) \in Seq(ds)
  BY <1>3
<1>7. taken' \subseteq Files \X (0 .. fileEdits + 1)
  BY <1>1, <1>3 DEF INC!At
<1>8. Held(There(taken', version), noted', ds)
  <2> SUFFICES ASSUME NEW c \in taken', c[2] = 0 \/ version[c[1]] = c[2]
               PROVE  /\ \E d \in ds : c[1] \in Scope(d)
                      /\ c[1] \in noted' \cup Exceptions(ds)
    BY DEF Held, There
  <2>1. CASE c \in taken
    BY <1>1, <1>3, <2>1 DEF Held, There
  <2>2. CASE c \in INC!At(files, vs)
    <3>1. PICK f \in files : c = <<f, vs[f]>>
      BY <2>2 DEF INC!At
    <3>2. c[1] = f /\ c[2] = vs[f]
      BY <3>1
    <3>3. f \in Scope(Head(left)) /\ f \in deps \cup Exceptions(ds)
      BY <3>1, <3>2 DEF ds
    <3> QED
      BY <1>1, <1>6, <3>2, <3>3
  <2> QED
    BY <1>1, <2>1, <2>2
<1>9. ReadInv'
  <2>1. stage # "read" => page = Nothing /\ reads = env
    BY DEF HeldInv, ReadInv
  <2>2. left' \in Seq(ds)
    BY <1>1, <1>6
  <2> QED
    BY <1>1, <1>2, <1>3, <1>5, <1>7, <1>8, <2>1, <2>2 DEF ReadInv
<1>10. Stamps' /\ Settled'
  BY <1>2 DEF HeldInv, Stamps, Settled
<1>11. Entries(env)' /\ Entries(reads)'
  BY <1>2, <1>4 DEF HeldInv, Entries
<1> QED
  BY <1>9, <1>10, <1>11 DEF HeldInv

LEMMA ListedTyped ==
  ASSUME Sourced, NEW p \in Pages
  PROVE  /\ Listed(p) \subseteq INC!Directives
         /\ Parsed(p).directives \in Seq(Listed(p))
<1> DEFINE s == source[p]
           ds == Parsed(p).directives
<1>1. s.directives \in Seq(INC!Directives) /\ "directives" \in DOMAIN s
  <2>1. IsSource(s)
    BY SiteAssumption DEF Sourced
  <2> QED
    BY <2>1 DEF IsSource
<1>2. IndexDirective \in INC!Directives
  BY SiteAssumption DEF IndexDirective, INC!Directives, INC!Kinds
<1>3. ds \in {<<>>, s.directives, Append(s.directives, IndexDirective)}
  BY <1>1 DEF Parsed
<1>4. ds \in Seq(INC!Directives)
  <2>1. <<>> \in Seq(INC!Directives)
    OBVIOUS
  <2> HIDE DEF s, ds
  <2>2. Append(s.directives, IndexDirective) \in Seq(INC!Directives)
    BY <1>1, <1>2, AppendProperties
  <2> QED
    BY <1>1, <1>3, <2>1, <2>2
<1> HIDE DEF ds
<1>5. ToSet(ds) \subseteq INC!Directives /\ ds \in Seq(ToSet(ds))
  BY <1>4 DEF ToSet
<1> QED
  BY <1>5 DEF Listed, ds

LEMMA CacheGrown ==
  ASSUME Stamps, NEW fs \in SUBSET Files
  PROVE  /\ DOMAIN INC!Parsed(fs) = DOMAIN cache \cup fs
         /\ \A f \in DOMAIN INC!Parsed(fs) : INC!Parsed(fs)[f] \in 0 .. fileEdits + 1
         /\ \A f \in fs : INC!Parsed(fs)[f] = IF f \in DOMAIN cache THEN cache[f] ELSE version[f]
BY DEF Stamps, INC!Parsed

LEMMA IncludeHeld ==
  ASSUME Sourced, HeldInv, IncludeStep
  PROVE  HeldInv'
<1> DEFINE d == Head(left)
           ds == Listed(page)
<1>1. /\ UNCHANGED version /\ UNCHANGED buildVars /\ INC!Step
  BY DEF IncludeStep
<1>2. left # <<>>
  BY <1>1 DEF INC!Step, INC!PlainInclude, INC!KernelInclude, INC!MaintainersInclude, INC!KernelDoc,
              INC!KernelAbi, INC!KernelFeat, INC!Due
<1>3. page # Nothing /\ page \in Pages /\ left \in Seq(ds)
  BY <1>2 DEF HeldInv, ReadInv
<1>4. d \in ds /\ d \in INC!Directives
  BY <1>2, <1>3, ListedTyped
<1>5. d.kind \notin {"abi", "feat"} => d.file \in Files
  BY <1>4 DEF INC!Directives
<1>6. /\ Stamps /\ DOMAIN cache \subseteq DOMAIN cache \cup Files
      /\ \A f \in DOMAIN cache : cache[f] \in 0 .. fileEdits + 1
      /\ \A f \in Files : version[f] \in 0 .. fileEdits + 1
  BY DEF HeldInv, Stamps
<1>7. \A fs : INC!Present(fs) \subseteq fs
  BY DEF INC!Present
<1>8. \A dir : INC!In(dir) \subseteq Files
  BY DEF INC!In
<1>9. CASE INC!PlainInclude
  <2> DEFINE files == INC!Present({d.file})
  <2>1. /\ d.kind = "plain" /\ INC!Ran({d.file}, files, version) /\ cache' = cache
    BY <1>9 DEF INC!PlainInclude, INC!Due
  <2>2. files \subseteq {d.file} /\ {d.file} \subseteq Scope(d) \cap Files
    BY <1>5, <1>7, <2>1 DEF Scope
  <2> HIDE DEF files
  <2> QED
    BY <1>1, <1>2, <1>3, <1>6, <2>1, <2>2, RanHeld
<1>10. CASE INC!KernelInclude
  <2> DEFINE files == IF d.kind = "include" THEN INC!RawText(d) ELSE INC!XrefText(d)
  <2>1. /\ d.kind \in {"include", "xref", "warn"} /\ INC!Ran({d.file}, files, version)
        /\ cache' = cache
    BY <1>10 DEF INC!KernelInclude, INC!Due
  <2>2. files \subseteq Scope(d) \cap Files
    BY <1>5, <2>1 DEF Scope, INC!RawText, INC!XrefText
  <2>3. files \subseteq {d.file} \cup Exceptions(ds)
    BY <1>4, <2>1 DEF INC!RawText, INC!XrefText, Exceptions
  <2> HIDE DEF files
  <2> QED
    BY <1>1, <1>2, <1>3, <1>6, <2>1, <2>2, <2>3, RanHeld
<1>11. CASE INC!MaintainersInclude
  <2>1. /\ d.kind = "maintainers" /\ INC!Ran({d.file}, {d.file}, version) /\ cache' = cache
    BY <1>11 DEF INC!MaintainersInclude, INC!Due
  <2>2. {d.file} \subseteq Scope(d) \cap Files
    BY <1>5, <2>1 DEF Scope
  <2> QED
    BY <1>1, <1>2, <1>3, <1>6, <2>1, <2>2, RanHeld
<1>12. CASE INC!KernelDoc
  <2> DEFINE files == INC!HandleArgs(d)
  <2>1. /\ d.kind = "doc" /\ cache' = INC!Parsed(files) /\ INC!Ran(files, files, cache')
    BY <1>12 DEF INC!KernelDoc, INC!Due
  <2>2. files \subseteq Scope(d) \cap Files
    BY <1>5, <1>7, <1>8, <2>1 DEF Scope, INC!HandleArgs
  <2> HIDE DEF files
  <2>3. /\ DOMAIN cache' \subseteq DOMAIN cache \cup Files
        /\ \A f \in DOMAIN cache' : cache'[f] \in 0 .. fileEdits + 1
        /\ files \subseteq DOMAIN cache'
    BY <1>6, <2>1, <2>2, CacheGrown
  <2> QED
    BY <1>1, <1>2, <1>3, <2>1, <2>2, <2>3, RanHeld
<1>13. CASE INC!KernelAbi
  <2> DEFINE all == INC!In(AbiDir)
             files == {f \in all : cache'[f] > 0}
  <2>1. /\ d.kind = "abi" /\ cache' = INC!Parsed(all) /\ INC!Ran(INC!Present(files), files, cache')
    BY <1>13 DEF INC!KernelAbi, INC!Due
  <2>2. files \subseteq all /\ all \subseteq Scope(d) \cap Files
    BY <1>8, <2>1 DEF Scope
  <2>3. \A f \in files : cache'[f] > 0
    OBVIOUS
  <2>4. \A f \in files : version[f] > 0 => f \in INC!Present(files)
    BY DEF INC!Present
  <2> HIDE DEF files, all
  <2>5. /\ DOMAIN cache' \subseteq DOMAIN cache \cup Files
        /\ \A f \in DOMAIN cache' : cache'[f] \in 0 .. fileEdits + 1
        /\ files \subseteq DOMAIN cache'
    BY <1>6, <2>1, <2>2, CacheGrown
  <2>6. \A f \in files : cache'[f] = 0 \/ version[f] = cache'[f] => f \in INC!Present(files)
    BY <2>3, <2>4, <2>5
  <2> QED
    BY <1>1, <1>2, <1>3, <2>1, <2>2, <2>5, <2>6, RanHeld
<1>14. CASE INC!KernelFeat
  <2> DEFINE files == INC!Present(INC!In(d.dir))
  <2>1. /\ d.kind = "feat" /\ INC!Ran(files, files, version) /\ cache' = cache
    BY <1>14 DEF INC!KernelFeat, INC!Due
  <2>2. files \subseteq Scope(d) \cap Files
    BY <1>7, <1>8, <2>1 DEF Scope
  <2> HIDE DEF files
  <2> QED
    BY <1>1, <1>2, <1>3, <1>6, <2>1, <2>2, RanHeld
<1> QED
  BY <1>1, <1>9, <1>10, <1>11, <1>12, <1>13, <1>14 DEF INC!Step

LEMMA EditPageHeld ==
  ASSUME HeldInv, NEW p \in Pages, EditPage(p)
  PROVE  HeldInv'
<1>1. /\ stage = "off" /\ page = Nothing /\ reads = env /\ left = <<>>
      /\ UNCHANGED <<setting, config, stage, fileEdits, version, cache, page, left, noted, taken>>
      /\ reads' = env'
      /\ env' = [env EXCEPT ![p].newer = @ \cup {p}]
  BY DEF EditPage, includeVars, HeldInv, ReadInv
<1>2. \A q \in Pages \ {p} : source'[q] = source[q]
  <2>1. PICK s \in Revisions(source[p]) : source' = [source EXCEPT ![p] = s]
    BY DEF EditPage
  <2> QED
    BY <2>1
<1>3. ASSUME NEW q \in Pages \ {p} PROVE Listed(q)' = Listed(q)
  BY <1>1, <1>2, SameParsed
<1>4. /\ env' = [q \in Pages |-> env'[q]]
      /\ env'[p] = [env[p] EXCEPT !.newer = @ \cup {p}]
      /\ \A q \in Pages \ {p} : env'[q] = env[q]
  BY <1>1 DEF HeldInv, Entries
<1>5. DOMAIN env'[p] = EntryFields /\ env'[p].newer = env[p].newer \cup {p}
  BY <1>4, NewerKept DEF HeldInv, Entries
<1>6. ASSUME NEW q \in Pages
      PROVE  /\ DOMAIN env'[q] = EntryFields
             /\ env[q].newer \subseteq env'[q].newer
             /\ Entry(env'[q], q, Listed(q)', version')
  <2>1. CASE q = p
    BY <1>5, <2>1 DEF Entry
  <2>2. CASE q # p
    BY <1>1, <1>3, <1>4, <2>2 DEF HeldInv, Entries
  <2> QED
    BY <2>1, <2>2
<1>7. Entries(env)' /\ Entries(reads)'
  BY <1>1, <1>4, <1>6 DEF Entries
<1>8. Stamps' /\ ReadInv'
  BY <1>1 DEF HeldInv, Stamps, ReadInv
<1>9. Settled'
  BY <1>1, <1>6 DEF HeldInv, Settled
<1> QED
  BY <1>7, <1>8, <1>9 DEF HeldInv

(* Once a file has changed, the entries that hold another version say that it is newer. *)
EntriesOf(entries, L, versions) ==
  /\ entries = [p \in Pages |-> entries[p]]
  /\ \A p \in Pages : DOMAIN entries[p] = EntryFields
  /\ \A p \in Pages : Entry(entries[p], p, L[p], versions)

LEMMA NewerEntries ==
  ASSUME NEW entries, NEW f, NEW L, NEW vs, NEW ws, EntriesOf(entries, L, vs),
         \A g \in Files \ {f} : ws[g] = vs[g]
  PROVE  /\ EntriesOf(Newer(entries, f), L, ws)
         /\ \A p \in Pages : entries[p].newer \subseteq Newer(entries, f)[p].newer
<1>1. Newer(entries, f) = [p \in Pages |-> Newer(entries, f)[p]]
  BY DEF Newer
<1>2. ASSUME NEW p \in Pages
      PROVE  /\ DOMAIN Newer(entries, f)[p] = EntryFields
             /\ entries[p].newer \subseteq Newer(entries, f)[p].newer
             /\ Entry(Newer(entries, f)[p], p, L[p], ws)
  <2> DEFINE e == entries[p]
             g == Newer(entries, f)[p]
  <2>1. g = [e EXCEPT !.newer = e.newer \cup {f}] /\ DOMAIN e = EntryFields
    BY DEF Newer, EntriesOf
  <2>2. Entry(e, p, L[p], vs)
    BY DEF EntriesOf
  <2> HIDE DEF e, g
  <2>3. /\ DOMAIN g = EntryFields /\ g.newer = e.newer \cup {f}
        /\ g.content = e.content /\ g.deps = e.deps /\ g.raced = e.raced
    BY <2>1, NewerKept
  <2>4. Entry(g, p, L[p], vs)
    BY <2>2, <2>3, EntryGrown
  <2>5. Entry(g, p, L[p], ws)
    BY <2>3, <2>4, EntryKept
  <2> QED
    BY <2>3, <2>5 DEF e, g
<1> QED
  BY <1>1, <1>2 DEF EntriesOf

LEMMA EditFileHeld ==
  ASSUME HeldInv, NEW f \in Files, EditFile(f)
  PROVE  HeldInv'
<1>1. /\ UNCHANGED <<setting, config, source, stage, cache, page, left, noted, taken>>
      /\ fileEdits' = fileEdits + 1 /\ stage \in {"off", "read"}
      /\ env' = Newer(env, f) /\ reads' = Newer(reads, f)
  BY DEF EditFile
<1>2. PICK v \in {0, fileEdits + 2} \ {version[f]} : version' = [version EXCEPT ![f] = v]
  BY DEF EditFile
<1>3. ASSUME NEW p \in Pages PROVE Listed(p)' = Listed(p)
  BY <1>1, SameParsed
<1>4. fileEdits \in Nat /\ \A g \in Files \ {f} : version'[g] = version[g]
  BY <1>2 DEF HeldInv, Stamps
<1>5. Stamps'
  BY <1>1, <1>2 DEF HeldInv, Stamps
<1>6. Entries(env)' /\ \A p \in Pages : env[p].newer \subseteq env'[p].newer
  <2> DEFINE L == [p \in Pages |-> Listed(p)]
  <2>1. EntriesOf(env, L, version)
    BY DEF HeldInv, Entries, EntriesOf
  <2>2. /\ EntriesOf(Newer(env, f), L, version')
        /\ \A p \in Pages : env[p].newer \subseteq Newer(env, f)[p].newer
    BY <1>4, <2>1, NewerEntries
  <2> QED
    BY <1>1, <1>3, <2>2 DEF Entries, EntriesOf
<1>7. Entries(reads)'
  <2> DEFINE L == [p \in Pages |-> Listed(p)]
  <2>1. EntriesOf(reads, L, version)
    BY DEF HeldInv, Entries, EntriesOf
  <2>2. /\ EntriesOf(Newer(reads, f), L, version')
        /\ \A p \in Pages : reads[p].newer \subseteq Newer(reads, f)[p].newer
    BY <1>4, <2>1, NewerEntries
  <2> QED
    BY <1>1, <1>3, <2>2 DEF Entries, EntriesOf
<1>8. ReadInv'
  <2>1. ASSUME page # Nothing
        PROVE  /\ taken \subseteq Files \X (0 .. fileEdits' + 1)
               /\ Held(There(taken, version'), noted, Listed(page))
    <3>1. /\ taken \subseteq Files \X (0 .. fileEdits + 1)
          /\ Held(There(taken, version), noted, Listed(page))
      BY <2>1 DEF HeldInv, ReadInv
    <3>2. There(taken, version') \subseteq There(taken, version)
      <4> SUFFICES ASSUME NEW c \in taken, c[2] # 0, version'[c[1]] = c[2]
                   PROVE  version[c[1]] = c[2]
        BY DEF There
      <4>1. c[1] \in Files /\ c[2] \in 0 .. fileEdits + 1
        BY <3>1
      <4>2. c[1] # f
        BY <1>2, <1>4, <4>1 DEF HeldInv, Stamps
      <4> QED
        BY <1>4, <4>1, <4>2
    <3> QED
      BY <1>1, <1>4, <3>1, <3>2 DEF Held
  <2>2. stage # "read" => page = Nothing /\ reads' = env'
    BY <1>1 DEF HeldInv, ReadInv
  <2> QED
    BY <1>1, <1>3, <2>1, <2>2 DEF HeldInv, ReadInv
<1>9. Settled'
  BY <1>1, <1>6 DEF HeldInv, Settled
<1> QED
  BY <1>5, <1>6, <1>7, <1>8, <1>9 DEF HeldInv

LEMMA StartBuildHeld ==
  ASSUME HeldInv, StartBuild
  PROVE  HeldInv'
<1>1. /\ stage = "off" /\ stage' = "read" /\ page = Nothing /\ left = <<>> /\ reads = env
      /\ UNCHANGED <<setting, source, env, reads, fileEdits, version, cache, page, left, noted, taken>>
      /\ config'.subproject = (setting.srcdir # <<>>)
  BY DEF StartBuild, HeldInv, ReadInv, CONF!ConfigInit
<1>2. CASE config.subproject = (setting.srcdir # <<>>)
  <2>1. \A p \in Pages : Listed(p)' = Listed(p)
    BY <1>1, <1>2, SameParsed
  <2> QED
    BY <1>1, <2>1 DEF HeldInv, Entries, Stamps, ReadInv, Settled
<1>3. CASE \A p \in Pages : p \in env[p].newer
  BY <1>1, <1>3 DEF HeldInv, Entries, Entry, Stamps, ReadInv, Settled
<1> QED
  BY <1>2, <1>3 DEF HeldInv, Settled

LEMMA ReadPageHeld ==
  ASSUME Sourced, HeldInv, NEW p \in Pages, ReadPage(p)
  PROVE  HeldInv'
<1>1. /\ UNCHANGED <<setting, config, source, env, reads, stage, fileEdits, version>>
      /\ stage = "read" /\ page' = p /\ left' = Parsed(p).directives
      /\ noted' = {} /\ taken' = {} /\ cache' \in {cache, << >>}
  BY DEF ReadPage, INC!Begin
<1>2. ASSUME NEW q \in Pages PROVE Listed(q)' = Listed(q)
  BY <1>1, SameParsed
<1>3. Stamps'
  <2>1. DOMAIN << >> = {}
    OBVIOUS
  <2> QED
    BY <1>1, <2>1 DEF HeldInv, Stamps
<1>4. ReadInv'
  <2>1. left' \in Seq(Listed(p)')
    BY <1>1, <1>2, ListedTyped
  <2>2. page' # Nothing
    BY <1>1, SiteAssumption
  <2> QED
    BY <1>1, <2>1, <2>2 DEF ReadInv, Held, There
<1>5. Entries(env)' /\ Entries(reads)' /\ Settled'
  BY <1>1, <1>2 DEF HeldInv, Entries, Settled
<1> QED
  BY <1>3, <1>4, <1>5 DEF HeldInv

(* If nothing that was taken in has changed, all of it is there: and what is there is
   noted. *)
LEMMA EndPageHeld ==
  ASSUME HeldInv, EndPage
  PROVE  HeldInv'
<1>1. /\ UNCHANGED <<setting, config, source, env, stage, fileEdits, version, cache, left>>
      /\ page # Nothing /\ left = <<>> /\ page' = Nothing
  BY DEF EndPage, INC!End
<1>2. /\ stage = "read" /\ page \in Pages
      /\ taken \subseteq Files \X (0 .. fileEdits + 1)
      /\ Held(There(taken, version), noted, Listed(page))
  BY <1>1 DEF HeldInv, ReadInv
<1>3. ASSUME NEW p \in Pages PROVE Listed(p)' = Listed(p)
  BY <1>1, SameParsed
<1> DEFINE e == [declares |-> Parsed(page).declares, languages |-> TR!Wanted(Docname(page)),
                 deps |-> noted, content |-> taken, newer |-> {},
                 raced |-> \E c \in taken : version[c[1]] # c[2]]
<1>4. reads' = [reads EXCEPT ![page] = e]
  BY DEF EndPage
<1>5. /\ DOMAIN e = EntryFields
      /\ e.deps = noted /\ e.content = taken /\ e.newer = {}
      /\ e.raced = \E c \in taken : version[c[1]] # c[2]
  BY DEF EntryFields
<1> HIDE DEF e
<1>6. Entry(e, page, Listed(page), version)
  <2> SUFFICES ASSUME \A c \in taken : version[c[1]] = c[2]
               PROVE  /\ taken \subseteq Files \X Nat
                      /\ Held(taken, noted, Listed(page))
    BY <1>5 DEF Entry
  <2>1. There(taken, version) = taken
    BY DEF There
  <2> QED
    BY <1>2, <2>1 DEF HeldInv, Stamps
<1>7. Entries(reads)'
  <2>1. reads = [p \in Pages |-> reads[p]]
    BY DEF HeldInv, Entries
  <2>2. reads'[page] = e /\ \A p \in Pages \ {page} : reads'[p] = reads[p]
    BY <1>2, <1>4, <2>1
  <2>3. reads' = [p \in Pages |-> reads'[p]]
    BY <1>4, <2>1
  <2>4. ASSUME NEW p \in Pages
        PROVE  DOMAIN reads'[p] = EntryFields /\ Entry(reads'[p], p, Listed(p), version)
    BY <1>5, <1>6, <2>2 DEF HeldInv, Entries
  <2> QED
    BY <1>1, <1>3, <2>3, <2>4 DEF Entries
<1>8. Entries(env)' /\ Settled' /\ Stamps' /\ ReadInv'
  BY <1>1, <1>2, <1>3 DEF HeldInv, Entries, Settled, Stamps, ReadInv
<1> QED
  BY <1>7, <1>8 DEF HeldInv

LEMMA EndReadingHeld ==
  ASSUME HeldInv, EndReading
  PROVE  HeldInv'
<1>1. /\ UNCHANGED <<setting, config, source, reads, fileEdits, version, cache, page, left, noted, taken>>
      /\ stage = "read" /\ page = Nothing /\ env' = reads
  BY DEF EndReading, includeVars
<1>2. ASSUME NEW p \in Pages PROVE Listed(p)' = Listed(p)
  BY <1>1, SameParsed
<1>3. Entries(env)' /\ Entries(reads)'
  BY <1>1, <1>2 DEF HeldInv, Entries
<1>4. Settled' /\ Stamps' /\ ReadInv'
  BY <1>1 DEF HeldInv, Settled, Stamps, ReadInv
<1> QED
  BY <1>3, <1>4 DEF HeldInv

LEMMA EndProcessHeld ==
  ASSUME HeldInv, EndProcess
  PROVE  HeldInv'
<1>1. /\ UNCHANGED <<setting, config, source, env, fileEdits, version>>
      /\ stage' = "off" /\ page' = Nothing /\ left' = <<>> /\ reads' = env /\ cache' = << >>
  BY DEF EndProcess
<1>2. ASSUME NEW p \in Pages PROVE Listed(p)' = Listed(p)
  BY <1>1, SameParsed
<1>3. Entries(env)' /\ Entries(reads)'
  BY <1>1, <1>2 DEF HeldInv, Entries
<1>4. Settled' /\ ReadInv'
  BY <1>1 DEF HeldInv, Settled, ReadInv
<1>5. Stamps'
  <2>1. DOMAIN << >> = {}
    OBVIOUS
  <2> QED
    BY <1>1, <2>1 DEF HeldInv, Stamps
<1> QED
  BY <1>3, <1>4, <1>5 DEF HeldInv

LEMMA InitHeld == Init => HeldInv
<1> SUFFICES ASSUME Init PROVE HeldInv
  OBVIOUS
<1>1. /\ config = CONF!NoConfig /\ stage = "off" /\ fileEdits = 0
      /\ env = [p \in Pages |-> Unread(p)] /\ reads = env
      /\ version = [f \in Files |-> 1] /\ cache = << >> /\ page = Nothing /\ left = <<>>
  BY DEF Init, INC!Init
<1>2. DOMAIN << >> = {}
  OBVIOUS
<1>3. \A p \in Pages : DOMAIN env[p] = EntryFields /\ p \in env[p].newer
  BY <1>1 DEF Unread, EntryFields
<1>4. Stamps /\ ReadInv /\ Settled
  BY <1>1, <1>2, <1>3 DEF Stamps, ReadInv, Settled
<1>5. Entries(env) /\ Entries(reads)
  BY <1>1, <1>3 DEF Entries, Entry
<1> QED
  BY <1>4, <1>5 DEF HeldInv

LEMMA NextHeld ==
  ASSUME Sourced, HeldInv, [Next]_vars
  PROVE  HeldInv'
<1>1. ASSUME NEW p \in Pages, EditPage(p) \/ ReadPage(p) PROVE HeldInv'
  BY <1>1, EditPageHeld, ReadPageHeld
<1>2. ASSUME NEW p \in Pages, WritePage(p) PROVE HeldInv'
  BY <1>2, UnchangedHeld DEF WritePage, includeVars, HeldInv, ReadInv
<1>3. ASSUME NEW f \in Files, EditFile(f) PROVE HeldInv'
  BY <1>3, EditFileHeld
<1>4. CASE StartBuild \/ EndPage \/ EndReading \/ IncludeStep
  BY <1>4, StartBuildHeld, EndPageHeld, EndReadingHeld, IncludeHeld
<1>5. CASE TableStep \/ MarkStep
  BY <1>5, UnchangedHeld DEF TableStep, MarkStep, buildVars, includeVars
<1>6. CASE EndBuild \/ Crash \/ Kill
  BY <1>6, EndProcessHeld DEF EndBuild, Crash, Kill
<1>7. CASE UNCHANGED vars
  BY <1>7, UnchangedHeld DEF vars, buildVars, includeVars
<1> QED
  BY <1>1, <1>2, <1>3, <1>4, <1>5, <1>6, <1>7 DEF Next

(* Whatever files the pages take in, by whichever directives, and however builds, crashes,
   kills and edits follow one another: what a page holds and will not be read again for is
   what it would hold if it were read now, but for the three exceptions of the property. *)
THEOREM PagesHoldTheirFiles == Spec => []IncludesCurrent
<1> DEFINE Inv == Sourced /\ HeldInv
<1>1. Init => Inv
  BY InitSourced, InitHeld
<1>2. Inv /\ [Next]_vars => Inv'
  BY NextSourced, NextHeld
<1>3. Inv => IncludesCurrent
  BY HeldCurrent DEF HeldInv
<1> HIDE DEF Inv
<1> QED
  BY <1>1, <1>2, <1>3, PTL DEF Spec

----------------------------------------------------------------------------
(* Documents and their translations. *)

(* The names of directories and documents, and the languages, for a document's docname. *)
Tokens == STRING \cup {"translations"} \cup TR!AllLanguages

(* The directory of the original, see Original. *)
OriginalDir(dir) ==
  IF Len(dir) > 1 /\ dir[1] = "translations" THEN SubSeq(dir, 3, Len(dir)) ELSE dir

LEMMA AppendEach ==
  ASSUME NEW T, NEW d \in Seq(T), NEW n \in T
  PROVE  /\ Append(d, n) \in Seq(T)
         /\ Len(d) \in Nat
         /\ Len(Append(d, n)) = Len(d) + 1
         /\ \A k \in 1 .. Len(d) : Append(d, n)[k] = d[k]
         /\ Append(d, n)[Len(d) + 1] = n
OBVIOUS

(* A document with what stands before it, taken from a sequence. *)
LEMMA TailEach ==
  ASSUME NEW T, NEW s \in Seq(T), Len(s) > 1
  PROVE  /\ SubSeq(s, 3, Len(s)) \in Seq(T)
         /\ Len(SubSeq(s, 3, Len(s))) = Len(s) - 2
         /\ \A k \in 1 .. Len(s) - 2 : SubSeq(s, 3, Len(s))[k] = s[k + 2]
<1>0. Len(s) \in Nat
  OBVIOUS
<1> DEFINE u == SubSeq(s, 3, Len(s))
<1>1. Len(s) \in Nat /\ \A k \in 3 .. Len(s) : s[k] \in T
  OBVIOUS
<1>2. /\ u \in Seq(T)
      /\ Len(u) = IF 3 <= Len(s) THEN Len(s) - 3 + 1 ELSE 0
      /\ \A k \in 1 .. Len(s) - 3 + 1 : u[k] = s[3 + k - 1]
  BY <1>1, SubSeqProperties
<1> HIDE DEF u
<1>3. Len(u) = Len(s) - 2
  <2>1. CASE 3 <= Len(s)
    BY <1>1, <1>2, <2>1
  <2>2. CASE ~(3 <= Len(s))
    <3>1. \A n \in Nat : n > 1 /\ ~(3 <= n) => n - 2 = 0
      OBVIOUS
    <3>2. Len(s) - 2 = 0
      BY <1>0, <2>2, <3>1
    <3> QED
      BY <1>2, <2>2, <3>2
  <2> QED
    BY <2>1, <2>2
<1>4. \A k \in 1 .. Len(s) - 2 : 3 + k - 1 = k + 2 /\ k \in 1 .. Len(s) - 3 + 1
  BY <1>1
<1>5. u \in Seq(T) /\ Len(u) = Len(s) - 2 /\ \A k \in 1 .. Len(s) - 2 : u[k] = s[k + 2]
  BY <1>2, <1>3, <1>4
<1> QED
  BY <1>5 DEF u

(* The document that a language has of another. *)
LEMMA InOther ==
  ASSUME NEW T, NEW u \in Seq(T), Len(u) > 0, "translations" \in T, NEW l \in T, l # TR!English
  PROVE  /\ TR!In(l, u) \in Seq(T)
         /\ Len(TR!In(l, u)) = Len(u) + 2
         /\ TR!In(l, u)[1] = "translations" /\ TR!In(l, u)[2] = l
         /\ \A k \in 1 .. Len(u) : TR!In(l, u)[k + 2] = u[k]
<1> DEFINE h == <<"translations", l>>
           v == h \o u
<1>1. h \in Seq(T) /\ Len(h) = 2 /\ h[1] = "translations" /\ h[2] = l /\ Len(u) \in Nat
  OBVIOUS
<1>2. TR!In(l, u) = v
  BY DEF TR!In
<1> HIDE DEF h
<1>3. /\ v \in Seq(T) /\ Len(v) = Len(h) + Len(u)
      /\ \A k \in 1 .. Len(h) + Len(u) : v[k] = IF k <= Len(h) THEN h[k] ELSE u[k - Len(h)]
  BY <1>1, ConcatProperties
<1> HIDE DEF v
<1>4. v[1] = "translations" /\ v[2] = l
  BY <1>1, <1>3
<1>5. ASSUME NEW k \in 1 .. Len(u) PROVE v[k + 2] = u[k]
  <2>1. k + 2 \in 1 .. Len(h) + Len(u) /\ ~(k + 2 <= Len(h)) /\ k + 2 - Len(h) = k
    BY <1>1
  <2> QED
    BY <1>3, <2>1
<1> QED
  BY <1>1, <1>2, <1>3, <1>4, <1>5

(* A document that is not itself a translation, in a language: both can be told from it. *)
LEMMA InKnown ==
  ASSUME NEW T, NEW u \in Seq(T), Len(u) > 0, ~TR!IsTranslation(u), "translations" \in T,
         NEW l \in T
  PROVE  TR!ThisLanguage(TR!In(l, u)) = l /\ TR!Untranslated(TR!In(l, u)) = u
<1>1. CASE l = TR!English
  BY <1>1 DEF TR!In, TR!ThisLanguage, TR!Untranslated
<1>2. CASE l # TR!English
  <2> DEFINE v == TR!In(l, u)
             w == SubSeq(v, 3, Len(v))
  <2>1. /\ v \in Seq(T) /\ Len(u) \in Nat /\ Len(v) = Len(u) + 2
        /\ v[1] = "translations" /\ v[2] = l
        /\ \A k \in 1 .. Len(u) : v[k + 2] = u[k]
    BY <1>2, InOther
  <2> HIDE DEF v
  <2>2. TR!IsTranslation(v)
    BY <2>1 DEF TR!IsTranslation
  <2>3. w \in Seq(T) /\ Len(w) = Len(v) - 2 /\ \A k \in 1 .. Len(v) - 2 : w[k] = v[k + 2]
    BY <2>1, TailEach
  <2> HIDE DEF w
  <2>4. w = u
    <3>1. Len(w) = Len(u)
      BY <2>1, <2>3
    <3>2. \A k \in 1 .. Len(u) : w[k] = u[k]
      BY <2>1, <2>3, <3>1
    <3> QED
      BY <2>3, <3>1, <3>2, SeqEqual
  <2> QED
    BY <2>1, <2>2, <2>4 DEF v, w, TR!ThisLanguage, TR!Untranslated
<1> QED
  BY <1>1, <1>2

(* A document is that of its language. *)
LEMMA InOwn ==
  ASSUME NEW T, NEW v \in Seq(T), "translations" \in T, ~TR!UnknownLanguage(v)
  PROVE  TR!In(TR!ThisLanguage(v), TR!Untranslated(v)) = v
<1>1. CASE ~TR!IsTranslation(v)
  BY <1>1 DEF TR!In, TR!ThisLanguage, TR!Untranslated
<1>2. CASE TR!IsTranslation(v)
  <2> DEFINE l == v[2]
             u == SubSeq(v, 3, Len(v))
             w == TR!In(l, u)
  <2>1. v[1] = "translations" /\ Len(v) \in Nat /\ Len(v) > 2 /\ l \in TR!Others /\ l \in T
    BY <1>2 DEF TR!IsTranslation, TR!UnknownLanguage
  <2>2. l # TR!English
    BY <2>1 DEF TR!Others, TR!English
  <2>3. u \in Seq(T) /\ Len(u) = Len(v) - 2 /\ \A k \in 1 .. Len(v) - 2 : u[k] = v[k + 2]
    BY <2>1, TailEach
  <2> HIDE DEF u, l
  <2>4. /\ w \in Seq(T) /\ Len(w) = Len(u) + 2
        /\ w[1] = "translations" /\ w[2] = l
        /\ \A k \in 1 .. Len(u) : w[k + 2] = u[k]
    <3>1. Len(u) > 0
      BY <2>1, <2>3
    <3> QED
      BY <2>1, <2>2, <2>3, <3>1, InOther
  <2> HIDE DEF w
  <2>5. Len(w) = Len(v)
    BY <2>1, <2>3, <2>4
  <2>6. ASSUME NEW k \in 1 .. Len(v) PROVE w[k] = v[k]
    <3>1. CASE k = 1
      BY <2>1, <2>4, <3>1
    <3>2. CASE k = 2
      BY <2>4, <3>2 DEF l
    <3>3. CASE k > 2
      <4>1. k - 2 \in 1 .. Len(v) - 2 /\ k - 2 + 2 = k
        BY <2>1, <3>3
      <4>2. k - 2 \in 1 .. Len(u)
        BY <2>3, <4>1
      <4> QED
        BY <2>3, <2>4, <4>1, <4>2
    <3> QED
      BY <2>1, <3>1, <3>2, <3>3
  <2>7. w = v
    BY <2>4, <2>5, <2>6, SeqEqual
  <2> QED
    BY <1>2, <2>7 DEF l, u, w, TR!ThisLanguage, TR!Untranslated
<1> QED
  BY <1>1, <1>2

(* The original of a document, in its directory. *)
LEMMA OriginalOf ==
  ASSUME NEW T, NEW d \in Seq(T), NEW n \in T
  PROVE  /\ OriginalDir(d) \in Seq(T)
         /\ TR!Untranslated(Append(d, n)) = Append(OriginalDir(d), n)
         /\ ~TranslatedTwice(d) => ~TR!IsTranslation(Append(OriginalDir(d), n))
<1> DEFINE v == Append(d, n)
<1>1. /\ v \in Seq(T) /\ Len(d) \in Nat /\ Len(v) = Len(d) + 1
      /\ \A k \in 1 .. Len(d) : v[k] = d[k]
      /\ v[Len(d) + 1] = n
  BY AppendEach
<1> HIDE DEF v
<1>2. TR!IsTranslation(v) <=> Len(d) > 1 /\ d[1] = "translations"
  <2>1. ASSUME Len(d) > 1 PROVE v[1] = d[1] /\ Len(v) > 2
    BY <1>1, <2>1
  <2>2. ASSUME ~(Len(d) > 1) PROVE ~(Len(v) > 2)
    BY <1>1, <2>2
  <2> QED
    BY <2>1, <2>2 DEF TR!IsTranslation
<1>3. CASE ~TR!IsTranslation(v)
  <2>1. OriginalDir(d) = d /\ TR!Untranslated(v) = v
    BY <1>2, <1>3 DEF OriginalDir, TR!Untranslated
  <2> QED
    BY <1>3, <2>1 DEF v
<1>4. CASE TR!IsTranslation(v)
  <2> DEFINE o == SubSeq(d, 3, Len(d))
             w == SubSeq(v, 3, Len(v))
             z == Append(o, n)
  <2>1. Len(d) > 1 /\ d[1] = "translations" /\ Len(v) > 1 /\ Len(v) - 2 = Len(d) - 2 + 1
    BY <1>1, <1>2, <1>4
  <2>2. OriginalDir(d) = o /\ TR!Untranslated(v) = w
    BY <1>4, <2>1 DEF OriginalDir, TR!Untranslated
  <2>3. o \in Seq(T) /\ Len(o) = Len(d) - 2 /\ \A k \in 1 .. Len(d) - 2 : o[k] = d[k + 2]
    BY <2>1, TailEach
  <2>4. w \in Seq(T) /\ Len(w) = Len(v) - 2 /\ \A k \in 1 .. Len(v) - 2 : w[k] = v[k + 2]
    BY <1>1, <2>1, TailEach
  <2> HIDE DEF o, w
  <2>5. /\ z \in Seq(T) /\ Len(z) = Len(o) + 1
        /\ \A k \in 1 .. Len(o) : z[k] = o[k]
        /\ z[Len(o) + 1] = n
    BY <2>3, AppendEach
  <2> HIDE DEF z
  <2>6. Len(w) = Len(z)
    BY <2>1, <2>3, <2>4, <2>5
  <2>7. ASSUME NEW k \in 1 .. Len(w) PROVE w[k] = z[k]
    <3>1. k \in 1 .. Len(v) - 2 /\ w[k] = v[k + 2]
      BY <2>4, <2>7
    <3>2. CASE k <= Len(o)
      <4>1. k \in 1 .. Len(o) /\ k \in 1 .. Len(d) - 2 /\ k + 2 \in 1 .. Len(d)
        BY <1>1, <2>3, <2>7, <3>2
      <4> QED
        BY <1>1, <2>3, <2>5, <3>1, <4>1
    <3>3. CASE ~(k <= Len(o))
      <4>1. k = Len(o) + 1 /\ k + 2 = Len(d) + 1
        BY <1>1, <2>1, <2>3, <3>1, <3>3
      <4> QED
        BY <1>1, <2>5, <3>1, <4>1
    <3> QED
      BY <3>2, <3>3
  <2>8. w = z
    BY <2>4, <2>5, <2>6, <2>7, SeqEqual
  <2>9. ASSUME TR!IsTranslation(z) PROVE TranslatedTwice(d)
    <3>1. z[1] = "translations" /\ Len(z) > 2
      BY <2>9 DEF TR!IsTranslation
    <3>2. Len(d) > 3 /\ 1 \in 1 .. Len(o) /\ 1 \in 1 .. Len(d) - 2
      BY <1>1, <2>1, <2>3, <2>5, <3>1
    <3>3. d[3] = "translations"
      BY <2>3, <2>5, <3>1, <3>2
    <3> QED
      BY <2>1, <3>2, <3>3 DEF TranslatedTwice
  <2> QED
    BY <2>2, <2>3, <2>8, <2>9 DEF v, z
<1> QED
  BY <1>3, <1>4

LEMMA AppendSame ==
  ASSUME NEW T, NEW d \in Seq(T), NEW e \in Seq(T), NEW n \in T, NEW m \in T,
         Append(d, n) = Append(e, m)
  PROVE  d = e /\ n = m
<1> DEFINE v == Append(d, n)
           w == Append(e, m)
<1>1. /\ Len(d) \in Nat /\ Len(v) = Len(d) + 1
      /\ \A k \in 1 .. Len(d) : v[k] = d[k]
      /\ v[Len(d) + 1] = n
  BY AppendEach
<1>2. /\ Len(e) \in Nat /\ Len(w) = Len(e) + 1
      /\ \A k \in 1 .. Len(e) : w[k] = e[k]
      /\ w[Len(e) + 1] = m
  BY AppendEach
<1>3. v = w
  OBVIOUS
<1> HIDE DEF v, w
<1>4. Len(d) = Len(e)
  BY <1>1, <1>2, <1>3
<1>5. \A k \in 1 .. Len(d) : d[k] = e[k]
  BY <1>1, <1>2, <1>3, <1>4
<1>6. d = e
  BY <1>4, <1>5, SeqEqual
<1> QED
  BY <1>1, <1>2, <1>3, <1>4, <1>6

(* A document of a full build that is in a language of the menu, and not a translation of a
   translation. *)
IsPlaced(T, d, n) ==
  /\ d \in Seq(T) /\ n \in T
  /\ ~TranslatedTwice(d)
  /\ ~TR!UnknownLanguage(Append(d, n))

(* The links of a document lead to the others of the same name in the same original
   directory. *)
LEMMA LinksOf ==
  ASSUME NEW T, "translations" \in T, TR!AllLanguages \subseteq T,
         NEW d, NEW n, IsPlaced(T, d, n), NEW e, NEW m, IsPlaced(T, e, m)
  PROVE  Append(e, m) \in TR!Wanted(Append(d, n)) <=>
           /\ Append(e, m) # Append(d, n)
           /\ OriginalDir(e) = OriginalDir(d) /\ m = n
<1> DEFINE v == Append(d, n)
           w == Append(e, m)
           o == OriginalDir(d)
           q == OriginalDir(e)
           u == Append(o, n)
           z == Append(q, m)
<1>1. /\ d \in Seq(T) /\ n \in T /\ ~TranslatedTwice(d) /\ ~TR!UnknownLanguage(v)
      /\ e \in Seq(T) /\ m \in T /\ ~TranslatedTwice(e) /\ ~TR!UnknownLanguage(w)
  BY DEF IsPlaced
<1>2. v \in Seq(T) /\ w \in Seq(T)
  BY <1>1, AppendEach
<1>3. o \in Seq(T) /\ TR!Untranslated(v) = u /\ ~TR!IsTranslation(u)
  BY <1>1, OriginalOf
<1>4. q \in Seq(T) /\ TR!Untranslated(w) = z
  BY <1>1, OriginalOf
<1> HIDE DEF v, w, o, q
<1>5. u \in Seq(T) /\ Len(u) > 0
  BY <1>1, <1>3, AppendEach
<1>6. TR!ThisLanguage(w) \in TR!AllLanguages
  <2>1. CASE TR!IsTranslation(w)
    BY <1>1, <2>1 DEF TR!UnknownLanguage, TR!ThisLanguage, TR!AllLanguages
  <2>2. CASE ~TR!IsTranslation(w)
    BY <2>2 DEF TR!ThisLanguage, TR!AllLanguages
  <2> QED
    BY <2>1, <2>2
<1>7. TR!In(TR!ThisLanguage(v), u) = v
  BY <1>1, <1>2, <1>3, InOwn
<1>8. TR!In(TR!ThisLanguage(w), z) = w
  BY <1>1, <1>2, <1>4, InOwn
<1>9. w \in TR!Wanted(v) <=>
        \E l \in TR!AllLanguages : l # TR!ThisLanguage(v) /\ w = TR!In(l, u)
  BY <1>3 DEF TR!Wanted
<1>10. ASSUME w \in TR!Wanted(v) PROVE w # v /\ q = o /\ m = n
  <2>1. PICK l \in TR!AllLanguages : l # TR!ThisLanguage(v) /\ w = TR!In(l, u)
    BY <1>9, <1>10
  <2> HIDE DEF u
  <2>2. TR!ThisLanguage(w) = l /\ TR!Untranslated(w) = u
    <3>1. l \in T
      OBVIOUS
    <3> QED
      BY <1>3, <1>5, <2>1, <3>1, InKnown
  <2>3. Append(q, m) = Append(o, n)
    BY <1>4, <2>2 DEF u
  <2>4. q = o /\ m = n
    BY <1>1, <1>3, <1>4, <2>3, AppendSame
  <2> QED
    BY <2>1, <2>2, <2>4
<1>11. ASSUME w # v, q = o, m = n PROVE w \in TR!Wanted(v)
  <2>1. z = u
    BY <1>11
  <2>2. TR!ThisLanguage(w) # TR!ThisLanguage(v)
    BY <1>7, <1>8, <1>11, <2>1
  <2> QED
    BY <1>6, <1>8, <1>9, <2>1, <2>2
<1> QED
  BY <1>10, <1>11 DEF v, w, o, q

----------------------------------------------------------------------------
(* The links of a text. *)

LEMMA Joined ==
  ASSUME NEW u, NEW v
  PROVE  /\ <<>> \o <<>> = <<>> /\ <<u>> \o <<>> = <<u>> /\ <<>> \o <<u>> = <<u>>
         /\ <<u>> \o <<v>> = <<u, v>>
<1> DEFINE S == {u, v}
           p == <<u>>
           q == <<v>>
           r == <<u, v>>
<1>1. p \in Seq(S) /\ <<>> \in Seq(S)
  OBVIOUS
<1>2. <<>> \o <<>> = <<>> /\ p \o <<>> = p /\ <<>> \o p = p
  BY <1>1, ConcatEmptySeq
<1>3. /\ p \in Seq(S) /\ q \in Seq(S) /\ r \in Seq(S)
      /\ Len(p) = 1 /\ Len(q) = 1 /\ Len(r) = 2
      /\ p[1] = u /\ q[1] = v /\ r[1] = u /\ r[2] = v
  OBVIOUS
<1> HIDE DEF p, q, r, S
<1>4. /\ p \o q \in Seq(S) /\ Len(p \o q) = 2
      /\ \A k \in 1 .. 2 : (p \o q)[k] = IF k <= 1 THEN p[k] ELSE q[k - 1]
  BY <1>3, ConcatProperties
<1>5. (p \o q)[1] = u /\ (p \o q)[2] = v
  BY <1>3, <1>4
<1>6. p \o q = r
  BY <1>3, <1>4, <1>5, SeqEqual
<1> QED
  BY <1>2, <1>6 DEF p, q, r

(* Of a C name, the name in the namespace is looked up first, if at all. *)
LookedUp(targets, m, own) ==
  \/ targets = <<>> /\ AM!Skipped(m)
  \/ Len(targets) \in Nat /\ Len(targets) > 0 /\ targets[1] = own

LEMMA TriedFirst ==
  ASSUME failedLookups = {}, NEW m, AM!IsC(m)
  PROVE  LookedUp(AM!Tried(m), m, AM!Target(cNamespace, m.name))
<1> DEFINE own == AM!Target(cNamespace, m.name)
           bare == AM!Target("", m.name)
<1>1. CASE m.name \in AM!Skipnames \/ (m.pattern = "struct" /\ m.name \in AM!Skipidentifiers)
  <2>1. AM!Tried(m) = <<>> /\ AM!Skipped(m)
    BY <1>1 DEF AM!Tried, AM!Skipped
  <2> QED
    BY <2>1 DEF LookedUp
<1>2. CASE ~(m.name \in AM!Skipnames \/ (m.pattern = "struct" /\ m.name \in AM!Skipidentifiers))
  <2>1. AM!Tried(m) =
          (IF cNamespace # "" THEN AM!Tries(m, cNamespace) ELSE <<>>) \o AM!Tries(m, "")
    BY <1>2 DEF AM!Tried
  <2>2. AM!Tries(m, "") = <<bare>> \/ (AM!Tries(m, "") = <<>> /\ AM!Skipped(m))
    <3>1. AM!IsSkipfunc(bare) => m.name \in AM!Skipfuncs
      BY DEF AM!IsSkipfunc, AM!Target
    <3> QED
      BY <3>1 DEF AM!Tries, AM!Skipped
  <2>3. cNamespace # "" => AM!Tries(m, cNamespace) = <<own>>
    <3>1. cNamespace # "" => ~AM!IsSkipfunc(own)
      BY DEF AM!IsSkipfunc, AM!Target
    <3> QED
      BY <3>1 DEF AM!Tries
  <2>4. cNamespace = "" => own = bare
    OBVIOUS
  <2> HIDE DEF own, bare
  <2>5. \/ AM!Tried(m) = <<own, bare>> \/ AM!Tried(m) = <<own>>
        \/ AM!Tried(m) = <<bare>> /\ own = bare
        \/ AM!Tried(m) = <<>> /\ AM!Skipped(m)
    BY <2>1, <2>2, <2>3, <2>4, Joined
  <2>6. /\ Len(<<own, bare>>) = 2 /\ <<own, bare>>[1] = own
        /\ Len(<<own>>) = 1 /\ <<own>>[1] = own /\ Len(<<bare>>) = 1 /\ <<bare>>[1] = bare
    OBVIOUS
  <2>7. LookedUp(AM!Tried(m), m, own)
    <3>1. 1 \in Nat /\ 2 \in Nat /\ 1 > 0 /\ 2 > 0
      OBVIOUS
    <3>2. CASE AM!Tried(m) = <<own, bare>>
      BY <2>6, <3>1, <3>2 DEF LookedUp
    <3>3. CASE AM!Tried(m) = <<own>>
      BY <2>6, <3>1, <3>3 DEF LookedUp
    <3>4. CASE AM!Tried(m) = <<>> /\ AM!Skipped(m)
      BY <3>4 DEF LookedUp
    <3> QED
      BY <2>5, <3>2, <3>3, <3>4
  <2> QED
    BY <2>7 DEF own
<1> QED
  BY <1>1, <1>2

(* The node that was to contain the reference counts as true: only the first lookup
   decides, and none fails. *)
LEMMA AllTruthy ==
  ASSUME NEW targets
  PROVE  AM!Truthy(targets) = 1 .. Len(targets)
BY DEF AM!Truthy, AM!Resolved

LEMMA NoFailures ==
  ASSUME failedLookups = {}, NEW m, AM!IsC(m)
  PROVE  AM!NewFailures(m) = {}
<1> DEFINE ts == AM!Tried(m)
<1>1. AM!Truthy(ts) = 1 .. Len(ts)
  BY AllTruthy
<1>2. ts = <<>> \/ Len(ts) \in Nat
  BY TriedFirst DEF LookedUp
<1>3. Len(ts) \in Nat
  BY <1>2
<1>4. AM!NewFailures(m) \subseteq
        {ts[k] : k \in {j \in 1 .. Len(ts) : \A i \in AM!Truthy(ts) : j < i}}
  BY DEF AM!NewFailures
<1> HIDE DEF ts
<1>5. {j \in 1 .. Len(ts) : \A i \in 1 .. Len(ts) : j < i} = {}
  BY <1>3
<1> QED
  BY <1>1, <1>4, <1>5

(* The targets that a reference to is resolved. *)
Reachable == Known \cap uris

LEMMA CMarked ==
  ASSUME failedLookups = {}, NEW m, AM!IsC(m)
  PROVE  LET ts == AM!Tried(m) IN
         /\ LookedUp(ts, m, AM!Target(cNamespace, m.name))
         /\ AM!MarkedUp(m) =
              IF ts = <<>> THEN AM!Plain(m.start, m.end)
              ELSE AM!Piece(m.start, m.end, IF ts[1] \in Reachable THEN "link" ELSE "broken", ts[1])
<1> DEFINE ts == AM!Tried(m)
           ks == AM!Truthy(ts)
<1>1. LookedUp(ts, m, AM!Target(cNamespace, m.name))
  BY TriedFirst
<1>2. ks = 1 .. Len(ts)
  BY AllTruthy
<1>3. AM!MarkedUp(m) = AM!CReference(m)
  BY DEF AM!IsC, AM!MarkedUp
<1>4. AM!CReference(m) =
        IF ks = {} THEN AM!Plain(m.start, m.end)
        ELSE AM!Piece(m.start, m.end, AM!Resolved(ts[AM!First(ks)], TRUE), ts[AM!First(ks)])
  BY DEF AM!CReference
<1> HIDE DEF ts, ks
<1>5. CASE ts = <<>>
  BY <1>1, <1>2, <1>3, <1>4, <1>5 DEF ts
<1>6. CASE ts # <<>>
  <2>1. Len(ts) \in Nat /\ Len(ts) > 0
    BY <1>1, <1>6 DEF LookedUp
  <2>2. 1 \in ks /\ \A j \in ks : 1 <= j
    BY <1>2, <2>1
  <2>3. AM!First(ks) \in ks /\ \A j \in ks : AM!First(ks) <= j
    BY <2>2 DEF AM!First
  <2>4. AM!First(ks) = 1
    BY <1>2, <2>1, <2>2, <2>3
  <2>5. AM!Resolved(ts[1], TRUE) = IF ts[1] \in Reachable THEN "link" ELSE "broken"
    BY DEF AM!Resolved, Reachable
  <2> QED
    BY <1>1, <1>3, <1>4, <1>6, <2>2, <2>4, <2>5 DEF ts
<1> QED
  BY <1>5, <1>6

(* Within markup_refs nothing that a match is looked up in changes: each that was come to
   has been replaced by what it is marked up as, and no link stands for anything else. *)
Replaced ==
  /\ stage = "write"
  /\ setting.format = "html" => cNamespace = text.namespace /\ uris = Known
  /\ \A m \in text.matches : m \in ToSet(pending) \/ AM!MarkedUp(m) \in ToSet(repl)
  /\ \A e \in ToSet(repl) : e.what = "link" => \E n \in text.matches : e = AM!MarkedUp(n)
  /\ marking = "done" => pending = <<>>

LinkInv == failedLookups = {} /\ (marking # "idle" => Replaced)

LEMMA ToSetMore ==
  ASSUME NEW s, IsSeq(s), NEW e
  PROVE  IsSeq(s \o <<e>>) /\ ToSet(s \o <<e>>) = ToSet(s) \cup {e}
<1> DEFINE r == s \o <<e>>
<1>1. Grown(r, s, e)
  BY OneMore
<1> HIDE DEF r
<1>2. DOMAIN s = 1 .. Len(s) /\ DOMAIN r = 1 .. Len(r)
  BY <1>1 DEF Grown, IsSeq
<1>3. /\ IsSeq(r) /\ Len(s) \in Nat /\ Len(r) = Len(s) + 1
      /\ \A k \in 1 .. Len(s) : r[k] = s[k]
      /\ r[Len(s) + 1] = e
  BY <1>1 DEF Grown
<1>4. ToSet(r) \subseteq ToSet(s) \cup {e}
  <2> SUFFICES ASSUME NEW k \in 1 .. Len(r) PROVE r[k] \in ToSet(s) \cup {e}
    BY <1>2 DEF ToSet
  <2>1. k \in 1 .. Len(s) \/ k = Len(s) + 1
    BY <1>3
  <2> QED
    BY <1>2, <1>3, <2>1 DEF ToSet
<1>5. ToSet(s) \subseteq ToSet(r)
  <2> SUFFICES ASSUME NEW k \in 1 .. Len(s) PROVE s[k] \in ToSet(r)
    BY <1>2 DEF ToSet
  <2>1. k \in 1 .. Len(r) /\ r[k] = s[k]
    BY <1>3
  <2> QED
    BY <1>2, <2>1 DEF ToSet
<1>6. e \in ToSet(r)
  <2>1. Len(s) + 1 \in 1 .. Len(r)
    BY <1>3
  <2> QED
    BY <1>2, <1>3, <2>1 DEF ToSet
<1>7. IsSeq(r) /\ ToSet(r) = ToSet(s) \cup {e}
  BY <1>3, <1>4, <1>5, <1>6
<1> QED
  BY <1>7 DEF r

LEMMA ToSetFirst ==
  ASSUME NEW S, NEW s \in Seq(S), s # <<>>
  PROVE  /\ Tail(s) \in Seq(S)
         /\ ToSet(s) = {Head(s)} \cup ToSet(Tail(s))
<1> DEFINE t == Tail(s)
<1>1. /\ Len(s) \in Nat /\ Len(s) >= 1 /\ Head(s) = s[1]
      /\ t \in Seq(S) /\ Len(t) = Len(s) - 1
      /\ \A k \in 1 .. Len(t) : t[k] = s[k + 1]
  BY HeadTailProperties
<1> HIDE DEF t
<1>2. DOMAIN s = 1 .. Len(s) /\ DOMAIN t = 1 .. Len(t)
  BY <1>1
<1>3. ToSet(s) \subseteq {Head(s)} \cup ToSet(t)
  <2> SUFFICES ASSUME NEW k \in 1 .. Len(s) PROVE s[k] \in {Head(s)} \cup ToSet(t)
    BY <1>2 DEF ToSet
  <2>1. CASE k = 1
    BY <1>1, <2>1
  <2>2. CASE k # 1
    <3>1. k - 1 \in 1 .. Len(t) /\ k - 1 + 1 = k
      BY <1>1, <2>2
    <3>2. t[k - 1] = s[k]
      BY <1>1, <3>1
    <3> QED
      BY <1>2, <3>1, <3>2 DEF ToSet
  <2> QED
    BY <2>1, <2>2
<1>4. ToSet(t) \subseteq ToSet(s)
  <2> SUFFICES ASSUME NEW k \in 1 .. Len(t) PROVE t[k] \in ToSet(s)
    BY <1>2 DEF ToSet
  <2>1. k + 1 \in 1 .. Len(s)
    BY <1>1
  <2> QED
    BY <1>1, <1>2, <2>1 DEF ToSet
<1>5. Head(s) \in ToSet(s)
  <2>1. 1 \in 1 .. Len(s)
    BY <1>1
  <2> QED
    BY <1>1, <1>2, <2>1 DEF ToSet
<1> QED
  BY <1>1, <1>3, <1>4, <1>5 DEF t

LEMMA SameMarkedUp ==
  ASSUME NEW m, UNCHANGED <<cNamespace, uris, failedLookups>>, Known' = Known
  PROVE  AM!MarkedUp(m)' = AM!MarkedUp(m)
<1>1. /\ AM!Tries(m, cNamespace)' = AM!Tries(m, cNamespace)
      /\ AM!Tries(m, "")' = AM!Tries(m, "")
  BY DEF AM!Tries, AM!IsSkipfunc, AM!Target
<1>2. AM!Tried(m)' = AM!Tried(m)
  BY <1>1 DEF AM!Tried
<1>3. \A t, b : AM!Resolved(t, b)' = AM!Resolved(t, b)
  BY DEF AM!Resolved
<1>4. AM!Truthy(AM!Tried(m))' = AM!Truthy(AM!Tried(m))
  BY <1>2, <1>3 DEF AM!Truthy
<1>5. AM!CReference(m)' = AM!CReference(m)
  BY <1>2, <1>3, <1>4 DEF AM!CReference, AM!First, AM!Plain, AM!Piece
<1>6. AM!PageReference(m)' = AM!PageReference(m)
  BY <1>3 DEF AM!PageReference, AM!Plain, AM!Piece, AM!Target
<1> QED
  BY <1>5, <1>6 DEF AM!MarkedUp, AM!Piece

LEMMA LinkKept ==
  ASSUME LinkInv, UNCHANGED markVars, marking = "idle" \/ UNCHANGED <<setting, reads, stage>>
  PROVE  LinkInv'
<1>1. /\ text' = text /\ marking' = marking /\ cNamespace' = cNamespace /\ uris' = uris
      /\ failedLookups' = failedLookups /\ pending' = pending /\ repl' = repl
  BY DEF markVars
<1>2. CASE marking = "idle"
  BY <1>1, <1>2 DEF LinkInv
<1>3. CASE marking # "idle"
  <2>1. Known' = Known /\ stage' = stage /\ setting' = setting
    BY <1>3 DEF Known, DeclaredIn
  <2>2. \A m : AM!MarkedUp(m)' = AM!MarkedUp(m)
    BY <1>1, <2>1, SameMarkedUp
  <2>3. Replaced
    BY <1>3 DEF LinkInv
  <2>4. Replaced'
    BY <1>1, <2>1, <2>2, <2>3 DEF Replaced
  <2> QED
    BY <1>1, <2>4 DEF LinkInv
<1> QED
  BY <1>2, <1>3

LEMMA MatchLinks ==
  ASSUME LinkInv, MarkInv, NEW t, NEW namespace, NEW made, AM!Match(t, namespace, made),
         stage' = "write", UNCHANGED <<setting, reads>>,
         setting.format = "html" => namespace = t.namespace /\ made = Known
  PROVE  LinkInv'
<1>1. /\ text' = t /\ cNamespace' = namespace /\ uris' = made /\ failedLookups' = failedLookups
      /\ marking' = "busy" /\ repl' = <<>>
      /\ AM!ToSet(pending') = t.matches
  BY DEF AM!Match, AM!Sorted, MarkInv, MarkTyped
<1>2. ToSet(pending') = t.matches /\ ToSet(repl') = {}
  BY <1>1, SameSets DEF ToSet
<1>3. Known' = Known
  BY DEF Known, DeclaredIn
<1>4. Replaced'
  BY <1>1, <1>2, <1>3 DEF Replaced
<1> QED
  BY <1>1, <1>4 DEF LinkInv

LEMMA ReplaceLinks ==
  ASSUME LinkInv, MarkInv, AM!Replace, UNCHANGED <<setting, reads, stage>>
  PROVE  LinkInv'
<1> DEFINE m == Head(pending)
           mid == repl \o AM!Before(m)
<1>1. /\ marking = "busy" /\ marking' = "busy" /\ text' = text /\ cNamespace' = cNamespace
      /\ uris' = uris /\ pending # <<>> /\ pending' = Tail(pending)
      /\ repl' = mid \o <<AM!MarkedUp(m)>>
      /\ failedLookups' = failedLookups \cup AM!NewFailures(m)
  BY DEF AM!Replace
<1>2. /\ pending \in Seq(text.matches) /\ IsSeq(repl)
      /\ m \in text.matches
      /\ ToSet(pending) = {m} \cup ToSet(pending')
  BY <1>1, ToSetFirst DEF MarkInv, MarkTyped
<1>3. failedLookups = {} /\ Replaced
  BY <1>1 DEF LinkInv
<1>4. AM!NewFailures(m) = {}
  <2>1. CASE AM!IsC(m)
    BY <1>3, <2>1, NoFailures
  <2>2. CASE ~AM!IsC(m)
    BY <2>2 DEF AM!IsC, AM!NewFailures
  <2> QED
    BY <2>1, <2>2
<1>5. failedLookups' = failedLookups
  BY <1>1, <1>3, <1>4
<1>6. Known' = Known
  BY DEF Known, DeclaredIn
<1>7. \A n : AM!MarkedUp(n)' = AM!MarkedUp(n)
  BY <1>1, <1>5, <1>6, SameMarkedUp
<1>8. /\ IsSeq(mid)
      /\ ToSet(repl) \subseteq ToSet(mid)
      /\ \A e \in ToSet(mid) \ ToSet(repl) : e.what = "text"
  <2>1. CASE m.start > done
    <3> DEFINE gap == AM!Plain(done, m.start)
    <3>1. AM!Before(m) = <<gap>> /\ gap.what = "text"
      BY <2>1 DEF AM!Before, AM!Plain, AM!Piece
    <3> HIDE DEF gap, m
    <3>2. mid = repl \o <<gap>>
      BY <3>1
    <3>3. IsSeq(mid) /\ ToSet(mid) = ToSet(repl) \cup {gap}
      BY <1>2, <3>2, ToSetMore
    <3> QED
      BY <3>1, <3>3
  <2>2. CASE ~(m.start > done)
    <3>1. AM!Before(m) = <<>>
      BY <2>2 DEF AM!Before
    <3>2. PICK S : repl \in Seq(S)
      BY <1>2 DEF IsSeq
    <3>3. mid = repl
      BY <3>1, <3>2, ConcatEmptySeq
    <3> QED
      BY <1>2, <3>3
  <2> QED
    BY <2>1, <2>2
<1> DEFINE piece == AM!MarkedUp(m)
<1> HIDE DEF mid, m
<1>9. ToSet(repl') = ToSet(mid) \cup {piece}
  BY <1>1, <1>8, ToSetMore
<1> HIDE DEF piece
<1>10. /\ \A n \in text.matches : n \in ToSet(pending') \/ AM!MarkedUp(n) \in ToSet(repl')
  <2> SUFFICES ASSUME NEW n \in text.matches, n \notin ToSet(pending')
               PROVE  AM!MarkedUp(n) \in ToSet(repl')
    OBVIOUS
  <2>1. CASE n = m
    BY <1>9, <2>1 DEF piece
  <2>2. CASE n # m
    <3>1. AM!MarkedUp(n) \in ToSet(repl)
      BY <1>2, <1>3, <2>2 DEF Replaced
    <3> QED
      BY <1>8, <1>9, <3>1
  <2> QED
    BY <2>1, <2>2
<1>11. \A e \in ToSet(repl') : e.what = "link" => \E n \in text.matches : e = AM!MarkedUp(n)
  <2> SUFFICES ASSUME NEW e \in ToSet(repl'), e.what = "link"
               PROVE  \E n \in text.matches : e = AM!MarkedUp(n)
    OBVIOUS
  <2>1. CASE e = piece
    BY <1>2, <2>1 DEF piece
  <2>2. CASE e # piece
    <3>1. e \in ToSet(repl)
      BY <1>8, <1>9, <2>2
    <3> QED
      BY <1>3, <3>1 DEF Replaced
  <2> QED
    BY <2>1, <2>2
<1>12. Replaced'
  BY <1>1, <1>3, <1>6, <1>7, <1>10, <1>11 DEF Replaced
<1> QED
  BY <1>3, <1>5, <1>12 DEF LinkInv

LEMMA AddRestLinks ==
  ASSUME LinkInv, MarkInv, AM!AddRest, UNCHANGED <<setting, reads, stage>>
  PROVE  LinkInv'
<1> DEFINE rest == AM!Plain(done, text.length)
<1>1. /\ marking = "busy" /\ marking' = "done" /\ text' = text /\ cNamespace' = cNamespace
      /\ uris' = uris /\ pending = <<>> /\ pending' = pending /\ failedLookups' = failedLookups
      /\ repl' = IF done < text.length THEN Append(repl, rest) ELSE repl
  BY DEF AM!AddRest
<1>2. failedLookups = {} /\ Replaced /\ IsSeq(repl)
  BY <1>1 DEF LinkInv, MarkInv, MarkTyped
<1>3. Known' = Known
  BY DEF Known, DeclaredIn
<1>4. \A n : AM!MarkedUp(n)' = AM!MarkedUp(n)
  BY <1>1, <1>3, SameMarkedUp
<1>5. rest.what = "text"
  BY DEF AM!Plain, AM!Piece
<1> HIDE DEF rest
<1>6. ToSet(repl') = ToSet(repl) \/ ToSet(repl') = ToSet(repl) \cup {rest}
  <2>1. CASE done < text.length
    <3>1. PICK S : repl \in Seq(S)
      BY <1>2 DEF IsSeq
    <3>2. repl \in Seq(S \cup {rest})
      BY <3>1
    <3>3. Append(repl, rest) = repl \o <<rest>>
      BY <3>2, AppendIsConcat
    <3>4. repl' = repl \o <<rest>>
      BY <1>1, <2>1, <3>3
    <3> QED
      BY <1>2, <3>4, ToSetMore
  <2>2. CASE ~(done < text.length)
    BY <1>1, <2>2
  <2> QED
    BY <2>1, <2>2
<1>7. \A n \in text.matches : AM!MarkedUp(n) \in ToSet(repl')
  <2>1. ToSet(pending) = {}
    BY <1>1 DEF ToSet
  <2> QED
    BY <1>2, <1>6, <2>1 DEF Replaced
<1>8. \A e \in ToSet(repl') : e.what = "link" => \E n \in text.matches : e = AM!MarkedUp(n)
  BY <1>2, <1>5, <1>6 DEF Replaced
<1>9. Replaced'
  BY <1>1, <1>2, <1>3, <1>4, <1>7, <1>8 DEF Replaced
<1> QED
  BY <1>1, <1>2, <1>9 DEF LinkInv

LEMMA InitLinks == Init => LinkInv
BY DEF Init, AM!Init, LinkInv

LEMMA NextLinks ==
  ASSUME LinkInv, MarkInv, HeldInv, [Next]_vars
  PROVE  LinkInv'
<1>1. ASSUME NEW p \in Pages, WritePage(p) PROVE LinkInv'
  <2>1. stage' = "write" /\ UNCHANGED <<setting, reads>>
    BY <1>1 DEF WritePage, DoctreeResolved
  <2>2. PICK namespace, made :
          /\ AM!Match(Parsed(p).text, namespace, made)
          /\ setting.format = "html" => namespace = Parsed(p).text.namespace /\ made = Known
    <3>1. CASE MarkPage(p)
      BY <3>1 DEF MarkPage
    <3>2. CASE MarkBook(p)
      BY <3>2 DEF MarkBook
    <3> QED
      BY <1>1, <3>1, <3>2 DEF WritePage
  <2> QED
    BY <2>1, <2>2, MatchLinks
<1>2. CASE MarkStep
  <2>1. UNCHANGED <<setting, reads, stage>>
    BY <1>2 DEF MarkStep, buildVars
  <2>2. CASE AM!Replace
    BY <2>1, <2>2, ReplaceLinks
  <2>3. CASE AM!AddRest
    BY <2>1, <2>3, AddRestLinks
  <2>4. CASE AM!PutBack
    BY <2>4 DEF AM!PutBack, LinkInv
  <2> QED
    BY <1>2, <2>2, <2>3, <2>4 DEF MarkStep, AM!Step
<1>3. CASE EndBuild \/ Crash \/ Kill
  BY <1>3 DEF EndBuild, Crash, Kill, EndProcess, LinkInv
<1>4. stage # "write" => marking = "idle"
  BY DEF LinkInv, Replaced
<1>5. ASSUME NEW p \in Pages, EditPage(p) \/ ReadPage(p) PROVE LinkInv'
  <2>1. UNCHANGED markVars /\ stage # "write"
    BY <1>5 DEF EditPage, ReadPage
  <2> QED
    BY <1>4, <2>1, LinkKept
<1>6. ASSUME NEW f \in Files, EditFile(f) PROVE LinkInv'
  <2>1. UNCHANGED markVars /\ stage # "write"
    BY <1>6 DEF EditFile
  <2> QED
    BY <1>4, <2>1, LinkKept
<1>7. CASE StartBuild \/ EndReading
  <2>1. UNCHANGED markVars /\ stage # "write"
    BY <1>7 DEF StartBuild, EndReading
  <2> QED
    BY <1>4, <2>1, LinkKept
<1>8. CASE TableStep \/ IncludeStep
  <2>1. UNCHANGED markVars /\ UNCHANGED <<setting, reads, stage>>
    BY <1>8 DEF TableStep, IncludeStep, buildVars
  <2> QED
    BY <2>1, LinkKept
<1>9. CASE EndPage
  <2>1. UNCHANGED markVars /\ stage # "write"
    BY <1>9 DEF EndPage, INC!End, HeldInv, ReadInv
  <2> QED
    BY <1>4, <2>1, LinkKept
<1>10. CASE UNCHANGED vars
  <2>1. UNCHANGED markVars /\ UNCHANGED <<setting, reads, stage>>
    BY <1>10 DEF vars, buildVars
  <2> QED
    BY <2>1, LinkKept
<1> QED
  BY <1>1, <1>2, <1>3, <1>5, <1>6, <1>7, <1>8, <1>9, <1>10 DEF Next

----------------------------------------------------------------------------
(* What the pages declare. *)

(* The documents of a build, now or when it began: no step moves a page. *)
NowConf ==
  CONF!ConfigInit(setting.srcdir, setting.hasInclude, {source[p].at : p \in Pages})

Docs == Found(NowConf)

Placed == \A p, q \in Pages : SameName(source[p].at, source[q].at) => p = q

Unmoved == UNCHANGED setting /\ \A p \in Pages : source'[p].at = source[p].at

(* An entry as the reading of the page makes it. *)
Right(e, declares, doc) ==
  /\ e.declares = declares
  /\ e.languages = TR!Wanted(doc)
  /\ ~TR!UnknownLanguage(doc)

(* A page that was not edited since it was read has such an entry, and one that is not a
   document declares nothing. *)
RightEntries(entries) ==
  \A p \in Pages :
    /\ p \notin entries[p].newer => Right(entries[p], Parsed(p).declares, Docname(p))
    /\ p \notin Docs => entries[p].declares = {}

(* During a build the documents that it will not read, or has read, have one. *)
RightReads ==
  /\ stage = "read" =>
       /\ todo \subseteq Docs /\ fresh \subseteq Docs /\ page \in Docs \cup {Nothing}
       /\ \A p \in Docs \ (todo \cup {page}) :
            Right(reads[p], Parsed(p).declares, Docname(p))
  /\ stage = "write" =>
       /\ todo \subseteq Docs /\ fresh \subseteq Docs
       /\ setting.format = "html" => todo \subseteq fresh
       /\ \A p \in Docs : Right(reads[p], Parsed(p).declares, Docname(p))

DeclInv == Placed /\ RightEntries(env) /\ RightEntries(reads) /\ RightReads

LEMMA NextUnmoved ==
  ASSUME Sourced, [Next]_vars
  PROVE  Unmoved
<1>1. ASSUME NEW p \in Pages, EditPage(p) PROVE Unmoved
  <2>1. PICK s \in Revisions(source[p]) : source' = [source EXCEPT ![p] = s]
    BY <1>1 DEF EditPage
  <2>2. s.at = source[p].at
    BY PlaceAssumption DEF Sourced
  <2>3. UNCHANGED setting
    BY <1>1 DEF EditPage
  <2> QED
    BY <2>1, <2>2, <2>3 DEF Sourced, Unmoved
<1>2. ASSUME UNCHANGED <<setting, source>> PROVE Unmoved
  BY <1>2 DEF Unmoved
<1>3. ASSUME NEW p \in Pages, ReadPage(p) \/ WritePage(p) PROVE UNCHANGED <<setting, source>>
  BY <1>3 DEF ReadPage, WritePage
<1>4. ASSUME NEW f \in Files, EditFile(f) PROVE UNCHANGED <<setting, source>>
  BY <1>4 DEF EditFile
<1>5. CASE StartBuild \/ TableStep \/ IncludeStep \/ EndPage \/ EndReading \/ MarkStep
  BY <1>2, <1>5 DEF StartBuild, TableStep, IncludeStep, EndPage, EndReading, MarkStep, buildVars
<1>6. CASE EndBuild \/ Crash \/ Kill
  BY <1>2, <1>6 DEF EndBuild, Crash, Kill, EndProcess
<1>7. CASE UNCHANGED vars
  BY <1>2, <1>7 DEF vars, buildVars
<1> QED
  BY <1>1, <1>2, <1>3, <1>4, <1>5, <1>6, <1>7 DEF Next

LEMMA SamePlaces ==
  ASSUME Unmoved
  PROVE  /\ NowConf' = NowConf /\ Docs' = Docs /\ Placed' = Placed
         /\ \A p \in Pages : Docname(p)' = Docname(p)
<1>1. {source'[p].at : p \in Pages} = {source[p].at : p \in Pages}
  BY DEF Unmoved
<1>2. NowConf' = NowConf
  BY <1>1 DEF NowConf, Unmoved
<1>3. \A p \in Pages : CONF!Takes(NowConf', setting'.srcdir, source'[p].at)
                         = CONF!Takes(NowConf, setting.srcdir, source[p].at)
  BY <1>2 DEF Unmoved
<1>4. Docs' = Docs
  BY <1>3 DEF Docs, Found
<1>5. Placed' = Placed
  BY DEF Placed, Unmoved
<1> QED
  BY <1>2, <1>4, <1>5 DEF Docname, Unmoved

LEMMA SameDeclares ==
  ASSUME Sourced, NEW p \in Pages, source'[p] = source[p]
  PROVE  Parsed(p)'.declares = Parsed(p).declares
<1>1. {"declares", "directives", "table", "text"} \subseteq DOMAIN source[p]
  <2>1. IsSource(source[p])
    BY SiteAssumption DEF Sourced
  <2> QED
    BY <2>1 DEF IsSource
<1>2. CASE CONF!Ignored(source[p].at)
  <2>1. Parsed(p).declares = {} /\ Parsed(p)'.declares = {}
    BY <1>1, <1>2 DEF Parsed
  <2> QED
    BY <2>1
<1>3. CASE ~CONF!Ignored(source[p].at)
  <2>1. Parsed(p).declares = source[p].declares /\ Parsed(p)'.declares = source[p].declares
    BY <1>1, <1>3 DEF Parsed
  <2> QED
    BY <2>1
<1> QED
  BY <1>2, <1>3

LEMMA NewerSame ==
  ASSUME NEW e, NEW S, DOMAIN e = EntryFields
  PROVE  LET g == [e EXCEPT !.newer = S] IN
         g.newer = S /\ g.declares = e.declares /\ g.languages = e.languages
BY DEF EntryFields

(* Entries that are kept, of pages that are, but for what is newer. *)
LEMMA RightKept ==
  ASSUME Sourced, Unmoved, NEW before, NEW after, RightEntries(before),
         \A p \in Pages :
           /\ before[p].newer \subseteq after[p].newer
           /\ after[p].declares = before[p].declares
           /\ after[p].languages = before[p].languages
           /\ source'[p] # source[p] => p \in after[p].newer
  PROVE  RightEntries(after)'
<1>1. Docs' = Docs /\ \A p \in Pages : Docname(p)' = Docname(p)
  BY SamePlaces
<1>2. ASSUME NEW p \in Pages
      PROVE  /\ p \notin after[p].newer => Right(after[p], Parsed(p)'.declares, Docname(p)')
             /\ p \notin Docs' => after[p].declares = {}
  <2>1. ASSUME p \notin after[p].newer
        PROVE  Right(after[p], Parsed(p).declares, Docname(p)) /\ source'[p] = source[p]
    BY <2>1 DEF RightEntries, Right
  <2>2. source'[p] = source[p] => Parsed(p)'.declares = Parsed(p).declares
    BY SameDeclares
  <2> QED
    BY <1>1, <2>1, <2>2 DEF RightEntries
<1> QED
  BY <1>2 DEF RightEntries

LEMMA EditPageDecl ==
  ASSUME Sourced, HeldInv, DeclInv, Unmoved, NEW p \in Pages, EditPage(p)
  PROVE  DeclInv'
<1>1. /\ stage = "off" /\ stage' = "off" /\ reads = env /\ reads' = env'
      /\ env' = [env EXCEPT ![p].newer = @ \cup {p}]
      /\ \A q \in Pages : DOMAIN env[q] = EntryFields
      /\ env = [q \in Pages |-> env[q]]
  BY DEF EditPage, HeldInv, ReadInv, Entries
<1>2. \A q \in Pages \ {p} : source'[q] = source[q]
  BY DEF EditPage, Sourced
<1>3. /\ env'[p] = [env[p] EXCEPT !.newer = env[p].newer \cup {p}]
      /\ \A q \in Pages \ {p} : env'[q] = env[q]
  BY <1>1
<1>4. ASSUME NEW q \in Pages
      PROVE  /\ env[q].newer \subseteq env'[q].newer
             /\ env'[q].declares = env[q].declares
             /\ env'[q].languages = env[q].languages
             /\ source'[q] # source[q] => q \in env'[q].newer
  <2>1. CASE q = p
    <3>1. /\ env'[p].newer = env[p].newer \cup {p} /\ env'[p].declares = env[p].declares
          /\ env'[p].languages = env[p].languages
      BY <1>1, <1>3, NewerSame
    <3> QED
      BY <2>1, <3>1
  <2>2. CASE q # p
    BY <1>2, <1>3, <2>2
  <2> QED
    BY <2>1, <2>2
<1>5. RightEntries(env)
  BY DEF DeclInv
<1>6. RightEntries(env)'
  BY <1>4, <1>5, RightKept
<1>7. RightEntries(reads)'
  BY <1>1, <1>6 DEF RightEntries
<1>8. RightReads' /\ Placed'
  BY <1>1, SamePlaces DEF RightReads, DeclInv
<1> QED
  BY <1>6, <1>7, <1>8 DEF DeclInv

(* No other step changes a source. *)
LEMMA SameSources ==
  ASSUME Sourced, UNCHANGED <<setting, source>>
  PROVE  /\ Unmoved /\ Docs' = Docs /\ Placed' = Placed
         /\ \A p \in Pages : Docname(p)' = Docname(p) /\ Parsed(p)'.declares = Parsed(p).declares
<1>1. Unmoved
  BY DEF Unmoved
<1> QED
  BY <1>1, SamePlaces, SameDeclares

LEMMA SameEntries ==
  ASSUME Sourced, UNCHANGED <<setting, source>>, NEW before, NEW after, RightEntries(before),
         \A p \in Pages : after[p] = before[p]
  PROVE  RightEntries(after)'
<1>1. Unmoved
  BY SameSources
<1> QED
  BY <1>1, RightKept

LEMMA UnchangedDecl ==
  ASSUME Sourced, DeclInv, UNCHANGED <<setting, source, env, reads, stage, todo, fresh, page>>
  PROVE  DeclInv'
<1>1. RightEntries(env) /\ RightEntries(reads)
  BY DEF DeclInv
<1>2. RightEntries(env)' /\ RightEntries(reads)'
  BY <1>1, SameEntries
<1>3. Docs' = Docs /\ Placed'
  BY SameSources DEF DeclInv
<1>4. \A q \in Docs : Parsed(q)'.declares = Parsed(q).declares /\ Docname(q)' = Docname(q)
  BY SameSources DEF Docs, Found
<1>5. RightReads'
  BY <1>3, <1>4 DEF DeclInv, RightReads
<1> QED
  BY <1>2, <1>3, <1>5 DEF DeclInv

LEMMA EditFileDecl ==
  ASSUME Sourced, HeldInv, DeclInv, NEW f \in Files, EditFile(f)
  PROVE  DeclInv'
<1>1. /\ UNCHANGED <<setting, source, stage, todo, fresh, page>>
      /\ stage \in {"off", "read"}
      /\ env' = Newer(env, f) /\ reads' = Newer(reads, f)
      /\ \A p \in Pages : DOMAIN env[p] = EntryFields /\ DOMAIN reads[p] = EntryFields
  BY DEF EditFile, HeldInv, Entries
<1>2. ASSUME NEW entries, \A p \in Pages : DOMAIN entries[p] = EntryFields, NEW p \in Pages
      PROVE  /\ entries[p].newer \subseteq Newer(entries, f)[p].newer
             /\ Newer(entries, f)[p].declares = entries[p].declares
             /\ Newer(entries, f)[p].languages = entries[p].languages
  <2>1. Newer(entries, f)[p] = [entries[p] EXCEPT !.newer = entries[p].newer \cup {f}]
    BY DEF Newer
  <2> DEFINE g == Newer(entries, f)[p]
  <2>2. /\ g.newer = entries[p].newer \cup {f} /\ g.declares = entries[p].declares
        /\ g.languages = entries[p].languages
    BY <1>2, <2>1, NewerSame
  <2> QED
    BY <2>2
<1>3. ASSUME NEW p \in Pages
      PROVE  /\ env[p].newer \subseteq env'[p].newer /\ reads[p].newer \subseteq reads'[p].newer
             /\ env'[p].declares = env[p].declares /\ reads'[p].declares = reads[p].declares
             /\ env'[p].languages = env[p].languages /\ reads'[p].languages = reads[p].languages
             /\ source'[p] = source[p]
  BY <1>1, <1>2
<1>4. RightEntries(env) /\ RightEntries(reads)
  BY DEF DeclInv
<1>5. Unmoved
  BY <1>1 DEF Unmoved
<1>6. RightEntries(env)' /\ RightEntries(reads)'
  BY <1>3, <1>4, <1>5, RightKept
<1>7. Docs' = Docs /\ Placed'
  BY <1>1, SameSources DEF DeclInv
<1>8. ASSUME NEW p \in Docs, Right(reads[p], Parsed(p).declares, Docname(p))
      PROVE  Right(reads'[p], Parsed(p)'.declares, Docname(p)')
  <2>1. p \in Pages
    BY DEF Docs, Found
  <2>2. Parsed(p)'.declares = Parsed(p).declares /\ Docname(p)' = Docname(p)
    BY <1>1, <2>1, SameSources
  <2> QED
    BY <1>3, <1>8, <2>1, <2>2 DEF Right
<1>9. RightReads'
  BY <1>1, <1>7, <1>8 DEF DeclInv, RightReads
<1> QED
  BY <1>6, <1>7, <1>9 DEF DeclInv

LEMMA StartBuildDecl ==
  ASSUME Sourced, HeldInv, DeclInv, StartBuild
  PROVE  DeclInv'
<1>1. /\ UNCHANGED <<setting, source, env, reads, page>>
      /\ stage' = "read" /\ page = Nothing /\ reads = env
      /\ config' = NowConf /\ todo' = Outdated \cap Found(config') /\ fresh' = {}
  BY DEF StartBuild, HeldInv, ReadInv, NowConf
<1>2. RightEntries(env) /\ RightEntries(reads)
  BY DEF DeclInv
<1>3. RightEntries(env)' /\ RightEntries(reads)'
  BY <1>1, <1>2, SameEntries
<1>4. Docs' = Docs /\ Placed'
  BY <1>1, SameSources DEF DeclInv
<1>5. todo' = Outdated \cap Docs
  BY <1>1 DEF Docs
<1>6. ASSUME NEW p \in Docs \ todo'
      PROVE  Right(reads'[p], Parsed(p)'.declares, Docname(p)')
  <2>1. p \in Pages
    BY DEF Docs, Found
  <2>2. p \notin env[p].newer
    BY <1>5, <1>6, <2>1 DEF Outdated
  <2>3. Right(env[p], Parsed(p).declares, Docname(p))
    BY <1>2, <2>1, <2>2 DEF RightEntries
  <2> QED
    BY <1>1, <2>1, <2>3, SameSources
<1>7. RightReads'
  BY <1>1, <1>4, <1>5, <1>6 DEF RightReads
<1> QED
  BY <1>3, <1>4, <1>7 DEF DeclInv

LEMMA ReadPageDecl ==
  ASSUME Sourced, DeclInv, NEW p \in Pages, ReadPage(p)
  PROVE  DeclInv'
<1>1. /\ UNCHANGED <<setting, source, env, reads, stage, fresh>>
      /\ stage = "read" /\ p \in todo /\ todo' = todo \ {p} /\ page = Nothing /\ page' = p
  BY DEF ReadPage, INC!Begin
<1>2. RightEntries(env) /\ RightEntries(reads) /\ RightReads
  BY DEF DeclInv
<1>3. RightEntries(env)' /\ RightEntries(reads)'
  BY <1>1, <1>2, SameEntries
<1>4. Docs' = Docs /\ Placed'
  BY <1>1, SameSources DEF DeclInv
<1>5. \A q \in Docs : q \in Pages /\ q # Nothing
  BY SiteAssumption DEF Docs, Found
<1>6. ASSUME NEW q \in Docs \ (todo' \cup {page'})
      PROVE  Right(reads'[q], Parsed(q)'.declares, Docname(q)')
  <2>1. q \notin todo \cup {page}
    BY <1>1, <1>5, <1>6
  <2>2. Right(reads[q], Parsed(q).declares, Docname(q))
    BY <1>1, <1>2, <2>1 DEF RightReads
  <2> QED
    BY <1>1, <1>5, <2>2, SameSources
<1>7. RightReads'
  BY <1>1, <1>2, <1>4, <1>6 DEF RightReads
<1> QED
  BY <1>3, <1>4, <1>7 DEF DeclInv

LEMMA EndPageDecl ==
  ASSUME Sourced, HeldInv, DeclInv, EndPage
  PROVE  DeclInv'
<1>1. /\ UNCHANGED <<setting, source, env, stage, todo>>
      /\ page # Nothing /\ page' = Nothing /\ fresh' = fresh \cup {page}
      /\ ~TR!UnknownLanguage(Docname(page))
      /\ stage = "read" /\ page \in Pages
      /\ reads = [p \in Pages |-> reads[p]]
  BY DEF EndPage, INC!End, HeldInv, ReadInv, Entries
<1> DEFINE e == [declares |-> Parsed(page).declares, languages |-> TR!Wanted(Docname(page)),
                 deps |-> noted, content |-> taken, newer |-> {},
                 raced |-> \E c \in taken : version[c[1]] # c[2]]
<1>2. reads' = [reads EXCEPT ![page] = e]
  BY DEF EndPage
<1>3. Right(e, Parsed(page).declares, Docname(page))
  BY <1>1 DEF Right
<1> HIDE DEF e
<1>4. reads'[page] = e /\ \A p \in Pages \ {page} : reads'[p] = reads[p]
  BY <1>1, <1>2
<1>5. RightEntries(env) /\ RightEntries(reads) /\ RightReads
  BY DEF DeclInv
<1>6. RightEntries(env)'
  BY <1>1, <1>5, SameEntries
<1>7. Docs' = Docs /\ Placed' /\ page \in Docs
  BY <1>1, <1>5, SameSources DEF DeclInv, RightReads
<1>8. ASSUME NEW p \in Pages
      PROVE  Parsed(p)'.declares = Parsed(p).declares /\ Docname(p)' = Docname(p)
  BY <1>1, SameSources
<1>9. RightEntries(reads)'
  <2> SUFFICES ASSUME NEW p \in Pages
               PROVE  /\ p \notin reads'[p].newer =>
                           Right(reads'[p], Parsed(p)'.declares, Docname(p)')
                      /\ p \notin Docs' => reads'[p].declares = {}
    BY DEF RightEntries
  <2>1. CASE p = page
    BY <1>3, <1>4, <1>7, <1>8, <2>1
  <2>2. CASE p # page
    BY <1>4, <1>5, <1>7, <1>8, <2>2 DEF RightEntries
  <2> QED
    BY <2>1, <2>2
<1>10. ASSUME NEW p \in Docs \ (todo' \cup {page'})
       PROVE  Right(reads'[p], Parsed(p)'.declares, Docname(p)')
  <2>0. p \in Pages
    BY DEF Docs, Found
  <2>1. CASE p = page
    BY <1>1, <1>3, <1>4, <1>8, <2>1
  <2>2. CASE p # page
    <3>1. p \notin todo \cup {page}
      BY <1>1, <1>10, <2>2
    <3>2. Right(reads[p], Parsed(p).declares, Docname(p))
      BY <1>1, <1>5, <3>1 DEF RightReads
    <3> QED
      BY <1>4, <1>8, <2>0, <2>2, <3>2
  <2> QED
    BY <2>1, <2>2
<1>11. RightReads'
  BY <1>1, <1>5, <1>7, <1>10 DEF RightReads
<1> QED
  BY <1>6, <1>7, <1>9, <1>11 DEF DeclInv

LEMMA EndReadingDecl ==
  ASSUME Sourced, Configured, DeclInv, EndReading
  PROVE  DeclInv'
<1>1. /\ UNCHANGED <<setting, source, reads, fresh>>
      /\ stage = "read" /\ stage' = "write" /\ page = Nothing /\ todo = {}
      /\ env' = reads /\ todo' = IF setting.format = "html" THEN fresh ELSE Found(config)
  BY DEF EndReading
<1>2. RightEntries(reads) /\ RightReads
  BY DEF DeclInv
<1>3. RightEntries(reads)'
  BY <1>1, <1>2, SameEntries
<1>4. RightEntries(env)'
  BY <1>1, <1>3 DEF RightEntries
<1>5. Docs' = Docs /\ Placed'
  BY <1>1, SameSources DEF DeclInv
<1>6. ASSUME NEW p \in Docs
      PROVE  Right(reads'[p], Parsed(p)'.declares, Docname(p)')
  <2>1. p \in Pages /\ p \notin todo \cup {page}
    BY <1>1, SiteAssumption DEF Docs, Found
  <2>2. Right(reads[p], Parsed(p).declares, Docname(p))
    BY <1>1, <1>2, <2>1 DEF RightReads
  <2> QED
    BY <1>1, <2>1, <2>2, SameSources
<1>7. Found(config) = Docs
  BY <1>1 DEF Configured, Docs, NowConf
<1>8. RightReads'
  BY <1>1, <1>2, <1>5, <1>6, <1>7 DEF RightReads
<1> QED
  BY <1>3, <1>4, <1>5, <1>8 DEF DeclInv

LEMMA WritePageDecl ==
  ASSUME Sourced, DeclInv, NEW p \in Pages, WritePage(p)
  PROVE  DeclInv'
<1>1. /\ UNCHANGED <<setting, source, env, reads, stage, fresh>>
      /\ stage = "write" /\ todo' = todo \ {p}
  BY DEF WritePage, DoctreeResolved
<1>2. RightEntries(env) /\ RightEntries(reads) /\ RightReads
  BY DEF DeclInv
<1>3. RightEntries(env)' /\ RightEntries(reads)'
  BY <1>1, <1>2, SameEntries
<1>4. Docs' = Docs /\ Placed'
  BY <1>1, SameSources DEF DeclInv
<1>5. \A q \in Docs : Parsed(q)'.declares = Parsed(q).declares /\ Docname(q)' = Docname(q)
  BY <1>1, SameSources DEF Docs, Found
<1>6. RightReads'
  BY <1>1, <1>2, <1>4, <1>5 DEF RightReads
<1> QED
  BY <1>3, <1>4, <1>6 DEF DeclInv

LEMMA EndProcessDecl ==
  ASSUME Sourced, DeclInv, EndProcess
  PROVE  DeclInv'
<1>1. UNCHANGED <<setting, source, env>> /\ reads' = env /\ stage' = "off"
  BY DEF EndProcess
<1>2. RightEntries(env)
  BY DEF DeclInv
<1>3. RightEntries(env)'
  BY <1>1, <1>2, SameEntries
<1>4. RightEntries(reads)'
  BY <1>1, <1>3 DEF RightEntries
<1>5. RightReads' /\ Placed'
  BY <1>1, SameSources DEF DeclInv, RightReads
<1> QED
  BY <1>3, <1>4, <1>5 DEF DeclInv

LEMMA InitDecl == Init => DeclInv
<1> SUFFICES ASSUME Init PROVE DeclInv
  OBVIOUS
<1>1. PICK site \in Sites : source = site.source
  BY DEF Init
<1>2. Placed
  BY <1>1, PlaceAssumption DEF Placed
<1>3. /\ stage = "off" /\ env = [p \in Pages |-> Unread(p)] /\ reads = env
  BY DEF Init
<1>4. \A p \in Pages : p \in env[p].newer /\ env[p].declares = {}
  BY <1>3 DEF Unread
<1>5. RightEntries(env) /\ RightEntries(reads)
  BY <1>3, <1>4 DEF RightEntries
<1>6. RightReads
  BY <1>3 DEF RightReads
<1> QED
  BY <1>2, <1>5, <1>6 DEF DeclInv

LEMMA NextDecl ==
  ASSUME Sourced, Configured, HeldInv, DeclInv, [Next]_vars
  PROVE  DeclInv'
<1>1. ASSUME NEW p \in Pages, EditPage(p) PROVE DeclInv'
  BY <1>1, NextUnmoved, EditPageDecl
<1>2. ASSUME NEW p \in Pages, ReadPage(p) \/ WritePage(p) PROVE DeclInv'
  BY <1>2, ReadPageDecl, WritePageDecl
<1>3. ASSUME NEW f \in Files, EditFile(f) PROVE DeclInv'
  BY <1>3, EditFileDecl
<1>4. CASE StartBuild \/ EndPage \/ EndReading
  BY <1>4, StartBuildDecl, EndPageDecl, EndReadingDecl
<1>5. CASE TableStep \/ MarkStep
  BY <1>5, UnchangedDecl DEF TableStep, MarkStep, buildVars, includeVars
<1>6. CASE IncludeStep
  <2>1. UNCHANGED page
    BY <1>6 DEF IncludeStep, INC!Step, INC!PlainInclude, INC!KernelInclude,
      INC!MaintainersInclude, INC!KernelDoc, INC!KernelAbi, INC!KernelFeat, INC!Ran
  <2> QED
    BY <1>6, <2>1, UnchangedDecl DEF IncludeStep, buildVars
<1>7. CASE EndBuild \/ Crash \/ Kill
  BY <1>7, EndProcessDecl DEF EndBuild, Crash, Kill
<1>8. CASE UNCHANGED vars
  BY <1>8, UnchangedDecl DEF vars, buildVars, includeVars
<1> QED
  BY <1>1, <1>2, <1>3, <1>4, <1>5, <1>6, <1>7, <1>8 DEF Next

----------------------------------------------------------------------------
(* The warnings and the menu. *)

(* Of the pages read, and of the page that is being read up to the directives that have yet
   to run, the files with :warn-broken: are known. *)
Warned ==
  /\ stage \in {"read", "write"} =>
       \A p \in fresh : \A d \in Listed(p) : d.kind = "warn" => d.file \in xrefFiles
  /\ page # Nothing =>
       \A d \in Listed(page) : d.kind = "warn" => d.file \in xrefFiles \/ d \in ToSet(left)

(* The page written last has been warned of, if this build read it, and has the menu of its
   document. *)
MenuInv ==
  menu.page # Nothing =>
    /\ stage = "write" /\ menu.page \in Docs
    /\ setting.format = "html" => menu.page \in fresh
    /\ menu.page \in fresh => Broken(menu.page, {"warn"}) \subseteq reported
    /\ menu.links = TR!Shown(TR!Wanted(Docname(menu.page)), {Docname(q) : q \in Docs},
                             setting.format)

WarnInv == Warned /\ MenuInv

(* Within a build. *)
LEMMA SameBuild ==
  ASSUME UNCHANGED <<setting, config, source>>
  PROVE  \A p \in Pages : Listed(p)' = Listed(p)
BY SameParsed

LEMMA SameBroken ==
  ASSUME NEW p \in Pages, UNCHANGED <<setting, config, source, reads>>
  PROVE  Broken(p, {"warn"})' = Broken(p, {"warn"})
<1>1. Known' = Known
  BY DEF Known, DeclaredIn
<1>2. Parsed(p)' = Parsed(p)
  BY SameParsed
<1> QED
  BY <1>1, <1>2 DEF Broken

LEMMA SameMenu ==
  ASSUME DeclInv, MenuInv, Sourced, UNCHANGED menu,
         stage = "write" =>
           UNCHANGED <<setting, config, source, reads, stage, fresh, reported>>
  PROVE  MenuInv'
<1> SUFFICES ASSUME menu.page # Nothing PROVE MenuInv'
  BY DEF MenuInv
<1>1. /\ stage = "write" /\ menu.page \in Docs
      /\ setting.format = "html" => menu.page \in fresh
      /\ menu.page \in fresh => Broken(menu.page, {"warn"}) \subseteq reported
      /\ menu.links = TR!Shown(TR!Wanted(Docname(menu.page)), {Docname(q) : q \in Docs},
                               setting.format)
  BY DEF MenuInv
<1> DEFINE p == menu.page
<1>2. p \in Docs /\ Docs \subseteq Pages
  BY <1>1 DEF Docs, Found
<1>3. UNCHANGED <<setting, config, source, reads, stage, fresh, reported>> /\ p' = p
  BY <1>1
<1>4. Docs' = Docs /\ \A q \in Pages : Docname(q)' = Docname(q)
  BY <1>3, SameSources
<1>5. {Docname(q)' : q \in Docs'} = {Docname(q) : q \in Docs}
  BY <1>2, <1>4
<1>6. Broken(p, {"warn"})' = Broken(p, {"warn"})
  BY <1>2, <1>3, SameBroken DEF Broken, Parsed, Known, DeclaredIn
<1>7. Docname(p)' = Docname(p)
  BY <1>3 DEF Docname
<1> QED
  BY <1>1, <1>3, <1>4, <1>5, <1>6, <1>7 DEF MenuInv

LEMMA IncludeWarned ==
  ASSUME HeldInv, DeclInv, Warned, IncludeStep
  PROVE  Warned'
<1>1. UNCHANGED <<setting, config, source, stage, fresh>>
  BY DEF IncludeStep, buildVars
<1>2. /\ left # <<>> /\ left' = Tail(left) /\ page' = page
      /\ xrefFiles \subseteq xrefFiles'
      /\ Head(left).kind = "warn" => Head(left).file \in xrefFiles'
  BY DEF IncludeStep, INC!Step, INC!PlainInclude, INC!KernelInclude, INC!MaintainersInclude,
    INC!KernelDoc, INC!KernelAbi, INC!KernelFeat, INC!Ran, INC!Due
<1>3. \A p \in Pages : Listed(p)' = Listed(p)
  BY <1>1, SameBuild
<1>4. stage \in {"read", "write"} => fresh \subseteq Pages
  BY DEF DeclInv, RightReads, Docs, Found
<1>5. stage' \in {"read", "write"} =>
        \A p \in fresh' : \A d \in Listed(p)' : d.kind = "warn" => d.file \in xrefFiles'
  BY <1>1, <1>2, <1>3, <1>4 DEF Warned
<1>6. ASSUME page # Nothing, NEW d \in Listed(page), d.kind = "warn"
      PROVE  d.file \in xrefFiles' \/ d \in ToSet(left')
  <2>1. left \in Seq(Listed(page))
    BY <1>6 DEF HeldInv, ReadInv
  <2>2. ToSet(left) = {Head(left)} \cup ToSet(left')
    BY <1>2, <2>1, ToSetFirst
  <2>3. d.file \in xrefFiles \/ d \in ToSet(left)
    BY <1>6 DEF Warned
  <2> QED
    BY <1>2, <1>6, <2>2, <2>3
<1>7. page # Nothing => page \in Pages
  BY DEF HeldInv, ReadInv
<1>8. page' # Nothing =>
        \A d \in Listed(page') : d.kind = "warn" => d.file \in xrefFiles' \/ d \in ToSet(left')
  BY <1>2, <1>6
<1>9. page' # Nothing => Listed(page)' = Listed(page)
  BY <1>2, <1>3, <1>7
<1> QED
  BY <1>2, <1>5, <1>8, <1>9 DEF Warned

LEMMA SameWarned ==
  ASSUME HeldInv, DeclInv, Warned,
         UNCHANGED <<setting, config, source, stage, fresh, xrefFiles, page, left>>
  PROVE  Warned'
<1>1. \A p \in Pages : Listed(p)' = Listed(p)
  BY SameBuild
<1>2. stage \in {"read", "write"} => fresh \subseteq Pages
  BY DEF DeclInv, RightReads, Docs, Found
<1>3. page # Nothing => page \in Pages
  BY DEF HeldInv, ReadInv
<1>4. stage' \in {"read", "write"} =>
        \A p \in fresh' : \A d \in Listed(p)' : d.kind = "warn" => d.file \in xrefFiles'
  BY <1>1, <1>2 DEF Warned
<1>5. page' # Nothing => Listed(page)' = Listed(page)
  BY <1>1, <1>3
<1>6. page' # Nothing =>
        \A d \in Listed(page) : d.kind = "warn" => d.file \in xrefFiles' \/ d \in ToSet(left')
  BY DEF Warned
<1> QED
  BY <1>4, <1>5, <1>6 DEF Warned

LEMMA EditPageWarned ==
  ASSUME HeldInv, NEW p \in Pages, EditPage(p)
  PROVE  Warned'
BY DEF EditPage, includeVars, HeldInv, ReadInv, Warned

LEMMA StartBuildWarned ==
  ASSUME HeldInv, StartBuild
  PROVE  Warned'
BY DEF StartBuild, HeldInv, ReadInv, Warned

LEMMA ReadPageWarned ==
  ASSUME HeldInv, DeclInv, Warned, Sourced, NEW p \in Pages, ReadPage(p)
  PROVE  Warned'
<1>1. /\ UNCHANGED <<setting, config, source, stage, fresh, xrefFiles>>
      /\ stage = "read" /\ page' = p /\ left' = Parsed(p).directives
  BY DEF ReadPage, INC!Begin
<1>2. \A q \in Pages : Listed(q)' = Listed(q)
  BY <1>1, SameBuild
<1>3. fresh \subseteq Pages
  BY <1>1 DEF DeclInv, RightReads, Docs, Found
<1>4. stage' \in {"read", "write"} =>
        \A q \in fresh' : \A d \in Listed(q)' : d.kind = "warn" => d.file \in xrefFiles'
  BY <1>1, <1>2, <1>3 DEF Warned
<1>5. Listed(page)' = ToSet(left')
  <2>1. Listed(page)' = Listed(p)'
    BY <1>1 DEF Listed, Parsed
  <2> QED
    BY <1>1, <1>2, <2>1 DEF Listed
<1> QED
  BY <1>4, <1>5 DEF Warned

LEMMA EndPageWarned ==
  ASSUME HeldInv, DeclInv, Warned, EndPage
  PROVE  Warned'
<1>1. /\ UNCHANGED <<setting, config, source, stage, xrefFiles>>
      /\ page # Nothing /\ left = <<>> /\ page' = Nothing /\ fresh' = fresh \cup {page}
  BY DEF EndPage, INC!End
<1>2. \A q \in Pages : Listed(q)' = Listed(q)
  BY <1>1, SameBuild
<1>3. fresh \subseteq Pages /\ page \in Pages /\ stage = "read"
  BY <1>1 DEF HeldInv, ReadInv, DeclInv, RightReads, Docs, Found
<1>4. ToSet(left) = {}
  BY <1>1 DEF ToSet
<1>5. \A d \in Listed(page) : d.kind = "warn" => d.file \in xrefFiles
  BY <1>1, <1>4 DEF Warned
<1>6. ASSUME NEW q \in fresh' PROVE \A d \in Listed(q)' : d.kind = "warn" => d.file \in xrefFiles'
  BY <1>1, <1>2, <1>3, <1>5 DEF Warned
<1> QED
  BY <1>1, <1>6 DEF Warned

LEMMA EndReadingWarned ==
  ASSUME HeldInv, DeclInv, Warned, EndReading
  PROVE  Warned'
<1>1. /\ UNCHANGED <<setting, config, source, fresh, xrefFiles, page, left>>
      /\ stage = "read" /\ page = Nothing
  BY DEF EndReading, includeVars
<1>2. \A q \in Pages : Listed(q)' = Listed(q)
  BY <1>1, SameBuild
<1>3. fresh \subseteq Pages
  BY <1>1 DEF DeclInv, RightReads, Docs, Found
<1>4. \A q \in fresh' : \A d \in Listed(q)' : d.kind = "warn" => d.file \in xrefFiles'
  BY <1>1, <1>2, <1>3 DEF Warned
<1> QED
  BY <1>1, <1>4 DEF Warned

LEMMA WritePageMenu ==
  ASSUME Sourced, HeldInv, DeclInv, Configured, Warned, NEW p \in Pages, WritePage(p)
  PROVE  MenuInv'
<1>1. /\ UNCHANGED <<setting, config, source, env, reads, stage, fresh>>
      /\ stage = "write" /\ p \in todo
      /\ reported' = reported \cup Missing(p)
      /\ menu' = [page |-> p,
                   links |-> TR!Shown(env[p].languages, {Docname(q) : q \in Found(config)},
                                      setting.format)]
  BY DEF WritePage, DoctreeResolved, MenuOf
<1>2. /\ setting.format = "html" => p \in fresh
      /\ p \in Docs /\ reads = env /\ Right(reads[p], Parsed(p).declares, Docname(p))
  BY <1>1 DEF DeclInv, RightReads, HeldInv, ReadInv
<1>3. Found(config) = Docs
  BY <1>1 DEF Configured, Docs, NowConf
<1>4. env[p].languages = TR!Wanted(Docname(p))
  BY <1>2 DEF Right
<1>5. ASSUME p \in fresh PROVE Broken(p, {"warn"}) \subseteq Missing(p)
  <2>1. \A d \in Listed(p) : d.kind = "warn" => d.file \in xrefFiles
    BY <1>1, <1>5 DEF Warned
  <2>2. ASSUME NEW b \in Broken(p, {"warn"})
        PROVE  b \in Broken(p, {"xref", "warn"}) /\ b[1] \in xrefFiles
    <3>1. PICK d \in Listed(p) : d.kind = "warn" /\ b \in {d.file} \X (Mentions[d.file] \ Known)
      BY <2>2 DEF Broken, Listed
    <3>2. b[1] = d.file
      BY <3>1
    <3>3. b \in Broken(p, {"xref", "warn"})
      BY <3>1 DEF Broken, Listed
    <3> QED
      BY <2>1, <3>1, <3>2, <3>3
  <2> QED
    BY <2>2 DEF Missing
<1>6. Broken(p, {"warn"})' = Broken(p, {"warn"})
  BY <1>1, SameBroken
<1>7. Docs' = Docs /\ Docs \subseteq Pages /\ \A q \in Pages : Docname(q)' = Docname(q)
  BY <1>1, SameSources DEF Docs, Found
<1>8. {Docname(q)' : q \in Docs'} = {Docname(q) : q \in Docs}
  BY <1>7
<1>9. /\ menu'.page = p
      /\ menu'.links = TR!Shown(TR!Wanted(Docname(p)), {Docname(q) : q \in Docs}, setting.format)
  BY <1>1, <1>3, <1>4
<1>10. Docname(menu.page)' = Docname(p)
  BY <1>1, <1>9 DEF Docname
<1>11. Broken(menu.page, {"warn"})' = Broken(p, {"warn"})
  BY <1>6, <1>9 DEF Broken, Parsed, Known, DeclaredIn
<1> QED
  BY <1>1, <1>2, <1>5, <1>7, <1>8, <1>9, <1>10, <1>11 DEF MenuInv

LEMMA InitWarn == Init => WarnInv
BY DEF Init, INC!Init, NoMenu, WarnInv, Warned, MenuInv

LEMMA NextWarn ==
  ASSUME Sourced, Configured, HeldInv, DeclInv, WarnInv, [Next]_vars
  PROVE  WarnInv'
<1>1. ASSUME NEW p \in Pages, EditPage(p) PROVE WarnInv'
  <2>1. UNCHANGED menu /\ stage # "write"
    BY <1>1 DEF EditPage
  <2> QED
    BY <1>1, <2>1, EditPageWarned, SameMenu DEF WarnInv
<1>2. ASSUME NEW p \in Pages, ReadPage(p) PROVE WarnInv'
  <2>1. UNCHANGED menu /\ stage # "write"
    BY <1>2 DEF ReadPage
  <2> QED
    BY <1>2, <2>1, ReadPageWarned, SameMenu DEF WarnInv
<1>3. ASSUME NEW p \in Pages, WritePage(p) PROVE WarnInv'
  <2>1. UNCHANGED <<setting, config, source, stage, fresh, xrefFiles, page, left>>
    BY <1>3 DEF WritePage, includeVars
  <2> QED
    BY <1>3, <2>1, SameWarned, WritePageMenu DEF WarnInv
<1>4. ASSUME NEW f \in Files, EditFile(f) PROVE WarnInv'
  <2>1. /\ UNCHANGED <<setting, config, source, stage, fresh, xrefFiles, page, left, menu>>
        /\ stage # "write"
    BY <1>4 DEF EditFile
  <2> QED
    BY <2>1, SameWarned, SameMenu DEF WarnInv
<1>5. CASE StartBuild
  <2>1. UNCHANGED menu /\ stage # "write"
    BY <1>5 DEF StartBuild
  <2> QED
    BY <1>5, <2>1, StartBuildWarned, SameMenu DEF WarnInv
<1>6. CASE EndPage
  <2>1. UNCHANGED menu /\ stage # "write"
    BY <1>6 DEF EndPage, INC!End, HeldInv, ReadInv
  <2> QED
    BY <1>6, <2>1, EndPageWarned, SameMenu DEF WarnInv
<1>7. CASE EndReading
  <2>1. UNCHANGED menu /\ stage # "write"
    BY <1>7 DEF EndReading
  <2> QED
    BY <1>7, <2>1, EndReadingWarned, SameMenu DEF WarnInv
<1>8. CASE IncludeStep
  <2>1. UNCHANGED <<menu, setting, config, source, reads, stage, fresh, reported>>
    BY <1>8 DEF IncludeStep, buildVars
  <2> QED
    BY <1>8, <2>1, IncludeWarned, SameMenu DEF WarnInv
<1>9. CASE TableStep \/ MarkStep \/ UNCHANGED vars
  <2>1. UNCHANGED <<menu, setting, config, source, reads, stage, fresh, reported, xrefFiles,
                    page, left>>
    BY <1>9 DEF TableStep, MarkStep, vars, buildVars, includeVars
  <2> QED
    BY <2>1, SameWarned, SameMenu DEF WarnInv
<1>10. CASE EndBuild \/ Crash \/ Kill
  <2>1. EndProcess
    BY <1>10 DEF EndBuild, Crash, Kill
  <2>2. stage' = "off" /\ page' = Nothing /\ menu'.page = Nothing
    BY <2>1 DEF EndProcess, NoMenu
  <2> QED
    BY <2>2 DEF WarnInv, Warned, MenuInv
<1> QED
  BY <1>1, <1>2, <1>3, <1>4, <1>5, <1>6, <1>7, <1>8, <1>9, <1>10 DEF Next

(* A page written is a document, in a language that the menu knows. *)
LEMMA DocsKnown ==
  ASSUME DeclInv, stage = "write", setting.srcdir = <<>>, Sourced, NEW p \in Docs
  PROVE  /\ p \in Pages
         /\ Docname(p) = Append(source[p].at.dir, source[p].at.name)
         /\ IsPlaced(Words \cup Tokens, source[p].at.dir, source[p].at.name)
<1> DEFINE d == source[p].at.dir
           n == source[p].at.name
<1>1. p \in Pages
  BY DEF Docs, Found
<1>2. source[p] \in Sources /\ CONF!IsDoc(source[p].at)
  BY <1>1, SiteAssumption DEF Sourced, IsSource
<1>3. d \in Dirs
  BY <1>2, DocDir
<1>4. Docname(p) = Append(d, n)
  BY <1>3, Root DEF Docname, CONF!Docname
<1>5. ~TR!UnknownLanguage(Docname(p))
  BY DEF DeclInv, RightReads, Right
<1>6. ~TranslatedTwice(d)
  BY <1>2, PlaceAssumption
<1>7. n \in Words \cup Tokens
  BY <1>2 DEF CONF!IsDoc, Tokens
<1>8. d \in Seq(Words \cup Tokens)
  BY <1>3, DirOf DEF Dirs
<1> QED
  BY <1>1, <1>4, <1>5, <1>6, <1>7, <1>8 DEF IsPlaced

LEMMA LanguagesHold ==
  ASSUME Sourced, Configured, DeclInv, MenuInv
  PROVE  LanguagesRight
<1> SUFFICES ASSUME menu.page # Nothing, setting.format = "html", setting.srcdir = <<>>
             PROVE  menu.links = {Docname(q) : q \in {r \in Found(config) \ {menu.page} :
                      /\ Original(r) = Original(menu.page)
                      /\ source[r].at.name = source[menu.page].at.name}}
  BY DEF LanguagesRight
<1> DEFINE p == menu.page
           T == Words \cup Tokens
           DirAt(q) == source[q].at.dir
           NameAt(q) == source[q].at.name
<1>1. /\ stage = "write" /\ p \in Docs /\ Found(config) = Docs
      /\ menu.links = TR!Wanted(Docname(p)) \cap {Docname(q) : q \in Docs}
  BY DEF MenuInv, DeclInv, RightReads, TR!Shown, Configured, Docs, NowConf
<1>2. ASSUME NEW q \in Docs PROVE Original(q) = OriginalDir(DirAt(q))
  <2>1. Len(<<"", "">>) + 1 = 3
    OBVIOUS
  <2> QED
    BY <2>1 DEF Original, OriginalDir, CONF!Below
<1> HIDE DEF p
<1>3. ASSUME NEW q \in Docs
      PROVE  Docname(q) \in TR!Wanted(Docname(p)) <=>
               q # p /\ Original(q) = Original(p) /\ NameAt(q) = NameAt(p)
  <2>1. /\ q \in Pages /\ Docname(q) = Append(DirAt(q), NameAt(q))
        /\ IsPlaced(T, DirAt(q), NameAt(q))
    BY <1>1, DocsKnown
  <2>2. /\ p \in Pages /\ Docname(p) = Append(DirAt(p), NameAt(p))
        /\ IsPlaced(T, DirAt(p), NameAt(p))
    BY <1>1, DocsKnown
  <2>3. Original(q) = OriginalDir(DirAt(q)) /\ Original(p) = OriginalDir(DirAt(p))
    BY <1>1, <1>2
  <2>4. "translations" \in T /\ TR!AllLanguages \subseteq T
    BY DEF Tokens
  <2>5. ASSUME Docname(q) = Docname(p) PROVE q = p
    <3>1. DirAt(q) \in Seq(T) /\ NameAt(q) \in T /\ DirAt(p) \in Seq(T) /\ NameAt(p) \in T
      BY <2>1, <2>2 DEF IsPlaced
    <3> HIDE DEF T
    <3>2. DirAt(q) = DirAt(p) /\ NameAt(q) = NameAt(p)
      <4> DEFINE e == DirAt(q)
                 m == NameAt(q)
                 d == DirAt(p)
                 n == NameAt(p)
      <4>1. /\ e \in Seq(T) /\ m \in T /\ d \in Seq(T) /\ n \in T
            /\ Append(e, m) = Append(d, n)
        BY <2>1, <2>2, <2>5, <3>1
      <4> HIDE DEF e, m, d, n
      <4>2. e = d /\ m = n
        BY <4>1, AppendSame
      <4> QED
        BY <4>2 DEF e, m, d, n
    <3> QED
      BY <2>1, <2>2, <3>2 DEF DeclInv, Placed, SameName
  <2> HIDE DEF T
  <2> DEFINE e == DirAt(q)
             m == NameAt(q)
             d == DirAt(p)
             n == NameAt(p)
  <2>6. IsPlaced(T, e, m) /\ IsPlaced(T, d, n)
    BY <2>1, <2>2
  <2> HIDE DEF e, m, d, n
  <2>7. Append(e, m) \in TR!Wanted(Append(d, n)) <=>
          /\ Append(e, m) # Append(d, n)
          /\ OriginalDir(e) = OriginalDir(d) /\ m = n
    BY <2>4, <2>6, LinksOf
  <2>8. q # p <=> Docname(q) # Docname(p)
    BY <2>5
  <2> QED
    BY <2>1, <2>2, <2>3, <2>7, <2>8 DEF e, m, d, n
<1> HIDE DEF DirAt, NameAt
<1>4. {Docname(q) : q \in Docs} \cap TR!Wanted(Docname(p))
        = {Docname(q) : q \in {r \in Docs \ {p} :
             Original(r) = Original(p) /\ NameAt(r) = NameAt(p)}}
  BY <1>3
<1> QED
  BY <1>1, <1>4 DEF p, NameAt

LEMMA DeclaredKnown ==
  ASSUME Sourced, Configured, DeclInv, stage = "write"
  PROVE  Known = Declares
<1>1. Found(config) = Docs /\ Docs \subseteq Pages
  BY DEF Configured, Docs, NowConf, Found
<1>2. \A p \in Docs : reads[p].declares = Parsed(p).declares
  BY DEF DeclInv, RightReads, Right
<1>3. \A p \in Pages \ Docs : reads[p].declares = {}
  BY DEF DeclInv, RightEntries
<1> QED
  BY <1>1, <1>2, <1>3 DEF Known, DeclaredIn, Declares

(* The link of a match is what the match is marked up as, as no other begins with it. *)
LEMMA LinkHolds ==
  ASSUME MarkInv, LinkInv, marking = "done", NEW m \in text.matches, AM!IsC(m)
  PROVE  LET own == AM!Target(cNamespace, m.name) IN
         /\ own \in Reachable /\ ~AM!Skipped(m) => AM!LinkOf(m, own) \in ToSet(repl)
         /\ \A target : AM!LinkOf(m, target) \in ToSet(repl) =>
                          target \in Reachable /\ target = own
<1> DEFINE own == AM!Target(cNamespace, m.name)
           ts == AM!Tried(m)
<1>1. /\ failedLookups = {}
      /\ AM!MarkedUp(m) \in ToSet(repl)
      /\ \A e \in ToSet(repl) : e.what = "link" => \E n \in text.matches : e = AM!MarkedUp(n)
  <2>1. Replaced /\ pending = <<>> /\ failedLookups = {}
    BY DEF LinkInv, Replaced
  <2>2. ToSet(pending) = {}
    BY <2>1 DEF ToSet
  <2> QED
    BY <2>1, <2>2 DEF Replaced
<1>2. /\ LookedUp(ts, m, own)
      /\ AM!MarkedUp(m) =
           IF ts = <<>> THEN AM!Plain(m.start, m.end)
           ELSE AM!Piece(m.start, m.end, IF ts[1] \in Reachable THEN "link" ELSE "broken", ts[1])
  BY <1>1, CMarked
<1> HIDE DEF ts, own
<1>3. ASSUME own \in Reachable, ~AM!Skipped(m) PROVE AM!LinkOf(m, own) \in ToSet(repl)
  <2>1. ts # <<>> /\ ts[1] = own
    BY <1>2, <1>3 DEF LookedUp
  <2> QED
    BY <1>1, <1>2, <1>3, <2>1 DEF AM!LinkOf
<1>4. ASSUME NEW target, AM!LinkOf(m, target) \in ToSet(repl)
      PROVE  target \in Reachable /\ target = own
  <2>1. PICK n \in text.matches : AM!LinkOf(m, target) = AM!MarkedUp(n)
    BY <1>1, <1>4 DEF AM!LinkOf, AM!Piece
  <2>2. n.start = m.start
    <3>1. AM!MarkedUp(n).from = n.start
      BY InPlace DEF MarkInv, MarkTyped
    <3> QED
      BY <2>1, <3>1 DEF AM!LinkOf, AM!Piece
  <2>3. n = m
    BY <2>2 DEF MarkInv, MarkTyped, AM!IsText, AM!IsC
  <2>4. AM!LinkOf(m, target) = AM!Piece(m.start, m.end, "link", target)
    BY DEF AM!LinkOf
  <2>5. ts # <<>>
    BY <1>2, <2>1, <2>3, <2>4 DEF AM!Plain, AM!Piece
  <2>6. /\ ts[1] = target
        /\ (IF ts[1] \in Reachable THEN "link" ELSE "broken") = "link"
    BY <1>2, <2>1, <2>3, <2>4, <2>5 DEF AM!Piece
  <2> QED
    BY <1>2, <2>5, <2>6 DEF LookedUp
<1> QED
  BY <1>3, <1>4 DEF own

(* Whatever the pages, their texts, declarations and directives, the format and the books,
   and however builds, crashes, kills and edits follow one another: a C name is linked to
   its own declaration, in a LaTeX book to the one in the namespace of the index if that
   has a URI, and to nothing that is no longer declared or has none; the language menu
   leads to the translations that there are; and no cross-reference of a page read by the
   build that is to be reported goes unreported. *)
THEOREM LinksLeadRight == Spec => []LinksRight
<1> DEFINE Inv == /\ Sourced /\ Configured /\ MarkInv /\ HeldInv
                  /\ LinkInv /\ DeclInv /\ WarnInv
<1>1. Init => Inv
  BY InitSourced, InitConfigured, InitMark, InitHeld, InitLinks, InitDecl, InitWarn
<1>2. Inv /\ [Next]_vars => Inv'
  BY NextSourced, NextConfigured, NextMark, NextHeld, NextLinks, NextDecl, NextWarn
<1>3. ASSUME Inv PROVE LinksRight
  <2> SUFFICES ASSUME marking = "done" PROVE LinksRight
    BY DEF LinksRight
  <2>1. LanguagesRight
    BY <1>3, LanguagesHold DEF WarnInv
  <2>2. BrokenReported
    BY <1>3 DEF WarnInv, MenuInv, BrokenReported
  <2>3. stage = "write"
    BY <1>3 DEF LinkInv, Replaced
  <2>4. Known = Declares
    BY <1>3, <2>3, DeclaredKnown
  <2> DEFINE html == setting.format = "html"
             linked == IF html THEN Declares ELSE Declares \cap uris
             own(m) == AM!Target(IF html THEN text.namespace ELSE cNamespace, m.name)
  <2>5. html => cNamespace = text.namespace /\ uris = Known
    BY <1>3 DEF LinkInv, Replaced
  <2>6. linked = Reachable /\ \A m : own(m) = AM!Target(cNamespace, m.name)
    BY <2>4, <2>5 DEF Reachable
  <2>7. ASSUME NEW m \in text.matches, AM!IsC(m)
        PROVE  /\ own(m) \in linked /\ ~AM!Skipped(m) => AM!LinkOf(m, own(m)) \in ToSet(repl)
               /\ \A target \in Namespaces \X Names :
                    AM!LinkOf(m, target) \in ToSet(repl) =>
                      target \in linked /\ target \in {own(m), AM!Target("", m.name)}
    BY <1>3, <2>6, <2>7, LinkHolds
  <2> QED
    BY <2>1, <2>2, <2>7 DEF LinksRight
<1> HIDE DEF Inv
<1> QED
  BY <1>1, <1>2, <1>3, PTL DEF Spec

----------------------------------------------------------------------------
(* Tables. *)

Places == FT!Cells \cup {None}

Rows == Seq(Places) \ {<<>>}

(* No row is longer than the table is wide, once that is measured. *)
TableInv ==
  /\ fillCells \in BOOLEAN
  /\ step \in {"idle", "spans", "pad", "done"}
  /\ rows \in Seq(Rows) /\ Len(table) \in Nat /\ Len(rows) = Len(table)
  /\ y \in 1 .. Len(table) + 1
  /\ x \in Nat \ {0}
  /\ maxCols \in Nat
  /\ step = "idle" => y = 1
  /\ step = "spans" => Len(table) > 0
  /\ step \in {"pad", "done"} => \A k \in 1 .. Len(rows) : Len(rows[k]) <= maxCols

LEMMA RowEach ==
  ASSUME NEW row \in Rows
  PROVE  row \in Seq(Places) /\ Len(row) \in Nat /\ Len(row) > 0
BY DEF Rows

LEMMA RowsOf ==
  ASSUME NEW row \in Seq(Places), Len(row) > 0
  PROVE  row \in Rows
<1>1. Len(<<>>) = 0
  OBVIOUS
<1> QED
  BY <1>1 DEF Rows

(* Whatever the place, a row that is widened stays a row. *)
LEMMA WidenedRow ==
  ASSUME NEW row \in Rows, NEW place \in Nat \ {0}, NEW n \in Nat
  PROVE  FT!Widened(row, place, n) \in Rows
<1> DEFINE b == IF place <= Len(row) THEN place - 1 ELSE Len(row)
           u == SubSeq(row, 1, b)
           v == [c \in 1 .. n |-> None]
           w == SubSeq(row, b + 1, Len(row))
<1>1. row \in Seq(Places) /\ Len(row) \in Nat /\ Len(row) > 0
  BY RowEach
<1>2. b \in 0 .. Len(row)
  BY <1>1
<1>3. FT!Widened(row, place, n) = u \o v \o w
  BY DEF FT!Widened
<1> HIDE DEF b
<1>4. u \in Seq(Places) /\ Len(u) = b
  <2>1. \A k \in 1 .. b : row[k] \in Places
    BY <1>1, <1>2
  <2> QED
    BY <1>1, <1>2, <2>1, SubSeqProperties
<1>5. v \in Seq(Places) /\ Len(v) = n
  BY DEF Places
<1>6. w \in Seq(Places) /\ Len(w) = Len(row) - b
  <2>1. \A k \in b + 1 .. Len(row) : row[k] \in Places
    BY <1>1, <1>2
  <2>2. w \in Seq(Places) /\ Len(w) = IF b + 1 <= Len(row) THEN Len(row) - (b + 1) + 1 ELSE 0
    BY <1>1, <1>2, <2>1, SubSeqProperties
  <2>3. CASE b + 1 <= Len(row)
    BY <1>1, <1>2, <2>2, <2>3
  <2>4. CASE ~(b + 1 <= Len(row))
    <3>1. Len(row) - b = 0
      BY <1>1, <1>2, <2>4
    <3> QED
      BY <2>2, <2>4, <3>1
  <2> QED
    BY <2>3, <2>4
<1> HIDE DEF u, v, w
<1>7. u \o v \in Seq(Places) /\ Len(u \o v) = b + n
  BY <1>4, <1>5, ConcatProperties
<1> DEFINE uv == u \o v
<1>8. uv \in Seq(Places) /\ Len(uv) = b + n
  BY <1>7
<1>9. FT!Widened(row, place, n) = uv \o w
  BY <1>3
<1> HIDE DEF uv
<1>10. uv \o w \in Seq(Places) /\ Len(uv \o w) = b + n + (Len(row) - b)
  BY <1>6, <1>8, ConcatProperties
<1>11. Len(uv \o w) > 0
  BY <1>1, <1>2, <1>10
<1> QED
  BY <1>9, <1>10, <1>11, RowsOf

(* A row that is padded grows by no more than it is short. *)
LEMMA PaddedRow ==
  ASSUME NEW row \in Rows, NEW n \in Nat
  PROVE  FT!Padded(row, n) \in Rows /\ Len(FT!Padded(row, n)) <= Len(row) + n
<1> DEFINE m == Len(row)
           p == FT!Padded(row, n)
<1>1. row \in Seq(Places) /\ m \in Nat /\ m > 0 /\ row[m] \in Places
  BY RowEach
<1>2. FT!Last(row) = row[m]
  BY DEF FT!Last
<1>3. \A c \in Nat : FT!Plain(c) \in Places
  BY DEF Places, FT!Cells, FT!Plain
<1>4. CASE n = 0
  BY <1>1, <1>4 DEF FT!Padded
<1>a. ASSUME p \in Seq(Places), Len(p) \in m .. m + n PROVE p \in Rows /\ Len(p) <= m + n
  <2> HIDE DEF p, m
  <2>1. Len(p) > 0 /\ Len(p) <= m + n
    BY <1>1, <1>a
  <2> QED
    BY <1>a, <2>1, RowsOf
<1>5. CASE n # 0 /\ fillCells
  <2> DEFINE v == [i \in 1 .. n |-> FT!Plain(0)]
  <2>1. v \in Seq(Places) /\ Len(v) = n
    BY <1>3
  <2>2. FT!Padded(row, n) = row \o v
    BY <1>5 DEF FT!Padded
  <2> HIDE DEF v
  <2>3. row \o v \in Seq(Places) /\ Len(row \o v) = m + n
    BY <1>1, <2>1, ConcatProperties
  <2>4. p \in Seq(Places) /\ Len(p) \in m .. m + n
    BY <1>1, <2>2, <2>3
  <2> QED
    BY <1>a, <2>4
<1>6. CASE n # 0 /\ ~fillCells /\ row[m] = None
  <2> DEFINE c == FT!Plain(n - 1)
  <2>1. c \in Places
    BY <1>3, <1>6
  <2>2. FT!Padded(row, n) = Append(row, c)
    BY <1>2, <1>6 DEF FT!Padded
  <2> HIDE DEF c
  <2>3. Append(row, c) \in Seq(Places) /\ Len(Append(row, c)) = m + 1
    BY <1>1, <2>1, AppendProperties
  <2>4. p \in Seq(Places) /\ Len(p) \in m .. m + n
    BY <1>1, <1>6, <2>2, <2>3
  <2> QED
    BY <1>a, <2>4
<1>7. CASE n # 0 /\ ~fillCells /\ row[m] # None
  <2> DEFINE v == [row EXCEPT ![m].cspan = @ + n]
  <2>1. FT!Padded(row, n) = v
    BY <1>2, <1>7 DEF FT!Padded
  <2>2. row[m] \in FT!Cells
    BY <1>1, <1>7 DEF Places
  <2>3. [row[m] EXCEPT !.cspan = @ + n] \in Places
    BY <2>2 DEF Places, FT!Cells
  <2>4. v = [row EXCEPT ![m] = [row[m] EXCEPT !.cspan = @ + n]]
    OBVIOUS
  <2>5. v \in Seq(Places) /\ Len(v) = m
    <3> DEFINE c == [row[m] EXCEPT !.cspan = @ + n]
    <3>1. c \in Places
      BY <2>3
    <3> HIDE DEF c
    <3>2. [row EXCEPT ![m] = c] \in Seq(Places) /\ Len([row EXCEPT ![m] = c]) = m
      BY <1>1, <3>1
    <3> QED
      BY <2>4, <3>2 DEF c
  <2>6. p \in Seq(Places) /\ Len(p) \in m .. m + n
    BY <1>1, <2>1, <2>5
  <2> QED
    BY <1>a, <2>6
<1> QED
  BY <1>4, <1>5, <1>6, <1>7

(* Of numbers up to any place, some is the largest. *)
LEMMA LargestOf ==
  ASSUME NEW N \in Nat, NEW L \in [1 .. N -> Nat], NEW n \in 1 .. N
  PROVE  \E j \in 1 .. n : \A k \in 1 .. n : L[k] <= L[j]
<1> DEFINE Some(i) == \E j \in 1 .. i : \A k \in 1 .. i : L[k] <= L[j]
           B == {i \in 1 .. N : ~Some(i)}
<1> SUFFICES ASSUME B # {} PROVE FALSE
  OBVIOUS
<1>1. PICK i \in B : \A k \in B : ~(<<k, i>> \in OpToRel(<, Nat))
  <2>1. B \subseteq Nat
    OBVIOUS
  <2> HIDE DEF B
  <2> QED
    BY <2>1, WFMin, NatLessThanWellFounded
<1>2. i \in 1 .. N /\ ~Some(i)
  BY <1>1
<1>3. i # 1
  <2>1. Some(1)
    <3>1. 1 \in 1 .. 1 /\ \A k \in 1 .. 1 : k = 1
      OBVIOUS
    <3>2. L[1] <= L[1]
      BY <1>2
    <3> QED
      BY <3>1, <3>2
  <2> QED
    BY <1>2, <2>1
<1>4. i - 1 \in 1 .. N /\ i - 1 < i
  BY <1>2, <1>3
<1>5. Some(i - 1)
  <2>1. i - 1 \notin B
    <3>1. <<i - 1, i>> \in OpToRel(<, Nat)
      BY <1>2, <1>4 DEF OpToRel
    <3> HIDE DEF B
    <3> QED
      BY <1>1, <3>1
  <2> QED
    BY <1>4, <2>1
<1>6. PICK j \in 1 .. i - 1 : \A k \in 1 .. i - 1 : L[k] <= L[j]
  BY <1>5
<1>7. /\ j \in 1 .. i /\ i \in 1 .. i
      /\ \A k \in 1 .. i : k \in 1 .. N /\ (k \in 1 .. i - 1 \/ k = i)
  BY <1>2, <1>6
<1>8. CASE L[i] <= L[j]
  <2>1. Some(i)
    BY <1>6, <1>7, <1>8
  <2> QED
    BY <1>2, <2>1
<1>9. CASE ~(L[i] <= L[j])
  <2>1. ASSUME NEW k \in 1 .. i PROVE L[k] <= L[i]
    <3>1. L[k] \in Nat /\ L[j] \in Nat /\ L[i] \in Nat
      BY <1>7
    <3>2. k = i \/ L[k] <= L[j]
      BY <1>6, <1>7
    <3> QED
      BY <1>9, <3>1, <3>2
  <2>2. Some(i)
    BY <1>7, <2>1
  <2> QED
    BY <1>2, <2>2
<1> QED
  BY <1>8, <1>9

(* Longest is a length, and no row is longer. *)
LEMMA LongestRow ==
  ASSUME rows \in Seq(Rows), Len(rows) > 0
  PROVE  FT!Longest \in Nat /\ \A k \in 1 .. Len(rows) : Len(rows[k]) <= FT!Longest
<1> DEFINE N == Len(rows)
           L == [k \in 1 .. N |-> Len(rows[k])]
<1>1. N \in Nat /\ N \in 1 .. N
  OBVIOUS
<1>2. L \in [1 .. N -> Nat] /\ \A k \in 1 .. N : L[k] = Len(rows[k])
  BY RowEach
<1> HIDE DEF L
<1>3. PICK j \in 1 .. N : \A k \in 1 .. N : L[k] <= L[j]
  BY <1>1, <1>2, LargestOf
<1>4. \E n \in {Len(rows[k]) : k \in 1 .. N} : \A k \in 1 .. N : Len(rows[k]) <= n
  BY <1>2, <1>3
<1>5. /\ FT!Longest \in {Len(rows[k]) : k \in 1 .. N}
      /\ \A k \in 1 .. N : Len(rows[k]) <= FT!Longest
  BY <1>4 DEF FT!Longest
<1> QED
  BY <1>2, <1>5

LEMMA UnchangedTable == TableInv /\ UNCHANGED tableVars => TableInv'
BY DEF TableInv, tableVars

LEMMA BlankTable ==
  ASSUME table' = <<>>, fillCells' = FALSE, step' = "idle", rows' = <<>>, y' = 1, x' = 1,
         maxCols' = 0
  PROVE  TableInv'
<1>1. <<>> \in Seq(Rows) /\ Len(<<>>) = 0 /\ 0 \in Nat
  OBVIOUS
<1>2. 1 \in 1 .. 0 + 1 /\ 1 \in Nat \ {0}
  OBVIOUS
<1>3. /\ rows' \in Seq(Rows) /\ Len(table') = 0 /\ Len(rows') = 0
      /\ y' \in 1 .. Len(table') + 1
  BY <1>1, <1>2
<1>4. /\ fillCells' \in BOOLEAN
      /\ step' = "idle" /\ step' # "spans" /\ step' \notin {"pad", "done"}
  OBVIOUS
<1> QED
  BY <1>1, <1>2, <1>3, <1>4 DEF TableInv

LEMMA InitTable == FT!Idle => TableInv
<1> SUFFICES ASSUME FT!Idle PROVE TableInv
  OBVIOUS
<1>1. <<>> \in Seq(Rows) /\ Len(<<>>) = 0 /\ 0 \in Nat
  OBVIOUS
<1>2. 1 \in 1 .. 0 + 1 /\ 1 \in Nat \ {0}
  OBVIOUS
<1>3. /\ table = <<>> /\ fillCells = FALSE /\ step = "idle" /\ rows = <<>> /\ y = 1 /\ x = 1
      /\ maxCols = 0
  BY DEF FT!Idle
<1>4. /\ rows \in Seq(Rows) /\ Len(table) = 0 /\ Len(rows) = 0
      /\ y \in 1 .. Len(table) + 1
  BY <1>1, <1>2, <1>3
<1>5. /\ fillCells \in BOOLEAN
      /\ step # "spans" /\ step \notin {"pad", "done"}
  BY <1>3
<1> QED
  BY <1>1, <1>2, <1>3, <1>4, <1>5 DEF TableInv

LEMMA ParseTable ==
  ASSUME TableInv, NEW t, NEW fill \in BOOLEAN, FT!IsTable(t), FT!Parse(t, fill)
  PROVE  TableInv'
<1>1. /\ step = "idle" /\ table' = t /\ fillCells' = fill /\ step' = "spans" /\ rows' = t
      /\ UNCHANGED <<y, x, maxCols>>
  BY DEF FT!Parse
<1>2. t \in Seq(Seq(FT!Cells) \ {<<>>}) /\ t # <<>>
  BY DEF FT!IsTable
<1>3. Len(t) \in Nat /\ Len(t) > 0
  BY <1>2
<1>4. Seq(FT!Cells) \ {<<>>} \subseteq Rows
  <2>1. FT!Cells \subseteq Places
    BY DEF Places
  <2> QED
    BY <2>1, DirOf DEF Rows
<1>5. t \in Seq(Rows)
  BY <1>2, <1>4, DirOf
<1>6. y' = 1 /\ 1 \in 1 .. Len(t) + 1
  BY <1>1, <1>3 DEF TableInv
<1> QED
  BY <1>1, <1>3, <1>5, <1>6 DEF TableInv

LEMMA ExpandTable ==
  ASSUME TableInv, FT!Expand
  PROVE  TableInv'
<1> DEFINE cell == rows[y][x]
           Now(k) == IF k = y THEN FT!Widened(rows[k], x + 1, cell.cspan)
                     ELSE IF k \in y + 1 .. y + cell.rspan
                     THEN FT!Widened(rows[k], x, cell.cspan + 1)
                     ELSE rows[k]
<1>1. /\ step = "spans" /\ y <= Len(rows) /\ x <= Len(rows[y]) /\ cell # None
      /\ rows' = [k \in 1 .. Len(rows) |-> Now(k)]
      /\ x' = x + 1 /\ UNCHANGED <<table, fillCells, step, y, maxCols>>
  BY DEF FT!Expand
<1>2. /\ rows \in Seq(Rows) /\ Len(rows) \in Nat /\ y \in 1 .. Len(rows)
      /\ x \in Nat \ {0}
  BY <1>1 DEF TableInv
<1>3. cell \in FT!Cells
  <2>1. rows[y] \in Rows
    BY <1>2
  <2>2. rows[y] \in Seq(Places) /\ Len(rows[y]) \in Nat
    BY <2>1, RowEach
  <2>3. cell \in Places
    BY <1>1, <1>2, <2>2
  <2> QED
    BY <1>1, <2>3 DEF Places
<1>4. cell.cspan \in Nat /\ cell.cspan + 1 \in Nat /\ x + 1 \in Nat \ {0}
  BY <1>2, <1>3 DEF FT!Cells
<1> HIDE DEF cell
<1>5. ASSUME NEW k \in 1 .. Len(rows) PROVE Now(k) \in Rows
  <2>1. rows[k] \in Rows
    BY <1>2
  <2> QED
    BY <1>2, <1>4, <2>1, WidenedRow
<1> HIDE DEF Now
<1>6. rows' \in Seq(Rows) /\ Len(rows') = Len(rows)
  BY <1>1, <1>2, <1>5
<1> QED
  BY <1>1, <1>4, <1>6 DEF TableInv

LEMMA PadTable ==
  ASSUME TableInv, FT!Pad
  PROVE  TableInv'
<1> DEFINE n == maxCols - Len(rows[y])
           p == FT!Padded(rows[y], n)
<1>1. /\ step = "pad" /\ y <= Len(rows) /\ y' = y + 1
      /\ rows' = [rows EXCEPT ![y] = p]
      /\ UNCHANGED <<table, fillCells, step, x, maxCols>>
  BY DEF FT!Pad
<1>2. /\ rows \in Seq(Rows) /\ Len(rows) \in Nat /\ y \in 1 .. Len(rows) /\ maxCols \in Nat
      /\ \A k \in 1 .. Len(rows) : Len(rows[k]) <= maxCols
  BY <1>1 DEF TableInv
<1>3. rows[y] \in Rows /\ Len(rows[y]) \in Nat /\ n \in Nat /\ Len(rows[y]) + n = maxCols
  <2>1. rows[y] \in Rows
    BY <1>2
  <2>2. Len(rows[y]) \in Nat /\ Len(rows[y]) <= maxCols
    BY <1>2, <2>1, RowEach
  <2> QED
    BY <1>2, <2>1, <2>2
<1>4. p \in Rows /\ Len(p) <= maxCols
  <2>1. Len(FT!Padded(rows[y], n)) <= Len(rows[y]) + n /\ FT!Padded(rows[y], n) \in Rows
    BY <1>3, PaddedRow
  <2> QED
    BY <1>3, <2>1
<1> HIDE DEF p, n
<1>5. rows' \in Seq(Rows) /\ Len(rows') = Len(rows)
  BY <1>1, <1>2, <1>4
<1>6. \A k \in 1 .. Len(rows') : Len(rows'[k]) <= maxCols
  <2> SUFFICES ASSUME NEW k \in 1 .. Len(rows) PROVE Len(rows'[k]) <= maxCols
    BY <1>5
  <2>1. rows'[k] = IF k = y THEN p ELSE rows[k]
    BY <1>1, <1>2
  <2> QED
    BY <1>2, <1>4, <2>1
<1>7. y' \in 1 .. Len(table') + 1
  BY <1>1, <1>2 DEF TableInv
<1> QED
  BY <1>1, <1>5, <1>6, <1>7 DEF TableInv

LEMMA MeasureTable ==
  ASSUME TableInv, FT!Measure
  PROVE  TableInv'
<1>1. /\ step = "spans" /\ maxCols' = FT!Longest /\ step' = "pad" /\ y' = 1
      /\ UNCHANGED <<table, fillCells, rows, x>>
  BY DEF FT!Measure
<1>2. rows \in Seq(Rows) /\ Len(rows) > 0
  BY <1>1 DEF TableInv
<1>3. FT!Longest \in Nat /\ \A k \in 1 .. Len(rows) : Len(rows[k]) <= FT!Longest
  BY <1>2, LongestRow
<1> QED
  BY <1>1, <1>3 DEF TableInv

LEMMA StepTable ==
  ASSUME TableInv, FT!Step
  PROVE  TableInv'
<1>1. CASE FT!SkipCovered
  BY <1>1 DEF FT!SkipCovered, TableInv
<1>2. CASE FT!NextRow
  BY <1>2 DEF FT!NextRow, TableInv
<1>3. CASE FT!Built
  BY <1>3 DEF FT!Built, TableInv
<1>4. CASE FT!Return
  BY <1>4, BlankTable DEF FT!Return
<1> QED
  BY <1>1, <1>2, <1>3, <1>4, ExpandTable, PadTable, MeasureTable DEF FT!Step

LEMMA TableTyped == TableInv => FT!TypeOK
<1> SUFFICES ASSUME TableInv PROVE FT!TypeOK
  OBVIOUS
<1>1. ASSUME NEW k \in 1 .. Len(rows)
      PROVE  rows[k] \in Seq(FT!Cells \cup {None}) /\ rows[k] # <<>>
  <2>1. rows[k] \in Rows
    BY DEF TableInv
  <2> QED
    BY <2>1 DEF Rows, Places
<1> QED
  BY <1>1 DEF TableInv, FT!TypeOK

(* Only the reading of a page begins a table. *)
LEMMA NextTable ==
  ASSUME Sourced, TableInv, [Next]_vars
  PROVE  TableInv'
<1>1. ASSUME NEW p \in Pages, ReadPage(p) PROVE TableInv'
  <2> DEFINE t == Parsed(p).table
             fill == Parsed(p).fill
  <2>1. CASE t = NoTable
    BY <1>1, <2>1, UnchangedTable DEF ReadPage
  <2>2. CASE t # NoTable
    <3>1. FT!Parse(t, fill)
      BY <1>1, <2>2 DEF ReadPage
    <3>2. IsSource(source[p])
      BY SiteAssumption DEF Sourced
    <3>3. fill = source[p].fill /\ t = source[p].table
      BY <2>2, <3>2 DEF Parsed, IsSource
    <3>4. fill \in BOOLEAN /\ FT!IsTable(t)
      BY <2>2, <3>2, <3>3 DEF IsSource
    <3> HIDE DEF t, fill
    <3> QED
      BY <3>1, <3>4, ParseTable
  <2> QED
    BY <2>1, <2>2
<1>2. CASE TableStep
  BY <1>2, StepTable DEF TableStep
<1>3. CASE EndBuild \/ Crash \/ Kill
  <2>1. EndProcess
    BY <1>3 DEF EndBuild, Crash, Kill
  <2> QED
    BY <2>1, BlankTable DEF EndProcess
<1>4. ASSUME NEW p \in Pages, EditPage(p) \/ WritePage(p) PROVE UNCHANGED tableVars
  BY <1>4 DEF EditPage, WritePage
<1>5. ASSUME NEW f \in Files, EditFile(f) PROVE UNCHANGED tableVars
  BY <1>5 DEF EditFile
<1>6. CASE StartBuild \/ IncludeStep \/ EndPage \/ EndReading \/ MarkStep
  BY <1>6, UnchangedTable DEF StartBuild, IncludeStep, EndPage, EndReading, MarkStep
<1>7. CASE UNCHANGED vars
  BY <1>7, UnchangedTable DEF vars
<1> QED
  BY <1>1, <1>2, <1>3, <1>4, <1>5, <1>6, <1>7, UnchangedTable DEF Next

----------------------------------------------------------------------------
(* The pieces of a text. *)

EntryTyped(e) ==
  /\ e.declares \subseteq Namespaces \X Names
  /\ e.deps \subseteq Files
  /\ e.content \subseteq Files \X INC!Versions
  /\ e.newer \subseteq Files \cup Pages
  /\ e.raced \in BOOLEAN

EntriesTyped(entries) == \A p \in Pages : EntryTyped(entries[p])

LEMMA KnownTyped ==
  ASSUME EntriesTyped(reads)
  PROVE  Known \subseteq Namespaces \X Names
BY DEF EntriesTyped, EntryTyped, Known, DeclaredIn

IsPiece(e, length) ==
  /\ 0 <= e.from /\ e.from < e.to /\ e.to <= length
  /\ e.what \in {"text", "broken", "link"}
  /\ e.target \in (Namespaces \X Names) \cup {AM!NoTarget}

PieceInv ==
  /\ cNamespace \in Namespaces
  /\ uris \subseteq Namespaces \X Names
  /\ \A e \in ToSet(repl) : IsPiece(e, text.length)

LEMMA PlainPiece ==
  ASSUME NEW a \in Nat, NEW b \in Nat, NEW length \in Nat, a < b, b <= length
  PROVE  IsPiece(AM!Plain(a, b), length)
BY DEF IsPiece, AM!Plain, AM!Piece

LEMMA MarkedPiece ==
  ASSUME MarkInv, LinkInv, cNamespace \in Namespaces, NEW m \in text.matches
  PROVE  IsPiece(AM!MarkedUp(m), text.length)
<1> DEFINE a == m.start
           b == m.end
           piece == AM!MarkedUp(m)
           own == AM!Target(cNamespace, m.name)
           bare == AM!Target("", m.name)
<1>1. /\ a \in Nat /\ b \in Nat /\ a < b /\ b <= text.length /\ text.length \in Nat
      /\ m.name \in Names /\ m.pattern \in ToSet(AM!Patterns)
  BY SameSets DEF MarkInv, MarkTyped, AM!IsText
<1>2. own \in Namespaces \X Names /\ bare \in Namespaces \X Names
  BY <1>1, SiteAssumption DEF AM!Target
<1>3. \E what \in {"text", "broken", "link"} :
        \E target \in (Namespaces \X Names) \cup {AM!NoTarget} :
          piece = AM!Piece(a, b, what, target)
  <2>1. CASE AM!IsC(m)
    <3> DEFINE ts == AM!Tried(m)
    <3>1. /\ LookedUp(ts, m, own)
          /\ piece = IF ts = <<>> THEN AM!Plain(a, b)
                     ELSE AM!Piece(a, b, IF ts[1] \in Reachable THEN "link" ELSE "broken", ts[1])
      BY <2>1, CMarked DEF LinkInv
    <3> HIDE DEF ts, piece, own, a, b
    <3>2. CASE ts = <<>>
      BY <3>1, <3>2 DEF AM!Plain
    <3>3. CASE ts # <<>>
      <4>1. ts[1] = own
        BY <3>1, <3>3 DEF LookedUp
      <4> QED
        BY <1>2, <3>1, <3>3, <4>1
    <3> QED
      BY <3>2, <3>3
  <2>2. CASE m.pattern \in {"doc", "abi_file", "abi_symbol"}
    <3>1. piece = AM!PageReference(m)
      BY <2>2 DEF AM!MarkedUp
    <3> HIDE DEF piece, own
    <3>2. piece = AM!Plain(a, b) \/ piece = AM!Piece(a, b, "link", bare)
      BY <3>1 DEF AM!PageReference
    <3> QED
      BY <1>2, <3>2 DEF AM!Plain
  <2>3. CASE m.pattern = "git"
    <3>1. piece = AM!Piece(a, b, "link", AM!NoTarget)
      BY <2>3 DEF AM!MarkedUp
    <3> HIDE DEF piece
    <3> QED
      BY <3>1
  <2>4. m.pattern \in {"doc", "abi_file", "abi_symbol", "function", "struct", "git"}
    BY <1>1 DEF ToSet, AM!Patterns
  <2> QED
    BY <2>1, <2>2, <2>3, <2>4 DEF AM!IsC
<1> HIDE DEF piece, a, b
<1>4. PICK what \in {"text", "broken", "link"},
           target \in (Namespaces \X Names) \cup {AM!NoTarget} :
        piece = AM!Piece(a, b, what, target)
  BY <1>3
<1>5. piece.from = a /\ piece.to = b /\ piece.what = what /\ piece.target = target
  BY <1>4 DEF AM!Piece
<1>6. IsPiece(piece, text.length)
  BY <1>1, <1>4, <1>5 DEF IsPiece
<1> QED
  BY <1>6 DEF piece

LEMMA UnchangedPieces == PieceInv /\ UNCHANGED markVars => PieceInv'
BY DEF PieceInv, markVars

LEMMA BlankPieces ==
  ASSUME cNamespace' \in Namespaces, uris' \subseteq Namespaces \X Names, repl' = <<>>
  PROVE  PieceInv'
<1>1. ToSet(repl') = {}
  BY DEF ToSet
<1> QED
  BY <1>1 DEF PieceInv

LEMMA ReplacePieces ==
  ASSUME PieceInv, MarkInv, LinkInv, AM!Replace
  PROVE  PieceInv'
<1> DEFINE m == Head(pending)
           mid == repl \o AM!Before(m)
           piece == AM!MarkedUp(m)
<1>1. /\ marking = "busy" /\ text' = text /\ cNamespace' = cNamespace /\ uris' = uris
      /\ pending # <<>> /\ repl' = mid \o <<piece>>
  BY DEF AM!Replace
<1>2. /\ pending \in Seq(text.matches) /\ IsSeq(repl) /\ m \in text.matches
  BY <1>1 DEF MarkInv, MarkTyped
<1>3. /\ m.start \in Nat /\ m.end \in Nat /\ m.start < m.end /\ m.end <= text.length
      /\ text.length \in Nat /\ done \in Nat
  BY <1>2 DEF MarkInv, MarkTyped, AM!IsText
<1>4. IsPiece(piece, text.length)
  BY <1>2, MarkedPiece DEF PieceInv
<1>5. /\ IsSeq(mid)
      /\ \A e \in ToSet(mid) : IsPiece(e, text.length)
  <2>1. CASE m.start > done
    <3> DEFINE gap == AM!Plain(done, m.start)
    <3>1. AM!Before(m) = <<gap>>
      BY <2>1 DEF AM!Before
    <3>2. IsPiece(gap, text.length)
      <4>1. done < m.start /\ m.start <= text.length
        BY <1>3, <2>1
      <4> QED
        BY <1>3, <4>1, PlainPiece
    <3> HIDE DEF gap, m
    <3>3. mid = repl \o <<gap>>
      BY <3>1
    <3>4. IsSeq(mid) /\ ToSet(mid) = ToSet(repl) \cup {gap}
      BY <1>2, <3>3, ToSetMore
    <3> QED
      BY <3>2, <3>4 DEF PieceInv
  <2>2. CASE ~(m.start > done)
    <3>1. AM!Before(m) = <<>>
      BY <2>2 DEF AM!Before
    <3>2. PICK S : repl \in Seq(S)
      BY <1>2 DEF IsSeq
    <3>3. mid = repl
      BY <3>1, <3>2, ConcatEmptySeq
    <3> QED
      BY <1>2, <3>3 DEF PieceInv
  <2> QED
    BY <2>1, <2>2
<1> HIDE DEF mid, piece
<1>6. ToSet(repl') = ToSet(mid) \cup {piece}
  BY <1>1, <1>5, ToSetMore
<1> QED
  BY <1>1, <1>4, <1>5, <1>6 DEF PieceInv

LEMMA AddRestPieces ==
  ASSUME PieceInv, MarkInv, AM!AddRest
  PROVE  PieceInv'
<1> DEFINE rest == AM!Plain(done, text.length)
<1>1. /\ text' = text /\ cNamespace' = cNamespace /\ uris' = uris
      /\ repl' = IF done < text.length THEN Append(repl, rest) ELSE repl
  BY DEF AM!AddRest
<1>2. IsSeq(repl) /\ done \in Nat /\ text.length \in Nat
  BY DEF MarkInv, MarkTyped, AM!IsText
<1>3. CASE done < text.length
  <2>1. IsPiece(rest, text.length)
    BY <1>2, <1>3, PlainPiece
  <2> HIDE DEF rest
  <2>2. PICK S : repl \in Seq(S)
    BY <1>2 DEF IsSeq
  <2>3. repl \in Seq(S \cup {rest})
    BY <2>2
  <2>4. Append(repl, rest) = repl \o <<rest>>
    BY <2>3, AppendIsConcat
  <2>5. repl' = repl \o <<rest>>
    BY <1>1, <1>3, <2>4
  <2>6. ToSet(repl') = ToSet(repl) \cup {rest}
    BY <1>2, <2>5, ToSetMore
  <2> QED
    BY <1>1, <2>1, <2>6 DEF PieceInv
<1>4. CASE ~(done < text.length)
  BY <1>1, <1>4 DEF PieceInv
<1> QED
  BY <1>3, <1>4

LEMMA InitPieces == Init => PieceInv
<1> SUFFICES ASSUME Init PROVE PieceInv
  OBVIOUS
<1>1. cNamespace = "" /\ uris = {} /\ repl = <<>>
  BY DEF Init, AM!Init
<1>2. ToSet(<<>>) = {}
  BY DEF ToSet
<1> QED
  BY <1>1, <1>2, SiteAssumption DEF PieceInv

LEMMA NextPieces ==
  ASSUME Sourced, PieceInv, MarkInv, LinkInv, EntriesTyped(reads), [Next]_vars
  PROVE  PieceInv'
<1>1. ASSUME NEW p \in Pages, WritePage(p) PROVE PieceInv'
  <2>1. \A q \in Pages : Parsed(q).text.namespace \in Namespaces
    BY ParsedIsText DEF AM!IsText
  <2>2. PICK namespace \in Namespaces, made \in SUBSET Known :
          AM!Match(Parsed(p).text, namespace, made)
    <3>1. CASE MarkPage(p)
      BY <2>1, <3>1 DEF MarkPage
    <3>2. CASE MarkBook(p)
      <4>1. PICK book \in SUBSET Found(config) : \E index \in book :
              \E made \in SUBSET DeclaredIn(book) :
                AM!Match(Parsed(p).text, Parsed(index).text.namespace, made)
        BY <3>2 DEF MarkBook
      <4>2. book \subseteq Pages /\ DeclaredIn(book) \subseteq Known
        BY <4>1 DEF Found, Known, DeclaredIn
      <4> QED
        BY <2>1, <4>1, <4>2
    <3> QED
      BY <1>1, <3>1, <3>2 DEF WritePage
  <2>3. /\ marking = "idle" /\ cNamespace' = namespace /\ uris' = made /\ repl' = repl
    BY <2>2 DEF AM!Match
  <2>4. repl = <<>>
    BY <2>3 DEF MarkInv, MarkTyped
  <2> QED
    BY <2>2, <2>3, <2>4, KnownTyped, BlankPieces
<1>2. CASE MarkStep
  <2>1. CASE AM!PutBack
    <3>1. cNamespace' = cNamespace /\ uris' = {} /\ repl' = <<>>
      BY <2>1 DEF AM!PutBack
    <3> QED
      BY <3>1, BlankPieces DEF PieceInv
  <2> QED
    BY <1>2, <2>1, ReplacePieces, AddRestPieces DEF MarkStep, AM!Step
<1>3. CASE EndBuild \/ Crash \/ Kill
  <2>1. cNamespace' = "" /\ uris' = {} /\ repl' = <<>>
    BY <1>3 DEF EndBuild, Crash, Kill, EndProcess
  <2> QED
    BY <2>1, BlankPieces, SiteAssumption
<1>4. ASSUME NEW p \in Pages, EditPage(p) \/ ReadPage(p) PROVE UNCHANGED markVars
  BY <1>4 DEF EditPage, ReadPage
<1>5. ASSUME NEW f \in Files, EditFile(f) PROVE UNCHANGED markVars
  BY <1>5 DEF EditFile
<1>6. CASE StartBuild \/ TableStep \/ IncludeStep \/ EndPage \/ EndReading
  BY <1>6, UnchangedPieces DEF StartBuild, TableStep, IncludeStep, EndPage, EndReading
<1>7. CASE UNCHANGED vars
  BY <1>7, UnchangedPieces DEF vars
<1> QED
  BY <1>1, <1>2, <1>3, <1>4, <1>5, <1>6, <1>7, UnchangedPieces DEF Next

LEMMA MarkedTyped == MarkInv /\ LinkInv /\ PieceInv => AM!TypeOK
<1> SUFFICES ASSUME MarkInv, LinkInv, PieceInv PROVE AM!TypeOK
  OBVIOUS
<1>1. ToSet(pending) \subseteq text.matches
  <2>1. pending \in Seq(text.matches)
    BY DEF MarkInv, MarkTyped
  <2>2. DOMAIN pending = 1 .. Len(pending) /\ \A k \in 1 .. Len(pending) : pending[k] \in text.matches
    BY <2>1
  <2> QED
    BY <2>2 DEF ToSet
<1>2. ASSUME NEW k \in 1 .. Len(repl) PROVE IsPiece(repl[k], text.length)
  <2>1. PICK S : repl \in Seq(S)
    BY DEF MarkInv, MarkTyped, IsSeq
  <2>2. DOMAIN repl = 1 .. Len(repl)
    BY <2>1
  <2>3. repl[k] \in ToSet(repl)
    BY <2>2 DEF ToSet
  <2> QED
    BY <2>3 DEF PieceInv
<1>3. AM!ToSet(pending) = ToSet(pending)
  BY SameSets
<1>4. /\ marking \in {"idle", "busy", "done"} /\ AM!IsText(text) /\ done \in 0 .. text.length
      /\ failedLookups = {}
  BY DEF MarkInv, MarkTyped, LinkInv
<1>5. \A k \in 1 .. Len(repl) :
       /\ 0 <= repl[k].from /\ repl[k].from < repl[k].to /\ repl[k].to <= text.length
       /\ repl[k].what \in {"text", "broken", "link"}
       /\ repl[k].target \in (Namespaces \X Names) \cup {AM!NoTarget}
  BY <1>2 DEF IsPiece
<1> QED
  BY <1>1, <1>3, <1>4, <1>5 DEF AM!TypeOK, PieceInv

----------------------------------------------------------------------------
(* Entries, files and pages. *)

Bounded == pageEdits \in 0 .. MaxPageEdits /\ fileEdits \in 0 .. MaxFileEdits

StageTyped ==
  /\ stage \in {"off", "read", "write"}
  /\ todo \subseteq Pages /\ fresh \subseteq Pages
  /\ menu.page # Nothing => stage = "write"
  /\ menu.page = Nothing => menu.links = {}
  /\ reported \subseteq Files \X (Namespaces \X Names)

NotedTyped ==
  /\ DOMAIN cache \subseteq Files
  /\ xrefFiles \subseteq Files /\ noted \subseteq Files
  /\ page = Nothing => noted = {} /\ taken = {}

BuildInv ==
  EntriesTyped(env) /\ EntriesTyped(reads) /\ Bounded /\ StageTyped /\ NotedTyped

LEMMA Bounds ==
  /\ MaxPageEdits \in Nat /\ MaxFileEdits \in Nat
  /\ \A m \in Nat : \A n \in 0 .. m :
       n \in Nat /\ 0 .. n + 1 \subseteq 0 .. m + 1 /\ (n < m => n + 1 \in 0 .. m)
<1>1. MaxPageEdits \in Nat /\ MaxFileEdits \in Nat
  BY SiteAssumption
<1>2. \A m \in Nat : \A n \in 0 .. m :
        n \in Nat /\ 0 .. n + 1 \subseteq 0 .. m + 1 /\ (n < m => n + 1 \in 0 .. m)
  OBVIOUS
<1> QED
  BY <1>1, <1>2

LEMMA GrownTyped ==
  ASSUME NEW e, EntryTyped(e), DOMAIN e = EntryFields,
         NEW S, S \subseteq Files \cup Pages
  PROVE  EntryTyped([e EXCEPT !.newer = S])
<1> DEFINE g == [e EXCEPT !.newer = S]
<1>1. /\ g.newer = S /\ g.declares = e.declares /\ g.content = e.content /\ g.deps = e.deps
      /\ g.raced = e.raced
  BY NewerKept, NewerSame
<1> HIDE DEF g
<1>2. EntryTyped(g)
  BY <1>1 DEF EntryTyped
<1> QED
  BY <1>2 DEF g

(* Steps within a build, that touch neither entries nor files. *)
LEMMA SameBuildInv ==
  ASSUME BuildInv,
         UNCHANGED <<env, reads, pageEdits, fileEdits, stage, todo, fresh, reported, menu, cache,
                     xrefFiles, noted, taken, page>>
  PROVE  BuildInv'
<1>1. EntriesTyped(env)' /\ EntriesTyped(reads)'
  BY DEF BuildInv, EntriesTyped, EntryTyped
<1>2. Bounded' /\ StageTyped'
  BY DEF BuildInv, Bounded, StageTyped
<1>3. NotedTyped'
  BY DEF BuildInv, NotedTyped
<1> QED
  BY <1>1, <1>2, <1>3 DEF BuildInv

LEMMA EditPageBuild ==
  ASSUME BuildInv, HeldInv, NEW p \in Pages, EditPage(p)
  PROVE  BuildInv'
<1>1. /\ env' = [env EXCEPT ![p].newer = @ \cup {p}] /\ reads' = env'
      /\ env = [q \in Pages |-> env[q]] /\ DOMAIN env[p] = EntryFields
      /\ pageEdits < MaxPageEdits /\ pageEdits' = pageEdits + 1
      /\ UNCHANGED <<stage, todo, fresh, reported, menu, fileEdits>>
      /\ UNCHANGED <<cache, xrefFiles, noted, taken, page>>
  BY DEF EditPage, HeldInv, Entries, includeVars
<1> DEFINE S == env[p].newer \cup {p}
<1>2. S \subseteq Files \cup Pages /\ EntryTyped(env[p])
  BY DEF BuildInv, EntriesTyped, EntryTyped
<1>3. /\ env'[p] = [env[p] EXCEPT !.newer = S]
      /\ \A q \in Pages \ {p} : env'[q] = env[q]
  BY <1>1
<1> HIDE DEF S
<1>4. EntryTyped(env'[p])
  BY <1>1, <1>2, <1>3, GrownTyped
<1>5. ASSUME NEW q \in Pages PROVE EntryTyped(env'[q])
  BY <1>3, <1>4 DEF BuildInv, EntriesTyped
<1>6. EntriesTyped(env)' /\ EntriesTyped(reads)'
  BY <1>1, <1>5 DEF EntriesTyped, EntryTyped
<1>7. Bounded' /\ StageTyped' /\ NotedTyped'
  <2>1. pageEdits' \in 0 .. MaxPageEdits
    BY <1>1, Bounds DEF BuildInv, Bounded
  <2> QED
    BY <1>1, <2>1 DEF BuildInv, Bounded, StageTyped, NotedTyped
<1> QED
  BY <1>6, <1>7 DEF BuildInv

LEMMA NewerTyped ==
  ASSUME NEW entries, NEW f \in Files, EntriesTyped(entries),
         \A p \in Pages : DOMAIN entries[p] = EntryFields
  PROVE  \A p \in Pages : EntryTyped(Newer(entries, f)[p])
<1> SUFFICES ASSUME NEW p \in Pages PROVE EntryTyped(Newer(entries, f)[p])
  OBVIOUS
<1> DEFINE S == entries[p].newer \cup {f}
<1>1. Newer(entries, f)[p] = [entries[p] EXCEPT !.newer = S]
  BY DEF Newer
<1>2. S \subseteq Files \cup Pages /\ EntryTyped(entries[p])
  BY DEF EntriesTyped, EntryTyped
<1> HIDE DEF S
<1> QED
  BY <1>1, <1>2, GrownTyped

LEMMA EditFileBuild ==
  ASSUME BuildInv, HeldInv, NEW f \in Files, EditFile(f)
  PROVE  BuildInv'
<1>1. /\ env' = Newer(env, f) /\ reads' = Newer(reads, f)
      /\ \A p \in Pages : DOMAIN env[p] = EntryFields /\ DOMAIN reads[p] = EntryFields
      /\ fileEdits < MaxFileEdits /\ fileEdits' = fileEdits + 1
      /\ UNCHANGED <<stage, todo, fresh, reported, menu, pageEdits>>
      /\ UNCHANGED <<cache, xrefFiles, noted, taken, page>>
  BY DEF EditFile, HeldInv, Entries
<1>2. \A p \in Pages : EntryTyped(env'[p]) /\ EntryTyped(reads'[p])
  BY <1>1, NewerTyped DEF BuildInv
<1>3. EntriesTyped(env)' /\ EntriesTyped(reads)'
  BY <1>2 DEF EntriesTyped, EntryTyped
<1>4. Bounded' /\ StageTyped' /\ NotedTyped'
  <2>1. fileEdits' \in 0 .. MaxFileEdits
    BY <1>1, Bounds DEF BuildInv, Bounded
  <2> QED
    BY <1>1, <2>1 DEF BuildInv, Bounded, StageTyped, NotedTyped
<1> QED
  BY <1>3, <1>4 DEF BuildInv

LEMMA StartBuildBuild ==
  ASSUME BuildInv, StartBuild
  PROVE  BuildInv'
<1>1. /\ stage = "off" /\ stage' = "read" /\ todo' \subseteq Outdated /\ fresh' = {}
      /\ xrefFiles' = {}
      /\ UNCHANGED <<env, reads, reported, menu, pageEdits, fileEdits>>
      /\ UNCHANGED <<cache, noted, taken, page>>
  BY DEF StartBuild
<1>2. Outdated \subseteq Pages
  BY DEF Outdated
<1>3. EntriesTyped(env)' /\ EntriesTyped(reads)'
  BY <1>1 DEF BuildInv, EntriesTyped, EntryTyped
<1>4. Bounded' /\ StageTyped' /\ NotedTyped'
  BY <1>1, <1>2 DEF BuildInv, Bounded, StageTyped, NotedTyped
<1> QED
  BY <1>3, <1>4 DEF BuildInv

LEMMA ReadPageBuild ==
  ASSUME BuildInv, NEW p \in Pages, ReadPage(p)
  PROVE  BuildInv'
<1>1. /\ todo' = todo \ {p} /\ page' = p /\ noted' = {} /\ taken' = {}
      /\ cache' \in {cache, << >>} /\ xrefFiles' = xrefFiles
      /\ UNCHANGED <<env, reads, stage, fresh, reported, menu, pageEdits, fileEdits>>
  BY DEF ReadPage, INC!Begin
<1>2. DOMAIN cache' \subseteq Files
  <2>1. DOMAIN << >> = {}
    OBVIOUS
  <2> QED
    BY <1>1, <2>1 DEF BuildInv, NotedTyped
<1>3. EntriesTyped(env)' /\ EntriesTyped(reads)'
  BY <1>1 DEF BuildInv, EntriesTyped, EntryTyped
<1>4. Bounded' /\ StageTyped' /\ NotedTyped'
  BY <1>1, <1>2 DEF BuildInv, Bounded, StageTyped, NotedTyped
<1> QED
  BY <1>3, <1>4 DEF BuildInv

(* Only what is a file is noted: a directive names one, or those of a directory. *)
LEMMA IncludeBuild ==
  ASSUME Sourced, HeldInv, BuildInv, IncludeStep
  PROVE  BuildInv'
<1> DEFINE d == Head(left)
<1>1. UNCHANGED <<env, reads, pageEdits, fileEdits, stage, todo, fresh, reported, menu>>
  BY DEF IncludeStep, buildVars
<1>2. /\ page \in Pages /\ left \in Seq(Listed(page)) /\ left # <<>> /\ page # Nothing
  BY DEF IncludeStep, INC!Step, INC!PlainInclude, INC!KernelInclude, INC!MaintainersInclude,
         INC!KernelDoc, INC!KernelAbi, INC!KernelFeat, INC!Due, HeldInv, ReadInv
<1>3. d \in INC!Directives
  <2>1. d \in Listed(page)
    BY <1>2
  <2> QED
    BY <1>2, <2>1, ListedTyped
<1>4. d.kind \notin {"abi", "feat"} => d.file \in Files
  BY <1>3 DEF INC!Directives
<1> HIDE DEF d
<1>5. INC!Step
  BY DEF IncludeStep
<1>6. /\ DOMAIN cache' \subseteq Files /\ xrefFiles' \subseteq Files /\ noted' \subseteq Files
      /\ page' = page
  <2>0. /\ DOMAIN cache \subseteq Files /\ xrefFiles \subseteq Files /\ noted \subseteq Files
    BY DEF BuildInv, NotedTyped
  <2>1. CASE INC!PlainInclude
    <3>1. /\ noted' = noted \cup {d.file} /\ page' = page /\ UNCHANGED <<cache, xrefFiles>>
          /\ d.kind = "plain"
      BY <2>1 DEF INC!PlainInclude, INC!Ran, INC!Due, d
    <3> QED
      BY <1>4, <2>0, <3>1
  <2>2. CASE INC!KernelInclude
    <3>1. /\ noted' = noted \cup {d.file} /\ page' = page /\ UNCHANGED cache
          /\ xrefFiles' \subseteq xrefFiles \cup {d.file}
          /\ d.kind \in {"include", "xref", "warn"}
      BY <2>2 DEF INC!KernelInclude, INC!Ran, INC!Due, d
    <3> QED
      BY <1>4, <2>0, <3>1
  <2>3. CASE INC!MaintainersInclude
    <3>1. /\ noted' = noted \cup {d.file} /\ page' = page /\ UNCHANGED <<cache, xrefFiles>>
          /\ d.kind = "maintainers"
      BY <2>3 DEF INC!MaintainersInclude, INC!Ran, INC!Due, d
    <3> QED
      BY <1>4, <2>0, <3>1
  <2>4. CASE INC!KernelDoc
    <3> DEFINE files == INC!HandleArgs(d)
    <3>1. /\ noted' = noted \cup files /\ page' = page /\ UNCHANGED xrefFiles
          /\ cache' = INC!Parsed(files) /\ d.kind = "doc"
      BY <2>4 DEF INC!KernelDoc, INC!Ran, INC!Due, d
    <3>2. files \subseteq Files
      BY <1>4, <3>1 DEF INC!HandleArgs, INC!Present, INC!In
    <3> HIDE DEF files
    <3>3. DOMAIN cache' = DOMAIN cache \cup files
      BY <3>1 DEF INC!Parsed
    <3> QED
      BY <2>0, <3>1, <3>2, <3>3
  <2>5. CASE INC!KernelAbi
    <3>1. /\ noted' \subseteq noted \cup INC!In(AbiDir) /\ page' = page /\ UNCHANGED xrefFiles
          /\ cache' = INC!Parsed(INC!In(AbiDir))
      BY <2>5 DEF INC!KernelAbi, INC!Ran, INC!Present
    <3>2. INC!In(AbiDir) \subseteq Files
      BY DEF INC!In
    <3>3. DOMAIN cache' = DOMAIN cache \cup INC!In(AbiDir)
      BY <3>1 DEF INC!Parsed
    <3> QED
      BY <2>0, <3>1, <3>2, <3>3
  <2>6. CASE INC!KernelFeat
    <3>1. /\ noted' = noted \cup INC!Present(INC!In(d.dir)) /\ page' = page
          /\ UNCHANGED <<cache, xrefFiles>>
      BY <2>6 DEF INC!KernelFeat, INC!Ran, d
    <3>2. INC!Present(INC!In(d.dir)) \subseteq Files
      BY DEF INC!In, INC!Present
    <3> QED
      BY <2>0, <3>1, <3>2
  <2> QED
    BY <1>5, <2>1, <2>2, <2>3, <2>4, <2>5, <2>6 DEF INC!Step
<1>7. EntriesTyped(env)' /\ EntriesTyped(reads)'
  BY <1>1 DEF BuildInv, EntriesTyped, EntryTyped
<1>8. Bounded' /\ StageTyped'
  BY <1>1 DEF BuildInv, Bounded, StageTyped
<1>9. NotedTyped'
  BY <1>2, <1>6 DEF NotedTyped
<1> QED
  BY <1>7, <1>8, <1>9 DEF BuildInv

LEMMA ParsedDeclares ==
  ASSUME Sourced, NEW p \in Pages
  PROVE  Parsed(p).declares \subseteq Namespaces \X Names
<1>1. IsSource(source[p])
  BY SiteAssumption DEF Sourced
<1>2. /\ {"declares", "directives", "table", "text"} \subseteq DOMAIN source[p]
      /\ source[p].declares \subseteq Namespaces \X Names
  BY <1>1 DEF IsSource
<1>3. CASE CONF!Ignored(source[p].at)
  BY <1>2, <1>3 DEF Parsed
<1>4. CASE ~CONF!Ignored(source[p].at)
  BY <1>2, <1>4 DEF Parsed
<1> QED
  BY <1>3, <1>4

LEMMA EndPageBuild ==
  ASSUME Sourced, HeldInv, BuildInv, EndPage
  PROVE  BuildInv'
<1> DEFINE e == [declares |-> Parsed(page).declares, languages |-> TR!Wanted(Docname(page)),
                 deps |-> noted, content |-> taken, newer |-> {},
                 raced |-> \E c \in taken : version[c[1]] # c[2]]
<1>1. /\ page # Nothing /\ page' = Nothing /\ noted' = {} /\ taken' = {}
      /\ UNCHANGED <<xrefFiles, cache>>
      /\ reads' = [reads EXCEPT ![page] = e]
      /\ fresh' = fresh \cup {page}
      /\ UNCHANGED <<env, stage, todo, reported, menu, pageEdits, fileEdits>>
  BY DEF EndPage, INC!End
<1>2. /\ page \in Pages /\ taken \subseteq Files \X (0 .. fileEdits + 1)
      /\ reads = [p \in Pages |-> reads[p]]
  BY <1>1 DEF HeldInv, ReadInv, Entries
<1>3. 0 .. fileEdits + 1 \subseteq INC!Versions
  BY Bounds DEF BuildInv, Bounded, INC!Versions
<1>4. EntryTyped(e)
  <2>1. /\ e.declares = Parsed(page).declares /\ e.deps = noted /\ e.content = taken
        /\ e.newer = {} /\ e.raced \in BOOLEAN
    OBVIOUS
  <2> HIDE DEF e
  <2>2. taken \subseteq Files \X INC!Versions
    BY <1>2, <1>3
  <2>3. noted \subseteq Files
    BY DEF BuildInv, NotedTyped
  <2>4. Parsed(page).declares \subseteq Namespaces \X Names
    BY <1>2, ParsedDeclares
  <2> QED
    BY <2>1, <2>2, <2>3, <2>4 DEF EntryTyped
<1> HIDE DEF e
<1>5. \A p \in Pages : EntryTyped(reads'[p])
  BY <1>1, <1>2, <1>4 DEF BuildInv, EntriesTyped
<1>6. EntriesTyped(env)' /\ EntriesTyped(reads)'
  BY <1>1, <1>5 DEF BuildInv, EntriesTyped, EntryTyped
<1>7. Bounded' /\ StageTyped' /\ NotedTyped'
  BY <1>1, <1>2 DEF BuildInv, Bounded, StageTyped, NotedTyped
<1> QED
  BY <1>6, <1>7 DEF BuildInv

LEMMA EndReadingBuild ==
  ASSUME BuildInv, EndReading
  PROVE  BuildInv'
<1>1. /\ env' = reads /\ stage = "read" /\ stage' = "write"
      /\ todo' = IF setting.format = "html" THEN fresh ELSE Found(config)
      /\ UNCHANGED <<reads, fresh, reported, menu, pageEdits, fileEdits>>
      /\ UNCHANGED <<xrefFiles, cache, noted, taken, page>>
  BY DEF EndReading, includeVars
<1>2. EntriesTyped(env)' /\ EntriesTyped(reads)'
  BY <1>1 DEF BuildInv, EntriesTyped, EntryTyped
<1>3. Bounded' /\ StageTyped' /\ NotedTyped'
  BY <1>1 DEF BuildInv, Bounded, StageTyped, NotedTyped, Found
<1> QED
  BY <1>2, <1>3 DEF BuildInv

(* A reference that is broken is one made from the file of a directive. *)
LEMMA BrokenTyped ==
  ASSUME Sourced, NEW p \in Pages
  PROVE  Broken(p, {"xref", "warn"}) \subseteq Files \X (Namespaces \X Names)
<1> SUFFICES ASSUME NEW d \in Listed(p), d.kind \in {"xref", "warn"}
             PROVE  {d.file} \X (Mentions[d.file] \ Known) \subseteq Files \X (Namespaces \X Names)
  BY DEF Broken, Listed
<1>1. d.file \in Files
  BY ListedTyped DEF INC!Directives
<1>2. Mentions[d.file] \subseteq Namespaces \X Names
  BY <1>1, SiteAssumption
<1> QED
  BY <1>1, <1>2

LEMMA WritePageBuild ==
  ASSUME Sourced, BuildInv, NEW p \in Pages, WritePage(p)
  PROVE  BuildInv'
<1>1. /\ stage = "write" /\ todo' = todo \ {p} /\ reported' = reported \cup Missing(p)
      /\ menu'.page = p
      /\ UNCHANGED <<env, reads, stage, fresh, pageEdits, fileEdits>>
      /\ UNCHANGED <<xrefFiles, cache, noted, taken, page>>
  BY DEF WritePage, DoctreeResolved, includeVars
<1>2. Missing(p) \subseteq Files \X (Namespaces \X Names)
  BY BrokenTyped DEF Missing
<1>3. p # Nothing
  BY SiteAssumption
<1>4. EntriesTyped(env)' /\ EntriesTyped(reads)'
  BY <1>1 DEF BuildInv, EntriesTyped, EntryTyped
<1>5. Bounded' /\ StageTyped' /\ NotedTyped'
  BY <1>1, <1>2, <1>3 DEF BuildInv, Bounded, StageTyped, NotedTyped
<1> QED
  BY <1>4, <1>5 DEF BuildInv

LEMMA EndProcessBuild ==
  ASSUME BuildInv, EndProcess
  PROVE  BuildInv'
<1>1. /\ stage' = "off" /\ reads' = env /\ todo' = {} /\ fresh' = {} /\ reported' = {}
      /\ menu' = NoMenu /\ cache' = << >> /\ page' = Nothing /\ xrefFiles' = {} /\ noted' = {}
      /\ taken' = {}
      /\ UNCHANGED <<env, pageEdits, fileEdits>>
  BY DEF EndProcess
<1>2. DOMAIN cache' = {} /\ menu'.page = Nothing /\ menu'.links = {}
  BY <1>1 DEF NoMenu
<1>3. EntriesTyped(env)' /\ EntriesTyped(reads)'
  BY <1>1 DEF BuildInv, EntriesTyped, EntryTyped
<1>4. Bounded' /\ StageTyped' /\ NotedTyped'
  BY <1>1, <1>2 DEF BuildInv, Bounded, StageTyped, NotedTyped
<1> QED
  BY <1>3, <1>4 DEF BuildInv

LEMMA InitBuild == Init => BuildInv
<1> SUFFICES ASSUME Init PROVE BuildInv
  OBVIOUS
<1>1. /\ stage = "off" /\ reads = env /\ todo = {} /\ fresh = {} /\ reported = {}
      /\ menu = NoMenu /\ cache = << >> /\ page = Nothing /\ xrefFiles = {} /\ noted = {}
      /\ taken = {} /\ pageEdits = 0 /\ fileEdits = 0
      /\ env = [p \in Pages |-> Unread(p)]
  BY DEF Init, INC!Init
<1>2. DOMAIN cache = {} /\ menu.page = Nothing /\ menu.links = {}
  BY <1>1 DEF NoMenu
<1>3. \A p \in Pages : EntryTyped(Unread(p))
  BY DEF EntryTyped, Unread
<1>4. EntriesTyped(env) /\ EntriesTyped(reads)
  BY <1>1, <1>3 DEF EntriesTyped
<1>5. Bounded /\ StageTyped /\ NotedTyped
  BY <1>1, <1>2, Bounds DEF Bounded, StageTyped, NotedTyped
<1> QED
  BY <1>4, <1>5 DEF BuildInv

LEMMA NextBuild ==
  ASSUME Sourced, HeldInv, BuildInv, [Next]_vars
  PROVE  BuildInv'
<1>1. ASSUME NEW p \in Pages, EditPage(p) \/ ReadPage(p) \/ WritePage(p) PROVE BuildInv'
  BY <1>1, EditPageBuild, ReadPageBuild, WritePageBuild
<1>2. ASSUME NEW f \in Files, EditFile(f) PROVE BuildInv'
  BY <1>2, EditFileBuild
<1>3. CASE StartBuild \/ IncludeStep \/ EndPage \/ EndReading
  BY <1>3, StartBuildBuild, IncludeBuild, EndPageBuild, EndReadingBuild
<1>4. CASE TableStep \/ MarkStep
  BY <1>4, SameBuildInv DEF TableStep, MarkStep, buildVars, includeVars
<1>5. CASE EndBuild \/ Crash \/ Kill
  BY <1>5, EndProcessBuild DEF EndBuild, Crash, Kill
<1>6. CASE UNCHANGED vars
  BY <1>6, SameBuildInv DEF vars, buildVars, includeVars
<1> QED
  BY <1>1, <1>2, <1>3, <1>4, <1>5, <1>6 DEF Next

LEMMA IncludesTyped ==
  ASSUME Sourced, HeldInv, BuildInv
  PROVE  INC!TypeOK
<1>1. 0 .. fileEdits + 1 \subseteq INC!Versions /\ fileEdits \in Nat
  BY Bounds DEF BuildInv, Bounded, INC!Versions
<1>2. version \in [Files -> INC!Versions]
  BY <1>1 DEF HeldInv, Stamps
<1>3. DOMAIN cache \subseteq Files /\ \A f \in DOMAIN cache : cache[f] \in INC!Versions
  BY <1>1 DEF HeldInv, Stamps, BuildInv, NotedTyped
<1>4. \A k \in 1 .. Len(left) : left[k] \in INC!Directives
  <2>1. CASE page = Nothing
    <3>1. left = <<>>
      BY <2>1 DEF HeldInv, ReadInv
    <3>2. Len(left) = 0
      BY <3>1
    <3> QED
      BY <3>2
  <2>2. CASE page # Nothing
    <3>1. left \in Seq(Listed(page)) /\ Listed(page) \subseteq INC!Directives
      BY <2>2, ListedTyped DEF HeldInv, ReadInv
    <3> QED
      BY <3>1
  <2> QED
    BY <2>1, <2>2
<1>5. taken \subseteq Files \X INC!Versions
  <2>1. page # Nothing => taken \subseteq Files \X (0 .. fileEdits + 1)
    BY DEF HeldInv, ReadInv
  <2>2. page = Nothing => taken = {}
    BY DEF BuildInv, NotedTyped
  <2> QED
    BY <1>1, <2>1, <2>2
<1>6. /\ xrefFiles \subseteq Files /\ noted \subseteq Files
      /\ page = Nothing => left = <<>> /\ noted = {} /\ taken = {}
  BY DEF BuildInv, NotedTyped, HeldInv, ReadInv
<1> QED
  BY <1>2, <1>3, <1>4, <1>5, <1>6 DEF INC!TypeOK

----------------------------------------------------------------------------
(* Whatever is built, every variable of the build and of the extensions has its type: of the
   directives that are left, of the rows of a table in the middle of being rounded off, of the
   pieces of a text, of the entries of the environment. *)
THEOREM BuildTyped == Spec => []TypeOK
<1> DEFINE Inv == /\ Sourced /\ Configured /\ MarkInv /\ HeldInv /\ LinkInv /\ DeclInv /\ WarnInv
                  /\ TableInv /\ PieceInv /\ BuildInv
<1>1. Init => Inv
  <2>1. Init => TableInv
    BY InitTable DEF Init
  <2> QED
    BY <2>1, InitSourced, InitConfigured, InitMark, InitHeld, InitLinks, InitDecl, InitWarn,
       InitPieces, InitBuild
<1>2. Inv /\ [Next]_vars => Inv'
  BY NextSourced, NextConfigured, NextMark, NextHeld, NextLinks, NextDecl, NextWarn, NextTable,
     NextPieces, NextBuild DEF BuildInv
<1>3. ASSUME Inv PROVE TypeOK
  <2>1. INC!TypeOK /\ FT!TypeOK /\ AM!TypeOK
    BY <1>3, IncludesTyped, TableTyped, MarkedTyped
  <2>2. ASSUME NEW p \in Pages, NEW e \in {env[p], reads[p]} PROVE EntryTyped(e)
    BY <1>3 DEF BuildInv, EntriesTyped
  <2>3. \A p \in Pages : \A e \in {env[p], reads[p]} :
          /\ e.declares \subseteq Namespaces \X Names
          /\ e.deps \subseteq Files
          /\ e.content \subseteq Files \X INC!Versions
          /\ e.newer \subseteq Files \cup Pages
          /\ e.raced \in BOOLEAN
    BY <2>2 DEF EntryTyped
  <2>4. Docs \subseteq Pages /\ fresh \subseteq Pages
    BY <1>3 DEF Docs, Found, BuildInv, StageTyped
  <2>5. menu.page \in Pages \cup {Nothing} /\ menu.links \subseteq {Docname(p) : p \in Pages}
    <3>1. CASE menu.page = Nothing
      BY <1>3, <3>1 DEF BuildInv, StageTyped
    <3>2. CASE menu.page # Nothing
      <4>1. /\ menu.page \in Docs
            /\ menu.links = TR!Shown(TR!Wanted(Docname(menu.page)), {Docname(q) : q \in Docs},
                                     setting.format)
        BY <1>3, <3>2 DEF WarnInv, MenuInv
      <4>2. menu.links \subseteq {Docname(q) : q \in Docs}
        BY <4>1 DEF TR!Shown
      <4> QED
        BY <2>4, <4>1, <4>2
    <3> QED
      BY <3>1, <3>2
  <2>6. /\ stage # "read" => page = Nothing /\ reads = env
        /\ page \in Pages \cup {Nothing}
    BY <1>3 DEF HeldInv, ReadInv
  <2>7. stage = "write" /\ setting.format = "html" => todo \subseteq fresh
    BY <1>3 DEF DeclInv, RightReads
  <2>8. /\ stage \in {"off", "read", "write"} /\ todo \subseteq Pages
        /\ reported \subseteq Files \X (Namespaces \X Names)
        /\ pageEdits \in 0 .. MaxPageEdits /\ fileEdits \in 0 .. MaxFileEdits
    BY <1>3 DEF BuildInv, StageTyped, Bounded
  <2> QED
    BY <2>1, <2>3, <2>4, <2>5, <2>6, <2>7, <2>8 DEF TypeOK
<1> HIDE DEF Inv
<1> QED
  BY <1>1, <1>2, <1>3, PTL DEF Spec

=============================================================================
