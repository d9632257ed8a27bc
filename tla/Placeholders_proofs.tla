----------------------- MODULE Placeholders_proofs -----------------------
(***************************************************************************)
(* Proofs about Placeholders, for texts of any length.                     *)
(***************************************************************************)
EXTENDS Placeholders, TLAPS, FiniteSetTheorems, SequenceTheorems

(* The tokens there are. *)
Tokens == 0 .. Len(table) - 1

In(n, seq) == \E k \in 1 .. Len(seq) : seq[k] = n

(* No token is there twice. *)
Single(seq) ==
  \A j, k \in 1 .. Len(seq) : IsToken(seq[j]) /\ seq[j] = seq[k] => j = k

(* Each token has an entry, and an entry holds only tokens made before its own.
   This, and not TypeOK, is what makes the lookups of restore succeed. *)
Known ==
  /\ text \in Seq(Symbols \cup Tokens)
  /\ \A m \in 1 .. Len(table) : table[m] \in Seq(Symbols \cup 0 .. m - 2)
  /\ out \in Seq(Symbols \cup Tokens)
  /\ phase = "translate" => pos = 1

(* Each token is in one place. *)
Once ==
  /\ Single(text)
  /\ \A m \in 1 .. Len(table) : Single(table[m])
  /\ \A n \in Tokens, m \in 1 .. Len(table) : In(n, table[m]) => ~In(n, text)
  /\ \A n \in Tokens : \A l, m \in 1 .. Len(table) :
       In(n, table[l]) /\ In(n, table[m]) => l = m
  /\ \A n \in Tokens : In(n, text) \/ \E m \in 1 .. Len(table) : In(n, table[m])

TokenInv == TypeOK /\ Known /\ Once

----------------------------------------------------------------------------
(* A match that begins at the current place ends at it or behind. *)
LEMMA StopsAhead ==
  ASSUME NEW n \in Nat, n = Len(text), pos \in 1 .. n, pass \in 1 .. Len(Patterns),
         NEW e \in Stops(pos)
  PROVE  e \in pos .. n
<1>1. CASE Patterns[pass] = "tick"
  BY <1>1 DEF Stops, Delimited
<1>2. CASE Patterns[pass] = "star"
  BY <1>2 DEF Stops, Delimited
<1>3. CASE Patterns[pass] = "caps"
  BY <1>3 DEF Stops
<1>4. CASE Patterns[pass] = "hash"
  BY <1>4 DEF Stops
<1> QED
  BY <1>1, <1>2, <1>3, <1>4 DEF Patterns

(* What Replace makes of the text, and of the table. *)
Splice(t, p, e, key) == SubSeq(t, 1, p - 1) \o <<key>> \o SubSeq(t, e + 1, Len(t))

Match(t, p, e) == SubSeq(t, p, e)

Replaced(r, m, S, t, p, e, key) ==
  /\ r \in Seq(S \cup {key})
  /\ Len(r) = Len(t) - (e - p)
  /\ \A k \in 1 .. p - 1 : r[k] = t[k]
  /\ r[p] = key
  /\ \A k \in p + 1 .. Len(r) : r[k] = t[k + (e - p)]
  /\ m \in Seq(S)
  /\ Len(m) = e - p + 1
  /\ \A k \in 1 .. Len(m) : m[k] = t[p + k - 1]

LEMMA Spliced ==
  ASSUME NEW S, NEW t \in Seq(S), NEW p \in 1 .. Len(t), NEW e \in p .. Len(t), NEW key,
         NEW r, r = Splice(t, p, e, key),
         NEW m, m = Match(t, p, e)
  PROVE  Replaced(r, m, S, t, p, e, key)
<1> DEFINE a == SubSeq(t, 1, p - 1)
           b == SubSeq(t, e + 1, Len(t))
           c == a \o <<key>>
<1>11. r = c \o b
  BY DEF Splice
<1>12. m = SubSeq(t, p, e)
  BY DEF Match
<1> HIDE DEF a, b, c
<1>0. Len(t) \in Nat /\ p \in Nat /\ e \in Nat /\ 1 <= p /\ p <= e /\ e <= Len(t)
  OBVIOUS
<1>1. \A k \in 1 .. Len(t) : t[k] \in S
  BY LenProperties
<1>2. a \in Seq(S) /\ Len(a) = p - 1 /\ \A k \in 1 .. p - 1 : a[k] = t[k]
  <2>1. \A k \in 1 .. p - 1 : t[k] \in S
    BY <1>0, <1>1
  <2> QED
    BY <1>0, <2>1, SubSeqProperties DEF a
<1>3. b \in Seq(S) /\ Len(b) = Len(t) - e /\ \A k \in 1 .. Len(t) - e : b[k] = t[e + k]
  <2>1. \A k \in e + 1 .. Len(t) : t[k] \in S
    BY <1>0, <1>1
  <2>2. /\ b \in Seq(S)
        /\ Len(b) = IF e + 1 <= Len(t) THEN Len(t) - (e + 1) + 1 ELSE 0
        /\ \A k \in 1 .. Len(t) - (e + 1) + 1 : b[k] = t[e + 1 + k - 1]
    BY <1>0, <2>1, SubSeqProperties DEF b
  <2>3. Len(t) - (e + 1) + 1 = Len(t) - e /\ (~(e + 1 <= Len(t)) => Len(t) - e = 0)
    BY <1>0
  <2>4. \A k \in 1 .. Len(t) - e : e + 1 + k - 1 = e + k
    BY <1>0
  <2> QED
    BY <2>2, <2>3, <2>4
<1>4. m \in Seq(S) /\ Len(m) = e - p + 1 /\ \A k \in 1 .. e - p + 1 : m[k] = t[p + k - 1]
  <2>1. \A k \in p .. e : t[k] \in S
    BY <1>0, <1>1
  <2> QED
    BY <1>0, <2>1, <1>12, SubSeqProperties
<1>5. /\ c \in Seq(S \cup {key}) /\ Len(c) = p
      /\ \A k \in 1 .. p - 1 : c[k] = t[k]
      /\ c[p] = key
  <2>1. a \in Seq(S \cup {key}) /\ <<key>> \in Seq(S \cup {key})
    BY <1>2
  <2>2. /\ c \in Seq(S \cup {key})
        /\ Len(c) = Len(a) + Len(<<key>>)
        /\ \A k \in 1 .. Len(a) + Len(<<key>>) :
             c[k] = IF k <= Len(a) THEN a[k] ELSE <<key>>[k - Len(a)]
    BY <2>1, ConcatProperties DEF c
  <2>3. Len(<<key>>) = 1 /\ <<key>>[1] = key
    OBVIOUS
  <2>4. Len(c) = p /\ \A k \in 1 .. p : c[k] = IF k <= p - 1 THEN a[k] ELSE <<key>>[k - (p - 1)]
    BY <1>0, <1>2, <2>2, <2>3
  <2>5. ASSUME NEW k \in 1 .. p - 1 PROVE c[k] = t[k]
    BY <1>0, <1>2, <2>4
  <2>6. c[p] = key
    BY <1>0, <2>3, <2>4
  <2> QED
    BY <2>2, <2>4, <2>5, <2>6
<1>6. /\ r \in Seq(S \cup {key})
      /\ Len(r) = p + (Len(t) - e)
      /\ \A k \in 1 .. p + (Len(t) - e) : r[k] = IF k <= p THEN c[k] ELSE b[k - p]
  <2>1. b \in Seq(S \cup {key})
    BY <1>3
  <2>2. /\ r \in Seq(S \cup {key})
        /\ Len(r) = Len(c) + Len(b)
        /\ \A k \in 1 .. Len(c) + Len(b) : r[k] = IF k <= Len(c) THEN c[k] ELSE b[k - Len(c)]
    <3>1. /\ c \o b \in Seq(S \cup {key})
          /\ Len(c \o b) = Len(c) + Len(b)
          /\ \A k \in 1 .. Len(c) + Len(b) :
               (c \o b)[k] = IF k <= Len(c) THEN c[k] ELSE b[k - Len(c)]
      BY <1>5, <2>1, ConcatProperties
    <3> QED
      BY <3>1, <1>11
  <2> QED
    BY <1>3, <1>5, <2>2
<1>7. p + (Len(t) - e) = Len(t) - (e - p)
  BY <1>0
<1>8. ASSUME NEW k \in 1 .. p - 1 PROVE r[k] = t[k]
  BY <1>0, <1>5, <1>6
<1>9. r[p] = key
  BY <1>0, <1>5, <1>6
<1>10. ASSUME NEW k \in p + 1 .. Len(t) - (e - p) PROVE r[k] = t[k + (e - p)]
  <2>1. k - p \in 1 .. Len(t) - e /\ ~(k <= p) /\ k \in 1 .. p + (Len(t) - e)
    BY <1>0, <1>10
  <2>2. r[k] = b[k - p]
    BY <1>6, <2>1
  <2>3. b[k - p] = t[e + (k - p)]
    BY <1>3, <2>1
  <2>4. e + (k - p) = k + (e - p)
    BY <1>0, <2>1
  <2> QED
    BY <2>2, <2>3, <2>4
<1> QED
  BY <1>4, <1>6, <1>7, <1>8, <1>9, <1>10 DEF Replaced

(* Numbers are no symbols. *)
LEMMA NumbersAreTokens == \A n \in Nat : IsToken(n)
BY PlaceholderAssumption DEF IsToken

LEMMA InitInv == Init => TokenInv
<1> SUFFICES ASSUME Init PROVE TokenInv
  OBVIOUS
<1>1. source \in Seq(Symbols) /\ Len(source) \in Nat
  BY PlaceholderAssumption DEF Init
<1>2. table = <<>> /\ Len(table) = 0 /\ out = <<>> /\ text = source
  BY DEF Init
<1>3. source \in Seq(Symbols \cup 0 .. Len(table)) /\ source \in Seq(Symbols \cup Tokens)
  BY <1>1
<1>4. TypeOK
  BY <1>1, <1>2, <1>3 DEF Init, TypeOK, Patterns
<1>5. Known
  BY <1>2, <1>3 DEF Init, Known
<1>6. Once
  <2>1. Tokens = {}
    BY <1>2 DEF Tokens
  <2>2. \A k \in 1 .. Len(text) : ~IsToken(text[k])
    BY <1>1, <1>2 DEF IsToken
  <2> QED
    BY <1>2, <2>1, <2>2 DEF Once, Single
<1> QED
  BY <1>4, <1>5, <1>6 DEF TokenInv

(* A token takes the place of a match, and the match becomes its entry. *)
LEMMA ReplaceInv == TokenInv /\ Replace => TokenInv'
<1> SUFFICES ASSUME TokenInv, Replace PROVE TokenInv'
  OBVIOUS
<1> DEFINE K == Len(table)
           N == Len(text)
           Sym == Symbols \cup Tokens
<1>0. /\ phase = "protect" /\ pos \in 1 .. N /\ pos' = pos + 1
      /\ UNCHANGED <<source, pass, phase, faithful, out>>
      /\ K \in Nat /\ N \in Nat /\ pos \in Nat
      /\ text \in Seq(Sym)
  BY DEF TokenInv, TypeOK, Known, Replace
<1>1. PICK e \in Stops(pos) :
        /\ text' = SubSeq(text, 1, pos - 1) \o <<K>> \o SubSeq(text, e + 1, N)
        /\ table' = Append(table, SubSeq(text, pos, e))
  BY DEF Replace, Key
<1> DEFINE w == e - pos
           match == SubSeq(text, pos, e)
<1>2. e \in pos .. N
  BY <1>0, StopsAhead DEF TokenInv, TypeOK
<1>3. /\ text' \in Seq(Sym \cup {K})
      /\ Len(text') = N - w
      /\ \A k \in 1 .. pos - 1 : text'[k] = text[k]
      /\ text'[pos] = K
      /\ \A k \in pos + 1 .. Len(text') : text'[k] = text[k + w]
      /\ match \in Seq(Sym)
      /\ Len(match) = w + 1
      /\ \A k \in 1 .. Len(match) : match[k] = text[pos + k - 1]
  <2> HIDE DEF Sym, K, match
  <2>1. text \in Seq(Sym) /\ pos \in 1 .. Len(text) /\ e \in pos .. Len(text)
    BY <1>0, <1>2
  <2>2. match = Match(text, pos, e)
    BY DEF match, Match
  <2>3. text' = Splice(text, pos, e, K)
    BY <1>1 DEF Splice
  <2> QED
    <3>1. Replaced(text', match, Sym, text, pos, e, K)
      BY <2>1, <2>2, <2>3, Spliced, Zenon
    <3> QED
      BY <3>1 DEF Replaced
<1> HIDE DEF match
<1>4. e \in Nat /\ w \in Nat /\ w <= N - pos /\ Len(text') \in Nat
  BY <1>0, <1>2, <1>3
<1>5. Sym = Symbols \cup 0 .. K - 1
  BY DEF Tokens
<1>6. /\ Len(table') = K + 1
      /\ \A l \in 1 .. K : table'[l] = table[l]
      /\ table'[K + 1] = match
      /\ table' \in Seq(Seq(Symbols \cup 0 .. Len(table')))
  <2>1. \A l \in 1 .. K : table[l] \in Seq(Symbols \cup 0 .. K)
    BY DEF TokenInv, TypeOK
  <2>2. Symbols \cup 0 .. K \subseteq Symbols \cup 0 .. K + 1 /\ Sym \subseteq Symbols \cup 0 .. K + 1
    BY <1>0, <1>5
  <2>3. table \in Seq(Seq(Symbols \cup 0 .. K + 1))
    <3>1. \A l \in 1 .. K : table[l] \in Seq(Symbols \cup 0 .. K + 1)
      BY <2>1, <2>2
    <3>2. table \in Seq(Seq(Symbols \cup 0 .. K))
      BY DEF TokenInv, TypeOK
    <3>3. Seq(Symbols \cup 0 .. K) \subseteq Seq(Symbols \cup 0 .. K + 1)
      BY <2>2
    <3> QED
      BY <3>2, <3>3
  <2>4. match \in Seq(Symbols \cup 0 .. K + 1)
    BY <1>3, <2>2
  <2>5. table' = Append(table, match)
    BY <1>1 DEF match
  <2> QED
    BY <2>3, <2>4, <2>5, AppendProperties
<1>7. Tokens' = 0 .. K
  BY <1>0, <1>6 DEF Tokens
<1>8. TypeOK'
  <2>1. Sym \cup {K} \subseteq Symbols \cup 0 .. K + 1 /\ Symbols \cup 0 .. K \subseteq Symbols \cup 0 .. K + 1
    BY <1>0, <1>5
  <2>2. text' \in Seq(Symbols \cup 0 .. Len(table'))
    BY <1>3, <1>6, <2>1
  <2>3. out' \in Seq(Symbols \cup 0 .. Len(table'))
    BY <1>0, <1>6, <2>1 DEF TokenInv, TypeOK
  <2>4. pos' \in 1 .. Len(text') + 1
    BY <1>0, <1>3, <1>4
  <2> QED
    BY <1>0, <1>6, <2>2, <2>3, <2>4 DEF TokenInv, TypeOK
<1>9. Known'
  <2>1. Sym \cup {K} \subseteq Symbols \cup 0 .. K /\ Sym \subseteq Symbols \cup 0 .. K
    BY <1>0, <1>5
  <2>2. text' \in Seq(Symbols \cup Tokens')
    BY <1>3, <1>7, <2>1
  <2>3. out' \in Seq(Symbols \cup Tokens')
    <3>1. out \in Seq(Sym)
      BY DEF TokenInv, Known
    <3> QED
      BY <1>0, <1>7, <2>1, <3>1
  <2>4. ASSUME NEW l \in 1 .. K + 1 PROVE table'[l] \in Seq(Symbols \cup 0 .. l - 2)
    <3>1. CASE l = K + 1
      <4>1. 0 .. l - 2 = 0 .. K - 1
        BY <1>0, <3>1
      <4> QED
        BY <1>3, <1>5, <1>6, <3>1, <4>1
    <3>2. CASE l # K + 1
      <4>1. l \in 1 .. K
        BY <1>0, <3>2
      <4> QED
        BY <1>6, <4>1 DEF TokenInv, Known
    <3> QED
      BY <3>1, <3>2
  <2> QED
    BY <1>0, <1>6, <2>2, <2>3, <2>4 DEF Known
\* Where a symbol of the new text stood in the old one.
<1> DEFINE Old(k) == IF k < pos THEN k ELSE k + w
<1>10. ASSUME NEW k \in 1 .. Len(text'), k # pos
       PROVE  /\ Old(k) \in 1 .. N
              /\ Old(k) < pos \/ Old(k) > e
              /\ text'[k] = text[Old(k)]
  <2>1. CASE k < pos
    <3>1. k \in 1 .. pos - 1 /\ Old(k) = k /\ k \in 1 .. N
      BY <1>0, <1>10, <1>3, <1>4, <2>1
    <3> QED
      BY <1>3, <2>1, <3>1
  <2>2. CASE k > pos
    <3>1. k \in pos + 1 .. Len(text') /\ Old(k) = k + w /\ k + w \in 1 .. N /\ k + w > e
      BY <1>0, <1>2, <1>3, <1>4, <1>10, <2>2
    <3> QED
      BY <1>3, <3>1
  <2> QED
    BY <1>0, <1>10, <2>1, <2>2
<1>11. \A j \in 1 .. N : text[j] # K
  <2>1. \A j \in 1 .. N : text[j] \in Symbols \cup 0 .. K - 1
    BY <1>0, <1>5, LenProperties
  <2> QED
    BY <1>0, <2>1, PlaceholderAssumption
<1>12. \A l \in 1 .. K : \A k \in 1 .. Len(table[l]) : table[l][k] # K
  <2>1. ASSUME NEW l \in 1 .. K, NEW k \in 1 .. Len(table[l]) PROVE table[l][k] # K
    <3>1. table[l] \in Seq(Symbols \cup 0 .. l - 2)
      BY DEF TokenInv, Known
    <3>2. table[l][k] \in Symbols \cup 0 .. l - 2
      BY <3>1, LenProperties
    <3> QED
      BY <1>0, <3>2, PlaceholderAssumption
  <2> QED
    BY <2>1
<1>13. ASSUME NEW k \in 1 .. Len(match)
       PROVE  pos + k - 1 \in pos .. e /\ pos + k - 1 \in 1 .. N
  BY <1>0, <1>2, <1>3, <1>4
<1>14. Single(text)'
  <2> SUFFICES ASSUME NEW j \in 1 .. Len(text'), NEW k \in 1 .. Len(text'),
                      IsToken(text'[j]), text'[j] = text'[k]
               PROVE  j = k
    BY DEF Single, IsToken, Symbols
  <2>1. CASE j = pos /\ k # pos
    BY <1>3, <1>10, <1>11, <2>1
  <2>2. CASE j # pos /\ k = pos
    BY <1>3, <1>10, <1>11, <2>2
  <2>3. CASE j # pos /\ k # pos
    <3>1. Old(j) = Old(k)
      BY <1>10, <2>3 DEF TokenInv, Once, Single
    <3> QED
      BY <1>0, <1>4, <1>10, <2>3, <3>1
  <2> QED
    BY <2>1, <2>2, <2>3
<1>15. ASSUME NEW l \in 1 .. K + 1 PROVE Single(table'[l])
  <2>1. CASE l = K + 1
    <3>1. ASSUME NEW j \in 1 .. Len(match), NEW k \in 1 .. Len(match),
                 IsToken(match[j]), match[j] = match[k]
          PROVE  j = k
      <4>1. pos + j - 1 = pos + k - 1
        BY <1>3, <1>13, <3>1 DEF TokenInv, Once, Single
      <4> QED
        BY <1>0, <1>3, <1>4, <4>1
    <3> QED
      BY <1>6, <2>1, <3>1 DEF Single
  <2>2. CASE l # K + 1
    BY <1>0, <1>6, <2>2 DEF TokenInv, Once
  <2> QED
    BY <2>1, <2>2
\* A token of the old text is in the new one or in the match, and not in both.
<1>16. ASSUME NEW n \in 0 .. K PROVE In(n, text)' <=> n = K \/ (In(n, text) /\ ~In(n, match))
  <2>1. n = K => In(n, text)'
    BY <1>0, <1>3, <1>4 DEF In
  <2>2. ASSUME n # K, In(n, text)' PROVE In(n, text) /\ ~In(n, match)
    <3>1. PICK k \in 1 .. Len(text') : text'[k] = n
      BY <2>2 DEF In
    <3>2. k # pos
      BY <1>3, <2>2, <3>1
    <3>3. text[Old(k)] = n /\ Old(k) \in 1 .. N /\ ~(Old(k) \in pos .. e)
      BY <1>0, <1>2, <1>10, <3>1, <3>2
    <3>4. ASSUME In(n, match) PROVE FALSE
      <4>1. PICK j \in 1 .. Len(match) : match[j] = n
        BY <3>4 DEF In
      <4>2. text[pos + j - 1] = n /\ pos + j - 1 \in pos .. e /\ pos + j - 1 \in 1 .. N
        BY <1>3, <1>13, <4>1
      <4>3. IsToken(n)
        BY <1>0, NumbersAreTokens
      <4>4. pos + j - 1 = Old(k)
        BY <3>3, <4>2, <4>3 DEF TokenInv, Once, Single
      <4> QED
        BY <3>3, <4>2, <4>4
    <3> QED
      BY <3>3, <3>4 DEF In
  <2>3. ASSUME n # K, In(n, text), ~In(n, match) PROVE In(n, text)'
    <3>1. PICK j \in 1 .. N : text[j] = n
      BY <2>3 DEF In
    <3>2. CASE j < pos
      <4>1. j \in 1 .. pos - 1 /\ j \in 1 .. Len(text')
        BY <1>0, <1>3, <1>4, <3>2
      <4> QED
        BY <1>3, <3>1, <4>1 DEF In
    <3>3. CASE j \in pos .. e
      <4>1. j - pos + 1 \in 1 .. Len(match) /\ pos + (j - pos + 1) - 1 = j
        BY <1>0, <1>2, <1>3, <3>3
      <4>2. match[j - pos + 1] = n
        BY <1>3, <3>1, <4>1
      <4> QED
        BY <2>3, <4>1, <4>2 DEF In
    <3>4. CASE j > e
      <4>1. j - w \in pos + 1 .. Len(text') /\ j - w + w = j /\ j - w \in 1 .. Len(text')
        BY <1>0, <1>2, <1>3, <1>4, <3>4
      <4> QED
        BY <1>3, <3>1, <4>1 DEF In
    <3> QED
      BY <1>0, <1>2, <3>2, <3>3, <3>4
  <2> QED
    BY <2>1, <2>2, <2>3
<1>17. \A n \in Nat : In(n, match) => In(n, text)
  BY <1>3, <1>13 DEF In
<1>18. \A l \in 1 .. K : ~In(K, table[l])
  BY <1>12 DEF In
<1>19. ~In(K, match)
  BY <1>0, <1>11, <1>17 DEF In
<1>20. Tokens = 0 .. K - 1 /\ \A n \in 0 .. K : n # K => n \in Tokens
  BY <1>0 DEF Tokens
<1>21. ASSUME NEW n \in 0 .. K, NEW l \in 1 .. K + 1, In(n, table'[l])
       PROVE  ~In(n, text)'
  <2>1. CASE l = K + 1
    BY <1>6, <1>16, <1>19, <1>21, <2>1
  <2>2. CASE l # K + 1
    <3>1. l \in 1 .. K /\ In(n, table[l])
      BY <1>0, <1>6, <1>21, <2>2
    <3>2. n # K
      BY <1>18, <3>1
    <3>3. ~In(n, text)
      BY <1>20, <3>1, <3>2 DEF TokenInv, Once
    <3> QED
      BY <1>16, <3>2, <3>3
  <2> QED
    BY <2>1, <2>2
<1>22. ASSUME NEW n \in 0 .. K, NEW l \in 1 .. K, In(n, table[l]) PROVE ~In(n, match)
  <2>1. n # K
    BY <1>18, <1>22
  <2>2. ~In(n, text)
    BY <1>20, <1>22, <2>1 DEF TokenInv, Once
  <2> QED
    BY <1>17, <2>2
<1>23. ASSUME NEW n \in 0 .. K, NEW l \in 1 .. K + 1, NEW m \in 1 .. K + 1,
              In(n, table'[l]), In(n, table'[m])
       PROVE  l = m
  <2>1. CASE l \in 1 .. K /\ m \in 1 .. K
    <3>1. In(n, table[l]) /\ In(n, table[m])
      BY <1>6, <1>23, <2>1
    <3>2. n \in Tokens
      BY <1>18, <1>20, <2>1, <3>1
    <3> QED
      BY <2>1, <3>1, <3>2 DEF TokenInv, Once
  <2>2. CASE l \in 1 .. K /\ m = K + 1
    BY <1>6, <1>22, <1>23, <2>2
  <2>3. CASE l = K + 1 /\ m \in 1 .. K
    BY <1>6, <1>22, <1>23, <2>3
  <2> QED
    BY <1>0, <2>1, <2>2, <2>3
<1>24. ASSUME NEW n \in 0 .. K PROVE In(n, text)' \/ \E l \in 1 .. K + 1 : In(n, table'[l])
  <2>1. CASE n = K
    BY <1>16, <2>1
  <2>2. CASE In(n, match)
    <3>1. K + 1 \in 1 .. K + 1
      BY <1>0
    <3> QED
      BY <1>6, <2>2, <3>1
  <2>3. CASE n # K /\ In(n, text) /\ ~In(n, match)
    BY <1>16, <2>3
  <2>4. CASE n # K /\ ~In(n, text)
    <3>1. PICK l \in 1 .. K : In(n, table[l])
      BY <1>20, <2>4 DEF TokenInv, Once
    <3>2. l \in 1 .. K + 1
      BY <1>0
    <3> QED
      BY <1>6, <3>1, <3>2
  <2> QED
    BY <2>1, <2>2, <2>3, <2>4
<1>25. Once'
  <2>1. \A l \in 1 .. Len(table') : Single(table[l])'
    BY <1>6, <1>15 DEF Single, IsToken, Symbols
  <2>3. \A n \in Tokens', l \in 1 .. Len(table') : In(n, table'[l]) => ~In(n, text)'
    BY <1>6, <1>7, <1>21
  <2>4. \A n \in Tokens' : \A l, m \in 1 .. Len(table') :
          In(n, table'[l]) /\ In(n, table'[m]) => l = m
    BY <1>6, <1>7, <1>23
  <2>5. \A n \in Tokens' : In(n, text)' \/ \E l \in 1 .. Len(table') : In(n, table'[l])
    BY <1>6, <1>7, <1>24
  <2> QED
    BY <1>14, <2>1, <2>3, <2>4, <2>5 DEF Once, In
<1> QED
  BY <1>8, <1>9, <1>25 DEF TokenInv

(* Steps that leave the text, the table and the output alone. *)
LEMMA KeptInv ==
  ASSUME TokenInv, UNCHANGED <<text, table, out>>, phase' = "translate" => pos' = 1
  PROVE  Known' /\ Once'
<1>1. Tokens' = Tokens
  BY DEF Tokens
<1>2. Known'
  BY <1>1 DEF TokenInv, Known, Symbols
<1>3. Once'
  BY <1>1 DEF TokenInv, Once, Single, In, IsToken, Symbols
<1> QED
  BY <1>2, <1>3

LEMMA PassOverInv == TokenInv /\ PassOver => TokenInv'
<1> SUFFICES ASSUME TokenInv, PassOver PROVE TokenInv'
  OBVIOUS
<1>1. Len(text) \in Nat /\ pos \in Nat
  BY DEF TokenInv, TypeOK
<1>2. TypeOK'
  BY <1>1 DEF TokenInv, TypeOK, PassOver, Symbols
<1>3. Known' /\ Once'
  BY KeptInv DEF PassOver
<1> QED
  BY <1>2, <1>3 DEF TokenInv

LEMMA NextPatternInv == TokenInv /\ NextPattern => TokenInv'
<1> SUFFICES ASSUME TokenInv, NextPattern PROVE TokenInv'
  OBVIOUS
<1>1. Len(text) \in Nat /\ pass \in 1 .. 4 /\ Len(Patterns) = 4
  BY DEF TokenInv, TypeOK, Patterns
<1>2. pass' \in 1 .. 4 /\ pos' \in 1 .. Len(text) + 1 /\ phase' \in {"protect", "translate"}
  BY <1>1 DEF NextPattern
<1>3. TypeOK'
  BY <1>1, <1>2 DEF TokenInv, TypeOK, NextPattern, Symbols, Patterns
<1>4. Known' /\ Once'
  BY KeptInv DEF NextPattern
<1> QED
  BY <1>3, <1>4 DEF TokenInv

LEMMA Reversed ==
  ASSUME NEW S, NEW t \in Seq(S)
  PROVE  /\ Reverse(t) \in Seq(S)
         /\ Len(Reverse(t)) = Len(t)
         /\ \A k \in 1 .. Len(t) : Reverse(t)[k] = t[Len(t) - k + 1]
<1>1. Len(t) \in Nat /\ \A k \in 1 .. Len(t) : t[k] \in S
  BY LenProperties
<1>2. \A k \in 1 .. Len(t) : Len(t) - k + 1 \in 1 .. Len(t)
  BY <1>1
<1>3. \A k \in 1 .. Len(t) : t[Len(t) - k + 1] \in S
  BY <1>1, <1>2
<1> QED
  BY <1>1, <1>3 DEF Reverse

(* The order of the tokens is nothing to the table. *)
LEMMA TranslateInv == TokenInv /\ Translate => TokenInv'
<1> SUFFICES ASSUME TokenInv, Translate PROVE TokenInv'
  OBVIOUS
<1>0. /\ phase = "translate" /\ phase' = "restore"
      /\ UNCHANGED <<source, table, pass, pos, out>>
      /\ Len(text) \in Nat
  BY DEF TokenInv, TypeOK, Translate
<1>1. CASE text' = text /\ faithful' = faithful
  <2>1. TypeOK'
    BY <1>0, <1>1 DEF TokenInv, TypeOK, Symbols
  <2>2. Known' /\ Once'
    BY <1>0, <1>1, KeptInv
  <2> QED
    BY <2>1, <2>2 DEF TokenInv
<1>2. CASE text' = Reverse(text) /\ faithful' = (Reverse(text) = text)
  <2> DEFINE N == Len(text)
  <2>1. /\ text' \in Seq(Symbols \cup 0 .. Len(table))
        /\ text' \in Seq(Symbols \cup Tokens)
        /\ Len(text') = N
        /\ \A k \in 1 .. N : text'[k] = text[N - k + 1]
    <3>1. text \in Seq(Symbols \cup 0 .. Len(table)) /\ text \in Seq(Symbols \cup Tokens)
      BY DEF TokenInv, TypeOK, Known
    <3> QED
      BY <3>1, <1>2, Reversed
  <2>2. \A k \in 1 .. N : N - k + 1 \in 1 .. N /\ N - (N - k + 1) + 1 = k
    BY <1>0
  <2>3. Tokens' = Tokens
    BY <1>0 DEF Tokens
  <2>4. TypeOK'
    BY <1>0, <1>2, <2>1 DEF TokenInv, TypeOK, Symbols
  <2>5. Known'
    BY <1>0, <2>1, <2>3 DEF TokenInv, Known, Symbols
  <2>6. Single(text)'
    <3> SUFFICES ASSUME NEW j \in 1 .. N, NEW k \in 1 .. N, IsToken(text'[j]), text'[j] = text'[k]
                 PROVE  j = k
      BY <2>1 DEF Single, IsToken, Symbols
    <3>1. N - j + 1 = N - k + 1
      BY <2>1, <2>2 DEF TokenInv, Once, Single
    <3> QED
      BY <1>0, <3>1
  <2>7. \A n \in Tokens : In(n, text') <=> In(n, text)
    <3>1. ASSUME NEW n \in Tokens, In(n, text') PROVE In(n, text)
      BY <2>1, <2>2, <3>1 DEF In
    <3>2. ASSUME NEW n \in Tokens, In(n, text) PROVE In(n, text')
      <4>1. PICK k \in 1 .. N : text[k] = n
        BY <3>2 DEF In
      <4>2. text'[N - k + 1] = n
        BY <2>1, <2>2, <4>1
      <4> QED
        BY <2>1, <2>2, <4>2 DEF In
    <3> QED
      BY <3>1, <3>2
  <2>8. Once'
    <3>1. \A m \in 1 .. Len(table) : Single(table[m])'
      BY <1>0 DEF TokenInv, Once, Single, IsToken, Symbols
    <3>2. \A n \in Tokens, m \in 1 .. Len(table) : In(n, table[m]) => ~In(n, text')
      BY <2>7 DEF TokenInv, Once
    <3>3. \A n \in Tokens : In(n, text') \/ \E m \in 1 .. Len(table) : In(n, table[m])
      BY <2>7 DEF TokenInv, Once
    <3>4. \A n \in Tokens : \A l, m \in 1 .. Len(table) :
            In(n, table[l]) /\ In(n, table[m]) => l = m
      BY DEF TokenInv, Once
    <3> QED
      BY <1>0, <2>3, <2>6, <3>1, <3>2, <3>3, <3>4 DEF Once, In
  <2> QED
    BY <2>4, <2>5, <2>8 DEF TokenInv
<1> QED
  BY <1>1, <1>2 DEF Translate

(* Every token in the text has an entry. *)
LEMMA RestoreInv == TokenInv /\ Restore => TokenInv'
<1> SUFFICES ASSUME TokenInv, Restore PROVE TokenInv'
  OBVIOUS
<1> DEFINE piece == IF IsToken(text[pos]) THEN Entry(text[pos]) ELSE <<text[pos]>>
<1>0. /\ phase = "restore" /\ pos \in 1 .. Len(text) /\ pos' = pos + 1
      /\ UNCHANGED <<source, text, table, pass, phase, faithful>>
      /\ Len(text) \in Nat /\ Len(table) \in Nat
      /\ out' = out \o piece
  BY DEF TokenInv, TypeOK, Restore
<1>1. text[pos] \in Symbols \cup Tokens
  BY <1>0, LenProperties DEF TokenInv, Known
<1>2. piece \in Seq(Symbols \cup Tokens)
  <2>1. CASE IsToken(text[pos])
    <3>1. text[pos] \in 0 .. Len(table) - 1
      BY <1>1, <2>1 DEF IsToken, Tokens
    <3>2. text[pos] + 1 \in 1 .. Len(table)
      BY <1>0, <3>1
    <3>3. table[text[pos] + 1] \in Seq(Symbols \cup 0 .. (text[pos] + 1) - 2)
      BY <3>2 DEF TokenInv, Known
    <3>4. Symbols \cup 0 .. (text[pos] + 1) - 2 \subseteq Symbols \cup Tokens
      BY <1>0, <3>1 DEF Tokens
    <3>5. Seq(Symbols \cup 0 .. (text[pos] + 1) - 2) \subseteq Seq(Symbols \cup Tokens)
      BY <3>4
    <3> QED
      BY <2>1, <3>3, <3>5 DEF Entry
  <2>2. CASE ~IsToken(text[pos])
    BY <1>1, <2>2
  <2> QED
    BY <2>1, <2>2
<1> HIDE DEF piece
<1>3. out' \in Seq(Symbols \cup Tokens)
  BY <1>0, <1>2, ConcatProperties DEF TokenInv, Known
<1>4. Tokens' = Tokens /\ Tokens \subseteq 0 .. Len(table)
  BY <1>0 DEF Tokens
<1>5. out' \in Seq(Symbols \cup 0 .. Len(table))
  <2>1. Symbols \cup Tokens \subseteq Symbols \cup 0 .. Len(table)
    BY <1>4
  <2>2. Seq(Symbols \cup Tokens) \subseteq Seq(Symbols \cup 0 .. Len(table))
    BY <2>1
  <2> QED
    BY <1>3, <2>2
<1>6. TypeOK'
  BY <1>0, <1>5 DEF TokenInv, TypeOK, Symbols
<1>7. Known'
  BY <1>0, <1>3, <1>4 DEF TokenInv, Known, Symbols
<1>8. Once'
  BY <1>0, <1>4 DEF TokenInv, Once, Single, In, IsToken, Symbols
<1> QED
  BY <1>6, <1>7, <1>8 DEF TokenInv

LEMMA FinishInv == TokenInv /\ Finish => TokenInv'
<1> SUFFICES ASSUME TokenInv, Finish PROVE TokenInv'
  OBVIOUS
<1>1. TypeOK'
  BY DEF TokenInv, TypeOK, Finish, Symbols
<1>2. Known' /\ Once'
  BY KeptInv DEF Finish
<1> QED
  BY <1>1, <1>2 DEF TokenInv

LEMMA NextInv == TokenInv /\ [Next]_vars => TokenInv'
<1> SUFFICES ASSUME TokenInv, [Next]_vars PROVE TokenInv'
  OBVIOUS
<1>1. CASE Replace
  BY <1>1, ReplaceInv
<1>2. CASE PassOver
  BY <1>2, PassOverInv
<1>3. CASE NextPattern
  BY <1>3, NextPatternInv
<1>4. CASE Translate
  BY <1>4, TranslateInv
<1>5. CASE Restore
  BY <1>5, RestoreInv
<1>6. CASE Finish
  BY <1>6, FinishInv
<1>7. CASE UNCHANGED vars
  <2>1. TypeOK'
    BY <1>7 DEF TokenInv, TypeOK, vars, Symbols
  <2>2. Known' /\ Once'
    <3>1. phase = "translate" => pos = 1
      BY DEF TokenInv, Known
    <3> QED
      BY <1>7, <3>1, KeptInv DEF vars
  <2> QED
    BY <2>1, <2>2 DEF TokenInv
<1> QED
  BY <1>1, <1>2, <1>3, <1>4, <1>5, <1>6, <1>7 DEF Next

LEMMA TokenInvariant == Spec => []TokenInv
BY InitInv, NextInv, PTL DEF Spec

----------------------------------------------------------------------------
(* The text, the table and the output hold symbols and tokens, and the place the
   substitution has got to is in the text, whatever the texts are. *)
THEOREM TokensTyped == Spec => []TypeOK
<1>1. TokenInv => TypeOK
  BY DEF TokenInv
<1> QED
  BY <1>1, TokenInvariant, PTL

(* How often a token is in a sequence that has it once at most. *)
LEMMA CountOf ==
  ASSUME NEW seq, DOMAIN seq = 1 .. Len(seq), Single(seq), NEW n, IsToken(n)
  PROVE  Count(n, seq) = IF In(n, seq) THEN 1 ELSE 0
<1> DEFINE At == {k \in DOMAIN seq : seq[k] = n}
<1>1. CASE In(n, seq)
  <2>1. PICK k \in 1 .. Len(seq) : seq[k] = n
    BY <1>1 DEF In
  <2>2. At = {k}
    BY <2>1 DEF Single
  <2> QED
    BY <1>1, <2>2, FS_Singleton DEF Count
<1>2. CASE ~In(n, seq)
  <2>1. At = {}
    BY <1>2 DEF In
  <2> QED
    BY <1>2, <2>1, FS_EmptySet DEF Count
<1> QED
  BY <1>1, <1>2

(* Each token of a text of any length is in one place: in the text, or in the
   entry of a token that protect made after it. *)
THEOREM EachTokenOnce == Spec => []TokensOnce
<1>1. ASSUME TokenInv PROVE TokensOnce
  <2> SUFFICES ASSUME NEW n \in 0 .. Len(table) - 1
               PROVE  /\ Count(n, text) + Cardinality({m \in 1 .. Len(table) : Count(n, table[m]) = 1}) = 1
                      /\ \A m \in 1 .. Len(table) :
                           Count(n, table[m]) > 0 => Count(n, table[m]) = 1 /\ n + 1 < m
    BY DEF TokensOnce
  <2> DEFINE Holders == {m \in 1 .. Len(table) : Count(n, table[m]) = 1}
  <2>1. n \in Nat /\ n \in Tokens /\ Len(table) \in Nat
    BY <1>1 DEF TokenInv, TypeOK, Tokens
  <2>2. IsToken(n)
    BY <2>1, NumbersAreTokens
  <2>3. Count(n, text) = IF In(n, text) THEN 1 ELSE 0
    <3>1. DOMAIN text = 1 .. Len(text) /\ Single(text)
      BY <1>1, LenProperties DEF TokenInv, TypeOK, Once
    <3> QED
      BY <2>2, <3>1, CountOf
  <2>4. ASSUME NEW m \in 1 .. Len(table)
        PROVE  /\ Count(n, table[m]) = IF In(n, table[m]) THEN 1 ELSE 0
               /\ In(n, table[m]) => n + 1 < m
    <3>1. table[m] \in Seq(Symbols \cup 0 .. m - 2) /\ Single(table[m])
      BY <1>1 DEF TokenInv, Known, Once
    <3>2. DOMAIN table[m] = 1 .. Len(table[m])
      BY <3>1, LenProperties
    <3>3. Count(n, table[m]) = IF In(n, table[m]) THEN 1 ELSE 0
      BY <2>2, <3>1, <3>2, CountOf
    <3>4. ASSUME In(n, table[m]) PROVE n + 1 < m
      <4>1. PICK k \in 1 .. Len(table[m]) : table[m][k] = n
        BY <3>4 DEF In
      <4>2. n \in Symbols \cup 0 .. m - 2
        BY <3>1, <4>1, LenProperties
      <4> QED
        BY <2>1, <2>2, <4>2 DEF IsToken
    <3> QED
      BY <3>3, <3>4
  <2>5. Holders = {m \in 1 .. Len(table) : In(n, table[m])}
    BY <2>4
  <2>6. CASE In(n, text)
    <3>1. Holders = {}
      BY <1>1, <2>1, <2>5, <2>6 DEF TokenInv, Once
    <3>2. Cardinality(Holders) = 0
      BY <3>1, FS_EmptySet
    <3> QED
      BY <2>3, <2>4, <2>6, <3>2
  <2>7. CASE ~In(n, text)
    <3>1. PICK m \in 1 .. Len(table) : In(n, table[m])
      BY <1>1, <2>1, <2>7 DEF TokenInv, Once
    <3>2. Holders = {m}
      BY <1>1, <2>1, <2>5, <3>1 DEF TokenInv, Once
    <3>3. Cardinality(Holders) = 1
      BY <3>2, FS_Singleton
    <3> QED
      BY <2>3, <2>4, <2>7, <3>3
  <2> QED
    BY <2>6, <2>7
<1> QED
  BY <1>1, TokenInvariant, PTL

----------------------------------------------------------------------------
(* Induction, for a set of numbers and for a set of sequences. *)

LEMMA NumbersFrom0 ==
  ASSUME NEW T \in SUBSET Nat, 0 \in T, \A n \in T : n + 1 \in T
  PROVE  T = Nat
<1> SUFFICES ASSUME Nat \ T # {} PROVE FALSE
  OBVIOUS
<1>1. PICK m \in Nat \ T : \A k \in Nat \ T : ~(<<k, m>> \in OpToRel(<, Nat))
  BY WFMin, NatLessThanWellFounded
<1>2. m # 0 /\ m - 1 \in Nat /\ m - 1 < m
  OBVIOUS
<1>3. m - 1 \in T
  BY <1>1, <1>2 DEF OpToRel
<1> QED
  BY <1>2, <1>3

LEMMA SequencesFromEmpty ==
  ASSUME NEW S, NEW T, <<>> \in T, \A s \in Seq(S) \cap T : \A e \in S : Append(s, e) \in T
  PROVE  Seq(S) \subseteq T
<1> DEFINE N == {n \in Nat : \A s \in Seq(S) : Len(s) = n => s \in T}
<1>1. 0 \in N
  BY EmptySeq
<1>2. ASSUME NEW n \in N PROVE n + 1 \in N
  <2> SUFFICES ASSUME NEW s \in Seq(S), Len(s) = n + 1 PROVE s \in T
    OBVIOUS
  <2>1. s # <<>>
    BY EmptySeq
  <2>2. PICK t \in Seq(S), e \in S : s = Append(t, e)
    BY <2>1, SequenceEmptyOrAppend
  <2>3. Len(t) \in Nat /\ Len(s) = Len(t) + 1
    BY <2>2, AppendProperties, LenProperties
  <2>4. t \in T
    BY <1>2, <2>3
  <2> QED
    BY <2>2, <2>4
<1> HIDE DEF N
<1>3. N = Nat
  <2>1. N \in SUBSET Nat
    BY DEF N
  <2> QED
    BY <1>1, <1>2, <2>1, NumbersFrom0
<1> QED
  BY <1>3, LenProperties DEF N

----------------------------------------------------------------------------
(* FlattenSeq is built up from the left. *)

Turn(f, ss, i) == IF i = 1 THEN ss[i] ELSE f[i - 1] \o ss[i]

BuildsTo(f, ss, n) == f = [i \in 1 .. n |-> Turn(f, ss, i)]

Builds(f, ss) == BuildsTo(f, ss, Len(ss))

LEMMA TurnAt ==
  ASSUME NEW f, NEW ss, NEW n, BuildsTo(f, ss, n), NEW i \in 1 .. n
  PROVE  f[i] = Turn(f, ss, i)
BY Zenon DEF BuildsTo

LEMMA FirstTurn ==
  ASSUME NEW f, NEW ss, NEW m \in Nat, BuildsTo(f, ss, m), 1 <= m
  PROVE  f[1] = ss[1]
<1>1. 1 \in 1 .. m
  OBVIOUS
<1> QED
  BY <1>1, TurnAt, Zenon DEF Turn

LEMMA NextTurn ==
  ASSUME NEW f, NEW ss, NEW m \in Nat, BuildsTo(f, ss, m), NEW n \in Nat, 1 <= n, n < m
  PROVE  f[n + 1] = f[n] \o ss[n + 1]
<1>1. n + 1 \in 1 .. m /\ n + 1 # 1 /\ (n + 1) - 1 = n
  OBVIOUS
<1>2. f[n + 1] = Turn(f, ss, n + 1)
  BY <1>1, TurnAt, Zenon
<1> QED
  BY <1>1, <1>2, Zenon DEF Turn

LEMMA BuildsMore ==
  ASSUME NEW ss, NEW n \in Nat, NEW g, BuildsTo(g, ss, n)
  PROVE  \E h : BuildsTo(h, ss, n + 1)
<1> DEFINE h == [i \in 1 .. n + 1 |-> Turn(g, ss, i)]
<1>1. \A i \in 1 .. n + 1 : h[i] = Turn(g, ss, i)
  OBVIOUS
<1>2. \A i \in 1 .. n : g[i] = Turn(g, ss, i)
  BY TurnAt
<1>3. \A i \in 1 .. n : i \in 1 .. n + 1
  OBVIOUS
<1> HIDE DEF h
<1>4. \A i \in 1 .. n : h[i] = g[i]
  BY <1>1, <1>2, <1>3, Zenon
<1>5. ASSUME NEW i \in 1 .. n + 1 PROVE Turn(g, ss, i) = Turn(h, ss, i)
  <2>1. i = 1 \/ i - 1 \in 1 .. n
    OBVIOUS
  <2> QED
    BY <1>4, <2>1, Zenon DEF Turn
<1>6. h = [i \in 1 .. n + 1 |-> Turn(h, ss, i)]
  BY <1>5, Zenon DEF h
<1> QED
  BY <1>6 DEF BuildsTo

LEMMA BuildsAll ==
  ASSUME NEW S, NEW ss \in Seq(Seq(S))
  PROVE  \E f : Builds(f, ss)
<1> DEFINE N == {n \in Nat : \E f : BuildsTo(f, ss, n)}
<1>1. 0 \in N
  <2>1. <<>> = [i \in 1 .. 0 |-> Turn(<<>>, ss, i)]
    OBVIOUS
  <2> QED
    BY <2>1 DEF BuildsTo
<1>2. ASSUME NEW n \in N PROVE n + 1 \in N
  BY <1>2, BuildsMore
<1>3. N \in SUBSET Nat
  OBVIOUS
<1>4. Len(ss) \in Nat
  BY LenProperties
<1> HIDE DEF N
<1>5. N = Nat
  BY <1>1, <1>2, <1>3, NumbersFrom0
<1> QED
  BY <1>4, <1>5 DEF N, Builds

LEMMA BuildsTyped ==
  ASSUME NEW T, NEW ss, NEW m \in Nat, \A n \in 1 .. m : ss[n] \in Seq(T),
         NEW f, BuildsTo(f, ss, m)
  PROVE  \A n \in 1 .. m : f[n] \in Seq(T)
<1> DEFINE N == {n \in Nat : n = 0 \/ m < n \/ f[n] \in Seq(T)}
<1>1. 0 \in N /\ N \in SUBSET Nat
  OBVIOUS
<1>2. ASSUME NEW n \in N PROVE n + 1 \in N
  <2>1. n \in Nat
    OBVIOUS
  <2> SUFFICES ASSUME n + 1 <= m PROVE f[n + 1] \in Seq(T)
    BY <2>1
  <2>2. CASE n = 0
    BY <2>2, FirstTurn
  <2>3. CASE n # 0
    <3>1. f[n] \in Seq(T)
      BY <2>1, <2>3
    <3> 1 <= n /\ n < m
      BY <2>1, <2>3
    <3>2. f[n + 1] = f[n] \o ss[n + 1]
      BY <2>1, NextTurn, Zenon
    <3>3. ss[n + 1] \in Seq(T)
      BY <2>1
    <3> QED
      BY <3>1, <3>2, <3>3, ConcatProperties
  <2> QED
    BY <2>2, <2>3
<1> HIDE DEF N
<1>3. N = Nat
  BY <1>1, <1>2, NumbersFrom0
<1> QED
  BY <1>3 DEF N

SameUpTo(m, f, g) == \A n \in 1 .. m : f[n] = g[n]

LEMMA BuildsAgree ==
  ASSUME NEW ss, NEW r, NEW m \in Nat, NEW f, NEW g, BuildsTo(f, ss, m), BuildsTo(g, r, m + 1),
         SameUpTo(m, r, ss)
  PROVE  SameUpTo(m, f, g)
<1> DEFINE N == {n \in Nat : n = 0 \/ m < n \/ f[n] = g[n]}
<1>1. 0 \in N /\ N \in SUBSET Nat
  OBVIOUS
<1>2. ASSUME NEW n \in N PROVE n + 1 \in N
  <2>1. n \in Nat
    OBVIOUS
  <2> SUFFICES ASSUME n + 1 <= m PROVE f[n + 1] = g[n + 1]
    BY <2>1
  <2>2. CASE n = 0
    <3>1. f[1] = ss[1] /\ g[1] = r[1]
      BY <2>1, FirstTurn
    <3> QED
      BY <2>1, <2>2, <3>1 DEF SameUpTo
  <2>3. CASE n # 0
    <3> /\ 1 <= n /\ n < m
        /\ n < m + 1 /\ m + 1 \in Nat
      BY <2>1, <2>3
    <3>1. f[n + 1] = f[n] \o ss[n + 1]
      BY <2>1, NextTurn, Zenon
    <3>2. g[n + 1] = g[n] \o r[n + 1]
      BY <2>1, NextTurn, Zenon
    <3>3. f[n] = g[n] /\ r[n + 1] = ss[n + 1]
      BY <2>1, <2>3 DEF SameUpTo
    <3> QED
      BY <3>1, <3>2, <3>3
  <2> QED
    BY <2>2, <2>3
<1> HIDE DEF N
<1>3. N = Nat
  BY <1>1, <1>2, NumbersFrom0
<1> QED
  BY <1>3 DEF N, SameUpTo

LEMMA FlattenBuilds ==
  ASSUME NEW S, NEW ss \in Seq(Seq(S)), Len(ss) # 0
  PROVE  \E f : Builds(f, ss) /\ FlattenSeq(ss) = f[Len(ss)]
<1> DEFINE F == CHOOSE f : Builds(f, ss)
<1>1. Builds(F, ss)
  BY BuildsAll
<1>2. FlattenSeq(ss) = F[Len(ss)]
  BY DEF FlattenSeq, Builds, BuildsTo, Turn
<1> QED
  BY <1>1, <1>2

LEMMA FlattenAppend ==
  ASSUME NEW S, NEW ss \in Seq(Seq(S)), NEW t \in Seq(S)
  PROVE  /\ FlattenSeq(ss) \in Seq(S)
         /\ FlattenSeq(Append(ss, t)) = FlattenSeq(ss) \o t
<1> DEFINE m == Len(ss)
           r == Append(ss, t)
<1>a. m \in Nat
  BY LenProperties
<1>b. \A n \in 1 .. m : ss[n] \in Seq(S)
  BY LenProperties
<1>c. r[m + 1] = t
  BY AppendProperties
<1>d. \A n \in 1 .. m : r[n] = ss[n]
  BY AppendProperties
<1>e. r \in Seq(Seq(S)) /\ Len(r) = m + 1
  BY AppendProperties
<1>1. PICK g : Builds(g, r) /\ FlattenSeq(r) = g[Len(r)]
  <2>1. Len(r) # 0
    BY <1>a, <1>e
  <2> QED
    BY <1>e, <2>1, FlattenBuilds, Zenon
<1> HIDE DEF r
<1>2. BuildsTo(g, r, m + 1) /\ FlattenSeq(r) = g[m + 1]
  BY <1>e, <1>1 DEF Builds
<1>3. CASE m = 0
  <2>1. ss = <<>> /\ FlattenSeq(ss) = <<>>
    BY <1>3, EmptySeq DEF FlattenSeq
  <2>2. BuildsTo(g, r, 1) /\ FlattenSeq(r) = g[1] /\ r[1] = t
    BY <1>c, <1>2, <1>3
  <2>3. FlattenSeq(r) = t
    BY <2>2, FirstTurn
  <2> QED
    BY <2>1, <2>3, ConcatEmptySeq, EmptySeq DEF r
<1>4. CASE m # 0
  <2>1. PICK f : Builds(f, ss) /\ FlattenSeq(ss) = f[m]
    BY <1>4, FlattenBuilds
  <2>2. BuildsTo(f, ss, m)
    BY <2>1 DEF Builds
  <2> HIDE DEF m
  <2>3. f[m] \in Seq(S) /\ f[m] = g[m]
    <3> 1 <= m /\ m \in 1 .. m
      BY <1>a, <1>4
    <3>1. \A n \in 1 .. m : f[n] \in Seq(S)
      BY <1>a, <1>b, <2>2, BuildsTyped
    <3>2. SameUpTo(m, f, g)
      <4> BuildsTo(g, r, m + 1)
        BY <1>2
      <4> SameUpTo(m, r, ss)
        BY <1>d DEF SameUpTo
      <4> QED
        BY <1>a, <2>2, BuildsAgree, Zenon
    <3> QED
      BY <3>1, <3>2 DEF SameUpTo
  <2>4. g[m + 1] = g[m] \o t
    <3> m + 1 \in Nat /\ 1 <= m /\ m < m + 1
      BY <1>a, <1>4
    <3> BuildsTo(g, r, m + 1)
      BY <1>2
    <3>1. g[m + 1] = g[m] \o r[m + 1]
      BY <1>a, NextTurn, Zenon
    <3> QED
      BY <1>c, <3>1
  <2> QED
    BY <1>2, <2>1, <2>3, <2>4 DEF r
<1> QED
  BY <1>3, <1>4

----------------------------------------------------------------------------
(* What a sequence is spelled like. *)

Means(W, D, S) == \A e \in D : StandsFor(W, e) \in Seq(S)

SpelledItems(W, seq) == [k \in DOMAIN seq |-> StandsFor(W, seq[k])]

LEMMA SpelledOfEmpty == \A W : Spelled(W, <<>>) = <<>>
<1> SUFFICES ASSUME NEW W PROVE Spelled(W, <<>>) = <<>>
  OBVIOUS
<1>1. [k \in DOMAIN <<>> |-> StandsFor(W, <<>>[k])] = <<>>
  OBVIOUS
<1> QED
  BY <1>1 DEF Spelled, FlattenSeq

LEMMA ItemsTyped ==
  ASSUME NEW D, NEW S, NEW W, Means(W, D, S), NEW s \in Seq(D)
  PROVE  SpelledItems(W, s) \in Seq(Seq(S)) /\ Len(SpelledItems(W, s)) = Len(s)
<1>1. Len(s) \in Nat /\ DOMAIN s = 1 .. Len(s) /\ \A k \in 1 .. Len(s) : s[k] \in D
  BY LenProperties
<1>2. \A k \in 1 .. Len(s) : StandsFor(W, s[k]) \in Seq(S)
  BY <1>1 DEF Means
<1> QED
  BY <1>1, <1>2 DEF SpelledItems

LEMMA ItemsAppend ==
  ASSUME NEW D, NEW S, NEW W, Means(W, D, S), NEW s \in Seq(D), NEW e \in D
  PROVE  SpelledItems(W, Append(s, e)) = Append(SpelledItems(W, s), StandsFor(W, e))
<1> DEFINE t == Append(s, e)
           a == SpelledItems(W, s)
           c == SpelledItems(W, t)
           x == StandsFor(W, e)
<1>1. Len(s) \in Nat /\ DOMAIN s = 1 .. Len(s)
  BY LenProperties
<1>2. t \in Seq(D) /\ Len(t) = Len(s) + 1
  BY AppendProperties
<1>3. t[Len(s) + 1] = e /\ \A k \in 1 .. Len(s) : t[k] = s[k]
  BY AppendProperties
<1> HIDE DEF t
<1>4. DOMAIN t = 1 .. Len(t)
  BY <1>2, LenProperties
<1>5. x \in Seq(S)
  BY DEF Means
<1>6. a \in Seq(Seq(S)) /\ Len(a) = Len(s)
  BY ItemsTyped
<1>7. c \in Seq(Seq(S)) /\ Len(c) = Len(t)
  BY <1>2, ItemsTyped
<1>8. \A k \in 1 .. Len(s) : a[k] = StandsFor(W, s[k])
  BY <1>1 DEF SpelledItems
<1>9. \A k \in 1 .. Len(s) + 1 : c[k] = StandsFor(W, t[k])
  BY <1>2, <1>4 DEF SpelledItems
<1> HIDE DEF a, c, x
<1>10. /\ Append(a, x) \in Seq(Seq(S)) /\ Len(Append(a, x)) = Len(s) + 1
       /\ \A k \in 1 .. Len(s) : Append(a, x)[k] = a[k]
       /\ Append(a, x)[Len(s) + 1] = x
  BY <1>5, <1>6, AppendProperties
<1>11. ASSUME NEW k \in 1 .. Len(s) + 1 PROVE c[k] = Append(a, x)[k]
  <2>1. CASE k \in 1 .. Len(s)
    BY <2>1, <1>3, <1>8, <1>9, <1>10
  <2>2. CASE k = Len(s) + 1
    BY <2>2, <1>1, <1>3, <1>9, <1>10 DEF x
  <2>3. k \in 1 .. Len(s) \/ k = Len(s) + 1
    BY <1>1
  <2> QED
    BY <2>1, <2>2, <2>3
<1>12. c = Append(a, x)
  BY <1>2, <1>7, <1>10, <1>11, SeqEqual
<1> QED
  BY <1>12 DEF a, c, x, t

LEMMA SpelledTyped ==
  ASSUME NEW D, NEW S, NEW W, Means(W, D, S), NEW s \in Seq(D)
  PROVE  Spelled(W, s) \in Seq(S)
<1>1. StandsFor(W, 0) = StandsFor(W, 0) /\ <<>> \in Seq(S)
  BY EmptySeq
<1>2. SpelledItems(W, s) \in Seq(Seq(S))
  BY ItemsTyped
<1>3. FlattenSeq(SpelledItems(W, s)) \in Seq(S)
  BY <1>1, <1>2, FlattenAppend
<1> QED
  BY <1>3 DEF Spelled, SpelledItems

LEMMA SpelledAppend ==
  ASSUME NEW D, NEW S, NEW W, Means(W, D, S), NEW s \in Seq(D), NEW e \in D
  PROVE  Spelled(W, Append(s, e)) = Spelled(W, s) \o StandsFor(W, e)
<1>1. SpelledItems(W, s) \in Seq(Seq(S))
  BY ItemsTyped
<1>2. StandsFor(W, e) \in Seq(S)
  BY DEF Means
<1>3. FlattenSeq(Append(SpelledItems(W, s), StandsFor(W, e))) = FlattenSeq(SpelledItems(W, s)) \o StandsFor(W, e)
  BY <1>1, <1>2, FlattenAppend
<1>4. SpelledItems(W, Append(s, e)) = Append(SpelledItems(W, s), StandsFor(W, e))
  BY ItemsAppend
<1>5. /\ Spelled(W, s) = FlattenSeq(SpelledItems(W, s))
      /\ Spelled(W, Append(s, e)) = FlattenSeq(SpelledItems(W, Append(s, e)))
  BY DEF Spelled, SpelledItems
<1> QED
  BY <1>3, <1>4, <1>5

(* Only what the items of the sequence stand for matters. *)
LEMMA SpelledAgree ==
  ASSUME NEW W, NEW V, NEW s, \A k \in DOMAIN s : StandsFor(W, s[k]) = StandsFor(V, s[k])
  PROVE  Spelled(W, s) = Spelled(V, s)
<1>1. [k \in DOMAIN s |-> StandsFor(W, s[k])] = [k \in DOMAIN s |-> StandsFor(V, s[k])]
  OBVIOUS
<1> QED
  BY <1>1 DEF Spelled

LEMMA SpelledConcat ==
  ASSUME NEW D, NEW S, NEW W, Means(W, D, S), NEW s \in Seq(D)
  PROVE  \A t \in Seq(D) : Spelled(W, s \o t) = Spelled(W, s) \o Spelled(W, t)
<1> DEFINE T == {t \in Seq(D) : Spelled(W, s \o t) = Spelled(W, s) \o Spelled(W, t)}
<1>1. <<>> \in T
  <2>1. s \o <<>> = s /\ Spelled(W, s) \o <<>> = Spelled(W, s)
    BY SpelledTyped, ConcatEmptySeq
  <2> QED
    BY <2>1, SpelledOfEmpty, EmptySeq
<1>2. ASSUME NEW t \in Seq(D) \cap T, NEW e \in D PROVE Append(t, e) \in T
  <2>1. t \in Seq(D) /\ Spelled(W, s \o t) = Spelled(W, s) \o Spelled(W, t)
    OBVIOUS
  <2> DEFINE st == s \o t
             x == StandsFor(W, e)
  <2>2. Append(t, e) \in Seq(D) /\ s \o Append(t, e) = Append(st, e)
    OBVIOUS
  <2>3. st \in Seq(D)
    BY <2>1, ConcatProperties
  <2> HIDE DEF st
  <2>4. Spelled(W, Append(st, e)) = Spelled(W, st) \o x
    BY <2>3, SpelledAppend
  <2>5. Spelled(W, Append(t, e)) = Spelled(W, t) \o x
    BY <2>1, SpelledAppend
  <2>6. Spelled(W, s) \in Seq(S) /\ Spelled(W, t) \in Seq(S) /\ x \in Seq(S)
    BY <2>1, SpelledTyped DEF Means
  <2>7. (Spelled(W, s) \o Spelled(W, t)) \o x = Spelled(W, s) \o (Spelled(W, t) \o x)
    BY <2>6, ConcatAssociative
  <2> QED
    BY <2>1, <2>2, <2>4, <2>5, <2>7 DEF st
<1> HIDE DEF T
<1>3. Seq(D) \subseteq T
  BY <1>1, <1>2, SequencesFromEmpty
<1> QED
  BY <1>3 DEF T

LEMMA SpelledOne ==
  ASSUME NEW D, NEW S, NEW W, Means(W, D, S), NEW e \in D
  PROVE  Spelled(W, <<e>>) = StandsFor(W, e)
<1>1. <<e>> = Append(<<>>, e) /\ <<>> \in Seq(D)
  OBVIOUS
<1>2. Spelled(W, Append(<<>>, e)) = Spelled(W, <<>>) \o StandsFor(W, e)
  BY <1>1, SpelledAppend
<1>3. StandsFor(W, e) \in Seq(S)
  BY DEF Means
<1> QED
  BY <1>1, <1>2, <1>3, SpelledOfEmpty, ConcatEmptySeq

LEMMA SpelledTwo ==
  ASSUME NEW D, NEW S, NEW W, Means(W, D, S), NEW s \in Seq(D), NEW t \in Seq(D)
  PROVE  Spelled(W, s \o t) = Spelled(W, s) \o Spelled(W, t)
BY SpelledConcat

LEMMA SpelledThree ==
  ASSUME NEW D, NEW S, NEW W, Means(W, D, S),
         NEW a \in Seq(D), NEW b \in Seq(D), NEW c \in Seq(D)
  PROVE  Spelled(W, (a \o c) \o b) = (Spelled(W, a) \o Spelled(W, c)) \o Spelled(W, b)
<1>1. Spelled(W, a \o c) = Spelled(W, a) \o Spelled(W, c)
  BY SpelledTwo
<1> DEFINE u == a \o c
<1>2. u \in Seq(D)
  BY ConcatProperties
<1> HIDE DEF u
<1>3. Spelled(W, u \o b) = Spelled(W, u) \o Spelled(W, b)
  BY <1>2, SpelledTwo
<1> QED
  BY <1>1, <1>3 DEF u

(* A part of a sequence may be replaced by one that is spelled the same. *)
LEMMA SpelledPart ==
  ASSUME NEW D, NEW S, NEW W, Means(W, D, S), NEW a \in Seq(D), NEW b \in Seq(D)
  PROVE  \A c, d \in Seq(D) : Spelled(W, c) = Spelled(W, d) =>
           Spelled(W, (a \o c) \o b) = Spelled(W, (a \o d) \o b)
<1>1. ASSUME NEW c \in Seq(D)
      PROVE  Spelled(W, (a \o c) \o b) = (Spelled(W, a) \o Spelled(W, c)) \o Spelled(W, b)
  BY SpelledThree
<1> QED
  BY <1>1, Zenon

(* Symbols stand for themselves. *)
LEMMA SpelledSelf ==
  ASSUME NEW D, NEW W, \A e \in D : StandsFor(W, e) = <<e>>
  PROVE  \A s \in Seq(D) : Spelled(W, s) = s
<1> DEFINE T == {s \in Seq(D) : Spelled(W, s) = s}
<1>1. <<>> \in T
  BY SpelledOfEmpty, EmptySeq
<1>3. Means(W, D, D)
  <2>1. \A e \in D : <<e>> \in Seq(D)
    OBVIOUS
  <2> QED
    BY <2>1 DEF Means
<1>4. ASSUME NEW s \in Seq(D) \cap T, NEW e \in D PROVE Append(s, e) \in T
  <2>1. s \in Seq(D) /\ Spelled(W, s) = s
    OBVIOUS
  <2>2. Append(s, e) \in Seq(D) /\ Append(s, e) = s \o <<e>>
    BY <2>1, AppendProperties, AppendIsConcat
  <2>3. Spelled(W, Append(s, e)) = Spelled(W, s) \o StandsFor(W, e)
    <3> s \in Seq(D)
      BY <2>1
    <3> HIDE DEF T
    <3> QED
      BY <1>3, SpelledAppend
  <2> QED
    BY <2>1, <2>2, <2>3
<1> HIDE DEF T
<1>5. Seq(D) \subseteq T
  BY <1>1, <1>4, SequencesFromEmpty
<1> QED
  BY <1>5 DEF T

LEMMA SpelledSymbols ==
  ASSUME NEW W
  PROVE  \A s \in Seq(Symbols) : Spelled(W, s) = s
<1>1. \A e \in Symbols : StandsFor(W, e) = <<e>>
  BY DEF StandsFor, IsToken
<1> QED
  BY <1>1, SpelledSelf

(* To spell out one level and then the rest is to spell out everything, if the
   entries of the first level spell out to what their tokens mean. *)
LEMMA SpelledTwice ==
  ASSUME NEW D, NEW S, NEW R, NEW W, NEW V,
         Means(W, D, S), Means(V, S, R), Means(V, D, R),
         \A e \in D : Spelled(V, StandsFor(W, e)) = StandsFor(V, e)
  PROVE  \A s \in Seq(D) : Spelled(V, Spelled(W, s)) = Spelled(V, s)
<1> DEFINE T == {s \in Seq(D) : Spelled(V, Spelled(W, s)) = Spelled(V, s)}
<1>1. <<>> \in T
  BY SpelledOfEmpty, EmptySeq
<1>2. ASSUME NEW s \in Seq(D) \cap T, NEW e \in D PROVE Append(s, e) \in T
  <2> DEFINE a == Spelled(W, s)
             x == StandsFor(W, e)
  <2>1. s \in Seq(D) /\ Spelled(V, a) = Spelled(V, s)
    OBVIOUS
  <2>2. a \in Seq(S) /\ x \in Seq(S)
    BY <2>1, SpelledTyped DEF Means
  <2>3. Spelled(W, Append(s, e)) = a \o x
    BY <2>1, SpelledAppend
  <2>4. Spelled(V, Append(s, e)) = Spelled(V, s) \o StandsFor(V, e)
    BY <2>1, SpelledAppend
  <2>5. Spelled(V, x) = StandsFor(V, e)
    OBVIOUS
  <2> HIDE DEF a, x
  <2>6. Spelled(V, a \o x) = Spelled(V, a) \o Spelled(V, x)
    BY <2>2, SpelledConcat
  <2>7. Append(s, e) \in Seq(D)
    BY <2>1, AppendProperties
  <2> QED
    BY <2>1, <2>3, <2>4, <2>5, <2>6, <2>7
<1> HIDE DEF T
<1>3. Seq(D) \subseteq T
  BY <1>1, <1>2, SequencesFromEmpty
<1> QED
  BY <1>3 DEF T

----------------------------------------------------------------------------
(* How often a symbol is in a sequence. *)

LEMMA CountIsNat ==
  ASSUME NEW S, NEW s \in Seq(S), NEW x
  PROVE  IsFiniteSet({k \in DOMAIN s : s[k] = x}) /\ Count(x, s) \in Nat
<1>1. Len(s) \in Nat /\ DOMAIN s = 1 .. Len(s)
  BY LenProperties
<1>2. IsFiniteSet(1 .. Len(s))
  BY <1>1, FS_Interval
<1>3. {k \in DOMAIN s : s[k] = x} \subseteq 1 .. Len(s)
  BY <1>1
<1>4. IsFiniteSet({k \in DOMAIN s : s[k] = x})
  BY <1>2, <1>3, FS_Subset
<1> QED
  BY <1>4, FS_CardinalityType DEF Count

LEMMA CountOfEmpty == \A x : Count(x, <<>>) = 0
<1> SUFFICES ASSUME NEW x PROVE Count(x, <<>>) = 0
  OBVIOUS
<1>1. {k \in DOMAIN <<>> : <<>>[k] = x} = {}
  OBVIOUS
<1> QED
  BY <1>1, FS_EmptySet DEF Count

LEMMA CountAppend ==
  ASSUME NEW S, NEW s \in Seq(S), NEW e \in S, NEW x
  PROVE  Count(x, Append(s, e)) = Count(x, s) + (IF e = x THEN 1 ELSE 0)
<1> DEFINE t == Append(s, e)
           A == {k \in DOMAIN s : s[k] = x}
           B == {k \in DOMAIN t : t[k] = x}
<1>1. Len(s) \in Nat /\ DOMAIN s = 1 .. Len(s)
  BY LenProperties
<1>2. t \in Seq(S) /\ Len(t) = Len(s) + 1
  BY AppendProperties
<1>3. t[Len(s) + 1] = e /\ \A k \in 1 .. Len(s) : t[k] = s[k]
  BY AppendProperties
<1> HIDE DEF t
<1>4. DOMAIN t = 1 .. Len(s) + 1
  BY <1>2, LenProperties
<1>5. IsFiniteSet(A) /\ Cardinality(A) = Count(x, s) /\ Count(x, s) \in Nat
  BY CountIsNat DEF Count
<1>6. Count(x, t) = Cardinality(B)
  BY DEF Count
<1>7. Len(s) + 1 \notin A
  BY <1>1
<1>8. CASE e = x
  <2>1. B = A \cup {Len(s) + 1}
    BY <1>1, <1>3, <1>4, <1>8
  <2>2. Cardinality(A \cup {Len(s) + 1}) = Cardinality(A) + 1
    BY <1>5, <1>7, FS_AddElement
  <2> HIDE DEF A, B
  <2> QED
    BY <1>5, <1>6, <1>8, <2>1, <2>2 DEF t
<1>9. CASE e # x
  <2>1. B = A
    BY <1>1, <1>3, <1>4, <1>9
  <2> HIDE DEF A, B
  <2> QED
    BY <1>5, <1>6, <1>9, <2>1 DEF t
<1> QED
  BY <1>8, <1>9

LEMMA CountConcat ==
  ASSUME NEW S, NEW s \in Seq(S), NEW x
  PROVE  \A t \in Seq(S) : Count(x, s \o t) = Count(x, s) + Count(x, t)
<1> DEFINE T == {t \in Seq(S) : Count(x, s \o t) = Count(x, s) + Count(x, t)}
<1>0. Count(x, s) \in Nat
  BY CountIsNat
<1>1. <<>> \in T
  <2>1. s \o <<>> = s /\ <<>> \in Seq(S)
    BY ConcatEmptySeq, EmptySeq
  <2> QED
    BY <1>0, <2>1, CountOfEmpty
<1>2. ASSUME NEW t \in Seq(S) \cap T, NEW e \in S PROVE Append(t, e) \in T
  <2> DEFINE st == s \o t
  <2>1. t \in Seq(S) /\ Count(x, st) = Count(x, s) + Count(x, t)
    OBVIOUS
  <2>2. Append(t, e) \in Seq(S) /\ s \o Append(t, e) = Append(st, e)
    OBVIOUS
  <2>3. st \in Seq(S) /\ t \in Seq(S)
    BY <2>1, ConcatProperties
  <2> HIDE DEF st, T
  <2>4. Count(x, Append(st, e)) = Count(x, st) + (IF e = x THEN 1 ELSE 0)
    BY <2>3, CountAppend
  <2>5. Count(x, Append(t, e)) = Count(x, t) + (IF e = x THEN 1 ELSE 0)
    BY <2>3, CountAppend
  <2>6. Count(x, t) \in Nat
    BY <2>3, CountIsNat
  <2>7. Count(x, s \o Append(t, e)) = Count(x, s) + Count(x, Append(t, e))
    BY <1>0, <2>1, <2>2, <2>4, <2>5, <2>6
  <2> QED
    BY <2>2, <2>7 DEF T
<1> HIDE DEF T
<1>3. Seq(S) \subseteq T
  BY <1>1, <1>2, SequencesFromEmpty
<1> QED
  BY <1>3 DEF T

LEMMA ReverseAppend ==
  ASSUME NEW S, NEW s \in Seq(S), NEW e \in S
  PROVE  Reverse(Append(s, e)) = <<e>> \o Reverse(s)
<1> DEFINE t == Append(s, e)
           r == Reverse(s)
           u == Reverse(t)
           n == Len(s)
<1>1. t \in Seq(S) /\ Len(t) = n + 1
  BY AppendProperties
<1>2. t[n + 1] = e /\ \A k \in 1 .. n : t[k] = s[k]
  BY AppendProperties
<1>3. n \in Nat
  BY LenProperties
<1> HIDE DEF t
<1>4. u \in Seq(S) /\ Len(u) = n + 1 /\ \A k \in 1 .. n + 1 : u[k] = t[(n + 1) - k + 1]
  BY <1>1, Reversed
<1>5. r \in Seq(S) /\ Len(r) = n /\ \A k \in 1 .. n : r[k] = s[n - k + 1]
  BY Reversed
<1> HIDE DEF r, u, n
<1>6. /\ <<e>> \o r \in Seq(S) /\ Len(<<e>> \o r) = 1 + n
      /\ \A k \in 1 .. 1 + n : (<<e>> \o r)[k] = IF k <= 1 THEN <<e>>[k] ELSE r[k - 1]
  <2>1. <<e>> \in Seq(S) /\ Len(<<e>>) = 1
    OBVIOUS
  <2> QED
    BY <1>5, <2>1, ConcatProperties
<1>7. ASSUME NEW k \in 1 .. n + 1 PROVE u[k] = (<<e>> \o r)[k]
  <2>1. CASE k = 1
    BY <1>2, <1>3, <1>4, <1>6, <2>1
  <2>2. CASE k # 1
    <3>1. /\ k - 1 \in 1 .. n /\ n - (k - 1) + 1 \in 1 .. n /\ ~(k <= 1)
          /\ (n + 1) - k + 1 = n - (k - 1) + 1 /\ k \in 1 .. 1 + n
      BY <1>3, <2>2
    <3>2. u[k] = s[n - (k - 1) + 1]
      BY <1>2, <1>4, <3>1
    <3>3. (<<e>> \o r)[k] = r[k - 1]
      BY <1>6, <3>1
    <3>4. r[k - 1] = s[n - (k - 1) + 1]
      BY <1>5, <3>1
    <3> QED
      BY <3>2, <3>3, <3>4
  <2> QED
    BY <2>1, <2>2
<1>8. Len(u) = Len(<<e>> \o r)
  BY <1>3, <1>4, <1>6
<1>9. u = <<e>> \o r
  BY <1>4, <1>6, <1>7, <1>8, SeqEqual
<1> QED
  BY <1>9 DEF r, u, t

(* The order of the items is nothing to how often a symbol is spelled. *)
LEMMA CountReverse ==
  ASSUME NEW D, NEW S, NEW W, Means(W, D, S), NEW x
  PROVE  \A s \in Seq(D) : Count(x, Spelled(W, Reverse(s))) = Count(x, Spelled(W, s))
<1> DEFINE T == {s \in Seq(D) : Count(x, Spelled(W, Reverse(s))) = Count(x, Spelled(W, s))}
<1>1. <<>> \in T
  <2>1. Reverse(<<>>) = <<>>
    BY DEF Reverse
  <2> QED
    BY <2>1, EmptySeq
<1>2. ASSUME NEW s \in Seq(D) \cap T, NEW e \in D PROVE Append(s, e) \in T
  <2> DEFINE r == Reverse(s)
             y == StandsFor(W, e)
  <2>1. Count(x, Spelled(W, r)) = Count(x, Spelled(W, s))
    OBVIOUS
  <2>2. s \in Seq(D)
    OBVIOUS
  <2>3. r \in Seq(D) /\ <<e>> \in Seq(D) /\ Append(s, e) \in Seq(D)
    BY <2>2, Reversed
  <2> HIDE DEF T
  <2>4. Spelled(W, <<e>>) = y
    BY SpelledOne
  <2>5. Reverse(Append(s, e)) = <<e>> \o r
    BY <2>2, ReverseAppend
  <2> HIDE DEF r
  <2>6. Spelled(W, <<e>> \o r) = y \o Spelled(W, r)
    <3> DEFINE c == <<e>>
    <3>0. c \in Seq(D)
      BY <2>3
    <3> HIDE DEF c
    <3>1. \A q \in Seq(D) : Spelled(W, c \o q) = Spelled(W, c) \o Spelled(W, q)
      BY <3>0, SpelledConcat
    <3> USE DEF c
    <3> QED
      BY <2>3, <2>4, <3>1
  <2>7. Spelled(W, Append(s, e)) = Spelled(W, s) \o y
    BY <2>2, SpelledAppend
  <2>8. y \in Seq(S) /\ Spelled(W, r) \in Seq(S) /\ Spelled(W, s) \in Seq(S)
    BY <2>2, <2>3, SpelledTyped DEF Means
  <2> HIDE DEF y
  <2>9. /\ Count(x, y \o Spelled(W, r)) = Count(x, y) + Count(x, Spelled(W, r))
        /\ Count(x, Spelled(W, s) \o y) = Count(x, Spelled(W, s)) + Count(x, y)
    BY <2>8, CountConcat
  <2>10. Count(x, y) \in Nat /\ Count(x, Spelled(W, s)) \in Nat
    BY <2>8, CountIsNat
  <2>11. Count(x, Spelled(W, Reverse(Append(s, e)))) = Count(x, Spelled(W, Append(s, e)))
    <3>1. Count(x, Spelled(W, Reverse(Append(s, e)))) = Count(x, y \o Spelled(W, r))
      BY <2>5, <2>6, Zenon
    <3>2. Count(x, Spelled(W, Append(s, e))) = Count(x, Spelled(W, s) \o y)
      BY <2>7, Zenon
    <3>3. Count(x, y) + Count(x, Spelled(W, r)) = Count(x, Spelled(W, s)) + Count(x, y)
      BY <2>1, <2>10
    <3> QED
      BY <2>9, <3>1, <3>2, <3>3, Zenon
  <2> QED
    BY <2>3, <2>11 DEF T
<1> HIDE DEF T
<1>3. Seq(D) \subseteq T
  BY <1>1, <1>2, SequencesFromEmpty
<1> QED
  BY <1>3 DEF T

----------------------------------------------------------------------------
(* What the tokens of a table mean: an entry holds only tokens made before its
   own, so that there is one meaning, built up from the first entry. *)

Backward(tab, m) == \A n \in 1 .. m : tab[n] \in Seq(Symbols \cup 0 .. n - 2)

MeaningUpTo(W, tab, m) ==
  W = [n \in 0 .. m |-> IF n = 0 THEN <<>> ELSE Spelled(W, tab[n])]

LEMMA MeaningAt ==
  ASSUME NEW W, NEW tab, NEW m \in Nat, MeaningUpTo(W, tab, m), NEW n \in 1 .. m
  PROVE  W[n] = Spelled(W, tab[n])
<1> DEFINE G == [i \in 0 .. m |-> IF i = 0 THEN <<>> ELSE Spelled(W, tab[i])]
<1>1. W = G
  BY DEF MeaningUpTo
<1>2. n \in 0 .. m /\ n # 0
  OBVIOUS
<1>3. G[n] = Spelled(W, tab[n])
  BY <1>2
<1> HIDE DEF G
<1> QED
  BY <1>1, <1>3

(* What is in an entry. *)
LEMMA EntryTokens ==
  ASSUME NEW n \in Nat, NEW s \in Seq(Symbols \cup 0 .. n - 2), NEW k \in DOMAIN s, IsToken(s[k])
  PROVE  s[k] \in 0 .. n - 2 /\ s[k] + 1 \in 1 .. n - 1
<1>1. s[k] \in Symbols \cup 0 .. n - 2
  BY LenProperties
<1>2. s[k] \in 0 .. n - 2
  BY <1>1 DEF IsToken
<1> QED
  BY <1>2

LEMMA EntryAgree ==
  ASSUME NEW n \in Nat, NEW s \in Seq(Symbols \cup 0 .. n - 2), NEW W, NEW V, SameUpTo(n - 1, W, V)
  PROVE  Spelled(W, s) = Spelled(V, s)
<1>1. ASSUME NEW k \in DOMAIN s PROVE StandsFor(W, s[k]) = StandsFor(V, s[k])
  <2>1. CASE IsToken(s[k])
    <3>1. s[k] + 1 \in 1 .. n - 1
      BY <2>1, EntryTokens
    <3> QED
      BY <2>1, <3>1 DEF StandsFor, SameUpTo
  <2>2. CASE ~IsToken(s[k])
    BY <2>2 DEF StandsFor
  <2> QED
    BY <2>1, <2>2
<1> QED
  BY <1>1, SpelledAgree

LEMMA MeaningMore ==
  ASSUME NEW tab, NEW m \in Nat, Backward(tab, m + 1), NEW g, MeaningUpTo(g, tab, m)
  PROVE  \E h : MeaningUpTo(h, tab, m + 1)
<1> DEFINE h == [n \in 0 .. m + 1 |-> IF n = 0 THEN <<>> ELSE Spelled(g, tab[n])]
<1>1. \A n \in 1 .. m : n \in 0 .. m + 1 /\ n # 0 /\ h[n] = Spelled(g, tab[n])
  OBVIOUS
<1>2. \A n \in 1 .. m : g[n] = Spelled(g, tab[n])
  BY MeaningAt
<1> HIDE DEF h
<1>3. \A n \in 1 .. m : g[n] = h[n]
  BY <1>1, <1>2
<1>4. ASSUME NEW n \in 0 .. m + 1, n # 0 PROVE Spelled(g, tab[n]) = Spelled(h, tab[n])
  <2>1. n \in Nat /\ n \in 1 .. m + 1
    BY <1>4
  <2>2. tab[n] \in Seq(Symbols \cup 0 .. n - 2)
    BY <2>1 DEF Backward
  <2>3. SameUpTo(n - 1, g, h)
    <3>1. \A i \in 1 .. n - 1 : i \in 1 .. m
      BY <2>1
    <3> QED
      BY <1>3, <3>1 DEF SameUpTo
  <2> QED
    BY <2>1, <2>2, <2>3, EntryAgree
<1>5. h = [n \in 0 .. m + 1 |-> IF n = 0 THEN <<>> ELSE Spelled(h, tab[n])]
  BY <1>4, Zenon DEF h
<1> QED
  BY <1>5 DEF MeaningUpTo

LEMMA MeaningAll ==
  ASSUME NEW tab, NEW m \in Nat, Backward(tab, m)
  PROVE  \E W : MeaningUpTo(W, tab, m)
<1> DEFINE N == {n \in Nat : Backward(tab, n) => \E W : MeaningUpTo(W, tab, n)}
<1>1. 0 \in N
  <2>1. [n \in 0 .. 0 |-> <<>>] = [n \in 0 .. 0 |-> IF n = 0 THEN <<>> ELSE Spelled([i \in 0 .. 0 |-> <<>>], tab[n])]
    OBVIOUS
  <2>2. MeaningUpTo([n \in 0 .. 0 |-> <<>>], tab, 0)
    BY <2>1 DEF MeaningUpTo
  <2> QED
    BY <2>2
<1>2. ASSUME NEW n \in N PROVE n + 1 \in N
  <2>1. n \in Nat /\ n + 1 \in Nat
    OBVIOUS
  <2>2. ASSUME Backward(tab, n + 1) PROVE \E W : MeaningUpTo(W, tab, n + 1)
    <3>1. \A i \in 1 .. n : i \in 1 .. n + 1
      BY <2>1
    <3>2. Backward(tab, n)
      BY <2>2, <3>1 DEF Backward
    <3>3. PICK g : MeaningUpTo(g, tab, n)
      BY <3>2
    <3> QED
      BY <2>1, <2>2, <3>3, MeaningMore
  <2> QED
    BY <2>1, <2>2
<1>3. N \in SUBSET Nat
  OBVIOUS
<1> HIDE DEF N
<1>4. N = Nat
  BY <1>1, <1>2, <1>3, NumbersFrom0
<1> QED
  BY <1>4 DEF N

LEMMA EntryMeans ==
  ASSUME NEW n \in Nat, NEW W, \A i \in 1 .. n - 1 : W[i] \in Seq(Symbols)
  PROVE  Means(W, Symbols \cup 0 .. n - 2, Symbols)
<1> SUFFICES ASSUME NEW e \in Symbols \cup 0 .. n - 2 PROVE StandsFor(W, e) \in Seq(Symbols)
  BY DEF Means
<1>1. CASE IsToken(e)
  <2>1. e \in 0 .. n - 2
    BY <1>1 DEF IsToken
  <2>2. e + 1 \in 1 .. n - 1
    BY <2>1
  <2> QED
    BY <1>1, <2>2 DEF StandsFor
<1>2. CASE ~IsToken(e)
  <2>1. e \in Symbols
    BY <1>2 DEF IsToken
  <2>2. <<e>> \in Seq(Symbols)
    BY <2>1
  <2> QED
    BY <1>2, <2>2 DEF StandsFor
<1> QED
  BY <1>1, <1>2

LEMMA MeaningTyped ==
  ASSUME NEW tab, NEW m \in Nat, Backward(tab, m), NEW W, MeaningUpTo(W, tab, m)
  PROVE  \A n \in 1 .. m : W[n] \in Seq(Symbols)
<1> DEFINE N == {n \in Nat : \A i \in 1 .. n : i <= m => W[i] \in Seq(Symbols)}
<1>1. 0 \in N /\ N \in SUBSET Nat
  OBVIOUS
<1>2. ASSUME NEW n \in N PROVE n + 1 \in N
  <2>1. n \in Nat /\ n + 1 \in Nat /\ \A i \in 1 .. n : i <= m => W[i] \in Seq(Symbols)
    OBVIOUS
  <2>2. ASSUME n + 1 <= m PROVE W[n + 1] \in Seq(Symbols)
    <3>1. n + 1 \in 1 .. m /\ (n + 1) - 1 = n
      BY <2>1, <2>2
    <3>2. tab[n + 1] \in Seq(Symbols \cup 0 .. (n + 1) - 2)
      BY <3>1 DEF Backward
    <3>3. \A i \in 1 .. (n + 1) - 1 : W[i] \in Seq(Symbols)
      BY <2>1, <2>2
    <3>4. Means(W, Symbols \cup 0 .. (n + 1) - 2, Symbols)
      BY <2>1, <3>3, EntryMeans
    <3>5. Spelled(W, tab[n + 1]) \in Seq(Symbols)
      BY <3>2, <3>4, SpelledTyped
    <3>6. W[n + 1] = Spelled(W, tab[n + 1])
      BY <3>1, MeaningAt
    <3> QED
      BY <3>5, <3>6
  <2>3. ASSUME NEW i \in 1 .. n + 1, i <= m PROVE W[i] \in Seq(Symbols)
    <3>1. i \in 1 .. n \/ i = n + 1
      BY <2>1
    <3> QED
      BY <2>1, <2>2, <2>3, <3>1
  <2> QED
    BY <2>1, <2>3
<1> HIDE DEF N
<1>3. N = Nat
  BY <1>1, <1>2, NumbersFrom0
<1> QED
  BY <1>3 DEF N

(* A longer table leaves what its first tokens mean alone. *)
LEMMA MeaningSame ==
  ASSUME NEW tab, NEW m \in Nat, Backward(tab, m), NEW W, MeaningUpTo(W, tab, m),
         NEW r, NEW l \in Nat, m <= l, NEW V, MeaningUpTo(V, r, l), SameUpTo(m, tab, r)
  PROVE  SameUpTo(m, W, V)
<1> DEFINE N == {n \in Nat : \A i \in 1 .. n : i <= m => W[i] = V[i]}
<1>1. 0 \in N /\ N \in SUBSET Nat
  OBVIOUS
<1>2. ASSUME NEW n \in N PROVE n + 1 \in N
  <2>1. n \in Nat /\ n + 1 \in Nat /\ \A i \in 1 .. n : i <= m => W[i] = V[i]
    OBVIOUS
  <2>2. ASSUME n + 1 <= m PROVE W[n + 1] = V[n + 1]
    <3>1. n + 1 \in 1 .. m /\ n + 1 \in 1 .. l
      BY <2>1, <2>2
    <3>2. tab[n + 1] \in Seq(Symbols \cup 0 .. (n + 1) - 2)
      BY <3>1 DEF Backward
    <3>3. SameUpTo((n + 1) - 1, W, V)
      BY <2>1, <2>2 DEF SameUpTo
    <3>4. Spelled(W, tab[n + 1]) = Spelled(V, tab[n + 1])
      <4> DEFINE k == n + 1
                 entry == tab[k]
      <4>1. k \in Nat /\ entry \in Seq(Symbols \cup 0 .. k - 2)
        BY <2>1, <3>2
      <4>2. SameUpTo(k - 1, W, V)
        BY <3>3
      <4> HIDE DEF k, entry
      <4>3. Spelled(W, entry) = Spelled(V, entry)
        BY <4>1, <4>2, EntryAgree
      <4> QED
        BY <4>3 DEF k, entry
    <3>5. W[n + 1] = Spelled(W, tab[n + 1])
      BY <3>1, MeaningAt
    <3>6. V[n + 1] = Spelled(V, r[n + 1])
      BY <3>1, MeaningAt
    <3>7. r[n + 1] = tab[n + 1]
      BY <3>1 DEF SameUpTo
    <3> QED
      BY <3>4, <3>5, <3>6, <3>7
  <2>3. ASSUME NEW i \in 1 .. n + 1, i <= m PROVE W[i] = V[i]
    <3>1. i \in 1 .. n \/ i = n + 1
      BY <2>1
    <3> QED
      BY <2>1, <2>2, <2>3, <3>1
  <2> QED
    BY <2>1, <2>3
<1> HIDE DEF N
<1>3. N = Nat
  BY <1>1, <1>2, NumbersFrom0
<1> QED
  BY <1>3 DEF N, SameUpTo

MeaningOf(tab) == CHOOSE W : MeaningUpTo(W, tab, Len(tab))

LEMMA MeaningOfTable ==
  ASSUME NEW tab, Len(tab) \in Nat, Backward(tab, Len(tab))
  PROVE  MeaningUpTo(MeaningOf(tab), tab, Len(tab))
BY MeaningAll DEF MeaningOf

LEMMA MeaningIs == Meaning = MeaningOf(table)
BY DEF Meaning, MeaningOf, MeaningUpTo

LEMMA MeaningIsNext == Meaning' = MeaningOf(table')
BY DEF Meaning, MeaningOf, MeaningUpTo, Spelled, StandsFor, IsToken, Symbols

(* Symbols, and the tokens of a table of that length. *)
Items(n) == Symbols \cup 0 .. n - 1

LEMMA MeaningMeans ==
  ASSUME NEW tab, NEW K \in Nat, K = Len(tab), Backward(tab, K), NEW W, MeaningUpTo(W, tab, K)
  PROVE  Means(W, Items(K), Symbols)
<1>1. \A i \in 1 .. K : W[i] \in Seq(Symbols)
  BY MeaningTyped
<1>2. K + 1 \in Nat /\ (K + 1) - 1 = K /\ (K + 1) - 2 = K - 1
  OBVIOUS
<1>3. Means(W, Symbols \cup 0 .. (K + 1) - 2, Symbols)
  <2> DEFINE n == K + 1
  <2>1. n \in Nat /\ \A i \in 1 .. n - 1 : W[i] \in Seq(Symbols)
    BY <1>1, <1>2
  <2> HIDE DEF n
  <2>2. Means(W, Symbols \cup 0 .. n - 2, Symbols)
    BY <2>1, EntryMeans
  <2> QED
    BY <2>2 DEF n
<1> QED
  BY <1>2, <1>3 DEF Items

LEMMA TableMeans ==
  ASSUME NEW tab, NEW K \in Nat, K = Len(tab), Backward(tab, K)
  PROVE  Means(tab, Items(K), Items(K))
<1> SUFFICES ASSUME NEW e \in Items(K) PROVE StandsFor(tab, e) \in Seq(Items(K))
  BY DEF Means
<1>1. CASE IsToken(e)
  <2>1. e \in 0 .. K - 1
    BY <1>1 DEF IsToken, Items
  <2>2. e + 1 \in 1 .. K
    BY <2>1
  <2>3. tab[e + 1] \in Seq(Symbols \cup 0 .. (e + 1) - 2)
    BY <2>2 DEF Backward
  <2>4. Symbols \cup 0 .. (e + 1) - 2 \subseteq Items(K)
    BY <2>1 DEF Items
  <2>5. tab[e + 1] \in Seq(Items(K))
    BY <2>3, <2>4, SeqMonotonic
  <2> QED
    BY <1>1, <2>5 DEF StandsFor
<1>2. CASE ~IsToken(e)
  <2>1. <<e>> \in Seq(Items(K))
    OBVIOUS
  <2> QED
    BY <1>2, <2>1 DEF StandsFor
<1> QED
  BY <1>1, <1>2

(* What restore makes of a sequence means what the sequence means. *)
LEMMA RestoredMeans ==
  ASSUME NEW tab, NEW K \in Nat, K = Len(tab), Backward(tab, K), NEW W, MeaningUpTo(W, tab, K)
  PROVE  \A s \in Seq(Items(K)) : Spelled(W, Spelled(tab, s)) = Spelled(W, s)
<1>1. Means(W, Items(K), Symbols) /\ Means(tab, Items(K), Items(K))
  BY MeaningMeans, TableMeans
<1>2. ASSUME NEW e \in Items(K) PROVE Spelled(W, StandsFor(tab, e)) = StandsFor(W, e)
  <2>1. CASE IsToken(e)
    <3>1. e \in 0 .. K - 1
      BY <2>1 DEF IsToken, Items
    <3>2. e + 1 \in 1 .. K
      BY <3>1
    <3>3. W[e + 1] = Spelled(W, tab[e + 1])
      BY <3>2, MeaningAt
    <3> QED
      BY <2>1, <3>3 DEF StandsFor
  <2>2. CASE ~IsToken(e)
    <3>1. e \in Symbols
      BY <2>2 DEF IsToken
    <3>2. <<e>> \in Seq(Symbols)
      BY <3>1
    <3>3. Spelled(W, <<e>>) = <<e>>
      BY <3>2, SpelledSymbols
    <3> QED
      BY <2>2, <3>3 DEF StandsFor
  <2> QED
    BY <2>1, <2>2
<1> QED
  BY <1>1, <1>2, SpelledTwice

(* A table, and what its tokens mean; one that is longer by an entry, and what those mean. *)
Longer(K, tab, W, r, V, match) ==
  /\ K = Len(tab) /\ Backward(tab, K) /\ MeaningUpTo(W, tab, K)
  /\ Len(r) = K + 1 /\ Backward(r, K + 1) /\ MeaningUpTo(V, r, K + 1)
  /\ SameUpTo(K, tab, r)
  /\ r[K + 1] = match

(* A token in the place of a match means what the match meant. *)
InPlaceOf(K, V, match, W, a, b) == Spelled(V, (a \o <<K>>) \o b) = Spelled(W, (a \o match) \o b)

LEMMA SplicedMeans ==
  ASSUME NEW K \in Nat, NEW tab, NEW W, NEW r, NEW V,
         NEW a \in Seq(Items(K)), NEW b \in Seq(Items(K)), NEW match \in Seq(Items(K)),
         Longer(K, tab, W, r, V, match)
  PROVE  InPlaceOf(K, V, match, W, a, b)
<1> DEFINE D == Items(K + 1)
           am == a \o match
           t == am \o b
           c == <<K>>
<1>0. /\ K = Len(tab) /\ Backward(tab, K) /\ MeaningUpTo(W, tab, K)
      /\ Len(r) = K + 1 /\ Backward(r, K + 1) /\ MeaningUpTo(V, r, K + 1)
      /\ SameUpTo(K, tab, r)
      /\ r[K + 1] = match
  BY DEF Longer
<1>1. K + 1 \in Nat /\ K <= K + 1 /\ K + 1 \in 1 .. K + 1
  OBVIOUS
<1>2. SameUpTo(K, W, V)
  BY <1>0, <1>1, MeaningSame, Zenon
<1>3. Means(V, D, Symbols)
  BY <1>0, <1>1, MeaningMeans
<1>4. Items(K) \subseteq D /\ K \in D
  BY DEF Items
<1>5. a \in Seq(D) /\ b \in Seq(D) /\ match \in Seq(D) /\ c \in Seq(D)
  BY <1>4, SeqMonotonic
<1>6. am \in Seq(Items(K)) /\ t \in Seq(Items(K))
  BY ConcatProperties
<1>8. Spelled(V, c) = Spelled(V, match)
  <2>1. V[K + 1] = Spelled(V, match)
    BY <1>0, <1>1, MeaningAt
  <2>2. StandsFor(V, K) = V[K + 1]
    BY NumbersAreTokens DEF StandsFor
  <2>3. Spelled(V, <<K>>) = StandsFor(V, K)
    BY <1>3, <1>4, SpelledOne
  <2> QED
    BY <2>1, <2>2, <2>3
<1> HIDE DEF c, D, am
<1>10. Spelled(V, (a \o c) \o b) = Spelled(V, t)
  BY <1>3, <1>5, <1>8, SpelledPart DEF am
<1> HIDE DEF t
<1>11. Spelled(W, t) = Spelled(V, t)
  <2> DEFINE n == K + 1
  <2>1. n \in Nat /\ n - 1 = K /\ n - 2 = K - 1
    OBVIOUS
  <2>2. t \in Seq(Symbols \cup 0 .. n - 2) /\ SameUpTo(n - 1, W, V)
    BY <1>2, <1>6, <2>1 DEF Items
  <2> HIDE DEF n
  <2> QED
    BY <2>1, <2>2, EntryAgree
<1> QED
  BY <1>10, <1>11 DEF InPlaceOf, c, t, am

----------------------------------------------------------------------------
(* The text means the source until the translator has had it; then it has every
   symbol as often, and what is restored of it is what it stands for, one level. *)
MeaningInv ==
  /\ phase \in {"protect", "translate"} =>
       out = <<>> /\ faithful = TRUE /\ Expanded(text) = source
  /\ phase \in {"restore", "done"} =>
       /\ out = Spelled(table, SubSeq(text, 1, pos - 1))
       /\ faithful => Expanded(text) = source
       /\ \A s \in Symbols : Count(s, Expanded(text)) = Count(s, source)
  /\ phase = "done" => pos = Len(text) + 1

LEMMA TableFacts ==
  ASSUME TokenInv
  PROVE  /\ Len(table) \in Nat /\ Backward(table, Len(table))
         /\ MeaningUpTo(Meaning, table, Len(table))
         /\ text \in Seq(Items(Len(table))) /\ out \in Seq(Items(Len(table)))
         /\ source \in Seq(Symbols)
         /\ Len(text) \in Nat /\ pos \in 1 .. Len(text) + 1
<1>1. Len(table) \in Nat /\ Len(text) \in Nat /\ pos \in 1 .. Len(text) + 1
  BY LenProperties DEF TokenInv, TypeOK
<1>2. Backward(table, Len(table))
  BY DEF TokenInv, Known, Backward
<1>3. MeaningUpTo(Meaning, table, Len(table))
  BY <1>1, <1>2, MeaningOfTable, MeaningIs
<1>4. text \in Seq(Items(Len(table))) /\ out \in Seq(Items(Len(table)))
  BY DEF TokenInv, Known, Items, Tokens
<1>5. source \in Seq(Symbols)
  BY PlaceholderAssumption DEF TokenInv, TypeOK
<1> QED
  BY <1>1, <1>2, <1>3, <1>4, <1>5

LEMMA InitMeaning == Init => MeaningInv
<1> SUFFICES ASSUME Init PROVE MeaningInv
  OBVIOUS
<1>1. text = source /\ source \in Seq(Symbols) /\ phase = "protect" /\ out = <<>> /\ faithful = TRUE
  BY PlaceholderAssumption DEF Init
<1>2. Expanded(text) = source
  BY <1>1, SpelledSymbols DEF Expanded
<1> QED
  BY <1>1, <1>2 DEF MeaningInv

(* Steps that leave the text and the table alone leave what it means alone. *)
LEMMA MeaningKept ==
  ASSUME UNCHANGED <<text, table>>
  PROVE  Expanded(text)' = Expanded(text)
<1>1. Meaning' = Meaning
  BY MeaningIs, MeaningIsNext
<1> QED
  BY <1>1 DEF Expanded, Spelled, StandsFor, IsToken, Symbols

LEMMA ReplaceMeaning ==
  ASSUME TokenInv, TokenInv', Replace, MeaningInv
  PROVE  MeaningInv'
<1> DEFINE K == Len(table)
           N == Len(text)
<1>1. /\ phase = "protect" /\ phase' = "protect" /\ pos \in 1 .. N
      /\ UNCHANGED <<source, faithful, out>>
      /\ out = <<>> /\ faithful = TRUE /\ Expanded(text) = source
  BY TableFacts DEF MeaningInv, Replace
<1>2. PICK e \in Stops(pos) :
        /\ text' = SubSeq(text, 1, pos - 1) \o <<K>> \o SubSeq(text, e + 1, N)
        /\ table' = Append(table, SubSeq(text, pos, e))
  BY DEF Replace, Key
<1> DEFINE a == SubSeq(text, 1, pos - 1)
           b == SubSeq(text, e + 1, N)
           match == SubSeq(text, pos, e)
<1>3. K \in Nat /\ N \in Nat /\ text \in Seq(Items(K))
  BY TableFacts
<1>4. e \in pos .. N
  BY <1>1, <1>3, StopsAhead DEF TokenInv, TypeOK
<1>5. a \in Seq(Items(K)) /\ b \in Seq(Items(K)) /\ match \in Seq(Items(K)) /\ text = (a \o match) \o b
  <2> HIDE DEF K
  <2>1. \A k \in 1 .. N : text[k] \in Items(K)
    BY <1>3, LenProperties
  <2>2. a \in Seq(Items(K)) /\ b \in Seq(Items(K)) /\ match \in Seq(Items(K))
    <3>1. \A k \in 1 .. pos - 1 : text[k] \in Items(K)
      BY <1>1, <1>3, <2>1
    <3>2. \A k \in e + 1 .. N : text[k] \in Items(K)
      BY <1>1, <1>3, <1>4, <2>1
    <3>3. \A k \in pos .. e : text[k] \in Items(K)
      BY <1>1, <1>3, <1>4, <2>1
    <3>4. pos \in Int /\ e \in Int /\ N \in Int /\ 1 \in Int /\ pos - 1 \in Int /\ e + 1 \in Int
      BY <1>1, <1>3, <1>4
    <3> QED
      BY <3>1, <3>2, <3>3, <3>4, SubSeqProperties
  <2>3. a \o match = SubSeq(text, 1, e)
    <3>1. 1 \in 1 .. N + 1 /\ pos - 1 \in 1 - 1 .. N /\ e \in pos - 1 .. N /\ (pos - 1) + 1 = pos
      BY <1>1, <1>3, <1>4
    <3>2. SubSeq(text, 1, pos - 1) \o SubSeq(text, (pos - 1) + 1, e) = SubSeq(text, 1, e)
      BY <1>3, <3>1, ConcatAdjacentSubSeq
    <3> QED
      BY <3>1, <3>2
  <2>4. SubSeq(text, 1, e) \o b = text
    <3>1. 1 \in 1 .. N + 1 /\ e \in 1 - 1 .. N /\ N \in e .. N
      BY <1>1, <1>3, <1>4
    <3>2. SubSeq(text, 1, e) \o SubSeq(text, e + 1, N) = SubSeq(text, 1, N)
      BY <1>3, <3>1, ConcatAdjacentSubSeq
    <3>3. SubSeq(text, 1, N) = text
      BY <1>3, SubSeqFull
    <3> QED
      BY <3>2, <3>3
  <2> QED
    BY <2>2, <2>3, <2>4
<1>6. /\ Len(table') = K + 1 /\ table'[K + 1] = match /\ SameUpTo(K, table, table')
      /\ Backward(table', K + 1) /\ MeaningUpTo(Meaning', table', K + 1)
  <2> DEFINE S == Seq(Symbols \cup 0 .. K) \cup {match}
  <2>1. table \in Seq(S)
    <3>1. table \in Seq(Seq(Symbols \cup 0 .. K))
      BY DEF TokenInv, TypeOK
    <3> QED
      BY <3>1, SeqMonotonic
  <2>2. match \in S
    OBVIOUS
  <2>3. table' = Append(table, match)
    BY <1>2
  <2> HIDE DEF S, match
  <2>4. /\ Len(table') = K + 1 /\ table'[K + 1] = match
        /\ \A k \in 1 .. K : table'[k] = table[k]
    BY <2>1, <2>2, <2>3, AppendProperties
  <2>5. Backward(table', K + 1)
    BY <2>4 DEF TokenInv, Known, Backward, Symbols
  <2>6. MeaningUpTo(MeaningOf(table'), table', Len(table'))
    BY <1>3, <2>4, <2>5, MeaningOfTable
  <2> QED
    BY <2>4, <2>5, <2>6, MeaningIsNext DEF SameUpTo
<1> HIDE DEF a, b, match
<1>7. text' = (a \o <<K>>) \o b
  BY <1>2 DEF a, b
<1> HIDE DEF K
<1>8. Spelled(Meaning', (a \o <<K>>) \o b) = Spelled(Meaning, (a \o match) \o b)
  <2> DEFINE tab == table
             r == table'
             W == Meaning
             V == Meaning'
  <2>1. K = Len(tab) /\ Backward(tab, K) /\ MeaningUpTo(W, tab, K)
    BY TableFacts DEF K
  <2>2. Len(r) = K + 1 /\ Backward(r, K + 1) /\ MeaningUpTo(V, r, K + 1) /\ SameUpTo(K, tab, r)
        /\ r[K + 1] = match
    BY <1>6
  <2>3. Longer(K, tab, W, r, V, match)
    BY <2>1, <2>2 DEF Longer
  <2> HIDE DEF tab, r, W, V
  <2>4. InPlaceOf(K, V, match, W, a, b)
    <3>1. K \in Nat
      BY <1>3
    <3>2. a \in Seq(Items(K))
      BY <1>5
    <3>3. b \in Seq(Items(K))
      BY <1>5
    <3>4. match \in Seq(Items(K))
      BY <1>5
    <3> QED
      BY <2>3, <3>1, <3>2, <3>3, <3>4, SplicedMeans, Zenon
  <2> QED
    BY <2>4 DEF InPlaceOf, V, W
<1>9. Expanded(text)' = Expanded(text)
  <2>1. Expanded(text)' = Spelled(Meaning', text')
    BY DEF Expanded, Spelled, StandsFor, IsToken, Symbols
  <2>2. Expanded(text) = Spelled(Meaning, text)
    BY DEF Expanded
  <2> QED
    BY <1>5, <1>7, <1>8, <2>1, <2>2
<1> QED
  BY <1>1, <1>9 DEF MeaningInv

LEMMA PassOverMeaning ==
  ASSUME TokenInv, PassOver, MeaningInv
  PROVE  MeaningInv'
<1>1. /\ phase = "protect" /\ phase' = phase
      /\ UNCHANGED <<source, text, table, faithful, out>>
  BY DEF PassOver
<1>2. Expanded(text)' = Expanded(text)
  BY <1>1, MeaningKept
<1> QED
  BY <1>1, <1>2 DEF MeaningInv

LEMMA NextPatternMeaning ==
  ASSUME TokenInv, NextPattern, MeaningInv
  PROVE  MeaningInv'
<1>1. /\ phase = "protect" /\ phase' \in {"protect", "translate"}
      /\ UNCHANGED <<source, text, table, faithful, out>>
  BY DEF NextPattern
<1>2. Expanded(text)' = Expanded(text)
  BY <1>1, MeaningKept
<1> QED
  BY <1>1, <1>2 DEF MeaningInv

(* Another order of the items has every symbol as often. *)
LEMMA TranslateMeaning ==
  ASSUME TokenInv, Translate, MeaningInv
  PROVE  MeaningInv'
<1>1. /\ phase = "translate" /\ phase' = "restore" /\ pos' = 1
      /\ UNCHANGED <<source, table, out>>
      /\ out = <<>> /\ faithful = TRUE /\ Expanded(text) = source
  BY DEF Translate, TokenInv, Known, MeaningInv
<1>2. Meaning' = Meaning
  BY <1>1, MeaningIs, MeaningIsNext
<1>3. Expanded(text)' = Spelled(Meaning, text')
  BY <1>2 DEF Expanded, Spelled, StandsFor, IsToken, Symbols
<1>4. Expanded(text) = Spelled(Meaning, text)
  BY DEF Expanded
<1>5. out' = Spelled(table, SubSeq(text, 1, pos - 1))'
  <2>1. SubSeq(text', 1, pos' - 1) = <<>>
    BY <1>1, SubSeqEmpty
  <2>2. Spelled(table', SubSeq(text', 1, pos' - 1)) = <<>>
    BY <2>1, SpelledOfEmpty
  <2>3. Spelled(table, SubSeq(text, 1, pos - 1))' = Spelled(table', SubSeq(text', 1, pos' - 1))
    BY DEF Spelled, StandsFor, IsToken, Symbols
  <2> QED
    BY <1>1, <2>2, <2>3
<1>6. /\ faithful' => Expanded(text)' = source'
      /\ \A s \in Symbols : Count(s, Expanded(text)') = Count(s, source')
  <2>1. CASE text' = text
    BY <1>1, <1>3, <1>4, <2>1
  <2>2. CASE text' = Reverse(text) /\ faithful' = (Reverse(text) = text)
    <3>1. faithful' => Expanded(text)' = source'
      BY <1>1, <1>3, <1>4, <2>2
    <3>2. ASSUME NEW s \in Symbols PROVE Count(s, Expanded(text)') = Count(s, source')
      <4> DEFINE D == Items(Len(table))
                 W == Meaning
      <4>1. text \in Seq(D)
        BY TableFacts
      <4>2. Means(W, D, Symbols)
        BY TableFacts, MeaningMeans
      <4> HIDE DEF D, W
      <4>3. Count(s, Spelled(W, Reverse(text))) = Count(s, Spelled(W, text))
        BY <4>1, <4>2, CountReverse
      <4> QED
        BY <1>1, <1>3, <1>4, <2>2, <4>3 DEF W
    <3> QED
      BY <3>1, <3>2
  <2> QED
    BY <2>1, <2>2 DEF Translate
<1>7. \A s \in Symbols : Count(s, Expanded(text))' = Count(s, Expanded(text)') /\ Count(s, source)' = Count(s, source')
  BY DEF Count
<1>8. Symbols' = Symbols
  BY DEF Symbols
<1> QED
  BY <1>1, <1>5, <1>6, <1>7, <1>8 DEF MeaningInv

(* The next item of the text is restored to what it stands for. *)
LEMMA RestoreMeaning ==
  ASSUME TokenInv, Restore, MeaningInv
  PROVE  MeaningInv'
<1>1. /\ phase = "restore" /\ phase' = "restore" /\ pos' = pos + 1 /\ pos <= Len(text)
      /\ UNCHANGED <<source, text, table, faithful>>
      /\ out' = out \o StandsFor(table, text[pos])
      /\ out = Spelled(table, SubSeq(text, 1, pos - 1))
      /\ faithful => Expanded(text) = source
      /\ \A s \in Symbols : Count(s, Expanded(text)) = Count(s, source)
  BY DEF Restore, Entry, StandsFor, MeaningInv
<1>2. Expanded(text)' = Expanded(text)
  BY <1>1, MeaningKept
<1> DEFINE D == Items(Len(table))
           a == SubSeq(text, 1, pos - 1)
           x == text[pos]
<1>3. text \in Seq(D) /\ pos \in 1 .. Len(text) /\ Len(text) \in Nat
  BY <1>1, TableFacts
<1>4. Means(table, D, D)
  BY TableFacts, TableMeans
<1> HIDE DEF D
<1>5. \A k \in 1 .. Len(text) : text[k] \in D
  BY <1>3, LenProperties
<1>6. x \in D /\ a \in Seq(D)
  <2>1. \A k \in 1 .. pos - 1 : text[k] \in D
    BY <1>3, <1>5
  <2> QED
    BY <1>3, <1>5, <2>1, SubSeqProperties
<1>7. SubSeq(text, 1, pos) = Append(a, x)
  <2>1. 1 \in 1 .. Len(text) /\ pos \in 1 .. Len(text)
    BY <1>3
  <2>2. SubSeq(text, 1, pos) = a \o <<x>>
    BY <1>3, <2>1, SubSeqRecursiveSecond
  <2> QED
    BY <1>6, <2>2, AppendIsConcat
<1> HIDE DEF a, x
<1>8. Spelled(table, Append(a, x)) = Spelled(table, a) \o StandsFor(table, x)
  BY <1>4, <1>6, SpelledAppend
<1>9. out' = Spelled(table, SubSeq(text, 1, pos - 1))'
  <2>1. pos' - 1 = pos
    BY <1>1, <1>3
  <2>2. Spelled(table, SubSeq(text, 1, pos - 1))' = Spelled(table', SubSeq(text', 1, pos' - 1))
    BY DEF Spelled, StandsFor, IsToken, Symbols
  <2>3. Spelled(table, SubSeq(text, 1, pos - 1))' = Spelled(table, SubSeq(text, 1, pos))
    BY <1>1, <2>1, <2>2
  <2> QED
    BY <1>1, <1>7, <1>8, <2>3 DEF a, x
<1>10. \A s \in Symbols : Count(s, Expanded(text))' = Count(s, Expanded(text)') /\ Count(s, source)' = Count(s, source')
  BY DEF Count
<1>11. Symbols' = Symbols
  BY DEF Symbols
<1> QED
  BY <1>1, <1>2, <1>9, <1>10, <1>11 DEF MeaningInv

LEMMA FinishMeaning ==
  ASSUME TokenInv, Finish, MeaningInv
  PROVE  MeaningInv'
<1>1. /\ phase = "restore" /\ phase' = "done" /\ pos = Len(text) + 1
      /\ UNCHANGED <<source, text, table, pos, faithful, out>>
  BY DEF Finish
<1>2. Expanded(text)' = Expanded(text)
  BY <1>1, MeaningKept
<1>3. Spelled(table, SubSeq(text, 1, pos - 1))' = Spelled(table, SubSeq(text, 1, pos - 1))
  BY <1>1 DEF Spelled, StandsFor, IsToken, Symbols
<1>4. \A s \in Symbols : Count(s, Expanded(text))' = Count(s, Expanded(text)') /\ Count(s, source)' = Count(s, source')
  BY DEF Count
<1>5. Symbols' = Symbols
  BY DEF Symbols
<1> QED
  BY <1>1, <1>2, <1>3, <1>4, <1>5 DEF MeaningInv

LEMMA StutterMeaning ==
  ASSUME UNCHANGED vars, MeaningInv
  PROVE  MeaningInv'
<1>1. UNCHANGED <<source, text, table, pass, pos, phase, faithful, out>>
  BY DEF vars
<1>2. Expanded(text)' = Expanded(text)
  BY <1>1, MeaningKept
<1>3. Spelled(table, SubSeq(text, 1, pos - 1))' = Spelled(table, SubSeq(text, 1, pos - 1))
  BY <1>1 DEF Spelled, StandsFor, IsToken, Symbols
<1>4. \A s \in Symbols : Count(s, Expanded(text))' = Count(s, Expanded(text)') /\ Count(s, source)' = Count(s, source')
  BY DEF Count
<1>5. Symbols' = Symbols
  BY DEF Symbols
<1> QED
  BY <1>1, <1>2, <1>3, <1>4, <1>5 DEF MeaningInv

LEMMA NextMeaning == TokenInv /\ TokenInv' /\ MeaningInv /\ [Next]_vars => MeaningInv'
BY ReplaceMeaning, PassOverMeaning, NextPatternMeaning, TranslateMeaning, RestoreMeaning,
   FinishMeaning, StutterMeaning DEF Next

LEMMA MeaningInvariant == Spec => []MeaningInv
<1>1. Spec => []TokenInv
  BY TokenInvariant
<1> QED
  BY <1>1, InitMeaning, NextMeaning, PTL DEF Spec

(* protect loses nothing of a text of any length: with each token replaced again
   and again by what it stands for, the text is the source. *)
THEOREM SourceKept == Spec => []ProtectLossless
<1>1. MeaningInv => ProtectLossless
  BY DEF MeaningInv, ProtectLossless
<1> QED
  BY <1>1, MeaningInvariant, PTL

LEMMA OutWhenDone ==
  ASSUME TokenInv, MeaningInv, phase = "done"
  PROVE  out = Spelled(table, text)
<1>1. pos - 1 = Len(text)
  BY TableFacts DEF MeaningInv
<1>2. SubSeq(text, 1, Len(text)) = text
  BY TableFacts, SubSeqFull
<1> QED
  BY <1>1, <1>2 DEF MeaningInv

(* In whatever order the items of a text of any length come back, what restore
   leaves stands for every symbol of the source, as often as it was there. *)
THEOREM SymbolsKept == Spec => []NothingDropped
<1>1. ASSUME TokenInv, MeaningInv PROVE NothingDropped
  <2> SUFFICES ASSUME phase = "done", NEW s \in Symbols
               PROVE  Count(s, Expanded(out)) = Count(s, source)
    BY DEF NothingDropped
  <2>1. Spelled(Meaning, Spelled(table, text)) = Spelled(Meaning, text)
    <3> DEFINE K == Len(table)
               W == Meaning
    <3>1. K \in Nat /\ Backward(table, K) /\ MeaningUpTo(W, table, K) /\ text \in Seq(Items(K)) /\ K = Len(table)
      BY <1>1, TableFacts
    <3> HIDE DEF K, W
    <3>2. \A t \in Seq(Items(K)) : Spelled(W, Spelled(table, t)) = Spelled(W, t)
      BY <3>1, RestoredMeans
    <3> QED
      BY <3>1, <3>2 DEF W
  <2>2. Expanded(out) = Expanded(text)
    BY <1>1, <2>1, OutWhenDone DEF Expanded
  <2> QED
    BY <1>1, <2>2 DEF MeaningInv
<1> QED
  BY <1>1, TokenInvariant, MeaningInvariant, PTL
=============================================================================
