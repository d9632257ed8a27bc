--------------------- MODULE TranslationStatus_proofs ---------------------
(***************************************************************************)
(* Proofs about TranslationStatus, for any finite set of sources, any of   *)
(* them moving or translated, and any number of syncs and changes.         *)
(***************************************************************************)
EXTENDS TranslationStatus, TLAPS, FiniteSetTheorems, SequenceTheorems

(* What the run holds at each command. *)
Stages ==
  /\ pc \in Fields \cup {"idle", "find"} => sources = <<>> /\ coverage = <<>> /\ total = 0
  /\ pc \in Fields \cup {"idle"} => found = {}
  /\ pc \in {"test", "total", "truncate", "print"} => sources \in Sorted(found)
  /\ pc \in {"total", "truncate", "print"} => Len(coverage) = Len(sources)
  /\ pc \in {"truncate", "print"} => total = Len(sources)

(* The lines of the coverage file are those of the sources, in their order. *)
InStep ==
  \A k \in 1 .. Len(coverage) :
    /\ coverage[k].rel = sources[k]
    /\ coverage[k].section = Section(sources[k])

(* What the observer has seen bounds the tree, and what the run has noted of it. *)
Bounds ==
  pc # "idle" =>
    /\ docs \subseteq seen.docs /\ seen.allDocs \subseteq docs
    /\ vi \subseteq seen.vi /\ seen.allVi \subseteq vi
    /\ upstream \in seen.upstream
    /\ found \subseteq seen.docs

Witnessed ==
  /\ pc = "find" => seen.allDocs \subseteq found \cup unseen
  /\ pc \in {"test", "total", "truncate", "print"} => seen.allDocs \subseteq found
  /\ pc \in {"commit", "synced_at"} => fields["ref"] \in seen.upstream
  /\ pc = "synced_at" => fields["commit"] \in seen.upstream
  /\ pc \in {"find", "test", "total", "truncate", "print"} =>
       \A k \in Fields : fields[k] \in seen.upstream
  /\ pc # "idle" =>
       \A k \in 1 .. Len(coverage) :
         /\ coverage[k].flag = 1 => coverage[k].rel \in seen.vi
         /\ coverage[k].rel \in seen.allVi => coverage[k].flag = 1

(* A list in the order of the sources, with the section of each. *)
InOrder(list) ==
  /\ \A k \in 1 .. Len(list) : list[k].section = Section(list[k].rel)
  /\ \A j, k \in 1 .. Len(list) : j < k => Before(list[j].rel, list[k].rel)

Whole ==
  report.state = "whole" =>
    /\ report.list \in Seq(Entries)
    /\ InOrder(report.list)
    /\ Len(report.list) = report.total
    /\ report.translated = Cardinality(Marked(report.list))
    /\ report.table = Table(report.list)

StatusInv == TypeOK /\ Stages /\ InStep /\ Bounds /\ Witnessed /\ Whole

----------------------------------------------------------------------------
(* Sections. *)

LEMMA Least ==
  ASSUME NEW T, T \subseteq Nat, T # {}
  PROVE  \E m \in T : \A k \in T : m <= k
<1>1. PICK m \in T : \A k \in T : ~(<<k, m>> \in OpToRel(<, Nat))
  BY WFMin, NatLessThanWellFounded
<1>2. ASSUME NEW k \in T PROVE m <= k
  <2>1. k \in Nat /\ m \in Nat
    OBVIOUS
  <2>2. ~(k < m)
    BY <1>1, <2>1 DEF OpToRel
  <2> QED
    BY <2>1, <2>2
<1> QED
  BY <1>2

LEMMA Bytes ==
  ASSUME NEW x \in Seq(1 .. 255)
  PROVE  /\ Len(x) \in Nat
         /\ \A k \in 1 .. Len(x) : x[k] \in 1 .. 255 /\ x[k] \in Nat
<1>1. Len(x) \in Nat
  OBVIOUS
<1>2. ASSUME NEW k \in 1 .. Len(x)
      PROVE  x[k] \in 1 .. 255 /\ x[k] \in Nat
  <2>1. x[k] \in 1 .. 255
    BY LenProperties
  <2>2. \A y \in 1 .. 255 : y \in Nat
    OBVIOUS
  <2> QED
    BY <2>1, <2>2
<1> QED
  BY <1>1, <1>2

(* The section of a path with a slash is what stands before the first. *)
LEMMA SectionOf ==
  ASSUME NEW x \in Seq(1 .. 255), NEW m \in 1 .. Len(x), x[m] = Slash,
         \A j \in 1 .. m - 1 : x[j] # Slash
  PROVE  Section(x) = SubSeq(x, 1, m - 1)
<1> DEFINE slashes == {k \in 1 .. Len(x) : x[k] = Slash}
<1>1. Len(x) \in Nat /\ m \in slashes
  OBVIOUS
<1>2. \A j \in slashes : m <= j
  BY <1>1
<1>3. (CHOOSE k \in slashes : \A j \in slashes : k <= j) = m
  <2>1. \A k \in slashes : (\A j \in slashes : k <= j) => k = m
    BY <1>1, <1>2
  <2> QED
    BY <1>1, <1>2, <2>1
<1> QED
  BY <1>1, <1>3 DEF Section

LEMMA FirstSlash ==
  ASSUME NEW x \in Seq(1 .. 255), Section(x) # Root
  PROVE  \E m \in 1 .. Len(x) : x[m] = Slash /\ \A j \in 1 .. m - 1 : x[j] # Slash
<1> DEFINE slashes == {k \in 1 .. Len(x) : x[k] = Slash}
<1>1. slashes # {} /\ slashes \subseteq Nat /\ Len(x) \in Nat
  BY DEF Section
<1>2. PICK m \in slashes : \A k \in slashes : m <= k
  BY <1>1, Least
<1>3. \A j \in 1 .. m - 1 : x[j] # Slash
  BY <1>1, <1>2
<1> QED
  BY <1>2, <1>3

LEMMA SectionTyped == ASSUME NEW x \in Seq(1 .. 255) PROVE Section(x) \in Seq(1 .. 255)
<1>1. CASE Section(x) = Root
  BY <1>1 DEF Root
<1>2. CASE Section(x) # Root
  <2>1. PICK m \in 1 .. Len(x) : x[m] = Slash /\ \A j \in 1 .. m - 1 : x[j] # Slash
    BY <1>2, FirstSlash
  <2>2. Len(x) \in Nat /\ \A j \in 1 .. m - 1 : x[j] \in 1 .. 255
    BY Bytes
  <2>3. SubSeq(x, 1, m - 1) \in Seq(1 .. 255)
    BY <2>2, SubSeqProperties
  <2> QED
    BY <2>1, <2>3, SectionOf
<1> QED
  BY <1>1, <1>2

(* In the order of their bytes, a path between two of one section is of it too:
   "a/" is a prefix of all three. *)
LEMMA BetweenInSection ==
  ASSUME NEW a \in Seq(1 .. 255), NEW b \in Seq(1 .. 255), NEW c \in Seq(1 .. 255),
         Before(a, b), Before(b, c), Section(a) = Section(c), Section(a) # Root
  PROVE  Section(b) = Section(a)
<1>1. PICK m \in 1 .. Len(a) : a[m] = Slash /\ \A j \in 1 .. m - 1 : a[j] # Slash
  BY FirstSlash
<1>2. PICK n \in 1 .. Len(c) : c[n] = Slash /\ \A j \in 1 .. n - 1 : c[j] # Slash
  BY FirstSlash
<1>3. /\ Len(a) \in Nat /\ Len(b) \in Nat /\ Len(c) \in Nat
      /\ \A k \in 1 .. Len(a) : a[k] \in Nat
      /\ \A k \in 1 .. Len(b) : b[k] \in Nat
      /\ \A k \in 1 .. Len(c) : c[k] \in Nat
      /\ m \in Nat /\ n \in Nat /\ 1 <= m /\ 1 <= n
  BY Bytes
<1>4. Section(a) = SubSeq(a, 1, m - 1) /\ Section(c) = SubSeq(c, 1, n - 1)
  BY <1>1, <1>2, SectionOf
<1>5. /\ Len(SubSeq(a, 1, m - 1)) = m - 1
      /\ \A k \in 1 .. m - 1 : SubSeq(a, 1, m - 1)[k] = a[k]
  BY <1>3, SubSeqProperties
<1>6. /\ Len(SubSeq(c, 1, n - 1)) = n - 1
      /\ \A k \in 1 .. n - 1 : SubSeq(c, 1, n - 1)[k] = c[k]
  BY <1>3, SubSeqProperties
<1>7. m = n /\ \A k \in 1 .. m : a[k] = c[k]
  <2>1. m = n
    <3>1. Len(Section(a)) = m - 1 /\ Len(Section(a)) = n - 1
      BY <1>4, <1>5, <1>6
    <3> QED
      BY <1>3, <3>1
  <2>2. \A k \in 1 .. m - 1 : a[k] = c[k]
    BY <1>4, <1>5, <1>6, <2>1
  <2>3. a[m] = c[m]
    BY <1>1, <1>2, <2>1
  <2> QED
    BY <1>3, <2>1, <2>2, <2>3
<1>8. m <= Len(b) /\ \A k \in 1 .. m : b[k] = a[k]
  <2>1. CASE Len(a) < Len(b) /\ \A j \in 1 .. Len(a) : a[j] = b[j]
    BY <1>3, <2>1
  <2>2. ASSUME NEW k \in 1 .. Len(a), k <= Len(b), a[k] < b[k],
               \A j \in 1 .. k - 1 : a[j] = b[j]
        PROVE  m < k
    <3> SUFFICES ASSUME k <= m PROVE FALSE
      BY <1>3
    <3>1. c[k] = a[k] /\ k \in 1 .. Len(c) /\ k \in 1 .. Len(b)
      BY <1>3, <1>7, <2>2
    <3>2. CASE Len(b) < Len(c) /\ \A j \in 1 .. Len(b) : b[j] = c[j]
      BY <1>3, <2>2, <3>1, <3>2
    <3>3. ASSUME NEW l \in 1 .. Len(b), l <= Len(c), b[l] < c[l],
                 \A j \in 1 .. l - 1 : b[j] = c[j]
          PROVE  FALSE
      <4>1. CASE l < k
        <5>1. a[l] = b[l] /\ c[l] = a[l]
          BY <1>3, <1>7, <2>2, <4>1
        <5> QED
          BY <1>3, <3>3, <5>1
      <4>2. CASE l = k
        BY <1>3, <2>2, <3>1, <3>3, <4>2
      <4>3. CASE k < l
        <5>1. b[k] = c[k]
          BY <1>3, <3>3, <4>3
        <5> QED
          BY <1>3, <2>2, <3>1, <5>1
      <4> QED
        BY <4>1, <4>2, <4>3, <1>3
    <3> QED
      BY <3>2, <3>3 DEF Before
  <2>3. CASE \E k \in 1 .. Len(a) :
               k <= Len(b) /\ a[k] < b[k] /\ \A j \in 1 .. k - 1 : a[j] = b[j]
    <3>1. PICK k \in 1 .. Len(a) :
            k <= Len(b) /\ a[k] < b[k] /\ \A j \in 1 .. k - 1 : a[j] = b[j]
      BY <2>3
    <3>2. m < k
      BY <2>2, <3>1
    <3> QED
      BY <1>3, <3>1, <3>2
  <2> QED
    BY <2>1, <2>3 DEF Before
<1>9. Section(b) = SubSeq(b, 1, m - 1)
  <2>1. m \in 1 .. Len(b) /\ b[m] = Slash
    BY <1>1, <1>3, <1>8
  <2>2. ASSUME NEW j \in 1 .. m - 1 PROVE b[j] # Slash
    <3>1. j \in 1 .. m
      BY <1>3
    <3> QED
      BY <1>1, <1>8, <3>1
  <2> QED
    BY <2>1, <2>2, SectionOf
<1>10. SubSeq(b, 1, m - 1) = SubSeq(a, 1, m - 1)
  <2>1. \A k \in 1 .. m - 1 : b[k] \in 1 .. 255 /\ a[k] \in 1 .. 255
    <3>1. \A k \in 1 .. m - 1 : k \in 1 .. Len(a) /\ k \in 1 .. m
      BY <1>3
    <3>2. \A k \in 1 .. m - 1 : a[k] \in 1 .. 255
      BY <3>1, Bytes
    <3> QED
      BY <1>8, <3>1, <3>2
  <2>2. /\ SubSeq(b, 1, m - 1) \in Seq(1 .. 255)
        /\ Len(SubSeq(b, 1, m - 1)) = m - 1
        /\ \A k \in 1 .. m - 1 : SubSeq(b, 1, m - 1)[k] = b[k]
    BY <1>3, <2>1, SubSeqProperties
  <2>3. SubSeq(a, 1, m - 1) \in Seq(1 .. 255)
    BY <2>1, SubSeqProperties
  <2> QED
    BY <1>5, <1>8, <2>2, <2>3, SeqEqual
<1> QED
  BY <1>4, <1>9, <1>10

(* No path comes before itself. *)
LEMMA BeforeIrreflexive == ASSUME NEW a \in Seq(1 .. 255) PROVE ~Before(a, a)
<1>1. Len(a) \in Nat /\ \A k \in 1 .. Len(a) : a[k] \in Nat
  BY Bytes
<1> QED
  BY <1>1 DEF Before

----------------------------------------------------------------------------
(* The operators on lists. *)

LEMMA SortedSet ==
  ASSUME NEW S, IsFiniteSet(S), NEW s \in Sorted(S)
  PROVE  /\ s \in Seq(S)
         /\ Len(s) = Cardinality(S)
         /\ S = {s[k] : k \in 1 .. Len(s)}
         /\ \A j, k \in 1 .. Len(s) : j < k => Before(s[j], s[k])
<1>1. Cardinality(S) \in Nat
  BY FS_CardinalityType
<1>2. s \in [1 .. Cardinality(S) -> S] /\ Range(s) = S
  BY DEF Sorted
<1>3. s \in Seq(S) /\ Len(s) = Cardinality(S) /\ DOMAIN s = 1 .. Len(s)
  BY <1>1, <1>2
<1>4. S = {s[k] : k \in 1 .. Len(s)}
  BY <1>2, <1>3 DEF Range
<1> QED
  BY <1>3, <1>4 DEF Sorted

LEMMA MarkedFinite ==
  ASSUME NEW list \in Seq(Entries)
  PROVE  /\ IsFiniteSet(Marked(list))
         /\ Cardinality(Marked(list)) \in 0 .. Len(list)
<1>1. Len(list) \in Nat
  OBVIOUS
<1>2. IsFiniteSet(1 .. Len(list)) /\ Cardinality(1 .. Len(list)) = Len(list)
  BY <1>1, FS_Interval
<1>3. Marked(list) \in SUBSET (1 .. Len(list))
  BY DEF Marked
<1>4. /\ IsFiniteSet(Marked(list))
      /\ Cardinality(Marked(list)) <= Len(list)
  BY <1>2, <1>3, FS_Subset
<1>5. Cardinality(Marked(list)) \in Nat
  BY <1>4, FS_CardinalityType
<1> QED
  BY <1>1, <1>4, <1>5

(* In a list in order, no path is listed twice. *)
LEMMA ListedOnce ==
  ASSUME NEW list \in Seq(Entries), InOrder(list)
  PROVE  Cardinality(Listed(list)) = Len(list)
<1> DEFINE f == [k \in 1 .. Len(list) |-> list[k].rel]
<1>1. Len(list) \in Nat
  OBVIOUS
<1>2. IsFiniteSet(1 .. Len(list)) /\ Cardinality(1 .. Len(list)) = Len(list)
  BY <1>1, FS_Interval
<1>3. \A k \in 1 .. Len(list) : list[k].rel \in Seq(1 .. 255)
  <2>1. \A k \in 1 .. Len(list) : list[k] \in Entries
    OBVIOUS
  <2>2. \A k \in 1 .. Len(list) : list[k].rel \in Sources
    BY <2>1 DEF Entries
  <2> QED
    BY <2>2, StatusAssumption
<1>4. f \in [1 .. Len(list) -> Listed(list)]
  BY DEF Listed
<1>5. ASSUME NEW j \in 1 .. Len(list), NEW k \in 1 .. Len(list), j < k
      PROVE  list[j].rel # list[k].rel
  BY <1>3, <1>5, BeforeIrreflexive DEF InOrder
<1>6. f \in Injection(1 .. Len(list), Listed(list))
  <2>1. ASSUME NEW j \in 1 .. Len(list), NEW k \in 1 .. Len(list), f[j] = f[k]
        PROVE  j = k
    <3>1. list[j].rel = list[k].rel
      BY <2>1
    <3>2. ~(j < k) /\ ~(k < j)
      BY <1>5, <3>1
    <3> QED
      BY <1>1, <3>2
  <2> QED
    BY <1>4, <2>1 DEF Injection, IsInjective
<1>7. f \in Surjection(1 .. Len(list), Listed(list))
  <2>1. \A t \in Listed(list) : \E k \in 1 .. Len(list) : f[k] = t
    BY DEF Listed
  <2> QED
    BY <1>4, <2>1 DEF Surjection
<1>8. ExistsBijection(1 .. Len(list), Listed(list))
  BY <1>6, <1>7 DEF ExistsBijection, Bijection
<1> QED
  BY <1>2, <1>8, FS_Bijection

(* In a list in order, a section other than the top has one heading. *)
LEMMA OneHeading ==
  ASSUME NEW list \in Seq(Entries), InOrder(list),
         NEW j \in Headings(list), NEW k \in Headings(list), j < k,
         list[j].section = list[k].section
  PROVE  list[j].section = Root
<1> SUFFICES ASSUME list[j].section # Root PROVE FALSE
  OBVIOUS
<1>1. /\ Len(list) \in Nat
      /\ j \in 1 .. Len(list) /\ k \in 1 .. Len(list) /\ k - 1 \in 1 .. Len(list)
      /\ list[k].section # list[k - 1].section
  BY DEF Headings
<1>2. \A l \in 1 .. Len(list) : list[l].rel \in Seq(1 .. 255)
  <2>1. \A l \in 1 .. Len(list) : list[l] \in Entries
    OBVIOUS
  <2>2. \A l \in 1 .. Len(list) : list[l].rel \in Sources
    BY <2>1 DEF Entries
  <2> QED
    BY <2>2, StatusAssumption
<1>3. \A l \in 1 .. Len(list) : list[l].section = Section(list[l].rel)
  BY DEF InOrder
<1>4. j # k - 1
  BY <1>1
<1>5. j < k - 1 /\ k - 1 < k
  BY <1>1, <1>4
<1>6. Before(list[j].rel, list[k - 1].rel) /\ Before(list[k - 1].rel, list[k].rel)
  BY <1>1, <1>5 DEF InOrder
<1>7. Section(list[k - 1].rel) = Section(list[j].rel)
  BY <1>1, <1>2, <1>3, <1>6, BetweenInSection
<1> QED
  BY <1>1, <1>3, <1>7

----------------------------------------------------------------------------
(* The invariant. *)

(* Once every source is tested, the coverage file lists what find printed. *)
LEMMA FinishedCounts ==
  ASSUME StatusInv, pc \in {"total", "truncate", "print"}
  PROVE  /\ coverage \in Seq(Entries)
         /\ InOrder(coverage)
         /\ Listed(coverage) = found
         /\ Len(coverage) = Cardinality(found)
         /\ Len(sources) = Cardinality(found)
<1>1. IsFiniteSet(found)
  BY StatusAssumption, FS_Subset DEF StatusInv, TypeOK
<1>2. sources \in Sorted(found) /\ Len(coverage) = Len(sources)
  BY DEF StatusInv, Stages
<1>3. /\ Len(sources) = Cardinality(found)
      /\ found = {sources[k] : k \in 1 .. Len(sources)}
      /\ \A j, k \in 1 .. Len(sources) : j < k => Before(sources[j], sources[k])
  BY <1>1, <1>2, SortedSet
<1>4. /\ \A k \in 1 .. Len(coverage) : coverage[k].rel = sources[k]
      /\ \A k \in 1 .. Len(coverage) : coverage[k].section = Section(coverage[k].rel)
  BY DEF StatusInv, InStep
<1>5. InOrder(coverage)
  BY <1>2, <1>3, <1>4 DEF InOrder
<1>6. Listed(coverage) = found
  BY <1>2, <1>3, <1>4 DEF Listed
<1> QED
  BY <1>2, <1>3, <1>5, <1>6 DEF StatusInv, TypeOK

LEMMA InitInv == Init => StatusInv
<1> SUFFICES ASSUME Init PROVE StatusInv
  OBVIOUS
<1>1. IsFiniteSet(Sources) /\ Cardinality(Sources) \in Nat
  BY StatusAssumption, FS_CardinalityType
<1>2. sources = <<>> /\ coverage = <<>> /\ Len(sources) = 0 /\ Len(coverage) = 0
  BY DEF Init
<1>3. TypeOK
  <2>1. fields \in [Fields -> 0 .. Syncs]
    BY StatusAssumption DEF Init, NoFields, Fallback
  <2>2. report.state = "absent" /\ report.translated = 0 /\ report.total = 0
    BY DEF Init, NoReport
  <2>3. seen.changes = 0
    BY DEF Init, NothingSeen
  <2> QED
    BY <1>1, <1>2, <2>1, <2>2, <2>3, StatusAssumption DEF Init, TypeOK, Labels
<1>4. Stages /\ InStep /\ Bounds /\ Witnessed
  BY <1>2 DEF Init, Stages, InStep, Bounds, Witnessed, Fields
<1>5. Whole
  BY DEF Init, Whole, NoReport
<1> QED
  BY <1>3, <1>4, <1>5 DEF StatusInv

LEMMA StartInv == StatusInv /\ Start => StatusInv'
<1> SUFFICES ASSUME StatusInv, Start PROVE StatusInv'
  OBVIOUS
<1>0. /\ pc = "idle" /\ pc' = "ref"
      /\ UNCHANGED <<docs, vi, upstream, unseen, found, fields, sources, coverage, total,
                     report>>
      /\ seen'.changes = 0
      /\ seen'.docs = docs /\ seen'.allDocs = docs
      /\ seen'.vi = vi /\ seen'.allVi = vi /\ seen'.upstream = {upstream}
  BY DEF Start, tree, run
<1>1. sources = <<>> /\ coverage = <<>> /\ total = 0 /\ found = {} /\ Len(coverage) = 0
  BY <1>0 DEF StatusInv, Stages
<1>2. TypeOK'
  BY <1>0, StatusAssumption DEF StatusInv, TypeOK, Labels
<1>3. Stages' /\ InStep'
  BY <1>0, <1>1 DEF Stages, InStep, Fields
<1>4. Bounds' /\ Witnessed'
  BY <1>0, <1>1 DEF Bounds, Witnessed
<1>5. Whole'
  BY <1>0 DEF StatusInv, Whole, InOrder
<1> QED
  BY <1>2, <1>3, <1>4, <1>5 DEF StatusInv

LEMMA ReadFieldInv == StatusInv /\ ReadField => StatusInv'
<1> SUFFICES ASSUME StatusInv, ReadField PROVE StatusInv'
  OBVIOUS
<1>0. /\ pc \in Fields
      /\ UNCHANGED <<docs, vi, upstream, found, sources, coverage, total, report, seen>>
      /\ fields' = [fields EXCEPT ![pc] = upstream]
      /\ unseen' = IF pc = "synced_at" THEN Sources ELSE unseen
  BY DEF ReadField, tree
<1>1. sources = <<>> /\ coverage = <<>> /\ total = 0 /\ found = {} /\ Len(coverage) = 0
  BY <1>0 DEF StatusInv, Stages
<1>2. /\ pc = "ref" => pc' = "commit"
      /\ pc = "commit" => pc' = "synced_at"
      /\ pc = "synced_at" => pc' = "find"
  BY DEF ReadField, AfterField
<1>3. TypeOK'
  <2>1. fields' \in [Fields -> 0 .. Syncs]
    BY <1>0 DEF StatusInv, TypeOK
  <2> QED
    BY <1>0, <1>2, <2>1 DEF StatusInv, TypeOK, Labels, Fields
<1>4. Stages' /\ InStep'
  BY <1>0, <1>1, <1>2 DEF Stages, InStep, Fields
<1>5. Bounds'
  BY <1>0 DEF StatusInv, Bounds, Fields
<1>6. Witnessed'
  <2>1. upstream \in seen.upstream /\ seen.allDocs \subseteq Sources
    BY <1>0 DEF StatusInv, Bounds, TypeOK, Fields
  <2>2. fields \in [Fields -> 0 .. Syncs]
    BY DEF StatusInv, TypeOK
  <2>3. fields'[pc] = upstream /\ \A k \in Fields \ {pc} : fields'[k] = fields[k]
    BY <1>0, <2>2
  <2> QED
    BY <1>0, <1>1, <1>2, <2>1, <2>3 DEF StatusInv, Witnessed, Fields
<1>7. Whole'
  BY <1>0 DEF StatusInv, Whole, InOrder
<1> QED
  BY <1>3, <1>4, <1>5, <1>6, <1>7 DEF StatusInv

LEMMA FindInv == ASSUME NEW rel \in Sources, StatusInv, Find(rel) PROVE StatusInv'
<1>0. /\ pc = "find" /\ rel \in unseen
      /\ unseen' = unseen \ {rel}
      /\ found' = IF rel \in docs THEN found \cup {rel} ELSE found
      /\ UNCHANGED <<docs, vi, upstream, pc, fields, sources, coverage, total, report, seen>>
  BY DEF Find, tree
<1>1. TypeOK'
  BY <1>0 DEF StatusInv, TypeOK
<1>2. Stages' /\ InStep'
  BY <1>0 DEF StatusInv, Stages, InStep, Fields
<1>3. Bounds'
  BY <1>0 DEF StatusInv, Bounds
<1>4. Witnessed'
  BY <1>0 DEF StatusInv, Bounds, Witnessed
<1>5. Whole'
  BY <1>0 DEF StatusInv, Whole, InOrder
<1> QED
  BY <1>1, <1>2, <1>3, <1>4, <1>5 DEF StatusInv

LEMMA SortInv == StatusInv /\ Sort => StatusInv'
<1> SUFFICES ASSUME StatusInv, Sort PROVE StatusInv'
  OBVIOUS
<1>0. /\ pc = "find" /\ unseen = {} /\ pc' = "test"
      /\ sources' \in Sorted(found)
      /\ UNCHANGED <<docs, vi, upstream, unseen, found, fields, coverage, total, report, seen>>
  BY DEF Sort, tree
<1>1. coverage = <<>> /\ Len(coverage) = 0
  BY <1>0 DEF StatusInv, Stages
<1>2. sources' \in Seq(Sources) /\ Len(sources') \in Nat
  <2>1. IsFiniteSet(found) /\ found \subseteq Sources
    BY StatusAssumption, FS_Subset DEF StatusInv, TypeOK
  <2>2. sources' \in Seq(found)
    BY <1>0, <2>1, SortedSet
  <2> QED
    BY <2>1, <2>2
<1>3. TypeOK'
  BY <1>0, <1>1, <1>2 DEF StatusInv, TypeOK, Labels
<1>4. Stages' /\ InStep'
  BY <1>0, <1>1 DEF Stages, InStep, Fields
<1>5. Bounds' /\ Witnessed'
  BY <1>0, <1>1 DEF StatusInv, Bounds, Witnessed
<1>6. Whole'
  BY <1>0 DEF StatusInv, Whole, InOrder
<1> QED
  BY <1>3, <1>4, <1>5, <1>6 DEF StatusInv

LEMMA TestInv == StatusInv /\ Test => StatusInv'
<1> SUFFICES ASSUME StatusInv, Test PROVE StatusInv'
  OBVIOUS
<1> DEFINE n == Len(coverage)
           rel == sources[n + 1]
<1>0. /\ pc = "test" /\ n < Len(sources)
      /\ coverage' = Append(coverage, Entry(rel))
      /\ UNCHANGED <<docs, vi, upstream, pc, unseen, found, fields, sources, total, report,
                     seen>>
  BY DEF Test, tree
<1>1. n \in Nat /\ Len(sources) \in Nat /\ rel \in Sources
  BY <1>0 DEF StatusInv, TypeOK
<1>2. Entry(rel) \in Entries
  BY <1>1, SectionTyped, StatusAssumption DEF Entry, Entries
<1>3. /\ coverage' \in Seq(Entries) /\ Len(coverage') = n + 1
      /\ \A k \in 1 .. n : coverage'[k] = coverage[k]
      /\ coverage'[n + 1] = Entry(rel)
  BY <1>0, <1>2, AppendProperties DEF StatusInv, TypeOK
<1>4. \A k \in 1 .. n + 1 : k \in 1 .. n \/ k = n + 1
  BY <1>1
<1>5. TypeOK'
  BY <1>0, <1>1, <1>3 DEF StatusInv, TypeOK
<1>6. Stages'
  BY <1>0 DEF StatusInv, Stages, Fields
<1>7. InStep'
  <2>1. Entry(rel).rel = rel /\ Entry(rel).section = Section(rel)
    BY DEF Entry
  <2> QED
    BY <1>0, <1>3, <1>4, <2>1 DEF StatusInv, InStep
<1>8. Bounds'
  BY <1>0 DEF StatusInv, Bounds
<1>9. Witnessed'
  <2>1. Entry(rel).rel = rel /\ Entry(rel).flag = IF rel \in vi THEN 1 ELSE 0
    BY DEF Entry
  <2>2. vi \subseteq seen.vi /\ seen.allVi \subseteq vi
    BY <1>0 DEF StatusInv, Bounds
  <2>3. \A k \in 1 .. n + 1 :
          /\ coverage'[k].flag = 1 => coverage'[k].rel \in seen.vi
          /\ coverage'[k].rel \in seen.allVi => coverage'[k].flag = 1
    BY <1>0, <1>3, <1>4, <2>1, <2>2 DEF StatusInv, Witnessed
  <2> QED
    BY <1>0, <1>3, <2>3 DEF StatusInv, Witnessed
<1>10. Whole'
  BY <1>0 DEF StatusInv, Whole, InOrder
<1> QED
  BY <1>5, <1>6, <1>7, <1>8, <1>9, <1>10 DEF StatusInv

LEMMA TestsDoneInv == StatusInv /\ TestsDone => StatusInv'
<1> SUFFICES ASSUME StatusInv, TestsDone PROVE StatusInv'
  OBVIOUS
<1>0. /\ pc = "test" /\ Len(coverage) = Len(sources) /\ pc' = "total"
      /\ UNCHANGED <<docs, vi, upstream, unseen, found, fields, sources, coverage, total,
                     report, seen>>
  BY DEF TestsDone, tree, run
<1>1. TypeOK'
  BY <1>0 DEF StatusInv, TypeOK, Labels
<1>2. Stages' /\ InStep'
  BY <1>0 DEF StatusInv, Stages, InStep, Fields
<1>3. Bounds' /\ Witnessed'
  BY <1>0 DEF StatusInv, Bounds, Witnessed
<1>4. Whole'
  BY <1>0 DEF StatusInv, Whole, InOrder
<1> QED
  BY <1>1, <1>2, <1>3, <1>4 DEF StatusInv

LEMMA CountInv == StatusInv /\ Count => StatusInv'
<1> SUFFICES ASSUME StatusInv, Count PROVE StatusInv'
  OBVIOUS
<1>0. /\ pc = "total" /\ total' = Len(sources) /\ pc' = "truncate"
      /\ UNCHANGED <<docs, vi, upstream, unseen, found, fields, sources, coverage, report,
                     seen>>
  BY DEF Count, tree
<1>1. total' \in 0 .. Cardinality(Sources)
  <2>1. found \in SUBSET Sources /\ IsFiniteSet(Sources)
    BY StatusAssumption DEF StatusInv, TypeOK
  <2>2. /\ IsFiniteSet(found)
        /\ Cardinality(found) <= Cardinality(Sources)
    BY <2>1, FS_Subset
  <2>3. Cardinality(found) \in Nat /\ Cardinality(Sources) \in Nat
    BY <2>1, <2>2, FS_CardinalityType
  <2>4. Len(sources) = Cardinality(found)
    BY <1>0, FinishedCounts
  <2> QED
    BY <1>0, <2>2, <2>3, <2>4
<1>2. TypeOK'
  BY <1>0, <1>1 DEF StatusInv, TypeOK, Labels
<1>3. Stages' /\ InStep'
  BY <1>0 DEF StatusInv, Stages, InStep, Fields
<1>4. Bounds' /\ Witnessed'
  BY <1>0 DEF StatusInv, Bounds, Witnessed
<1>5. Whole'
  BY <1>0 DEF StatusInv, Whole, InOrder
<1> QED
  BY <1>2, <1>3, <1>4, <1>5 DEF StatusInv

LEMMA TruncateInv == StatusInv /\ Truncate => StatusInv'
<1> SUFFICES ASSUME StatusInv, Truncate PROVE StatusInv'
  OBVIOUS
<1>0. /\ pc = "truncate" /\ pc' = "print"
      /\ report'.state = "partial" /\ report'.translated = 0 /\ report'.total = 0
      /\ UNCHANGED <<docs, vi, upstream, unseen, found, fields, sources, coverage, total,
                     seen>>
  BY DEF Truncate, NoReport, tree, run
<1>1. TypeOK'
  BY <1>0 DEF StatusInv, TypeOK, Labels
<1>2. Stages' /\ InStep'
  BY <1>0 DEF StatusInv, Stages, InStep, Fields
<1>3. Bounds' /\ Witnessed'
  BY <1>0 DEF StatusInv, Bounds, Witnessed
<1>4. Whole'
  BY <1>0 DEF Whole
<1> QED
  BY <1>1, <1>2, <1>3, <1>4 DEF StatusInv

(* What holds of the run once its temporary files are gone. *)
LEMMA EndRunInv ==
  ASSUME StatusInv, EndRun, UNCHANGED <<docs, vi, upstream>>,
         report'.state \in {"absent", "partial", "whole"},
         report'.translated \in 0 .. report'.total
  PROVE  TypeOK' /\ Stages' /\ InStep' /\ Bounds' /\ Witnessed'
<1>0. /\ pc' = "idle" /\ unseen' = {} /\ found' = {} /\ fields' = NoFields
      /\ sources' = <<>> /\ coverage' = <<>> /\ total' = 0 /\ seen'.changes = 0
      /\ Len(sources') = 0 /\ Len(coverage') = 0
  BY DEF EndRun, NothingSeen
<1>1. TypeOK'
  <2>1. fields' \in [Fields -> 0 .. Syncs]
    BY <1>0, StatusAssumption DEF NoFields, Fallback
  <2>2. Cardinality(Sources) \in Nat
    BY StatusAssumption, FS_CardinalityType
  <2> QED
    BY <1>0, <2>1, <2>2, StatusAssumption DEF StatusInv, TypeOK, Labels
<1> QED
  BY <1>0, <1>1 DEF Stages, InStep, Bounds, Witnessed, Fields

LEMMA WriteReportInv == StatusInv /\ WriteReport => StatusInv'
<1> SUFFICES ASSUME StatusInv, WriteReport PROVE StatusInv'
  OBVIOUS
<1>0. /\ pc = "print" /\ EndRun
      /\ UNCHANGED <<docs, vi, upstream>>
      /\ report'.state = "whole" /\ report'.total = total
      /\ report'.translated = Cardinality(Marked(coverage))
      /\ report'.list = coverage /\ report'.table = Table(coverage)
  BY DEF WriteReport, tree
<1>1. /\ coverage \in Seq(Entries) /\ InOrder(coverage)
      /\ Len(coverage) = total
  BY <1>0, FinishedCounts DEF StatusInv, Stages
<1>2. report'.translated \in 0 .. report'.total
  BY <1>0, <1>1, MarkedFinite
<1>3. Whole'
  <2>1. InOrder(report.list)'
    BY <1>0, <1>1 DEF InOrder
  <2>2. Marked(report.list)' = Marked(coverage) /\ Table(report.list)' = Table(coverage)
    BY <1>0 DEF Marked, Table
  <2> QED
    BY <1>0, <1>1, <2>1, <2>2 DEF Whole
<1> QED
  BY <1>0, <1>2, <1>3, EndRunInv DEF StatusInv

LEMMA FailInv == StatusInv /\ Fail => StatusInv'
<1> SUFFICES ASSUME StatusInv, Fail PROVE StatusInv'
  OBVIOUS
<1>0. EndRun /\ UNCHANGED <<docs, vi, upstream, report>>
  BY DEF Fail, tree
<1>1. Whole'
  BY <1>0 DEF StatusInv, Whole, InOrder
<1>2. /\ report'.state \in {"absent", "partial", "whole"}
      /\ report'.translated \in 0 .. report'.total
  BY <1>0 DEF StatusInv, TypeOK
<1> QED
  BY <1>0, <1>1, <1>2, EndRunInv DEF StatusInv

(* A change of the tree, by a sync or a translator. *)
LEMMA ChangeInv ==
  ASSUME StatusInv, Observe,
         UNCHANGED <<pc, unseen, found, fields, sources, coverage, total, report>>,
         docs' \subseteq Sources, vi' \subseteq Pages, upstream' \in 0 .. Syncs
  PROVE  StatusInv'
<1>1. CASE pc = "idle"
  <2>0. seen' = seen
    BY <1>1 DEF Observe
  <2>1. TypeOK'
    BY <2>0 DEF StatusInv, TypeOK
  <2>2. Stages' /\ InStep'
    BY DEF StatusInv, Stages, InStep
  <2>3. Bounds' /\ Witnessed'
    BY <1>1 DEF StatusInv, Bounds, Witnessed
  <2>4. Whole'
    BY DEF StatusInv, Whole, InOrder
  <2> QED
    BY <2>1, <2>2, <2>3, <2>4 DEF StatusInv
<1>2. CASE pc # "idle"
  <2>0. /\ seen.changes < Changes
        /\ seen'.changes = seen.changes + 1
        /\ seen'.docs = seen.docs \cup docs' /\ seen'.allDocs = seen.allDocs \cap docs'
        /\ seen'.vi = seen.vi \cup vi' /\ seen'.allVi = seen.allVi \cap vi'
        /\ seen'.upstream = seen.upstream \cup {upstream'}
    BY <1>2 DEF Observe
  <2>1. TypeOK'
    <3>1. seen'.changes \in 0 .. Changes
      BY <2>0, StatusAssumption DEF StatusInv, TypeOK
    <3> QED
      BY <3>1 DEF StatusInv, TypeOK
  <2>2. Stages' /\ InStep'
    BY DEF StatusInv, Stages, InStep
  <2>3. Bounds'
    BY <1>2, <2>0 DEF StatusInv, Bounds
  <2>4. Witnessed'
    BY <1>2, <2>0 DEF StatusInv, Witnessed
  <2>5. Whole'
    BY DEF StatusInv, Whole, InOrder
  <2> QED
    BY <2>1, <2>2, <2>3, <2>4, <2>5 DEF StatusInv
<1> QED
  BY <1>1, <1>2

LEMMA NextInv == StatusInv /\ [Next]_vars => StatusInv'
<1> SUFFICES ASSUME StatusInv, [Next]_vars PROVE StatusInv'
  OBVIOUS
<1>0. Moving \subseteq Sources /\ Pages \subseteq Sources /\ Syncs \in Nat
  BY StatusAssumption
<1>1. CASE Command
  BY <1>1, ReadFieldInv, FindInv, SortInv, TestInv, TestsDoneInv, CountInv, TruncateInv,
     WriteReportInv DEF Command
<1>2. ASSUME NEW rel \in Moving, SyncPath(rel) PROVE StatusInv'
  BY <1>0, <1>2, ChangeInv DEF SyncPath, run, StatusInv, TypeOK
<1>3. CASE SyncUpstream
  BY <1>0, <1>3, ChangeInv DEF SyncUpstream, run, StatusInv, TypeOK
<1>4. ASSUME NEW rel \in Pages, Translator(rel) PROVE StatusInv'
  BY <1>0, <1>4, ChangeInv DEF Translator, run, StatusInv, TypeOK
<1>5. CASE UNCHANGED vars
  BY <1>5 DEF vars, tree, run, StatusInv, TypeOK, Stages, InStep, Bounds, Witnessed, Whole,
              InOrder
<1> QED
  BY <1>1, <1>2, <1>3, <1>4, <1>5, StartInv, FailInv DEF Next

(* Only the last two commands touch the report. *)
LEMMA ReportChanges ==
  ASSUME [Next]_vars, report' # report
  PROVE  Truncate \/ WriteReport
BY DEF Next, Command, Start, ReadField, Find, Sort, Test, TestsDone, Count, Fail, SyncPath,
       SyncUpstream, Translator, vars

LEMMA StatusAlways == Spec => []StatusInv
BY InitInv, NextInv, PTL DEF Spec

(* The rows of the table are those of the sections of the list. *)
Rows(table, list) ==
  /\ \A k \in 1 .. Len(list) : \E row \in table : row.section = list[k].section
  /\ \A row \in table :
       LET lines == {k \in 1 .. Len(list) : list[k].section = row.section}
       IN  /\ row.total = Cardinality(lines)
           /\ row.done = Cardinality(lines \cap Marked(list))

LEMMA RowsOfTable ==
  ASSUME NEW list
  PROVE  Rows(Table(list), list)
<1> DEFINE Lines(s) == {k \in 1 .. Len(list) : list[k].section = s}
           Row(s) == [section |-> s,
                      done |-> Cardinality({k \in Marked(list) : list[k].section = s}),
                      total |-> Cardinality(Lines(s))]
<1>1. Table(list) = {Row(s) : s \in {list[k].section : k \in 1 .. Len(list)}}
  BY DEF Table
<1>2. ASSUME NEW k \in 1 .. Len(list)
      PROVE  \E row \in Table(list) : row.section = list[k].section
  <2>1. Row(list[k].section) \in Table(list) /\ Row(list[k].section).section = list[k].section
    BY <1>1
  <2> QED
    BY <2>1
<1>3. ASSUME NEW row \in Table(list)
      PROVE  /\ row.total = Cardinality(Lines(row.section))
             /\ row.done = Cardinality(Lines(row.section) \cap Marked(list))
  <2>1. PICK s : row = Row(s)
    BY <1>1
  <2>2. {k \in Marked(list) : list[k].section = s} = Lines(s) \cap Marked(list)
    BY DEF Marked
  <2> QED
    BY <2>1, <2>2
<1> QED
  BY <1>2, <1>3 DEF Rows

LEMMA Agrees == StatusInv => ReportConsistent
<1> SUFFICES ASSUME StatusInv, report.state = "whole"
             PROVE  /\ Len(report.list) = report.total
                    /\ Cardinality(Listed(report.list)) = report.total
                    /\ Cardinality(Marked(report.list)) = report.translated
                    /\ Rows(report.table, report.list)
                    /\ \A j, k \in Headings(report.list) :
                         report.list[j].section = report.list[k].section =>
                           j = k \/ report.list[j].section = Root
  BY DEF ReportConsistent, Rows
<1> DEFINE list == report.list
<1>1. /\ list \in Seq(Entries) /\ InOrder(list)
      /\ Len(list) = report.total
      /\ report.translated = Cardinality(Marked(list))
      /\ report.table = Table(list)
  BY DEF StatusInv, Whole
<1>2. Cardinality(Listed(list)) = Len(list)
  BY <1>1, ListedOnce
<1>3. ASSUME NEW j \in Headings(list), NEW k \in Headings(list),
             list[j].section = list[k].section
      PROVE  j = k \/ list[j].section = Root
  <2>1. j \in Nat /\ k \in Nat
    BY DEF Headings
  <2>2. CASE j < k
    BY <1>1, <1>3, <2>2, OneHeading
  <2>3. CASE k < j
    BY <1>1, <1>3, <2>3, OneHeading
  <2> QED
    BY <2>1, <2>2, <2>3
<1>4. Rows(report.table, list)
  BY <1>1, RowsOfTable
<1> QED
  BY <1>1, <1>2, <1>3, <1>4

(* The head, the table and the list of a report agree, however the tree changed during the run:
   for any finite set of sources and any number of changes. *)
THEOREM ReportAgrees == Spec => []ReportConsistent
BY StatusAlways, Agrees, PTL

(* Every command of the report, for any sources, keeps the types of what it holds: the
   coverage file is never longer than the list it is made from, no total exceeds the
   number of the sources, and no report counts more translations than files. *)
THEOREM StatusTyped == Spec => []TypeOK
<1>1. StatusInv => TypeOK
  BY DEF StatusInv
<1> QED
  BY <1>1, StatusAlways, PTL

LEMMA TrueReport ==
  ASSUME StatusInv, [Next]_vars, report' # report, report'.state = "whole"
  PROVE  /\ seen.allDocs \subseteq Listed(report'.list)
         /\ Listed(report'.list) \subseteq seen.docs
         /\ seen.allVi \cap Listed(report'.list) \subseteq Done(report'.list)
         /\ Done(report'.list) \subseteq seen.vi
         /\ \A k \in Fields : report'.fields[k] \in seen.upstream
<1>1. WriteReport
  <2>1. Truncate => report'.state = "partial"
    BY DEF Truncate, NoReport
  <2> QED
    BY <2>1, ReportChanges
<1>2. pc = "print" /\ report'.list = coverage /\ report'.fields = fields
  BY <1>1 DEF WriteReport
<1>3. Listed(coverage) = found
  BY <1>2, FinishedCounts
<1>4. seen.allDocs \subseteq found /\ found \subseteq seen.docs
  BY <1>2 DEF StatusInv, Bounds, Witnessed
<1>5. \A k \in 1 .. Len(coverage) :
        /\ coverage[k].flag = 1 => coverage[k].rel \in seen.vi
        /\ coverage[k].rel \in seen.allVi => coverage[k].flag = 1
  BY <1>2 DEF StatusInv, Witnessed
<1>6. seen.allVi \cap Listed(coverage) \subseteq Done(coverage)
  BY <1>5 DEF Listed, Done, Marked
<1>7. Done(coverage) \subseteq seen.vi
  BY <1>5 DEF Done, Marked
<1>8. \A k \in Fields : fields[k] \in seen.upstream
  BY <1>2 DEF StatusInv, Witnessed
<1> QED
  BY <1>2, <1>3, <1>4, <1>6, <1>7, <1>8

(* What a report says was so at some moment of its run, with any number of syncs and
   translators at work meanwhile. *)
THEOREM ReportsTrue == Spec => ReportTrue
<1>1. StatusInv /\ [Next]_vars =>
        [report' # report /\ report'.state = "whole" =>
           /\ seen.allDocs \subseteq Listed(report'.list)
           /\ Listed(report'.list) \subseteq seen.docs
           /\ seen.allVi \cap Listed(report'.list) \subseteq Done(report'.list)
           /\ Done(report'.list) \subseteq seen.vi
           /\ \A k \in Fields : report'.fields[k] \in seen.upstream]_vars
  BY TrueReport
<1> QED
  BY <1>1, StatusAlways, PTL DEF Spec, ReportTrue

LEMMA OldReport ==
  ASSUME StatusInv, [Next]_vars, report' # report
  PROVE  seen.allDocs \subseteq Listed(coverage) /\ total = Len(coverage)
<1>1. pc \in {"truncate", "print"}
  BY ReportChanges DEF Truncate, WriteReport
<1>2. Listed(coverage) = found
  BY <1>1, FinishedCounts
<1> QED
  BY <1>1, <1>2 DEF StatusInv, Stages, Witnessed

(* The old report stays until all that stayed in the tree has been counted and tested:
   a run that fails before leaves it whole. *)
THEOREM OldReportStays == Spec => OldReportKept
<1>1. StatusInv /\ [Next]_vars =>
        [report.state = "whole" /\ report' # report =>
           seen.allDocs \subseteq Listed(coverage) /\ total = Len(coverage)]_vars
  BY OldReport
<1> QED
  BY <1>1, StatusAlways, PTL DEF Spec, OldReportKept
=============================================================================
