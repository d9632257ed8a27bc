------------------------- MODULE RstBlocks_proofs -------------------------
(***************************************************************************)
(* Proofs about RstBlocks, for any set of lines and any pages of them.     *)
(***************************************************************************)
EXTENDS RstBlocks, TLAPS

(* Every block lies within the page. *)
Within ==
  \A n \in 1 .. Len(blocks) :
    /\ 1 <= blocks[n].first
    /\ blocks[n].last <= Len(lines)

(* A block being read has a line already, or its loop will take its first. *)
Begun ==
  kind # "none" =>
    /\ 1 <= start
    /\ start < i \/ (start = i /\ Continues(i))

IInv == SplitTypeOK /\ Within /\ Partition /\ Begun

----------------------------------------------------------------------------

LEMMA TextSeq == ASSUME lines \in Texts PROVE lines \in Seq(Lines) /\ Len(lines) \in Nat
BY RstAssumption

(* Where the last block ends, once a block is appended. *)
LEMMA PreviousAppended ==
  ASSUME blocks \in Seq(Blocks), NEW b \in Blocks, blocks' = Append(blocks, b)
  PROVE  /\ Len(blocks') = Len(blocks) + 1
         /\ Len(blocks) \in Nat
         /\ blocks' \in Seq(Blocks)
         /\ \A n \in 1 .. Len(blocks) : blocks'[n] = blocks[n]
         /\ blocks'[Len(blocks) + 1] = b
         /\ PreviousLine' = b.last
<1>1. /\ Len(blocks') = Len(blocks) + 1
      /\ Len(blocks) \in Nat
      /\ blocks' \in Seq(Blocks)
      /\ \A n \in 1 .. Len(blocks) : blocks'[n] = blocks[n]
      /\ blocks'[Len(blocks) + 1] = b
  OBVIOUS
<1>2. blocks' # <<>>
  BY <1>1
<1> QED
  BY <1>1, <1>2 DEF PreviousLine

(* The loop of the kind that a line opens takes that line. *)
LEMMA FirstTaken ==
  ASSUME SplitTypeOK, kind = "none", i <= Len(lines), kind' = KindOf(i), start' = i,
         lines' = lines, i' = IF kind' \in {"directive", "heading"} THEN i + 1 ELSE i
  PROVE  /\ kind' \in Kinds
         /\ 1 <= start'
         /\ start' < i' \/ (start' = i' /\ Continues(i)')
<1>1. kind' \in Kinds
  BY DEF KindOf, Kinds
<1>2. i \in Nat /\ 1 <= i
  BY TextSeq DEF SplitTypeOK
<1>3. CASE kind' \in {"directive", "heading"}
  BY <1>1, <1>2, <1>3
<1>4. CASE kind' \notin {"directive", "heading"}
  <2>1. i' = i /\ start' = i
    BY <1>4
  <2>2. Continues(i)'
    <3>1. CASE kind' = "blank"
      BY <2>1, <3>1 DEF KindOf, Continues, Blank
    <3>2. CASE kind' = "code"
      BY <2>1, <3>2 DEF KindOf, Continues, Blank
    <3>3. CASE kind' = "prose"
      <4>1. ~Blank(i) /\ ~Dots(i)
        BY <3>3 DEF KindOf
      <4>2. ~(i' > start')
        BY <2>1, <1>2
      <4> QED
        BY <2>1, <3>3, <4>1, <4>2 DEF Continues, Blank, Dots
    <3> QED
      BY <1>1, <1>4, <3>1, <3>2, <3>3 DEF Kinds
  <2> QED
    BY <1>1, <1>2, <2>1, <2>2
<1> QED
  BY <1>3, <1>4

LEMMA InitInv == SplitInit => IInv
<1> SUFFICES ASSUME SplitInit PROVE IInv
  OBVIOUS
<1>1. Len(lines) \in Nat
  BY TextSeq DEF SplitInit
<1>2. blocks = <<>> /\ Len(blocks) = 0 /\ blocks \in Seq(Blocks)
  BY DEF SplitInit
<1> QED
  BY <1>1, <1>2 DEF SplitInit, IInv, SplitTypeOK, Within, Partition, PreviousLine, Begun

LEMMA OpenInv == IInv /\ Open => IInv'
<1> SUFFICES ASSUME IInv, Open PROVE IInv'
  OBVIOUS
<1>0. Len(lines) \in Nat /\ i \in Nat
  BY TextSeq DEF IInv, SplitTypeOK
<1>1. /\ kind' \in Kinds
      /\ 1 <= start'
      /\ start' < i' \/ (start' = i' /\ Continues(i)')
  BY FirstTaken DEF IInv, Open
<1>2. i' \in 1 .. Len(lines) + 1
  BY <1>0 DEF IInv, SplitTypeOK, Open
<1>3. SplitTypeOK'
  BY <1>0, <1>1, <1>2 DEF IInv, SplitTypeOK, Open
<1>4. Begun'
  BY <1>1 DEF Begun
<1>5. Within'
  BY DEF IInv, Within, Open
<1>6. Partition'
  <2>1. PreviousLine' = i - 1 /\ start' = i /\ kind' # "none"
    BY <1>1 DEF IInv, Partition, PreviousLine, Open, Kinds
  <2> QED
    BY <2>1 DEF IInv, Partition, Open
<1> QED
  BY <1>3, <1>4, <1>5, <1>6 DEF IInv

LEMMA ExtendInv == IInv /\ Extend => IInv'
<1> SUFFICES ASSUME IInv, Extend PROVE IInv'
  OBVIOUS
<1>0. Len(lines) \in Nat /\ i \in Nat /\ start \in Nat
  BY TextSeq DEF IInv, SplitTypeOK
<1>1. i' = i + 1 /\ i <= Len(lines)
  BY DEF Extend, Continues
<1>2. SplitTypeOK'
  BY <1>0, <1>1 DEF IInv, SplitTypeOK, Extend
<1>3. Begun'
  BY <1>0, <1>1 DEF IInv, Begun, Extend
<1>4. Within'
  BY DEF IInv, Within, Extend
<1>5. Partition'
  BY DEF IInv, Partition, PreviousLine, Extend
<1> QED
  BY <1>2, <1>3, <1>4, <1>5 DEF IInv

LEMMA CloseInv == IInv /\ Close => IInv'
<1> SUFFICES ASSUME IInv, Close PROVE IInv'
  OBVIOUS
<1> DEFINE b == [kind |-> kind, first |-> start, last |-> i - 1]
<1>0. Len(lines) \in Nat /\ i \in Nat /\ start \in Nat /\ blocks \in Seq(Blocks)
  BY TextSeq DEF IInv, SplitTypeOK
<1>1. 1 <= start /\ start < i /\ i <= Len(lines) + 1
  BY <1>0 DEF IInv, SplitTypeOK, Begun, Close
<1>2. b \in Blocks
  BY <1>0, <1>1 DEF IInv, SplitTypeOK, Close, Blocks
<1>3. /\ Len(blocks') = Len(blocks) + 1
      /\ Len(blocks) \in Nat
      /\ blocks' \in Seq(Blocks)
      /\ \A n \in 1 .. Len(blocks) : blocks'[n] = blocks[n]
      /\ blocks'[Len(blocks) + 1] = b
      /\ PreviousLine' = i - 1
  <2>1. blocks' = Append(blocks, b)
    BY DEF Close
  <2> QED
    BY <1>0, <1>2, <2>1, PreviousAppended
<1>4. SplitTypeOK'
  BY <1>0, <1>3 DEF IInv, SplitTypeOK, Close
<1>5. Begun'
  BY DEF Begun, Close
<1>6. Within'
  <2> SUFFICES ASSUME NEW n \in 1 .. Len(blocks) + 1
               PROVE  1 <= blocks'[n].first /\ blocks'[n].last <= Len(lines)
    BY <1>3 DEF Within, Close
  <2>1. CASE n = Len(blocks) + 1
    BY <1>0, <1>1, <1>3, <2>1
  <2>2. CASE n \in 1 .. Len(blocks)
    BY <1>3, <2>2 DEF IInv, Within
  <2> QED
    BY <1>3, <2>1, <2>2
<1>7. Partition'
  <2>1. PreviousLine = start - 1
    BY DEF IInv, Partition, Close
  <2>2. PreviousLine' = i' - 1 /\ kind' = "none"
    BY <1>3 DEF Close
  <2>3. ASSUME NEW n \in 1 .. Len(blocks) + 1
        PROVE  /\ blocks'[n].first = IF n = 1 THEN 1 ELSE blocks'[n - 1].last + 1
               /\ blocks'[n].first <= blocks'[n].last
    <3>1. CASE n \in 1 .. Len(blocks)
      <4>1. n # 1 => n - 1 \in 1 .. Len(blocks)
        BY <1>3, <3>1
      <4> QED
        BY <1>3, <3>1, <4>1 DEF IInv, Partition
    <3>2. CASE n = Len(blocks) + 1
      <4>1. blocks'[n].first = start /\ blocks'[n].last = i - 1
        BY <1>3, <3>2
      <4>2. CASE blocks = <<>>
        BY <1>0, <1>1, <2>1, <3>2, <4>1, <4>2 DEF PreviousLine
      <4>3. CASE blocks # <<>>
        <5>1. Len(blocks) \in 1 .. Len(blocks) /\ n # 1 /\ n - 1 = Len(blocks)
          BY <1>0, <1>3, <3>2, <4>3
        <5>2. blocks'[n - 1].last = start - 1
          BY <1>3, <2>1, <4>3, <5>1 DEF PreviousLine
        <5> QED
          BY <1>0, <1>1, <4>1, <5>1, <5>2
      <4> QED
        BY <4>2, <4>3
    <3> QED
      BY <1>3, <3>1, <3>2
  <2> QED
    BY <1>3, <2>2, <2>3 DEF Partition
<1> QED
  BY <1>4, <1>5, <1>6, <1>7 DEF IInv

(* What is rendered is on the page. *)
LEMMA SentOnPage ==
  ASSUME lines \in Texts, NEW b \in Blocks, 1 <= b.first, b.last <= Len(lines)
  PROVE  Sent(b) \subseteq 1 .. Len(lines) /\ Cut(b) \subseteq 1 .. Len(lines)
<1>1. Len(lines) \in Nat /\ b.first \in Nat /\ b.last \in Nat
  BY TextSeq DEF Blocks
<1>2. b.first .. b.last \subseteq 1 .. Len(lines)
  BY <1>1
<1>3. Body(b) \subseteq 1 .. Len(lines)
  BY <1>1 DEF Body
<1> QED
  BY <1>2, <1>3 DEF Sent, Cut

LEMMA RenderInv == IInv /\ Render => IInv'
<1> SUFFICES ASSUME IInv, Render PROVE IInv'
  OBVIOUS
<1> DEFINE b == blocks[rendered + 1]
<1>0. lines \in Texts /\ blocks \in Seq(Blocks) /\ Len(blocks) \in Nat /\ rendered \in Nat
  BY DEF IInv, SplitTypeOK
<1>1. rendered + 1 \in 1 .. Len(blocks)
  BY <1>0 DEF Render
<1>2. b \in Blocks /\ 1 <= b.first /\ b.last <= Len(lines)
  BY <1>0, <1>1 DEF IInv, Within
<1>3. Sent(b) \subseteq 1 .. Len(lines) /\ Cut(b) \subseteq 1 .. Len(lines)
  BY <1>0, <1>2, SentOnPage
<1>4. SplitTypeOK'
  <2>1. rendered' \in 0 .. Len(blocks)
    BY <1>0, <1>1 DEF Render
  <2>2. sent' \subseteq 1 .. Len(lines)
    BY <1>3 DEF IInv, SplitTypeOK, Render
  <2>3. cut' \subseteq 1 .. Len(lines)
    BY <1>3 DEF IInv, SplitTypeOK, Render
  <2>4. UNCHANGED <<lines, i, kind, start, blocks>>
    BY DEF Render, splitting
  <2> QED
    BY <2>1, <2>2, <2>3, <2>4 DEF IInv, SplitTypeOK
<1>5. Within' /\ Partition'
  BY DEF IInv, Within, Partition, PreviousLine, Render, splitting
<1>6. Begun'
  BY DEF IInv, Begun, Continues, Blank, Dots, Underline, Render, splitting
<1> QED
  BY <1>4, <1>5, <1>6 DEF IInv

LEMMA NextInv == IInv /\ [SplitNext]_splitVars => IInv'
<1> SUFFICES ASSUME IInv, [SplitNext]_splitVars PROVE IInv'
  OBVIOUS
<1>1. CASE UNCHANGED splitVars
  BY <1>1 DEF IInv, SplitTypeOK, Within, Partition, PreviousLine, Begun, Continues, Blank,
              Dots, Underline, splitVars
<1> QED
  BY <1>1, OpenInv, ExtendInv, CloseInv, RenderInv DEF SplitNext

(* The loops of split_blocks stay within the page, whatever it holds, and only
   its lines are sent out. *)
THEOREM BlocksTyped == SplitSpec => []SplitTypeOK
<1>1. IInv => SplitTypeOK
  BY DEF IInv
<1> QED
  BY <1>1, InitInv, NextInv, PTL DEF SplitSpec

(* The blocks, joined in their order, are the lines of the page: split_blocks
   loses none and doubles none. *)
THEOREM LinesPartitioned == SplitSpec => []Partition
<1>1. IInv => Partition
  BY DEF IInv
<1> QED
  BY <1>1, InitInv, NextInv, PTL DEF SplitSpec

----------------------------------------------------------------------------
(* What a block holds.  The properties about what is sent out need more than
   Partition: which lines a block of each kind may hold, that a directive and a
   literal block stop only where the page does or at a line that is not theirs,
   and that every line read is in a block. *)

Shape(b) ==
  /\ b.kind = "directive" => Dots(b.first) /\ Under(b.last, b.first)
  /\ b.kind = "heading" => b.first = b.last /\ lines[b.first].class = "rule"
  /\ b.kind = "blank" => \A k \in b.first .. b.last : Blank(k)
  /\ b.kind = "code" => \A k \in b.first .. b.last : Blank(k) \/ lines[k].indent > 0
  /\ b.kind = "prose" =>
       /\ ~Underline(b.first, b.first - 1)
       /\ \A k \in b.first .. b.last :
            ~Blank(k) /\ ~Dots(k) /\ (k > b.first => ~Underline(k, k - 1))

(* The line after the block, if there is one, is not the block's. *)
Full(b) ==
  b.last + 1 <= Len(lines) =>
    /\ b.kind = "directive" =>
         /\ ~Blank(b.last + 1)
         /\ ~(lines[b.last + 1].indent > lines[b.first].indent)
    /\ b.kind = "code" => ~Blank(b.last + 1) /\ ~(lines[b.last + 1].indent > 0)

(* The block being read, as far as it goes. *)
Reading == [kind |-> kind, first |-> start, last |-> i - 1]

Shaped ==
  /\ \A n \in 1 .. Len(blocks) : Shape(blocks[n]) /\ Full(blocks[n])
  /\ kind # "none" => Shape(Reading)

Ordered ==
  /\ \A n \in 1 .. Len(blocks) : blocks[n].last <= PreviousLine
  /\ \A m, n \in 1 .. Len(blocks) : m < n => blocks[m].last < blocks[n].first

Covered ==
  \A k \in 1 .. PreviousLine :
    \E n \in 1 .. Len(blocks) : k \in blocks[n].first .. blocks[n].last

(* Rendering waits for the end of the page, and cuts only lines it sends. *)
FromBlocks ==
  \A k \in sent \cup cut :
    /\ kind = "none" /\ i > Len(lines)
    /\ \E n \in 1 .. Len(blocks) : k \in Sent(blocks[n])

ShapeInv == IInv /\ Shaped /\ Ordered /\ Covered /\ FromBlocks

(* The fields of a block that was found. *)
LEMMA BlockFields ==
  ASSUME ShapeInv, NEW n \in 1 .. Len(blocks)
  PROVE  /\ blocks[n] \in Blocks
         /\ blocks[n].kind \in Kinds
         /\ blocks[n].first \in Nat /\ 1 <= blocks[n].first
         /\ blocks[n].last \in Nat
<1>1. blocks[n] \in Blocks
  BY DEF ShapeInv, IInv, SplitTypeOK
<1>2. blocks[n].kind \in Kinds /\ blocks[n].first \in Nat /\ blocks[n].last \in Nat
  BY <1>1 DEF Blocks
<1> QED
  BY <1>1, <1>2 DEF ShapeInv, IInv, Within

LEMMA InitShape == SplitInit => ShapeInv
<1> SUFFICES ASSUME SplitInit PROVE ShapeInv
  OBVIOUS
<1>1. blocks = <<>> /\ Len(blocks) = 0 /\ PreviousLine = 0
  BY DEF SplitInit, PreviousLine
<1> QED
  BY <1>1, InitInv DEF SplitInit, ShapeInv, Shaped, Ordered, Covered, FromBlocks

(* Nothing said of the blocks found depends on more than they and the page. *)
LEMMA BlocksKept ==
  ASSUME ShapeInv, UNCHANGED <<lines, blocks>>
  PROVE  /\ \A n \in 1 .. Len(blocks') : (Shape(blocks[n]) /\ Full(blocks[n]))'
         /\ Ordered'
         /\ Covered'
         /\ PreviousLine' = PreviousLine
<1>1. PreviousLine' = PreviousLine
  BY DEF PreviousLine
<1>2. Ordered' /\ Covered'
  BY <1>1 DEF ShapeInv, Ordered, Covered
<1>3. ASSUME NEW n \in 1 .. Len(blocks)
      PROVE  (Shape(blocks[n]) /\ Full(blocks[n]))'
  <2>1. Shape(blocks[n]) /\ Full(blocks[n])
    BY DEF ShapeInv, Shaped
  <2>2. Shape(blocks[n])'
    BY <2>1 DEF Shape, Blank, Dots, Under, Underline
  <2>3. Full(blocks[n])'
    BY <2>1 DEF Full, Blank
  <2> QED
    BY <2>2, <2>3
<1> QED
  BY <1>1, <1>2, <1>3

LEMMA OpenShape == ShapeInv /\ Open => ShapeInv'
<1> SUFFICES ASSUME ShapeInv, Open PROVE ShapeInv'
  OBVIOUS
<1>0. UNCHANGED <<lines, blocks, sent, cut>> /\ IInv'
  BY OpenInv DEF ShapeInv, Open
<1>1. i \in Nat /\ i <= Len(lines) /\ PreviousLine = i - 1
  BY DEF ShapeInv, IInv, SplitTypeOK, Partition, Open
<1>2. Shape(Reading)'
  <2>1. kind' = KindOf(i) /\ start' = i
    BY DEF Open
  <2>2. CASE kind' = "directive"
    <3>1. Dots(i) /\ i' = i + 1
      BY <2>1, <2>2 DEF KindOf, Open
    <3> QED
      BY <1>0, <1>1, <2>1, <2>2, <3>1 DEF Shape, Reading, Dots, Under
  <2>3. CASE kind' = "heading"
    <3>1. lines[i].class = "rule" /\ i' = i + 1
      BY <2>1, <2>3 DEF KindOf, Open, Underline
    <3> QED
      BY <1>0, <1>1, <2>1, <2>3, <3>1 DEF Shape, Reading
  <2>4. CASE kind' \in {"blank", "code"}
    <3>1. i' = i
      BY <2>4 DEF Open
    <3> QED
      BY <1>1, <2>1, <2>4, <3>1 DEF Shape, Reading
  <2>5. CASE kind' = "prose"
    <3>1. i' = i
      BY <2>5 DEF Open
    <3>2. ~Underline(i, i - 1)
      BY <1>1, <2>1, <2>5 DEF KindOf
    <3> QED
      BY <1>0, <1>1, <2>1, <2>5, <3>1, <3>2 DEF Shape, Reading, Underline, Blank
  <2> QED
    BY <2>1, <2>2, <2>3, <2>4, <2>5 DEF KindOf
<1>3. Shaped'
  BY <1>0, <1>2, BlocksKept DEF Shaped
<1>4. FromBlocks'
  BY <1>0, <1>1 DEF ShapeInv, FromBlocks
<1> QED
  BY <1>0, <1>3, <1>4, BlocksKept DEF ShapeInv

LEMMA ExtendShape == ShapeInv /\ Extend => ShapeInv'
<1> SUFFICES ASSUME ShapeInv, Extend PROVE ShapeInv'
  OBVIOUS
<1>0. UNCHANGED <<lines, blocks, kind, start, sent, cut>> /\ i' = i + 1 /\ IInv'
  BY ExtendInv DEF ShapeInv, Extend
<1>1. i \in Nat /\ start \in Nat /\ start <= i /\ kind # "none" /\ Continues(i)
  BY DEF ShapeInv, IInv, SplitTypeOK, Begun, Extend
<1>2. Shape(Reading)'
  <2>1. Shape(Reading)
    BY <1>1 DEF ShapeInv, Shaped
  <2>2. i' - 1 = i
    BY <1>0, <1>1
  <2>3. CASE kind = "directive"
    <3>1. Dots(start) /\ Under(i - 1, start)
      BY <2>1, <2>3 DEF Shape, Reading
    <3>2. Blank(i) \/ lines[i].indent > lines[start].indent
      BY <1>1, <2>3 DEF Continues
    <3>3. Under(i, start)
      BY <1>1, <3>1, <3>2 DEF Under
    <3> QED
      BY <1>0, <2>2, <2>3, <3>1, <3>3 DEF Shape, Reading, Dots, Under, Blank
  <2>4. CASE kind = "blank"
    <3>1. \A k \in start .. i - 1 : Blank(k)
      BY <2>1, <2>4 DEF Shape, Reading
    <3>2. Blank(i)
      BY <1>1, <2>4 DEF Continues
    <3>3. \A k \in start .. i : Blank(k)
      BY <1>1, <3>1, <3>2
    <3> QED
      BY <1>0, <2>2, <2>4, <3>3 DEF Shape, Reading, Blank
  <2>5. CASE kind = "code"
    <3>1. \A k \in start .. i - 1 : Blank(k) \/ lines[k].indent > 0
      BY <2>1, <2>5 DEF Shape, Reading
    <3>2. Blank(i) \/ lines[i].indent > 0
      BY <1>1, <2>5 DEF Continues
    <3>3. \A k \in start .. i : Blank(k) \/ lines[k].indent > 0
      BY <1>1, <3>1, <3>2
    <3> QED
      BY <1>0, <2>2, <2>5, <3>3 DEF Shape, Reading, Blank
  <2>6. CASE kind = "prose"
    <3>1. /\ ~Underline(start, start - 1)
          /\ \A k \in start .. i - 1 :
               ~Blank(k) /\ ~Dots(k) /\ (k > start => ~Underline(k, k - 1))
      BY <2>1, <2>6 DEF Shape, Reading
    <3>2. ~Blank(i) /\ ~Dots(i) /\ (i > start => ~Underline(i, i - 1))
      BY <1>1, <2>6 DEF Continues
    <3>3. \A k \in start .. i :
            ~Blank(k) /\ ~Dots(k) /\ (k > start => ~Underline(k, k - 1))
      BY <1>1, <3>1, <3>2
    <3> QED
      BY <1>0, <2>2, <2>6, <3>1, <3>3 DEF Shape, Reading, Blank, Dots, Underline
  <2> QED
    BY <1>0, <1>1, <2>3, <2>4, <2>5, <2>6 DEF Continues
<1>3. Shaped'
  BY <1>0, <1>2, BlocksKept DEF Shaped
<1>4. FromBlocks'
  BY <1>0, <1>1 DEF ShapeInv, FromBlocks
<1> QED
  BY <1>0, <1>3, <1>4, BlocksKept DEF ShapeInv

LEMMA CloseShape == ShapeInv /\ Close => ShapeInv'
<1> SUFFICES ASSUME ShapeInv, Close PROVE ShapeInv'
  OBVIOUS
<1> DEFINE N == Len(blocks)
<1>0. /\ UNCHANGED <<lines, i, start, sent, cut>>
      /\ kind # "none" /\ kind' = "none"
      /\ ~Continues(i)
      /\ blocks' = Append(blocks, Reading)
      /\ IInv'
  BY CloseInv DEF ShapeInv, Close, Reading
<1>1. /\ i \in Nat /\ start \in Nat /\ 1 <= start /\ start < i
      /\ i \in 1 .. Len(lines) + 1 /\ blocks \in Seq(Blocks)
      /\ PreviousLine = start - 1
  BY <1>0 DEF ShapeInv, IInv, SplitTypeOK, Begun, Partition
<1>2. Reading \in Blocks
  BY <1>0, <1>1 DEF ShapeInv, IInv, SplitTypeOK, Reading, Blocks
<1>3. /\ Len(blocks') = N + 1
      /\ N \in Nat
      /\ \A n \in 1 .. N : blocks'[n] = blocks[n]
      /\ blocks'[N + 1] = Reading
      /\ PreviousLine' = i - 1
  BY <1>0, <1>1, <1>2, PreviousAppended DEF Reading
<1>4. \A n \in 1 .. N : blocks[n].first \in Nat /\ blocks[n].last \in Nat
  BY BlockFields
<1>5. Shaped'
  <2>1. ASSUME NEW n \in 1 .. N + 1
        PROVE  (Shape(blocks[n]) /\ Full(blocks[n]))'
    <3>1. PICK b \in Blocks : b = blocks'[n] /\ Shape(b) /\ Full(b)
      <4>1. CASE n \in 1 .. N
        BY <1>1, <1>3, <4>1 DEF ShapeInv, Shaped
      <4>2. CASE n = N + 1
        <5>1. Shape(Reading)
          BY <1>0 DEF ShapeInv, Shaped
        <5>2. Full(Reading)
          BY <1>0, <1>1 DEF Full, Reading, Continues
        <5> QED
          BY <1>2, <1>3, <4>2, <5>1, <5>2
      <4> QED
        BY <1>3, <4>1, <4>2
    <3>2. (Shape(blocks[n]))'
      BY <1>0, <3>1 DEF Shape, Blank, Dots, Under, Underline
    <3>3. (Full(blocks[n]))'
      BY <1>0, <3>1 DEF Full, Blank
    <3> QED
      BY <3>2, <3>3
  <2> QED
    BY <1>0, <1>3, <2>1 DEF Shaped
<1>6. Ordered'
  <2>1. \A n \in 1 .. N + 1 : blocks'[n].last <= i - 1
    <3>1. Reading.last = i - 1
      BY DEF Reading
    <3>2. \A n \in 1 .. N : blocks[n].last <= start - 1
      BY <1>1 DEF ShapeInv, Ordered
    <3> QED
      BY <1>1, <1>3, <1>4, <3>1, <3>2
  <2>2. ASSUME NEW m \in 1 .. N + 1, NEW n \in 1 .. N + 1, m < n
        PROVE  blocks'[m].last < blocks'[n].first
    <3>1. m \in 1 .. N
      BY <1>3, <2>2
    <3>2. CASE n \in 1 .. N
      BY <1>3, <2>2, <3>1, <3>2 DEF ShapeInv, Ordered
    <3>3. CASE n = N + 1
      <4>1. blocks'[n].first = start
        BY <1>3, <3>3 DEF Reading
      <4>2. blocks[m].last <= start - 1
        BY <1>1, <3>1 DEF ShapeInv, Ordered
      <4> QED
        BY <1>1, <1>3, <1>4, <3>1, <4>1, <4>2
    <3> QED
      BY <1>3, <3>2, <3>3
  <2> QED
    BY <1>3, <2>1, <2>2 DEF Ordered
<1>7. Covered'
  <2> SUFFICES ASSUME NEW k \in 1 .. i - 1
               PROVE  \E n \in 1 .. N + 1 : k \in blocks'[n].first .. blocks'[n].last
    BY <1>3 DEF Covered
  <2>1. CASE k \in 1 .. start - 1
    <3>1. PICK n \in 1 .. N : k \in blocks[n].first .. blocks[n].last
      BY <1>1, <2>1 DEF ShapeInv, Covered
    <3> QED
      BY <1>3, <3>1
  <2>2. CASE k \in start .. i - 1
    <3>1. N + 1 \in 1 .. N + 1
      BY <1>3
    <3> QED
      BY <1>3, <2>2, <3>1 DEF Reading
  <2> QED
    BY <1>1, <2>1, <2>2
<1>8. FromBlocks'
  BY <1>0 DEF ShapeInv, FromBlocks
<1> QED
  BY <1>0, <1>5, <1>6, <1>7, <1>8 DEF ShapeInv

LEMMA RenderShape == ShapeInv /\ Render => ShapeInv'
<1> SUFFICES ASSUME ShapeInv, Render PROVE ShapeInv'
  OBVIOUS
<1> DEFINE b == blocks[rendered + 1]
<1>0. /\ UNCHANGED <<lines, i, kind, start, blocks>>
      /\ kind = "none" /\ i > Len(lines)
      /\ sent' = sent \cup Sent(b) /\ cut' = cut \cup Cut(b)
      /\ IInv'
  BY RenderInv DEF ShapeInv, Render, splitting
<1>1. rendered + 1 \in 1 .. Len(blocks)
  BY DEF ShapeInv, IInv, SplitTypeOK, Render
<1>2. Cut(b) \subseteq Sent(b)
  BY DEF Cut, Sent
<1>3. Shaped'
  BY <1>0, BlocksKept DEF Shaped
<1>4. FromBlocks'
  <2>1. ASSUME NEW k \in sent' \cup cut'
        PROVE  \E n \in 1 .. Len(blocks) : k \in Sent(blocks[n])
    <3>1. CASE k \in sent \cup cut
      BY <3>1 DEF ShapeInv, FromBlocks
    <3>2. CASE k \in Sent(b)
      BY <1>1, <3>2
    <3> QED
      BY <1>0, <1>2, <3>1, <3>2
  <2>2. \A n : (Sent(blocks[n]))' = Sent(blocks[n])
    BY <1>0 DEF Sent, Body, Blank
  <2> QED
    BY <1>0, <2>1, <2>2 DEF FromBlocks
<1> QED
  BY <1>0, <1>3, <1>4, BlocksKept DEF ShapeInv

LEMMA NextShape == ShapeInv /\ [SplitNext]_splitVars => ShapeInv'
<1> SUFFICES ASSUME ShapeInv, [SplitNext]_splitVars PROVE ShapeInv'
  OBVIOUS
<1>1. CASE UNCHANGED splitVars
  <2>0. UNCHANGED <<lines, blocks, kind, start, i, sent, cut>> /\ IInv'
    BY <1>1, NextInv DEF ShapeInv, splitVars
  <2>1. Shaped'
    <3>1. kind' # "none" => Shape(Reading)'
      BY <2>0 DEF ShapeInv, Shaped, Shape, Reading, Blank, Dots, Under, Underline
    <3> QED
      BY <2>0, <3>1, BlocksKept DEF Shaped
  <2>2. FromBlocks'
    <3>1. \A n : (Sent(blocks[n]))' = Sent(blocks[n])
      BY <2>0 DEF Sent, Body, Blank
    <3> QED
      BY <2>0, <3>1 DEF ShapeInv, FromBlocks
  <2> QED
    BY <2>0, <2>1, <2>2, BlocksKept DEF ShapeInv
<1> QED
  BY <1>1, OpenShape, ExtendShape, CloseShape, RenderShape DEF SplitNext

(* A line that is sent out or cut belongs to a block: one of prose, with no line
   of markup in it, or a directive, which is translatable and opens above it or,
   for a toctree, at it. *)
LEMMA SentFrom ==
  ASSUME ShapeInv, NEW k \in sent \cup cut
  PROVE  /\ \A l \in 1 .. Len(lines) : l <= PreviousLine
         /\ \E n \in 1 .. Len(blocks) :
              /\ blocks[n] \in Blocks
              /\ k \in blocks[n].first .. blocks[n].last
              /\ \/ blocks[n].kind = "prose"
                 \/ /\ blocks[n].kind = "directive"
                    /\ lines[blocks[n].first].role # "markup"
                    /\ k = blocks[n].first => lines[k].role = "entry"
<1>1. kind = "none" /\ i > Len(lines)
  BY DEF ShapeInv, FromBlocks
<1>2. \A l \in 1 .. Len(lines) : l <= PreviousLine
  BY <1>1, TextSeq DEF ShapeInv, IInv, SplitTypeOK, Partition
<1>3. PICK n \in 1 .. Len(blocks) : k \in Sent(blocks[n])
  BY DEF ShapeInv, FromBlocks
<1>4. blocks[n] \in Blocks /\ blocks[n].first \in Nat /\ blocks[n].last \in Nat
  BY BlockFields
<1>5. Body(blocks[n]) \subseteq blocks[n].first + 1 .. blocks[n].last
  BY DEF Body
<1>6. CASE blocks[n].kind = "prose"
  BY <1>2, <1>3, <1>4, <1>6 DEF Sent
<1>7. CASE blocks[n].kind = "directive" /\ lines[blocks[n].first].role = "admonition"
  <2>1. k \in blocks[n].first + 1 .. blocks[n].last
    BY <1>3, <1>5, <1>7 DEF Sent
  <2> QED
    BY <1>2, <1>4, <1>7, <2>1
<1>8. CASE blocks[n].kind = "directive" /\ lines[blocks[n].first].role = "toctree"
  <2>1. k \in blocks[n].first .. blocks[n].last /\ lines[k].role = "entry"
    BY <1>3, <1>8 DEF Sent
  <2> QED
    BY <1>2, <1>4, <1>8, <2>1
<1> QED
  BY <1>3, <1>6, <1>7, <1>8 DEF Sent

(* Every line of a directive's block that is not its first stands under it. *)
LEMMA UnderFirst ==
  ASSUME ShapeInv, NEW n \in 1 .. Len(blocks), blocks[n].kind = "directive",
         NEW k \in blocks[n].first .. blocks[n].last
  PROVE  Dots(blocks[n].first) /\ Under(k, blocks[n].first)
<1>1. blocks[n].first \in Nat /\ blocks[n].last \in Nat
  BY BlockFields
<1>2. Dots(blocks[n].first) /\ Under(blocks[n].last, blocks[n].first)
  BY DEF ShapeInv, Shaped, Shape
<1> QED
  BY <1>1, <1>2 DEF Under

LEMMA KeepsUnderlines == ShapeInv => UnderlinesKept
<1> SUFFICES ASSUME ShapeInv,
                    NEW k \in 2 .. Len(lines),
                    lines[k].class = "rule", lines[k].indent = 0, lines[k].width >= 3,
                    lines[k - 1].class = "text", lines[k].width + 1 >= lines[k - 1].width,
                    \A j \in 1 .. k - 1 : Dots(j) => ~Under(k, j),
                    k \in sent
             PROVE  FALSE
  BY DEF UnderlinesKept
<1>0. k \in Nat /\ Len(lines) \in Nat /\ lines[k] \in Lines
  BY TextSeq DEF ShapeInv, IInv, SplitTypeOK
<1>1. PICK n \in 1 .. Len(blocks) :
        /\ blocks[n] \in Blocks
        /\ k \in blocks[n].first .. blocks[n].last
        /\ \/ blocks[n].kind = "prose"
           \/ /\ blocks[n].kind = "directive"
              /\ lines[blocks[n].first].role # "markup"
              /\ k = blocks[n].first => lines[k].role = "entry"
  BY SentFrom
<1>2. /\ blocks[n].first \in Nat /\ blocks[n].last \in Nat
      /\ 1 <= blocks[n].first
  BY BlockFields
<1>3. CASE blocks[n].kind = "prose"
  <2>1. Underline(k, k - 1)
    BY <1>0 DEF Underline, Blank
  <2>2. ~Underline(k, k - 1)
    BY <1>1, <1>2, <1>3 DEF ShapeInv, Shaped, Shape
  <2> QED
    BY <2>1, <2>2
<1>4. CASE blocks[n].kind = "directive"
  <2>1. Dots(blocks[n].first) /\ Under(k, blocks[n].first)
    BY <1>1, <1>4, UnderFirst
  <2>2. blocks[n].first # k
    BY <2>1 DEF Dots
  <2> QED
    BY <1>1, <1>2, <2>1, <2>2
<1> QED
  BY <1>1, <1>3, <1>4

LEMMA KeepsDirectives == ShapeInv => DirectivesVerbatim
<1> SUFFICES ASSUME ShapeInv,
                    NEW j \in 1 .. Len(lines), Outermost(j), lines[j].role = "markup",
                    NEW k \in j .. Len(lines), Under(k, j), k \in sent \cup cut
             PROVE  FALSE
  BY DEF DirectivesVerbatim
<1>0. /\ Len(lines) \in Nat /\ j \in Nat /\ k \in Nat /\ 1 <= j /\ j <= k /\ k <= Len(lines)
      /\ lines[j].indent \in Nat
      /\ Dots(j) /\ ~Blank(j)
  <2>1. lines \in Seq(Lines) /\ Len(lines) \in Nat
    BY TextSeq DEF ShapeInv, IInv, SplitTypeOK
  <2>2. lines[j] \in Lines
    BY <2>1
  <2>3. lines[j].indent \in Nat
    BY <2>2, RstAssumption
  <2> QED
    BY <2>1, <2>3 DEF Outermost, Dots, Blank
<1>1. PICK n \in 1 .. Len(blocks) :
        /\ blocks[n] \in Blocks
        /\ k \in blocks[n].first .. blocks[n].last
        /\ \/ blocks[n].kind = "prose"
           \/ /\ blocks[n].kind = "directive"
              /\ lines[blocks[n].first].role # "markup"
              /\ k = blocks[n].first => lines[k].role = "entry"
  BY SentFrom
<1>2. PICK m \in 1 .. Len(blocks) : j \in blocks[m].first .. blocks[m].last
  BY SentFrom DEF ShapeInv, Covered
<1>3. /\ blocks[n].first \in Nat /\ blocks[n].last \in Nat
      /\ blocks[m].first \in Nat /\ blocks[m].last \in Nat
      /\ 1 <= blocks[m].first
      /\ blocks[m].kind \in Kinds
  BY BlockFields
<1>4. Shape(blocks[m]) /\ Full(blocks[m])
  BY DEF ShapeInv, Shaped
\* The block of the directive itself: it opens there, or holds it as code.
<1>5. \/ blocks[m].kind = "directive" /\ blocks[m].first = j
      \/ blocks[m].kind = "code" /\ lines[j].indent > 0
  <2>1. CASE blocks[m].kind = "directive"
    <3>1. Dots(blocks[m].first) /\ Under(j, blocks[m].first)
      BY <1>2, <2>1, UnderFirst
    <3>2. blocks[m].first \notin 1 .. j - 1
      BY <3>1 DEF Outermost
    <3> QED
      BY <1>0, <1>2, <1>3, <2>1, <3>2
  <2>2. CASE blocks[m].kind = "heading"
    BY <1>0, <1>2, <1>3, <1>4, <2>2 DEF Shape, Dots
  <2>3. CASE blocks[m].kind = "blank"
    BY <1>0, <1>2, <1>4, <2>3 DEF Shape
  <2>4. CASE blocks[m].kind = "code"
    BY <1>0, <1>2, <1>4, <2>4 DEF Shape
  <2>5. CASE blocks[m].kind = "prose"
    BY <1>0, <1>2, <1>4, <2>5 DEF Shape
  <2> QED
    BY <1>3, <2>1, <2>2, <2>3, <2>4, <2>5 DEF Kinds
\* It is not the block that was sent out, which comes after it.
<1>6. blocks[m].last < k
  <2>1. m # n
    BY <1>1, <1>5
  <2>2. ~(n < m)
    BY <1>0, <1>1, <1>2, <1>3 DEF ShapeInv, Ordered
  <2>3. m < n
    BY <1>3, <2>1, <2>2
  <2> QED
    BY <1>0, <1>1, <1>3, <2>3 DEF ShapeInv, Ordered
\* So the line that ended it stands under the directive, which it cannot.
<1>7. blocks[m].last + 1 \in j + 1 .. k
  BY <1>0, <1>2, <1>3, <1>6
<1>8. Blank(blocks[m].last + 1) \/ lines[blocks[m].last + 1].indent > lines[j].indent
  BY <1>7 DEF Under
<1>9. blocks[m].last + 1 <= Len(lines)
  BY <1>0, <1>3, <1>7
<1>10. lines[blocks[m].last + 1].indent \in Nat
  <2>1. lines \in Seq(Lines)
    BY TextSeq DEF ShapeInv, IInv, SplitTypeOK
  <2>2. lines[blocks[m].last + 1] \in Lines
    BY <1>0, <1>3, <1>7, <1>9, <2>1
  <2> QED
    BY <2>2, RstAssumption
<1> QED
  BY <1>0, <1>4, <1>5, <1>8, <1>9, <1>10 DEF Full

(* Directives that are not on the list of translatable ones reach the output as
   they stand: for every page, no line of one that no other directive encloses is
   sent to the translator or cut by a dedent. *)
THEOREM DirectivesUntouched == SplitSpec => []DirectivesVerbatim
BY InitShape, NextShape, KeepsDirectives, PTL DEF SplitSpec

(* For every page, the underline of a section title stays in place, also where it
   is one character short of the title. *)
THEOREM UnderlinesUntouched == SplitSpec => []UnderlinesKept
BY InitShape, NextShape, KeepsUnderlines, PTL DEF SplitSpec
=============================================================================
