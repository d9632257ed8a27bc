----------------------------- MODULE RstBlocks -----------------------------
(***************************************************************************)
(* scripts/mt.py: how translate_rst cuts a page into blocks and what of    *)
(* each block it sends to the translator.                                  *)
(*                                                                         *)
(* split_blocks walks over the lines once.  Opening a block is a turn of   *)
(* its outer loop, extending a block a turn of an inner loop.  Rendering a *)
(* block is translate_prose or translate_directive_block.                  *)
(***************************************************************************)
EXTENDS Naturals, Sequences

CONSTANTS
  Lines,   \* the lines a page may have
  Texts    \* the pages: sequences of lines

(* A rule is a run of one heading character, dots a line that starts with "..",
   colons a line that ends with "::". *)
Classes == {"blank", "rule", "dots", "text"}

(* What a regular expression of translate_directive_block sees in a line: a
   directive of TRANSLATABLE_DIRECTIVES, a toctree, any other explicit markup,
   an option, a toctree entry with a label. *)
Roles == {"none", "admonition", "toctree", "markup", "option", "entry"}

ASSUME RstAssumption ==
  /\ Lines \subseteq [class : Classes, role : Roles, indent : Nat, width : Nat,
                      colons : BOOLEAN]
  /\ \A l \in Lines : l.class = "dots" <=> l.role \in {"admonition", "toctree", "markup"}
  /\ Texts \subseteq Seq(Lines)

VARIABLES
  lines,      \* the lines of the page
  i,         \* the next line
  kind,      \* the kind of the block being read, or "none" between blocks
  start,     \* its first line
  blocks,    \* the blocks found
  rendered,  \* how many of them translate_rst has rendered
  sent,      \* the lines whose text went to the translator
  cut        \* the lines that lost text to the dedent of a directive's body

splitting == <<lines, i, kind, start, blocks>>
splitVars == <<lines, i, kind, start, blocks, rendered, sent, cut>>

Kinds == {"blank", "directive", "heading", "code", "prose"}

Blocks == [kind : Kinds, first : Nat, last : Nat]

SplitTypeOK ==
  /\ lines \in Texts
  /\ i \in 1 .. Len(lines) + 1
  /\ kind \in Kinds \cup {"none"}
  /\ start \in Nat
  /\ blocks \in Seq(Blocks)
  /\ rendered \in 0 .. Len(blocks)
  /\ sent \in SUBSET (1 .. Len(lines))
  /\ cut \in SUBSET (1 .. Len(lines))

SplitInit ==
  /\ lines \in Texts
  /\ i = 1
  /\ kind = "none"
  /\ start = 0
  /\ blocks = <<>>
  /\ rendered = 0
  /\ sent = {}
  /\ cut = {}

Blank(k) == lines[k].class = "blank"

Dots(k) == lines[k].class = "dots"

----------------------------------------------------------------------------
(* split_blocks. *)

(* Mutant: the underline must be as long as the title. *)
UnderlineStrict(k, p) ==
  /\ lines[k].class = "rule"
  /\ p > 0
  /\ ~(Blank(p) /\ lines[p].indent = 0)
  /\ lines[k].width >= 3
  /\ lines[k].width >= lines[p].width

(* is_heading_underline: line k below line p, or below nothing if p is 0.  It
   refuses a previous line only when that is empty: one of spaces will do. *)
Underline(k, p) ==
  /\ lines[k].class = "rule"
  /\ p > 0
  /\ ~(Blank(p) /\ lines[p].indent = 0)
  /\ lines[k].width >= 3
  /\ lines[k].width + 1 >= lines[p].width

PreviousLine == IF blocks = <<>> THEN 0 ELSE blocks[Len(blocks)].last

KindOf(k) ==
  CASE Blank(k) -> "blank"
    [] Dots(k) -> "directive"
    [] Underline(k, PreviousLine) -> "heading"
    [] OTHER ->
         IF /\ lines[k].indent > 0
            /\ blocks # <<>>
            /\ blocks[Len(blocks)].kind = "prose"
            /\ lines[PreviousLine].colons
         THEN "code"
         ELSE "prose"

Open ==
  /\ kind = "none"
  /\ i <= Len(lines)
  /\ kind' = KindOf(i)
  /\ start' = i
  /\ i' = IF kind' \in {"directive", "heading"} THEN i + 1 ELSE i
  /\ UNCHANGED <<lines, blocks, rendered, sent, cut>>

(* Mutant: a blank line ends a directive. *)
ContinuesToBlank(k) ==
  /\ k <= Len(lines)
  /\ \/ kind = "blank" /\ Blank(k)
     \/ kind = "directive" /\ ~Blank(k) /\ lines[k].indent > lines[start].indent
     \/ kind = "code" /\ (Blank(k) \/ lines[k].indent > 0)
     \/ /\ kind = "prose"
        /\ ~Blank(k) /\ ~Dots(k)
        /\ ~(k > start /\ Underline(k, k - 1))

(* The test of the inner loop of each kind. *)
Continues(k) ==
  /\ k <= Len(lines)
  /\ \/ kind = "blank" /\ Blank(k)
     \/ kind = "directive" /\ (Blank(k) \/ lines[k].indent > lines[start].indent)
     \/ kind = "code" /\ (Blank(k) \/ lines[k].indent > 0)
     \/ /\ kind = "prose"
        /\ ~Blank(k) /\ ~Dots(k)
        /\ ~(k > start /\ Underline(k, k - 1))

(* Mutant: the branch for blank lines forgets i += 1. *)
ExtendStuck ==
  /\ kind # "none"
  /\ Continues(i)
  /\ i' = IF kind = "directive" /\ Blank(i) THEN i ELSE i + 1
  /\ UNCHANGED <<lines, kind, start, blocks, rendered, sent, cut>>

Extend ==
  /\ kind # "none"
  /\ Continues(i)
  /\ i' = i + 1
  /\ UNCHANGED <<lines, kind, start, blocks, rendered, sent, cut>>

(* Mutant: the line that ended a directive is dropped. *)
CloseSkipping ==
  /\ kind # "none"
  /\ ~Continues(i)
  /\ blocks' = Append(blocks, [kind |-> kind, first |-> start, last |-> i - 1])
  /\ kind' = "none"
  /\ i' = IF kind = "directive" /\ i <= Len(lines) THEN i + 1 ELSE i
  /\ UNCHANGED <<lines, start, rendered, sent, cut>>

Close ==
  /\ kind # "none"
  /\ ~Continues(i)
  /\ blocks' = Append(blocks, [kind |-> kind, first |-> start, last |-> i - 1])
  /\ kind' = "none"
  /\ UNCHANGED <<lines, i, start, rendered, sent, cut>>

----------------------------------------------------------------------------
(* translate_rst. *)

(* translate_directive_block: the first line that is neither blank nor an
   option sets the indent of the body. *)
Body(b) ==
  {k \in b.first + 1 .. b.last :
     \E j \in b.first + 1 .. k : ~Blank(j) /\ lines[j].role # "option"}

BodyIndent(b) ==
  lines[CHOOSE k \in Body(b) : \A j \in Body(b) : k <= j].indent

(* Mutant: the end of a slice taken for its last line. *)
SentBeyond(b) ==
  CASE b.kind = "prose" -> b.first .. b.last + 1
    [] b.kind = "directive" /\ lines[b.first].role = "admonition" -> Body(b)
    [] OTHER -> {}

(* The lines whose text a block sends out: a paragraph whole, the body of an
   admonition, the labels of a toctree. *)
Sent(b) ==
  CASE b.kind = "prose" -> b.first .. b.last
    [] b.kind = "directive" /\ lines[b.first].role = "admonition" -> Body(b)
    [] b.kind = "directive" /\ lines[b.first].role = "toctree" ->
         {k \in b.first .. b.last : lines[k].role = "entry"}
    [] OTHER -> {}

(* l[body_indent:] of a line that is indented less loses text. *)
Cut(b) ==
  IF b.kind = "directive" /\ lines[b.first].role = "admonition"
  THEN {k \in Body(b) : ~Blank(k) /\ lines[k].indent < BodyIndent(b)}
  ELSE {}

Render ==
  /\ kind = "none"
  /\ i > Len(lines)
  /\ rendered < Len(blocks)
  /\ rendered' = rendered + 1
  /\ sent' = sent \cup Sent(blocks[rendered + 1])
  /\ cut' = cut \cup Cut(blocks[rendered + 1])
  /\ UNCHANGED splitting

SplitNext == Open \/ Extend \/ Close \/ Render

SplitSpec == SplitInit /\ [][SplitNext]_splitVars /\ WF_splitVars(SplitNext)

----------------------------------------------------------------------------
(* Properties. *)

(* No line is lost or doubled: the blocks are not empty, and joined they are the
   lines read so far. *)
Partition ==
  /\ \A n \in 1 .. Len(blocks) :
       /\ blocks[n].first = IF n = 1 THEN 1 ELSE blocks[n - 1].last + 1
       /\ blocks[n].first <= blocks[n].last
  /\ PreviousLine = IF kind = "none" THEN i - 1 ELSE start - 1

(* Line k is line j or stands below it, indented deeper. *)
Under(k, j) ==
  /\ j <= k
  /\ \A m \in j + 1 .. k : Blank(m) \/ lines[m].indent > lines[j].indent

(* A directive that no directive encloses. *)
Outermost(j) ==
  Dots(j) /\ \A m \in 1 .. j - 1 : Dots(m) => ~Under(j, m)

(* "RST directives are preserved verbatim": no line of a directive that is not
   on the list of translatable ones, nor of a comment or target, goes to the
   translator or loses text, unless another directive encloses it. *)
DirectivesVerbatim ==
  \A j \in 1 .. Len(lines) :
    Outermost(j) /\ lines[j].role = "markup" =>
      \A k \in j .. Len(lines) : Under(k, j) => k \notin sent \cup cut

(* The underline of a section title does not go to the translator, also where
   it is one character short. *)
UnderlinesKept ==
  \A k \in 2 .. Len(lines) :
    /\ lines[k].class = "rule" /\ lines[k].indent = 0 /\ lines[k].width >= 3
    /\ lines[k - 1].class = "text" /\ lines[k].width + 1 >= lines[k - 1].width
    /\ \A j \in 1 .. k - 1 : Dots(j) => ~Under(k, j)
    => k \notin sent

(* "Code blocks are preserved verbatim": no line of a literal block, which stands
   indented below a paragraph that ends with "::", goes to the translator. *)
LiteralsVerbatim ==
  \A j, k \in 1 .. Len(lines) :
    /\ lines[j].class = "text" /\ lines[j].colons
    /\ j + 1 < k /\ Blank(j + 1) /\ ~Blank(k) /\ Under(k, j)
    => k \notin sent
=============================================================================
