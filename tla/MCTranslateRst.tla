-------------------------- MODULE MCTranslateRst --------------------------
(* Instances of TranslateRst: the pages of MCRstBlocks.  The paragraph of a page of one
   line, and the one-line body of an admonition, spell every text of at most MaxLen
   symbols; of two paragraphs, one text each; longer pages are only split. *)
EXTENDS TranslateRst

CONSTANTS MaxLines, MaxLen

Line(class, role, indent, width, colons) ==
  [class |-> class, role |-> role, indent |-> indent, width |-> width, colons |-> colons]

Empty == Line("blank", "none", 0, 0, FALSE)        \* ""
Text == Line("text", "none", 0, 4, FALSE)          \* "Text"
Indented == Line("text", "none", 3, 7, FALSE)      \* "   body"
Note == Line("dots", "admonition", 0, 9, TRUE)     \* ".. note::"

MCLines ==
  { Empty, Text, Indented, Note,
    Line("blank", "none", 2, 0, FALSE),          \* "  "
    Line("text", "none", 0, 4, TRUE),            \* "So::"
    Line("text", "none", 7, 11, FALSE),          \* "       deep"
    Line("text", "option", 3, 7, FALSE),         \* "   :a: b"
    Line("text", "entry", 3, 9, FALSE),          \* "   A <a>"
    Line("rule", "none", 0, 3, FALSE),           \* "==="
    Line("dots", "toctree", 0, 12, TRUE),        \* ".. toctree::"
    Line("dots", "markup", 0, 12, FALSE),        \* ".. a comment"
    Line("dots", "markup", 3, 15, FALSE) }       \* "   .. a comment"

MCTexts == UNION {[1 .. n -> MCLines] : n \in 0 .. MaxLines}

MCSources == UNION {[1 .. n -> Symbols] : n \in 0 .. MaxLen}

MCSpellings(page, paragraph) ==
  CASE paragraph = <<>> -> {}
    [] page = <<Text>> -> MCSources \ {<<>>}
    [] page = <<Note, Indented>> -> {<<Tick, Caps, Tick, Word>>}
    [] page \in {<<Text, Empty, Text>>, <<Text, Note, Indented>>} ->
         {<<Star, Tick, Hash, Tick, Star>>, <<Caps, Word>>}
    [] OTHER -> {}
=============================================================================
