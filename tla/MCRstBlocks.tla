---------------------------- MODULE MCRstBlocks ----------------------------
(* Instances of RstBlocks: every page of at most MaxLines of these lines. *)
EXTENDS RstBlocks, FiniteSets

CONSTANT MaxLines

Line(class, role, indent, width, colons) ==
  [class |-> class, role |-> role, indent |-> indent, width |-> width, colons |-> colons]

MCLines ==
  { Line("blank", "none", 0, 0, FALSE),          \* ""
    Line("blank", "none", 2, 0, FALSE),          \* "  "
    Line("text", "none", 0, 4, FALSE),           \* "Text"
    Line("text", "none", 0, 4, TRUE),            \* "So::"
    Line("text", "none", 3, 7, FALSE),           \* "   body"
    Line("text", "none", 7, 11, FALSE),          \* "       deep"
    Line("text", "option", 3, 7, FALSE),         \* "   :a: b"
    Line("text", "entry", 3, 9, FALSE),          \* "   A <a>"
    Line("rule", "none", 0, 3, FALSE),           \* "==="
    Line("dots", "admonition", 0, 9, TRUE),      \* ".. note::"
    Line("dots", "toctree", 0, 12, TRUE),        \* ".. toctree::"
    Line("dots", "markup", 0, 12, FALSE),        \* ".. a comment"
    Line("dots", "markup", 3, 15, FALSE) }       \* "   .. a comment"

MCTexts == UNION {[1 .. n -> MCLines] : n \in 0 .. MaxLines}
=============================================================================
