-------------------------- MODULE MCPlaceholders --------------------------
(* Instances of Placeholders: every text of at most MaxLen symbols. *)
EXTENDS Placeholders

CONSTANT MaxLen

MCSources == UNION {[1 .. n -> Symbols] : n \in 0 .. MaxLen}
=============================================================================
