----------------------------- MODULE MCMtPool -----------------------------
(* Instances of MtPool: two source files, one of a single unit and one of two,
   and a file outside Documentation/. *)
EXTENDS MtPool

CONSTANTS f1, f2, outside

MCListing == <<f1, f2>>

MCBatches == {<<f1, f2>>, <<f1, outside, f2>>, <<f1, f1>>}

MCUnits == [f \in Files |-> IF f = f1 THEN 1 ELSE 2]
=============================================================================
