------------------------------ MODULE MCPages ------------------------------
(* Instances of Pages: two commits that change one source file, and add or remove a file
   that is translated only if it is named. *)
EXTENDS Pages, TLC

CONSTANTS changed, added

MCListing == <<added, changed>>

MCBatches == {<<added, changed>>}

(* The threads are alike, and no liveness is checked. *)
MCSymmetry == Permutations(Workers)

MCUnits == [f \in Files |-> 0]

MCContent ==
  [v \in Shas |-> [f \in Files |-> IF v = 2 THEN "new" ELSE IF f = changed THEN "old" ELSE Gone]]
=============================================================================
