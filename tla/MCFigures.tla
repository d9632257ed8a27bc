---------------------------- MODULE MCFigures ----------------------------
(* Instances of Figures: two pages that share a DOT file, an SVG file or the code
   of a DOT block, or have one file each, and five sets of tools. *)
EXTENDS Figures, TLC

CONSTANTS d, s, r, p1, p2

MCKind == [i \in Images |-> IF i = d THEN "dot" ELSE IF i = s THEN "svg" ELSE "render"]

MCLayouts == {l \in [Pages -> Images] : l[p1] = l[p2] \/ (l[p1] = d /\ l[p2] = s)}

MCToolsets == {{}, {"dot"}, {"dot", "dotpdf", "convert"}, {"dot", "dotpdf", "rsvg"},
               {"dot", "inkscape"}}

Alike == Permutations(Workers)
=============================================================================
