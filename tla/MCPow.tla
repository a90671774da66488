------------------------------- MODULE MCPow -------------------------------
EXTENDS Pow

(* Spacings shrink from height 3 to height 6, inside the averaging window. *)
ShrinkingRamps == << <<0, 4>>, <<3, 4>>, <<6, 2>> >>

(* One spacing for every height. *)
FlatRamp == << <<0, 4>> >>

(* Before the previous header, at its time, fast, on schedule for either   *)
(* spacing, slow, and beyond the clamp.                                    *)
SolveSteps == {-3, 0, 1, 2, 4, 24, 40}
=============================================================================
