----------------------------- MODULE MCSegments -----------------------------
(***************************************************************************)
(* A small recording for Segments: the first segment has a timing record   *)
(* of its own, the others share one.                                       *)
(***************************************************************************)
EXTENDS Segments

FirstDiffers == [n \in 0 .. Count - 1 |-> IF n = 0 THEN "long" ELSE "even"]
=============================================================================
