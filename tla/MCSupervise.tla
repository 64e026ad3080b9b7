------------------------------- MODULE MCSupervise -------------------------------
(***************************************************************************)
(* One knob per tier, and one that capToTier forgets at tier C.  The page  *)
(* that follows a run is tried with the run that has the fewest ways to go *)
(* (a reader only listens); every option of a run is tried both ways.      *)
(***************************************************************************)
EXTENDS Supervise

CONSTANTS saturation, background, trail_mask, seam_noise, r1

Kind(c, g, w, o, f) == [ceiling |-> c, gated |-> g, warm |-> w, goal |-> o, followed |-> f]

MCRun == {Kind(C, TRUE, FALSE, FALSE, FALSE), Kind(C, FALSE, TRUE, FALSE, FALSE),
          Kind(B, FALSE, FALSE, TRUE, FALSE), Kind(A, FALSE, FALSE, FALSE, TRUE)}
=============================================================================
