------------------------------ MODULE MCRunWatch ------------------------------
(* Two jobs whose runs overlap, one page, two previews.                    *)
EXTENDS RunWatch
CONSTANTS j1, j2, r1, p1, p2
=============================================================================
