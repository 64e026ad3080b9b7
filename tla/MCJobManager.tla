---------------------------- MODULE MCJobManager ----------------------------
(* Instances of the job manager: two folders, one inside the other, and    *)
(* requests that differ in what the control flow depends on.               *)
EXTENDS JobManager

CONSTANTS w1, w2, s1, target, lights

MCParent == [r \in Root |-> IF r = lights THEN {target} \cap Root ELSE {}]

MCLaneOf == [w \in Worker |-> IF w = s1 THEN "seq" ELSE "main"]

Req(l, r, sup, deepsky, series) ==
  [lane |-> l, roots |-> {r}, sup |-> sup, deepsky |-> deepsky, series |-> series,
   refine |-> FALSE, rerun |-> FALSE, denoise |-> FALSE]

PlainRequests    == {Req("main", target, TRUE, FALSE, FALSE)}
VideoRequests    == {Req("main", target, TRUE, FALSE, TRUE), Req("main", lights, FALSE, FALSE, FALSE)}
DeepskyRequests  == {Req("main", target, TRUE, TRUE, FALSE)}
TalkRequests == {Req("seq", target, TRUE, TRUE, FALSE), Req("seq", lights, FALSE, FALSE, FALSE)}
=============================================================================
