------------------------------- MODULE SerialLoop -------------------------------
(***************************************************************************)
(* What orderedFrames promises its caller: the serial loop it replaced.    *)
(* Frames are consumed one after the other, from the first, until all are  *)
(* or the loop gives up; it succeeds only when it has consumed them all.   *)
(***************************************************************************)
EXTENDS Integers, Sequences

CONSTANT Frames     \* how many

VARIABLES used, result

Init == used = <<>> /\ result = "none"

Consume ==
  /\ result = "none" /\ Len(used) < Frames
  /\ used' = Append(used, Len(used) + 1)
  /\ UNCHANGED result

Succeed == result = "none" /\ Len(used) = Frames /\ result' = "ok" /\ UNCHANGED used
GiveUp  == result = "none" /\ Len(used) < Frames /\ result' = "error" /\ UNCHANGED used

Next == Consume \/ Succeed \/ GiveUp
Spec == Init /\ [][Next]_<<used, result>>
=============================================================================
