----------------------------- MODULE MCSessionMerge -----------------------------
(***************************************************************************)
(* Two channels over two nights of this capture and one of an earlier      *)
(* session.  In L the largest group is not the anchor night's, and comes   *)
(* before it; in R two groups of the earlier session share a flat key and  *)
(* differ in gain, and the session has flats of another night too.         *)
(***************************************************************************)
EXTENDS SessionMerge

New(night, frames) == [session |-> 0, current |-> TRUE, night |-> night, gain |-> 0, frames |-> frames]
Old(gain, frames)  == [session |-> 1, current |-> FALSE, night |-> 1, gain |-> gain, frames |-> frames]
Raw(lane, night, gain) == [session |-> 1, lane |-> lane, night |-> night, gain |-> gain]

MCFilterOf == [L |-> "L", R |-> "R"]
MCCurrent == [L |-> <<New(1, 2), New(2, 1)>>, R |-> <<New(2, 3)>>]
MCPrior   == [L |-> {}, R |-> {Old(0, 1), Old(1, 1)}]
\* All straight; a star diagonal on the second night, at one gain of the earlier
\* session, or at both.
MCOptics == {{}, {<<0, 0, 2>>}, {<<1, 0, 1>>}, {<<1, 0, 1>>, <<1, 1, 1>>}}
MCRawFlat == {Raw("L", 1, 0), Raw("R", 1, 0), Raw("R", 2, 0), Raw("R", 2, 1)}
=============================================================================
