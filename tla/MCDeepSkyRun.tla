----------------------------- MODULE MCDeepSkyRun -----------------------------
(***************************************************************************)
(* Two channels, one after the other or in one wave: a pause can fall      *)
(* between the two and after the last.                                     *)
(***************************************************************************)
EXTENDS DeepSkyRun

const_Order == <<"L", "R">>
=============================================================================
