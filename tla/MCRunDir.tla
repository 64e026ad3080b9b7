-------------------------------- MODULE MCRunDir --------------------------------
(***************************************************************************)
(* Two filters, so that one may fail or be left out while the other goes   *)
(* on; a run, then jobs that edit, refine or restart it.                   *)
(***************************************************************************)
EXTENDS RunDir
=============================================================================
