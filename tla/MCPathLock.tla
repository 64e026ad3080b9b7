----------------------------- MODULE MCPathLock -----------------------------
(* A directory tree with a folder, one folder inside it, and one beside:   *)
(* data/M101, data/M101/lights and data/M31.                               *)
EXTENDS PathLock

CONSTANTS m101, lights, m31

MCParent == [r \in Root |-> IF r = lights THEN {m101} ELSE {}]
=============================================================================
