------------------------------- MODULE WorkSweep -------------------------------
(***************************************************************************)
(* The scratch directories of runs (WorkDir/run_<stamp>) and the sweep     *)
(* that deletes old ones (sweepWorkScratch): at boot and after every job,  *)
(* in a goroutine of its own, while no job of this engine is in flight.    *)
(* A stamp is the time a run started; a resumed run keeps its first one.   *)
(* A run of the command line shares the directory and not the counter.     *)
(***************************************************************************)
EXTENDS Integers, FiniteSets

CONSTANTS
  Sweeper,     \* goroutines that may sweep
  MaxStamp     \* bound: runs that get a stamp of their own

ASSUME StampAssumption == MaxStamp \in Nat

Stamp == 1 .. MaxStamp

VARIABLES
  stamps,      \* stamps handed out so far
  there,       \* the run_<stamp> directories on disk
  old,         \* the stamps past the grace of two hours
  inFlight,    \* m.inFlight
  cli,         \* stamps of runs of the command line
  spc, names   \* step of a sweep, and the stale directories it listed

sweepVars == <<spc, names>>
workVars  == <<stamps, there, old, inFlight, cli, spc, names>>

WorkInit ==
  /\ stamps = 0 /\ there = {} /\ old = {} /\ inFlight = 0 /\ cli = {}
  /\ spc = [s \in Sweeper |-> "idle"] /\ names = [s \in Sweeper |-> {}]

\* A run gets its stamp from the clock.
NewStamp == stamps < MaxStamp /\ stamps' = stamps + 1

\* Two hours pass since a run got its stamp.
Age(d) ==
  /\ d <= stamps /\ d \notin old /\ old' = old \cup {d}
  /\ UNCHANGED <<stamps, there, inFlight, cli, spc, names>>

\* A run of the command line, while it works in its directory.
CliStarts ==
  /\ NewStamp /\ cli' = cli \cup {stamps'} /\ there' = there \cup {stamps'}
  /\ UNCHANGED <<old, inFlight, spc, names>>
CliEnds(d) == d \in cli /\ cli' = cli \ {d} /\ UNCHANGED <<stamps, there, old, inFlight, spc, names>>

\* staleWorkRuns; its broken variant takes every directory.
StaleAll(D) == D
Stale(D) == D \cap old

SweepStep(s, from, to) == spc[s] = from /\ spc' = [spc EXCEPT ![s] = to]

\* The goroutine starts: at boot, and at the end of every job.
SweepBegins == spc' \in {spc} \cup {[spc EXCEPT ![s] = "check"] : s \in {s \in Sweeper : spc[s] = "idle"}}

\* Jobs are in flight: not now.  Else list the directory.
SweepChecks(s) ==
  /\ SweepStep(s, "check", IF inFlight = 0 THEN "list" ELSE "idle")
  /\ UNCHANGED <<stamps, there, old, inFlight, cli, names>>
SweepLists(s) ==
  /\ SweepStep(s, "list", "loop")
  /\ names' = [names EXCEPT ![s] = Stale(there)]
  /\ UNCHANGED <<stamps, there, old, inFlight, cli>>

\* The counter is looked at again before each removal.
SweepLooks(s) ==
  /\ SweepStep(s, "loop", IF names[s] = {} \/ inFlight # 0 THEN "idle" ELSE "remove")
  /\ names' = IF names[s] = {} \/ inFlight # 0 THEN [names EXCEPT ![s] = {}] ELSE names
  /\ UNCHANGED <<stamps, there, old, inFlight, cli>>

\* RemoveAll, which may fail: the directory stays then.
SweepRemoves(s, d) ==
  /\ SweepStep(s, "remove", "loop")
  /\ d \in names[s] /\ names' = [names EXCEPT ![s] = @ \ {d}]
  /\ there' \in {there, there \ {d}}
  /\ UNCHANGED <<stamps, old, inFlight, cli>>
=============================================================================
