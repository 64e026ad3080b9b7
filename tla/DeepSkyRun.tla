------------------------------ MODULE DeepSkyRun ------------------------------
(***************************************************************************)
(* A deep-sky job that stacks its channels in waves (Process), with what   *)
(* the job manager makes of its end: the pause polled between two waves,   *)
(* the checkpoint that names the run and its output directory, the resume  *)
(* that takes a channel for stacked because its master exists, a cancel at *)
(* any time, a crash and the boot that puts the job back on the queue.     *)
(* The stack works in the scratch directory that WorkSweep may delete.     *)
(***************************************************************************)
EXTENDS WorkSweep, Sequences, SequencesExt

CONSTANTS
  Order,        \* orderedPlanFilters: the filters of the plan
  MaxCrashes    \* bound: crashes (within the manager's limit of restarts)

ASSUME OrderAssumption == Order \in Seq(ToSet(Order)) /\ IsInjective(Order) /\ Order # <<>>
ASSUME CrashAssumption == MaxCrashes \in Nat

Filter == ToSet(Order)
None == 0

VARIABLES
  parallel,     \* channelParallelism: the length of a wave
  job,          \* the status of the row
  lane,         \* its id is on a lane
  cp,           \* its resume column: the stamp of the paused run, or None
  pc, run,      \* the run: its step, and its stamp
  resumed,      \* opts.Resume
  first,        \* waveStart
  ch,           \* per channel: results and the work in progress
  mast,         \* master_<tag>.fits of the run: "none", "part" (written, not finished), "done"
  final,        \* res.Final: the channels it was made of, or {}
  gate, ctx,    \* a pause is requested; the context is cancelled
  out,          \* what Process returned
  harm,         \* history: channels hit by a kill, a failing stack or a sweep, and not stacked anew since
  soft,         \* history: channels with a finishing step that failed, which is a note and no more
  kept,         \* history: channels finished when the job was last parked
  crashes

runVars == <<pc, run, resumed, first, ch, mast, final, gate, ctx, out, harm, soft>>
jobVars == <<parallel, job, lane, cp, kept, crashes>>
vars    == <<workVars, runVars, jobVars>>

Wave == {Order[i] : i \in first .. IF first + parallel - 1 < Len(Order) THEN first + parallel - 1 ELSE Len(Order)}
Settled(f) == ch[f] \in {"ok", "err", "reused"}
Stacked == {f \in Filter : ch[f] \in {"ok", "reused"}}

Init ==
  /\ WorkInit
  /\ parallel \in 1 .. Len(Order)
  /\ job = "queued" /\ lane = TRUE /\ cp = None
  /\ pc = "off" /\ run = None /\ resumed = FALSE /\ first = 1
  /\ ch = [f \in Filter |-> "new"] /\ mast = [f \in Filter |-> "none"] /\ final = {}
  /\ gate = FALSE /\ ctx = FALSE /\ out = "none"
  /\ harm = {} /\ soft = {} /\ kept = {} /\ crashes = 0

-----------------------------------------------------------------------------
(* The run.                                                                *)

\* A worker takes the job: a resumed one keeps its stamp, and so its
\* directories; else the stamp and the output directory are new.
Start ==
  /\ pc = "off" /\ lane /\ lane' = FALSE
  /\ job' = "running" /\ inFlight' = inFlight + 1
  /\ resumed' = (cp # None)
  /\ IF cp # None
     THEN run' = cp /\ UNCHANGED <<stamps, mast, harm, soft>>
     ELSE /\ NewStamp /\ run' = stamps' /\ mast' = [f \in Filter |-> "none"] /\ harm' = {} /\ soft' = {}
  /\ pc' = "wave"
  /\ UNCHANGED <<first, ch, final, gate, ctx, out, parallel, cp, kept, crashes, there, old, cli, sweepVars>>

\* reuseStackedChannel: when resuming, for every channel whose master exists.
OnDisk(f) == mast[f] # "none"
Reuse(f) == resumed /\ OnDisk(f)

OpenWave ==
  /\ pc = "wave" /\ pc' = "stack"
  /\ ch' = [f \in Filter |-> IF f \in Wave THEN IF Reuse(f) THEN "reused" ELSE "wait" ELSE ch[f]]
  /\ UNCHANGED <<run, resumed, first, mast, final, gate, ctx, out, harm, soft, jobVars, workVars>>

\* The frames of a channel are linked into the scratch directory, which comes
\* back if it was gone.  The channels of a wave are stacked concurrently.
Link(f) ==
  /\ pc = "stack" /\ f \in Wave /\ ch[f] = "wait"
  /\ ch' = [ch EXCEPT ![f] = "stack"] /\ there' = there \cup {run}
  /\ UNCHANGED <<pc, run, resumed, first, mast, final, gate, ctx, out, harm, soft, jobVars,
                 stamps, old, inFlight, cli, sweepVars>>

\* Calibrated, registered, graded and stacked into the master; or the channel
\* fails, alone.  The master is written in place (CopyFile, WriteFITS, Siril's
\* own save): a stack that fails (a full disk) or a tool that is killed may leave
\* a part of it.  Frames that were deleted fail the stack, or are missing in it.
Fails(f) ==
  /\ ch' = [ch EXCEPT ![f] = "err"]
  /\ \/ mast' = [mast EXCEPT ![f] = "part"] /\ harm' = harm \cup {f}
     \/ UNCHANGED <<mast, harm>>
Stack(f) ==
  /\ ch[f] \in {"stack", "gutted"}
  /\ \/ /\ ~ctx /\ ch' = [ch EXCEPT ![f] = "finish"] /\ mast' = [mast EXCEPT ![f] = "part"]
        /\ harm' = IF ch[f] = "gutted" THEN harm \cup {f} ELSE harm \ {f}
     \/ Fails(f)
  /\ UNCHANGED <<pc, run, resumed, first, final, gate, ctx, out, soft, jobVars, workVars>>

\* finishLinearMaster, in place; its steps fail softly, with a note.
Finish(f) ==
  /\ ch[f] = "finish" /\ ch' = [ch EXCEPT ![f] = "ok"]
  /\ \/ mast' = [mast EXCEPT ![f] = "done"] /\ UNCHANGED soft
     \/ soft' = soft \cup {f} /\ UNCHANGED mast
  /\ UNCHANGED <<pc, run, resumed, first, final, gate, ctx, out, harm, jobVars, workVars>>

\* Broken variant: the gate is polled while channels are still being finished.
EndOfWaveEarly == \A f \in Wave : Settled(f) \/ ch[f] = "finish"
\* Every channel of the wave is settled.
EndOfWave == \A f \in Wave : Settled(f)

\* The boundary after a wave, the last one included: pause, go on, or combine.
CloseWave ==
  /\ pc = "stack" /\ EndOfWave
  /\ CASE gate -> pc' = "return" /\ out' = "paused" /\ UNCHANGED first
       [] ~gate /\ first + parallel <= Len(Order) -> pc' = "wave" /\ first' = first + parallel /\ UNCHANGED out
       [] OTHER -> pc' = "combine" /\ UNCHANGED <<first, out>>
  /\ UNCHANGED <<run, resumed, ch, mast, final, gate, ctx, harm, soft, jobVars, workVars>>

\* combine makes the final image of the channels that were stacked, or none.
Combine ==
  /\ pc = "combine" /\ pc' = "verdict"
  /\ final' \in {{}} \cup (IF ctx THEN {} ELSE {Stacked})
  /\ UNCHANGED <<run, resumed, first, ch, mast, gate, ctx, out, harm, soft, jobVars, workVars>>

\* combineFailure: no image of several channels, or no channel, unless the run
\* was cancelled.
CombineFailed == ~ctx /\ final = {} /\ Cardinality(Stacked) # 1
Verdict ==
  /\ pc = "verdict" /\ pc' = "return"
  /\ out' = IF CombineFailed THEN "error" ELSE "ok"
  /\ UNCHANGED <<run, resumed, first, ch, mast, final, gate, ctx, harm, soft, jobVars, workVars>>

-----------------------------------------------------------------------------
(* The job manager.                                                        *)

\* Broken variant: a nil error is a success.
StatusOfError == CASE out = "paused" -> "paused" [] out = "error" -> "failed" [] OTHER -> "succeeded"
\* run(): a pause before anything else, then the error, then the context.
Status == CASE out = "paused" -> "paused"
            [] out # "paused" /\ ctx -> "cancelled"
            [] out = "error" /\ ~ctx -> "failed"
            [] OTHER -> "succeeded"

\* The memory of a run goes with it; its result stays if it succeeded.
Forget(stays) ==
  /\ pc' = "off" /\ run' = None /\ first' = 1
  /\ gate' = FALSE /\ ctx' = FALSE /\ out' = "none"
  /\ IF stays THEN UNCHANGED <<ch, final, resumed>>
     ELSE ch' = [f \in Filter |-> "new"] /\ final' = {} /\ resumed' = FALSE

\* The row is written, with the checkpoint of a pause; the worker is free, and a
\* sweep begins.
Return ==
  /\ pc = "return" /\ Forget(Status = "succeeded")
  /\ job' = Status
  /\ cp' = IF Status = "paused" THEN run ELSE None
  /\ kept' = IF Status = "paused" THEN {f \in Filter : mast[f] = "done"} ELSE {}
  /\ inFlight' = inFlight - 1 /\ SweepBegins
  /\ UNCHANGED <<parallel, mast, harm, soft, lane, crashes, stamps, there, old, cli, names>>

Cancel ==
  /\ pc # "off" /\ ~ctx /\ ctx' = TRUE
  /\ UNCHANGED <<pc, run, resumed, first, ch, mast, final, gate, out, harm, soft, jobVars, workVars>>
Pause ==
  /\ pc # "off" /\ ~gate /\ gate' = TRUE
  /\ UNCHANGED <<pc, run, resumed, first, ch, mast, final, ctx, out, harm, soft, jobVars, workVars>>
Continue ==
  /\ job = "paused" /\ ~lane /\ lane' = TRUE
  /\ UNCHANGED <<parallel, job, cp, kept, crashes, runVars, workVars>>

\* Broken variant: the boot forgets the checkpoint.
RequeuedAnew == [status |-> "queued", cp |-> None]
\* RequeueRunningJobs: the row of a run that died keeps its resume column.
Requeued == [status |-> "queued", cp |-> cp]

\* The engine dies and boots: the lanes are filled from the rows, a sweep begins.
Crash ==
  /\ crashes < MaxCrashes /\ crashes' = crashes + 1
  /\ LET mid == {f \in Filter : pc # "off" /\ ch[f] \in {"stack", "gutted", "finish"}} IN
     /\ harm' = harm \cup mid
     /\ \E torn \in SUBSET {f \in mid : ch[f] # "finish"} :
          mast' = [f \in Filter |-> IF f \in torn THEN "part" ELSE mast[f]]
  /\ IF job = "running" THEN job' = Requeued.status /\ cp' = Requeued.cp ELSE UNCHANGED <<job, cp>>
  /\ lane' = (job \in {"running", "queued"})
  /\ Forget(job = "succeeded")
  /\ inFlight' = 0
  /\ spc' \in {[s \in Sweeper |-> "idle"]} \cup {[t \in Sweeper |-> IF t = s THEN "check" ELSE "idle"] : s \in Sweeper}
  /\ names' = [s \in Sweeper |-> {}]
  /\ UNCHANGED <<parallel, soft, kept, stamps, there, old, cli>>

\* A sweep removes a directory, perhaps the one a channel is being stacked in.
Sweep(s, d) ==
  /\ SweepRemoves(s, d)
  /\ ch' = [f \in Filter |-> IF d = run /\ d \notin there' /\ ch[f] = "stack" THEN "gutted" ELSE ch[f]]
  /\ UNCHANGED <<pc, run, resumed, first, mast, final, gate, ctx, out, harm, soft, jobVars>>

Outside ==
  /\ \/ \E d \in Stamp : Age(d) \/ CliEnds(d)
     \/ CliStarts
     \/ \E s \in Sweeper : SweepChecks(s) \/ SweepLists(s) \/ SweepLooks(s)
  /\ UNCHANGED <<runVars, jobVars>>

Next ==
  \/ Start \/ OpenWave \/ CloseWave \/ Combine \/ Verdict \/ Return
  \/ \E f \in Filter : Link(f) \/ Stack(f) \/ Finish(f)
  \/ Cancel \/ Pause \/ Continue \/ Crash
  \/ \E s \in Sweeper, d \in Stamp : Sweep(s, d)
  \/ Outside

Spec == Init /\ [][Next]_vars

-----------------------------------------------------------------------------
(* Properties.                                                             *)

ChState == {"new", "wait", "stack", "gutted", "finish", "ok", "err", "reused"}
TypeOK ==
  /\ stamps \in 0 .. MaxStamp /\ there \subseteq Stamp /\ old \subseteq Stamp /\ cli \subseteq Stamp
  /\ inFlight \in {0, 1}
  /\ spc \in [Sweeper -> {"idle", "check", "list", "loop", "remove"}] /\ names \in [Sweeper -> SUBSET Stamp]
  /\ parallel \in 1 .. Len(Order)
  /\ job \in {"queued", "running", "paused", "succeeded", "failed", "cancelled"} /\ lane \in BOOLEAN
  /\ cp \in Stamp \cup {None} /\ run \in Stamp \cup {None}
  /\ pc \in {"off", "wave", "stack", "combine", "verdict", "return"}
  /\ resumed \in BOOLEAN /\ first \in 1 .. Len(Order)
  /\ ch \in [Filter -> ChState] /\ mast \in [Filter -> {"none", "part", "done"}]
  /\ final \subseteq Filter /\ gate \in BOOLEAN /\ ctx \in BOOLEAN
  /\ out \in {"none", "ok", "error", "paused"}
  /\ harm \subseteq Filter /\ soft \subseteq Filter /\ kept \subseteq Filter /\ crashes \in 0 .. MaxCrashes

\* A run that was started anew composites only masters that are whole, whatever
\* was cancelled, paused or swept meanwhile: stacked from all their frames, and
\* finished but for the steps that failed with a note.  Only a resumed run may
\* take one that was hit, by the kill or crash of an earlier attempt, by a stack
\* that failed halfway through the file (reuseStackedChannel asks only whether
\* it exists), or by a sweep of its scratch.
CompositedIsWhole ==
  \A f \in final : IF f \in harm THEN resumed ELSE mast[f] = "done" \/ f \in soft

\* A job that succeeded has at least one stacked channel, and an image if it has
\* several, whenever a cancel arrived between the steps that only warn
\* (combineFailure, run).
SucceededHasImage ==
  job = "succeeded" => Stacked # {} /\ (Cardinality(Stacked) > 1 => final = Stacked)

\* A channel finished before a pause is never stacked again, through continues,
\* further pauses, crashes and boots (ResumeState, RequeueRunningJobs).
KeptByPause ==
  [][\A f \in Filter : ch[f] = "wait" /\ ch'[f] = "stack" => f \notin kept]_vars

\* The sweep never deletes the scratch of a live run: except of a resumed one,
\* whose stamp is old when a sweep that saw no job goes on, and of a run of the
\* command line that is older than the grace (sweepWorkScratch).
SweepSpares ==
  [][\A d \in there \ there' : ~(d = run /\ ~resumed) /\ (d \in cli => d \in old)]_vars
=============================================================================
