------------------------------- MODULE RunWatch -------------------------------
(***************************************************************************)
(* What watches a run while it computes: the engine monitor, one sampler   *)
(* goroutine for the whole process, started by the first registered job    *)
(* and stopped by the last release; the heartbeat of each run; and the     *)
(* events they and the run itself publish (JobEvents).                     *)
(*                                                                         *)
(* em.mu is held across a step in one place only: release waits, under the *)
(* mutex, for the sampler goroutine to exit.  Every other critical section *)
(* is one action.                                                          *)
(***************************************************************************)
EXTENDS JobEvents, FiniteSets

CONSTANT
  MaxRuns    \* bound: runs of all the jobs together (each starts at most one sampler)

ASSUME WatchAssumption == MaxRuns \in Nat

Gen == 1..MaxRuns   \* sampler goroutines, in the order they are started

VARIABLES
  jpc,       \* where each job's worker is, from SetJobRunning to the cancel of runCtx
  runs,      \* runs so far
  started,   \* liveStats.started of the job's current run
  holder,    \* the release that holds em.mu while it waits, or NoJob ("nobody")
  watched,   \* em.jobs
  stopFn,    \* the sampler em.stopFn stops, or 0 for nil
  sampler,   \* each sampler goroutine: "none", "tick", "read", "send" or "gone"
  told,      \* its context is cancelled, its stop channel closed
  outs       \* the jobs it has a reading to publish for

watchVars == <<jpc, runs, started, holder, watched, stopFn, sampler, told, outs>>
vars == <<eventVars, watchVars>>

Init ==
  /\ InitEvents
  /\ jpc = [j \in Job |-> "idle"] /\ runs = 0
  /\ started = [j \in Job |-> FALSE]
  /\ holder = NoJob /\ watched = {} /\ stopFn = 0
  /\ sampler = [g \in Gen |-> "none"] /\ told = [g \in Gen |-> FALSE]
  /\ outs = [g \in Gen |-> {}]

-----------------------------------------------------------------------------
(* The run.                                                                *)

Goto(j, from, to) == jpc[j] = from /\ jpc' = [jpc EXCEPT ![j] = to]
Quiet == UNCHANGED eventVars

\* run: SetJobRunning, for a queued job or a paused one that was continued...
Begin(j) ==
  /\ runs < MaxRuns /\ runs' = runs + 1
  /\ status[j] \in {"queued", "paused"} /\ Goto(j, "idle", "announce")
  /\ status' = [status EXCEPT ![j] = "running"]
  /\ UNCHANGED <<lastPreview, readerVars, started, holder, watched, stopFn, sampler, told, outs>>

\* ... and the "starting" event.
Announce(j) ==
  /\ Goto(j, "announce", "execute")
  /\ Publish(j, Note)
  /\ UNCHANGED <<status, runs, started, holder, watched, stopFn, sampler, told, outs>>

Joined(j) ==
  /\ holder = NoJob
  /\ Goto(j, "execute", "live")
  /\ watched' = watched \cup {j}
  /\ started' = [started EXCEPT ![j] = FALSE]

StartSampler ==
  \E g \in Gen : /\ sampler[g] = "none" /\ \A h \in Gen : h < g => sampler[h] # "none"
                 /\ sampler' = [sampler EXCEPT ![g] = "tick"]
                 /\ stopFn' = g

\* Broken variant: every registration starts a sampler.
RegisterAlways(j) ==
  /\ Joined(j)
  /\ StartSampler
  /\ Quiet /\ UNCHANGED <<runs, holder, told, outs>>

\* execute: fresh liveStats, engineMonitor.register, and the heartbeat
\* goroutine.  (A masters build and an unknown mode return before this.)
Register(j) ==
  /\ Joined(j)
  /\ IF stopFn # 0 THEN UNCHANGED <<stopFn, sampler>> ELSE StartSampler
  /\ Quiet /\ UNCHANGED <<runs, holder, told, outs>>

\* pipeProg: a progress event, with or without a preview; it sets the live
\* position (a milestone preview alone does not; a tool's reading only does).
Progress(j) ==
  /\ jpc[j] = "live"
  /\ \/ Publish(j, Note) /\ started' = [started EXCEPT ![j] = TRUE]
     \/ /\ \E p \in Preview : Publish(j, Shows(p))
        /\ \E b \in {TRUE, started[j]} : started' = [started EXCEPT ![j] = b]
     \/ ~started[j] /\ started' = [started EXCEPT ![j] = TRUE] /\ UNCHANGED <<lastPreview, readerVars>>
  /\ UNCHANGED <<status, jpc, runs, holder, watched, stopFn, sampler, told, outs>>

\* Broken variant: the sampler is told to stop, but nobody waits for it.
ReleaseAtOnce(j) ==
  /\ holder = NoJob
  /\ Goto(j, "live", "write")
  /\ watched' = watched \ {j}
  /\ IF watched' # {} \/ stopFn = 0 THEN UNCHANGED <<told, stopFn>>
     ELSE told' = [told EXCEPT ![stopFn] = TRUE] /\ stopFn' = 0
  /\ Quiet /\ UNCHANGED <<holder, runs, started, sampler, outs>>

\* execute's deferred release: the last job out tells the sampler to stop,
\* and keeps em.mu.
Release(j) ==
  /\ holder = NoJob
  /\ watched' = watched \ {j}
  /\ \/ /\ watched' # {} \/ stopFn = 0
        /\ Goto(j, "live", "write")
        /\ UNCHANGED <<holder, told>>
     \/ /\ watched' = {} /\ stopFn # 0
        /\ Goto(j, "live", "stopping")
        /\ holder' = j
        /\ told' = [told EXCEPT ![stopFn] = TRUE]
  /\ Quiet /\ UNCHANGED <<runs, started, stopFn, sampler, outs>>

\* sysmon.Stop returns once the goroutine has exited.
Stopped(j) ==
  /\ holder = j /\ sampler[stopFn] = "gone"
  /\ Goto(j, "stopping", "write")
  /\ holder' = NoJob /\ stopFn' = 0
  /\ Quiet /\ UNCHANGED <<runs, started, watched, sampler, told, outs>>

\* The row first (FinishJob, or SetJobPaused) ...
EndRow(j) ==
  /\ Goto(j, "write", "tell") \/ Goto(j, "execute", "tell")
  /\ \E s \in {"over", "paused"} : status' = [status EXCEPT ![j] = s]
  /\ UNCHANGED <<lastPreview, readerVars, runs, started, holder, watched, stopFn, sampler, told, outs>>

\* ... then the Done event.
Tell(j) ==
  /\ Goto(j, "tell", "end")
  /\ Publish(j, Done)
  /\ UNCHANGED <<status, runs, started, holder, watched, stopFn, sampler, told, outs>>

\* run's deferred cancel of runCtx, which ends the heartbeat.
End(j) ==
  /\ Goto(j, "end", "idle")
  /\ started' = [started EXCEPT ![j] = FALSE]
  /\ Quiet /\ UNCHANGED <<runs, holder, watched, stopFn, sampler, told, outs>>

\* The heartbeat goroutine, from registration to the cancel of runCtx: its
\* line asks the monitor for a reading, so it needs em.mu too.
Beat(j) ==
  /\ jpc[j] \in {"live", "stopping", "write", "tell", "end"} /\ started[j]
  /\ holder = NoJob
  /\ Publish(j, Note)
  /\ UNCHANGED <<status, watchVars>>

-----------------------------------------------------------------------------
(* The sampler goroutine.                                                  *)

At(g, from, to) == sampler[g] = from /\ sampler' = [sampler EXCEPT ![g] = to]

\* A tick: ps answers, and the reading is about to be handed to onSample.
\* (The tick that got no answer changes nothing.)  Under a cancelled context
\* ps cannot be started.
Tick(g) ==
  /\ At(g, "tick", "read") /\ ~told[g]
  /\ Quiet /\ UNCHANGED <<jpc, runs, started, holder, watched, stopFn, told, outs>>

\* onSample, under em.mu: collect the position of every job that has one.
OnSample(g) ==
  /\ holder = NoJob
  /\ At(g, "read", "send")
  /\ outs' = [outs EXCEPT ![g] = {j \in watched : started[j]}]
  /\ Quiet /\ UNCHANGED <<jpc, runs, started, holder, watched, stopFn, told>>

\* onSample, after em.mu is released: publish one event per job.
SendReading(g) ==
  /\ \E j \in outs[g] : Publish(j, Note) /\ outs' = [outs EXCEPT ![g] = @ \ {j}]
  /\ UNCHANGED <<status, jpc, runs, started, holder, watched, stopFn, sampler, told>>

Sent(g) ==
  /\ outs[g] = {} /\ At(g, "send", "tick")
  /\ Quiet /\ UNCHANGED <<jpc, runs, started, holder, watched, stopFn, told, outs>>

Exit(g) ==
  /\ told[g] /\ At(g, "tick", "gone")
  /\ Quiet /\ UNCHANGED <<jpc, runs, started, holder, watched, stopFn, told, outs>>

-----------------------------------------------------------------------------
RunStep(j) ==
  \/ Announce(j) \/ Register(j) \/ Release(j) \/ Stopped(j)
  \/ EndRow(j) \/ Tell(j) \/ End(j)

SamplerStep(g) == OnSample(g) \/ SendReading(g) \/ Sent(g) \/ Exit(g)

Next ==
  \/ \E j \in Job : RunStep(j) \/ Begin(j) \/ Progress(j) \/ Beat(j)
  \/ \E g \in Gen : SamplerStep(g) \/ Tick(g)
  \/ \E r \in Reader : ReaderStep(r) /\ UNCHANGED watchVars

Spec == Init /\ [][Next]_vars

\* Goroutines that can run do, a run's computation ends, and a browser reads
\* what it is sent.  Nobody need connect, and no tick need find ps willing.
FairSpec ==
  /\ Spec
  /\ \A j \in Job : WF_vars(RunStep(j))
  /\ \A g \in Gen : WF_vars(SamplerStep(g))
  /\ \A r \in Reader : WF_vars(Serve(r) /\ UNCHANGED watchVars)

-----------------------------------------------------------------------------
TypeOK ==
  /\ EventsTypeOK
  /\ jpc \in [Job -> {"idle", "announce", "execute", "live", "stopping", "write", "tell", "end"}]
  /\ runs \in 0..MaxRuns /\ started \in [Job -> BOOLEAN]
  /\ holder \in Job \cup {NoJob} /\ watched \subseteq Job /\ stopFn \in Gen \cup {0}
  /\ sampler \in [Gen -> {"none", "tick", "read", "send", "gone"}]
  /\ told \in [Gen -> BOOLEAN] /\ outs \in [Gen -> SUBSET Job]

Alive(g) == sampler[g] \in {"tick", "read", "send"}

\* Never two samplers: resource numbers have one publisher, however runs
\* overlap ("the engine monitor is the single publisher of resource numbers").
OneSampler == \A g, h \in Gen : Alive(g) /\ Alive(h) => g = h

\* Outside the monitor's critical sections, a sampler is alive exactly while a
\* run is registered ("the first registered job starts the single sampler, the
\* last release stops it").
SamplerServesRuns ==
  holder = NoJob => ((\E g \in Gen : Alive(g)) <=> watched # {})

\* The last release returns, and em.mu with it: "the last release stops the
\* sampler".  It does not when the sampler has its reading in hand and waits
\* for the mutex release holds.
ReleaseReturns == \A j \in Job : holder = j ~> holder = NoJob

=============================================================================
