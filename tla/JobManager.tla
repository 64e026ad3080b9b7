----------------------------- MODULE JobManager -----------------------------
(***************************************************************************)
(* internal/job: the manager that turns HTTP requests into pipeline runs.  *)
(* A job is a row in Postgres and, while the process lives, an id on one   *)
(* of two bounded lanes (a Go channel each).  Workers take ids off their   *)
(* lane, read the row, take the lock on the input roots, register a cancel *)
(* function and a pause gate, mark the row running, run the pipeline, and  *)
(* write how it ended.  Requests (Enqueue, Restart, Cancel, Pause,         *)
(* Continue) run on their own goroutines and touch the same rows and maps. *)
(*                                                                         *)
(* The grain: one action per SQL statement, per critical section of m.mu,  *)
(* per channel operation.  The pipeline itself is one step that ends in    *)
(* any of the ways execute can end.  Progress events, previews and log     *)
(* lines are left out.                                                     *)
(***************************************************************************)
EXTENDS Naturals, Sequences, FiniteSets

CONSTANTS
  Worker,              \* the goroutines Start launches
  LaneOf,              \* LaneOf[w]: the lane worker w drains
  NoWorker,            \* "nobody", in the cancels map
  Client,              \* HTTP handler goroutines
  Request,             \* the run requests clients submit
  Ops,                 \* what else clients ask for
  Root, Parent,        \* input roots and their tree, as in PathLock
  MaxJobs,             \* bound: job rows ever created
  LaneCap,             \* capacity of a lane (256 in the code)
  MaxRestartRequeues,  \* how often a restart may hand a job back (3 in the code)
  MaxBoots,            \* bound: restarts of the server
  CanStop,             \* whether a boot may be preceded by SIGTERM
  DBMayFail            \* whether the statements whose error is ignored may fail

Lane == {"main", "seq"}
Job  == 1..MaxJobs

\* What a request says that the manager's control flow depends on: its lane
\* (Sequential), its input roots, whether it is supervised (it then has a
\* conversation), its mode (deep-sky or another), whether it belongs to a
\* series the manager may continue by itself, and whether it carries a
\* Refine, a Rerun or a DenoiseFinal block.
RequestType == [lane : Lane, roots : (SUBSET Root) \ {{}}, sup : BOOLEAN, deepsky : BOOLEAN,
                series : BOOLEAN, refine : BOOLEAN, rerun : BOOLEAN, denoise : BOOLEAN]

\* Only the full deep-sky pipeline polls the pause gate: execute hands it to
\* no other mode, and to none of the three re-finishing paths.
Pausable(q) == q.deepsky /\ ~q.refine /\ ~q.rerun /\ ~q.denoise

ASSUME ManagerAssumption ==
  /\ Parent \in [Root -> SUBSET Root]
  /\ LaneOf \in [Worker -> Lane]
  /\ NoWorker \notin Worker
  /\ Request \subseteq RequestType /\ Request # {}
  /\ Ops \subseteq {"cancel", "pause", "continue", "replay"}
  /\ MaxJobs \in Nat /\ LaneCap \in Nat \ {0}
  /\ MaxRestartRequeues \in Nat /\ MaxBoots \in Nat
  /\ CanStop \in BOOLEAN /\ DBMayFail \in BOOLEAN

VARIABLES
  row,        \* the jobs table
  nextId,     \* the id sequence of the jobs table
  up,         \* the process: "up", "booting", "stopping" (ctx cancelled), "down"
  lane,       \* the two channels
  dispatch,   \* ids redispatchQueued has still to push
  turn,       \* jobTurns: jobs whose conversation is open
  cancels,    \* m.cancels / m.pauses: job -> the run registered for it
  inside,     \* the path locker: the roots each worker holds
  wpc, wjob,  \* each worker's place in run(), and its job
  wdone,      \* runCtx is cancelled
  wgate,      \* the pause gate is set
  wout,       \* how execute ended, then what run() decided to write
  cpc, cjob,  \* each request handler's place, and the job it is about
  dropped,    \* ids that met a full lane and stay queued with nobody to run them
  asked,      \* history: jobs somebody asked to cancel or to pause
  handed,     \* history: times a restart handed the job back to the queue
  boots       \* history: restarts so far

dbVars     == <<row, nextId>>
mapVars    == <<turn, cancels, inside>>
laneVars   == <<lane, dispatch, dropped>>
workerVars == <<wpc, wjob, wdone, wgate, wout>>
clientVars == <<cpc, cjob>>
histVars   == <<asked, handed, boots>>
vars == <<dbVars, up, laneVars, mapVars, workerVars, clientVars, histVars>>

Terminal == {"succeeded", "failed", "cancelled"}
Status   == {"none", "queued", "running", "paused"} \cup Terminal

\* A job row.  cp: the resume column carries the checkpoint of a pause
\* (run id and output dir); restarts: its restart count; kept: the result
\* column names a run on disk.
Row == [status : Status, cp : BOOLEAN, restarts : Nat, kept : BOOLEAN, req : RequestType]

NewRow(st, q) == [status |-> st, cp |-> FALSE, restarts |-> 0, kept |-> FALSE, req |-> q]

Locks == INSTANCE RootMutex WITH Client <- Worker

AnyRequest == CHOOSE q \in Request : TRUE

Init ==
  /\ row = [j \in Job |-> NewRow("none", AnyRequest)]
  /\ nextId = 1
  /\ up = "up"
  /\ lane = [l \in Lane |-> << >>] /\ dispatch = {} /\ dropped = {}
  /\ turn = {} /\ cancels = [j \in Job |-> NoWorker] /\ inside = [w \in Worker |-> {}]
  /\ wpc = [w \in Worker |-> "idle"] /\ wjob = [w \in Worker |-> 0]
  /\ wdone = [w \in Worker |-> FALSE] /\ wgate = [w \in Worker |-> FALSE]
  /\ wout = [w \in Worker |-> "none"]
  /\ cpc = [c \in Client |-> "idle"] /\ cjob = [c \in Client |-> 0]
  /\ asked = {} /\ handed = [j \in Job |-> 0] /\ boots = 0

-----------------------------------------------------------------------------
(* Row updates: one operator per UPDATE statement of internal/store.       *)

SetStatus(j, st) == row' = [row EXCEPT ![j].status = st]

\* FinishJob: the terminal status and the result; the resume column is emptied.
FinishJob(j, st, res) ==
  row' = [row EXCEPT ![j].status = st, ![j].cp = FALSE, ![j].restarts = 0, ![j].kept = res]

\* SetJobPaused: the resume column is REPLACED by the marshalled checkpoint,
\* whose Go type has no restart count.
SetJobPaused(j) ==
  row' = [row EXCEPT ![j].status = "paused", ![j].cp = TRUE, ![j].restarts = 0]

\* An UPDATE whose error the caller drops: it lands, or (when the database
\* may fail) it does not.
Ignored(A) == A \/ (DBMayFail /\ UNCHANGED row)

\* CreateJob inserts the row; a supervised request's conversation is minted
\* before the id is pushed, so the worker always finds it.
CreateJob(req) ==
  /\ nextId \in Job
  /\ row' = [row EXCEPT ![nextId] = NewRow("queued", req)]
  /\ turn' = IF req.sup THEN turn \cup {nextId} ELSE turn
  /\ nextId' = nextId + 1

LaneFor(j) == row[j].req.lane

Room(l) == Len(lane[l]) < LaneCap
Send(l, j) == lane' = [lane EXCEPT ![l] = Append(@, j)]

\* The non-blocking send of a queued job, "select { case lane <- id: default: }":
\* on a full lane the id is given up and the row stays queued.
Schedule(l, j) ==
  IF Room(l) THEN Send(l, j) /\ UNCHANGED dropped
             ELSE dropped' = dropped \cup {j} /\ UNCHANGED lane

-----------------------------------------------------------------------------
(* Workers.                                                                *)

Step(w, from, to) == wpc[w] = from /\ wpc' = [wpc EXCEPT ![w] = to]

\* run returns and its locals with it.
Return(w) ==
  /\ wpc' = [wpc EXCEPT ![w] = "idle"] /\ wjob' = [wjob EXCEPT ![w] = 0]
  /\ wdone' = [wdone EXCEPT ![w] = FALSE] /\ wgate' = [wgate EXCEPT ![w] = FALSE]
  /\ wout' = [wout EXCEPT ![w] = "none"]

\* worker: receive an id from the lane.  Go picks either ready case of the
\* select, so a stopping server may still take one.
Dequeue(w) ==
  LET l == LaneOf[w] IN
  /\ up # "down" /\ lane[l] # << >>
  /\ Step(w, "idle", "read")
  /\ wjob' = [wjob EXCEPT ![w] = Head(lane[l])]
  /\ lane' = [lane EXCEPT ![l] = Tail(@)]
  /\ UNCHANGED <<dbVars, up, dispatch, dropped, mapVars, wdone, wgate, wout, clientVars, histVars>>

\* run: GetJob fails (the database, or ctx is cancelled): the id is gone.
ReadFails(w) ==
  /\ DBMayFail \/ up = "stopping"
  /\ wpc[w] = "read" /\ Return(w)
  /\ UNCHANGED <<dbVars, up, laneVars, mapVars, clientVars, histVars>>

\* Broken variant: the conversation of a skipped job stays open.
SkipCancelledSilently(w) ==
  /\ wpc[w] = "read" /\ up # "stopping"
  /\ row[wjob[w]].status = "cancelled"
  /\ Return(w)
  /\ UNCHANGED <<dbVars, up, laneVars, mapVars, clientVars, histVars>>

\* run: the row says cancelled: close the conversation and skip the job.
SkipCancelled(w) ==
  /\ wpc[w] = "read" /\ up # "stopping"
  /\ row[wjob[w]].status = "cancelled"
  /\ Return(w)
  /\ turn' = turn \ {wjob[w]}
  /\ UNCHANGED <<dbVars, up, laneVars, cancels, inside, clientVars, histVars>>

\* Broken variant: the status is not looked at.
GoOnAnyway(w) ==
  /\ Step(w, "read", "lock") /\ up # "stopping"
  /\ UNCHANGED <<dbVars, up, laneVars, mapVars, wjob, wdone, wgate, wout, clientVars, histVars>>

\* run: any other status goes on to the lock.  The status is not looked at
\* again.
GoOn(w) ==
  /\ Step(w, "read", "lock") /\ up # "stopping"
  /\ row[wjob[w]].status # "cancelled"
  /\ UNCHANGED <<dbVars, up, laneVars, mapVars, wjob, wdone, wgate, wout, clientVars, histVars>>

\* Publish the cancel function and a fresh pause gate.
Register(w) ==
  /\ cancels' = [cancels EXCEPT ![wjob[w]] = w]
  /\ wdone' = [wdone EXCEPT ![w] = (up = "stopping")]
  /\ UNCHANGED <<dbVars, up, laneVars, turn, wjob, wgate, wout, clientVars, histVars>>

\* Broken variant: a resumed job, whose output directory is its own, does not
\* wait for the lock.
LockUnlessResumed(w) ==
  /\ Step(w, "lock", "start")
  /\ Register(w)
  /\ IF row[wjob[w]].cp THEN inside' = [inside EXCEPT ![w] = row[wjob[w]].req.roots]
                        ELSE Locks!Enter(w, row[wjob[w]].req.roots)

\* Broken variant: only the very same folder conflicts.
LockExact(w) ==
  /\ Step(w, "lock", "start")
  /\ Register(w)
  /\ \A v \in Worker : row[wjob[w]].req.roots \cap inside[v] = {}
  /\ inside' = [inside EXCEPT ![w] = row[wjob[w]].req.roots]

\* lockTarget(inputRoots): blocks while any overlapping root is held; then
\* publish the cancel function and a fresh pause gate under m.mu.  (One step:
\* nobody can tell a run that holds its roots from one that waits for them
\* until it is in the maps, except the jobs its roots keep out.)
AcquireLock(w) ==
  /\ Step(w, "lock", "start")
  /\ Locks!Enter(w, row[wjob[w]].req.roots)
  /\ Register(w)

\* SetJobRunning, unconditional, its error dropped; it runs under ctx and so
\* fails once the server is stopping.
SetRunning(w) ==
  /\ Step(w, "start", "exec")
  /\ IF up = "stopping" THEN UNCHANGED row ELSE Ignored(SetStatus(wjob[w], "running"))
  /\ UNCHANGED <<nextId, up, laneVars, mapVars, wjob, wdone, wgate, wout, clientVars, histVars>>

\* What run() makes of execute's outcome: a pause is looked for before the
\* context; under a cancelled context an error is a cancellation, and so is a
\* result, which is kept ("partial").
Verdict(o, done) ==
  CASE o \in {"paused", "panic"} -> o
    [] o = "error"               -> IF done THEN "cancelled" ELSE "failed"
    [] o = "ok"                  -> IF done THEN "partial" ELSE "succeeded"

\* execute returns: a result, an error, a *PausedError (the deep-sky path
\* polled a set gate between two channel waves), or a panic, and run looks at
\* the error and at runCtx.Err().  A panic unwinds run's deferred calls
\* first; runGuarded's recover then fails the job.
Execute(w) ==
  /\ \E o \in {"ok", "error", "paused", "panic"} :
       /\ o = "paused" => wgate[w] /\ Pausable(row[wjob[w]].req)
       /\ wout' = [wout EXCEPT ![w] = Verdict(o, wdone[w])]
       /\ Step(w, "exec", IF o = "panic" THEN "unregister" ELSE "write")
  /\ UNCHANGED <<dbVars, up, laneVars, mapVars, wjob, wdone, wgate, clientVars, histVars>>

Panicked(w) == wout[w] = "panic"

\* The UPDATE that ends a run.
EndUpdate(w) ==
  CASE wout[w] = "panic"   -> FinishJob(wjob[w], "failed", FALSE)
    [] wout[w] = "paused"  -> SetJobPaused(wjob[w])
    [] wout[w] = "partial" -> FinishJob(wjob[w], "cancelled", TRUE)
    [] OTHER               -> FinishJob(wjob[w], wout[w], wout[w] = "succeeded")

\* finishTerminal / finishSucceeded / the cancelled-with-a-result branch /
\* pauseJob: one UPDATE each, under a fresh context.  pauseJob gives up
\* silently when its UPDATE fails.
WriteEnd(w) ==
  /\ Step(w, "write", IF wout[w] = "paused" THEN "unregister" ELSE "close")
  /\ Ignored(EndUpdate(w))
  /\ UNCHANGED <<nextId, up, laneVars, mapVars, wjob, wdone, wgate, wout, clientVars, histVars>>

\* Broken variant: only a success closes the conversation.
CloseTurnOnSuccess(w) ==
  /\ ~Panicked(w)
  /\ Step(w, "close", IF wout[w] = "succeeded" /\ row[wjob[w]].req.series
                      THEN "series" ELSE "unregister")
  /\ turn' = IF wout[w] = "succeeded" THEN turn \ {wjob[w]} ELSE turn
  /\ UNCHANGED <<dbVars, up, laneVars, cancels, inside, wjob, wdone, wgate, wout, clientVars, histVars>>

\* closeTurn: unbind and finish the conversation, if it is still bound.
CloseTurn(w) ==
  /\ ~Panicked(w)
  /\ Step(w, "close", IF wout[w] = "succeeded" /\ row[wjob[w]].req.series
                      THEN "series" ELSE "unregister")
  /\ turn' = turn \ {wjob[w]}
  /\ UNCHANGED <<dbVars, up, laneVars, cancels, inside, wjob, wdone, wgate, wout, clientVars, histVars>>

\* The same after a panic, when run has already been unwound.
ClosePanicked(w) ==
  /\ Panicked(w) /\ wpc[w] = "close" /\ Return(w)
  /\ turn' = turn \ {wjob[w]}
  /\ UNCHANGED <<dbVars, up, laneVars, cancels, inside, clientVars, histVars>>

\* maybeContinueSeries, seen from here: the series asks for no more...
SeriesStops(w) ==
  /\ Step(w, "series", "unregister")
  /\ UNCHANGED <<dbVars, up, laneVars, mapVars, wjob, wdone, wgate, wout, clientVars, histVars>>

\* ... or the worker enqueues the next attempt itself, always supervised, on
\* the main pool and without the Refine block, still holding its own lock and
\* registration.  (Enqueue's two halves in one step: the id is not known to
\* anybody else yet, and a crash between them leaves what a crash after them
\* does, a queued row.)
SeriesNext(w) ==
  /\ Step(w, "series", "unregister")
  /\ CreateJob([row[wjob[w]].req EXCEPT !.refine = FALSE, !.lane = "main", !.sup = TRUE])
  /\ Schedule("main", nextId)
  /\ UNCHANGED <<up, dispatch, cancels, inside, wjob, wdone, wgate, wout, clientVars, histVars>>

\* run's deferred calls, last in first out: cancel the context and take the
\* run out of the maps...
Unregister(w) ==
  /\ Step(w, "unregister", "unlock")
  /\ cancels' = [cancels EXCEPT ![wjob[w]] = NoWorker]
  /\ wdone' = [wdone EXCEPT ![w] = TRUE]
  /\ UNCHANGED <<dbVars, up, laneVars, turn, inside, wjob, wgate, wout, clientVars, histVars>>

\* Broken variant: the roots are given back on the way out of a success only.
UnlockOnSuccess(w) ==
  /\ ~Panicked(w) /\ wpc[w] = "unlock" /\ Return(w)
  /\ IF wout[w] = "succeeded" THEN Locks!Leave(w) ELSE UNCHANGED inside
  /\ UNCHANGED <<dbVars, up, laneVars, turn, cancels, clientVars, histVars>>

\* ... then give the roots back.
Unlock(w) ==
  /\ ~Panicked(w) /\ wpc[w] = "unlock" /\ Return(w)
  /\ Locks!Leave(w)
  /\ UNCHANGED <<dbVars, up, laneVars, turn, cancels, clientVars, histVars>>

\* Broken variant: the recover keeps the worker and forgets the job.
UnlockForgetting(w) ==
  /\ Panicked(w) /\ wpc[w] = "unlock" /\ Return(w)
  /\ Locks!Leave(w)
  /\ UNCHANGED <<dbVars, up, laneVars, turn, cancels, clientVars, histVars>>

\* After a panic, runGuarded goes on to fail the job.
UnlockPanicked(w) ==
  /\ Panicked(w) /\ Step(w, "unlock", "write")
  /\ Locks!Leave(w)
  /\ UNCHANGED <<dbVars, up, laneVars, turn, cancels, wjob, wdone, wgate, wout, clientVars, histVars>>

WorkerStep(w) ==
  \/ Dequeue(w) \/ ReadFails(w) \/ SkipCancelled(w) \/ GoOn(w)
  \/ AcquireLock(w) \/ SetRunning(w) \/ Execute(w) \/ WriteEnd(w) \/ CloseTurn(w) \/ ClosePanicked(w)
  \/ SeriesStops(w) \/ SeriesNext(w) \/ Unregister(w) \/ Unlock(w) \/ UnlockPanicked(w)

-----------------------------------------------------------------------------
(* Request handlers.  A handler starts only while the server accepts       *)
(* requests, and finishes what it started.                                 *)

Created(j) == row[j].status # "none"

Reply(c) == cpc' = [cpc EXCEPT ![c] = "idle"] /\ cjob' = [cjob EXCEPT ![c] = 0]

\* Enqueue, first half: the row and the conversation.
EnqueueCreate(c, req) ==
  /\ up = "up" /\ cpc[c] = "idle"
  /\ cjob' = [cjob EXCEPT ![c] = nextId]
  /\ CreateJob(req)
  /\ cpc' = [cpc EXCEPT ![c] = "push"]
  /\ UNCHANGED <<up, laneVars, cancels, inside, workerVars, histVars>>

\* Enqueue, second half: the push, or "job queue is full".
EnqueuePush(c) ==
  /\ cpc[c] = "push"
  /\ Schedule(LaneFor(cjob[c]), cjob[c])
  /\ Reply(c)
  /\ UNCHANGED <<dbVars, up, dispatch, mapVars, workerVars, histVars>>

\* Restart, and the requests that re-run a finished job's request in another
\* way: each is a new job, cloned from the old request field by field.
Replays(j) ==
  LET q == row[j].req
      over == row[j].status \in Terminal \cup {"paused"}   \* neither queued nor running
      Restart    == {p \in {q} : over /\ row[j].status # "paused"}
      RetryTuned == {[q EXCEPT !.refine = FALSE, !.lane = "main", !.sup = TRUE, !.series = s] :
                       s \in {x \in {q.series, TRUE} : over}}   \* a goal opens a series
      Refine     == {p \in {[q EXCEPT !.lane = "main", !.sup = TRUE, !.refine = TRUE]} : over}
      Rerun      == {p \in {[q EXCEPT !.refine = FALSE, !.lane = "main", !.sup = FALSE,
                                      !.rerun = TRUE]} : over /\ row[j].kept}
      Denoise    == {p \in {[q EXCEPT !.refine = FALSE, !.rerun = FALSE, !.lane = "main",
                                      !.sup = FALSE, !.denoise = TRUE]} :
                       row[j].status = "succeeded" /\ row[j].kept}
  IN Restart \cup RetryTuned \cup Refine \cup Rerun \cup Denoise

Replay(c, j) == "replay" \in Ops /\ \E req \in Replays(j) : EnqueueCreate(c, req)

\* Cancel: a registered run has its context cancelled, and that is all.
CancelRun(c, j) ==
  /\ "cancel" \in Ops /\ up = "up" /\ cpc[c] = "idle" /\ Created(j)
  /\ cancels[j] # NoWorker
  /\ wdone' = [wdone EXCEPT ![cancels[j]] = TRUE]
  /\ asked' = asked \cup {j}
  /\ UNCHANGED <<dbVars, up, laneVars, mapVars, wpc, wjob, wgate, wout, clientVars, handed, boots>>

\* Cancel: nobody registered.  m.mu is released before the row is read.
CancelMiss(c, j) ==
  /\ "cancel" \in Ops /\ up = "up" /\ cpc[c] = "idle" /\ Created(j)
  /\ cancels[j] = NoWorker
  /\ cpc' = [cpc EXCEPT ![c] = "lookup"]
  /\ cjob' = [cjob EXCEPT ![c] = j]
  /\ asked' = asked \cup {j}
  /\ UNCHANGED <<dbVars, up, laneVars, mapVars, workerVars, handed, boots>>

\* Cancel: what the row's status makes of it.  A running row nobody in this
\* process owns is taken for an orphan of an earlier server.
CancelLookup(c) ==
  LET st == row[cjob[c]].status IN
  /\ cpc[c] = "lookup"
  /\ \/ /\ st \in {"queued", "paused", "running"}
        /\ cpc' = [cpc EXCEPT ![c] = IF st = "running" THEN "wfailed" ELSE "wcancelled"]
        /\ UNCHANGED cjob
     \/ st \notin {"queued", "paused", "running"} /\ Reply(c)
  /\ UNCHANGED <<dbVars, up, laneVars, mapVars, workerVars, histVars>>

\* Cancel: FinishJob, on the status read a moment ago.
CancelWrite(c) ==
  /\ cpc[c] \in {"wcancelled", "wfailed"}
  /\ Ignored(FinishJob(cjob[c], IF cpc[c] = "wcancelled" THEN "cancelled" ELSE "failed", FALSE))
  /\ Reply(c)
  /\ UNCHANGED <<nextId, up, laneVars, mapVars, workerVars, histVars>>

\* Pause: set the gate of the registered run.
Pause(j) ==
  /\ "pause" \in Ops /\ up = "up" /\ cancels[j] # NoWorker
  /\ wgate' = [wgate EXCEPT ![cancels[j]] = TRUE]
  /\ asked' = asked \cup {j}
  /\ UNCHANGED <<dbVars, up, laneVars, mapVars, wpc, wjob, wdone, wout, clientVars, handed, boots>>

\* Broken variant: any job may be continued.
ContinueAny(c, j) ==
  /\ "continue" \in Ops /\ up = "up" /\ cpc[c] = "idle" /\ Created(j)
  /\ cpc' = [cpc EXCEPT ![c] = "resume"]
  /\ cjob' = [cjob EXCEPT ![c] = j]
  /\ UNCHANGED <<dbVars, up, laneVars, mapVars, workerVars, histVars>>

\* Continue: the row must be paused ...
ContinueRead(c, j) ==
  /\ "continue" \in Ops /\ up = "up" /\ cpc[c] = "idle" /\ row[j].status = "paused"
  /\ cpc' = [cpc EXCEPT ![c] = "resume"]
  /\ cjob' = [cjob EXCEPT ![c] = j]
  /\ UNCHANGED <<dbVars, up, laneVars, mapVars, workerVars, histVars>>

\* ... and the same id goes back on its lane; the row stays paused until a
\* worker gets to it.
ContinuePush(c) ==
  LET l == LaneFor(cjob[c]) IN
  /\ cpc[c] = "resume"
  /\ IF Room(l) THEN Send(l, cjob[c]) ELSE UNCHANGED lane
  /\ Reply(c)
  /\ UNCHANGED <<dbVars, up, dispatch, dropped, mapVars, workerVars, histVars>>

ClientStep(c) ==
  \/ EnqueuePush(c) \/ CancelLookup(c) \/ CancelWrite(c) \/ ContinuePush(c)
  \/ \E req \in Request : EnqueueCreate(c, req)
  \/ \E j \in Job : Replay(c, j) \/ CancelRun(c, j) \/ CancelMiss(c, j) \/ ContinueRead(c, j)

-----------------------------------------------------------------------------
(* The process: SIGTERM, death, and the next boot.                         *)

\* SIGTERM cancels the context every worker and every run derives from.  The
\* process exits without waiting for them.
Stop ==
  /\ CanStop /\ up = "up" /\ boots < MaxBoots
  /\ up' = "stopping"
  /\ wdone' = [w \in Worker |-> TRUE]
  /\ UNCHANGED <<dbVars, laneVars, mapVars, wpc, wjob, wgate, wout, clientVars, histVars>>

\* The process is gone, and everything it kept in memory with it.
Die ==
  /\ up # "down" /\ boots < MaxBoots
  /\ up' = "down"
  /\ lane' = [l \in Lane |-> << >>] /\ dispatch' = {} /\ dropped' = {}
  /\ turn' = {} /\ cancels' = [j \in Job |-> NoWorker] /\ inside' = [w \in Worker |-> {}]
  /\ wpc' = [w \in Worker |-> "idle"] /\ wjob' = [w \in Worker |-> 0]
  /\ wdone' = [w \in Worker |-> FALSE] /\ wgate' = [w \in Worker |-> FALSE]
  /\ wout' = [w \in Worker |-> "none"]
  /\ cpc' = [c \in Client |-> "idle"] /\ cjob' = [c \in Client |-> 0]
  /\ UNCHANGED <<dbVars, histVars>>

\* Broken variant: the restart is not counted.
RequeuedUncounted(r) ==
  IF r.status # "running" THEN r
  ELSE [r EXCEPT !.status = IF r.restarts < MaxRestartRequeues THEN "queued" ELSE "failed"]

\* RequeueRunningJobs: every running row goes back to queued, or is failed
\* when its resume column already counts MaxRestartRequeues restarts.
Requeued(r) ==
  IF r.status # "running" THEN r
  ELSE [r EXCEPT !.restarts = @ + 1,
                 !.status = IF r.restarts < MaxRestartRequeues THEN "queued" ELSE "failed"]

\* What a boot leaves alone, and what it counts.
Booted ==
  /\ up = "down" /\ up' = "booting"
  /\ boots' = boots + 1
  /\ handed' = [j \in Job |-> IF row[j].status = "running" /\ row'[j].status = "queued"
                              THEN handed[j] + 1 ELSE handed[j]]
  /\ UNCHANGED <<nextId, lane, dropped, mapVars, workerVars, clientVars, asked>>

\* Broken variant: no re-dispatch.
BootWithoutRedispatch ==
  /\ row' = [j \in Job |-> Requeued(row[j])]
  /\ Booted
  /\ dispatch' = {}

\* Start: reconcile the orphans (or fail to, and only log it), launch the
\* workers, and list the queued rows to re-dispatch (or fail to).
Boot ==
  /\ Ignored(row' = [j \in Job |-> Requeued(row[j])])
  /\ Booted
  /\ \/ dispatch' = {j \in Job : row'[j].status = "queued"}
     \/ DBMayFail /\ dispatch' = {}

\* Broken variant: newest first.
RedispatchNewestFirst(j) ==
  /\ up = "booting" /\ j \in dispatch /\ \A k \in dispatch : j >= k
  /\ Schedule(LaneFor(j), j)
  /\ dispatch' = dispatch \ {j}
  /\ UNCHANGED <<dbVars, up, mapVars, workerVars, clientVars, histVars>>

\* redispatchQueued: push the next queued id, oldest first.
Redispatch(j) ==
  /\ up = "booting" /\ j \in dispatch /\ \A k \in dispatch : j <= k
  /\ Schedule(LaneFor(j), j)
  /\ dispatch' = dispatch \ {j}
  /\ UNCHANGED <<dbVars, up, mapVars, workerVars, clientVars, histVars>>

\* Start returns and the server listens.
Listen ==
  /\ up = "booting" /\ dispatch = {}
  /\ up' = "up"
  /\ UNCHANGED <<dbVars, laneVars, mapVars, workerVars, clientVars, histVars>>

ProcessStep == Stop \/ Die \/ Boot \/ Listen \/ \E j \in Job : Redispatch(j)

Next ==
  \/ \E w \in Worker : WorkerStep(w)
  \/ \E c \in Client : ClientStep(c)
  \/ \E j \in Job : Pause(j)
  \/ ProcessStep

Spec == Init /\ [][Next]_vars

\* Every goroutine that can run does; a pipeline run ends.  Nobody has to
\* send a request, and the process need not die; but it is restarted.
Fairness ==
  /\ \A w \in Worker : WF_vars(WorkerStep(w))
  /\ \A c \in Client : WF_vars(EnqueuePush(c) \/ CancelLookup(c) \/ CancelWrite(c) \/ ContinuePush(c))
  /\ WF_vars(Boot) /\ WF_vars(Listen) /\ WF_vars(\E j \in Job : Redispatch(j))

FairSpec == Spec /\ Fairness

-----------------------------------------------------------------------------
WorkerPC == {"idle", "read", "lock", "start", "exec", "write",
             "close", "series", "unregister", "unlock"}
Outcome  == {"none", "paused", "panic", "partial", "succeeded", "failed", "cancelled"}
ClientPC == {"idle", "push", "lookup", "wcancelled", "wfailed", "resume"}

TypeOK ==
  /\ row \in [Job -> Row] /\ nextId \in 1..(MaxJobs + 1)
  /\ up \in {"up", "booting", "stopping", "down"}
  /\ lane \in [Lane -> Seq(Job)] /\ dispatch \subseteq Job /\ dropped \subseteq Job
  /\ turn \subseteq Job /\ cancels \in [Job -> Worker \cup {NoWorker}]
  /\ inside \in [Worker -> SUBSET Root]
  /\ wpc \in [Worker -> WorkerPC] /\ wjob \in [Worker -> Job \cup {0}]
  /\ wdone \in [Worker -> BOOLEAN] /\ wgate \in [Worker -> BOOLEAN]
  /\ wout \in [Worker -> Outcome]
  /\ cpc \in [Client -> ClientPC] /\ cjob \in [Client -> Job \cup {0}]
  /\ asked \subseteq Job /\ handed \in [Job -> Nat] /\ boots \in Nat

\* A worker between taking the roots and giving them back.
HoldsLock(w) ==
  \/ wpc[w] \in {"start", "exec", "series", "unregister", "unlock"}
  \/ wpc[w] \in {"write", "close"} /\ ~Panicked(w)

\* A worker between marking its row running and writing how the run ended.
Executing(w) == wpc[w] \in {"exec", "write"} \/ (Panicked(w) /\ wpc[w] # "close")

Registered(w) == HoldsLock(w) /\ wpc[w] # "unlock"

\* Two jobs over overlapping folders are never in flight together: all of a
\* job's roots are locked from before its cancel function is published to
\* after its final write (run: "Serialize against any other job whose input
\* roots overlap").
ExclusiveRoots ==
  \A v, w \in Worker : v # w /\ HoldsLock(v) /\ HoldsLock(w) =>
    ~Locks!Overlap(row[wjob[v]].req.roots, row[wjob[w]].req.roots)

\* A registered run can be cancelled and paused: the maps name it, and not
\* another run of the same job (Continue can put one id on a lane twice).
RegisteredIsReachable ==
  \A w \in Worker : Registered(w) => cancels[wjob[w]] = w

\* Job j's id is somewhere it will be acted upon: on its lane, in a worker's
\* hands, about to be pushed, or waiting to be re-dispatched.
OnLane(j) == \E l \in Lane : \E i \in 1..Len(lane[l]) : lane[l][i] = j
InHand(j) == \E w \in Worker : wjob[w] = j
Pushing(j) == \E c \in Client : cjob[c] = j /\ cpc[c] \in {"push", "resume"}
Unread(j) == \E w \in Worker : wjob[w] = j /\ wpc[w] \in {"read", "lock", "start"}

\* No request is lost, across restarts too: a queued row whose id no full
\* lane refused always has somebody who will get to it ("a job queued when
\* the previous instance stopped ... would otherwise sit queued forever").
QueuedIsScheduled ==
  up \in {"up", "booting"} =>
    \A j \in Job : row[j].status = "queued" /\ j \notin dropped =>
      OnLane(j) \/ Unread(j) \/ Pushing(j) \/ j \in dispatch

\* Somebody is on the way to closing job j's conversation: a handler about to
\* push its id, a lane, a worker until it has closed it; or the job is parked.
Tending(w) == wpc[w] \in {"read", "lock", "start", "exec", "write", "close"} \/ Panicked(w)
Tended(j) ==
  \/ \E c \in Client : cjob[c] = j /\ cpc[c] = "push"
  \/ OnLane(j)
  \/ \E w \in Worker : wjob[w] = j /\ Tending(w)
  \/ row[j].status = "paused"

\* No step leaves an open conversation to nobody, through pauses, continues,
\* cancels, panics and restarts (closeTurn on every way out of run): except the
\* two that this code has for it.  Enqueue opens the conversation before a full
\* lane refuses the id, and Cancel ends a parked job's row and closes nothing.
TurnStaysTended ==
  [][up' \in {"up", "booting"} =>
       \A j \in turn' : ~Tended(j)' =>
         \/ j \in turn /\ ~Tended(j)
         \/ j \in dropped'
         \/ row[j].status = "paused" /\ row'[j].status \in Terminal]_vars

\* A restart hands one job back to the queue at most MaxRestartRequeues times
\* ("bounds how many times a restart may hand the same job back"), unless
\* somebody asks to cancel it or to pause it: a Cancel's FinishJob empties the
\* resume column, and SetJobPaused replaces it.
RestartBudget ==
  \A j \in Job : j \notin asked => handed[j] <= MaxRestartRequeues

\* A job cancelled while nobody is past the status check, nor about to
\* overwrite the cancellation, is cancelled for good: no later dequeue of its
\* id, no restart and no request brings it back.
CancelledAtRest(j) ==
  /\ row[j].status = "cancelled"
  /\ \A w \in Worker : wjob[w] = j => wpc[w] = "read"
  /\ \A c \in Client : cjob[c] = j => cpc[c] \notin {"wcancelled", "wfailed"}

CancelSticks == [][\A j \in Job : CancelledAtRest(j) => CancelledAtRest(j)']_vars

\* The sequential lane runs its jobs in submission order, across restarts:
\* when one starts, no earlier one is still waiting (Start: "strictly
\* one-at-a-time in submission order").
SeqInOrder ==
  [][\A w \in Worker : LaneOf[w] = "seq" /\ wpc[w] = "start" /\ wpc'[w] = "exec" =>
       \A j \in Job : j < wjob[w] /\ row[j].status = "queued" /\ LaneFor(j) = "seq" => j \in dropped]_vars

\* A queued job is eventually run, cancelled, or refused by a full lane.
QueuedIsServed ==
  \A j \in Job : row[j].status = "queued" ~> (row[j].status # "queued" \/ j \in dropped)

\* A run ends, and its row says how.
RunningEnds ==
  \A j \in Job : row[j].status = "running" ~> row[j].status \in Terminal \cup {"paused", "queued"}

\* Every conversation is closed in the end, so its event stream ends.
TurnEnds == \A j \in Job : j \in turn ~> j \notin turn

-----------------------------------------------------------------------------
(* The abstract specification: every run is paid for by one ticket.        *)
TicketsOf(j) ==
  Cardinality({p \in Lane \X (1..LaneCap) : p[2] <= Len(lane[p[1]]) /\ lane[p[1]][p[2]] = j})
    + Cardinality({w \in Worker : wjob[w] = j /\ wpc[w] \in {"read", "lock", "start"}})
    + Cardinality({c \in Client : cjob[c] = j /\ cpc[c] \in {"push", "resume"}})
    + Cardinality({j} \cap dispatch)

Tickets == INSTANCE JobTickets WITH
  status  <- [j \in Job |-> row[j].status],
  tickets <- [j \in Job |-> TicketsOf(j)],
  runs    <- [j \in Job |-> Cardinality({w \in Worker : wjob[w] = j /\ Executing(w)})]

\* Every run of a job is paid for by one submission, one Continue of a paused
\* row or one boot that found the row queued; only a run parks or completes a
\* job, and only Cancel or a boot otherwise touches its status.
ImplementsTickets == Tickets!Spec

-----------------------------------------------------------------------------
(* Things the documents say that this code does not keep.                  *)

\* run: "A stacked job the user removed from the queue before it started is
\* marked cancelled - skip it."
CancelledNeverRuns ==
  [][\A j \in Job : row[j].status = "cancelled" => row'[j].status # "running"]_vars

=============================================================================
