# stacking-astro in TLA+

This directory holds a TLA+ model of the astrostack engine: the Go program that
turns folders of raw astrophotographs into finished images, driven by a web page,
by a queue of jobs in Postgres and, when a run is *supervised*, by a language model
that looks at each rendering and asks for changes.

Most of the repository is numerical: image decoding, registration, rejection,
photometry. That code is sequential, works on data no model checker can
enumerate, and is tested on images. What the models are about is the rest: the
code that decides *which* computation runs, when, on whose behalf, over which
files, and what the user, the database and the next job are told of it. There the hard cases are interleavings of
goroutines, restarts of the server, full queues, late answers and budgets, which a
unit test hardly reaches.

Contents

1. The system: components, state, interactions
2. What is hard in each component, and what makes it correct
3. The plan
4. The modules and the code
5. The runs, their bounds and what they show
6. Fairness
7. The proofs
8. Where the code and its documentation disagree
9. Abstractions and simplifications
10. What is not modelled

Run `tlc -config JobTickets.cfg MCJobManager` (and likewise for the other configs
of section 5) to check a model, `tlapm JobManagerProofs.tla` to check a proof.

## 1. The system: components, state, interactions

### The request path

    browser --HTTP--> internal/api --> job.Manager --lane--> worker --> pipeline
       ^                  |               |    ^                |
       |                  |               v    |                v
       +------ SSE -------+          Postgres  +---- events, previews, turns

`internal/api` validates a request and calls `job.Manager`. The manager inserts a
row in the `jobs` table and pushes the row's id on one of two bounded channels.
A worker takes the id, reads the row back, locks the input folders, and runs the
pipeline of the request's mode. What happens is told to the page over server-sent
events: one stream of progress per job, and one stream of conversation per
supervised job.

### Components that are modelled

| component | code | state | operations |
|---|---|---|---|
| path locker | `internal/job/pathlock.go` | `held`: a count per locked root; one mutex, one condition variable | `Acquire` all roots or sleep; `release` and broadcast |
| job manager | `internal/job/manager.go`, `pause.go`, `internal/store/jobs.go` | the `jobs` rows; two lanes; `cancels` and `pauses` maps; `jobTurns` | `Enqueue`, `Restart`, `RetryTuned`, `Refine`, `Rerun`, `DenoiseFinal`, `Cancel`, `Pause`, `Continue`; the worker's `run`; `Start` with `redispatchQueued` |
| process | `cmd/astrostack/serve.go` | up, stopping, down, booting; the context every run derives from | SIGTERM, exit, crash, boot |
| improvement series | `internal/job/series.go` | the series of a goal and its attempts | after a success: stop, or enqueue the next attempt |
| job event stream | `m.publish`, `m.Subscribe`, `PreviewSnapshot`; `jobEvents` in `internal/api/api.go` | subscribers and their channels; the latest preview of each running job | publish with a drop, subscribe, snapshot, follow |
| engine monitor | `internal/job/enginemon.go`, `heartbeat.go`, `internal/sysmon/sysmon.go` | `jobs`, `stopFn`, one sampler goroutine; a heartbeat per run | `register`, `release`, `onSample`, the heartbeat |
| turn hub | `internal/turns`, `internal/api/turns.go` | per conversation: a backlog, subscribers, a pending question, a mailbox | `publish`, `awaitConfirm`, `Resolve`, `PostMessage`, finish, reap |
| supervised finish | `internal/pipeline/supervise*.go`, `internal/job/conversation.go` | working preset, render tier, budgets, best pass, guidance | render, judge, listen, propose, ask, take, end |
| deep-sky run | `internal/pipeline/pipeline.go`, `parallel.go`, `pause.go` | the waves of channels, each channel's place and master, the pause gate, the checkpoint | stack a wave, poll the gate, reuse a master, combine, return a verdict |
| scratch sweep | `internal/job/sweep.go` | the directories `run_<stamp>` | look at the in-flight counter, list, look again, remove |
| run directory | `internal/pipeline/rerun.go`, `refine.go`, `checkpoint.go`, `alignchannels.go`, `starfix.go`, `supervise_reentry.go` | masters, `aligned_*`, `combine_*`, the linear prep, the images, `run.json`, `stages.json` | run, rerun from a stage, refine; restack, align, crop, prepare, composite, judge, record |
| cross-session merge | `internal/pipeline/reuse.go`, `reuse_process.go`, `registration.go`, `photomnorm.go`, `parity.go` | per channel: the groups taken, their flat and pose; shared: the flat cache and the parity cache | calibrate, probe, mirror, verify, undo, normalize, register, stack |
| parallel frame loops | `internal/planetary/parallel.go`, `internal/stacknative/stack.go` | a window of tokens, one slot per frame; an error group; a channel of bands | dispatch, decode, consume in order; schedule; hand out bands |

### How they interact

- *Manager and locker.* A worker calls `lockTarget` between reading its row and
  registering its run, and may sleep there for as long as another run holds an
  overlapping folder. Whatever it read before the sleep may be stale after it.
- *Manager and database.* The row is the only thing that survives a restart.
  Lanes, maps, turns and locks are in memory. Every status change is one UPDATE;
  the manager never holds its mutex over one, and drops the error of most.
- *Manager and pipeline.* The pipeline sees the run's context (cancelled by
  `Cancel` and by SIGTERM) and its pause gate, and answers with a result, an
  error, `ErrPaused` with a checkpoint, or a panic that `run` recovers.
- *Runs and the monitor.* `execute` registers the run with the process-wide
  monitor and releases it on the way out; the sampler publishes readings through
  the same `publish` the run uses.
- *Pipeline and conversation.* The supervised loop publishes each pass, waits for
  an answer before a re-stack (`confirmHook`) and empties the mailbox between
  passes (`opts.Steer`). Both are callbacks the manager hands to the pipeline.
- *Run and sweep.* A run works in `run_<stamp>`; after every job, and at boot, a
  goroutine deletes the directories that look old while no job is in flight. A
  resumed run keeps its first stamp, and a run of the command line shares the
  directory but not the counter.
- *Job and later jobs.* A rerun or a refinement enters the directory of an
  earlier run at the cheapest stage that reflects an edit, and trusts every file
  below it. The checkpoint is what says which settings those files have.
- *Channels of a run.* They are stacked in parallel waves and share the flats of
  earlier sessions and the parity readings; a group of frames that fails is
  dropped, and what was indexed by its place is looked up among the rest.
- *Everything and the page.* The two SSE handlers are the only readers. Neither
  may slow its producer down: a full channel loses events, by design.

## 2. What is hard in each component, and what makes it correct

The full list, each hazard at its line and with the properties that would catch
it going wrong, is `hazards` in `PROJECT.json`. In outline:

**Path locker.** All-or-nothing acquisition with a condition variable; the
broadcast comes after the unlock, so other goroutines run in between. Correct
when overlapping runs exclude each other, when the held map is exactly the roots of
the runs inside (a leaked count would lock a folder for ever), and when nobody
sleeps on free roots.

**Job manager.** Every request is a sequence of a map lookup, a read and a write
that other goroutines interleave with. `Cancel` races the start and the end of a
run; `Continue` may come twice; a full lane refuses an id whose row exists. Correct
when no run happens that nobody paid for, when a cancellation that is at rest stays,
when the maps name the run that is really registered, and when every queued row is
served and every run ends.

**Process.** A restart may come between any two statements. Correct when every
orphaned row is found, handed back in submission order, and not for ever.

**Event stream.** Subscribe, read the row, read the preview, follow: in any other
order something is lost. Correct when a page that has caught up shows the latest
preview, and when the stream of a finished job ends.

**Engine monitor.** One sampler shared by overlapping runs, started by the first
and stopped by the last. Correct when there is never a second one, none is left
running, and the last run gets out.

**Turn hub.** The backlog and the subscription must be one step; a question is
published before it can be answered. Correct when a reader gets every event
exactly once.

**Supervised finish.** A loop with seven reasons to stop, three tiers of cost, two
budgets, a user who may speak at any moment and a question that may time out with
the answer on its way. Correct when the image of a pass is what its preset says,
when a nudge is not ignored and a stop is heeded, when an accepted answer counts,
when the budgets hold, and when the loop ends.

**Deep-sky run and sweep.** A pause between two waves, a crash in the middle of a
master, a cancel between two steps that only warn, and a sweep that read the
counter before the job started. Correct when what a resumed run takes for stacked
is, when a run written as succeeded has its image, when nothing finished before a
pause is stacked again, and when no live scratch is deleted.

**Run directory.** Eight kinds of files with a life of their own, edited by a
sequence of jobs any step of which may fail or be killed. Correct when the
checkpoint says of the image what is true, and when a rerun shows the edit it was
asked for.

**Cross-session merge.** Five to dozens of groups per channel, any of which may
fail; two caches shared by concurrent channels, one of readings that may be false;
one anchor night for the canvas and the scale of every channel. Correct when each
group is divided by its own night's flat, when no group goes into a merge the
wrong way round unnoticed, when all masters share the anchor's canvas and scale,
and when a cancel never passes for a failed group.

**Frame loops.** Decoders run ahead of one consumer; errors and cancels must free
all of them. Correct when the consumer sees the serial order, memory is bounded,
success means every item, and everything ends.

## 3. The plan

Done, in this order, the most important behaviour first:

| step | modules | what it answers |
|---|---|---|
| 1 | `RootMutex`, `PathLock`, `PathLockProofs` | does the locker exclude, and wake everybody it should? |
| 2 | `JobManager`, `JobTickets`, `JobManagerProofs` | what can requests, restarts and failures do to a job? |
| 3 | `JobEvents`, `RunWatch`, `RunWatchProofs` | is the monitor shared soundly, and does a page see what happened? |
| 4 | `Turn`, `Supervise`, `SuperviseProofs` | does the supervised loop keep its promises to the user? |
| 5 | `WorkSweep`, `DeepSkyRun`, `DeepSkyProofs` | what is left of a run that was paused, killed or cancelled, and may the sweep delete it? |
| 6 | `RunDir`, `RunDirProofs` | do the files of a run stay what its checkpoint says, over reruns and refinements? |
| 7 | `SerialLoop`, `FrameLoops`, `FrameLoopsProofs` | do the parallel loops do what the serial ones did? |
| 8 | `SessionMerge`, `SessionMergeProofs` | what goes into a master made of several sessions? |

Still to do:

| step | module | subject |
|---|---|---|
| 9 | `Series` | attempts and scores of an improvement series against `MaxAttempts`, with the stop by the user that races the count (`series.go`) |
| 10 | `ToolHealth` | the cached report of the environment against the probe it describes (`toolhealth.go`) |
| 11 | pure operators | grouping and thresholds (`setqa`, `panelgroup`, `dither`), against reference definitions over bounded inputs |

Composition: `PathLock` is used in `JobManager` through the abstract `RootMutex`,
so that the manager's state space does not pay for the locker's condition
variable; `RunWatch` extends `JobEvents` (publishers and bus), `Supervise` extends
`Turn` (the loop and its conversation), `DeepSkyRun` extends `WorkSweep` (the run
and those who delete its scratch) and refines what in `JobManager` is one step of
`execute`. `RunDir` and `SessionMerge` look inside one step of `DeepSkyRun` each:
the combine, and the stack of the channels.

Abstract specifications: `RootMutex` (implemented by `PathLock`, proved),
`SerialLoop` (implemented by `orderedFrames` in `FrameLoops`, proved) and
`JobTickets` (implemented by `JobManager`, proved).

Theorems worth adding: the exact condition under which a cancelled job runs (the
complement of `CancelSticks`, which `job_late_cancel` refutes in general), the one under
which the monitor's mutex is released (`run_watch_deadlock`), and those of `Series`.

## 4. The modules and the code

Definitions keep the names of the functions they model where TLA+ allows.
A definition introduced as a *broken variant* is not part of any specification: it
is what the definition below it would be with a plausible slip, and is kept to
show that a property would notice.

### RootMutex and PathLock

`RootMutex` is the promise: a client is inside with a set of roots, and enters only
if no root conflicts with those of a client inside. Two roots conflict when they are
equal or one is an ancestor of the other; the folder tree is the constant `Parent`.

`PathLock` is the code. `held` is the Go map, as a function whose domain is the
keys present. `Try` is one pass of the loop in `Acquire` under the mutex;
`Release` is the critical section of the release; `Broadcast` the call after it.
A goroutine in `cond.Wait` is at `"wait"`; the broadcast moves every one to `"try"`.

### JobManager and JobTickets

| code | action |
|---|---|
| `worker`, `run` up to the status check | `Dequeue`, `ReadFails`, `SkipCancelled` `GoOn` |
| `lockTarget`, the registration of cancel function and gate | `AcquireLock`, through `RootMutex` |
| `SetJobRunning`, `execute` | `SetRunning`, `Execute` (any outcome; `Verdict` is what `run` makes of it) |
| the terminal writes, `pauseJob`, `closeTurn` | `WriteEnd`, `CloseTurn` |
| `maybeContinueSeries` | `SeriesStops`, `SeriesNext` |
| the deferred calls of `run` | `Unregister`, `Unlock` |
| the recover in `runGuarded` | `UnlockPanicked`, `WriteEnd`, `ClosePanicked` |
| `Enqueue` | `EnqueueCreate` (insert, mint the turn), `EnqueuePush` (the non-blocking send) |
| `Restart`, `RetryTuned`, `Refine`, `Rerun`, `DenoiseFinal` | `Replay`: which requests a finished row may be cloned into is `Replays` |
| `Cancel` | `CancelRun` if registered; else `CancelMiss`, `CancelLookup`, `CancelWrite` |
| `Pause`, `Continue` | `Pause`; `ContinueRead`, `ContinuePush` |
| `serve`, `Start`, `redispatchQueued` | `Stop`, `Die`, `Boot`, `Redispatch`, `Listen` |

One action is one SQL statement, one critical section of `m.mu` or one channel
operation. `row[j].cp`, `restarts` and `kept` are what the `resume` and `result`
columns are read for. `handed`, `asked` and `boots` are history.

`JobTickets` says what a run costs: a submission, a Continue of a paused row, or a
boot that found the row queued issue one ticket each, a run consumes one, and a
status changes only by a run's start or end, a cancel, or a boot. A ticket is an id
on a lane, in a worker's hands before its run, in a handler about to push it, or in
the list a boot has still to dispatch (`TicketsOf`).

### JobEvents and RunWatch

`JobEvents` has the bus: `Publish` is one critical section, retains the latest
preview and drops the event on a full channel. `ReadRow`, `TakeSnapshot`,
`SendSnapshot`, `Receive` are the steps of the SSE handler `jobEvents`, and
`HangUp` its return at any of them. `RunWatch` has the publishers: the run from
`SetJobRunning` to the end of its context (`Begin` to `End`), its heartbeat, and
the sampler goroutines, numbered as they are started. `em.mu` is held across
actions in one place, `Release` to `Stopped`: there the code waits for the
sampler's goroutine while it holds the mutex (`holder`).

### Turn and Supervise

`Turn` is one session: `Publish`, `Register` and `Forget` (the two halves of
`awaitConfirm`), `Drain`, `Resolve`, `Nudge`, `Stop`, and the reader's handler.
Events are their places in the backlog; only `done` is told apart.

`Supervise` is the loop of `superviseFinish` with the deep-sky renderer. A preset is
abstracted to the set `unmade` of its knobs that the stages on disk do not reflect.
The tiers are the three stages: A the composite, B the linear preparation, C the
stack. `TierOf`, `Affordable`, `CapToTier`, `Take` are `tierOf`, `affordableTier`,
`capToTier` and the lines that commit a patch. `Slip` is the set of knobs that
`tierOf` counts and `capToTier` does not revert.

The confirm gate is five places: `ask` (before the question is published),
`register`, `wait`, then `expired` or the answer. `Receive` takes an answer from the
buffer while the question is still registered, as in the code, so that a second
answer is accepted and lost.

### WorkSweep and DeepSkyRun

`WorkSweep` has the directories as their stamps, `Age` that makes one older than
the grace of two hours, and the steps of a sweeper goroutine: `SweepBegins`,
`SweepChecks` (the in-flight counter), `SweepLists`, `SweepLooks` (the counter
again), `SweepRemoves` (one directory).

| code | action of `DeepSkyRun` |
|---|---|
| `Start`, `Process` up to the waves | `Start` |
| `reuseStackedChannel` | `Reuse`, by `OnDisk` |
| the head of the wave loop with its poll of the gate | `OpenWave`, `CloseWave`, `EndOfWave` |
| `processChannel` | `Link`, `Stack`, `Finish`: the scratch may vanish between them |
| `combine`, `combineFailure` | `Combine`, `CombineFailed`, `Verdict` |
| `run`, `pauseJob`, `finishTerminal` | `Status`, `Forget`, `Return` |
| `Cancel`, `Pause`, `Continue`, a kill and the next boot | `Cancel`, `Pause`, `Continue`, `Crash`, `Requeued` |

A master is `"none"`, `"part"` (a part of the file, or stacked and not finished) or
`"done"`. It is written in place (`fsutil.CopyFile`, `WriteFITS`, Siril's own save), so a
stack that fails may leave a part of it as a kill does (`Fails`). `harm` records the
channels a kill, a failing stack or a sweep hit while they were being made, `soft`
those of which a finishing step failed with a note.

### RunDir

A preset is a knob per tier and one of the emission screens; a file is its provenance
(`Stamp`, `Source`, `Picture`): the settings and the files that made it. One action is
one stage of a job:

| code | action |
|---|---|
| `processChannel` under the waves of a run, `reStack` | `Stack` |
| `alignChannels` | `Align`: all, none or some of the channels are registered |
| `applyCoverageCrop` | `Crop`, which writes `combine_<tag>` |
| `applyEdgeCrop` | `EdgeCrop`, which composites `trim_<tag>` |
| `duobandChannels`, `registerSynthesizedChannels` | `Separate`, which writes `syn_<tag>` |
| the rest of `prepGimpInputs`, `finishComposite` | `MakePrep`, `Composite` |
| the Siril composite in `combine` and in a refinement | `FinishFails`: it keeps a knob or ignores it (`Ignored`) |
| `autoFixStars`, `runStarFix` | `CheckStars`, `JudgeStars`, `PassFails` |
| `superviseFinishDeepsky` | `AgentGivesWay` or `Panic` (section 8) |
| `writeRunRecord`, `writeStageManifest` | `Record`; the job is killed or fails: `Die` |
| `RerunFromStage`, `RefineExistingRun` | `Rerun`, `Refine`, with `FromDisk` for `reconstructChannelsFromDisk` |

`FileOf` looks for a channel as the code does: `combine_`, `aligned_`, `master_`, then
`syn_`, and never `trim_`. `why` and `doubt` are set where a job goes on although a file
may not be what the checkpoint will say, for a reason named at the place (`Untold`,
`Record`); section 8 lists them. They are the ways a directory can mislead.

### SerialLoop and FrameLoops

`SerialLoop` consumes frames 1, 2, 3, ... until all are or it gives up. `FrameLoops`
has the three helpers, chosen by `loop`: `orderedFrames` (`TakeToken`, `SpawnDecoder`,
`AwaitDecoders`; `Deliver`; `Receive`, `Consume`, `StopConsuming`), `forEachFrame`
(`Schedule`, `SpawnBody`; `Enter`, `Body`) and `forEachBand` (`Offer`, `CloseBands`;
`StackBand`, `LeavePool`).

### SessionMerge

One action is one step of `processChannelGroups`: `Masters` (under the flat cache's
mutex), `Calibrate` (with `Skip` and `Leave`), `Probe`, `Mirror`, `Verify`, `Undo`
(under the parity cache's), `Lone`, `Normalize`, `Register`, `Stack`. `optics` is which
sessions really were shot through a mirror; `Solve` reads it, or nothing, or, at a
fault, the opposite, and `fluke` counts those. `told` is the set of sessions with a
warning. `AnchorOf` and `AnchorIndex` are `computeAnchor` and `anchorGroupIndex`, the
latter an index among *all* groups that `Reference` and `Register` use among the
merged ones, as the code does. `NightRank` counts filters, not channels (`FilterOf`).
`scale` holds, for each group that was rewritten, the group it was scaled to: a group may
be left as it is, as the code does for one that fails to be measured. `shown` are the
groups whose frame the canvas may be: one, or any, where the review of a registration
cannot read the sequence and Siril's own choice stays.

## 5. The runs, their bounds and what they show

Passing runs:

| run | instance | shows |
|---|---|---|
| `path_lock` | 3 jobs; M101, a folder inside it, M31 beside it | exclusion, no lost wake-up, the implementation of `RootMutex`, progress |
| `job_two_rows` | 2 workers, 1 handler, 2 rows over nested folders, one supervised and in a series; lanes of 2; cancel and replay | exclusion in the manager and the three liveness properties |
| `job_restarts` | the sequential worker, lanes of 1, 2 rows over nested folders, each of a supervised deep-sky job or a plain one; cancel, pause and continue; 2 boots | restarts lose no row, are bounded, and keep the sequential order; only a full lane and a cancel of a parked job leave a conversation to nobody |
| `job_tickets` | 2 workers, 1 supervised deep-sky row, every request, 1 boot, SIGTERM, failing database | exact maps, cancellations at rest are final, the implementation of `JobTickets` |
| `run_watch` | 2 jobs, 2 runs, 1 page, 2 previews, channels of 2 | one sampler exactly while runs are registered, an up-to-date preview, streams that end |
| `supervise` | 3 passes, 4 knobs, budgets of 1, 4 kinds of run, 1 page, channels of 2 | every promise of the loop and of the conversation, and that the loop ends |
| `deep_sky` | 2 channels in one wave or two, stacks that fail halfway through the file, 1 sweeper, 2 stamps, 1 crash | what a resumed run reuses is whole, a success has its image, nothing kept by a pause is redone, the sweep spares what lives |
| `run_dir` | filters B and OIII, or one dual-band colour channel; a run and 2 later jobs, 2 passes of the star repair, 1 fault; 1.8 million states | the checkpoint is true unless one of the named doubts arose; a rerun shows its edit |
| `frame_loops` | 6 items, 3 workers, the three loops | the serial loop is implemented, 5 frames in memory at most, success is complete, everything ends |
| `session_merge` | 2 channels, 5 groups over 3 nights, 2 faults, 1 re-stack; 4.7 million states | one canvas and scale, own flats, no unannounced flip, a cancel costs no group |

Runs that refute a sentence of the documentation are in section 8.

Why the bounds are enough:

- *Three lock clients* give a holder, a sleeper and a third that takes the lock in
  the window between unlock and broadcast. Two roots in a line and one beside them
  are every relation two roots can have.
- *Two workers and two rows* give the races of two runs over one folder, and with
  `Continue` twice, of two workers over one row. A third of either adds no new pair.
  `job_tickets` keeps one row so that *all* requests, a failing database, a crash
  and SIGTERM can be combined; the two-row questions have a run of their own.
- *A lane of one slot* in `job_restarts` makes both overflows happen, the client's
  and the boot's; the lane of 256 in the code would need 256 rows for the same. The
  supervised job of that run can be paused, so that a conversation meets both ways to be
  left to nobody: both exceptions in `TurnStaysTended` occur. One worker is what `Start` launches for that
  lane; races of several workers are the subject of the two other job runs.
- *`MaxRestartRequeues` = 1 with two boots* reaches the boot that gives a job up.
- *Channels of two events* overflow within a run; 64 in the code.
- *Two runs* (`MaxRuns`) let two overlap, or one follow the other, so that a
  sampler is started again; jobs are interchangeable, so the page opens one.
- *Three passes* reach the plateau test (which needs `i >= 2`) and the exhausted
  loop. Budgets of one are spent in one pass and refused in the next. A score of 0
  or 2 tenths is better by more than, or by less than, the 1 tenth that counts as
  an improvement.
- *One knob per tier* and one that slips are every way a patch of at most two can
  combine. Each option of a run (ceiling, gate, warm start, goal) is tried both
  ways, not in all combinations.

- *Two channels* of a deep-sky run are one wave of two or two waves of one, so that
  a pause falls between them and after the last; one crash and two stamps give a
  resumed run, a new one after it, and a sweep that began before either.
- *B and OIII* are a filter that is composited under its own name and one that may
  stand in for it, when it is missing; the dual-band option has channels that are
  separated from another's file. Two jobs after the run are an edit and a second one that
  trusts what the first left. One fault leaves each of the files behind once. Two passes
  are one that improves and one that does not.
- *Six items over three workers* fill the window of five and leave one waiting.
- *Five groups*: in one channel the larger group is not the anchor night's and comes
  before it; in the other two groups share a flat key and differ in gain, and the
  session has flats of another night. Two faults are a false reading and its
  false confirmation, a failed group in each channel, or one that is left unscaled. A re-stack finds the
  caches filled.

Each property of a passing run was also tried against a broken variant of the
code it is about, listed under `mutants`: an exact match instead of a conflict, a
snapshot taken before the subscription, a restart that is not counted, a tier
that is the cheapest instead of the dearest, and so on. Each is caught.

`CHECK_DEADLOCK FALSE` appears where the modelled system really stops: a run that is
over with nobody reading (`supervise`), a finished job with its bounded reruns spent
(`deep_sky`, `run_dir`), a loop that has returned (`frame_loops`), channels that are
stacked (`session_merge`). Everywhere else a deadlock would be an error, and none is
found but the one of section 8.

## 6. Fairness

No specification forces a client, a user or a signal to act: requests, answers,
nudges, page loads and crashes are never fair. What is:

- `PathLock`: `WF` of `Try`, `Release` and `Broadcast`. The Go scheduler runs
  runnable goroutines, and the unlock is a deferred call. `FreeSleeperRuns` says
  what weak fairness gives: a sleeper gets in *or* its roots are taken again. The
  locker has no queue, and starvation under a stream of short rivals is possible.
- `JobManager`: `WF` of each worker's step and of the *second* halves of the
  requests (a handler that has started finishes), of `Boot` (the container is
  restarted), `Redispatch` and `Listen`. That a run ends is an assumption: the
  external tools have time limits of their own.
- `RunWatch`: `WF` of the run's, the sampler's and the handler's steps; a tick is
  not fair, since `ps` may never answer, and neither are progress and heartbeats.
- `Supervise`: `WF` of the loop as a whole (the rendering ends, the model answers
  or its call fails, and the ten-minute timer fires), and of each reader's handler.
  `LoopEnds` thus holds with a user who never says anything.

- `FrameLoops`: `WF` of every goroutine's step; the body of a loop ends. A cancel is
  never forced.

Strong fairness is used nowhere. `DeepSkyRun`, `RunDir` and `SessionMerge` state
safety only: how long a stack takes is the tools' business.

## 7. The proofs

TLAPS checks eight modules of proofs. Everything in them holds for every value of
the constants under the assumptions the modules name (`ParentAssumption`,
`ManagerAssumption`, `EventsAssumption`, `WatchAssumption`, `TurnAssumption`,
`KnobAssumption`, `BoundAssumption`, `NoneAssumption`, `StampAssumption`,
`OrderAssumption`, `CrashAssumption`, `FilterAssumption`, `FrameAssumption`,
`WorkerAssumption`, `GroupAssumption`); the runs evaluate each. Each module proves
its type invariant; the runs leave that to the proofs, and check deeper properties.

**`PathLockProofs`** (any clients, any tree). The invariant is the conjunction of
`TypeOK`, `HeldIsInside` and `Exclusive`: exclusion alone is not inductive, since
`Try` compares with the map and not with the clients; that the map *is* the
clients' roots, each counted once, closes the gap. From it: `MutualExclusion`,
`HeldMapExact` (no root is held for nobody), `WakeupNotLost` (a further invariant, on who is asleep), and
`Refinement`: every step of the locker is a step of `RootMutex` or a stutter.

**`JobManagerProofs`** (any workers, lanes, requests, boots, failures).
- *Types.* `TypeOK` is not inductive, because an id on a lane is used to index the
  table; `IdsExist` adds that every id in circulation is below `nextId`.
- *Exclusion* (`OverlappingRunsExclude`, `RunsAreReachable`). Each worker's roots are
  its row's while it holds the lock, and the map's entry of its job is itself
  (`LockInv`). That two workers may own one row (two `Continue`s) is where it could
  fail, and what the lock excludes: both ask for the same, non-empty roots.
- *Cancellation* (`CancelsStick`): a step from a cancelled row at rest leads to one; no
  invariant beyond the types is needed.
- *Nothing is forgotten* (`NothingIsForgotten`). With a database that answers, every
  action hands the id of a queued row on. `QInv` adds that a dead process holds nothing
  and that a `Continue` in progress is about a row that is not queued, so that its
  push may fail without loss.
- *Conversations* (`ConversationsKept`, `ConversationsTended`). The first is about the
  steps, with pauses and full lanes: a step leaves an open conversation to nobody
  only where a full lane refuses the id or a `Cancel` ends a parked row, which are the two
  cases in which this code does. The second says, of jobs that cannot be parked, where they
  are while their conversation is open. `VInv` says who tends it and what is never parked:
  without `NeverParked` a run could be parked, continued twice and end with its
  conversation open.
- *Refinement* (`ManagerImplementsTickets`, for finitely many workers and handlers).
  The mapping counts, so each step's proof says which of the four counts moves by one
  (`TicketSum`, `SendCounts`, `DequeueCounts`); `CInv` adds the capacity of the lanes.
- *Restarts* (`RestartsAreBounded`, `UnparkableRestartsAreBounded`). `BInv` says that a
  job has one ticket or one run and that the row's count covers `handed`. It uses the
  counts of the refinement: with two tickets, one run could reset what another counts.
  The hypothesis, that users do not both pause and continue, is needed (section 8).
- *Order* (`SequentialOrder`). Whoever waits longer than an id on the sequential lane is
  ahead of it or already in the worker's hands, and the worker has overtaken nobody
  (`SInv`, on top of `QInv`). Hypotheses: one sequential worker, which is what `Start`
  launches, and one sequential submission at a time, for two handlers may create in
  one order and push in the other.

**`RunWatchProofs`** (any jobs, runs, readers). `OneSampler` needs to know that
only the sampler `stopFn` names may be alive (`OnlyStopFn`), that it is alive and
not told to stop unless a release is waiting for it (`StopFnLives`), and that
`stopFn` is set exactly while somebody is registered (`FnWhileWatched`).
`PageIsUpToDate`: the last event in a page's channel that is not a note leads to the
latest preview, and with notes only the page shows it already (`Tells`).

**`SuperviseProofs`** (any knobs, budgets, iterations, scores and kinds of run).
- `StopIsHeeded`: a pass begun after the stop request is on its way to the mailbox
  and goes no further (`Stopping`).
- `NudgeIsHeard`: the cause is set once, and what it says of the guidance stays
  true (`Hearing`).
- `BudgetIsKept`: what is rendered, what is planned and what is left of a budget
  never exceed it, and no remainder is negative (`Paying`); `AffordableIsPaid` is
  the lemma that a tier is affordable only with budget left.
- `ImageIsTrue`, `RefusalCounts`: a second invariant, on top of the first
  (`PassInvariant`), of what a planned tier will remake (`Reflecting`) and of when a
  question can be registered and answered (`Asking`).
- `ConversationIsWhole` (any number of pages): with the readers' types, and that who is
  not subscribed has nothing left of an earlier visit, `DeliveredOnce` is inductive.

**`DeepSkyProofs`** (any filters, wave lengths, sweepers, stamps, crashes). All four
properties. A master on disk is whole, but for finishing steps that failed with a note
(`soft`), because a run is only left, by a pause or a crash, when every channel at work
is settled or recorded as harmed, and a stack that fails halfway is recorded too
(`Masters`); a run that starts anew composites none of the harmed. A
sweep spares a new run because what it still has to remove got its stamp before the
run did (`Sweeps`).

**`RunDirProofs`** (any filters, jobs, passes, faults). `RerunsShow`, from what a rerun
has in hand at each step: its preset never changes, the channels it composites are
those it stacked, and the linear prep in memory is its own unless it re-enters at the
composite (`Plain`, `Restacked`, `Remade`, conjuncts of `Inv`). `CheckpointsTell` needs a
second invariant, `Trust`, about a job that so far did nothing its checkpoint will
not tell: what it stacked has the mark of its preset (`Stacking`), the channels in its hand
are those the next re-entry would find on disk, but for the edge trim (`ChannelsHeld`), it
names what it separated (`NamedHeld`), and the prep and the image are made of them
(`PrepHeld`, `ImageHeld`); and that a directory nobody works in is `Trusted`
unless it is in doubt. So a directory in no doubt leads to another, and a re-stack
that went well leads to one from any.

**`FrameLoopsProofs`** (any number of items and workers). The invariant says where
every item is, so that the number of tokens is a difference of two indices and
nothing has to be counted: `MemoryIsBounded`, `SuccessIsComplete`, and
`OrderedIsSerial`, the refinement of `SerialLoop`.

**`SessionMergeProofs`** (any channels, groups, flats, optics, failures, re-stacks).
`CancelIsFree`: the groups behind a channel are in its merge or broken
(`Accounted`). `FlatsAreOwn`: whatever is cached fits every group of its key, whoever
asked first (`CacheFits`). `FlipsAreTold`: a session that may be taken for what it is
not has a warning or a false reading to its account (`SeenFits`, `FlipFits`), and
neither is ever taken back; the argument does not need the cache's mutex.
`MastersShareAnchor`: the anchor is where the code's search finds it (`AnchorIndexIs`),
and what is registered, the canvas and the groups the others are scaled to are its own
(`OInv`). That a best
group exists takes the least-number principle, which the well-foundedness of the
naturals gives without an induction over data (`LeastNat`).

Every safety invariant, action property and refinement that a passing run checks has
its theorem. Hypotheses beyond the assumptions of the modules stand in the theorem's
statement; only `JobManagerProofs` has any: a database that answers (`~DBMayFail`, for
what is not forgotten, left open or overtaken: an UPDATE lost without a word loses it),
finite pools (for what is counted), and those named above.

Only model-checked, at the bounds of section 5: the liveness properties
(`FreeSleeperRuns`, `QueuedIsServed`, `RunningEnds`, `TurnEnds`, `StreamEnds`,
`LoopEnds`, `EverythingEnds`), since TLAPS here does neither fairness nor `ENABLED`.
Out of the prover's reach as well: induction over data, and modules with `RECURSIVE`
operators (there are none).

## 8. Where the code and its documentation disagree

Two runs check a sentence of the repository and find a behaviour that breaks it.

| run | sentence | what happens |
|---|---|---|
| `job_late_cancel` | a queued job the user removed is skipped (`manager.go:875`) | the cancel lands after the status was read, perhaps long after, while the worker sleeps in `lockTarget`; `SetJobRunning` overwrites it |
| `run_watch_deadlock` | "the last release stops the sampler" (`enginemon.go:98`) | `release` waits for the sampler with `em.mu` held, and the sampler waits for `em.mu`: neither moves, nor does any later run |

The passing properties are stated beside these: `CancelSticks` says which
cancellations do stick, and `StreamEnds` does not depend on the stuck release.

### Disagreements noticed without a run of their own

The models contain these behaviours (or leave out the part, where noted); the
properties that pass are stated around them, each naming its exception.

Jobs
- `Continue` leaves the row paused, so a second one puts the id on the lane again
  (`pause.go:82`), against "a finished job is never resumed" (`store/jobs.go:86`).
- SIGTERM cancels runs through their context; one that notices writes `cancelled`
  (`manager.go:924`), and the boot does not put it back on the queue (`manager.go:443`).
- A pause replaces the resume column, where the restart count lives (`pause.go:101`),
  against the bound of `manager.go:432`: a run that is paused and continued between
  any two restarts is handed back without bound. The proof of `RestartsAreBounded` found it: its
  hypothesis excludes users who do both, and `UnparkableRestartsAreBounded` says that
  only modes that poll the gate are concerned.
- A job a full lane refused keeps its row and its conversation (`manager.go:545`), minted
  before the push (`manager.go:542`): the caller is told "job queue is full", the row
  stays queued and the conversation open until the next boot dispatches the one and
  forgets the other. A boot that meets a full lane leaves such a row as well, and so does
  the next attempt of a series.
- `Cancel` of a job that is parked writes its row and closes nothing (`manager.go:748`):
  the conversation of a paused supervised job stays open until a restart, with
  a page that follows it waiting. `TurnStaysTended` names these two cases and shows
  that, while every statement succeeds, there is no third. A failing database adds one:
  a worker whose `GetJob` fails returns without a word (`manager.go:868`), and with it
  the conversation of the row it was handed.
- The last event of a job is dropped like any other when a subscriber's channel is
  full (`manager.go:790`): the page then waits until it reconnects. `StreamEnds` excepts
  such a page (`missed`).
- An answer that is accepted after the question timed out, or after a first one, is
  lost (`session.go:137`); `AnswerCounts` is about the ones in time.
- Two handlers may create sequential jobs in one order and push them in the other:
  "submission order" is then that of the pushes, until a boot makes it that of the ids.
- A run that is paused *and* cancelled is parked as paused (`manager.go:915`).
- Declining a re-stack "caps the change to Tier B" (`supervise.go:33`), but `capToTier`
  does not revert every field `tierOf` counts (`supervise_params.go:429`). `BudgetKept`
  excepts these fields (`slip`) and the passes repeated for a nudge.
- A warm start may seed stacking knobs while the first pass is rendered at tier B
  (`supervise_history.go:162`): the pass is recorded with a stack it was not made with.
  `ImageMatchesPreset` excepts the stack of a warm start.

Runs and their scratch
- A run resumed after a pause, a crash or a kill takes a master for finished because the
  file exists (`pause.go:41`). A kill can leave one that is stacked and not finished, and a
  stack that failed, on a full disk say, a part of the file: `fsutil.CopyFile` is a create
  and a copy in place (`pipeline.go:1986`, `2062`), and so are Siril's saves. The failed
  channel is only a note of its attempt; the next one composites what is left of it.
  `CompositedIsWhole` allows this to a resumed run and to harmed channels, and to no other.
- A resumed run keeps its old stamp, so a sweep that looked before it started can
  delete its live scratch, against `sweep.go:15`; so can it that of a run of the
  command line older than two hours. Two runs that start in the same second share
  a stamp.
- `combineFailure` returns nil for a plan without a channel; whether `Process` can get
  that far without one is not modelled (`OrderAssumption`).
- `forEachBand` waits for ever when every band worker has left with an error and the
  run's own context goes on (`stack.go:274`): `EverythingEnds` begins where it ends.

Run directories: the reasons of `why` and `doubt`
- `"repaired"`: the manifest is written with the preset of the job after the star repair
  tuned the image (`checkpoint.go:92`). A refinement never refreshes the manifest at all.
- `"fallback"`: when the standard finish fails, the composite is Siril's, which is passed
  four knobs (`pipeline.go:993`) and honours none of the composite edits, as
  `rerun.go:63` says; the manifest says they are in the image.
- `"screen"`: `finishComposite` on a cheap re-entry ignores the screen knobs of OIII and SII.
- `"unpersisted"`: a failed copy of the linear prep leaves the earlier job's, or a mixture,
  beside its manifest, against the comment at `pipeline.go:1624`.
- `"unseparated"`: the separation of a dual-band master fails half way; an image
  without the channels, or an old `syn_*`, stays behind.
- `"unaligned"`, `"cropped"`: a registration or a crop that fails, or is not needed any more,
  leaves the `aligned_*` or `combine_*` of an earlier job; the next re-entry takes them. So
  does a rerun that restacks under `combine_*` files, which it does not make again.
- `"substituted"`: OIII composited as blue is re-entered without blue.
- `"excluded"`: a rerun ignores the excluded sets (and the filter overrides) of the first run.
- A channel the record does not name, a manifest that could not be written, a job that
  died or failed on its way: the files are newer than what is written of them.

Run directories, besides
- `applyEdgeCrop` cuts every channel of a run to the field they all cover and composites the
  copies (`pipeline.go:859`); `reconstructChannelsFromDisk` never looks for `trim_*`
  (`refine.go:214`), and no re-entry cuts again. The margins come back with the first
  re-entry at tier B or C. `CheckpointTells` compares the channels but for this (`Uncut`).
- Channels that are not registered are composited by name (`alignchannels.go:26`): where
  OIII stands in for a B that a rerun failed to stack again, the image shows the earlier
  job's `master_B`. `RerunShows` excepts this case (`StandsIn`).
- `prepGimpInputs` says its `res` may be nil (`pipeline.go:1237`) and reads
  `res.Inventory` (`pipeline.go:1263`). The supervisor (`supervise_reentry.go:82`) and the
  star repair pass nil: at this commit the first pass of a supervised deep-sky finish
  panics, and so does a pass of the star repair that needs the linear prep again. `run`
  recovers and writes the job as failed; the masters are there, the record is not. `RunDir`
  has this (`Panic`). `Supervise` models the loop, which other renderers share (comet,
  nightscape, planetary), with a renderer that returns: it says what the deep-sky loop
  does once the prep is given a result.

Cross-session merge
- After a group is skipped, `anchorGroupIndex`, an index among all groups, is used
  among the survivors (`registerMergedGroups`, `markReferenceGroup`, the seam refit, the
  mosaic, the labels of previews and session lines): another night becomes the canvas
  and the scale, or none does, against "must cost only its own frames"
  (`reuse_process.go:74`) and "every channel master lands on the anchor night's full
  field". `OneAnchor` holds for channels that lost no group up to the anchor
  (`Straight`) and excepts the others: it does not say what becomes of them.
- When the review of a registration cannot read the sequence (`registration.go:57`),
  Siril's own reference stays and any group may be the canvas; the anchor is then only the
  night of the scale.
- The key of the flat cache lacks the gain (`reuse_process.go:534`): a group gets the
  flat, or the failure, of whichever gain asked first. `FlatIsOwn` is about the session, the
  filter and the night, and allows any gain.
- A mirror script that fails half way leaves some frames mirrored, though the note says
  "frames left unmirrored" (`reuse_process.go:650`); the warning is there, as
  `FlipIsTold` requires.
- A group with no masters at all keeps frames that are links to the captures, and
  `stripBayerPattern` edits through them, against "never the hardlinked originals"
  (`parity.go:48`). Not part of the model.

Tool health (not modelled)
- A report collected before `Invalidate` may be stored after it (`toolhealth.go:102`),
  against "next report picks up the fresh verdict" (`toolhealth.go:249`); one collected
  under the context of a client that hung up is cached as well; and the verdict in
  memory never expires, against `unhealthyTTL` (`graxpert/health.go:27`).

## 9. Abstractions and simplifications

Job manager
- `execute` is one step with every outcome the code distinguishes; that a
  pipeline respects its context is not assumed (a cancelled run may succeed).
- SIGTERM during the statements of `Start` itself is left out; one during the
  service of requests is not.
- An error that *is* `context.Canceled` without the run's own context being
  cancelled is left out.
- The series enqueues its next attempt in one step of the worker.
- A worker of a stopping server may return or take one more id: both are allowed.
- A failing database is a constant: the UPDATEs whose errors are dropped may be lost.
- Deleting a finished job is left out.

Run watch
- Readings, positions and peaks have no value: an event carries a preview, says
  the job is done, or neither.
- The database does not fail here; its failures are in `JobManager`.
- A masters build and an unknown mode, which return before the registration, are
  the step of `EndRow` that skips it.

Supervise
- A cancellation of the run is seen where the code sees it: as the loop's end, as
  a failed rendering, or as an answer that does not come.
- The model's reply is drawn where it is used; a model that is away is a neutral
  score and no patch, which are among the choices.
- A nudge taken from the mailbox before the last iteration may be unanswered when
  the iterations are spent: `NudgeHeard` is about the other reasons to stop.
- A nudge without a patch repeats the last tier without paying for it (`overrun`).
- The modes with budgets (0, 1) and (0, 2) are not tried by a run; the theorems
  cover every budget.
- The finalizing of the winner, whose masters may be older than those on disk, is
  left out here; `RunDir` has it (`Promote`).

Deep-sky run and sweep
- The stack and the finish of a channel are one step each, with any outcome; the
  inputs are there, panels of a mosaic are not tried. A run has at least one channel.
- A boot puts the job back without the bound on restarts, which is `JobManager`'s.
- Removing one directory is one step.

Run directory
- A preset is four knobs of two values; a patch of several fields is one that changes
  several knobs. The palette is not edited: OIII as blue and the separation of a
  dual-band capture are options of the run.
- Left out: a capture that mixes broadband and dual-band sets (`dualSetChannels`), mosaics,
  `measuredBroadband`, and the supervised finish after its first rendering, which it does
  not reach (section 8).
- `TypeOK` is proved and not a part of the run: TLC cannot enumerate `Channels`.
- Jobs over one directory follow one another: they lock the same folders.
- `why` and `doubt` are history; the code keeps no such flag.

Frame loops
- The bodies have no result but success or failure; an error group is the flag it
  sets and the context it cancels.

Session merge
- Frames are counted, not told apart; a group registers as a whole or not at all, and
  may fail to.
- The photometric normalization is on; the groups it leaves alone, one or several, are one
  fault of the two.
- The masters of darks and of this capture, the size check of a flat, the offsets at
  seams, the padding of a mosaic and the parity of finished masters are left out.
- The broken variant of `Mirror` trusts a flip without the second reading: that two
  false readings go unnoticed, and one does not, is what the second reading buys.

## 10. What is not modelled

`PROJECT.json` lists every part of the repository with the reason.

- *Next steps of the plan*: series attempts, tool health, pure operators.
- *Numerical code* (stacker, planetary, solar, comet, nightscape, mosaic,
  transients, grading, photometry): sequential floating point over images. It is
  most of the repository's lines, and the reason why the models, which are about
  what is concurrent, persistent or told to somebody, cover a small share of them.
- *External programs and formats* (Siril, GIMP, GraXpert, StarNet; FITS, raw
  decoders): I/O; where a model meets one, its outcome is nondeterministic.
- *HTTP routing, SQL beyond the `jobs` table, configuration, command line,
  frontend, containers*: no state of their own that the engine's behaviour hangs
  on; a container's restart is a crash and a boot of `JobManager`.
