-------------------------- MODULE JobManagerProofs --------------------------
(***************************************************************************)
(* The job manager, proved for any number of workers and requests, any     *)
(* folder tree, any lane capacity and any number of restarts.              *)
(*   - types, mutual exclusion of overlapping runs, and the maps: TInv, IInv *)
(*   - a cancellation at rest is final                                     *)
(*   - while the database answers, no queued row is forgotten (QInv) and   *)
(*     no conversation is left open (VInv)                                 *)
(*   - the manager implements JobTickets: tickets and runs are counted     *)
(*     (CInv), and every step pays as the abstract specification says      *)
(*   - restarts hand a job back a bounded number of times (BInv)           *)
(*   - the sequential lane keeps the order of submission (SInv)            *)
(***************************************************************************)
EXTENDS JobManager, FiniteSetTheorems, FunctionTheorems, TLAPS

\* Ids in circulation are ids of rows: on a lane, waiting for a re-dispatch,
\* in a worker's hands, or in a handler's.
IdsExist ==
  /\ \A w \in Worker : wpc[w] # "idle" => wjob[w] \in 1..(nextId - 1)
  /\ \A l \in Lane : \A i \in 1..Len(lane[l]) : lane[l][i] \in 1..(nextId - 1)
  /\ dispatch \subseteq 1..(nextId - 1)
  /\ \A c \in Client : cpc[c] # "idle" => cjob[c] \in 1..(nextId - 1)
  /\ \A j \in Job : row[j].status # "none" => j \in 1..(nextId - 1)

TInv == TypeOK /\ IdsExist

\* A step never changes the request of a row that exists.
ReqKept == \A j \in 1..(nextId - 1) : row'[j].req = row[j].req

\* What each worker holds, and that the maps name whoever is registered.
LockInv ==
  /\ \A w \in Worker : inside[w] = IF HoldsLock(w) THEN row[wjob[w]].req.roots ELSE {}
  /\ \A v, w \in Worker : v # w => ~Locks!Overlap(inside[v], inside[w])

IInv == TInv /\ LockInv /\ RegisteredIsReachable

-----------------------------------------------------------------------------
(* Helpers: what the updates, the sends and the creation of a row keep.    *)

\* What NewRow makes is a row.
LEMMA NewRowType ==
  ASSUME NEW st \in Status, NEW q \in RequestType
  PROVE  NewRow(st, q) \in Row
  BY DEF NewRow, Row

LEMMA AnyRequestType == AnyRequest \in RequestType
  BY ManagerAssumption DEF AnyRequest, ManagerAssumption

\* One UPDATE of an existing row keeps the table well typed, touches no
\* request and brings no row into being.
LEMMA UpdateKeeps ==
  ASSUME TInv, NEW j \in 1..(nextId - 1), NEW st \in Status, NEW res \in BOOLEAN,
         SetStatus(j, st) \/ FinishJob(j, st, res) \/ SetJobPaused(j) \/ UNCHANGED row
  PROVE  /\ row' \in [Job -> Row]
         /\ ReqKept
         /\ \A k \in Job : row'[k].status # "none" => k \in 1..(nextId - 1)
  <1>1. j \in Job /\ row \in [Job -> Row]
    BY ManagerAssumption DEF TInv, TypeOK, Job, ManagerAssumption
  <1>2. row' \in [Job -> Row]
    BY <1>1 DEF SetStatus, FinishJob, SetJobPaused, Row, Status, Terminal
  <1>3. \A k \in Job : /\ row'[k].req = row[k].req
                       /\ row'[k].status # "none" => row[k].status # "none" \/ k = j
    BY <1>1 DEF SetStatus, FinishJob, SetJobPaused, Row, Status, Terminal
  <1>4. \A k \in 1..(nextId - 1) : k \in Job
    BY ManagerAssumption DEF TInv, TypeOK, Job, ManagerAssumption
  <1> QED
    BY <1>2, <1>3, <1>4 DEF TInv, IdsExist, ReqKept

\* A bound on the elements of a sequence bounds its head and its tail.
LEMMA HeadTail ==
  ASSUME NEW S, NEW B, NEW s \in Seq(S), s # << >>, \A i \in 1..Len(s) : s[i] \in B
  PROVE  /\ Head(s) \in S /\ Head(s) \in B /\ Tail(s) \in Seq(S)
         /\ \A i \in 1..Len(Tail(s)) : Tail(s)[i] \in B
  <1>1. Len(s) \in Nat /\ Len(s) > 0
    OBVIOUS
  <1>2. Tail(s) \in Seq(S) /\ Len(Tail(s)) = Len(s) - 1
    OBVIOUS
  <1>3. \A i \in 1..Len(Tail(s)) : Tail(s)[i] = s[i + 1] /\ i + 1 \in 1..Len(s)
    BY <1>1, <1>2
  <1>4. Head(s) = s[1] /\ s[1] \in S
    BY <1>1
  <1> QED
    BY <1>1, <1>2, <1>3, <1>4

\* A send, or the refusal of one, keeps the lanes well typed; whatever bounded
\* the ids on the lanes and the new id bounds them afterwards.
LEMMA ScheduleKeeps ==
  ASSUME TInv, NEW l \in Lane, NEW n \in Nat, NEW j \in Job, j <= n,
         \A k \in Lane : \A i \in 1..Len(lane[k]) : lane[k][i] \in 1..n,
         \/ Schedule(l, j)
         \/ Send(l, j) /\ UNCHANGED dropped
  PROVE  /\ lane' \in [Lane -> Seq(Job)] /\ dropped' \subseteq Job
         /\ \A k \in Lane : \A i \in 1..Len(lane'[k]) : lane'[k][i] \in 1..n
  <1>1. j \in 1..n
    BY DEF Job
  <1>2. CASE UNCHANGED lane
    BY <1>2 DEF TInv, TypeOK, Schedule, Send
  <1>3. CASE lane' = [lane EXCEPT ![l] = Append(@, j)] /\ UNCHANGED dropped
    <2>1. lane' \in [Lane -> Seq(Job)] /\ dropped' \subseteq Job
      BY <1>3 DEF TInv, TypeOK
    <2>2. \A k \in Lane : k # l => lane'[k] = lane[k]
      BY <1>3 DEF TInv, TypeOK
    <2>3. lane'[l] = Append(lane[l], j) /\ lane[l] \in Seq(Job)
      BY <1>3 DEF TInv, TypeOK
    <2>4. \A i \in 1..Len(lane'[l]) : lane'[l][i] \in 1..n
      BY <1>1, <2>3
    <2> QED
      BY <2>1, <2>2, <2>4
  <1> QED
    BY <1>2, <1>3 DEF Schedule, Send

\* CreateJob makes the next id a row and leaves the others alone.
LEMMA CreateKeeps ==
  ASSUME TInv, NEW q \in RequestType, CreateJob(q)
  PROVE  /\ row' \in [Job -> Row] /\ turn' \subseteq Job
         /\ nextId \in Job /\ nextId' = nextId + 1 /\ nextId' \in 1..(MaxJobs + 1)
         /\ ReqKept /\ row'[nextId].req = q
         /\ \A k \in Job : row'[k].status # "none" => k \in 1..(nextId' - 1)
  <1> USE DEF TInv, TypeOK, Job
  <1>1. NewRow("queued", q) \in Row
    BY NewRowType DEF Status
  <1>2. row' \in [Job -> Row] /\ turn' \subseteq Job
    BY <1>1 DEF CreateJob
  <1>3. nextId \in Job /\ nextId' = nextId + 1 /\ nextId' \in 1..(MaxJobs + 1)
    BY ManagerAssumption DEF CreateJob, ManagerAssumption
  <1>4. \A k \in Job : k # nextId => row'[k] = row[k]
    BY DEF CreateJob
  <1>5. row'[nextId].req = q
    BY <1>3 DEF CreateJob, NewRow
  <1>6. ReqKept
    <2>1. \A k \in 1..(nextId - 1) : k \in Job /\ k # nextId
      BY <1>3, ManagerAssumption DEF ManagerAssumption
    <2> QED
      BY <1>4, <2>1 DEF ReqKept
  <1>7. \A k \in Job : row'[k].status # "none" => k \in 1..(nextId' - 1)
    <2>1. \A k \in Job : k # nextId /\ row'[k].status # "none" => k \in 1..(nextId - 1)
      BY <1>4 DEF IdsExist
    <2> QED
      BY <1>3, <2>1
  <1> QED
    BY <1>2, <1>3, <1>5, <1>6, <1>7

\* What Verdict answers can be written.
LEMMA VerdictType ==
  ASSUME NEW o \in {"ok", "error", "paused", "panic"}, NEW done \in BOOLEAN
  PROVE  Verdict(o, done) \in Outcome
  BY DEF Verdict, Outcome

\* A replayed request is a request.
LEMMA ReplaysType ==
  ASSUME TInv, NEW j \in Job, NEW q \in Replays(j)
  PROVE  q \in RequestType
  <1>1. row[j].req \in RequestType /\ "main" \in Lane
    BY DEF TInv, TypeOK, Row, Lane
  <1> DEFINE r == row[j].req
  <1>2. \/ q = r
        \/ \E s \in {r.series, TRUE} : q = [r EXCEPT !.refine = FALSE, !.lane = "main", !.sup = TRUE, !.series = s]
        \/ q = [r EXCEPT !.lane = "main", !.sup = TRUE, !.refine = TRUE]
        \/ q = [r EXCEPT !.refine = FALSE, !.lane = "main", !.sup = FALSE, !.rerun = TRUE]
        \/ q = [r EXCEPT !.refine = FALSE, !.rerun = FALSE, !.lane = "main", !.sup = FALSE, !.denoise = TRUE]
    BY DEF Replays
  <1> HIDE DEF r
  <1> QED
    BY <1>1, <1>2 DEF RequestType, r

\* The request a worker runs: a job that exists, some folders.
LEMMA WorkersRequest ==
  ASSUME TInv, NEW w \in Worker, wpc[w] # "idle"
  PROVE  /\ wjob[w] \in 1..(nextId - 1) /\ wjob[w] \in Job
         /\ row[wjob[w]].req \in RequestType
         /\ row[wjob[w]].req.roots \subseteq Root /\ row[wjob[w]].req.roots # {}
  <1>1. wjob[w] \in 1..(nextId - 1) /\ wjob[w] \in Job
    BY ManagerAssumption DEF TInv, TypeOK, IdsExist, Job, ManagerAssumption
  <1>2. row[wjob[w]].req \in RequestType
    BY <1>1 DEF TInv, TypeOK, Row
  <1> QED
    BY <1>1, <1>2 DEF RequestType

-----------------------------------------------------------------------------
(* Type correctness.                                                       *)

\* The types hold of the first state ...
THEOREM TypeInit == Init => TInv
  <1> SUFFICES ASSUME Init PROVE TInv
    OBVIOUS
  <1>1. row \in [Job -> Row] /\ \A j \in Job : row[j].status = "none"
    BY NewRowType, AnyRequestType DEF Init, Status, NewRow
  <1>2. nextId \in 1..(MaxJobs + 1)
    BY ManagerAssumption DEF Init, ManagerAssumption
  <1>3. lane \in [Lane -> Seq(Job)] /\ \A l \in Lane : Len(lane[l]) = 0
    BY DEF Init
  <1> QED
    BY <1>1, <1>2, <1>3 DEF Init, TInv, TypeOK, IdsExist, WorkerPC, Outcome, ClientPC

\* The workers' steps.
LEMMA WorkerTypes ==
  ASSUME TInv, NEW w \in Worker, WorkerStep(w)
  PROVE  TInv'
  <1> USE ManagerAssumption DEF ManagerAssumption, TInv, TypeOK, IdsExist, Job, Lane, WorkerPC, Outcome,
            dbVars, laneVars, mapVars, workerVars, clientVars, histVars
  <1>1. CASE Dequeue(w)
    <2> DEFINE l == LaneOf[w]
    <2>1. l \in Lane /\ lane[l] \in Seq(Job) /\ lane[l] # << >>
      BY <1>1 DEF Dequeue
    <2>2. \A i \in 1..Len(lane[l]) : lane[l][i] \in 1..(nextId - 1)
      BY <2>1
    <2>3. /\ Head(lane[l]) \in 1..(nextId - 1) /\ Head(lane[l]) \in Job
          /\ Tail(lane[l]) \in Seq(Job)
          /\ \A i \in 1..Len(Tail(lane[l])) : Tail(lane[l])[i] \in 1..(nextId - 1)
      BY ONLY <2>1, <2>2, HeadTail
    <2>4. /\ lane' \in [Lane -> Seq(Job)]
          /\ \A k \in Lane : \A i \in 1..Len(lane'[k]) : lane'[k][i] \in 1..(nextId - 1)
      BY <1>1, <2>1, <2>3 DEF Dequeue
    <2>5. /\ wjob' = [wjob EXCEPT ![w] = Head(lane[l])]
          /\ wpc' = [wpc EXCEPT ![w] = "read"]
          /\ UNCHANGED <<dbVars, up, dispatch, dropped, mapVars, wdone, wgate, wout, clientVars, histVars>>
      BY <1>1 DEF Dequeue, Step
    <2> HIDE DEF l
    <2> QED
      BY <2>3, <2>4, <2>5
  <1>2. CASE ReadFails(w)
    BY <1>2 DEF ReadFails, Return
  <1>3. CASE SkipCancelled(w)
    BY <1>3 DEF SkipCancelled, Return
  <1>4. CASE GoOn(w)
    BY <1>4 DEF GoOn, Step
  <1>5. CASE AcquireLock(w)
    <2>1. row[wjob[w]].req.roots \subseteq Root
      BY <1>5, WorkersRequest DEF AcquireLock, Step
    <2> QED
      BY <1>5, <2>1 DEF AcquireLock, Step, Register, Locks!Enter
  <1>6. CASE SetRunning(w)
    <2>1. wjob[w] \in 1..(nextId - 1)
      BY <1>6 DEF SetRunning, Step
    <2>2. SetStatus(wjob[w], "running") \/ UNCHANGED row
      BY <1>6 DEF SetRunning, Ignored
    <2>3. /\ row' \in [Job -> Row]
          /\ \A k \in Job : row'[k].status # "none" => k \in 1..(nextId - 1)
      BY <2>1, <2>2, UpdateKeeps DEF Status
    <2> QED
      BY <1>6, <2>3 DEF SetRunning, Step
  <1>7. CASE Execute(w)
    <2>1. PICK o \in {"ok", "error", "paused", "panic"} :
            /\ wout' = [wout EXCEPT ![w] = Verdict(o, wdone[w])]
            /\ Step(w, "exec", IF o = "panic" THEN "unregister" ELSE "write")
      BY <1>7 DEF Execute
    <2>2. wout' \in [Worker -> Outcome]
      BY <2>1, VerdictType
    <2> QED
      BY <1>7, <2>1, <2>2 DEF Execute, Step
  <1>8. CASE WriteEnd(w)
    <2>1. wjob[w] \in 1..(nextId - 1)
      BY <1>8 DEF WriteEnd, Step
    <2>2. PICK st \in Status, res \in BOOLEAN :
            FinishJob(wjob[w], st, res) \/ SetJobPaused(wjob[w]) \/ UNCHANGED row
      BY <1>8 DEF WriteEnd, Ignored, EndUpdate, Status, Terminal
    <2>3. /\ row' \in [Job -> Row]
          /\ \A k \in Job : row'[k].status # "none" => k \in 1..(nextId - 1)
      <3>1. \/ SetStatus(wjob[w], st) \/ FinishJob(wjob[w], st, res)
            \/ SetJobPaused(wjob[w]) \/ UNCHANGED row
        BY ONLY <2>2
      <3> QED
        BY ONLY <2>1, <3>1, TInv, UpdateKeeps, SMTT(60)
    <2> QED
      BY <1>8, <2>3 DEF WriteEnd, Step
  <1>9. CASE CloseTurn(w)
    BY <1>9 DEF CloseTurn, Step
  <1>10. CASE ClosePanicked(w)
    BY <1>10 DEF ClosePanicked, Return
  <1>11. CASE SeriesStops(w)
    BY <1>11 DEF SeriesStops, Step
  <1>12. CASE SeriesNext(w)
    <2> DEFINE q == [row[wjob[w]].req EXCEPT !.refine = FALSE, !.lane = "main", !.sup = TRUE]
    <2>1. q \in RequestType
      <3>1. row[wjob[w]].req \in RequestType
        BY <1>12, WorkersRequest DEF SeriesNext, Step
      <3> QED
        BY <3>1 DEF RequestType
    <2>2. CreateJob(q) /\ Schedule("main", nextId)
      BY <1>12 DEF SeriesNext
    <2>3. /\ row' \in [Job -> Row] /\ turn' \subseteq Job
          /\ nextId \in Job /\ nextId' = nextId + 1 /\ nextId' \in 1..(MaxJobs + 1)
          /\ \A k \in Job : row'[k].status # "none" => k \in 1..(nextId' - 1)
      BY <2>1, <2>2, CreateKeeps
    <2> HIDE DEF q
    <2>4. /\ "main" \in Lane /\ nextId \in Nat /\ nextId <= nextId
          /\ \A k \in Lane : \A i \in 1..Len(lane[k]) : lane[k][i] \in 1..nextId
      BY SMTT(60)
    <2>5. /\ lane' \in [Lane -> Seq(Job)] /\ dropped' \subseteq Job
          /\ \A k \in Lane : \A i \in 1..Len(lane'[k]) : lane'[k][i] \in 1..nextId
      BY ONLY <2>2, <2>3, <2>4, ScheduleKeeps, TInv
    <2> QED
      <3>1. /\ wpc' = [wpc EXCEPT ![w] = "unregister"]
            /\ UNCHANGED <<up, dispatch, cancels, inside, wjob, wdone, wgate, wout, clientVars, histVars>>
        BY <1>12 DEF SeriesNext, Step
      <3>2. TypeOK'
        BY ONLY <2>3, <2>5, <3>1, TInv DEF TInv, TypeOK, WorkerPC, clientVars, histVars
      <3>3. /\ wpc[w] # "idle" /\ \A n \in 1..(nextId - 1) : n \in 1..(nextId' - 1)
            /\ nextId' - 1 = nextId
        <4>1. wpc[w] # "idle"
          BY ONLY <1>12 DEF SeriesNext, Step
        <4>2. nextId \in Nat /\ nextId' = nextId + 1
          BY ONLY <2>3, TInv DEF TInv, TypeOK
        <4> QED
          BY ONLY <4>1, <4>2
      <3>4. IdsExist'
        BY ONLY <2>3, <2>5, <3>1, <3>3, TInv DEF TInv, TypeOK, IdsExist, clientVars
      <3> QED
        BY <3>2, <3>4
  <1>13. CASE Unregister(w)
    BY <1>13 DEF Unregister, Step
  <1>14. CASE Unlock(w)
    BY <1>14 DEF Unlock, Return, Locks!Leave
  <1>15. CASE UnlockPanicked(w)
    BY <1>15 DEF UnlockPanicked, Step, Locks!Leave
  <1> QED
    BY <1>1, <1>2, <1>3, <1>4, <1>5, <1>6, <1>7, <1>8, <1>9, <1>10, <1>11, <1>12, <1>13, <1>14, <1>15
       DEF WorkerStep

\* The handlers' steps.
LEMMA EnqueueCreateType ==
  ASSUME TInv, NEW c \in Client, NEW q \in RequestType, EnqueueCreate(c, q)
  PROVE  TInv'
  <1>1. CreateJob(q)
    BY DEF EnqueueCreate
  <1>2. /\ row' \in [Job -> Row] /\ turn' \subseteq Job
        /\ nextId \in Job /\ nextId' = nextId + 1 /\ nextId' \in 1..(MaxJobs + 1)
        /\ \A k \in Job : row'[k].status # "none" => k \in 1..(nextId' - 1)
    BY <1>1, CreateKeeps
  <1>3. /\ cjob' = [cjob EXCEPT ![c] = nextId] /\ cpc' = [cpc EXCEPT ![c] = "push"]
        /\ UNCHANGED <<up, laneVars, cancels, inside, workerVars, histVars>>
    BY DEF EnqueueCreate
  <1>4. TypeOK'
    BY <1>2, <1>3 DEF TInv, TypeOK, ClientPC, laneVars, workerVars, histVars
  <1>5. /\ \A n \in 1..(nextId - 1) : n \in 1..(nextId' - 1)
        /\ nextId \in 1..(nextId' - 1)
    <2>1. nextId \in Nat /\ nextId >= 1 /\ nextId' = nextId + 1
      BY <1>2 DEF TInv, TypeOK
    <2> QED
      BY ONLY <2>1
  <1>6. IdsExist'
    BY <1>2, <1>3, <1>5 DEF TInv, TypeOK, IdsExist, laneVars, workerVars
  <1> QED
    BY <1>4, <1>6 DEF TInv

LEMMA ClientTypes ==
  ASSUME TInv, NEW c \in Client, ClientStep(c)
  PROVE  TInv'
  <1> USE DEF Job, Lane, ClientPC, dbVars, laneVars, mapVars, workerVars, clientVars, histVars
  <1>1. CASE EnqueuePush(c)
    <2>1. cjob[c] \in 1..(nextId - 1) /\ cjob[c] \in Job
      BY <1>1, ManagerAssumption DEF EnqueuePush, TInv, TypeOK, IdsExist, ManagerAssumption
    <2>2. LaneFor(cjob[c]) \in Lane
      BY <2>1 DEF LaneFor, TInv, TypeOK, Row, RequestType
    <2>3. /\ nextId - 1 \in Nat /\ cjob[c] <= nextId - 1
          /\ \A k \in Lane : \A i \in 1..Len(lane[k]) : lane[k][i] \in 1..(nextId - 1)
      BY <2>1 DEF TInv, TypeOK, IdsExist
    <2>4. Schedule(LaneFor(cjob[c]), cjob[c])
      BY <1>1 DEF EnqueuePush
    <2>5. /\ lane' \in [Lane -> Seq(Job)] /\ dropped' \subseteq Job
          /\ \A k \in Lane : \A i \in 1..Len(lane'[k]) : lane'[k][i] \in 1..(nextId - 1)
      BY ONLY <2>1, <2>2, <2>3, <2>4, TInv, ScheduleKeeps
    <2> QED
      BY <1>1, <2>5 DEF EnqueuePush, Reply, TInv, TypeOK, IdsExist
  <1>2. CASE CancelLookup(c)
    BY <1>2 DEF CancelLookup, Reply, TInv, TypeOK, IdsExist
  <1>3. CASE CancelWrite(c)
    <2>1. cjob[c] \in 1..(nextId - 1)
      BY <1>3 DEF CancelWrite, TInv, TypeOK, IdsExist
    <2>2. PICK st \in Status : FinishJob(cjob[c], st, FALSE) \/ UNCHANGED row
      BY <1>3 DEF CancelWrite, Ignored, Status, Terminal
    <2>3. /\ row' \in [Job -> Row]
          /\ \A k \in Job : row'[k].status # "none" => k \in 1..(nextId - 1)
      BY ONLY <2>1, <2>2, TInv, UpdateKeeps
    <2> QED
      BY <1>3, <2>3 DEF CancelWrite, Reply, TInv, TypeOK, IdsExist
  <1>4. CASE ContinuePush(c)
    <2>1. cjob[c] \in 1..(nextId - 1) /\ cjob[c] \in Job
      BY <1>4, ManagerAssumption DEF ContinuePush, TInv, TypeOK, IdsExist, ManagerAssumption
    <2>2. LaneFor(cjob[c]) \in Lane
      BY <2>1 DEF LaneFor, TInv, TypeOK, Row, RequestType
    <2>3. /\ nextId - 1 \in Nat /\ cjob[c] <= nextId - 1
          /\ \A k \in Lane : \A i \in 1..Len(lane[k]) : lane[k][i] \in 1..(nextId - 1)
      BY <2>1 DEF TInv, TypeOK, IdsExist
    <2>4. UNCHANGED lane \/ (Send(LaneFor(cjob[c]), cjob[c]) /\ UNCHANGED dropped)
      BY <1>4 DEF ContinuePush
    <2>5. /\ lane' \in [Lane -> Seq(Job)]
          /\ \A k \in Lane : \A i \in 1..Len(lane'[k]) : lane'[k][i] \in 1..(nextId - 1)
      <3>1. CASE UNCHANGED lane
        BY <2>3, <3>1 DEF TInv, TypeOK
      <3>2. CASE Send(LaneFor(cjob[c]), cjob[c]) /\ UNCHANGED dropped
        BY ONLY <2>1, <2>2, <2>3, <3>2, TInv, ScheduleKeeps
      <3> QED
        BY <2>4, <3>1, <3>2
    <2> QED
      BY <1>4, <2>5 DEF ContinuePush, Reply, TInv, TypeOK, IdsExist
  <1>5. ASSUME NEW q \in Request, EnqueueCreate(c, q) PROVE TInv'
    BY <1>5, EnqueueCreateType, ManagerAssumption DEF ManagerAssumption
  <1>6. ASSUME NEW j \in Job, Replay(c, j) PROVE TInv'
    BY <1>6, ReplaysType, EnqueueCreateType DEF Replay
  <1>7. ASSUME NEW j \in Job, CancelRun(c, j) PROVE TInv'
    BY <1>7 DEF CancelRun, TInv, TypeOK, IdsExist
  <1>8. ASSUME NEW j \in Job, CancelMiss(c, j) PROVE TInv'
    BY <1>8 DEF CancelMiss, Created, TInv, TypeOK, IdsExist
  <1>9. ASSUME NEW j \in Job, ContinueRead(c, j) PROVE TInv'
    BY <1>9 DEF ContinueRead, TInv, TypeOK, IdsExist
  <1> QED
    BY <1>1, <1>2, <1>3, <1>4, <1>5, <1>6, <1>7, <1>8, <1>9 DEF ClientStep

\* The process's steps.
LEMMA RequeuedType ==
  ASSUME NEW r \in Row
  PROVE  /\ Requeued(r) \in Row /\ Requeued(r).req = r.req
         /\ r.status = "none" => Requeued(r).status = "none"
  <1>1. CASE r.status # "running"
    BY <1>1 DEF Requeued
  <1>2. CASE r.status = "running"
    <2> DEFINE st == IF r.restarts < MaxRestartRequeues THEN "queued" ELSE "failed"
    <2>1. st \in Status /\ r.restarts + 1 \in Nat
      BY DEF Row, Status, Terminal
    <2>2. Requeued(r) = [r EXCEPT !.restarts = r.restarts + 1, !.status = st]
      BY <1>2 DEF Requeued, Row
    <2> HIDE DEF st
    <2> QED
      BY <1>2, <2>1, <2>2 DEF Row
  <1> QED
    BY <1>1, <1>2

LEMMA ProcessTypes ==
  ASSUME TInv, ProcessStep
  PROVE  TInv'
  <1> USE DEF Job, Lane, dbVars, laneVars, mapVars, workerVars, clientVars, histVars
  <1>1. CASE Stop
    BY <1>1 DEF Stop, TInv, TypeOK, IdsExist
  <1>2. CASE Die
    <2>1. lane' \in [Lane -> Seq(Job)] /\ \A l \in Lane : Len(lane'[l]) = 0
      BY <1>2 DEF Die
    <2> QED
      BY <1>2, <2>1 DEF Die, TInv, TypeOK, IdsExist, WorkerPC, ClientPC, Outcome
  <1>3. CASE Boot
    <2>1. row' \in [Job -> Row] /\ \A j \in Job : row[j].status = "none" => row'[j].status = "none"
      <3>1. CASE row' = [j \in Job |-> Requeued(row[j])]
        BY <3>1, RequeuedType DEF TInv, TypeOK
      <3>2. CASE UNCHANGED row
        BY <3>2 DEF TInv, TypeOK
      <3> QED
        BY <1>3, <3>1, <3>2 DEF Boot, Ignored
    <2>2. handed' \in [Job -> Nat] /\ boots' \in Nat
      BY <1>3 DEF Boot, Booted, TInv, TypeOK
    <2>3. dispatch' \subseteq Job /\ dispatch' \subseteq 1..(nextId - 1)
      <3>1. \A j \in dispatch' : j \in Job /\ row'[j].status # "none"
        BY <1>3 DEF Boot
      <3> QED
        BY <2>1, <3>1 DEF TInv, IdsExist
    <2> QED
      BY <1>3, <2>1, <2>2, <2>3 DEF Boot, Booted, TInv, TypeOK, IdsExist
  <1>4. CASE Listen
    BY <1>4 DEF Listen, TInv, TypeOK, IdsExist
  <1>5. ASSUME NEW j \in Job, Redispatch(j) PROVE TInv'
    <2>1. j \in 1..(nextId - 1)
      BY <1>5 DEF Redispatch, TInv, IdsExist
    <2>2. LaneFor(j) \in Lane
      BY DEF LaneFor, TInv, TypeOK, Row, RequestType
    <2>3. /\ nextId - 1 \in Nat /\ j <= nextId - 1
          /\ \A k \in Lane : \A i \in 1..Len(lane[k]) : lane[k][i] \in 1..(nextId - 1)
      BY <2>1 DEF TInv, TypeOK, IdsExist
    <2>4. Schedule(LaneFor(j), j)
      BY <1>5 DEF Redispatch
    <2>5. /\ lane' \in [Lane -> Seq(Job)] /\ dropped' \subseteq Job
          /\ \A k \in Lane : \A i \in 1..Len(lane'[k]) : lane'[k][i] \in 1..(nextId - 1)
      BY ONLY <2>2, <2>3, <2>4, j \in Job, TInv, ScheduleKeeps
    <2> QED
      BY <1>5, <2>5 DEF Redispatch, TInv, TypeOK, IdsExist
  <1> QED
    BY <1>1, <1>2, <1>3, <1>4, <1>5 DEF ProcessStep

\* ... and every step of the manager keeps them.
THEOREM TypeStep == TInv /\ [Next]_vars => TInv'
  <1> SUFFICES ASSUME TInv, [Next]_vars PROVE TInv'
    OBVIOUS
  <1>1. ASSUME NEW j \in Job, Pause(j) PROVE TInv'
    BY <1>1 DEF Pause, TInv, TypeOK, IdsExist, dbVars, laneVars, mapVars, clientVars, histVars
  <1>2. CASE UNCHANGED vars
    BY <1>2 DEF vars, TInv, TypeOK, IdsExist, dbVars, laneVars, mapVars, workerVars, clientVars, histVars
  <1> QED
    BY <1>1, <1>2, WorkerTypes, ClientTypes, ProcessTypes DEF Next

\* The types hold in every reachable state, and every id in circulation is
\* the id of a row.
THEOREM TypesInvariant == Spec => []TInv
  BY TypeInit, TypeStep, PTL DEF Spec

\* TypeOK, the invariant the runs check.
THEOREM TypeCorrect == Spec => []TypeOK
  <1>1. TInv => TypeOK
    BY DEF TInv
  <1> QED
    BY <1>1, TypesInvariant, PTL

-----------------------------------------------------------------------------
(* Mutual exclusion of overlapping runs, and reachability of a run.        *)

LEMMA ConflictSymmetric ==
  ASSUME NEW R, NEW S, Locks!Overlap(R, S)
  PROVE  Locks!Overlap(S, R)
  BY DEF Locks!Overlap, Locks!PathsConflict

\* Two workers that hold the lock run different jobs: a job's folders overlap
\* themselves.
LEMMA DistinctJobs ==
  ASSUME IInv, NEW v \in Worker, NEW w \in Worker, v # w, HoldsLock(v), HoldsLock(w)
  PROVE  wjob[v] # wjob[w]
  <1> SUFFICES ASSUME wjob[v] = wjob[w] PROVE FALSE
    OBVIOUS
  <1>1. wpc[w] # "idle"
    BY DEF HoldsLock
  <1>2. PICK r \in row[wjob[w]].req.roots : TRUE
    BY <1>1, WorkersRequest DEF IInv
  <1>3. r \in inside[v] /\ r \in inside[w]
    BY <1>2 DEF IInv, LockInv
  <1>4. Locks!Overlap(inside[v], inside[w])
    BY <1>3 DEF Locks!Overlap, Locks!PathsConflict
  <1> QED
    BY <1>4 DEF IInv, LockInv

\* Every step keeps the requests of the rows that exist.
LEMMA WorkerKeepsRequests ==
  ASSUME TInv, NEW w \in Worker, WorkerStep(w)
  PROVE  ReqKept
  <1>1. CASE UNCHANGED row
    BY <1>1 DEF ReqKept
  <1>2. CASE SetRunning(w)
    <2>1. wjob[w] \in 1..(nextId - 1)
      BY <1>2, WorkersRequest DEF SetRunning, Step
    <2>2. SetStatus(wjob[w], "running") \/ UNCHANGED row
      BY <1>2 DEF SetRunning, Ignored
    <2> QED
      BY <2>1, <2>2, UpdateKeeps DEF Status
  <1>3. CASE WriteEnd(w)
    <2>1. wjob[w] \in 1..(nextId - 1)
      BY <1>3, WorkersRequest DEF WriteEnd, Step
    <2>2. PICK st \in Status, res \in BOOLEAN :
            FinishJob(wjob[w], st, res) \/ SetJobPaused(wjob[w]) \/ UNCHANGED row
      BY <1>3 DEF WriteEnd, Ignored, EndUpdate, Status, Terminal, TInv, TypeOK, Outcome
    <2> QED
      BY <2>1, <2>2, UpdateKeeps
  <1>4. CASE SeriesNext(w)
    <2> DEFINE q == [row[wjob[w]].req EXCEPT !.refine = FALSE, !.lane = "main", !.sup = TRUE]
    <2>1. row[wjob[w]].req \in RequestType
      BY <1>4, WorkersRequest DEF SeriesNext, Step
    <2>2. q \in RequestType
      BY <2>1 DEF RequestType, Lane
    <2>3. CreateJob(q)
      BY <1>4 DEF SeriesNext
    <2> QED
      BY ONLY <2>2, <2>3, TInv, CreateKeeps
  <1> QED
    BY <1>1, <1>2, <1>3, <1>4
       DEF WorkerStep, Dequeue, ReadFails, SkipCancelled, GoOn, AcquireLock, Register, Execute, CloseTurn,
           ClosePanicked, SeriesStops, Unregister, Unlock, UnlockPanicked, dbVars

LEMMA ClientKeepsRequests ==
  ASSUME TInv, NEW c \in Client, ClientStep(c)
  PROVE  ReqKept
  <1>1. CASE UNCHANGED row
    BY <1>1 DEF ReqKept
  <1>2. ASSUME NEW q \in RequestType, EnqueueCreate(c, q) PROVE ReqKept
    BY <1>2, CreateKeeps DEF EnqueueCreate
  <1>3. ASSUME NEW q \in Request, EnqueueCreate(c, q) PROVE ReqKept
    BY <1>2, <1>3, ManagerAssumption DEF ManagerAssumption
  <1>4. ASSUME NEW j \in Job, Replay(c, j) PROVE ReqKept
    BY <1>2, <1>4, ReplaysType DEF Replay
  <1>5. CASE CancelWrite(c)
    <2>1. cjob[c] \in 1..(nextId - 1)
      BY <1>5 DEF CancelWrite, TInv, TypeOK, IdsExist
    <2>2. PICK st \in Status : FinishJob(cjob[c], st, FALSE) \/ UNCHANGED row
      BY <1>5 DEF CancelWrite, Ignored, Status, Terminal
    <2> QED
      BY <2>1, <2>2, UpdateKeeps
  <1> QED
    BY <1>1, <1>3, <1>4, <1>5
       DEF ClientStep, EnqueuePush, CancelLookup, ContinuePush, CancelRun, CancelMiss, ContinueRead, dbVars

LEMMA ProcessKeepsRequests ==
  ASSUME TInv, ProcessStep
  PROVE  ReqKept
  <1>1. \A j \in 1..(nextId - 1) : j \in Job
    BY ManagerAssumption DEF TInv, TypeOK, Job, ManagerAssumption
  <1>2. CASE Boot
    <2>1. CASE row' = [j \in Job |-> Requeued(row[j])]
      BY <1>1, <2>1, RequeuedType DEF ReqKept, TInv, TypeOK
    <2> QED
      BY <1>2, <2>1 DEF Boot, Ignored, ReqKept
  <1> QED
    BY <1>2 DEF ProcessStep, Stop, Die, Listen, Redispatch, ReqKept, dbVars

\* A step that takes and gives back no lock, and registers and unregisters no
\* run, keeps the invariant.
LEMMA LockFrame ==
  ASSUME IInv, TInv', ReqKept, UNCHANGED <<inside, cancels>>,
         \A w \in Worker : /\ HoldsLock(w)' = HoldsLock(w)
                           /\ HoldsLock(w) => wjob'[w] = wjob[w]
                           /\ Registered(w)' => Registered(w)
  PROVE  IInv'
  <1>1. \A w \in Worker : HoldsLock(w) => row'[wjob'[w]].req = row[wjob[w]].req
    BY WorkersRequest DEF IInv, ReqKept, HoldsLock
  <1>2. LockInv'
    BY <1>1 DEF IInv, LockInv, Locks!Overlap, Locks!PathsConflict
  <1>3. RegisteredIsReachable'
    BY DEF IInv, RegisteredIsReachable, Registered
  <1> QED
    BY <1>2, <1>3 DEF IInv

\* The workers, one action at a time.
LEMMA WorkerLocks ==
  ASSUME IInv, NEW w \in Worker, WorkerStep(w), TInv'
  PROVE  IInv'
  <1>1. ReqKept
    BY WorkerKeepsRequests DEF IInv
  <1>2. \A v \in Worker : v # w => /\ wpc'[v] = wpc[v] /\ wjob'[v] = wjob[v] /\ wout'[v] = wout[v]
                                   /\ HoldsLock(v)' = HoldsLock(v) /\ Registered(v)' = Registered(v)
    <2>1. \A v \in Worker : v # w => wpc'[v] = wpc[v] /\ wjob'[v] = wjob[v] /\ wout'[v] = wout[v]
      BY DEF IInv, TInv, TypeOK, WorkerStep, Dequeue, ReadFails, SkipCancelled, GoOn, AcquireLock, Register,
             SetRunning, Execute, WriteEnd, CloseTurn, ClosePanicked, SeriesStops, SeriesNext, Unregister,
             Unlock, UnlockPanicked, Step, Return
    <2> QED
      BY <2>1 DEF HoldsLock, Registered, Panicked
  <1> USE DEF HoldsLock, Registered, Panicked
  <1>3. CASE Dequeue(w) \/ GoOn(w) \/ SetRunning(w) \/ SeriesStops(w) \/ SeriesNext(w) \/ CloseTurn(w)
    <2>1. /\ HoldsLock(w)' = HoldsLock(w)
          /\ HoldsLock(w) => wjob'[w] = wjob[w]
          /\ Registered(w)' => Registered(w)
          /\ UNCHANGED <<inside, cancels>>
      BY <1>3 DEF IInv, TInv, TypeOK, Dequeue, GoOn, SetRunning, SeriesStops, SeriesNext, CloseTurn, Step, mapVars
    <2>2. \A v \in Worker : /\ HoldsLock(v)' = HoldsLock(v)
                            /\ HoldsLock(v) => wjob'[v] = wjob[v]
                            /\ Registered(v)' => Registered(v)
      BY ONLY <1>2, <2>1
    <2> QED
      BY ONLY <1>1, <2>1, <2>2, IInv, TInv', LockFrame
  <1>4. CASE ReadFails(w) \/ SkipCancelled(w) \/ ClosePanicked(w)
    <2>1. /\ HoldsLock(w)' = HoldsLock(w) /\ ~HoldsLock(w)
          /\ UNCHANGED <<inside, cancels>>
      BY <1>4 DEF IInv, TInv, TypeOK, ReadFails, SkipCancelled, ClosePanicked, Return, mapVars
    <2> QED
      BY <1>1, <1>2, <2>1, LockFrame
  <1>5. CASE Execute(w)
    <2>1. PICK o \in {"ok", "error", "paused", "panic"} :
            /\ wout' = [wout EXCEPT ![w] = Verdict(o, wdone[w])]
            /\ Step(w, "exec", IF o = "panic" THEN "unregister" ELSE "write")
      BY <1>5 DEF Execute
    <2>2. o # "panic" => wout'[w] # "panic"
      BY <2>1 DEF Verdict, IInv, TInv, TypeOK
    <2>3. HoldsLock(w)' /\ HoldsLock(w) /\ Registered(w)
      BY <2>1, <2>2 DEF Step, IInv, TInv, TypeOK
    <2>4. UNCHANGED <<inside, cancels, wjob>>
      BY <1>5 DEF Execute, mapVars
    <2> QED
      BY <1>1, <1>2, <2>3, <2>4, LockFrame
  <1>6. CASE WriteEnd(w)
    <2>1. /\ wpc[w] = "write" /\ wpc'[w] = IF wout[w] = "paused" THEN "unregister" ELSE "close"
          /\ UNCHANGED <<inside, cancels, wjob, wout>>
      BY <1>6 DEF WriteEnd, Step, mapVars, IInv, TInv, TypeOK
    <2>2. HoldsLock(w)' = HoldsLock(w) /\ Registered(w)' = Registered(w)
      BY <2>1
    <2> QED
      BY <1>1, <1>2, <2>1, <2>2, LockFrame
  <1>7. CASE AcquireLock(w)
    <2> DEFINE R == row[wjob[w]].req.roots
    <2>1. /\ wpc[w] = "lock" /\ wpc'[w] = "start" /\ UNCHANGED <<row, wjob>>
          /\ inside' = [inside EXCEPT ![w] = R] /\ cancels' = [cancels EXCEPT ![wjob[w]] = w]
          /\ \A d \in Worker : ~Locks!Overlap(R, inside[d])
      BY <1>7 DEF AcquireLock, Register, Step, Locks!Enter, dbVars, IInv, TInv, TypeOK
    <2>2. \A v \in Worker : inside'[v] = IF v = w THEN R ELSE inside[v]
      BY <2>1 DEF IInv, TInv, TypeOK
    <2>3. ~HoldsLock(w) /\ HoldsLock(w)'
      BY <2>1
    <2> HIDE DEF R
    <2>4. \A v \in Worker : inside'[v] = IF HoldsLock(v)' THEN row'[wjob'[v]].req.roots ELSE {}
      BY <1>2, <2>1, <2>2, <2>3 DEF IInv, LockInv, R
    <2>5. \A u, v \in Worker : u # v => ~Locks!Overlap(inside'[u], inside'[v])
      BY <2>1, <2>2, ConflictSymmetric DEF IInv, LockInv
    <2>6. LockInv'
      BY <2>4, <2>5 DEF LockInv, Locks!Overlap, Locks!PathsConflict
    <2>7. \A v \in Worker : v # w /\ Registered(v) => wjob[v] # wjob[w]
      <3> SUFFICES ASSUME NEW v \in Worker, v # w, HoldsLock(v), wjob[v] = wjob[w] PROVE FALSE
        OBVIOUS
      <3>1. inside[v] = R
        BY DEF IInv, LockInv, R
      <3>2. PICK r \in R : TRUE
        BY <2>1, WorkersRequest DEF IInv, R
      <3>3. Locks!Overlap(R, inside[v])
        BY <3>1, <3>2 DEF Locks!Overlap, Locks!PathsConflict
      <3> QED
        BY <2>1, <3>3
    <2>8. wjob[w] \in Job
      BY <2>1, WorkersRequest DEF IInv
    <2>9. \A v \in Worker : v # w /\ Registered(v) => cancels'[wjob[v]] = v
      <3> SUFFICES ASSUME NEW v \in Worker, v # w, Registered(v) PROVE cancels'[wjob[v]] = v
        OBVIOUS
      <3>1. cancels[wjob[v]] = v /\ wjob[v] # wjob[w]
        BY <2>7 DEF IInv, RegisteredIsReachable
      <3>2. wjob[v] \in Job
        BY WorkersRequest DEF IInv
      <3> QED
        BY <2>1, <3>1, <3>2 DEF IInv, TInv, TypeOK
    <2>10. cancels'[wjob[w]] = w
      BY <2>1, <2>8 DEF IInv, TInv, TypeOK
    <2>11. RegisteredIsReachable'
      BY <1>2, <2>1, <2>9, <2>10 DEF RegisteredIsReachable
    <2> QED
      BY <2>6, <2>11 DEF IInv
  <1>8. CASE Unregister(w)
    <2>1. /\ wpc[w] = "unregister" /\ wpc'[w] = "unlock" /\ UNCHANGED <<row, wjob, inside>>
          /\ cancels' = [cancels EXCEPT ![wjob[w]] = NoWorker]
      BY <1>8 DEF Unregister, Step, dbVars, IInv, TInv, TypeOK
    <2>2. LockInv'
      BY <1>2, <2>1 DEF IInv, LockInv, Locks!Overlap, Locks!PathsConflict
    <2>3. \A v \in Worker : v # w /\ Registered(v) => wjob[v] # wjob[w]
      BY <2>1, DistinctJobs
    <2>4. RegisteredIsReachable'
      BY <1>2, <2>1, <2>3 DEF IInv, TInv, TypeOK, RegisteredIsReachable
    <2> QED
      BY <2>2, <2>4 DEF IInv
  <1>9. CASE Unlock(w) \/ UnlockPanicked(w)
    <2>1. /\ HoldsLock(w) /\ ~HoldsLock(w)' /\ UNCHANGED <<row, cancels>>
          /\ inside' = [inside EXCEPT ![w] = {}]
      BY <1>9 DEF Unlock, UnlockPanicked, Step, Return, Locks!Leave, dbVars, IInv, TInv, TypeOK
    <2>2. \A v \in Worker : inside'[v] = IF v = w THEN {} ELSE inside[v]
      BY <2>1 DEF IInv, TInv, TypeOK
    <2>3. \A v \in Worker : inside'[v] = IF HoldsLock(v)' THEN row'[wjob'[v]].req.roots ELSE {}
      BY <1>2, <2>1, <2>2 DEF IInv, LockInv
    <2>4. \A u, v \in Worker : u # v => ~Locks!Overlap(inside'[u], inside'[v])
      BY <2>2 DEF IInv, LockInv, Locks!Overlap
    <2>5. LockInv'
      BY <2>3, <2>4 DEF LockInv, Locks!Overlap, Locks!PathsConflict
    <2>6. RegisteredIsReachable'
      BY <1>2, <2>1 DEF IInv, RegisteredIsReachable
    <2> QED
      BY <2>5, <2>6 DEF IInv
  <1> QED
    BY <1>3, <1>4, <1>5, <1>6, <1>7, <1>8, <1>9 DEF WorkerStep

\* Nobody holds a root at the start ...
THEOREM LockInit == Init => IInv
  <1> SUFFICES ASSUME Init PROVE IInv
    OBVIOUS
  <1>1. TInv
    BY TypeInit
  <1> QED
    BY <1>1 DEF Init, IInv, LockInv, RegisteredIsReachable, Registered, HoldsLock, Locks!Overlap

\* ... and no step lets two overlapping runs hold theirs.
THEOREM LockStep == IInv /\ [Next]_vars => IInv'
  <1> SUFFICES ASSUME IInv, [Next]_vars PROVE IInv'
    OBVIOUS
  <1>1. TInv'
    BY TypeStep DEF IInv
  <1>2. ASSUME NEW c \in Client, ClientStep(c) PROVE IInv'
    <2>1. ReqKept
      BY <1>2, ClientKeepsRequests DEF IInv
    <2>2. UNCHANGED <<inside, cancels, wpc, wjob, wout>>
      BY <1>2 DEF ClientStep, EnqueueCreate, EnqueuePush, CancelLookup, CancelWrite, ContinuePush, Replay,
                  CancelRun, CancelMiss, ContinueRead, mapVars, workerVars
    <2> QED
      BY <1>1, <2>1, <2>2, LockFrame DEF HoldsLock, Registered, Panicked
  <1>3. ASSUME NEW j \in Job, Pause(j) PROVE IInv'
    <2>1. UNCHANGED <<row, inside, cancels, wpc, wjob, wout>>
      BY <1>3 DEF Pause, dbVars, mapVars
    <2> QED
      BY <1>1, <2>1, LockFrame DEF HoldsLock, Registered, Panicked, ReqKept
  <1>4. CASE Die
    <2>1. \A w \in Worker : ~HoldsLock(w)' /\ inside'[w] = {}
      BY <1>4 DEF Die, HoldsLock
    <2> QED
      BY <1>1, <2>1 DEF IInv, LockInv, RegisteredIsReachable, Registered, Locks!Overlap
  <1>5. CASE ProcessStep /\ ~Die
    <2>1. ReqKept
      BY <1>5, ProcessKeepsRequests DEF IInv
    <2>2. UNCHANGED <<inside, cancels, wpc, wjob, wout>>
      BY <1>5 DEF ProcessStep, Stop, Boot, Booted, Listen, Redispatch, mapVars, workerVars
    <2> QED
      BY <1>1, <2>1, <2>2, LockFrame DEF HoldsLock, Registered, Panicked
  <1>6. CASE UNCHANGED vars
    <2>1. UNCHANGED <<row, inside, cancels, wpc, wjob, wout>>
      BY <1>6 DEF vars, dbVars, mapVars, workerVars
    <2> QED
      BY <1>1, <2>1, LockFrame DEF HoldsLock, Registered, Panicked, ReqKept
  <1> QED
    BY <1>1, <1>2, <1>3, <1>4, <1>5, <1>6, WorkerLocks DEF Next

\* The inductive invariant of the locks and the maps.
THEOREM LockInvariant == Spec => []IInv
  BY LockInit, LockStep, PTL DEF Spec

\* Two jobs over overlapping folders are never in flight together, however
\* requests, crashes and database failures fall.
THEOREM OverlappingRunsExclude == Spec => []ExclusiveRoots
  <1>1. IInv => ExclusiveRoots
    BY DEF IInv, LockInv, ExclusiveRoots
  <1> QED
    BY <1>1, LockInvariant, PTL

\* A registered run is the one Cancel and Pause find, although Continue can put
\* one id on a lane twice.
THEOREM RunsAreReachable == Spec => []RegisteredIsReachable
  <1>1. IInv => RegisteredIsReachable
    BY DEF IInv
  <1> QED
    BY <1>1, LockInvariant, PTL

-----------------------------------------------------------------------------
(* A cancellation at rest is final.                                        *)

\* A worker's or a handler's step keeps a cancellation at rest.
LEMMA WorkerKeepsCancelled ==
  ASSUME TInv, NEW w \in Worker, WorkerStep(w), NEW j \in Job, CancelledAtRest(j)
  PROVE  CancelledAtRest(j)'
  <1>1. UNCHANGED clientVars /\ j # 0
    BY DEF WorkerStep, Dequeue, ReadFails, SkipCancelled, GoOn, AcquireLock, Register, SetRunning, Execute,
           WriteEnd, CloseTurn, ClosePanicked, SeriesStops, SeriesNext, Unregister, Unlock, UnlockPanicked, Job
  <1>2. \A v \in Worker : v # w => wpc'[v] = wpc[v] /\ wjob'[v] = wjob[v]
    BY DEF TInv, TypeOK, WorkerStep, Dequeue, ReadFails, SkipCancelled, GoOn, AcquireLock, Register,
           SetRunning, Execute, WriteEnd, CloseTurn, ClosePanicked, SeriesStops, SeriesNext, Unregister,
           Unlock, UnlockPanicked, Step, Return
  <1>3. wjob'[w] = j => wpc'[w] = "read"
    BY <1>1 DEF CancelledAtRest, TInv, TypeOK, WorkerStep, Dequeue, ReadFails, SkipCancelled, GoOn, AcquireLock,
           Register, SetRunning, Execute, WriteEnd, CloseTurn, ClosePanicked, SeriesStops, SeriesNext,
           Unregister, Unlock, UnlockPanicked, Step, Return
  <1>4. row'[j].status = "cancelled"
    <2>1. CASE UNCHANGED row
      BY <2>1 DEF CancelledAtRest
    <2>2. CASE SetRunning(w)
      BY <2>2 DEF SetRunning, Step, Ignored, SetStatus, CancelledAtRest, TInv, TypeOK
    <2>3. CASE WriteEnd(w)
      BY <2>3 DEF WriteEnd, Step, Ignored, EndUpdate, FinishJob, SetJobPaused, CancelledAtRest, TInv, TypeOK
    <2>4. CASE SeriesNext(w)
      <3>1. j # nextId
        BY DEF CancelledAtRest, TInv, TypeOK, IdsExist
      <3> QED
        BY <2>4, <3>1 DEF SeriesNext, CreateJob, CancelledAtRest, TInv, TypeOK
    <2> QED
      BY <2>1, <2>2, <2>3, <2>4 DEF WorkerStep, Dequeue, ReadFails, SkipCancelled, GoOn, AcquireLock, Register,
         Execute, CloseTurn, ClosePanicked, SeriesStops, Unregister, Unlock, UnlockPanicked, dbVars
  <1> QED
    BY <1>1, <1>2, <1>3, <1>4 DEF CancelledAtRest, clientVars

LEMMA ClientKeepsCancelled ==
  ASSUME TInv, NEW c \in Client, ClientStep(c), NEW j \in Job, CancelledAtRest(j)
  PROVE  CancelledAtRest(j)'
  <1>0. j # 0
    BY ManagerAssumption DEF Job, ManagerAssumption
  <1>1. UNCHANGED <<wpc, wjob>>
    BY DEF ClientStep, EnqueueCreate, EnqueuePush, CancelLookup, CancelWrite, ContinuePush, Replay,
           CancelRun, CancelMiss, ContinueRead, workerVars
  <1>2. \A d \in Client : cjob'[d] = j => cpc'[d] \notin {"wcancelled", "wfailed"}
    BY <1>0 DEF CancelledAtRest, ClientStep, EnqueueCreate, EnqueuePush, CancelLookup, CancelWrite, ContinuePush,
           Replay, CancelRun, CancelMiss, ContinueRead, Reply, clientVars, TInv, TypeOK
  <1>3. row'[j].status = "cancelled"
    <2>1. CASE UNCHANGED row
      BY <2>1 DEF CancelledAtRest
    <2>2. ASSUME NEW q, CreateJob(q) PROVE row'[j] = row[j]
      <3>1. j # nextId
        BY DEF CancelledAtRest, TInv, TypeOK, IdsExist
      <3> QED
        BY <2>2, <3>1 DEF CreateJob, TInv, TypeOK
    <2>3. CASE CancelWrite(c)
      <3>1. cjob[c] # j
        BY <2>3 DEF CancelWrite, CancelledAtRest
      <3> QED
        BY <2>3, <3>1 DEF CancelWrite, Ignored, FinishJob, CancelledAtRest, TInv, TypeOK
    <2> QED
      BY <2>1, <2>2, <2>3 DEF ClientStep, EnqueueCreate, EnqueuePush, CancelLookup, ContinuePush, Replay,
         CancelRun, CancelMiss, ContinueRead, dbVars, CancelledAtRest
  <1> QED
    BY <1>1, <1>2, <1>3 DEF CancelledAtRest

\* A job cancelled while nobody is past the status check stays cancelled:
\* no dequeue, retry, series, crash or boot brings it back (run, Cancel,
\* RequeueRunningJobs).
THEOREM CancelsStick == Spec => CancelSticks
  <1>1. TInv /\ [Next]_vars => \A j \in Job : CancelledAtRest(j) => CancelledAtRest(j)'
    <2> SUFFICES ASSUME TInv, [Next]_vars, NEW j \in Job, CancelledAtRest(j)
                 PROVE  CancelledAtRest(j)'
      OBVIOUS
    <2>1. ASSUME NEW k \in Job, Pause(k) PROVE CancelledAtRest(j)'
      BY <2>1 DEF Pause, CancelledAtRest, dbVars, clientVars
    <2>2. CASE Stop \/ Listen \/ \E k \in Job : Redispatch(k)
      BY <2>2 DEF Stop, Listen, Redispatch, CancelledAtRest, dbVars, workerVars, clientVars
    <2>3. CASE Die
      BY <2>3 DEF Die, CancelledAtRest, Job, dbVars
    <2>4. CASE Boot
      BY <2>4 DEF Boot, Booted, Ignored, Requeued, CancelledAtRest, workerVars, clientVars
    <2>5. CASE UNCHANGED vars
      BY <2>5 DEF vars, CancelledAtRest, dbVars, workerVars, clientVars
    <2> QED
      BY <2>1, <2>2, <2>3, <2>4, <2>5, WorkerKeepsCancelled, ClientKeepsCancelled DEF Next, ProcessStep
  <1> QED
    BY <1>1, TypesInvariant, PTL DEF Spec, CancelSticks

-----------------------------------------------------------------------------
(* A dead process holds nothing.                                           *)

DownIsEmpty ==
  up = "down" =>
    /\ \A l \in Lane : lane[l] = << >>
    /\ dispatch = {}
    /\ \A w \in Worker : wpc[w] = "idle" /\ wjob[w] = 0
    /\ \A c \in Client : cpc[c] = "idle" /\ cjob[c] = 0

\* A dead process keeps nothing in memory.
LEMMA DownStep == TInv /\ DownIsEmpty /\ [Next]_vars => DownIsEmpty'
  <1> SUFFICES ASSUME TInv, DownIsEmpty, [Next]_vars, up' = "down" PROVE DownIsEmpty'
    BY DEF DownIsEmpty
  <1>1. CASE Die
    BY <1>1 DEF Die, DownIsEmpty
  <1>2. CASE ~Die
    <2>1. up = "down"
      BY <1>2, ZenonT(60) DEF Next, ProcessStep, WorkerStep, Dequeue, ReadFails, SkipCancelled, GoOn, AcquireLock, Register,
             SetRunning, Execute, WriteEnd, CloseTurn, ClosePanicked, SeriesStops, SeriesNext, Unregister,
             Unlock, UnlockPanicked, ClientStep, EnqueueCreate, EnqueuePush, CancelLookup, CancelWrite,
             ContinuePush, Replay, CancelRun, CancelMiss, ContinueRead, Pause, Stop, Boot, Booted, Listen,
             Redispatch, vars
    <2>2. ASSUME NEW w \in Worker PROVE ~WorkerStep(w)
      BY <2>1 DEF DownIsEmpty, WorkerStep, Dequeue, ReadFails, SkipCancelled, GoOn, AcquireLock, SetRunning,
             Execute, WriteEnd, CloseTurn, ClosePanicked, SeriesStops, SeriesNext, Unregister, Unlock,
             UnlockPanicked, Step
    <2>3. ASSUME NEW c \in Client PROVE ~ClientStep(c)
      BY <2>1 DEF DownIsEmpty, ClientStep, EnqueueCreate, EnqueuePush, CancelLookup, CancelWrite, ContinuePush,
             Replay, CancelRun, CancelMiss, ContinueRead
    <2>4. UNCHANGED vars
      BY <1>2, <2>1, <2>2, <2>3 DEF Next, ProcessStep, Pause, Stop, Boot, Booted, Listen, Redispatch
    <2> QED
      BY <2>4 DEF DownIsEmpty, vars, laneVars, workerVars, clientVars
  <1> QED
    BY <1>1, <1>2

\* A send puts its id on the lane and leaves the others there.
LEMMA SendShows ==
  ASSUME TInv, NEW l \in Lane, NEW j \in Job, Send(l, j)
  PROVE  OnLane(j)' /\ \A k \in Job : OnLane(k) => OnLane(k)'
  <1>1. /\ lane[l] \in Seq(Job) /\ lane'[l] = Append(lane[l], j)
        /\ \A m \in Lane : m # l => lane'[m] = lane[m]
    BY DEF Send, TInv, TypeOK
  <1>2. /\ Len(lane[l]) + 1 \in 1..Len(lane'[l]) /\ lane'[l][Len(lane[l]) + 1] = j
        /\ \A i \in 1..Len(lane[l]) : i \in 1..Len(lane'[l]) /\ lane'[l][i] = lane[l][i]
    BY <1>1
  <1> QED
    BY <1>1, <1>2 DEF OnLane

\* Schedule does that, or records the refusal.
LEMMA ScheduleShows ==
  ASSUME TInv, NEW l \in Lane, NEW j \in Job, Schedule(l, j)
  PROVE  /\ j \in dropped' \/ OnLane(j)'
         /\ dropped \subseteq dropped'
         /\ \A k \in Job : OnLane(k) => OnLane(k)'
  <1>1. CASE Send(l, j) /\ UNCHANGED dropped
    BY <1>1, SendShows
  <1>2. CASE dropped' = dropped \cup {j} /\ UNCHANGED lane
    BY <1>2 DEF OnLane
  <1> QED
    BY <1>1, <1>2 DEF Schedule

\* A receive takes one id into the worker's hands and leaves the others.
LEMMA DequeueShows ==
  ASSUME TInv, NEW w \in Worker, Dequeue(w), NEW j \in Job, OnLane(j)
  PROVE  OnLane(j)' \/ (wjob'[w] = j /\ wpc'[w] = "read")
  <1> DEFINE l == LaneOf[w]
  <1>1. /\ l \in Lane /\ lane[l] \in Seq(Job) /\ lane[l] # << >>
        /\ lane'[l] = Tail(lane[l]) /\ wjob'[w] = Head(lane[l]) /\ wpc'[w] = "read"
        /\ \A m \in Lane : m # l => lane'[m] = lane[m]
    BY ManagerAssumption DEF Dequeue, Step, TInv, TypeOK, ManagerAssumption
  <1> HIDE DEF l
  <1>2. PICK m \in Lane : \E i \in 1..Len(lane[m]) : lane[m][i] = j
    BY DEF OnLane
  <1>3. PICK i \in 1..Len(lane[m]) : lane[m][i] = j
    BY <1>2
  <1>4. CASE m # l
    BY <1>1, <1>3, <1>4 DEF OnLane
  <1>5. CASE m = l /\ i = 1
    BY <1>1, <1>3, <1>5
  <1>6. CASE m = l /\ i # 1
    <2>1. i - 1 \in 1..Len(Tail(lane[l])) /\ Tail(lane[l])[i - 1] = lane[l][i]
      BY <1>1, <1>3, <1>6
    <2> QED
      BY <1>1, <1>3, <1>6, <2>1 DEF OnLane
  <1> QED
    BY <1>4, <1>5, <1>6

\* What each UPDATE says of the row it names, and of the others.
LEMMA UpdateSays ==
  ASSUME TInv, NEW j \in Job, NEW st, NEW res
  PROVE  /\ SetStatus(j, st) =>
              /\ \A k \in Job \ {j} : row'[k] = row[k]
              /\ row'[j].status = st /\ row'[j].restarts = row[j].restarts
         /\ FinishJob(j, st, res) =>
              /\ \A k \in Job \ {j} : row'[k] = row[k]
              /\ row'[j].status = st /\ row'[j].restarts = 0
         /\ SetJobPaused(j) =>
              /\ \A k \in Job \ {j} : row'[k] = row[k]
              /\ row'[j].status = "paused" /\ row'[j].restarts = 0
  <1>1. row \in [Job -> Row]
    BY DEF TInv, TypeOK
  <1>2. ASSUME SetStatus(j, st)
        PROVE  /\ \A k \in Job \ {j} : row'[k] = row[k]
               /\ row'[j].status = st /\ row'[j].restarts = row[j].restarts
    BY <1>1, <1>2 DEF SetStatus, Row
  <1>3. ASSUME FinishJob(j, st, res)
        PROVE  /\ \A k \in Job \ {j} : row'[k] = row[k]
               /\ row'[j].status = st /\ row'[j].restarts = 0
    BY <1>1, <1>3 DEF FinishJob, Row
  <1>4. ASSUME SetJobPaused(j)
        PROVE  /\ \A k \in Job \ {j} : row'[k] = row[k]
               /\ row'[j].status = "paused" /\ row'[j].restarts = 0
    BY <1>1, <1>4 DEF SetJobPaused, Row
  <1> QED
    BY <1>2, <1>3, <1>4

\* How a run's end is written: paused, or terminal; nothing else is touched.
LEMMA EndSays ==
  ASSUME TInv, NEW w \in Worker, wjob[w] \in Job, wout[w] # "none", EndUpdate(w)
  PROVE  /\ \A k \in Job \ {wjob[w]} : row'[k] = row[k]
         /\ row'[wjob[w]].status \in (IF wout[w] = "paused" THEN {"paused"} ELSE Terminal)
  <1>1. \/ wout[w] = "paused" /\ SetJobPaused(wjob[w])
        \/ wout[w] # "paused" /\ \E st \in Terminal, res \in BOOLEAN : FinishJob(wjob[w], st, res)
    BY DEF EndUpdate, TInv, TypeOK, Outcome, Terminal
  <1> QED
    BY <1>1, UpdateSays

-----------------------------------------------------------------------------
(* Nothing queued is forgotten while the database answers.                 *)

Scheduled(j) == OnLane(j) \/ Unread(j) \/ Pushing(j) \/ j \in dispatch

\* A Continue in progress is about a row that is not queued.
ResumesParked == \A c \in Client : cpc[c] = "resume" => row[cjob[c]].status # "queued"

QInv == TInv /\ DownIsEmpty /\ ResumesParked /\ QueuedIsScheduled

\* A step that makes no row queued, and forgets no id of a row it leaves queued.
LEMMA QueuedFrame ==
  ASSUME QInv, TInv', DownIsEmpty',
         \A c \in Client : cpc'[c] = "resume" => (cpc[c] = "resume" /\ cjob'[c] = cjob[c])
                                                 \/ row[cjob'[c]].status # "queued",
         \A j \in Job : row'[j].status = "queued" => row[j].status = "queued",
         up' \in {"up", "booting"} => up \in {"up", "booting"},
         dropped \subseteq dropped',
         \A j \in Job : up' \in {"up", "booting"} /\ row'[j].status = "queued" /\ Scheduled(j)
                          => Scheduled(j)' \/ j \in dropped'
  PROVE  QInv'
  <1>1. ResumesParked'
    <2> SUFFICES ASSUME NEW c \in Client, cpc'[c] = "resume" PROVE row'[cjob'[c]].status # "queued"
      BY DEF ResumesParked
    <2>1. cjob'[c] \in Job
      BY ManagerAssumption DEF TInv, TypeOK, IdsExist, Job, ManagerAssumption
    <2> QED
      BY <2>1 DEF QInv, ResumesParked
  <1>2. QueuedIsScheduled'
    BY DEF QInv, QueuedIsScheduled, Scheduled
  <1> QED
    BY <1>1, <1>2 DEF QInv

\* A new row is queued, and pushed at once or in its handler's hands.
LEMMA QueuedCreate ==
  ASSUME QInv, TInv', DownIsEmpty', NEW q \in RequestType, CreateJob(q), UNCHANGED <<up, dispatch>>,
         NEW n \in Job, n = nextId, n \in dropped' \/ Scheduled(n)', dropped \subseteq dropped',
         \A c \in Client : cpc'[c] = "resume" => cpc[c] = "resume" /\ cjob'[c] = cjob[c],
         \A j \in Job : Scheduled(j) => Scheduled(j)'
  PROVE  QInv'
  <1>1. \A j \in Job : j # nextId => row'[j] = row[j]
    BY DEF CreateJob, QInv, TInv, TypeOK
  <1>2. QueuedIsScheduled'
    <2> SUFFICES ASSUME up' \in {"up", "booting"}, NEW j \in Job,
                        row'[j].status = "queued" /\ j \notin dropped'
                 PROVE  Scheduled(j)'
      BY DEF QueuedIsScheduled, Scheduled
    <2>1. CASE j # nextId
      <3>1. row[j].status = "queued" /\ j \notin dropped /\ up \in {"up", "booting"}
        BY <1>1, <2>1
      <3>2. Scheduled(j)
        BY <3>1 DEF QInv, QueuedIsScheduled, Scheduled
      <3> QED
        BY <3>2
    <2> QED
      BY <2>1
  <1>3. ResumesParked'
    <2> SUFFICES ASSUME NEW c \in Client, cpc'[c] = "resume" PROVE row'[cjob'[c]].status # "queued"
      BY DEF ResumesParked
    <2>1. cjob[c] \in 1..(nextId - 1) /\ cjob[c] \in Job /\ cjob'[c] = cjob[c] /\ nextId \in Nat
      BY ManagerAssumption DEF QInv, TInv, TypeOK, IdsExist, Job, ManagerAssumption
    <2>2. cjob[c] # nextId
      BY ONLY <2>1
    <2> QED
      BY <1>1, <2>1, <2>2 DEF QInv, ResumesParked
  <1> QED
    BY <1>2, <1>3 DEF QInv

LEMMA QueuedWorker ==
  ASSUME ~DBMayFail, QInv, TInv', DownIsEmpty', NEW w \in Worker, WorkerStep(w)
  PROVE  QInv'
  <1>1. /\ UNCHANGED <<clientVars, up, dispatch>>
        /\ \A v \in Worker : v # w => wpc'[v] = wpc[v] /\ wjob'[v] = wjob[v]
    BY DEF QInv, TInv, TypeOK, WorkerStep, Dequeue, ReadFails, SkipCancelled, GoOn, AcquireLock, Register,
           SetRunning, Execute, WriteEnd, CloseTurn, ClosePanicked, SeriesStops, SeriesNext, Unregister,
           Unlock, UnlockPanicked, Step, Return, laneVars
  <1>2. \A j \in Job : Pushing(j) => Pushing(j)'
    BY <1>1 DEF Pushing, clientVars
  <1>3. CASE Dequeue(w)
    <2>1. UNCHANGED <<row, dropped>> /\ wpc[w] = "idle" /\ wpc'[w] = "read"
      BY <1>3 DEF Dequeue, Step, QInv, TInv, TypeOK, dbVars
    <2>2. ASSUME NEW j \in Job, Scheduled(j) PROVE Scheduled(j)'
      <3>1. CASE OnLane(j)
        <4>1. OnLane(j)' \/ (wjob'[w] = j /\ wpc'[w] = "read")
          BY <1>3, <3>1, DequeueShows DEF QInv
        <4> QED
          BY <4>1 DEF Scheduled, Unread
      <3>2. CASE Unread(j)
        BY <1>1, <2>1, <3>2 DEF Scheduled, Unread
      <3> QED
        BY <1>1, <1>2, <2>2, <3>1, <3>2 DEF Scheduled
    <2> QED
      BY <1>1, <2>1, <2>2, QueuedFrame DEF clientVars
  <1>4. CASE SeriesNext(w)
    <2> DEFINE q == [row[wjob[w]].req EXCEPT !.refine = FALSE, !.lane = "main", !.sup = TRUE]
    <2>1. CreateJob(q) /\ Schedule("main", nextId) /\ wpc[w] = "series" /\ wpc'[w] = "unregister"
      BY <1>4 DEF SeriesNext, Step, QInv, TInv, TypeOK
    <2>2. q \in RequestType /\ nextId \in Job
      <3>1. row[wjob[w]].req \in RequestType /\ "main" \in Lane
        BY <1>4, WorkersRequest DEF SeriesNext, Step, QInv, Lane
      <3>2. q \in RequestType
        BY <3>1 DEF RequestType
      <3> QED
        BY <2>1, <3>2 DEF CreateJob
    <2> HIDE DEF q
    <2>5. PICK n \in Job : n = nextId
      BY <2>2
    <2>6. "main" \in Lane
      BY DEF Lane
    <2>3. /\ n \in dropped' \/ OnLane(n)'
          /\ dropped \subseteq dropped'
          /\ \A k \in Job : OnLane(k) => OnLane(k)'
      BY <2>1, <2>5, <2>6, ScheduleShows DEF QInv
    <2>4. \A k \in Job : Unread(k) => Unread(k)'
      BY <1>1, <2>1 DEF Unread
    <2> QED
      BY <1>1, <1>2, <2>1, <2>2, <2>3, <2>4, <2>5, QueuedCreate DEF Scheduled, clientVars
  <1>5. CASE ~Dequeue(w) /\ ~SeriesNext(w)
    <2>1. UNCHANGED <<lane, dropped>>
      BY <1>5 DEF WorkerStep, ReadFails, SkipCancelled, GoOn, AcquireLock, Register, SetRunning, Execute,
             WriteEnd, CloseTurn, ClosePanicked, SeriesStops, Unregister, Unlock, UnlockPanicked, laneVars
    <2>2. \A j \in Job : row'[j].status = "queued" => row[j].status = "queued"
      <3>1. CASE UNCHANGED row
        BY <3>1
      <3>2. CASE SetRunning(w)
        <4>1. UNCHANGED row \/ SetStatus(wjob[w], "running")
          BY <3>2 DEF SetRunning, Ignored
        <4>2. wjob[w] \in Job
          BY <3>2, WorkersRequest DEF SetRunning, Step, QInv
        <4> QED
          BY <4>1, <4>2, UpdateSays DEF QInv
      <3>3. CASE WriteEnd(w)
        <4>1. wpc[w] = "write" /\ EndUpdate(w)
          BY <3>3 DEF WriteEnd, Step, Ignored
        <4>2. wjob[w] \in Job
          BY <4>1, WorkersRequest DEF QInv
        <4>3. \/ SetJobPaused(wjob[w])
              \/ \E st \in Terminal \cup {"none"}, res \in BOOLEAN : FinishJob(wjob[w], st, res)
          BY <4>1 DEF EndUpdate, QInv, TInv, TypeOK, Outcome, Terminal
        <4> QED
          BY <4>2, <4>3, UpdateSays DEF QInv, Terminal
      <3> QED
        BY <1>5, <3>1, <3>2, <3>3 DEF WorkerStep, ReadFails, SkipCancelled, GoOn, AcquireLock, Register,
           Execute, CloseTurn, ClosePanicked, SeriesStops, Unregister, Unlock, UnlockPanicked, dbVars
    <2>3. ASSUME NEW j \in Job, up' \in {"up", "booting"}, row'[j].status = "queued", Unread(j)
          PROVE  Unread(j)'
      <3>1. PICK v \in Worker : wjob[v] = j /\ wpc[v] \in {"read", "lock", "start"}
        BY <2>3 DEF Unread
      <3>2. CASE v # w
        BY <1>1, <3>1, <3>2 DEF Unread
      <3>3. CASE v = w
        <4>1. up \notin {"stopping"}
          BY <1>1, <2>3
        <4>2. ~SetRunning(w)
          <5> SUFFICES ASSUME SetRunning(w) PROVE FALSE
            OBVIOUS
          <5>1. SetStatus(j, "running")
            BY <3>1, <3>3, <4>1 DEF SetRunning, Ignored
          <5> QED
            BY <2>3, <5>1 DEF SetStatus, QInv, TInv, TypeOK
        <4>3. ~SkipCancelled(w) /\ ~ReadFails(w)
          <5>1. row[j].status = "queued"
            BY <2>2, <2>3
          <5> QED
            BY <3>1, <3>3, <4>1, <5>1 DEF SkipCancelled, ReadFails
        <4>4. wjob'[w] = wjob[w] /\ wpc'[w] \in {"lock", "start"}
          BY <1>5, <3>1, <3>3, <4>2, <4>3 DEF WorkerStep, GoOn, AcquireLock, Register, Execute, WriteEnd,
             CloseTurn, ClosePanicked, SeriesStops, Unregister, Unlock, UnlockPanicked, Step, QInv, TInv, TypeOK
        <4> QED
          BY <3>1, <3>3, <4>4 DEF Unread
      <3> QED
        BY <3>2, <3>3
    <2>4. \A j \in Job : up' \in {"up", "booting"} /\ row'[j].status = "queued" /\ Scheduled(j)
                           => Scheduled(j)' \/ j \in dropped'
      BY <1>1, <1>2, <2>1, <2>3 DEF Scheduled, OnLane
    <2> QED
      BY <1>1, <2>1, <2>2, <2>4, QueuedFrame DEF clientVars
  <1> QED
    BY <1>3, <1>4, <1>5

LEMMA QueuedClient ==
  ASSUME ~DBMayFail, QInv, TInv', DownIsEmpty', NEW c \in Client, ClientStep(c)
  PROVE  QInv'
  <1>1. UNCHANGED <<wpc, wjob, up, dispatch>>
    BY DEF ClientStep, EnqueueCreate, EnqueuePush, CancelLookup, CancelWrite, ContinuePush, Replay,
           CancelRun, CancelMiss, ContinueRead, workerVars, laneVars
  <1>2. \A d \in Client : d # c => cpc'[d] = cpc[d] /\ cjob'[d] = cjob[d]
    BY DEF ClientStep, EnqueueCreate, EnqueuePush, CancelLookup, CancelWrite, ContinuePush, Replay, Reply,
           CancelRun, CancelMiss, ContinueRead, clientVars, QInv, TInv, TypeOK
  <1>3. \A j \in Job : Unread(j) => Unread(j)'
    BY <1>1 DEF Unread
  <1>4. ASSUME NEW q \in RequestType, EnqueueCreate(c, q) PROVE QInv'
    <2>1. /\ CreateJob(q) /\ UNCHANGED <<lane, dropped>>
          /\ cpc[c] = "idle" /\ cpc'[c] = "push" /\ cjob'[c] = nextId
      BY <1>4 DEF EnqueueCreate, laneVars, QInv, TInv, TypeOK
    <2>5. PICK n \in Job : n = nextId
      BY <2>1 DEF CreateJob
    <2>2. Pushing(n)'
      BY <2>1, <2>5 DEF Pushing
    <2>3. \A j \in Job : Scheduled(j) => Scheduled(j)'
      BY <1>1, <1>2, <1>3, <2>1 DEF Scheduled, Pushing, OnLane
    <2>4. \A d \in Client : cpc'[d] = "resume" => cpc[d] = "resume" /\ cjob'[d] = cjob[d]
      BY <1>2, <2>1
    <2> QED
      BY <1>1, <1>4, <2>1, <2>2, <2>3, <2>4, <2>5, QueuedCreate DEF Scheduled
  <1>5. CASE EnqueuePush(c)
    <2>1. /\ cpc[c] = "push" /\ cpc'[c] = "idle" /\ UNCHANGED row
          /\ cjob[c] \in Job /\ Schedule(LaneFor(cjob[c]), cjob[c])
      BY <1>5, ManagerAssumption
         DEF EnqueuePush, Reply, QInv, TInv, TypeOK, IdsExist, ManagerAssumption, Job, dbVars
    <2>2. LaneFor(cjob[c]) \in Lane
      BY <2>1 DEF LaneFor, QInv, TInv, TypeOK, Row, RequestType
    <2>6. PICK n \in Job : n = cjob[c]
      BY <2>1
    <2>3. /\ n \in dropped' \/ OnLane(n)'
          /\ dropped \subseteq dropped'
          /\ \A k \in Job : OnLane(k) => OnLane(k)'
      BY <2>1, <2>2, <2>6, ScheduleShows DEF QInv
    <2>4. \A j \in Job : Pushing(j) => Pushing(j)' \/ j = cjob[c]
      BY <1>2 DEF Pushing
    <2>5. \A j \in Job : Scheduled(j) => Scheduled(j)' \/ j \in dropped'
      BY <1>1, <1>3, <2>3, <2>4, <2>6 DEF Scheduled
    <2> QED
      BY <1>1, <1>2, <2>1, <2>3, <2>5, QueuedFrame
  <1>6. CASE ContinuePush(c)
    <2>1. /\ cpc[c] = "resume" /\ cpc'[c] = "idle" /\ UNCHANGED <<row, dropped>>
          /\ cjob[c] \in Job /\ (Send(LaneFor(cjob[c]), cjob[c]) \/ UNCHANGED lane)
      BY <1>6, ManagerAssumption
         DEF ContinuePush, Reply, QInv, TInv, TypeOK, IdsExist, ManagerAssumption, Job, dbVars
    <2>2. LaneFor(cjob[c]) \in Lane
      BY <2>1 DEF LaneFor, QInv, TInv, TypeOK, Row, RequestType
    <2>3. \A k \in Job : OnLane(k) => OnLane(k)'
      BY <2>1, <2>2, SendShows DEF QInv, OnLane
    <2>4. \A j \in Job : Pushing(j) /\ row[j].status = "queued" => Pushing(j)'
      BY <1>2, <2>1 DEF Pushing, QInv, ResumesParked
    <2>5. \A j \in Job : row'[j].status = "queued" /\ Scheduled(j) => Scheduled(j)'
      BY <1>1, <1>3, <2>1, <2>3, <2>4 DEF Scheduled
    <2> QED
      BY <1>1, <1>2, <2>1, <2>5, QueuedFrame
  <1>7. CASE CancelLookup(c) \/ CancelWrite(c) \/ \E j \in Job : CancelRun(c, j) \/ CancelMiss(c, j) \/ ContinueRead(c, j)
    <2>1. UNCHANGED <<lane, dropped>> /\ cpc[c] \notin {"push", "resume"}
      BY <1>7 DEF CancelLookup, CancelWrite, CancelRun, CancelMiss, ContinueRead, laneVars
    <2>2. \A j \in Job : row'[j].status = "queued" => row[j].status = "queued"
      <3>1. CASE CancelWrite(c)
        <4>1. cpc[c] # "idle"
          BY <3>1 DEF CancelWrite
        <4>2. cjob[c] \in Job
          BY <4>1, ManagerAssumption DEF QInv, TInv, TypeOK, IdsExist, ManagerAssumption, Job
        <4>3. UNCHANGED row \/ \E st \in {"cancelled", "failed"} : FinishJob(cjob[c], st, FALSE)
          BY <3>1 DEF CancelWrite, Ignored
        <4> QED
          BY <4>2, <4>3, UpdateSays DEF QInv
      <3>2. CASE UNCHANGED row
        BY <3>2
      <3> QED
        BY <1>7, <3>1, <3>2 DEF CancelLookup, CancelRun, CancelMiss, ContinueRead, dbVars
    <2>3. \A j \in Job : Scheduled(j) => Scheduled(j)'
      BY <1>1, <1>2, <1>3, <2>1 DEF Scheduled, Pushing, OnLane
    <2>4. cpc'[c] = "resume" => row[cjob'[c]].status # "queued"
      BY <1>7 DEF CancelLookup, CancelWrite, CancelRun, CancelMiss, ContinueRead, Reply, QInv, TInv, TypeOK, clientVars
    <2>5. \A d \in Client : cpc'[d] = "resume" => (cpc[d] = "resume" /\ cjob'[d] = cjob[d])
                                                 \/ row[cjob'[d]].status # "queued"
      BY <1>2, <2>4
    <2> QED
      BY ONLY QInv, TInv', DownIsEmpty', <1>1, <2>1, <2>2, <2>3, <2>5, QueuedFrame
  <1> QED
    BY <1>4, <1>5, <1>6, <1>7, ReplaysType, ManagerAssumption DEF ClientStep, Replay, ManagerAssumption, QInv

LEMMA QueuedProcess ==
  ASSUME ~DBMayFail, QInv, TInv', DownIsEmpty', ProcessStep
  PROVE  QInv'
  <1>1. CASE Stop \/ Die
    <2>1. up' \notin {"up", "booting"} /\ UNCHANGED row
      BY <1>1 DEF Stop, Die, dbVars
    <2>2. \A c \in Client : cpc'[c] = "resume" => cpc[c] = "resume" /\ cjob'[c] = cjob[c]
      BY <1>1 DEF Stop, Die, clientVars
    <2> QED
      BY <2>1, <2>2 DEF QInv, ResumesParked, QueuedIsScheduled
  <1>2. CASE Boot
    <2>1. dispatch' = {j \in Job : row'[j].status = "queued"}
      BY <1>2 DEF Boot
    <2>2. QueuedIsScheduled'
      BY <2>1 DEF QueuedIsScheduled
    <2>3. \A c \in Client : cpc'[c] = "idle"
      BY <1>2 DEF Boot, Booted, clientVars, QInv, DownIsEmpty
    <2> QED
      BY <2>2, <2>3 DEF QInv, ResumesParked
  <1>3. CASE Listen
    BY <1>3 DEF Listen, QInv, ResumesParked, QueuedIsScheduled, OnLane, Unread, Pushing,
                dbVars, laneVars, workerVars, clientVars
  <1>4. ASSUME NEW k \in Job, Redispatch(k) PROVE QInv'
    <2>1. /\ Schedule(LaneFor(k), k) /\ dispatch' = dispatch \ {k}
          /\ UNCHANGED <<row, up, wpc, wjob, cpc, cjob>>
      BY <1>4 DEF Redispatch, dbVars, workerVars, clientVars
    <2>2. LaneFor(k) \in Lane
      BY DEF LaneFor, QInv, TInv, TypeOK, Row, RequestType
    <2>3. /\ k \in dropped' \/ OnLane(k)'
          /\ dropped \subseteq dropped'
          /\ \A j \in Job : OnLane(j) => OnLane(j)'
      BY <2>1, <2>2, ScheduleShows DEF QInv
    <2>4. \A j \in Job : Scheduled(j) => Scheduled(j)' \/ j \in dropped'
      BY <2>1, <2>3 DEF Scheduled, Unread, Pushing
    <2> QED
      BY <2>1, <2>3, <2>4, QueuedFrame
  <1> QED
    BY <1>1, <1>2, <1>3, <1>4 DEF ProcessStep

\* Nothing is queued at the start ...
LEMMA QueuedInit == Init => QInv
  <1>1. Init => \A j \in Job : row[j].status # "queued"
    BY DEF Init, NewRow
  <1> QED
    BY <1>1, TypeInit DEF Init, QInv, DownIsEmpty, ResumesParked, QueuedIsScheduled

\* ... and no step forgets what is.
LEMMA QueuedStep ==
  ASSUME ~DBMayFail, QInv, [Next]_vars
  PROVE  QInv'
  <1>1. TInv' /\ DownIsEmpty'
    BY TypeStep, DownStep DEF QInv
  <1>2. CASE UNCHANGED vars
    BY <1>1, <1>2 DEF vars, dbVars, laneVars, workerVars, clientVars, QInv, ResumesParked, QueuedIsScheduled,
                      OnLane, Unread, Pushing
  <1>3. ASSUME NEW j \in Job, Pause(j) PROVE QInv'
    BY <1>1, <1>3 DEF Pause, dbVars, laneVars, clientVars, QInv, ResumesParked, QueuedIsScheduled,
                      OnLane, Unread, Pushing
  <1> QED
    BY <1>1, <1>2, <1>3, QueuedWorker, QueuedClient, QueuedProcess DEF Next

\* No queued row is forgotten: while every statement succeeds, its id is on a
\* lane, in the hands of a worker or a handler, or waiting for a re-dispatch,
\* unless a full lane refused it (Enqueue, redispatchQueued).
THEOREM NothingIsForgotten ==
  ASSUME ~DBMayFail
  PROVE  Spec => []QueuedIsScheduled
  <1>1. QInv /\ [Next]_vars => QInv'
    BY QueuedStep
  <1>2. QInv => QueuedIsScheduled
    BY DEF QInv
  <1> QED
    BY <1>1, <1>2, QueuedInit, PTL DEF Spec

-----------------------------------------------------------------------------
(* The locals of a run and of a handler.                                   *)

\* An idle worker has no job and no outcome; a run has its outcome from the end
\* of execute on.
Locals ==
  /\ \A w \in Worker :
       /\ wpc[w] = "idle" => wjob[w] = 0
       /\ wpc[w] \in {"idle", "read", "lock", "start", "exec"} => wout[w] = "none"
       /\ wpc[w] \in {"write", "close", "series", "unregister", "unlock"} => wout[w] # "none"
       /\ wpc[w] = "series" => wout[w] = "succeeded"
       /\ wpc[w] = "close" => wout[w] # "paused"
  /\ \A c \in Client : cpc[c] = "idle" => cjob[c] = 0

PInv == TInv /\ DownIsEmpty /\ Locals

\* Another worker's locals, and the handlers', are its own.
LEMMA WorkerFrame ==
  ASSUME TInv, NEW w \in Worker, WorkerStep(w)
  PROVE  /\ \A v \in Worker : v # w => wpc'[v] = wpc[v] /\ wjob'[v] = wjob[v] /\ wout'[v] = wout[v]
         /\ UNCHANGED <<cpc, cjob, up, dispatch, asked, handed>>
  BY DEF TInv, TypeOK, WorkerStep, Dequeue, ReadFails, SkipCancelled, GoOn, AcquireLock, Register,
         SetRunning, Execute, WriteEnd, CloseTurn, ClosePanicked, SeriesStops, SeriesNext, Unregister,
         Unlock, UnlockPanicked, Step, Return, clientVars, laneVars, histVars

\* A handler leaves the other handlers, the workers and the process alone.
LEMMA ClientFrame ==
  ASSUME TInv, NEW c \in Client, ClientStep(c)
  PROVE  /\ \A d \in Client : d # c => cpc'[d] = cpc[d] /\ cjob'[d] = cjob[d]
         /\ UNCHANGED <<wpc, wjob, wout, up, dispatch, handed>>
  BY DEF ClientStep, EnqueueCreate, EnqueuePush, CancelLookup, CancelWrite, ContinuePush, Replay, Reply,
         CancelRun, CancelMiss, ContinueRead, clientVars, workerVars, laneVars, histVars, TInv, TypeOK

\* Every step keeps the locals in their shape ...
LEMMA LocalsStep == PInv /\ [Next]_vars => PInv'
  <1> SUFFICES ASSUME PInv, [Next]_vars PROVE Locals'
    BY TypeStep, DownStep DEF PInv
  <1>1. ASSUME NEW w \in Worker, WorkerStep(w) PROVE Locals'
    <2>1. /\ wpc'[w] = "idle" => wjob'[w] = 0
          /\ wpc'[w] \in {"idle", "read", "lock", "start", "exec"} => wout'[w] = "none"
          /\ wpc'[w] \in {"write", "close", "series", "unregister", "unlock"} => wout'[w] # "none"
          /\ wpc'[w] = "series" => wout'[w] = "succeeded"
          /\ wpc'[w] = "close" => wout'[w] # "paused"
      <3> USE DEF PInv, TInv, TypeOK, Locals
      <3>1. CASE Execute(w)
        <4>1. PICK o \in {"ok", "error", "paused", "panic"} :
                /\ wout' = [wout EXCEPT ![w] = Verdict(o, wdone[w])]
                /\ Step(w, "exec", IF o = "panic" THEN "unregister" ELSE "write")
          BY <3>1 DEF Execute
        <4>2. Verdict(o, wdone[w]) # "none"
          BY <4>1 DEF Verdict
        <4> QED
          BY <4>1, <4>2 DEF Step
      <3>2. CASE ReadFails(w) \/ SkipCancelled(w) \/ ClosePanicked(w) \/ Unlock(w)
        BY <3>2 DEF ReadFails, SkipCancelled, ClosePanicked, Unlock, Return
      <3>3. CASE CloseTurn(w)
        BY <3>3 DEF CloseTurn, Step
      <3>4. CASE WriteEnd(w)
        BY <3>4 DEF WriteEnd, Step
      <3>5. CASE UnlockPanicked(w)
        BY <3>5 DEF UnlockPanicked, Step, Panicked
      <3>6. CASE Dequeue(w) \/ GoOn(w) \/ AcquireLock(w) \/ SetRunning(w)
        BY <3>6 DEF Dequeue, GoOn, AcquireLock, Register, SetRunning, Step
      <3>7. CASE SeriesStops(w) \/ SeriesNext(w) \/ Unregister(w)
        BY <3>7 DEF SeriesStops, SeriesNext, Unregister, Step
      <3> QED
        BY <1>1, <3>1, <3>2, <3>3, <3>4, <3>5, <3>6, <3>7 DEF WorkerStep
    <2> QED
      BY <1>1, <2>1, WorkerFrame DEF PInv, Locals
  <1>2. ASSUME NEW c \in Client, ClientStep(c) PROVE Locals'
    <2>1. cpc'[c] = "idle" => cjob'[c] = 0
      BY <1>2 DEF ClientStep, EnqueueCreate, EnqueuePush, CancelLookup, CancelWrite, ContinuePush, Replay, Reply,
             CancelRun, CancelMiss, ContinueRead, clientVars, PInv, TInv, TypeOK, Locals
    <2> QED
      BY <1>2, <2>1, ClientFrame DEF PInv, Locals
  <1>3. CASE Die
    BY <1>3 DEF Die, Locals
  <1>4. CASE UNCHANGED vars \/ (ProcessStep /\ ~Die) \/ \E j \in Job : Pause(j)
    <2>1. UNCHANGED <<wpc, wjob, wout, cpc, cjob>>
      BY <1>4 DEF vars, ProcessStep, Stop, Boot, Booted, Listen, Redispatch, Pause, workerVars, clientVars
    <2> QED
      BY <2>1 DEF PInv, Locals
  <1> QED
    BY <1>1, <1>2, <1>3, <1>4 DEF Next

\* ... which they have at the start.
LEMMA LocalsInit == Init => PInv
  <1> SUFFICES ASSUME Init PROVE PInv
    OBVIOUS
  <1>1. TInv
    BY TypeInit
  <1> QED
    BY <1>1 DEF Init, PInv, DownIsEmpty, Locals

-----------------------------------------------------------------------------
(* What is never parked.                                                   *)

\* Only a job whose mode polls the gate, on a server that is asked to pause,
\* can be parked.
Parks(j) == Pausable(row[j].req) /\ "pause" \in Ops

NeverParked ==
  /\ "pause" \notin Ops => \A w \in Worker : ~wgate[w]
  /\ \A w \in Worker : wout[w] = "paused" => Parks(wjob[w])
  /\ \A j \in Job : row[j].status = "paused" => Parks(j)
  /\ \A c \in Client : cpc[c] = "resume" => Parks(cjob[c]) /\ "continue" \in Ops

\* A step that keeps the requests of the rows and parks nothing.
LEMMA ParkFrame ==
  ASSUME PInv, NeverParked, ReqKept,
         "pause" \notin Ops => \A w \in Worker : wgate'[w] => wgate[w],
         \A w \in Worker : wout'[w] = "paused" => wout[w] = "paused" /\ wjob'[w] = wjob[w],
         \A j \in Job : row'[j].status = "paused" => row[j].status = "paused",
         \A c \in Client : cpc'[c] = "resume" => cpc[c] = "resume" /\ cjob'[c] = cjob[c]
  PROVE  NeverParked'
  <1>1. \A j \in 1..(nextId - 1) : Parks(j) => Parks(j)'
    BY DEF Parks, Pausable, ReqKept
  <1>2. \A w \in Worker : wout[w] = "paused" => wjob[w] \in 1..(nextId - 1)
    BY DEF PInv, Locals, TInv, IdsExist
  <1>3. \A j \in Job : row[j].status = "paused" => j \in 1..(nextId - 1)
    BY DEF PInv, TInv, IdsExist
  <1>4. \A c \in Client : cpc[c] = "resume" => cjob[c] \in 1..(nextId - 1)
    BY DEF PInv, TInv, IdsExist
  <1>5. \A w \in Worker : wout'[w] = "paused" => Parks(wjob[w])' /\ wjob'[w] = wjob[w]
    <2> SUFFICES ASSUME NEW w \in Worker, wout'[w] = "paused" PROVE Parks(wjob[w])'
      OBVIOUS
    <2>1. PICK n \in 1..(nextId - 1) : n = wjob[w] /\ n = wjob'[w]
      BY <1>2
    <2>2. Parks(n)'
      BY <1>1, <2>1 DEF NeverParked
    <2> QED
      BY <2>1, <2>2 DEF Parks
  <1>6. \A c \in Client : cpc'[c] = "resume" => Parks(cjob[c])' /\ "continue" \in Ops
    <2> SUFFICES ASSUME NEW c \in Client, cpc'[c] = "resume" PROVE Parks(cjob[c])' /\ "continue" \in Ops
      OBVIOUS
    <2>1. PICK n \in 1..(nextId - 1) : n = cjob[c] /\ n = cjob'[c]
      BY <1>4
    <2>2. Parks(n)' /\ "continue" \in Ops
      BY <1>1, <2>1 DEF NeverParked
    <2> QED
      BY <2>1, <2>2 DEF Parks
  <1> QED
    BY <1>1, <1>3, <1>5, <1>6 DEF NeverParked

LEMMA ParkWorker ==
  ASSUME PInv, NeverParked, NEW w \in Worker, WorkerStep(w)
  PROVE  NeverParked'
  <1>1. ReqKept /\ UNCHANGED <<cpc, cjob>>
    BY WorkerKeepsRequests, WorkerFrame DEF PInv
  <1>2. \A v \in Worker : wgate'[v] => wgate[v]
    BY DEF PInv, TInv, TypeOK, WorkerStep, Dequeue, ReadFails, SkipCancelled, GoOn, AcquireLock, Register,
           SetRunning, Execute, WriteEnd, CloseTurn, ClosePanicked, SeriesStops, SeriesNext, Unregister,
           Unlock, UnlockPanicked, Return
  <1>3. CASE Execute(w)
    <2>1. PICK o \in {"ok", "error", "paused", "panic"} :
            /\ o = "paused" => wgate[w] /\ Pausable(row[wjob[w]].req)
            /\ wout' = [wout EXCEPT ![w] = Verdict(o, wdone[w])]
      BY <1>3 DEF Execute
    <2>2. UNCHANGED <<row, wjob, wgate>>
      BY <1>3 DEF Execute, dbVars
    <2>3. wout'[w] = "paused" => o = "paused"
      BY <2>1 DEF Verdict, PInv, TInv, TypeOK
    <2>4. wout'[w] = "paused" => Parks(wjob[w])
      BY <2>1, <2>3 DEF Parks, NeverParked
    <2>5. \A v \in Worker : wout'[v] = "paused" => Parks(wjob[v])
      BY <2>1, <2>4 DEF NeverParked, PInv, TInv, TypeOK
    <2> QED
      BY <1>1, <2>2, <2>5 DEF NeverParked, Parks
  <1>4. CASE WriteEnd(w)
    <2>1. UNCHANGED <<wout, wjob, wgate, nextId>> /\ wpc[w] = "write"
      BY <1>4 DEF WriteEnd, Step
    <2>2. wjob[w] \in Job /\ wjob[w] \in 1..(nextId - 1) /\ wout[w] # "none"
      BY <2>1, WorkersRequest DEF PInv, Locals
    <2>3. \A j \in Job : row'[j].status = "paused" => row[j].status = "paused" \/ (j = wjob[w] /\ wout[w] = "paused")
      <3>1. UNCHANGED row \/ EndUpdate(w)
        BY <1>4 DEF WriteEnd, Ignored
      <3> QED
        BY <2>2, <3>1, EndSays DEF PInv, Terminal
    <2>4. \A j \in Job : row'[j].status = "paused" => Parks(j) /\ j \in 1..(nextId - 1)
      BY <2>2, <2>3 DEF NeverParked, PInv, TInv, IdsExist
    <2>5. \A n \in 1..(nextId - 1) : Parks(n) => Parks(n)'
      BY <1>1 DEF Parks, ReqKept
    <2>6. \A v \in Worker : wout[v] = "paused" => wjob[v] \in 1..(nextId - 1)
      BY DEF PInv, Locals, TInv, IdsExist
    <2>7. \A c \in Client : cpc[c] = "resume" => cjob[c] \in 1..(nextId - 1)
      BY DEF PInv, TInv, IdsExist
    <2>8. /\ \A v \in Worker : wout'[v] = "paused" => Parks(wjob[v])'
          /\ \A c \in Client : cpc'[c] = "resume" => Parks(cjob[c])' /\ "continue" \in Ops
      BY <1>1, <2>1, <2>6, <2>7 DEF NeverParked, Parks, ReqKept
    <2> QED
      BY <1>1, <2>1, <2>4, <2>5, <2>8 DEF NeverParked
  <1>5. CASE ~Execute(w) /\ ~WriteEnd(w)
    <2>1. wout'[w] = "paused" => wout[w] = "paused" /\ wjob'[w] = wjob[w]
      BY <1>5 DEF PInv, TInv, TypeOK, Locals, WorkerStep, Dequeue, ReadFails, SkipCancelled, GoOn, AcquireLock,
             Register, SetRunning, CloseTurn, ClosePanicked, SeriesStops, SeriesNext, Unregister,
             Unlock, UnlockPanicked, Step, Return
    <2>2. \A j \in Job : row'[j].status = "paused" => row[j].status = "paused"
      <3>1. CASE UNCHANGED row
        BY <3>1
      <3>2. CASE SetRunning(w)
        <4>1. UNCHANGED row \/ SetStatus(wjob[w], "running")
          BY <3>2 DEF SetRunning, Ignored
        <4>2. wjob[w] \in Job
          BY <3>2, WorkersRequest DEF SetRunning, Step, PInv
        <4> QED
          BY <4>1, <4>2, UpdateSays DEF PInv
      <3>3. CASE SeriesNext(w)
        BY <3>3 DEF SeriesNext, CreateJob, NewRow, PInv, TInv, TypeOK
      <3> QED
        BY <1>5, <3>1, <3>2, <3>3 DEF WorkerStep, Dequeue, ReadFails, SkipCancelled, GoOn, AcquireLock, Register,
           CloseTurn, ClosePanicked, SeriesStops, Unregister, Unlock, UnlockPanicked, dbVars
    <2> QED
      BY <1>1, <1>2, <2>1, <2>2, WorkerFrame, ParkFrame DEF PInv
  <1> QED
    BY <1>3, <1>4, <1>5

LEMMA ParkClient ==
  ASSUME PInv, NeverParked, NEW c \in Client, ClientStep(c)
  PROVE  NeverParked'
  <1>1. ReqKept /\ UNCHANGED <<wjob, wout>> /\ UNCHANGED wgate
    BY ClientKeepsRequests, ClientFrame
       DEF PInv, ClientStep, EnqueueCreate, EnqueuePush, CancelLookup, CancelWrite, ContinuePush, Replay,
           CancelRun, CancelMiss, ContinueRead, workerVars
  <1>2. ASSUME NEW j \in Job, ContinueRead(c, j) PROVE NeverParked'
    <2>1. /\ row[j].status = "paused" /\ "continue" \in Ops /\ UNCHANGED row
          /\ cpc' = [cpc EXCEPT ![c] = "resume"] /\ cjob' = [cjob EXCEPT ![c] = j]
      BY <1>2 DEF ContinueRead, dbVars
    <2>2. Parks(j)
      BY <2>1 DEF NeverParked
    <2>3. \A d \in Client : cpc'[d] = "resume" => Parks(cjob'[d]) /\ "continue" \in Ops
      BY <2>1, <2>2 DEF NeverParked, PInv, TInv, TypeOK
    <2> QED
      BY <1>1, <2>1, <2>3 DEF NeverParked, Parks
  <1>3. CASE ~\E j \in Job : ContinueRead(c, j)
    <2>1. cpc'[c] # "resume"
      BY <1>3 DEF PInv, TInv, TypeOK, ClientStep, EnqueueCreate, EnqueuePush, CancelLookup, CancelWrite,
             ContinuePush, Replay, CancelRun, CancelMiss, Reply, clientVars
    <2>2. \A j \in Job : row'[j].status = "paused" => row[j].status = "paused"
      <3>1. CASE UNCHANGED row
        BY <3>1
      <3>2. ASSUME NEW q, CreateJob(q) PROVE \A j \in Job : row'[j].status = "paused" => row[j].status = "paused"
        BY <3>2 DEF CreateJob, NewRow, PInv, TInv, TypeOK
      <3>3. CASE CancelWrite(c)
        <4>1. cjob[c] \in Job
          BY <3>3, ManagerAssumption DEF CancelWrite, PInv, TInv, TypeOK, IdsExist, ManagerAssumption, Job
        <4>2. UNCHANGED row \/ \E st \in {"cancelled", "failed"} : FinishJob(cjob[c], st, FALSE)
          BY <3>3 DEF CancelWrite, Ignored
        <4> QED
          BY <4>1, <4>2, UpdateSays DEF PInv
      <3> QED
        BY <1>3, <3>1, <3>2, <3>3 DEF ClientStep, EnqueueCreate, EnqueuePush, CancelLookup, ContinuePush, Replay,
           CancelRun, CancelMiss, dbVars
    <2>3. \A d \in Client : cpc'[d] = "resume" => cpc[d] = "resume" /\ cjob'[d] = cjob[d]
      BY <2>1, ClientFrame DEF PInv
    <2> QED
      BY <1>1, <2>2, <2>3, ParkFrame
  <1> QED
    BY <1>2, <1>3

LEMMA ParkStep == PInv /\ NeverParked /\ [Next]_vars => NeverParked'
  <1> SUFFICES ASSUME PInv, NeverParked, [Next]_vars PROVE NeverParked'
    OBVIOUS
  <1>1. ASSUME NEW j \in Job, Pause(j) PROVE NeverParked'
    BY <1>1 DEF Pause, NeverParked, Parks, dbVars, clientVars
  <1>2. CASE Die
    BY <1>2 DEF Die, NeverParked, Parks, dbVars
  <1>3. CASE Stop \/ Listen \/ \E j \in Job : Redispatch(j)
    BY <1>3 DEF Stop, Listen, Redispatch, NeverParked, Parks, dbVars, workerVars, clientVars
  <1>4. CASE UNCHANGED vars
    BY <1>4 DEF vars, NeverParked, Parks, dbVars, workerVars, clientVars
  <1>5. CASE Boot
    <2>1. ReqKept
      BY <1>5, ProcessKeepsRequests DEF ProcessStep, PInv
    <2>2. UNCHANGED <<wgate, wout, wjob, cpc, cjob>>
      BY <1>5 DEF Boot, Booted, workerVars, clientVars
    <2>3. \A j \in Job : row'[j].status = "paused" => row[j].status = "paused"
      BY <1>5, ZenonT(60) DEF Boot, Ignored, Requeued, PInv, TInv, TypeOK, Row
    <2> QED
      BY <2>1, <2>2, <2>3, ParkFrame
  <1> QED
    BY <1>1, <1>2, <1>3, <1>4, <1>5, ParkWorker, ParkClient DEF Next, ProcessStep

LEMMA ParkInit == Init => NeverParked
  BY DEF Init, NeverParked, NewRow

-----------------------------------------------------------------------------
(* Every open conversation is tended while the database answers.           *)

\* Somebody will get to the job, parked or not.
Attended(j) == OnLane(j) \/ Pushing(j) \/ \E w \in Worker : wjob[w] = j /\ Tending(w)

\* Every open conversation over a job that cannot be parked has its job where
\* somebody will get to it, unless a full lane refused it.
TurnsTended ==
  /\ turn \subseteq 1..(nextId - 1) /\ (up = "down" => turn = {})
  /\ up \in {"up", "booting"} => \A j \in turn : Parks(j) \/ j \in dropped \/ Attended(j)

VInv == PInv /\ NeverParked /\ TurnsTended

\* A step that opens no conversation and stops tending none.
LEMMA TurnFrame ==
  ASSUME VInv, TInv', ReqKept, turn' \subseteq turn, nextId' \in {nextId, nextId + 1}, dropped \subseteq dropped',
         up' \in {"up", "booting"} => up \in {"up", "booting"}, up' = "down" => up = "down",
         \A j \in turn' : up' \in {"up", "booting"} /\ Attended(j) /\ ~Parks(j)
                            => Attended(j)' \/ j \in dropped'
  PROVE  TurnsTended'
  <1>1. nextId \in Nat
    BY DEF VInv, PInv, TInv, TypeOK
  <1>5. \A n \in 1..(nextId - 1) : n \in 1..(nextId' - 1)
    <2>1. CASE nextId' = nextId
      BY <2>1
    <2>2. CASE nextId' = nextId + 1
      BY ONLY <1>1, <2>2
    <2> QED
      BY <2>1, <2>2
  <1>2. turn' \subseteq 1..(nextId' - 1) /\ (up' = "down" => turn' = {})
    BY <1>5 DEF VInv, TurnsTended
  <1> SUFFICES ASSUME up' \in {"up", "booting"}, NEW j \in turn'
               PROVE  Parks(j)' \/ j \in dropped' \/ Attended(j)'
    BY <1>2 DEF TurnsTended
  <1>3. Parks(j) \/ j \in dropped \/ Attended(j)
    BY DEF VInv, TurnsTended
  <1>4. Parks(j) => Parks(j)'
    BY DEF Parks, ReqKept, VInv, TurnsTended
  <1> QED
    BY <1>3, <1>4

\* A new row's conversation is tended by whoever pushes it.
LEMMA TurnCreate ==
  ASSUME VInv, TInv', NEW q \in RequestType, CreateJob(q), UNCHANGED up, up # "down",
         NEW n \in Job, n = nextId, n \in dropped' \/ Attended(n)', dropped \subseteq dropped',
         \A j \in Job : Attended(j) => Attended(j)'
  PROVE  TurnsTended'
  <1>1. ReqKept /\ nextId' = nextId + 1 /\ nextId \in Nat /\ nextId >= 1
    <2>1. TInv /\ nextId \in Nat /\ nextId >= 1
      BY DEF VInv, PInv, TInv, TypeOK
    <2>2. ReqKept /\ nextId' = nextId + 1
      BY ONLY <2>1, q \in RequestType, CreateJob(q), CreateKeeps
    <2> QED
      BY <2>1, <2>2
  <1>2. turn' \subseteq turn \cup {n}
    BY DEF CreateJob
  <1>3. turn' \subseteq 1..(nextId' - 1)
    <2>1. n \in 1..(nextId' - 1) /\ \A m \in 1..(nextId - 1) : m \in 1..(nextId' - 1)
      BY <1>1
    <2> QED
      BY <1>2, <2>1 DEF VInv, TurnsTended
  <1> SUFFICES ASSUME up' \in {"up", "booting"}, NEW j \in turn, j # n
               PROVE  Parks(j)' \/ j \in dropped' \/ Attended(j)'
    BY <1>2, <1>3 DEF TurnsTended
  <1>4. Parks(j) \/ j \in dropped \/ Attended(j)
    BY DEF VInv, TurnsTended
  <1>5. Parks(j) => Parks(j)'
    BY <1>1 DEF Parks, ReqKept, VInv, TurnsTended
  <1>6. j \in Job
    BY DEF VInv, PInv, TInv, TypeOK
  <1> QED
    BY <1>4, <1>5, <1>6

LEMMA TurnWorker ==
  ASSUME ~DBMayFail, VInv, TInv', NEW w \in Worker, WorkerStep(w)
  PROVE  TurnsTended'
  <1>1. /\ \A v \in Worker : v # w => wpc'[v] = wpc[v] /\ wjob'[v] = wjob[v] /\ wout'[v] = wout[v]
        /\ UNCHANGED <<cpc, cjob, up>> /\ ReqKept
    BY WorkerFrame, WorkerKeepsRequests DEF VInv, PInv
  <1>2. \A j \in Job : Pushing(j) => Pushing(j)'
    BY <1>1 DEF Pushing
  <1>3. \A j \in Job : \A v \in Worker \ {w} : wjob[v] = j /\ Tending(v) => wjob'[v] = j /\ Tending(v)'
    BY <1>1 DEF Tending, Panicked
  <1>4. CASE Dequeue(w)
    <2>1. UNCHANGED <<turn, dropped, nextId>> /\ wpc[w] = "idle"
      BY <1>4 DEF Dequeue, Step, dbVars, mapVars
    <2>2. ~Tending(w)
      BY <2>1 DEF Tending, Panicked, VInv, PInv, Locals
    <2>3. ASSUME NEW j \in Job, Attended(j) PROVE Attended(j)'
      <3>1. CASE OnLane(j)
        <4>1. OnLane(j)' \/ (wjob'[w] = j /\ wpc'[w] = "read")
          BY <1>4, <3>1, DequeueShows DEF VInv, PInv
        <4> QED
          BY <4>1 DEF Attended, Tending
      <3> QED
        BY <1>2, <1>3, <2>2, <2>3, <3>1 DEF Attended
    <2>4. turn' \subseteq Job
      BY DEF TInv, TypeOK
    <2> QED
      BY <1>1, <2>1, <2>3, <2>4, TurnFrame
  <1>5. CASE SeriesNext(w)
    <2> DEFINE q == [row[wjob[w]].req EXCEPT !.refine = FALSE, !.lane = "main", !.sup = TRUE]
    <2>1. CreateJob(q) /\ Schedule("main", nextId) /\ wpc[w] = "series" /\ up # "down"
      BY <1>5 DEF SeriesNext, Step, VInv, PInv, DownIsEmpty
    <2>2. q \in RequestType /\ nextId \in Job
      <3>1. row[wjob[w]].req \in RequestType /\ "main" \in Lane
        BY <1>5, WorkersRequest DEF SeriesNext, Step, VInv, PInv, Lane
      <3>2. q \in RequestType
        BY <3>1 DEF RequestType
      <3> QED
        BY <2>1, <3>2 DEF CreateJob
    <2> HIDE DEF q
    <2>3. PICK n \in Job : n = nextId
      BY <2>2
    <2>4. "main" \in Lane
      BY DEF Lane
    <2>5. /\ n \in dropped' \/ OnLane(n)'
          /\ dropped \subseteq dropped'
          /\ \A k \in Job : OnLane(k) => OnLane(k)'
      BY <2>1, <2>3, <2>4, ScheduleShows DEF VInv, PInv
    <2>6. ~Tending(w)
      BY <2>1 DEF Tending, Panicked, VInv, PInv, Locals
    <2>7. \A k \in Job : Attended(k) => Attended(k)'
      BY <1>2, <1>3, <2>5, <2>6 DEF Attended
    <2>8. n \in dropped' \/ Attended(n)'
      BY <2>5 DEF Attended
    <2> QED
      BY <1>1, <2>1, <2>2, <2>3, <2>5, <2>7, <2>8, TurnCreate
  <1>6. CASE ~Dequeue(w) /\ ~SeriesNext(w)
    <2>1. UNCHANGED <<lane, dropped, nextId>> /\ turn' \subseteq turn
      BY <1>6 DEF WorkerStep, ReadFails, SkipCancelled, GoOn, AcquireLock, Register, SetRunning, Execute,
             WriteEnd, CloseTurn, ClosePanicked, SeriesStops, Unregister, Unlock, UnlockPanicked, laneVars,
             dbVars, mapVars
    <2>2. ASSUME NEW j \in turn', up' \in {"up", "booting"}, wjob[w] = j, Tending(w), ~Parks(j)
          PROVE  wjob'[w] = j /\ Tending(w)'
      <3>1. up # "stopping" /\ wout[w] # "paused"
        BY <1>1, <2>2 DEF VInv, NeverParked
      <3> USE DEF VInv, PInv, TInv, TypeOK, Locals, Tending, Panicked
      <3>2. CASE ReadFails(w)
        BY <3>1, <3>2 DEF ReadFails
      <3>3. CASE SkipCancelled(w) \/ CloseTurn(w) \/ ClosePanicked(w)
        BY <2>2, <3>3 DEF SkipCancelled, CloseTurn, ClosePanicked
      <3>4. CASE Execute(w)
        <4>1. PICK o \in {"ok", "error", "paused", "panic"} :
                /\ wout' = [wout EXCEPT ![w] = Verdict(o, wdone[w])]
                /\ Step(w, "exec", IF o = "panic" THEN "unregister" ELSE "write")
          BY <3>4 DEF Execute
        <4>2. UNCHANGED wjob
          BY <3>4 DEF Execute
        <4>3. o = "panic" => wout'[w] = "panic"
          BY <4>1 DEF Verdict
        <4> QED
          BY <2>2, <4>1, <4>2, <4>3 DEF Step
      <3>5. CASE WriteEnd(w)
        BY <2>2, <3>1, <3>5 DEF WriteEnd, Step
      <3>6. CASE GoOn(w) \/ AcquireLock(w) \/ SetRunning(w)
        BY <2>2, <3>6 DEF GoOn, AcquireLock, Register, SetRunning, Step
      <3>7. CASE Unregister(w) \/ UnlockPanicked(w)
        BY <2>2, <3>7 DEF Unregister, UnlockPanicked, Step
      <3>8. CASE Unlock(w) \/ SeriesStops(w)
        BY <2>2, <3>8 DEF Unlock, SeriesStops, Step
      <3> QED
        BY <1>6, <3>2, <3>3, <3>4, <3>5, <3>6, <3>7, <3>8 DEF WorkerStep
    <2>3. \A j \in turn' : up' \in {"up", "booting"} /\ Attended(j) /\ ~Parks(j) => Attended(j)'
      <3>1. turn' \subseteq Job
        BY DEF TInv, TypeOK
      <3>2. \A j \in Job : OnLane(j) => OnLane(j)'
        BY <2>1 DEF OnLane
      <3> QED
        BY <1>2, <1>3, <2>2, <3>1, <3>2 DEF Attended
    <2> QED
      BY <1>1, <2>1, <2>3, TurnFrame
  <1> QED
    BY <1>4, <1>5, <1>6

LEMMA TurnClient ==
  ASSUME VInv, TInv', NEW c \in Client, ClientStep(c)
  PROVE  TurnsTended'
  <1>1. /\ \A d \in Client : d # c => cpc'[d] = cpc[d] /\ cjob'[d] = cjob[d]
        /\ UNCHANGED <<wpc, wjob, wout, up>> /\ ReqKept
    BY ClientFrame, ClientKeepsRequests DEF VInv, PInv
  <1>2. \A v \in Worker : Tending(v) => Tending(v)'
    BY <1>1 DEF Tending, Panicked
  <1>3. ASSUME NEW q \in RequestType, EnqueueCreate(c, q) PROVE TurnsTended'
    <2>1. /\ CreateJob(q) /\ UNCHANGED <<lane, dropped>> /\ up # "down"
          /\ cpc[c] = "idle" /\ cpc'[c] = "push" /\ cjob'[c] = nextId
      BY <1>3 DEF EnqueueCreate, laneVars, VInv, PInv, TInv, TypeOK
    <2>2. PICK n \in Job : n = nextId
      BY <2>1 DEF CreateJob
    <2>3. Attended(n)'
      BY <2>1, <2>2 DEF Attended, Pushing
    <2>4. \A j \in Job : Attended(j) => Attended(j)'
      BY <1>1, <1>2, <2>1 DEF Attended, Pushing, OnLane
    <2> QED
      BY <1>1, <2>1, <2>2, <2>3, <2>4, TurnCreate
  <1>4. CASE EnqueuePush(c)
    <2>1. /\ cpc[c] = "push" /\ cpc'[c] = "idle" /\ UNCHANGED <<turn, nextId>>
          /\ cjob[c] \in Job /\ Schedule(LaneFor(cjob[c]), cjob[c])
      BY <1>4, ManagerAssumption
         DEF EnqueuePush, Reply, VInv, PInv, TInv, TypeOK, IdsExist, ManagerAssumption, Job, dbVars, mapVars
    <2>2. LaneFor(cjob[c]) \in Lane
      BY <2>1 DEF LaneFor, VInv, PInv, TInv, TypeOK, Row, RequestType
    <2>3. PICK n \in Job : n = cjob[c]
      BY <2>1
    <2>4. /\ n \in dropped' \/ OnLane(n)'
          /\ dropped \subseteq dropped'
          /\ \A k \in Job : OnLane(k) => OnLane(k)'
      BY <2>1, <2>2, <2>3, ScheduleShows DEF VInv, PInv
    <2>5. \A j \in Job : Pushing(j) => Pushing(j)' \/ j = n
      BY <1>1, <2>3 DEF Pushing
    <2>6. \A j \in Job : Attended(j) => Attended(j)' \/ j \in dropped'
      BY <1>1, <1>2, <2>4, <2>5 DEF Attended
    <2>7. turn' \subseteq Job
      BY DEF TInv, TypeOK
    <2> QED
      BY <1>1, <2>1, <2>4, <2>6, <2>7, TurnFrame
  <1>5. CASE ContinuePush(c)
    <2>1. /\ cpc[c] = "resume" /\ cpc'[c] = "idle" /\ UNCHANGED <<turn, nextId, dropped>>
          /\ cjob[c] \in Job /\ (Send(LaneFor(cjob[c]), cjob[c]) \/ UNCHANGED lane)
      BY <1>5, ManagerAssumption
         DEF ContinuePush, Reply, VInv, PInv, TInv, TypeOK, IdsExist, ManagerAssumption, Job, dbVars, mapVars
    <2>2. LaneFor(cjob[c]) \in Lane
      BY <2>1 DEF LaneFor, VInv, PInv, TInv, TypeOK, Row, RequestType
    <2>3. \A k \in Job : OnLane(k) => OnLane(k)'
      BY <2>1, <2>2, SendShows DEF VInv, PInv, OnLane
    <2>4. \A j \in Job : Pushing(j) /\ ~Parks(j) => Pushing(j)'
      BY <1>1, <2>1 DEF Pushing, VInv, NeverParked
    <2>5. \A j \in Job : Attended(j) /\ ~Parks(j) => Attended(j)'
      BY <1>1, <1>2, <2>3, <2>4 DEF Attended
    <2>6. turn' \subseteq Job
      BY DEF TInv, TypeOK
    <2> QED
      BY <1>1, <2>1, <2>5, <2>6, TurnFrame
  <1>6. CASE CancelLookup(c) \/ CancelWrite(c) \/ \E j \in Job : CancelRun(c, j) \/ CancelMiss(c, j) \/ ContinueRead(c, j)
    <2>1. UNCHANGED <<lane, dropped, turn, nextId>> /\ cpc[c] \notin {"push", "resume"}
      BY <1>6 DEF CancelLookup, CancelWrite, CancelRun, CancelMiss, ContinueRead, laneVars, mapVars, dbVars
    <2>2. \A j \in Job : Attended(j) => Attended(j)'
      BY <1>1, <1>2, <2>1 DEF Attended, Pushing, OnLane
    <2>3. turn' \subseteq Job
      BY DEF TInv, TypeOK
    <2> QED
      BY <1>1, <2>1, <2>2, <2>3, TurnFrame
  <1> QED
    BY <1>3, <1>4, <1>5, <1>6, ReplaysType, ManagerAssumption DEF ClientStep, Replay, ManagerAssumption, VInv, PInv

LEMMA TurnProcess ==
  ASSUME VInv, TInv', ProcessStep
  PROVE  TurnsTended'
  <1>1. ReqKept
    BY ProcessKeepsRequests DEF VInv, PInv
  <1>2. CASE Stop \/ Die
    <2>1. /\ up' \notin {"up", "booting"} /\ turn' \subseteq turn /\ UNCHANGED nextId
          /\ up' = "down" => turn' = {}
      BY <1>2 DEF Stop, Die, mapVars, dbVars
    <2> QED
      BY <2>1 DEF VInv, TurnsTended
  <1>3. CASE Boot
    <2>1. turn = {}
      BY <1>3 DEF Boot, Booted, VInv, TurnsTended
    <2> QED
      BY <1>3, <2>1 DEF Boot, Booted, TurnsTended, mapVars
  <1>4. CASE Listen
    BY <1>1, <1>4 DEF Listen, VInv, TurnsTended, Attended, Tending, Panicked, Parks, OnLane, Pushing,
                dbVars, laneVars, mapVars, workerVars, clientVars
  <1>5. ASSUME NEW k \in Job, Redispatch(k) PROVE TurnsTended'
    <2>1. /\ Schedule(LaneFor(k), k)
          /\ UNCHANGED <<turn, nextId, up, wpc, wjob, wout, cpc, cjob>>
      BY <1>5 DEF Redispatch, dbVars, mapVars, workerVars, clientVars
    <2>2. LaneFor(k) \in Lane
      BY DEF LaneFor, VInv, PInv, TInv, TypeOK, Row, RequestType
    <2>3. dropped \subseteq dropped' /\ \A j \in Job : OnLane(j) => OnLane(j)'
      BY <2>1, <2>2, ScheduleShows DEF VInv, PInv
    <2>4. \A j \in Job : Attended(j) => Attended(j)'
      BY <2>1, <2>3 DEF Attended, Tending, Panicked, Pushing
    <2>5. turn' \subseteq Job
      BY DEF TInv, TypeOK
    <2> QED
      BY <1>1, <2>1, <2>3, <2>4, <2>5, TurnFrame
  <1> QED
    BY <1>2, <1>3, <1>4, <1>5 DEF ProcessStep

LEMMA TurnInvariant ==
  ASSUME ~DBMayFail
  PROVE  Spec => []VInv
  <1>1. Init => VInv
    BY LocalsInit, ParkInit DEF Init, VInv, TurnsTended
  <1>2. VInv /\ [Next]_vars => VInv'
    <2> SUFFICES ASSUME VInv, [Next]_vars PROVE VInv'
      OBVIOUS
    <2>1. PInv' /\ TInv' /\ NeverParked'
      BY LocalsStep, ParkStep DEF VInv, PInv
    <2>2. ASSUME UNCHANGED vars PROVE TurnsTended'
      <3>1. UNCHANGED <<row, nextId, up, lane, dropped, turn, wpc, wjob, wout, cpc, cjob>>
        BY <2>2 DEF vars, dbVars, laneVars, mapVars, workerVars, clientVars
      <3>2. \A j \in turn' : Attended(j) => Attended(j)'
        BY <3>1 DEF Attended, Tending, Panicked, OnLane, Pushing
      <3>3. ReqKept
        BY <3>1 DEF ReqKept
      <3>4. turn' \subseteq turn /\ nextId' \in {nextId, nextId + 1} /\ dropped \subseteq dropped' /\ up' = up
        BY <3>1
      <3> QED
        BY <2>1, <3>2, <3>3, <3>4, TurnFrame
    <2>3. ASSUME NEW j \in Job, Pause(j) PROVE TurnsTended'
      BY <2>3 DEF Pause, dbVars, laneVars, mapVars, clientVars, VInv, TurnsTended, Attended, Tending,
                  Panicked, Parks, OnLane, Pushing
    <2>4. TurnsTended'
      BY <2>1, <2>2, <2>3, TurnWorker, TurnClient, TurnProcess DEF Next, VInv
    <2> QED
      BY <2>1, <2>4 DEF VInv
  <1> QED
    BY <1>1, <1>2, PTL DEF Spec

\* While every statement succeeds, the conversation of a job that cannot be
\* parked is never left to nobody: the job is on a lane, in a worker's or a
\* handler's hands, or a full lane refused it (closeTurn on every way out of
\* run, Enqueue).
THEOREM ConversationsTended ==
  ASSUME ~DBMayFail
  PROVE  Spec => [](up = "up" => \A j \in turn : Parks(j) \/ j \in dropped \/ OnLane(j) \/ InHand(j) \/ Pushing(j))
  <1>1. VInv => (up = "up" => \A j \in turn : Parks(j) \/ j \in dropped \/ OnLane(j) \/ InHand(j) \/ Pushing(j))
    BY DEF VInv, TurnsTended, Attended, InHand
  <1> QED
    BY <1>1, TurnInvariant, PTL

\* What a step must do to a conversation that is open after it.
Forsakes(j) ==
  \/ j \in turn /\ ~Tended(j)
  \/ j \in dropped'
  \/ row[j].status = "paused" /\ row'[j].status \in Terminal

Keeps == up' \in {"up", "booting"} => \A j \in turn' : ~Tended(j)' => Forsakes(j)

\* A worker leaves a conversation it held to nobody only by refusing a full lane
\* (SeriesNext); parked or closed, it is somebody's or no longer open.
LEMMA KeepsWorker ==
  ASSUME ~DBMayFail, VInv, TInv', NEW w \in Worker, WorkerStep(w)
  PROVE  Keeps
  <1> SUFFICES ASSUME up' \in {"up", "booting"}, NEW j \in turn', ~Tended(j)'
               PROVE  Forsakes(j)
    BY DEF Keeps
  <1>1. /\ \A v \in Worker : v # w => wpc'[v] = wpc[v] /\ wjob'[v] = wjob[v] /\ wout'[v] = wout[v]
        /\ UNCHANGED <<cpc, cjob, up>>
    BY WorkerFrame DEF VInv, PInv
  <1>2. j \in Job /\ TInv /\ Locals /\ up # "stopping"
    BY <1>1 DEF TInv, TypeOK, VInv, PInv
  <1>3. \A v \in Worker \ {w} : wjob[v] = j /\ Tending(v) => wjob'[v] = j /\ Tending(v)'
    BY <1>1 DEF Tending, Panicked
  <1>4. CASE Dequeue(w)
    <2>1. UNCHANGED <<turn, row>> /\ wpc[w] = "idle"
      BY <1>4 DEF Dequeue, Step, dbVars, mapVars
    <2>2. ~Tending(w)
      BY <1>2, <2>1 DEF Tending, Panicked, Locals
    <2>3. OnLane(j) => OnLane(j)' \/ (wjob'[w] = j /\ Tending(w)')
      BY <1>2, <1>4, DequeueShows DEF Tending
    <2>4. ~Tended(j)
      BY <1>1, <1>3, <2>1, <2>2, <2>3 DEF Tended
    <2> QED
      BY <2>1, <2>4 DEF Forsakes
  <1>5. CASE SeriesNext(w)
    <2> DEFINE q == [row[wjob[w]].req EXCEPT !.refine = FALSE, !.lane = "main", !.sup = TRUE]
    <2>1. CreateJob(q) /\ Schedule("main", nextId) /\ wpc[w] = "series"
      BY <1>5 DEF SeriesNext, Step
    <2> HIDE DEF q
    <2>2. PICK n \in Job : n = nextId
      BY <2>1 DEF CreateJob
    <2>3. "main" \in Lane
      BY DEF Lane
    <2>4. /\ n \in dropped' \/ OnLane(n)'
          /\ \A k \in Job : OnLane(k) => OnLane(k)'
      BY <1>2, <2>1, <2>2, <2>3, ScheduleShows
    <2>5. ~Tending(w)
      BY <1>2, <2>1 DEF Tending, Panicked, Locals
    <2>6. j # n => j \in turn /\ row'[j] = row[j]
      BY <1>2, <2>1, <2>2 DEF CreateJob, TInv, TypeOK
    <2>7. j # n => ~Tended(j)
      BY <1>1, <1>2, <1>3, <2>4, <2>5, <2>6 DEF Tended
    <2> QED
      BY <2>4, <2>6, <2>7 DEF Forsakes, Tended
  <1>6. CASE ~Dequeue(w) /\ ~SeriesNext(w)
    <2>1. UNCHANGED <<lane, nextId>> /\ turn' \subseteq turn
      BY <1>6 DEF WorkerStep, ReadFails, SkipCancelled, GoOn, AcquireLock, Register, SetRunning, Execute,
             WriteEnd, CloseTurn, ClosePanicked, SeriesStops, Unregister, Unlock, UnlockPanicked, laneVars,
             dbVars, mapVars
    <2>2. OnLane(j) => OnLane(j)'
      BY <2>1 DEF OnLane
    <2>3. ASSUME wjob[w] = j, Tending(w) PROVE (wjob'[w] = j /\ Tending(w)') \/ row'[j].status = "paused"
      <3> USE <1>2, <2>3 DEF TInv, TypeOK, Locals, Tending, Panicked
      <3>1. CASE ReadFails(w)
        BY <3>1 DEF ReadFails
      <3>2. CASE SkipCancelled(w) \/ CloseTurn(w) \/ ClosePanicked(w)
        BY <3>2 DEF SkipCancelled, CloseTurn, ClosePanicked
      <3>3. CASE Execute(w)
        <4>1. PICK o \in {"ok", "error", "paused", "panic"} :
                /\ wout' = [wout EXCEPT ![w] = Verdict(o, wdone[w])]
                /\ Step(w, "exec", IF o = "panic" THEN "unregister" ELSE "write")
          BY <3>3 DEF Execute
        <4>2. UNCHANGED wjob
          BY <3>3 DEF Execute
        <4>3. o = "panic" => wout'[w] = "panic"
          BY <4>1 DEF Verdict
        <4> QED
          BY <4>1, <4>2, <4>3 DEF Step
      <3>4. CASE WriteEnd(w)
        <4>1. EndUpdate(w) /\ wpc[w] = "write" /\ UNCHANGED wjob
          BY <3>4 DEF WriteEnd, Ignored, Step
        <4>2. wout[w] = "paused" => row'[j].status = "paused"
          BY <4>1 DEF EndUpdate, SetJobPaused, Row
        <4> QED
          BY <3>4, <4>1, <4>2 DEF WriteEnd, Step
      <3>5. CASE GoOn(w) \/ AcquireLock(w) \/ SetRunning(w)
        BY <3>5 DEF GoOn, AcquireLock, Register, SetRunning, Step
      <3>6. CASE Unregister(w) \/ UnlockPanicked(w)
        BY <3>6 DEF Unregister, UnlockPanicked, Step
      <3>7. CASE Unlock(w) \/ SeriesStops(w)
        BY <3>7 DEF Unlock, SeriesStops, Step
      <3> QED
        BY <1>6, <3>1, <3>2, <3>3, <3>4, <3>5, <3>6, <3>7 DEF WorkerStep
    <2>4. ASSUME row[j].status = "paused" PROVE row'[j].status = "paused" \/ (wjob'[w] = j /\ Tending(w)')
      <3> USE <1>2, <2>4 DEF TInv, TypeOK
      <3>1. CASE row' = row
        BY <3>1
      <3>2. CASE SetRunning(w)
        BY <3>2 DEF SetRunning, Ignored, SetStatus, Step, Tending, Row
      <3>3. CASE WriteEnd(w)
        <4>1. EndUpdate(w) /\ wpc[w] = "write" /\ UNCHANGED <<wjob, wout>>
              /\ wpc'[w] = IF wout[w] = "paused" THEN "unregister" ELSE "close"
          BY <3>3 DEF WriteEnd, Ignored, Step
        <4>2. wjob[w] # j => row'[j] = row[j]
          BY <4>1 DEF EndUpdate, SetJobPaused, FinishJob
        <4>3. wjob[w] = j /\ wout[w] = "paused" => row'[j].status = "paused"
          BY <4>1 DEF EndUpdate, SetJobPaused, Row
        <4> QED
          BY <4>1, <4>2, <4>3 DEF Tending
      <3> QED
        BY <1>6, <3>1, <3>2, <3>3 DEF WorkerStep, ReadFails, SkipCancelled, GoOn, AcquireLock, Register,
             Execute, CloseTurn, ClosePanicked, SeriesStops, Unregister, Unlock, UnlockPanicked, dbVars
    <2>5. ~Tended(j)
      BY <1>1, <1>3, <2>2, <2>3, <2>4 DEF Tended
    <2> QED
      BY <2>1, <2>5 DEF Forsakes
  <1> QED
    BY <1>4, <1>5, <1>6

\* A handler does so only when its lane is full, or by ending a parked job.
LEMMA KeepsClient ==
  ASSUME ~DBMayFail, VInv, TInv', NEW c \in Client, ClientStep(c)
  PROVE  Keeps
  <1> SUFFICES ASSUME NEW j \in turn', ~Tended(j)'
               PROVE  Forsakes(j)
    BY DEF Keeps
  <1>1. /\ \A d \in Client : d # c => cpc'[d] = cpc[d] /\ cjob'[d] = cjob[d]
        /\ UNCHANGED <<wpc, wjob, wout, up>>
    BY ClientFrame DEF VInv, PInv
  <1>2. j \in Job /\ TInv /\ Locals
    BY DEF TInv, TypeOK, VInv, PInv
  <1>3. \A v \in Worker : Tending(v) => Tending(v)'
    BY <1>1 DEF Tending, Panicked
  <1>4. ASSUME NEW q \in RequestType, EnqueueCreate(c, q) PROVE Forsakes(j)
    <2>1. /\ CreateJob(q) /\ UNCHANGED lane /\ cpc[c] = "idle" /\ cpc'[c] = "push" /\ cjob'[c] = nextId
      BY <1>2, <1>4 DEF EnqueueCreate, laneVars, TInv, TypeOK
    <2>2. j # nextId
      BY <2>1 DEF Tended
    <2>3. j \in turn /\ row'[j] = row[j]
      BY <1>2, <2>1, <2>2 DEF CreateJob, TInv, TypeOK
    <2>4. ~Tended(j)
      BY <1>1, <1>3, <2>1, <2>3 DEF Tended, OnLane
    <2> QED
      BY <2>3, <2>4 DEF Forsakes
  <1>5. CASE EnqueuePush(c)
    <2>1. /\ cpc[c] = "push" /\ UNCHANGED <<turn, row>>
          /\ cjob[c] \in Job /\ Schedule(LaneFor(cjob[c]), cjob[c])
      BY <1>2, <1>5, ManagerAssumption
         DEF EnqueuePush, TInv, TypeOK, IdsExist, ManagerAssumption, Job, dbVars, mapVars
    <2>2. LaneFor(cjob[c]) \in Lane
      BY <1>2, <2>1 DEF LaneFor, TInv, TypeOK, Row, RequestType
    <2>3. PICK n \in Job : n = cjob[c]
      BY <2>1
    <2>4. (n \in dropped' \/ OnLane(n)') /\ \A k \in Job : OnLane(k) => OnLane(k)'
      BY <1>2, <2>1, <2>2, <2>3, ScheduleShows
    <2>5. j \in dropped' \/ ~Tended(j)
      BY <1>1, <1>2, <1>3, <2>1, <2>3, <2>4 DEF Tended
    <2> QED
      BY <2>1, <2>5 DEF Forsakes
  <1>6. CASE ContinuePush(c)
    <2>1. /\ cpc[c] = "resume" /\ UNCHANGED <<turn, row>>
          /\ cjob[c] \in Job /\ (Send(LaneFor(cjob[c]), cjob[c]) \/ UNCHANGED lane)
      BY <1>2, <1>6, ManagerAssumption
         DEF ContinuePush, TInv, TypeOK, IdsExist, ManagerAssumption, Job, dbVars, mapVars
    <2>2. LaneFor(cjob[c]) \in Lane
      BY <1>2, <2>1 DEF LaneFor, TInv, TypeOK, Row, RequestType
    <2>3. \A k \in Job : OnLane(k) => OnLane(k)'
      BY <1>2, <2>1, <2>2, SendShows DEF OnLane
    <2>4. ~Tended(j)
      BY <1>1, <1>2, <1>3, <2>1, <2>3 DEF Tended
    <2> QED
      BY <2>1, <2>4 DEF Forsakes
  <1>7. CASE CancelWrite(c)
    <2>1. /\ UNCHANGED <<lane, turn>> /\ cpc[c] # "push"
          /\ FinishJob(cjob[c], IF cpc[c] = "wcancelled" THEN "cancelled" ELSE "failed", FALSE)
      BY <1>7 DEF CancelWrite, Ignored, laneVars, mapVars
    <2>2. row[j].status = "paused" => row'[j].status \in Terminal \cup {"paused"}
      BY <1>2, <2>1 DEF FinishJob, TInv, TypeOK, Row, Terminal
    <2>3. (row[j].status = "paused" /\ row'[j].status \in Terminal) \/ ~Tended(j)
      BY <1>1, <1>3, <2>1, <2>2 DEF Tended, OnLane
    <2> QED
      BY <2>1, <2>3 DEF Forsakes
  <1>8. CASE CancelLookup(c) \/ \E k \in Job : CancelRun(c, k) \/ CancelMiss(c, k) \/ ContinueRead(c, k)
    <2>1. UNCHANGED <<lane, turn, row>> /\ cpc[c] # "push"
      BY <1>8 DEF CancelLookup, CancelRun, CancelMiss, ContinueRead, laneVars, mapVars, dbVars
    <2>2. ~Tended(j)
      BY <1>1, <1>3, <2>1 DEF Tended, OnLane
    <2> QED
      BY <2>1, <2>2 DEF Forsakes
  <1> QED
    BY <1>4, <1>5, <1>6, <1>7, <1>8, ReplaysType, ManagerAssumption
       DEF ClientStep, Replay, ManagerAssumption, VInv, PInv

\* The start of the server does so only when the lane it refills is full.
LEMMA KeepsProcess ==
  ASSUME VInv, TInv', ProcessStep
  PROVE  Keeps
  <1> SUFFICES ASSUME up' \in {"up", "booting"}, NEW j \in turn', ~Tended(j)'
               PROVE  Forsakes(j)
    BY DEF Keeps
  <1>1. j \in Job /\ TInv
    BY DEF TInv, TypeOK, VInv, PInv
  <1>2. ~Stop /\ ~Die
    BY DEF Stop, Die
  <1>3. ~Boot
    BY DEF Boot, Booted, VInv, TurnsTended, mapVars
  <1>4. CASE Listen
    BY <1>4 DEF Listen, Forsakes, Tended, Tending, Panicked, OnLane, dbVars, laneVars, mapVars,
                workerVars, clientVars
  <1>5. ASSUME NEW k \in Job, Redispatch(k) PROVE Forsakes(j)
    <2>1. Schedule(LaneFor(k), k) /\ UNCHANGED <<row, turn, wpc, wjob, wout, cpc, cjob>>
      BY <1>5 DEF Redispatch, dbVars, mapVars, workerVars, clientVars
    <2>2. LaneFor(k) \in Lane
      BY <1>1 DEF LaneFor, TInv, TypeOK, Row, RequestType
    <2>3. OnLane(j) => OnLane(j)'
      BY <1>1, <2>1, <2>2, ScheduleShows
    <2>4. ~Tended(j)
      BY <2>1, <2>3 DEF Tended, Tending, Panicked
    <2> QED
      BY <2>1, <2>4 DEF Forsakes
  <1> QED
    BY <1>2, <1>3, <1>4, <1>5 DEF ProcessStep

\* While every statement succeeds, a step leaves an open conversation to nobody
\* only when a full lane refuses the id it was opened for, or when a Cancel ends
\* a job that is parked; whatever is paused, continued, cancelled or restarted.
THEOREM ConversationsKept ==
  ASSUME ~DBMayFail
  PROVE  Spec => TurnStaysTended
  <1>1. VInv /\ TInv' /\ [Next]_vars => [Keeps]_vars
    <2> SUFFICES ASSUME VInv, TInv', Next PROVE Keeps
      OBVIOUS
    <2>1. ASSUME NEW j \in Job, Pause(j) PROVE Keeps
      BY <2>1 DEF Pause, dbVars, laneVars, mapVars, clientVars, Keeps, Forsakes, Tended, Tending,
                  Panicked, OnLane
    <2> QED
      BY <2>1, KeepsWorker, KeepsClient, KeepsProcess DEF Next
  <1>2. VInv => TInv
    BY DEF VInv, PInv
  <1> QED
    BY <1>1, <1>2, TurnInvariant, PTL DEF Spec, TurnStaysTended, Keeps, Forsakes

-----------------------------------------------------------------------------
(* Counting tickets.                                                       *)

One(b) == IF b THEN 1 ELSE 0

\* Two subsets of a finite set that differ in one element at most.
LEMMA CountStep ==
  ASSUME NEW S, IsFiniteSet(S), NEW T \in SUBSET S, NEW U \in SUBSET S, NEW x \in S,
         \A y \in S : y # x => (y \in T <=> y \in U)
  PROVE  /\ Cardinality(T) \in Nat /\ Cardinality(U) \in Nat
         /\ Cardinality(U) + One(x \in T) = Cardinality(T) + One(x \in U)
  <1>1. IsFiniteSet(T) /\ IsFiniteSet(U)
    BY FS_Subset
  <1>2. T \ {x} = U \ {x}
    OBVIOUS
  <1>3. /\ Cardinality(T \ {x}) = IF x \in T THEN Cardinality(T) - 1 ELSE Cardinality(T)
        /\ Cardinality(U \ {x}) = IF x \in U THEN Cardinality(U) - 1 ELSE Cardinality(U)
    BY <1>1, FS_RemoveElement
  <1>4. Cardinality(T) \in Nat /\ Cardinality(U) \in Nat
    BY <1>1, FS_CardinalityType
  <1> QED
    BY <1>2, <1>3, <1>4 DEF One

Places(j)  == {p \in Lane \X (1..LaneCap) : p[2] <= Len(lane[p[1]]) /\ lane[p[1]][p[2]] = j}
Readers(j) == {w \in Worker : wjob[w] = j /\ wpc[w] \in {"read", "lock", "start"}}
Pushers(j) == {c \in Client : cjob[c] = j /\ cpc[c] \in {"push", "resume"}}
Runners(j) == {w \in Worker : wjob[w] = j /\ Executing(w)}
RunsOf(j)  == Cardinality(Runners(j))

LanesBounded == \A l \in Lane : Len(lane[l]) <= LaneCap
RowsExist    == \A j \in 1..(nextId - 1) : row[j].status # "none"

CInv == PInv /\ LanesBounded /\ RowsExist

Finite == IsFiniteSet(Worker) /\ IsFiniteSet(Client)

\* The lanes are finite.
LEMMA PlacesFinite == IsFiniteSet(Lane \X (1..LaneCap))
  <1>1. IsFiniteSet(1..LaneCap)
    BY ManagerAssumption, FS_Interval DEF ManagerAssumption
  <1>2. IsFiniteSet(Lane)
    <2>1. Lane = ({} \cup {"main"}) \cup {"seq"}
      BY DEF Lane
    <2> QED
      BY <2>1, FS_EmptySet, FS_AddElement
  <1> QED
    BY <1>1, <1>2, FS_Product

\* The four places a ticket can be in.
LEMMA TicketSum ==
  ASSUME Finite, NEW j \in Job
  PROVE  /\ TicketsOf(j) = Cardinality(Places(j)) + Cardinality(Readers(j)) + Cardinality(Pushers(j)) + One(j \in dispatch)
         /\ Cardinality(Places(j)) \in Nat /\ Cardinality(Readers(j)) \in Nat
         /\ Cardinality(Pushers(j)) \in Nat /\ RunsOf(j) \in Nat /\ TicketsOf(j) \in Nat
         /\ One(j \in dispatch) \in {0, 1}
  <1>1. /\ Cardinality(Places(j)) \in Nat /\ Cardinality(Readers(j)) \in Nat
        /\ Cardinality(Pushers(j)) \in Nat /\ RunsOf(j) \in Nat
    <2>1. IsFiniteSet(Places(j))
      BY PlacesFinite, FS_Subset DEF Places
    <2>2. IsFiniteSet(Readers(j)) /\ IsFiniteSet(Runners(j))
      BY FS_Subset DEF Readers, Runners, Finite
    <2>3. IsFiniteSet(Pushers(j))
      BY FS_Subset DEF Pushers, Finite
    <2> QED
      BY <2>1, <2>2, <2>3, FS_CardinalityType DEF RunsOf
  <1>2. Cardinality({j} \cap dispatch) = One(j \in dispatch)
    <2>1. CASE j \in dispatch
      <3>1. {j} \cap dispatch = {j}
        BY <2>1
      <3> QED
        BY <2>1, <3>1, FS_Singleton DEF One
    <2>2. CASE j \notin dispatch
      <3>1. {j} \cap dispatch = {}
        BY <2>2
      <3> QED
        BY <2>2, <3>1, FS_EmptySet DEF One
    <2> QED
      BY <2>1, <2>2
  <1>3. TicketsOf(j) = Cardinality(Places(j)) + Cardinality(Readers(j)) + Cardinality(Pushers(j)) + Cardinality({j} \cap dispatch)
    BY DEF TicketsOf, Places, Readers, Pushers
  <1>4. One(j \in dispatch) \in {0, 1}
    BY DEF One
  <1> QED
    BY <1>1, <1>2, <1>3, <1>4

\* A worker's step moves one reader, or one run, at most.
LEMMA WorkerCounts ==
  ASSUME Finite, NEW w \in Worker, NEW j \in Job,
         \A v \in Worker : v # w => wpc'[v] = wpc[v] /\ wjob'[v] = wjob[v] /\ wout'[v] = wout[v]
  PROVE  /\ Cardinality(Readers(j))' + One(w \in Readers(j)) = Cardinality(Readers(j)) + One(w \in Readers(j)')
         /\ RunsOf(j)' + One(w \in Runners(j)) = RunsOf(j) + One(w \in Runners(j)')
  <1>1. Readers(j) \in SUBSET Worker /\ Readers(j)' \in SUBSET Worker
    BY DEF Readers
  <1>2. Runners(j) \in SUBSET Worker /\ Runners(j)' \in SUBSET Worker
    BY DEF Runners
  <1>3. \A v \in Worker : v # w => (v \in Readers(j) <=> v \in Readers(j)') /\ (v \in Runners(j) <=> v \in Runners(j)')
    BY DEF Readers, Runners, Executing, Panicked
  <1> QED
    BY <1>1, <1>2, <1>3, CountStep DEF Finite, RunsOf

\* A handler's step moves one pusher at most.
LEMMA ClientCounts ==
  ASSUME Finite, NEW c \in Client, NEW j \in Job,
         \A d \in Client : d # c => cpc'[d] = cpc[d] /\ cjob'[d] = cjob[d]
  PROVE  Cardinality(Pushers(j))' + One(c \in Pushers(j)) = Cardinality(Pushers(j)) + One(c \in Pushers(j)')
  <1>1. Pushers(j) \in SUBSET Client /\ Pushers(j)' \in SUBSET Client
    BY DEF Pushers
  <1>2. \A d \in Client : d # c => (d \in Pushers(j) <=> d \in Pushers(j)')
    BY DEF Pushers
  <1> QED
    BY <1>1, <1>2, CountStep DEF Finite

\* A send adds one place.
LEMMA SendCounts ==
  ASSUME TInv, LanesBounded, NEW l \in Lane, NEW k \in Job, Room(l), Send(l, k)
  PROVE  /\ \A j \in Job : Cardinality(Places(j))' = Cardinality(Places(j)) + One(j = k)
         /\ LanesBounded'
  <1> DEFINE n == Len(lane[l]) + 1
             x == <<l, n>>
  <1>1. /\ lane[l] \in Seq(Job) /\ lane'[l] = Append(lane[l], k)
        /\ \A m \in Lane : m # l => lane'[m] = lane[m]
    BY DEF Send, TInv, TypeOK
  <1>2. LaneCap \in Nat /\ n \in 1..LaneCap /\ n - 1 = Len(lane[l]) /\ Len(lane[l]) \in Nat
    BY <1>1, ManagerAssumption DEF ManagerAssumption, Room
  <1>3. /\ Len(lane'[l]) = n /\ lane'[l][n] = k
        /\ \A i \in 1..Len(lane[l]) : lane'[l][i] = lane[l][i]
    BY <1>1
  <1>4. x \in Lane \X (1..LaneCap)
    BY <1>2
  <1>5. LanesBounded'
    BY <1>1, <1>2, <1>3 DEF LanesBounded
  <1>6. ASSUME NEW j \in Job PROVE Cardinality(Places(j))' = Cardinality(Places(j)) + One(j = k)
    <2>1. Places(j) \in SUBSET (Lane \X (1..LaneCap)) /\ Places(j)' \in SUBSET (Lane \X (1..LaneCap))
      BY DEF Places
    <2>2. \A m \in Lane, i \in 1..LaneCap : <<m, i>> # x => (<<m, i>> \in Places(j) <=> <<m, i>> \in Places(j)')
      <3> SUFFICES ASSUME NEW m \in Lane, NEW i \in 1..LaneCap, <<m, i>> # x
                   PROVE  i <= Len(lane[m]) /\ lane[m][i] = j <=> i <= Len(lane'[m]) /\ lane'[m][i] = j
        BY DEF Places
      <3>1. CASE m # l
        BY <1>1, <3>1
      <3>2. CASE m = l
        <4>1. i # n
          BY <3>2
        <4>2. i <= Len(lane[l]) <=> i <= Len(lane'[l])
          BY <1>2, <1>3, <4>1
        <4>3. i <= Len(lane[l]) => lane'[l][i] = lane[l][i]
          BY <1>2, <1>3
        <4> QED
          BY <3>2, <4>2, <4>3
      <3> QED
        BY <3>1, <3>2
    <2>3. \A y \in Lane \X (1..LaneCap) : y # x => (y \in Places(j) <=> y \in Places(j)')
      BY <2>2
    <2>4. x \notin Places(j) /\ (x \in Places(j)' <=> j = k)
      <3>1. x[1] = l /\ x[2] = n
        OBVIOUS
      <3>2. ~(n <= Len(lane[l]))
        BY <1>2
      <3> HIDE DEF x
      <3> QED
        BY <1>2, <1>3, <1>4, <3>1, <3>2 DEF Places
    <2> HIDE DEF x
    <2>5. /\ Cardinality(Places(j)) \in Nat /\ Cardinality(Places(j))' \in Nat
          /\ Cardinality(Places(j))' + One(x \in Places(j)) = Cardinality(Places(j)) + One(x \in Places(j)')
      BY <1>4, <2>1, <2>3, PlacesFinite, CountStep
    <2> QED
      BY <2>4, <2>5 DEF One
  <1> QED
    BY <1>5, <1>6

\* A receive removes one place, whose id is the one received.
LEMMA DequeueCounts ==
  ASSUME TInv, LanesBounded, NEW w \in Worker, Dequeue(w), NEW j \in Job
  PROVE  /\ Cardinality(Places(j)) = Cardinality(Places(j))' + One(j = wjob'[w])
         /\ LanesBounded'
  <1> DEFINE l == LaneOf[w]
             x == <<l, 1>>
             Q == Places(j) \ {x}
             Moved(p) == IF p[1] = l THEN <<l, p[2] - 1>> ELSE p
             f == [p \in Q |-> Moved(p)]
  <1>1. /\ l \in Lane /\ lane[l] \in Seq(Job) /\ lane[l] # << >>
        /\ lane'[l] = Tail(lane[l]) /\ wjob'[w] = Head(lane[l])
        /\ \A m \in Lane : m # l => lane'[m] = lane[m]
    BY ManagerAssumption DEF Dequeue, Step, TInv, TypeOK, ManagerAssumption
  <1> HIDE DEF l
  <1>2. /\ Len(lane[l]) \in Nat /\ Len(lane[l]) > 0 /\ Len(lane'[l]) = Len(lane[l]) - 1
        /\ \A i \in 1..Len(lane'[l]) : lane'[l][i] = lane[l][i + 1]
        /\ Head(lane[l]) = lane[l][1]
    BY <1>1
  <1>3. LaneCap \in Nat /\ 1 <= LaneCap /\ Len(lane[l]) <= LaneCap
    BY <1>1, ManagerAssumption DEF ManagerAssumption, LanesBounded
  <1>4. LanesBounded'
    <2> SUFFICES ASSUME NEW m \in Lane PROVE Len(lane'[m]) <= LaneCap
      BY DEF LanesBounded
    <2>1. CASE m # l
      BY <1>1, <2>1 DEF LanesBounded
    <2>2. CASE m = l
      BY <1>2, <1>3, <2>2
    <2> QED
      BY <2>1, <2>2
  <1>5. \A m \in Lane, i \in 1..LaneCap :
          /\ <<m, i>> \in Places(j) <=> i <= Len(lane[m]) /\ lane[m][i] = j
          /\ <<m, i>> \in Places(j)' <=> i <= Len(lane'[m]) /\ lane'[m][i] = j
    BY DEF Places
  <1>6. /\ \A p \in Places(j) : \E m \in Lane, i \in 1..LaneCap : p = <<m, i>>
        /\ \A p \in Places(j)' : \E m \in Lane, i \in 1..LaneCap : p = <<m, i>>
    BY DEF Places
  <1>7. \A p \in Q : f[p] \in Places(j)'
    <2> SUFFICES ASSUME NEW m \in Lane, NEW i \in 1..LaneCap, <<m, i>> \in Q
                 PROVE  Moved(<<m, i>>) \in Places(j)'
      BY <1>6
    <2>1. i <= Len(lane[m]) /\ lane[m][i] = j /\ <<m, i>> # x
      BY <1>5
    <2>2. CASE m # l
      BY <1>1, <1>5, <2>1, <2>2
    <2>3. CASE m = l
      <3>1. i # 1
        BY <2>1, <2>3
      <3>2. i - 1 \in 1..LaneCap /\ i - 1 \in 1..Len(lane'[l]) /\ (i - 1) + 1 = i
        BY <1>2, <1>3, <2>1, <2>3, <3>1
      <3>3. lane'[l][i - 1] = j
        BY <1>2, <2>1, <2>3, <3>2
      <3>5. i - 1 <= Len(lane'[l])
        BY <3>2
      <3>4. <<l, i - 1>> \in Places(j)'
        BY ONLY <1>1, <1>5, <3>2, <3>3, <3>5
      <3> QED
        BY <2>3, <3>4
    <2> QED
      BY <2>2, <2>3
  <1>8. \A p, r \in Q : f[p] = f[r] => p = r
    <2> SUFFICES ASSUME NEW p \in Q, NEW r \in Q, Moved(p) = Moved(r) PROVE p = r
      OBVIOUS
    <2>1. PICK m \in Lane, i \in 1..LaneCap : p = <<m, i>>
      BY <1>6
    <2>2. PICK k \in Lane, h \in 1..LaneCap : r = <<k, h>>
      BY <1>6
    <2>3. i \in Int /\ h \in Int
      OBVIOUS
    <2>4. Moved(<<m, i>>) = Moved(<<k, h>>) => <<m, i>> = <<k, h>>
      BY <2>3
    <2> HIDE DEF Moved
    <2> QED
      BY <2>1, <2>2, <2>4
  <1>9. \A t \in Places(j)' : \E p \in Q : f[p] = t
    <2> SUFFICES ASSUME NEW t \in Places(j)' PROVE \E p \in Q : Moved(p) = t
      OBVIOUS
    <2>4. PICK m \in Lane, i \in 1..LaneCap : t = <<m, i>>
      BY <1>6
    <2>1. i <= Len(lane'[m]) /\ lane'[m][i] = j
      BY <1>5, <2>4
    <2>2. CASE m # l
      <3>1. <<m, i>> \in Q
        BY <1>1, <1>5, <2>1, <2>2
      <3>2. Moved(<<m, i>>) = <<m, i>>
        BY <2>2
      <3> QED
        BY <2>4, <3>1, <3>2
    <2>3. CASE m = l
      <3>1. i + 1 \in 1..LaneCap /\ i + 1 <= Len(lane[l]) /\ i + 1 # 1 /\ (i + 1) - 1 = i /\ i \in 1..Len(lane'[l])
        BY <1>2, <1>3, <2>1, <2>3
      <3>2. lane[l][i + 1] = j
        BY <1>2, <2>1, <2>3, <3>1
      <3>3. <<l, i + 1>> \in Q
        BY <1>1, <1>5, <3>1, <3>2
      <3>4. Moved(<<l, i + 1>>) = <<l, i>>
        BY <3>1
      <3> QED
        BY <2>3, <2>4, <3>3, <3>4
    <2> QED
      BY <2>2, <2>3
  <1>10. ExistsBijection(Q, Places(j)')
    <2>1. f \in [Q -> Places(j)']
      BY <1>7
    <2> HIDE DEF f
    <2>2. f \in Bijection(Q, Places(j)')
      BY <1>8, <1>9, <2>1 DEF Bijection, Injection, Surjection, IsInjective
    <2> QED
      BY <2>2 DEF ExistsBijection
  <1>11. x \in Places(j) <=> j = wjob'[w]
    BY <1>1, <1>2, <1>3, <1>5
  <1>12. IsFiniteSet(Places(j))
    BY PlacesFinite, FS_Subset DEF Places
  <1>13. /\ IsFiniteSet(Q) /\ Cardinality(Places(j)) \in Nat
         /\ Cardinality(Q) = IF x \in Places(j) THEN Cardinality(Places(j)) - 1 ELSE Cardinality(Places(j))
    BY <1>12, FS_RemoveElement, FS_CardinalityType
  <1>14. Cardinality(Places(j))' = Cardinality(Q)
    <2> HIDE DEF Q
    <2> QED
      BY <1>10, <1>13, FS_Bijection
  <1> QED
    BY <1>4, <1>11, <1>13, <1>14 DEF One

\* What TicketSum says, as one formula.
Summed(j) ==
  /\ TicketsOf(j) = Cardinality(Places(j)) + Cardinality(Readers(j)) + Cardinality(Pushers(j)) + One(j \in dispatch)
  /\ Cardinality(Places(j)) \in Nat /\ Cardinality(Readers(j)) \in Nat
  /\ Cardinality(Pushers(j)) \in Nat /\ RunsOf(j) \in Nat /\ TicketsOf(j) \in Nat
  /\ One(j \in dispatch) \in {0, 1}

\* The same sum after a step.
LEMMA TicketSumNext ==
  ASSUME Finite, NEW j \in Job
  PROVE  /\ TicketsOf(j)' = Cardinality(Places(j))' + Cardinality(Readers(j))' + Cardinality(Pushers(j))' + One(j \in dispatch)'
         /\ Cardinality(Places(j))' \in Nat /\ Cardinality(Readers(j))' \in Nat
         /\ Cardinality(Pushers(j))' \in Nat /\ RunsOf(j)' \in Nat /\ TicketsOf(j)' \in Nat
         /\ One(j \in dispatch)' \in {0, 1}
  <1>1. Summed(j)
    BY TicketSum DEF Summed
  <1>2. Summed(j)'
    BY <1>1, PTL
  <1> QED
    BY <1>2 DEF Summed

\* A worker's step that leaves the lanes alone.
LEMMA WorkerMoves ==
  ASSUME Finite, TInv, NEW w \in Worker, WorkerStep(w), UNCHANGED lane, NEW j \in Job
  PROVE  /\ TicketsOf(j)' + One(w \in Readers(j)) = TicketsOf(j) + One(w \in Readers(j)')
         /\ RunsOf(j)' + One(w \in Runners(j)) = RunsOf(j) + One(w \in Runners(j)')
         /\ TicketsOf(j) \in Nat /\ TicketsOf(j)' \in Nat /\ RunsOf(j) \in Nat /\ RunsOf(j)' \in Nat
  <1>1. /\ \A v \in Worker : v # w => wpc'[v] = wpc[v] /\ wjob'[v] = wjob[v] /\ wout'[v] = wout[v]
        /\ UNCHANGED <<cpc, cjob, dispatch>>
    BY WorkerFrame
  <1>2. /\ Cardinality(Readers(j))' + One(w \in Readers(j)) = Cardinality(Readers(j)) + One(w \in Readers(j)')
        /\ RunsOf(j)' + One(w \in Runners(j)) = RunsOf(j) + One(w \in Runners(j)')
    BY <1>1, WorkerCounts
  <1>3. /\ Cardinality(Places(j))' = Cardinality(Places(j))
        /\ Cardinality(Pushers(j))' = Cardinality(Pushers(j))
        /\ One(j \in dispatch)' = One(j \in dispatch)
    BY <1>1 DEF Places, Pushers, One
  <1>4. One(w \in Readers(j)) \in {0, 1} /\ One(w \in Readers(j)') \in {0, 1}
    BY DEF One
  <1>5. /\ TicketsOf(j) = Cardinality(Places(j)) + Cardinality(Readers(j)) + Cardinality(Pushers(j)) + One(j \in dispatch)
        /\ Cardinality(Places(j)) \in Nat /\ Cardinality(Readers(j)) \in Nat
        /\ Cardinality(Pushers(j)) \in Nat /\ RunsOf(j) \in Nat /\ TicketsOf(j) \in Nat
        /\ One(j \in dispatch) \in {0, 1}
    BY TicketSum
  <1>6. /\ TicketsOf(j)' = Cardinality(Places(j))' + Cardinality(Readers(j))' + Cardinality(Pushers(j))' + One(j \in dispatch)'
        /\ Cardinality(Readers(j))' \in Nat /\ RunsOf(j)' \in Nat /\ TicketsOf(j)' \in Nat
    BY TicketSumNext
  <1> QED
    BY ONLY <1>2, <1>3, <1>4, <1>5, <1>6

\* A handler's step that leaves the lanes alone.
LEMMA ClientMoves ==
  ASSUME Finite, TInv, NEW c \in Client, ClientStep(c), UNCHANGED lane, NEW j \in Job
  PROVE  /\ TicketsOf(j)' + One(c \in Pushers(j)) = TicketsOf(j) + One(c \in Pushers(j)')
         /\ RunsOf(j)' = RunsOf(j)
         /\ TicketsOf(j) \in Nat /\ TicketsOf(j)' \in Nat /\ RunsOf(j) \in Nat
  <1>1. /\ \A d \in Client : d # c => cpc'[d] = cpc[d] /\ cjob'[d] = cjob[d]
        /\ UNCHANGED <<wpc, wjob, wout, dispatch>>
    BY ClientFrame
  <1>2. Cardinality(Pushers(j))' + One(c \in Pushers(j)) = Cardinality(Pushers(j)) + One(c \in Pushers(j)')
    BY <1>1, ClientCounts
  <1>3. /\ Cardinality(Places(j))' = Cardinality(Places(j))
        /\ Cardinality(Readers(j))' = Cardinality(Readers(j))
        /\ RunsOf(j)' = RunsOf(j)
        /\ One(j \in dispatch)' = One(j \in dispatch)
    BY <1>1 DEF Places, Readers, RunsOf, Runners, Executing, Panicked, One
  <1>4. One(c \in Pushers(j)) \in {0, 1} /\ One(c \in Pushers(j)') \in {0, 1}
    BY DEF One
  <1>5. /\ TicketsOf(j) = Cardinality(Places(j)) + Cardinality(Readers(j)) + Cardinality(Pushers(j)) + One(j \in dispatch)
        /\ Cardinality(Places(j)) \in Nat /\ Cardinality(Readers(j)) \in Nat
        /\ Cardinality(Pushers(j)) \in Nat /\ RunsOf(j) \in Nat /\ TicketsOf(j) \in Nat
        /\ One(j \in dispatch) \in {0, 1}
    BY TicketSum
  <1>6. /\ TicketsOf(j)' = Cardinality(Places(j))' + Cardinality(Readers(j))' + Cardinality(Pushers(j))' + One(j \in dispatch)'
        /\ Cardinality(Pushers(j))' \in Nat /\ TicketsOf(j)' \in Nat
    BY TicketSumNext
  <1> QED
    BY ONLY <1>2, <1>3, <1>4, <1>5, <1>6

\* A row that is not there yet has no ticket and no run.
LEMMA NewHasNone ==
  ASSUME Finite, CInv, NEW n \in Job, n = nextId
  PROVE  TicketsOf(n) = 0 /\ RunsOf(n) = 0
  <1>1. n \notin 1..(nextId - 1) /\ n # 0 /\ nextId \in Nat
    BY DEF CInv, PInv, TInv, TypeOK, Job
  <1>2. Places(n) = {}
    <2> SUFFICES ASSUME NEW l \in Lane, NEW i \in 1..LaneCap, i <= Len(lane[l]), lane[l][i] = n PROVE FALSE
      BY DEF Places
    <2>1. i \in 1..Len(lane[l])
      BY DEF CInv, PInv, TInv, TypeOK
    <2> QED
      BY <1>1, <2>1 DEF CInv, PInv, TInv, IdsExist
  <1>3. Readers(n) = {} /\ Runners(n) = {}
    BY <1>1 DEF Readers, Runners, Executing, Panicked, CInv, PInv, TInv, IdsExist, Locals
  <1>4. Pushers(n) = {} /\ n \notin dispatch
    BY <1>1 DEF Pushers, CInv, PInv, TInv, IdsExist
  <1>5. /\ TicketsOf(n) = Cardinality(Places(n)) + Cardinality(Readers(n)) + Cardinality(Pushers(n)) + One(n \in dispatch)
    BY TicketSum
  <1> QED
    BY <1>2, <1>3, <1>4, <1>5, FS_EmptySet DEF One, RunsOf

\* The rows' statuses keep the rows in being, and the lanes their bound.
LEMMA RowsExistStep ==
  ASSUME CInv, [Next]_vars
  PROVE  RowsExist'
  <1>1. \A j \in 1..(nextId - 1) : j \in Job
    BY ManagerAssumption DEF CInv, PInv, TInv, TypeOK, Job, ManagerAssumption
  <1>2. CASE UNCHANGED <<row, nextId>>
    BY <1>2 DEF CInv, RowsExist
  <1>3. ASSUME NEW q, CreateJob(q) PROVE RowsExist'
    <2>1. /\ nextId \in Job /\ nextId' = nextId + 1 /\ nextId \in Nat
          /\ \A j \in Job : row'[j].status = IF j = nextId THEN "queued" ELSE row[j].status
      BY <1>3 DEF CreateJob, NewRow, CInv, PInv, TInv, TypeOK
    <2>2. \A j \in 1..(nextId' - 1) : j = nextId \/ j \in 1..(nextId - 1)
      BY <2>1
    <2> QED
      BY <1>1, <2>1, <2>2 DEF RowsExist, CInv
  <1>4. ASSUME NEW w \in Worker, WorkerStep(w) PROVE RowsExist'
    <2>1. CASE SetRunning(w)
      <3>1. UNCHANGED row \/ SetStatus(wjob[w], "running")
        BY <2>1 DEF SetRunning, Ignored
      <3>2. wjob[w] \in Job
        BY <2>1, WorkersRequest DEF SetRunning, Step, CInv, PInv
      <3>3. \A j \in Job : row'[j].status # row[j].status => row'[j].status = "running"
        BY <3>1, <3>2, UpdateSays DEF CInv, PInv
      <3> QED
        BY <1>1, <2>1, <3>3 DEF SetRunning, RowsExist, CInv
    <2>2. CASE WriteEnd(w)
      <3>1. UNCHANGED row \/ EndUpdate(w)
        BY <2>2 DEF WriteEnd, Ignored
      <3>2. wpc[w] = "write" /\ UNCHANGED nextId
        BY <2>2 DEF WriteEnd, Step
      <3>3. wjob[w] \in Job /\ wout[w] # "none"
        BY <3>2, WorkersRequest DEF CInv, PInv, Locals
      <3>4. \A j \in Job : row'[j].status # row[j].status => row'[j].status \in Terminal \cup {"paused"}
        BY <3>1, <3>3, EndSays DEF CInv, PInv
      <3> QED
        BY <1>1, <3>2, <3>4 DEF RowsExist, CInv, Terminal
    <2>3. CASE SeriesNext(w)
      BY <1>3, <2>3 DEF SeriesNext
    <2> QED
      BY <1>2, <1>4, <2>1, <2>2, <2>3
         DEF WorkerStep, Dequeue, ReadFails, SkipCancelled, GoOn, AcquireLock, Register, Execute, CloseTurn,
             ClosePanicked, SeriesStops, Unregister, Unlock, UnlockPanicked, dbVars
  <1>5. ASSUME NEW c \in Client, ClientStep(c) PROVE RowsExist'
    <2>1. CASE CancelWrite(c)
      <3>1. cjob[c] \in Job /\ UNCHANGED nextId
        BY <2>1, ManagerAssumption DEF CancelWrite, CInv, PInv, TInv, TypeOK, IdsExist, ManagerAssumption, Job
      <3>2. UNCHANGED row \/ \E st \in {"cancelled", "failed"} : FinishJob(cjob[c], st, FALSE)
        BY <2>1 DEF CancelWrite, Ignored
      <3>3. \A j \in Job : row'[j].status # row[j].status => row'[j].status \in {"cancelled", "failed"}
        BY <3>1, <3>2, UpdateSays DEF CInv, PInv
      <3> QED
        BY <1>1, <3>1, <3>3 DEF RowsExist, CInv
    <2> QED
      BY <1>2, <1>3, <1>5, <2>1 DEF ClientStep, EnqueueCreate, EnqueuePush, CancelLookup, ContinuePush, Replay,
         CancelRun, CancelMiss, ContinueRead, dbVars
  <1>6. CASE Boot
    <2>1. \A j \in Job : row[j].status # "none" => row'[j].status # "none"
      BY <1>6 DEF Boot, Ignored, Requeued, CInv, PInv, TInv, TypeOK, Row
    <2> QED
      BY <1>1, <1>6, <2>1 DEF Boot, Booted, RowsExist, CInv
  <1> QED
    BY <1>2, <1>4, <1>5, <1>6 DEF Next, ProcessStep, Pause, Stop, Die, Listen, Redispatch, dbVars, vars

\* No lane outgrows its capacity.
LEMMA LanesStep ==
  ASSUME CInv, [Next]_vars
  PROVE  LanesBounded'
  <1>1. CASE UNCHANGED lane
    BY <1>1 DEF CInv, LanesBounded
  <1>2. ASSUME NEW l \in Lane, NEW k \in Job, Schedule(l, k) PROVE LanesBounded'
    BY <1>1, <1>2, SendCounts DEF Schedule, CInv, PInv
  <1>3. ASSUME NEW w \in Worker, WorkerStep(w) PROVE LanesBounded'
    <2>1. CASE Dequeue(w)
      <3>1. wjob'[w] \in Job
        <4>1. TInv'
          BY <1>3, WorkerTypes DEF CInv, PInv
        <4>2. wpc'[w] = "read"
          BY <2>1 DEF Dequeue, Step, CInv, PInv, TInv, TypeOK
        <4> QED
          BY <4>1, <4>2, ManagerAssumption DEF TInv, TypeOK, IdsExist, ManagerAssumption, Job
      <3> QED
        BY <2>1, <3>1, DequeueCounts DEF CInv, PInv
    <2>2. CASE SeriesNext(w)
      BY <1>2, <2>2 DEF SeriesNext, CreateJob, Lane
    <2> QED
      BY <1>1, <1>3, <2>1, <2>2
         DEF WorkerStep, ReadFails, SkipCancelled, GoOn, AcquireLock, Register, SetRunning, Execute, WriteEnd,
             CloseTurn, ClosePanicked, SeriesStops, Unregister, Unlock, UnlockPanicked, laneVars
  <1>4. ASSUME NEW c \in Client, ClientStep(c) PROVE LanesBounded'
    <2>1. CASE EnqueuePush(c)
      <3>1. cjob[c] \in Job
        BY <2>1, ManagerAssumption DEF EnqueuePush, CInv, PInv, TInv, TypeOK, IdsExist, ManagerAssumption, Job
      <3>2. LaneFor(cjob[c]) \in Lane
        BY <3>1 DEF LaneFor, CInv, PInv, TInv, TypeOK, Row, RequestType
      <3> QED
        BY <1>2, <2>1, <3>1, <3>2 DEF EnqueuePush
    <2>2. CASE ContinuePush(c)
      <3>1. cjob[c] \in Job
        BY <2>2, ManagerAssumption DEF ContinuePush, CInv, PInv, TInv, TypeOK, IdsExist, ManagerAssumption, Job
      <3>2. LaneFor(cjob[c]) \in Lane
        BY <3>1 DEF LaneFor, CInv, PInv, TInv, TypeOK, Row, RequestType
      <3> QED
        BY <1>1, <2>2, <3>1, <3>2, SendCounts DEF ContinuePush, CInv, PInv
    <2> QED
      BY <1>1, <1>4, <2>1, <2>2
         DEF ClientStep, EnqueueCreate, CancelLookup, CancelWrite, Replay, CancelRun, CancelMiss, ContinueRead, laneVars
  <1>5. ASSUME NEW j \in Job, Redispatch(j) PROVE LanesBounded'
    <2>1. LaneFor(j) \in Lane
      BY DEF LaneFor, CInv, PInv, TInv, TypeOK, Row, RequestType
    <2> QED
      BY <1>2, <1>5, <2>1 DEF Redispatch
  <1>6. CASE Die
    BY <1>6, ManagerAssumption DEF Die, LanesBounded, ManagerAssumption
  <1> QED
    BY <1>1, <1>3, <1>4, <1>5, <1>6 DEF Next, ProcessStep, Pause, Stop, Boot, Booted, Listen, vars, laneVars

\* What the counting rests on is kept by every step ...
LEMMA CountStepInv == CInv /\ [Next]_vars => CInv'
  BY LocalsStep, LanesStep, RowsExistStep DEF CInv

\* ... and holds at the start.
LEMMA CountInit == Init => CInv
  <1> SUFFICES ASSUME Init PROVE CInv
    OBVIOUS
  <1>1. PInv
    BY LocalsInit
  <1>2. LanesBounded /\ RowsExist
    BY ManagerAssumption DEF Init, LanesBounded, RowsExist, ManagerAssumption
  <1> QED
    BY <1>1, <1>2 DEF CInv

-----------------------------------------------------------------------------
(* The refinement: what a step does to the statuses, the tickets and the   *)
(* runs is a step of JobTickets, or nothing.                               *)

SameStatuses == \A j \in Job : row'[j].status = row[j].status

\* The refinement mapping counts the same runs.
LEMMA RunsAre == \A j \in Job : RunsOf(j) = Cardinality({w \in Worker : wjob[w] = j /\ Executing(w)})
  BY DEF RunsOf, Runners

\* Counts and statuses untouched: a stutter.
LEMMA ToStutter ==
  ASSUME SameStatuses, \A j \in Job : TicketsOf(j)' = TicketsOf(j) /\ RunsOf(j)' = RunsOf(j)
  PROVE  UNCHANGED Tickets!vars
  BY RunsAre DEF SameStatuses, Tickets!vars, RunsOf, Runners

\* One ticket less and nothing else: Void.
LEMMA ToVoid ==
  ASSUME Finite, NEW k \in Job, SameStatuses,
         \A j \in Job : /\ TicketsOf(j)' = TicketsOf(j) - One(j = k)
                        /\ RunsOf(j)' = RunsOf(j)
  PROVE  Tickets!Void(k)
  <1>1. \A j \in Job : TicketsOf(j) \in Nat /\ TicketsOf(j)' \in Nat
    BY TicketSum, TicketSumNext
  <1>2. TicketsOf(k) > 0 /\ TicketsOf(k)' = TicketsOf(k) - 1
    BY <1>1 DEF One
  <1>3. \A j \in Job : j # k => TicketsOf(j)' = TicketsOf(j)
    BY <1>1 DEF One
  <1> QED
    BY <1>2, <1>3 DEF SameStatuses, Tickets!Void, RunsOf, Runners

\* A new row, with its ticket or without: Submit.
LEMMA ToSubmit ==
  ASSUME Finite, CInv, NEW q \in RequestType, CreateJob(q), NEW k \in Job, k = nextId, NEW n \in 0..1,
         \A j \in Job : /\ TicketsOf(j)' = TicketsOf(j) + (IF j = k THEN n ELSE 0)
                        /\ RunsOf(j)' = RunsOf(j)
  PROVE  Tickets!Submit(k)
  <1>1. \A j \in Job : TicketsOf(j) \in Nat
    BY TicketSum
  <1>2. TicketsOf(k) = 0
    BY NewHasNone
  <1>3. TicketsOf(k)' = n /\ \A j \in Job : j # k => TicketsOf(j)' = TicketsOf(j)
    BY <1>1, <1>2
  <1>4. row[k].status = "none"
    BY DEF CInv, PInv, TInv, TypeOK, IdsExist, Job
  <1>5. \A j \in Job : row'[j].status = IF j = k THEN "queued" ELSE row[j].status
    BY DEF CreateJob, NewRow, CInv, PInv, TInv, TypeOK
  <1>6. [j \in Job |-> TicketsOf(j)'] = [[j \in Job |-> TicketsOf(j)] EXCEPT ![k] = n]
    BY <1>3
  <1> QED
    BY <1>4, <1>5, <1>6 DEF Tickets!Submit, RunsOf, Runners

\* One ticket more for a parked row: Continue.
LEMMA ToContinue ==
  ASSUME NEW k \in Job, SameStatuses, row[k].status = "paused",
         \A j \in Job : /\ TicketsOf(j)' = TicketsOf(j) + One(j = k)
                        /\ RunsOf(j)' = RunsOf(j)
  PROVE  Finite => Tickets!Continue(k)
  <1> SUFFICES ASSUME Finite PROVE Tickets!Continue(k)
    OBVIOUS
  <1>1. \A j \in Job : TicketsOf(j) \in Nat
    BY TicketSum
  <1>2. TicketsOf(k)' = TicketsOf(k) + 1 /\ \A j \in Job : j # k => TicketsOf(j)' = TicketsOf(j)
    BY <1>1 DEF One
  <1> QED
    BY <1>2 DEF SameStatuses, Tickets!Continue, RunsOf, Runners

\* A ticket becomes a run: Start.
LEMMA ToStart ==
  ASSUME Finite, NEW k \in Job,
         SameStatuses \/ (\A j \in Job : row'[j].status = IF j = k THEN "running" ELSE row[j].status),
         \A j \in Job : /\ TicketsOf(j)' = TicketsOf(j) - One(j = k)
                        /\ RunsOf(j)' = RunsOf(j) + One(j = k)
  PROVE  Tickets!Start(k)
  <1>1. \A j \in Job : TicketsOf(j) \in Nat /\ TicketsOf(j)' \in Nat /\ RunsOf(j) \in Nat
    BY TicketSum, TicketSumNext
  <1>2. /\ TicketsOf(k) > 0 /\ TicketsOf(k)' = TicketsOf(k) - 1 /\ RunsOf(k)' = RunsOf(k) + 1
        /\ \A j \in Job : j # k => TicketsOf(j)' = TicketsOf(j) /\ RunsOf(j)' = RunsOf(j)
    BY <1>1 DEF One
  <1>3. \/ [j \in Job |-> row'[j].status] = [j \in Job |-> row[j].status]
        \/ [j \in Job |-> row'[j].status] = [[j \in Job |-> row[j].status] EXCEPT ![k] = "running"]
    BY DEF SameStatuses
  <1>4. /\ [j \in Job |-> TicketsOf(j)'] = [[j \in Job |-> TicketsOf(j)] EXCEPT ![k] = @ - 1]
        /\ [j \in Job |-> RunsOf(j)'] = [[j \in Job |-> RunsOf(j)] EXCEPT ![k] = @ + 1]
    BY <1>2
  <1> QED
    BY <1>2, <1>3, <1>4 DEF Tickets!Start, RunsOf, Runners

\* One run less: End.
LEMMA ToEnd ==
  ASSUME Finite, NEW k \in Job, NEW st \in Terminal \cup {"paused"},
         SameStatuses \/ (\A j \in Job : row'[j].status = IF j = k THEN st ELSE row[j].status),
         \A j \in Job : /\ TicketsOf(j)' = TicketsOf(j)
                        /\ RunsOf(j)' = RunsOf(j) - One(j = k)
  PROVE  Tickets!End(k)
  <1>1. \A j \in Job : RunsOf(j)' \in Nat /\ RunsOf(j) \in Nat
    BY TicketSum, TicketSumNext
  <1>2. /\ RunsOf(k) > 0 /\ RunsOf(k)' = RunsOf(k) - 1
        /\ \A j \in Job : j # k => RunsOf(j)' = RunsOf(j)
    BY <1>1 DEF One
  <1>3. \/ [j \in Job |-> row'[j].status] = [j \in Job |-> row[j].status]
        \/ [j \in Job |-> row'[j].status] = [[j \in Job |-> row[j].status] EXCEPT ![k] = st]
    BY DEF SameStatuses
  <1>4. /\ [j \in Job |-> RunsOf(j)'] = [[j \in Job |-> RunsOf(j)] EXCEPT ![k] = @ - 1]
        /\ [j \in Job |-> TicketsOf(j)'] = [j \in Job |-> TicketsOf(j)]
    BY <1>2
  <1>5. st \in Tickets!Terminal \cup {"paused"}
    BY DEF Terminal, Tickets!Terminal
  <1> QED
    BY <1>2, <1>3, <1>4, <1>5 DEF Tickets!End, RunsOf, Runners

\* A status overwritten and nothing else: Cancel.
LEMMA ToCancel ==
  ASSUME NEW k \in Job, row[k].status # "none", NEW st \in {"cancelled", "failed"},
         \A j \in Job : row'[j].status = IF j = k THEN st ELSE row[j].status,
         \A j \in Job : TicketsOf(j)' = TicketsOf(j) /\ RunsOf(j)' = RunsOf(j)
  PROVE  Tickets!Cancel(k)
  <1>1. [j \in Job |-> row'[j].status] = [[j \in Job |-> row[j].status] EXCEPT ![k] = st]
    OBVIOUS
  <1>2. /\ [j \in Job |-> RunsOf(j)'] = [j \in Job |-> RunsOf(j)]
        /\ [j \in Job |-> TicketsOf(j)'] = [j \in Job |-> TicketsOf(j)]
    OBVIOUS
  <1> QED
    BY <1>1, <1>2 DEF Tickets!Cancel, RunsOf, Runners

\* A dead process has no ticket and no run.
LEMMA QuietCounts ==
  ASSUME Finite, \A l \in Lane : lane[l] = << >>, dispatch = {}, NEW j \in Job,
         \A w \in Worker : wpc[w] = "idle" /\ wjob[w] = 0,
         \A c \in Client : cpc[c] = "idle" /\ cjob[c] = 0
  PROVE  TicketsOf(j) = 0 /\ RunsOf(j) = 0
  <1>1. Places(j) = {}
    BY DEF Places
  <1>2. j # 0
    BY DEF Job
  <1>3. Readers(j) = {} /\ Runners(j) = {} /\ Pushers(j) = {}
    BY <1>2 DEF Readers, Runners, Pushers
  <1>4. TicketsOf(j) = Cardinality(Places(j)) + Cardinality(Readers(j)) + Cardinality(Pushers(j)) + One(j \in dispatch)
    BY TicketSum
  <1> QED
    BY <1>1, <1>3, <1>4, FS_EmptySet DEF One, RunsOf

\* ... nor does the one that has just died.
LEMMA QuietCountsNext ==
  ASSUME Finite, \A l \in Lane : lane'[l] = << >>, dispatch' = {}, NEW j \in Job,
         \A w \in Worker : wpc'[w] = "idle" /\ wjob'[w] = 0,
         \A c \in Client : cpc'[c] = "idle" /\ cjob'[c] = 0
  PROVE  TicketsOf(j)' = 0 /\ RunsOf(j)' = 0
  <1>1. Places(j)' = {}
    BY DEF Places
  <1>2. j # 0
    BY DEF Job
  <1>3. Readers(j)' = {} /\ Runners(j)' = {} /\ Pushers(j)' = {}
    BY <1>2 DEF Readers, Runners, Pushers
  <1>4. TicketsOf(j)' = Cardinality(Places(j))' + Cardinality(Readers(j))' + Cardinality(Pushers(j))' + One(j \in dispatch)'
    BY TicketSumNext
  <1> QED
    BY <1>1, <1>3, <1>4, FS_EmptySet DEF One, RunsOf

\* A death takes every ticket and every run: Crash.
LEMMA ToCrash ==
  ASSUME Finite, Die
  PROVE  Tickets!Crash
  <1>1. \A j \in Job : TicketsOf(j)' = 0 /\ RunsOf(j)' = 0
    BY QuietCountsNext DEF Die
  <1>2. /\ [j \in Job |-> RunsOf(j)'] = [j \in Job |-> 0]
        /\ [j \in Job |-> TicketsOf(j)'] = [j \in Job |-> 0]
    BY <1>1
  <1> QED
    BY <1>2 DEF Die, dbVars, Tickets!Crash, RunsOf, Runners

\* A boot issues its tickets: Boot.
LEMMA ToBoot ==
  ASSUME Finite, CInv, Boot
  PROVE  Tickets!Boot
  <1>1. /\ up = "down" /\ UNCHANGED <<lane, wpc, wjob, wout, cpc, cjob>>
        /\ \/ row' = [j \in Job |-> Requeued(row[j])]
           \/ row' = row
        /\ dispatch' = {j \in Job : row'[j].status = "queued"} \/ dispatch' = {}
    BY DEF Boot, Booted, Ignored, workerVars, clientVars
  <1>2. \A j \in Job : TicketsOf(j) = 0 /\ RunsOf(j) = 0
    BY <1>1, QuietCounts DEF CInv, PInv, DownIsEmpty
  <1>3. \A j \in Job : RunsOf(j)' = RunsOf(j)
    BY <1>1 DEF RunsOf, Runners, Executing, Panicked
  <1>4. \A j \in Job : TicketsOf(j)' = One(j \in dispatch')
    <2> SUFFICES ASSUME NEW j \in Job PROVE TicketsOf(j)' = One(j \in dispatch')
      OBVIOUS
    <2>1. Places(j)' = {}
      BY <1>1 DEF Places, CInv, PInv, DownIsEmpty
    <2>2. j # 0
      BY DEF Job
    <2>3. Readers(j)' = {} /\ Pushers(j)' = {}
      BY <1>1, <2>2 DEF Readers, Pushers, CInv, PInv, DownIsEmpty
    <2>4. TicketsOf(j)' = Cardinality(Places(j))' + Cardinality(Readers(j))' + Cardinality(Pushers(j))' + One(j \in dispatch)'
      BY TicketSumNext
    <2> QED
      BY <2>1, <2>3, <2>4, FS_EmptySet DEF One
  <1>5. PICK n \in 0..1 : \A j \in Job : TicketsOf(j)' = IF row'[j].status = "queued" THEN n ELSE 0
    <2>1. CASE dispatch' = {}
      <3>1. \A j \in Job : TicketsOf(j)' = 0
        BY <1>4, <2>1 DEF One
      <3> QED
        BY <3>1
    <2>2. CASE dispatch' = {j \in Job : row'[j].status = "queued"}
      <3>1. \A j \in Job : TicketsOf(j)' = IF row'[j].status = "queued" THEN 1 ELSE 0
        BY <1>4, <2>2 DEF One
      <3> QED
        BY <3>1
    <2> QED
      BY <1>1, <2>1, <2>2
  <1>6. \A j \in Job : /\ row[j].status = "running" => row'[j].status \in {"queued", "failed", "running"}
                       /\ row[j].status # "running" => row'[j].status = row[j].status
    <2> SUFFICES ASSUME NEW j \in Job
                 PROVE  /\ row[j].status = "running" => row'[j].status \in {"queued", "failed", "running"}
                        /\ row[j].status # "running" => row'[j].status = row[j].status
      OBVIOUS
    <2>1. row[j] \in Row
      BY DEF CInv, PInv, TInv, TypeOK
    <2>2. row'[j] = row[j] \/ row'[j] = Requeued(row[j])
      BY <1>1
    <2>3. CASE row'[j] = Requeued(row[j])
      BY <2>1, <2>3 DEF Requeued, Row
    <2> QED
      BY <2>2, <2>3
  <1> DEFINE fate == [j \in Job |-> IF row[j].status = "running" THEN row'[j].status ELSE "queued"]
  <1>7. fate \in [Job -> {"queued", "failed", "running"}]
    BY <1>6
  <1>8. [j \in Job |-> row'[j].status]
          = [j \in Job |-> IF [i \in Job |-> row[i].status][j] = "running" THEN fate[j] ELSE [i \in Job |-> row[i].status][j]]
    BY <1>6
  <1> HIDE DEF fate
  <1>9. /\ [j \in Job |-> RunsOf(j)'] = [j \in Job |-> RunsOf(j)]
        /\ [j \in Job |-> TicketsOf(j)']
             = [j \in Job |-> IF [i \in Job |-> row'[i].status][j] = "queued" THEN n ELSE 0]
    BY <1>3, <1>5
  <1> QED
    BY <1>2, <1>7, <1>8, <1>9 DEF Tickets!Boot, RunsOf, Runners

\* A send that may find the lane full.
Offer(l, k) == IF Room(l) THEN Send(l, k) ELSE UNCHANGED lane

\* It adds one place, or none.
LEMMA OfferCounts ==
  ASSUME CInv, NEW l \in Lane, NEW k \in Job, Offer(l, k)
  PROVE  \/ \A j \in Job : Cardinality(Places(j))' = Cardinality(Places(j)) + One(j = k)
         \/ \A j \in Job : Cardinality(Places(j))' = Cardinality(Places(j))
  <1>1. CASE Room(l)
    BY <1>1, SendCounts DEF Offer, CInv, PInv
  <1>2. CASE ~Room(l)
    BY <1>2 DEF Offer, Places
  <1> QED
    BY <1>1, <1>2

\* An id pushed on a lane, or given up, was a ticket in the pusher's hands.
LEMMA PushMoves ==
  ASSUME Finite, CInv, NEW l \in Lane, NEW k \in Job, Offer(l, k), SameStatuses,
         \A j \in Job : /\ RunsOf(j)' = RunsOf(j)
                        /\ Cardinality(Readers(j))' = Cardinality(Readers(j))
                        /\ Cardinality(Pushers(j))' + One(j \in dispatch)' + One(j = k)
                             = Cardinality(Pushers(j)) + One(j \in dispatch)
  PROVE  Tickets!Void(k) \/ UNCHANGED Tickets!vars
  <1>1. \A j \in Job : One(j = k) \in {0, 1}
    BY DEF One
  <1>2. CASE \A j \in Job : Cardinality(Places(j))' = Cardinality(Places(j)) + One(j = k)
    <2>1. ASSUME NEW j \in Job PROVE TicketsOf(j)' = TicketsOf(j)
      <3>3. /\ Cardinality(Readers(j))' = Cardinality(Readers(j))
            /\ Cardinality(Pushers(j))' + One(j \in dispatch)' + One(j = k) = Cardinality(Pushers(j)) + One(j \in dispatch)
            /\ Cardinality(Places(j))' = Cardinality(Places(j)) + One(j = k)
            /\ One(j = k) \in {0, 1}
        BY <1>1, <1>2
      <3>1. /\ TicketsOf(j) = Cardinality(Places(j)) + Cardinality(Readers(j)) + Cardinality(Pushers(j)) + One(j \in dispatch)
            /\ Cardinality(Places(j)) \in Nat /\ Cardinality(Readers(j)) \in Nat
            /\ Cardinality(Pushers(j)) \in Nat /\ One(j \in dispatch) \in {0, 1}
        BY TicketSum
      <3>2. /\ TicketsOf(j)' = Cardinality(Places(j))' + Cardinality(Readers(j))' + Cardinality(Pushers(j))' + One(j \in dispatch)'
            /\ Cardinality(Pushers(j))' \in Nat /\ One(j \in dispatch)' \in {0, 1}
        BY TicketSumNext
      <3> QED
        BY ONLY <3>3, <3>1, <3>2
    <2> QED
      BY <2>1, ToStutter
  <1>3. CASE \A j \in Job : Cardinality(Places(j))' = Cardinality(Places(j))
    <2>1. ASSUME NEW j \in Job PROVE TicketsOf(j)' = TicketsOf(j) - One(j = k)
      <3>3. /\ Cardinality(Readers(j))' = Cardinality(Readers(j))
            /\ Cardinality(Pushers(j))' + One(j \in dispatch)' + One(j = k) = Cardinality(Pushers(j)) + One(j \in dispatch)
            /\ Cardinality(Places(j))' = Cardinality(Places(j)) 
            /\ One(j = k) \in {0, 1}
        BY <1>1, <1>3
      <3>1. /\ TicketsOf(j) = Cardinality(Places(j)) + Cardinality(Readers(j)) + Cardinality(Pushers(j)) + One(j \in dispatch)
            /\ Cardinality(Places(j)) \in Nat /\ Cardinality(Readers(j)) \in Nat
            /\ Cardinality(Pushers(j)) \in Nat /\ One(j \in dispatch) \in {0, 1}
        BY TicketSum
      <3>2. /\ TicketsOf(j)' = Cardinality(Places(j))' + Cardinality(Readers(j))' + Cardinality(Pushers(j))' + One(j \in dispatch)'
            /\ Cardinality(Pushers(j))' \in Nat /\ One(j \in dispatch)' \in {0, 1}
        BY TicketSumNext
      <3> QED
        BY ONLY <3>3, <3>1, <3>2
    <2> QED
      BY <2>1, ToVoid
  <1> QED
    BY <1>2, <1>3, OfferCounts

\* The next attempt of a series is a submission.
LEMMA SeriesTickets ==
  ASSUME Finite, CInv, NEW w \in Worker, SeriesNext(w)
  PROVE  \E k \in Job : k = nextId /\ Tickets!Submit(k)
  <1>f. /\ \A v \in Worker : v # w => wpc'[v] = wpc[v] /\ wjob'[v] = wjob[v] /\ wout'[v] = wout[v]
       /\ UNCHANGED <<cpc, cjob, dispatch>>
    BY WorkerFrame DEF CInv, PInv, WorkerStep
  <1>t. /\ wpc \in [Worker -> WorkerPC] /\ wjob \in [Worker -> Job \cup {0}] /\ wout \in [Worker -> Outcome]
       /\ row \in [Job -> Row]
    BY DEF CInv, PInv, TInv, TypeOK
  <1> DEFINE q == [row[wjob[w]].req EXCEPT !.refine = FALSE, !.lane = "main", !.sup = TRUE]
  <1>1. /\ wpc[w] = "series" /\ wpc'[w] = "unregister" /\ UNCHANGED <<wjob, wout>> /\ wout[w] = "succeeded"
        /\ CreateJob(q) /\ Schedule("main", nextId)
    BY <1>t DEF SeriesNext, Step, CInv, PInv, Locals
  <1>2. row[wjob[w]].req \in RequestType
    BY <1>1, WorkersRequest DEF CInv, PInv
  <1>3. q \in RequestType
    BY <1>2 DEF RequestType, Lane
  <1> HIDE DEF q
  <1>4. PICK n \in Job : n = nextId
    BY <1>1 DEF CreateJob
  <1>5. Offer("main", n)
    BY <1>1, <1>4 DEF Schedule, Offer
  <1>6. \/ \A j \in Job : Cardinality(Places(j))' = Cardinality(Places(j)) + One(j = n)
        \/ \A j \in Job : Cardinality(Places(j))' = Cardinality(Places(j))
    BY <1>5, OfferCounts DEF Lane
  <1>7. PICK m \in 0..1 : \A j \in Job : Cardinality(Places(j))' = Cardinality(Places(j)) + (IF j = n THEN m ELSE 0)
    <2>1. \A j \in Job : Cardinality(Places(j)) \in Nat
      BY TicketSum
    <2>2. CASE \A j \in Job : Cardinality(Places(j))' = Cardinality(Places(j)) + One(j = n)
      BY <2>2 DEF One
    <2>3. CASE \A j \in Job : Cardinality(Places(j))' = Cardinality(Places(j))
      <3>1. \A j \in Job : Cardinality(Places(j))' = Cardinality(Places(j)) + (IF j = n THEN 0 ELSE 0)
        BY <2>1, <2>3
      <3> QED
        BY <3>1
    <2> QED
      BY <1>6, <2>2, <2>3
  <1>8. ASSUME NEW j \in Job
        PROVE  TicketsOf(j)' = TicketsOf(j) + (IF j = n THEN m ELSE 0) /\ RunsOf(j)' = RunsOf(j)
    <2>1. /\ Cardinality(Readers(j))' + One(w \in Readers(j)) = Cardinality(Readers(j)) + One(w \in Readers(j)')
          /\ RunsOf(j)' + One(w \in Runners(j)) = RunsOf(j) + One(w \in Runners(j)')
      BY <1>f, WorkerCounts
    <2>2. One(w \in Readers(j)) = 0 /\ One(w \in Readers(j)') = 0
      BY <1>1 DEF Readers, One
    <2>3. One(w \in Runners(j)) = 0 /\ One(w \in Runners(j)') = 0
      BY <1>1 DEF Runners, Executing, Panicked, One
    <2>5. Cardinality(Pushers(j))' = Cardinality(Pushers(j)) /\ One(j \in dispatch)' = One(j \in dispatch)
      BY <1>f DEF Pushers, One
    <2>6. /\ TicketsOf(j) = Cardinality(Places(j)) + Cardinality(Readers(j)) + Cardinality(Pushers(j)) + One(j \in dispatch)
          /\ Cardinality(Places(j)) \in Nat /\ Cardinality(Readers(j)) \in Nat
          /\ Cardinality(Pushers(j)) \in Nat /\ One(j \in dispatch) \in {0, 1} /\ RunsOf(j) \in Nat
      BY TicketSum
    <2>7. /\ TicketsOf(j)' = Cardinality(Places(j))' + Cardinality(Readers(j))' + Cardinality(Pushers(j))' + One(j \in dispatch)'
          /\ Cardinality(Readers(j))' \in Nat /\ Cardinality(Places(j))' \in Nat /\ RunsOf(j)' \in Nat
      BY TicketSumNext
    <2>8. (IF j = n THEN m ELSE 0) \in 0..1
      OBVIOUS
    <2>9. Cardinality(Places(j))' = Cardinality(Places(j)) + (IF j = n THEN m ELSE 0)
      BY <1>7
    <2> QED
      BY ONLY <2>1, <2>2, <2>3, <2>5, <2>6, <2>7, <2>8, <2>9
  <1>9. Tickets!Submit(n)
    BY <1>1, <1>3, <1>4, <1>8, ToSubmit
  <1> QED
    BY <1>4, <1>9

\* A worker's step, in the words of JobTickets.
WorkerPays(w) ==
  \E k \in Job :
    \/ Tickets!Void(k) \/ Tickets!Start(k) \/ Tickets!End(k)
    \/ SeriesNext(w) /\ k = nextId /\ Tickets!Submit(k)

\* Every step of a worker pays so, or touches nothing that is counted.
LEMMA WorkerTickets ==
  ASSUME Finite, CInv, NEW w \in Worker, WorkerStep(w)
  PROVE  WorkerPays(w) \/ UNCHANGED Tickets!vars
  <1> DEFINE h == wjob[w]
  <1>1. /\ \A v \in Worker : v # w => wpc'[v] = wpc[v] /\ wjob'[v] = wjob[v] /\ wout'[v] = wout[v]
        /\ UNCHANGED <<cpc, cjob, dispatch>>
    BY WorkerFrame DEF CInv, PInv
  <1>2. wpc[w] # "idle" => h \in Job
    BY WorkersRequest DEF CInv, PInv
  <1>3. /\ wpc \in [Worker -> WorkerPC] /\ wjob \in [Worker -> Job \cup {0}] /\ wout \in [Worker -> Outcome]
        /\ row \in [Job -> Row]
    BY DEF CInv, PInv, TInv, TypeOK
  <1>4. 0 \notin Job
    BY DEF Job
  <1>5. UNCHANGED lane => \A j \in Job :
          /\ TicketsOf(j)' + One(w \in Readers(j)) = TicketsOf(j) + One(w \in Readers(j)')
          /\ RunsOf(j)' + One(w \in Runners(j)) = RunsOf(j) + One(w \in Runners(j)')
          /\ TicketsOf(j) \in Nat /\ TicketsOf(j)' \in Nat /\ RunsOf(j) \in Nat /\ RunsOf(j)' \in Nat
    BY WorkerMoves DEF CInv, PInv
  <1>6. CASE Dequeue(w)
    <2>1. /\ wpc[w] = "idle" /\ wpc'[w] = "read" /\ wout[w] = "none" /\ wout'[w] = "none" /\ wjob[w] = 0
          /\ SameStatuses
      BY <1>3, <1>6 DEF Dequeue, Step, CInv, PInv, Locals, SameStatuses, dbVars
    <2>2. ASSUME NEW j \in Job PROVE TicketsOf(j)' = TicketsOf(j) /\ RunsOf(j)' = RunsOf(j)
      <3>1. /\ Cardinality(Readers(j))' + One(w \in Readers(j)) = Cardinality(Readers(j)) + One(w \in Readers(j)')
            /\ RunsOf(j)' + One(w \in Runners(j)) = RunsOf(j) + One(w \in Runners(j)')
        BY <1>1, WorkerCounts
      <3>2. One(w \in Readers(j)) = 0 /\ One(w \in Readers(j)') = One(j = wjob'[w])
        BY <2>1 DEF Readers, One
      <3>3. One(w \in Runners(j)) = 0 /\ One(w \in Runners(j)') = 0
        BY <2>1 DEF Runners, Executing, Panicked, One
      <3>4. Cardinality(Places(j)) = Cardinality(Places(j))' + One(j = wjob'[w])
        BY <1>6, DequeueCounts DEF CInv, PInv
      <3>5. Cardinality(Pushers(j))' = Cardinality(Pushers(j)) /\ One(j \in dispatch)' = One(j \in dispatch)
        BY <1>1 DEF Pushers, One
      <3>6. /\ TicketsOf(j) = Cardinality(Places(j)) + Cardinality(Readers(j)) + Cardinality(Pushers(j)) + One(j \in dispatch)
            /\ Cardinality(Places(j)) \in Nat /\ Cardinality(Readers(j)) \in Nat
            /\ Cardinality(Pushers(j)) \in Nat /\ One(j \in dispatch) \in {0, 1} /\ RunsOf(j) \in Nat
        BY TicketSum
      <3>7. /\ TicketsOf(j)' = Cardinality(Places(j))' + Cardinality(Readers(j))' + Cardinality(Pushers(j))' + One(j \in dispatch)'
            /\ Cardinality(Readers(j))' \in Nat /\ Cardinality(Places(j))' \in Nat /\ RunsOf(j)' \in Nat
        BY TicketSumNext
      <3>8. One(j = wjob'[w]) \in {0, 1}
        BY DEF One
      <3> QED
        BY ONLY <3>1, <3>2, <3>3, <3>4, <3>5, <3>6, <3>7, <3>8
    <2> QED
      BY <2>1, <2>2, ToStutter
  <1>7. CASE ReadFails(w) \/ SkipCancelled(w)
    <2>1. /\ UNCHANGED <<lane, row>> /\ wpc[w] = "read" /\ wpc'[w] = "idle" /\ wout[w] = "none" /\ wout'[w] = "none"
          /\ SameStatuses
      BY <1>3, <1>7 DEF ReadFails, SkipCancelled, Return, CInv, PInv, Locals, SameStatuses, dbVars, laneVars
    <2>2. ASSUME NEW j \in Job PROVE TicketsOf(j)' = TicketsOf(j) - One(j = h) /\ RunsOf(j)' = RunsOf(j)
      <3>1. One(w \in Readers(j)) = One(j = h) /\ One(w \in Readers(j)') = 0 /\ One(j = h) \in {0, 1}
        BY <2>1 DEF Readers, One
      <3>2. One(w \in Runners(j)) = 0 /\ One(w \in Runners(j)') = 0
        BY <2>1 DEF Runners, Executing, Panicked, One
      <3> HIDE DEF h
      <3> QED
        BY <1>5, <2>1, <3>1, <3>2
    <2> QED
      BY <1>2, <2>1, <2>2, ToVoid DEF WorkerPays
  <1>8. CASE GoOn(w) \/ AcquireLock(w) \/ Execute(w) \/ CloseTurn(w) \/ ClosePanicked(w) \/ SeriesStops(w)
             \/ Unregister(w) \/ Unlock(w) \/ UnlockPanicked(w)
    <2>1. UNCHANGED <<lane, row>>
      BY <1>8 DEF GoOn, AcquireLock, Register, Execute, CloseTurn, ClosePanicked, SeriesStops, Unregister, Unlock,
                  UnlockPanicked, dbVars, laneVars
    <2>2. ASSUME NEW j \in Job PROVE (w \in Readers(j) <=> w \in Readers(j)') /\ (w \in Runners(j) <=> w \in Runners(j)')
      <3> USE <1>3, <1>4 DEF Readers, Runners, Executing, Panicked, CInv, PInv, Locals
      <3>1. CASE GoOn(w) \/ AcquireLock(w)
        BY <3>1 DEF GoOn, AcquireLock, Register, Step
      <3>2. CASE Execute(w)
        <4>1. /\ wpc[w] = "exec" /\ UNCHANGED wjob
              /\ wpc'[w] \in {"unregister", "write"} /\ (wpc'[w] = "unregister" => wout'[w] = "panic")
          BY <3>2 DEF Execute, Step, Verdict
        <4> QED
          BY <4>1
      <3>3. CASE CloseTurn(w) \/ SeriesStops(w) \/ Unregister(w)
        BY <3>3 DEF CloseTurn, SeriesStops, Unregister, Step
      <3>4. CASE ClosePanicked(w) \/ Unlock(w)
        BY <3>4 DEF ClosePanicked, Unlock, Return
      <3>5. CASE UnlockPanicked(w)
        BY <3>5 DEF UnlockPanicked, Step
      <3> QED
        BY <1>8, <3>1, <3>2, <3>3, <3>4, <3>5
    <2>3. ASSUME NEW j \in Job PROVE TicketsOf(j)' = TicketsOf(j) /\ RunsOf(j)' = RunsOf(j)
      <3>1. /\ One(w \in Readers(j)) = One(w \in Readers(j)') /\ One(w \in Readers(j)) \in {0, 1}
            /\ One(w \in Runners(j)) = One(w \in Runners(j)') /\ One(w \in Runners(j)) \in {0, 1}
        BY <2>2 DEF One
      <3> QED
        BY <1>5, <2>1, <3>1
    <2> QED
      BY <2>1, <2>3, ToStutter DEF SameStatuses
  <1>9. CASE SetRunning(w)
    <2>1. /\ wpc[w] = "start" /\ wpc'[w] = "exec" /\ UNCHANGED <<lane, wjob>> /\ wout[w] = "none" /\ wout'[w] = "none"
      BY <1>3, <1>9 DEF SetRunning, Step, CInv, PInv, Locals, laneVars
    <2>2. UNCHANGED row \/ SetStatus(h, "running")
      BY <1>9 DEF SetRunning, Ignored
    <2>3. SameStatuses \/ (\A j \in Job : row'[j].status = IF j = h THEN "running" ELSE row[j].status)
      BY <1>2, <2>1, <2>2, UpdateSays DEF SameStatuses, CInv, PInv
    <2>4. ASSUME NEW j \in Job PROVE TicketsOf(j)' = TicketsOf(j) - One(j = h) /\ RunsOf(j)' = RunsOf(j) + One(j = h)
      <3>1. One(w \in Readers(j)) = One(j = h) /\ One(w \in Readers(j)') = 0 /\ One(j = h) \in {0, 1}
        BY <2>1 DEF Readers, One
      <3>2. One(w \in Runners(j)) = 0 /\ One(w \in Runners(j)') = One(j = h)
        BY <2>1 DEF Runners, Executing, Panicked, One
      <3> HIDE DEF h
      <3> QED
        BY <1>5, <2>1, <3>1, <3>2
    <2> QED
      BY <1>2, <2>1, <2>3, <2>4, ToStart DEF WorkerPays
  <1>10. CASE WriteEnd(w)
    <2>1. /\ wpc[w] = "write" /\ wpc'[w] \in {"unregister", "close"} /\ (wpc'[w] = "unregister" => wout[w] = "paused")
          /\ UNCHANGED <<lane, wjob, wout>> /\ wout[w] # "none"
      BY <1>3, <1>10 DEF WriteEnd, Step, CInv, PInv, Locals, laneVars
    <2>2. UNCHANGED row \/ EndUpdate(w)
      BY <1>10 DEF WriteEnd, Ignored
    <2>3. \E st \in Terminal \cup {"paused"} :
            SameStatuses \/ (\A j \in Job : row'[j].status = IF j = h THEN st ELSE row[j].status)
      <3>1. CASE UNCHANGED row
        BY <3>1 DEF SameStatuses
      <3>2. CASE EndUpdate(w)
        <4>1. /\ \A j \in Job \ {h} : row'[j] = row[j]
              /\ row'[h].status \in (IF wout[w] = "paused" THEN {"paused"} ELSE Terminal)
          BY <1>2, <2>1, <3>2, EndSays DEF CInv, PInv
        <4> QED
          BY <4>1
      <3> QED
        BY <2>2, <3>1, <3>2
    <2>4. ASSUME NEW j \in Job PROVE TicketsOf(j)' = TicketsOf(j) /\ RunsOf(j)' = RunsOf(j) - One(j = h)
      <3>1. One(w \in Readers(j)) = 0 /\ One(w \in Readers(j)') = 0 /\ One(j = h) \in {0, 1}
        BY <2>1 DEF Readers, One
      <3>2. One(w \in Runners(j)) = One(j = h) /\ One(w \in Runners(j)') = 0
        BY <2>1 DEF Runners, Executing, Panicked, One
      <3> HIDE DEF h
      <3> QED
        BY <1>5, <2>1, <3>1, <3>2
    <2> QED
      BY <1>2, <2>1, <2>3, <2>4, ToEnd DEF WorkerPays
  <1>11. CASE SeriesNext(w)
    BY <1>11, SeriesTickets DEF WorkerPays
  <1> QED
    BY <1>6, <1>7, <1>8, <1>9, <1>10, <1>11 DEF WorkerStep

\* A submission.
LEMMA EnqueueTickets ==
  ASSUME Finite, CInv, NEW c \in Client, NEW q \in RequestType, EnqueueCreate(c, q)
  PROVE  \E k \in Job : k = nextId /\ Tickets!Submit(k)
  <1>1. /\ \A d \in Client : d # c => cpc'[d] = cpc[d] /\ cjob'[d] = cjob[d]
        /\ UNCHANGED <<lane, dispatch, wpc, wjob, wout>> /\ CreateJob(q)
        /\ cpc[c] = "idle" /\ cpc'[c] = "push" /\ cjob'[c] = nextId
    BY DEF EnqueueCreate, laneVars, workerVars, CInv, PInv, TInv, TypeOK
  <1>2. PICK n \in Job : n = nextId
    BY <1>1 DEF CreateJob
  <1>3. ASSUME NEW j \in Job PROVE TicketsOf(j)' = TicketsOf(j) + (IF j = n THEN 1 ELSE 0) /\ RunsOf(j)' = RunsOf(j)
    <2>1. Cardinality(Pushers(j))' + One(c \in Pushers(j)) = Cardinality(Pushers(j)) + One(c \in Pushers(j)')
      BY <1>1, ClientCounts
    <2>2. One(c \in Pushers(j)) = 0 /\ One(c \in Pushers(j)') = (IF j = n THEN 1 ELSE 0)
      BY <1>1, <1>2 DEF Pushers, One
    <2>3. /\ Cardinality(Places(j))' = Cardinality(Places(j)) /\ RunsOf(j)' = RunsOf(j)
          /\ Cardinality(Readers(j))' = Cardinality(Readers(j)) /\ One(j \in dispatch)' = One(j \in dispatch)
      BY <1>1 DEF Places, RunsOf, Runners, Readers, Executing, Panicked, One
    <2>4. /\ TicketsOf(j) = Cardinality(Places(j)) + Cardinality(Readers(j)) + Cardinality(Pushers(j)) + One(j \in dispatch)
          /\ Cardinality(Places(j)) \in Nat /\ Cardinality(Readers(j)) \in Nat
          /\ Cardinality(Pushers(j)) \in Nat /\ One(j \in dispatch) \in {0, 1}
      BY TicketSum
    <2>5. /\ TicketsOf(j)' = Cardinality(Places(j))' + Cardinality(Readers(j))' + Cardinality(Pushers(j))' + One(j \in dispatch)'
          /\ Cardinality(Pushers(j))' \in Nat
      BY TicketSumNext
    <2>6. (IF j = n THEN 1 ELSE 0) \in Nat
      OBVIOUS
    <2> QED
      BY ONLY <2>1, <2>2, <2>3, <2>4, <2>5, <2>6
  <1>4. Tickets!Submit(n)
    BY <1>1, <1>2, <1>3, ToSubmit
  <1> QED
    BY <1>2, <1>4

\* A handler's step, in the words of JobTickets.
ClientPays(c) ==
  \E k \in Job :
    \/ Tickets!Void(k) \/ Tickets!Cancel(k)
    \/ k = nextId /\ (\E q \in RequestType : EnqueueCreate(c, q)) /\ Tickets!Submit(k)
    \/ ContinueRead(c, k) /\ Tickets!Continue(k)

\* Every step of a handler pays so, or touches nothing that is counted.
LEMMA ClientTickets ==
  ASSUME Finite, CInv, NEW c \in Client, ClientStep(c)
  PROVE  ClientPays(c) \/ UNCHANGED Tickets!vars
  <1> DEFINE k == cjob[c]
             GOAL == ClientPays(c) \/ UNCHANGED Tickets!vars
  <1>1. /\ \A d \in Client : d # c => cpc'[d] = cpc[d] /\ cjob'[d] = cjob[d]
        /\ UNCHANGED <<wpc, wjob, wout, dispatch>>
    BY ClientFrame DEF CInv, PInv
  <1>2. cpc[c] # "idle" => k \in Job /\ LaneFor(k) \in Lane
    BY ManagerAssumption DEF CInv, PInv, TInv, TypeOK, IdsExist, Job, ManagerAssumption, LaneFor, Row, RequestType
  <1>3. /\ cpc \in [Client -> ClientPC] /\ cjob \in [Client -> Job \cup {0}] /\ row \in [Job -> Row]
    BY DEF CInv, PInv, TInv, TypeOK
  <1>4. 0 \notin Job
    BY DEF Job
  <1>5. UNCHANGED lane => \A j \in Job :
          /\ TicketsOf(j)' + One(c \in Pushers(j)) = TicketsOf(j) + One(c \in Pushers(j)')
          /\ RunsOf(j)' = RunsOf(j)
          /\ TicketsOf(j) \in Nat /\ TicketsOf(j)' \in Nat /\ RunsOf(j) \in Nat
    BY ClientMoves DEF CInv, PInv
  <1>6. ASSUME NEW q \in RequestType, EnqueueCreate(c, q) PROVE GOAL
    BY <1>6, EnqueueTickets DEF ClientPays
  <1>7. CASE EnqueuePush(c) \/ ContinuePush(c)
    <2>1. /\ cpc[c] \in {"push", "resume"} /\ cpc'[c] = "idle" /\ cjob'[c] = 0 /\ UNCHANGED row
          /\ Offer(LaneFor(k), k)
      BY <1>3, <1>7 DEF EnqueuePush, ContinuePush, Schedule, Offer, Reply, dbVars
    <2>2. ASSUME NEW j \in Job
          PROVE  /\ RunsOf(j)' = RunsOf(j)
                 /\ Cardinality(Readers(j))' = Cardinality(Readers(j))
                 /\ Cardinality(Pushers(j))' + One(j \in dispatch)' + One(j = k)
                      = Cardinality(Pushers(j)) + One(j \in dispatch)
      <3>1. Cardinality(Pushers(j))' + One(c \in Pushers(j)) = Cardinality(Pushers(j)) + One(c \in Pushers(j)')
        BY <1>1, ClientCounts
      <3>2. One(c \in Pushers(j)) = One(j = k) /\ One(c \in Pushers(j)') = 0
        BY <2>1 DEF Pushers, One
      <3>3. One(j \in dispatch)' = One(j \in dispatch) /\ One(j = k) \in {0, 1} /\ One(j \in dispatch) \in {0, 1}
        BY <1>1 DEF One
      <3>4. Cardinality(Pushers(j)) \in Nat /\ Cardinality(Pushers(j))' \in Nat
        BY TicketSum, TicketSumNext
      <3>5. RunsOf(j)' = RunsOf(j) /\ Cardinality(Readers(j))' = Cardinality(Readers(j))
        BY <1>1 DEF RunsOf, Runners, Readers, Executing, Panicked
      <3> QED
        BY ONLY <3>1, <3>2, <3>3, <3>4, <3>5
    <2>3. SameStatuses /\ k \in Job /\ LaneFor(k) \in Lane
      BY <1>2, <2>1 DEF SameStatuses
    <2> QED
      BY <2>1, <2>2, <2>3, PushMoves DEF ClientPays
  <1>8. ASSUME NEW j \in Job, ContinueRead(c, j) PROVE GOAL
    <2>1. /\ cpc[c] = "idle" /\ cpc'[c] = "resume" /\ cjob'[c] = j /\ UNCHANGED <<lane, row>>
          /\ row[j].status = "paused"
      BY <1>3, <1>8 DEF ContinueRead, laneVars, dbVars
    <2>3. ASSUME NEW i \in Job PROVE TicketsOf(i)' = TicketsOf(i) + One(i = j) /\ RunsOf(i)' = RunsOf(i)
      <3>1. One(c \in Pushers(i)) = 0 /\ One(c \in Pushers(i)') = One(i = j) /\ One(i = j) \in Nat
        BY <2>1 DEF Pushers, One
      <3> QED
        BY <1>5, <2>1, <3>1
    <2>4. SameStatuses
      BY <2>1 DEF SameStatuses
    <2>5. Tickets!Continue(j)
      BY <2>1, <2>3, <2>4, ToContinue
    <2> QED
      BY <1>8, <2>5 DEF ClientPays
  <1>9. CASE /\ UNCHANGED lane /\ (UNCHANGED row \/ CancelWrite(c))
             /\ \A j \in Job : ~(c \in Pushers(j)) /\ ~(c \in Pushers(j)')
    <2>1. ASSUME NEW j \in Job PROVE TicketsOf(j)' = TicketsOf(j) /\ RunsOf(j)' = RunsOf(j)
      <3>1. One(c \in Pushers(j)) = 0 /\ One(c \in Pushers(j)') = 0
        BY <1>9 DEF One
      <3> QED
        BY <1>5, <1>9, <3>1
    <2>2. CASE UNCHANGED row
      BY <2>1, <2>2, ToStutter DEF SameStatuses
    <2>3. CASE CancelWrite(c)
      <3>1. cpc[c] \in {"wcancelled", "wfailed"} /\ k \in Job
        BY <1>2, <2>3 DEF CancelWrite
      <3>2. PICK st \in {"cancelled", "failed"} : UNCHANGED row \/ FinishJob(k, st, FALSE)
        BY <2>3 DEF CancelWrite, Ignored
      <3>3. CASE FinishJob(k, st, FALSE)
        <4>0. PICK n \in Job : n = k
          BY <3>1
        <4>1. \A j \in Job : row'[j].status = IF j = n THEN st ELSE row[j].status
          BY <4>0, <3>1, <3>3, UpdateSays DEF CInv, PInv
        <4>2. row[n].status # "none"
          BY <3>1, <4>0 DEF CInv, PInv, TInv, IdsExist, RowsExist
        <4>3. Tickets!Cancel(n)
          BY <2>1, <4>1, <4>2, ToCancel
        <4> QED
          BY <4>3 DEF ClientPays
      <3> QED
        BY <2>2, <3>2, <3>3
    <2> QED
      BY <1>9, <2>2, <2>3
  <1>10. CASE CancelWrite(c) \/ CancelLookup(c) \/ \E j \in Job : CancelRun(c, j) \/ CancelMiss(c, j)
    <2>1. /\ UNCHANGED lane /\ (UNCHANGED row \/ CancelWrite(c))
          /\ cpc[c] \notin {"push", "resume"} /\ cpc'[c] \notin {"push", "resume"}
      BY <1>3, <1>10 DEF CancelWrite, CancelLookup, CancelRun, CancelMiss, Reply, laneVars, clientVars, dbVars
    <2> QED
      BY <1>9, <2>1 DEF Pushers
  <1>11. ASSUME NEW j \in Job, Replay(c, j) PROVE GOAL
    BY <1>6, <1>11, ReplaysType DEF Replay, CInv, PInv
  <1>12. Request \subseteq RequestType
    BY ManagerAssumption DEF ManagerAssumption
  <1> QED
    BY <1>6, <1>7, <1>8, <1>10, <1>11, <1>12 DEF ClientStep

\* A step that touches neither a row's status nor anything that is counted.
LEMMA QuietFrame ==
  ASSUME UNCHANGED <<row, lane, dispatch, wpc, wjob, wout, cpc, cjob>>
  PROVE  UNCHANGED Tickets!vars
  <1>1. \A j \in Job : TicketsOf(j)' = TicketsOf(j) /\ RunsOf(j)' = RunsOf(j)
    BY DEF TicketsOf, RunsOf, Runners, Executing, Panicked
  <1> QED
    BY <1>1, ToStutter DEF SameStatuses

\* A re-dispatch spends the ticket the boot issued, or puts it on a lane.
LEMMA RedispatchTickets ==
  ASSUME Finite, CInv, NEW k \in Job, Redispatch(k)
  PROVE  Tickets!Void(k) \/ UNCHANGED Tickets!vars
  <1>1. /\ UNCHANGED <<row, wpc, wjob, wout, cpc, cjob>> /\ k \in dispatch /\ dispatch' = dispatch \ {k}
        /\ Offer(LaneFor(k), k)
    BY DEF Redispatch, Schedule, Offer, dbVars, workerVars, clientVars
  <1>2. ASSUME NEW j \in Job
        PROVE  /\ RunsOf(j)' = RunsOf(j)
               /\ Cardinality(Readers(j))' = Cardinality(Readers(j))
               /\ Cardinality(Pushers(j))' + One(j \in dispatch)' + One(j = k)
                    = Cardinality(Pushers(j)) + One(j \in dispatch)
    <2>1. One(j \in dispatch)' + One(j = k) = One(j \in dispatch) /\ One(j = k) \in {0, 1} /\ One(j \in dispatch)' \in {0, 1}
      BY <1>1 DEF One
    <2>2. Cardinality(Pushers(j)) \in Nat
      BY TicketSum
    <2>3. /\ RunsOf(j)' = RunsOf(j) /\ Cardinality(Readers(j))' = Cardinality(Readers(j))
          /\ Cardinality(Pushers(j))' = Cardinality(Pushers(j))
      BY <1>1 DEF RunsOf, Runners, Readers, Pushers, Executing, Panicked
    <2> QED
      BY ONLY <2>1, <2>2, <2>3
  <1>3. SameStatuses /\ LaneFor(k) \in Lane
    BY <1>1 DEF SameStatuses, LaneFor, CInv, PInv, TInv, TypeOK, Row, RequestType
  <1> QED
    BY <1>1, <1>2, <1>3, PushMoves

\* What the process does: a crash, a boot, a re-dispatch, or nothing.
LEMMA ProcessTickets ==
  ASSUME Finite, CInv, ProcessStep
  PROVE  [Tickets!Next]_(Tickets!vars)
  <1>1. CASE Die
    BY <1>1, ToCrash DEF Tickets!Next
  <1>2. CASE Boot
    BY <1>2, ToBoot DEF Tickets!Next
  <1>3. CASE Stop \/ Listen
    <2>1. /\ UNCHANGED <<row, lane, dispatch, wpc, wjob, wout, cpc, cjob>>
      BY <1>3 DEF Stop, Listen, dbVars, laneVars, workerVars, clientVars
    <2> QED
      BY <2>1, QuietFrame
  <1> QED
    BY <1>1, <1>2, <1>3, RedispatchTickets DEF ProcessStep, Tickets!Next

\* Every step of the manager is a step of JobTickets, or none.
LEMMA TicketStep ==
  ASSUME Finite
  PROVE  CInv /\ [Next]_vars => [Tickets!Next]_(Tickets!vars)
  <1> SUFFICES ASSUME CInv, [Next]_vars PROVE [Tickets!Next]_(Tickets!vars)
    OBVIOUS
  <1>1. CASE UNCHANGED vars \/ \E j \in Job : Pause(j)
    <2>1. UNCHANGED <<row, lane, dispatch, wpc, wjob, wout, cpc, cjob>>
      BY <1>1 DEF vars, Pause, dbVars, laneVars, workerVars, clientVars
    <2> QED
      BY <2>1, QuietFrame
  <1> QED
    BY <1>1, WorkerTickets, ClientTickets, ProcessTickets DEF Next, Tickets!Next, WorkerPays, ClientPays

\* Nothing is owed and nothing runs at the start.
LEMMA TicketInit ==
  ASSUME Finite
  PROVE  Init => Tickets!Init
  <1> SUFFICES ASSUME Init PROVE Tickets!Init
    OBVIOUS
  <1>1. \A j \in Job : TicketsOf(j) = 0 /\ RunsOf(j) = 0
    BY QuietCounts DEF Init
  <1>2. [j \in Job |-> row[j].status] = [j \in Job |-> "none"]
    BY DEF Init, NewRow
  <1>3. /\ [j \in Job |-> RunsOf(j)] = [j \in Job |-> 0]
        /\ [j \in Job |-> TicketsOf(j)] = [j \in Job |-> 0]
    BY <1>1
  <1> QED
    BY <1>2, <1>3 DEF Tickets!Init, RunsOf, Runners

\* The manager implements JobTickets, for any finite pool of workers and any
\* finite number of requests in flight: every run of a job is paid for by one
\* submission, one Continue of a parked row or one boot that found the row
\* queued, and nothing but a run, a Cancel or a boot changes a status,
\* whatever the order of the steps, the crashes and the failed statements.
THEOREM ManagerImplementsTickets == Finite => (Spec => ImplementsTickets)
  <1> SUFFICES ASSUME Finite PROVE Spec => ImplementsTickets
    OBVIOUS
  <1>1. Init => Tickets!Init
    BY TicketInit
  <1>2. CInv /\ [Next]_vars => [Tickets!Next]_(Tickets!vars)
    BY TicketStep
  <1> QED
    BY <1>1, <1>2, CountInit, CountStepInv, PTL DEF Spec, ImplementsTickets, Tickets!Spec

-----------------------------------------------------------------------------
(* The restart budget.                                                     *)

\* A job whose parked run nobody can put back on its lane a second time.
Steady(j) == Pausable(row[j].req) => ~({"pause", "continue"} \subseteq Ops)

\* It has one ticket or one run; while nobody cancels it, its ticket is for a
\* queued row, and its row counts the restarts that handed it back.
Budgeted(j) ==
  /\ TicketsOf(j) + RunsOf(j) <= 1
  /\ TicketsOf(j) > 0 \/ RunsOf(j) > 0 => row[j].status # "none"
  /\ j \notin asked /\ TicketsOf(j) > 0 => row[j].status = "queued"
  /\ j \notin asked /\ row[j].status \in {"queued", "running"} => handed[j] <= row[j].restarts
  /\ j \notin asked => handed[j] <= MaxRestartRequeues

\* A row that is not there yet was never handed back.
FreshRows == \A j \in Job : row[j].status = "none" => handed[j] = 0

\* A Cancel in progress is about a job somebody asked to cancel.
CancelsAsked == \A c \in Client : cpc[c] \in {"lookup", "wcancelled", "wfailed"} => cjob[c] \in asked

BInv == CInv /\ NeverParked /\ CancelsAsked /\ FreshRows /\ \A j \in Job : Steady(j) => Budgeted(j)

\* Counts are numbers, before and after a step.
LEMMA CountTypes ==
  ASSUME Finite, NEW j \in Job
  PROVE  TicketsOf(j) \in Nat /\ TicketsOf(j)' \in Nat /\ RunsOf(j) \in Nat /\ RunsOf(j)' \in Nat
  BY TicketSum, TicketSumNext

\* A worker between the receive and the UPDATE holds a ticket.
LEMMA ReaderHasTicket ==
  ASSUME Finite, NEW w \in Worker, wpc[w] \in {"read", "lock", "start"}, NEW j \in Job, wjob[w] = j
  PROVE  TicketsOf(j) > 0
  <1>1. w \in Readers(j)
    BY DEF Readers
  <1>2. IsFiniteSet(Readers(j))
    BY FS_Subset DEF Readers, Finite
  <1>3. Cardinality(Readers(j)) # 0
    BY <1>1, <1>2, FS_EmptySet
  <1>4. /\ TicketsOf(j) = Cardinality(Places(j)) + Cardinality(Readers(j)) + Cardinality(Pushers(j)) + One(j \in dispatch)
        /\ Cardinality(Places(j)) \in Nat /\ Cardinality(Readers(j)) \in Nat
        /\ Cardinality(Pushers(j)) \in Nat /\ One(j \in dispatch) \in {0, 1}
    BY TicketSum
  <1> QED
    BY ONLY <1>3, <1>4

\* A worker between the UPDATE and the end holds a run.
LEMMA RunnerRuns ==
  ASSUME Finite, NEW w \in Worker, Executing(w), NEW j \in Job, wjob[w] = j
  PROVE  RunsOf(j) > 0
  <1>1. w \in Runners(j) /\ IsFiniteSet(Runners(j))
    BY FS_Subset DEF Runners, Finite
  <1>2. RunsOf(j) # 0 /\ RunsOf(j) \in Nat
    BY <1>1, FS_EmptySet, FS_CardinalityType DEF RunsOf
  <1> QED
    BY <1>2

\* ... and so it does after the step that begins the run.
LEMMA RunnerRunsNext ==
  ASSUME Finite, NEW w \in Worker, wpc'[w] = "exec", NEW j \in Job, wjob'[w] = j
  PROVE  RunsOf(j)' > 0
  <1>1. w \in Runners(j)' /\ IsFiniteSet(Runners(j)')
    BY FS_Subset DEF Runners, Executing, Finite
  <1>2. RunsOf(j)' # 0 /\ RunsOf(j)' \in Nat
    BY <1>1, FS_EmptySet, FS_CardinalityType DEF RunsOf
  <1> QED
    BY <1>2

\* The rows a worker writes.
LEMMA WorkerWrites ==
  ASSUME TInv, NEW w \in Worker, WorkerStep(w), NEW j \in Job
  PROVE  \/ row'[j] = row[j]
         \/ SeriesNext(w) /\ j = nextId
         \/ SetRunning(w) /\ wjob[w] = j /\ SetStatus(j, "running")
         \/ WriteEnd(w) /\ wjob[w] = j /\ EndUpdate(w)
  <1>1. CASE UNCHANGED row
    BY <1>1
  <1>2. CASE SeriesNext(w)
    BY <1>2 DEF SeriesNext, CreateJob, TInv, TypeOK
  <1>3. CASE SetRunning(w)
    BY <1>3, <1>1 DEF SetRunning, Ignored, SetStatus, TInv, TypeOK
  <1>4. CASE WriteEnd(w)
    BY <1>4, <1>1 DEF WriteEnd, Ignored, EndUpdate, FinishJob, SetJobPaused, TInv, TypeOK
  <1> QED
    BY <1>1, <1>2, <1>3, <1>4
       DEF WorkerStep, Dequeue, ReadFails, SkipCancelled, GoOn, AcquireLock, Register, Execute, CloseTurn,
           ClosePanicked, SeriesStops, Unregister, Unlock, UnlockPanicked, dbVars

\* What an abstract step does to the counts of one job.
LEMMA Spends ==
  ASSUME Finite, NEW j \in Job,
         \/ UNCHANGED Tickets!vars
         \/ Tickets!Crash
         \/ \E k \in Job : \/ Tickets!Void(k) \/ Tickets!Start(k) \/ Tickets!End(k) \/ Tickets!Cancel(k)
                           \/ k # j /\ (Tickets!Submit(k) \/ Tickets!Continue(k))
  PROVE  TicketsOf(j)' <= TicketsOf(j) /\ TicketsOf(j)' + RunsOf(j)' <= TicketsOf(j) + RunsOf(j)
  <1> DEFINE t == [i \in Job |-> TicketsOf(i)]
             r == [i \in Job |-> RunsOf(i)]
             t1 == [i \in Job |-> TicketsOf(i)']
             r1 == [i \in Job |-> RunsOf(i)']
  <1>1. \A i \in Job : t[i] \in Nat /\ r[i] \in Nat /\ t1[i] \in Nat /\ r1[i] \in Nat
    BY CountTypes
  <1>2. /\ t[j] = TicketsOf(j) /\ r[j] = RunsOf(j) /\ t1[j] = TicketsOf(j)' /\ r1[j] = RunsOf(j)'
        /\ t \in [Job -> Nat] /\ r \in [Job -> Nat]
    BY <1>1
  <1>3. \/ t1 = t /\ r1 = r
        \/ t1 = [i \in Job |-> 0] /\ r1 = [i \in Job |-> 0]
        \/ \E k \in Job :
             \/ t1 = [t EXCEPT ![k] = @ - 1] /\ r1 = r
             \/ t1 = [t EXCEPT ![k] = @ - 1] /\ r1 = [r EXCEPT ![k] = @ + 1]
             \/ t1 = t /\ r1 = [r EXCEPT ![k] = @ - 1]
             \/ k # j /\ r1 = r /\ \E n : t1 = [t EXCEPT ![k] = n]
    BY DEF Tickets!vars, Tickets!Crash, Tickets!Void, Tickets!Start, Tickets!End, Tickets!Cancel, Tickets!Submit,
           Tickets!Continue, RunsOf, Runners
  <1> HIDE DEF t, r, t1, r1
  <1>4. t1[j] <= t[j] /\ t1[j] + r1[j] <= t[j] + r[j]
    BY <1>1, <1>2, <1>3
  <1> QED
    BY <1>2, <1>4

\* A step that spends at most, and leaves the row's status and restarts alone.
LEMMA BudgetFrame ==
  ASSUME Finite, NEW j \in Job, Budgeted(j),
         TicketsOf(j)' <= TicketsOf(j), TicketsOf(j)' + RunsOf(j)' <= TicketsOf(j) + RunsOf(j),
         row'[j].status = row[j].status, row'[j].restarts = row[j].restarts, handed'[j] = handed[j],
         asked \subseteq asked'
  PROVE  Budgeted(j)'
  <1>1. TicketsOf(j) \in Nat /\ TicketsOf(j)' \in Nat /\ RunsOf(j) \in Nat /\ RunsOf(j)' \in Nat
    BY CountTypes
  <1>2. j \notin asked' => j \notin asked
    OBVIOUS
  <1> QED
    BY <1>1, <1>2 DEF Budgeted

\* A new row.
LEMMA BudgetCreate ==
  ASSUME Finite, CInv, NEW q \in RequestType, CreateJob(q), NEW k \in Job, k = nextId, Tickets!Submit(k),
         FreshRows, UNCHANGED <<asked, handed>>
  PROVE  Budgeted(k)'
  <1>1. row[k].status = "none" /\ row'[k].status = "queued" /\ row'[k].restarts = 0
    BY DEF CreateJob, NewRow, CInv, PInv, TInv, TypeOK, IdsExist, Job
  <1>2. TicketsOf(k) = 0 /\ RunsOf(k) = 0
    BY NewHasNone
  <1>3. TicketsOf(k)' \in 0..1 /\ RunsOf(k)' = 0
    <2> DEFINE t == [i \in Job |-> TicketsOf(i)]
               t1 == [i \in Job |-> TicketsOf(i)']
    <2>1. PICK n \in 0..1 : t1 = [t EXCEPT ![k] = n]
      BY DEF Tickets!Submit
    <2>2. t1[k] = n /\ t1[k] = TicketsOf(k)'
      BY <2>1
    <2>3. [i \in Job |-> RunsOf(i)'] = [i \in Job |-> RunsOf(i)]
      BY DEF Tickets!Submit, RunsOf, Runners
    <2>4. [i \in Job |-> RunsOf(i)'][k] = [i \in Job |-> RunsOf(i)][k]
      BY <2>3
    <2> QED
      BY <1>2, <2>2, <2>4
  <1>4. handed'[k] = 0 /\ MaxRestartRequeues \in Nat
    BY <1>1, ManagerAssumption DEF FreshRows, ManagerAssumption
  <1> QED
    BY <1>1, <1>3, <1>4 DEF Budgeted

\* Every other row keeps its request.
LEMMA SteadyKept ==
  ASSUME CInv, ReqKept, NEW j \in Job, row[j].status # "none", Steady(j)'
  PROVE  Steady(j)
  BY DEF CInv, PInv, TInv, IdsExist, ReqKept, Steady, Pausable

\* ... and so does one that CreateJob does not make.
LEMMA SteadyFrame ==
  ASSUME CInv, NEW j \in Job, row'[j].req = row[j].req, Steady(j)'
  PROVE  Steady(j)
  BY DEF Steady, Pausable

\* A worker's step keeps the budget of every steady job ...
LEMMA BudgetWorker ==
  ASSUME Finite, BInv, NEW w \in Worker, WorkerStep(w), NEW j \in Job, Steady(j)'
  PROVE  Budgeted(j)'
  <1>1. /\ CInv /\ TInv /\ UNCHANGED <<asked, handed>> /\ row \in [Job -> Row]
    BY WorkerFrame DEF BInv, CInv, PInv, TInv, TypeOK
  <1>2. CASE SeriesNext(w) /\ j = nextId
    <2> DEFINE q == [row[wjob[w]].req EXCEPT !.refine = FALSE, !.lane = "main", !.sup = TRUE]
    <2>1. wpc[w] = "series" /\ CreateJob(q)
      BY <1>2 DEF SeriesNext, Step
    <2>2. row[wjob[w]].req \in RequestType
      BY <1>1, <2>1, WorkersRequest
    <2>3. q \in RequestType
      BY <2>2 DEF RequestType, Lane
    <2> HIDE DEF q
    <2>4. Tickets!Submit(j)
      BY <1>1, <1>2, SeriesTickets
    <2> QED
      BY <1>1, <1>2, <2>1, <2>3, <2>4, BudgetCreate DEF BInv
  <1>3. CASE ~(SeriesNext(w) /\ j = nextId)
    <2>1. TicketsOf(j)' <= TicketsOf(j) /\ TicketsOf(j)' + RunsOf(j)' <= TicketsOf(j) + RunsOf(j)
      BY <1>1, <1>3, WorkerTickets, Spends DEF WorkerPays
    <2>2. CASE SetRunning(w) /\ wjob[w] = j /\ SetStatus(j, "running")
      <3>1. row'[j].status = "running" /\ row'[j].restarts = row[j].restarts
        BY <1>1, <2>2, UpdateSays
      <3>2. wpc[w] = "start"
        BY <2>2 DEF SetRunning, Step
      <3>3. TicketsOf(j) > 0 /\ row[j].status # "none"
        BY <1>1, <2>2, <3>2, ReaderHasTicket, WorkersRequest DEF CInv, RowsExist
      <3>4. Budgeted(j)
        BY <1>1, <3>3, SteadyKept, WorkerKeepsRequests DEF BInv
      <3>5. TicketsOf(j) \in Nat /\ TicketsOf(j)' \in Nat /\ RunsOf(j) \in Nat /\ RunsOf(j)' \in Nat
        BY CountTypes
      <3>6. TicketsOf(j)' = 0
        <4>1. wpc'[w] = "exec" /\ wjob'[w] = j
          BY <1>1, <2>2 DEF SetRunning, Step, TInv, TypeOK
        <4>2. RunsOf(j)' > 0
          BY <4>1, RunnerRunsNext
        <4> QED
          BY <2>1, <3>4, <3>5, <4>2 DEF Budgeted
      <3> QED
        BY <1>1, <2>1, <3>1, <3>3, <3>4, <3>5, <3>6 DEF Budgeted
    <2>3. CASE WriteEnd(w) /\ wjob[w] = j /\ EndUpdate(w)
      <3>1. wpc[w] = "write" /\ wout[w] # "none"
        BY <1>1, <2>3 DEF WriteEnd, Step, CInv, PInv, Locals
      <3>2. row'[j].status \in Terminal \cup {"paused"}
        BY <1>1, <2>3, <3>1, EndSays
      <3>3. row[j].status # "none"
        BY <1>1, <2>3, <3>1, WorkersRequest DEF CInv, RowsExist
      <3>4. Budgeted(j)
        BY <1>1, <3>3, SteadyKept, WorkerKeepsRequests DEF BInv
      <3>5. TicketsOf(j) \in Nat /\ TicketsOf(j)' \in Nat /\ RunsOf(j) \in Nat /\ RunsOf(j)' \in Nat
        BY CountTypes
      <3>6. RunsOf(j) > 0
        BY <3>1, <2>3, RunnerRuns DEF Executing
      <3> QED
        BY <1>1, <2>1, <3>2, <3>4, <3>5, <3>6 DEF Budgeted, Terminal
    <2>4. CASE row'[j] = row[j]
      <3>1. Budgeted(j)
        BY <1>1, <2>4, SteadyFrame DEF BInv
      <3> QED
        BY <1>1, <2>1, <2>4, <3>1, BudgetFrame
    <2> QED
      BY <1>1, <1>3, <2>2, <2>3, <2>4, WorkerWrites
  <1> QED
    BY <1>2, <1>3

\* The rows a handler writes.
LEMMA ClientWrites ==
  ASSUME TInv, NEW c \in Client, ClientStep(c), NEW j \in Job
  PROVE  \/ row'[j] = row[j]
         \/ j = nextId /\ \E q \in RequestType : EnqueueCreate(c, q)
         \/ CancelWrite(c) /\ cjob[c] = j /\ row'[j].status \in {"cancelled", "failed"}
  <1>1. CASE UNCHANGED row
    BY <1>1
  <1>2. ASSUME NEW q \in RequestType, EnqueueCreate(c, q)
        PROVE  row'[j] = row[j] \/ (j = nextId /\ \E r \in RequestType : EnqueueCreate(c, r))
    BY <1>2 DEF EnqueueCreate, CreateJob, TInv, TypeOK
  <1>3. Request \subseteq RequestType
    BY ManagerAssumption DEF ManagerAssumption
  <1>4. CASE CancelWrite(c)
    <2>1. PICK st \in {"cancelled", "failed"} : UNCHANGED row \/ FinishJob(cjob[c], st, FALSE)
      BY <1>4 DEF CancelWrite, Ignored
    <2>2. cjob[c] \in Job
      BY <1>4, ManagerAssumption DEF CancelWrite, TInv, TypeOK, IdsExist, Job, ManagerAssumption
    <2>3. CASE FinishJob(cjob[c], st, FALSE)
      BY <1>4, <2>2, <2>3, UpdateSays
    <2> QED
      BY <1>1, <2>1, <2>3
  <1>5. ASSUME NEW i \in Job, Replay(c, i) PROVE \E q \in RequestType : EnqueueCreate(c, q)
    BY <1>5, ReplaysType DEF Replay
  <1> QED
    BY <1>1, <1>2, <1>3, <1>4, <1>5
       DEF ClientStep, EnqueuePush, CancelLookup, ContinuePush, CancelRun, CancelMiss, ContinueRead, dbVars

\* ... so does a handler's ...
LEMMA BudgetClient ==
  ASSUME Finite, BInv, NEW c \in Client, ClientStep(c), NEW j \in Job, Steady(j)'
  PROVE  Budgeted(j)'
  <1>1. CInv /\ TInv /\ UNCHANGED handed /\ asked \subseteq asked'
    BY ClientFrame
       DEF BInv, CInv, PInv, ClientStep, EnqueueCreate, EnqueuePush, CancelLookup, CancelWrite, ContinuePush, Replay,
           CancelRun, CancelMiss, ContinueRead, histVars
  <1>2. ASSUME NEW q \in RequestType, EnqueueCreate(c, q), j = nextId PROVE Budgeted(j)'
    <2>1. CreateJob(q) /\ UNCHANGED <<asked, handed>>
      BY <1>2 DEF EnqueueCreate, histVars
    <2>2. Tickets!Submit(j)
      BY <1>1, <1>2, EnqueueTickets
    <2> QED
      BY <1>1, <1>2, <2>1, <2>2, BudgetCreate DEF BInv
  <1>3. CASE ContinueRead(c, j)
    <2>1. row'[j] = row[j] /\ row[j].status = "paused" /\ "continue" \in Ops
      BY <1>3 DEF ContinueRead, dbVars
    <2> QED
      BY <1>1, <2>1, SteadyFrame DEF BInv, NeverParked, Parks, Steady
  <1>4. CASE ~ContinueRead(c, j) /\ ~(j = nextId /\ \E q \in RequestType : EnqueueCreate(c, q))
    <2>1. TicketsOf(j)' <= TicketsOf(j) /\ TicketsOf(j)' + RunsOf(j)' <= TicketsOf(j) + RunsOf(j)
      BY <1>1, <1>4, ClientTickets, Spends DEF ClientPays
    <2>2. CASE row'[j] = row[j]
      <3>1. Budgeted(j)
        BY <1>1, <2>2, SteadyFrame DEF BInv
      <3> QED
        BY <1>1, <2>1, <2>2, <3>1, BudgetFrame
    <2>3. CASE CancelWrite(c) /\ cjob[c] = j /\ row'[j].status \in {"cancelled", "failed"}
      <3>1. j \in asked' /\ row[j].status # "none"
        BY <1>1, <2>3 DEF BInv, CancelsAsked, CancelWrite, TInv, IdsExist, CInv, RowsExist
      <3>2. Budgeted(j)
        BY <1>1, <3>1, SteadyKept, ClientKeepsRequests DEF BInv
      <3>3. TicketsOf(j) \in Nat /\ TicketsOf(j)' \in Nat /\ RunsOf(j) \in Nat /\ RunsOf(j)' \in Nat
        BY CountTypes
      <3> QED
        BY <2>1, <2>3, <3>1, <3>2, <3>3 DEF Budgeted
    <2> QED
      BY <1>1, <1>4, <2>2, <2>3, ClientWrites
  <1> QED
    BY <1>2, <1>3, <1>4

\* A boot hands a running row back while its count allows it.
LEMMA BudgetBoot ==
  ASSUME Finite, BInv, Boot, NEW j \in Job, Steady(j)'
  PROVE  Budgeted(j)'
  <1>1. CInv /\ TInv /\ row[j] \in Row /\ UNCHANGED asked /\ handed[j] \in Nat /\ MaxRestartRequeues \in Nat
    BY ManagerAssumption DEF BInv, CInv, PInv, TInv, TypeOK, Boot, Booted, ManagerAssumption
  <1>2. row'[j] = row[j] \/ row'[j] = Requeued(row[j])
    BY DEF Boot, Ignored
  <1>3. /\ handed'[j] = IF row[j].status = "running" /\ row'[j].status = "queued" THEN handed[j] + 1 ELSE handed[j]
    BY DEF Boot, Booted
  <1>4. row'[j].req = row[j].req
    BY <1>1, <1>2 DEF Requeued, Row
  <1>5. Budgeted(j)
    BY <1>1, <1>4, SteadyFrame DEF BInv
  <1>6. RunsOf(j)' = 0 /\ TicketsOf(j)' \in 0..1 /\ (TicketsOf(j)' > 0 => row'[j].status = "queued")
    <2>1. Tickets!Boot
      BY <1>1, ToBoot
    <2>2. PICK n \in 0..1 : [i \in Job |-> TicketsOf(i)'] = [i \in Job |-> IF [k \in Job |-> row'[k].status][i] = "queued" THEN n ELSE 0]
      BY <2>1 DEF Tickets!Boot
    <2>3. [i \in Job |-> TicketsOf(i)'][j] = IF row'[j].status = "queued" THEN n ELSE 0
      BY <2>2
    <2>4. [i \in Job |-> RunsOf(i)][j] = 0 /\ [i \in Job |-> RunsOf(i)'] = [i \in Job |-> RunsOf(i)]
      BY <2>1 DEF Tickets!Boot, RunsOf, Runners
    <2>5. RunsOf(j)' = 0
      <3>1. [i \in Job |-> RunsOf(i)'][j] = [i \in Job |-> RunsOf(i)][j]
        BY <2>4
      <3> QED
        BY <2>4, <3>1
    <2> QED
      BY <2>3, <2>5
  <1>7. CASE row'[j] = row[j] \/ row[j].status # "running"
    <2>1. row'[j] = row[j] /\ handed'[j] = handed[j]
      BY <1>2, <1>3, <1>7 DEF Requeued
    <2> QED
      BY <1>1, <1>5, <1>6, <2>1 DEF Budgeted
  <1>8. CASE row'[j] = Requeued(row[j]) /\ row[j].status = "running"
    <2>1. /\ row'[j].restarts = row[j].restarts + 1 /\ row[j].restarts \in Nat
          /\ row'[j].status = IF row[j].restarts < MaxRestartRequeues THEN "queued" ELSE "failed"
      BY <1>1, <1>8 DEF Requeued, Row
    <2> QED
      BY <1>1, <1>3, <1>5, <1>6, <1>8, <2>1 DEF Budgeted
  <1> QED
    BY <1>2, <1>7, <1>8

\* ... and so does whatever else happens.
LEMMA BudgetOthers ==
  ASSUME Finite, BInv, ProcessStep \/ UNCHANGED vars \/ \E i \in Job : Pause(i), NEW j \in Job, Steady(j)'
  PROVE  Budgeted(j)'
  <1>1. CASE Boot
    BY <1>1, BudgetBoot
  <1>2. CASE ~Boot
    <2>1. CInv /\ UNCHANGED <<row, handed>> /\ asked \subseteq asked'
      BY <1>2 DEF BInv, ProcessStep, Stop, Die, Listen, Redispatch, Pause, vars, dbVars, histVars
    <2>2. \/ UNCHANGED Tickets!vars
          \/ Tickets!Crash
          \/ \E k \in Job : Tickets!Void(k)
      <3>1. CASE Die
        BY <3>1, ToCrash
      <3>2. ASSUME NEW k \in Job, Redispatch(k) PROVE Tickets!Void(k) \/ UNCHANGED Tickets!vars
        BY <2>1, <3>2, RedispatchTickets
      <3>3. CASE Stop \/ Listen \/ UNCHANGED vars \/ \E i \in Job : Pause(i)
        <4>1. UNCHANGED <<row, lane, dispatch, wpc, wjob, wout, cpc, cjob>>
          BY <3>3 DEF Stop, Listen, vars, Pause, dbVars, laneVars, workerVars, clientVars
        <4> QED
          BY <4>1, QuietFrame
      <3> QED
        BY <1>2, <3>1, <3>2, <3>3 DEF ProcessStep
    <2>3. TicketsOf(j)' <= TicketsOf(j) /\ TicketsOf(j)' + RunsOf(j)' <= TicketsOf(j) + RunsOf(j)
      BY <2>2, Spends
    <2>4. Budgeted(j)
      BY <2>1, SteadyFrame DEF BInv
    <2> QED
      BY <2>1, <2>3, <2>4, BudgetFrame
  <1> QED
    BY <1>1, <1>2

\* The id sequence only grows.
LEMMA NextIdGrows ==
  ASSUME TInv, [Next]_vars
  PROVE  nextId' = nextId \/ nextId' = nextId + 1
  <1>1. \A w \in Worker : WorkerStep(w) => nextId' = nextId \/ nextId' = nextId + 1
    BY DEF WorkerStep, Dequeue, ReadFails, SkipCancelled, GoOn, AcquireLock, Register, SetRunning, Execute, WriteEnd,
           CloseTurn, ClosePanicked, SeriesStops, SeriesNext, CreateJob, Unregister, Unlock, UnlockPanicked, dbVars
  <1>2. \A c \in Client : ClientStep(c) => nextId' = nextId \/ nextId' = nextId + 1
    BY DEF ClientStep, EnqueueCreate, CreateJob, EnqueuePush, CancelLookup, CancelWrite, ContinuePush, Replay,
           CancelRun, CancelMiss, ContinueRead, dbVars
  <1> QED
    BY <1>1, <1>2 DEF Next, ProcessStep, Pause, Stop, Die, Boot, Booted, Listen, Redispatch, vars, dbVars

\* A Cancel in progress has been asked for, and a new row starts with a whole budget.
LEMMA AskedStep ==
  ASSUME BInv, [Next]_vars
  PROVE  CancelsAsked' /\ FreshRows'
  <1> USE DEF BInv, CInv, PInv, TInv, TypeOK
  <1>1. CancelsAsked'
    <2>1. ASSUME NEW c \in Client, ClientStep(c), NEW d \in Client, cpc'[d] \in {"lookup", "wcancelled", "wfailed"}
          PROVE  cjob'[d] \in asked'
      <3>1. asked \subseteq asked'
        BY <2>1 DEF ClientStep, EnqueueCreate, EnqueuePush, CancelLookup, CancelWrite, ContinuePush, Replay,
           CancelRun, CancelMiss, ContinueRead, histVars
      <3>2. CASE d # c
        BY <2>1, <3>1, <3>2, ClientFrame DEF CancelsAsked
      <3>3. CASE d = c
        BY <2>1, <3>1, <3>3
           DEF CancelsAsked, ClientStep, EnqueueCreate, EnqueuePush, CancelLookup, CancelWrite, ContinuePush, Replay,
               CancelRun, CancelMiss, ContinueRead, Reply, clientVars
      <3> QED
        BY <3>2, <3>3
    <2>2. CASE Die
      BY <2>2 DEF Die, CancelsAsked
    <2>3. ASSUME NEW w \in Worker, WorkerStep(w) PROVE CancelsAsked'
      BY <2>3, WorkerFrame DEF CancelsAsked
    <2>4. CASE UNCHANGED vars \/ (ProcessStep /\ ~Die) \/ \E j \in Job : Pause(j)
      BY <2>4 DEF vars, ProcessStep, Stop, Boot, Booted, Listen, Redispatch, Pause, clientVars, histVars, CancelsAsked
    <2> QED
      BY <2>1, <2>2, <2>3, <2>4 DEF Next, CancelsAsked
  <1>2. FreshRows'
    <2> SUFFICES ASSUME NEW j \in Job, row'[j].status = "none" PROVE handed'[j] = 0
      BY DEF FreshRows
    <2>1. row[j].status = "none"
      <3>1. RowsExist' /\ (nextId' = nextId \/ nextId' = nextId + 1)
        BY RowsExistStep, NextIdGrows
      <3> QED
        BY <3>1 DEF RowsExist, IdsExist
    <2>2. handed'[j] = handed[j]
      <3>1. CASE Boot
        BY <2>1, <3>1 DEF Boot, Booted
      <3>2. CASE ~Boot
        BY <3>2, WorkerFrame, ClientFrame DEF Next, ProcessStep, Stop, Die, Listen, Redispatch, Pause, vars, histVars
      <3> QED
        BY <3>1, <3>2
    <2> QED
      BY <2>1, <2>2 DEF FreshRows
  <1> QED
    BY <1>1, <1>2

\* Every step keeps the budget and what it rests on.
THEOREM BudgetStep == Finite => (BInv /\ [Next]_vars => BInv')
  <1> SUFFICES ASSUME Finite, BInv, [Next]_vars PROVE BInv'
    OBVIOUS
  <1>1. CInv' /\ NeverParked'
    BY CountStepInv, ParkStep DEF BInv, CInv
  <1>2. ASSUME NEW j \in Job, Steady(j)' PROVE Budgeted(j)'
    BY <1>2, BudgetWorker, BudgetClient, BudgetOthers DEF Next
  <1> QED
    BY <1>1, <1>2, AskedStep DEF BInv

\* The inductive invariant of the budget.
THEOREM BudgetInvariant == Finite => (Spec => []BInv)
  <1> SUFFICES ASSUME Finite PROVE Spec => []BInv
    OBVIOUS
  <1>1. Init => BInv
    <2> SUFFICES ASSUME Init PROVE BInv
      OBVIOUS
    <2>1. \A j \in Job : TicketsOf(j) = 0 /\ RunsOf(j) = 0
      BY QuietCounts DEF Init
    <2>2. CInv /\ NeverParked
      BY CountInit, ParkInit
    <2> QED
      BY <2>1, <2>2, ManagerAssumption DEF Init, NewRow, BInv, CancelsAsked, FreshRows, Budgeted, ManagerAssumption
  <1>2. BInv /\ [Next]_vars => BInv'
    BY BudgetStep
  <1> QED
    BY <1>1, <1>2, PTL DEF Spec

\* A restart hands one job back to the queue MaxRestartRequeues times at most,
\* unless somebody cancels it - on a server whose users do not both pause and
\* continue, for a parked run forgets its count (SetJobPaused replaces the
\* resume column the count lives in).
THEOREM RestartsAreBounded ==
  Finite /\ ~({"pause", "continue"} \subseteq Ops) => (Spec => []RestartBudget)
  <1> SUFFICES ASSUME Finite, ~({"pause", "continue"} \subseteq Ops) PROVE Spec => []RestartBudget
    OBVIOUS
  <1>1. BInv => RestartBudget
    BY DEF BInv, Steady, Budgeted, RestartBudget
  <1> QED
    BY <1>1, BudgetInvariant, PTL

\* ... and for a job whose mode does not poll the pause gate, whatever the
\* users of the server do.
THEOREM UnparkableRestartsAreBounded ==
  Finite => (Spec => [](\A j \in Job : ~Pausable(row[j].req) /\ j \notin asked => handed[j] <= MaxRestartRequeues))
  <1> SUFFICES ASSUME Finite
               PROVE  Spec => [](\A j \in Job : ~Pausable(row[j].req) /\ j \notin asked => handed[j] <= MaxRestartRequeues)
    OBVIOUS
  <1>1. BInv => \A j \in Job : ~Pausable(row[j].req) /\ j \notin asked => handed[j] <= MaxRestartRequeues
    BY DEF BInv, Steady, Budgeted
  <1> QED
    BY <1>1, BudgetInvariant, PTL

-----------------------------------------------------------------------------
(* The sequential lane keeps the order of submission.                      *)

\* A queued job of the sequential lane that no full lane refused.
Waits(j) == row[j].status = "queued" /\ LaneFor(j) = "seq" /\ j \notin dropped

\* Start launches one worker for the sequential lane.
OneSeqWorker == \A v, w \in Worker : LaneOf[v] = "seq" /\ LaneOf[w] = "seq" => v = w

\* At most one handler at a time is between creating or reading a sequential
\* job and pushing its id.  Two could push in the other order.
Submitting(c) == cpc[c] \in {"push", "resume"} /\ LaneFor(cjob[c]) = "seq"
OneSubmission == \A c, d \in Client : Submitting(c) /\ Submitting(d) => c = d

\* Every id is on the lane of its request.
InItsLane ==
  /\ \A l \in Lane : \A i \in 1..Len(lane[l]) : LaneFor(lane[l][i]) = l
  /\ \A w \in Worker : wpc[w] # "idle" => LaneFor(wjob[w]) = LaneOf[w]

\* A boot has dispatched everything before the server accepts a request.
BootFirst ==
  /\ up = "up" => dispatch = {}
  /\ up = "booting" => \A c \in Client : cpc[c] = "idle"

\* Whoever has its turn on the sequential lane has overtaken nobody ...
InTurn(w) ==
  wpc[w] \in {"read", "lock", "start"} /\ (wpc[w] = "read" => up \in {"up", "booting"})

Overtakes(w) == InTurn(w) /\ \E j \in 1..(nextId - 1) : j < wjob[w] /\ Waits(j)

NoneOvertaken == \A w \in Worker : LaneOf[w] = "seq" => ~Overtakes(w)

\* ... and on the lane, whoever waits longer than an id is ahead of it.
Ahead(j, i) == Unread(j) \/ \E h \in 1..(i - 1) : lane["seq"][h] = j

LaneInOrder ==
  up \in {"up", "booting"} =>
    \A i \in 1..Len(lane["seq"]) : \A j \in 1..(nextId - 1) :
      j < lane["seq"][i] /\ Waits(j) => Ahead(j, i)

SInv == QInv /\ InItsLane /\ BootFirst /\ NoneOvertaken /\ LaneInOrder

\* A step that makes no row queued that existed.
NoNewWait == \A j \in 1..(nextId - 1) : Waits(j)' => Waits(j)

\* The ids given out so far are ids of rows.
LEMMA ExistingJobs == TInv => nextId \in Nat /\ 1..(nextId - 1) \subseteq Job
  BY ManagerAssumption DEF TInv, TypeOK, Job, ManagerAssumption

\* No worker puts a row that existed back on the queue.
LEMMA WorkerQueuesNone ==
  ASSUME TInv, NEW w \in Worker, WorkerStep(w)
  PROVE  NoNewWait
  <1> SUFFICES ASSUME NEW j \in 1..(nextId - 1), row'[j].status = "queued", j \notin dropped'
               PROVE  row[j].status = "queued" /\ j \notin dropped
    BY WorkerKeepsRequests DEF NoNewWait, Waits, LaneFor, ReqKept
  <1>0. j \in Job /\ j # nextId
    BY ExistingJobs
  <1>1. j \notin dropped
    BY DEF WorkerStep, Dequeue, ReadFails, SkipCancelled, GoOn, AcquireLock, Register, SetRunning, Execute,
           WriteEnd, CloseTurn, ClosePanicked, SeriesStops, SeriesNext, Unregister, Unlock, UnlockPanicked,
           Schedule, laneVars
  <1>2. CASE UNCHANGED row
    BY <1>1, <1>2
  <1>3. CASE SetRunning(w)
    <2>1. UNCHANGED row \/ SetStatus(wjob[w], "running")
      BY <1>3 DEF SetRunning, Ignored
    <2>2. wjob[w] \in Job
      BY <1>3, WorkersRequest DEF SetRunning, Step
    <2> QED
      BY <1>0, <1>1, <2>1, <2>2, UpdateSays
  <1>4. CASE WriteEnd(w)
    <2>1. wpc[w] = "write" /\ (UNCHANGED row \/ EndUpdate(w))
      BY <1>4 DEF WriteEnd, Step, Ignored
    <2>2. wjob[w] \in Job
      BY <2>1, WorkersRequest
    <2>3. ASSUME ~UNCHANGED row
          PROVE  \/ SetJobPaused(wjob[w])
                 \/ \E st \in Terminal \cup {"none"}, res \in BOOLEAN : FinishJob(wjob[w], st, res)
      BY <2>1, <2>3 DEF EndUpdate, TInv, TypeOK, Outcome, Terminal
    <2>4. ASSUME ~UNCHANGED row
          PROVE  \A k \in Job : row'[k].status = "queued" => row[k].status = "queued"
      BY <2>2, <2>3, <2>4, UpdateSays DEF Terminal
    <2> QED
      BY <1>0, <1>1, <1>2, <2>4
  <1>5. CASE SeriesNext(w)
    BY <1>0, <1>1, <1>5 DEF SeriesNext, CreateJob, TInv, TypeOK
  <1> QED
    BY <1>1, <1>2, <1>3, <1>4, <1>5
       DEF WorkerStep, Dequeue, ReadFails, SkipCancelled, GoOn, AcquireLock, Register, Execute, CloseTurn,
           ClosePanicked, SeriesStops, Unregister, Unlock, UnlockPanicked, dbVars

\* No handler does.
LEMMA ClientQueuesNone ==
  ASSUME TInv, NEW c \in Client, ClientStep(c)
  PROVE  NoNewWait
  <1> SUFFICES ASSUME NEW j \in 1..(nextId - 1), row'[j].status = "queued", j \notin dropped'
               PROVE  row[j].status = "queued" /\ j \notin dropped
    BY ClientKeepsRequests DEF NoNewWait, Waits, LaneFor, ReqKept
  <1>0. j \in Job /\ j # nextId
    BY ExistingJobs
  <1>1. j \notin dropped
    BY DEF ClientStep, EnqueueCreate, EnqueuePush, CancelLookup, CancelWrite, ContinuePush, Replay,
           CancelRun, CancelMiss, ContinueRead, Schedule, laneVars
  <1>2. CASE UNCHANGED row
    BY <1>1, <1>2
  <1>3. ASSUME NEW q, EnqueueCreate(c, q) PROVE row[j].status = "queued"
    BY <1>0, <1>3 DEF EnqueueCreate, CreateJob, TInv, TypeOK
  <1>4. CASE CancelWrite(c)
    <2>1. cjob[c] \in Job
      BY <1>4, ExistingJobs DEF CancelWrite, TInv, TypeOK, IdsExist
    <2>2. UNCHANGED row \/ \E st \in {"cancelled", "failed"} : FinishJob(cjob[c], st, FALSE)
      BY <1>4 DEF CancelWrite, Ignored
    <2>3. \A k \in Job : row'[k].status = "queued" => row[k].status = "queued"
      BY <2>1, <2>2, UpdateSays
    <2> QED
      BY <1>0, <1>1, <2>3
  <1> QED
    BY <1>1, <1>2, <1>3, <1>4
       DEF ClientStep, EnqueuePush, CancelLookup, ContinuePush, Replay, CancelRun, CancelMiss, ContinueRead, dbVars

\* The ids on the lanes keep their lanes, and so does one that is sent.
LEMMA LanesFit ==
  ASSUME TInv, InItsLane, ReqKept, NEW l \in Lane, NEW n \in Job, row'[n].req.lane = l,
         UNCHANGED lane \/ Send(l, n)
  PROVE  \A k \in Lane : \A i \in 1..Len(lane'[k]) : row'[lane'[k][i]].req.lane = k
  <1>1. ASSUME NEW k \in Lane, NEW i \in 1..Len(lane[k]) PROVE row'[lane[k][i]].req.lane = k
    BY DEF InItsLane, LaneFor, ReqKept, TInv, IdsExist
  <1>2. CASE UNCHANGED lane
    BY <1>1, <1>2
  <1>3. CASE Send(l, n)
    <2>1. /\ lane[l] \in Seq(Job) /\ lane'[l] = Append(lane[l], n)
          /\ \A k \in Lane : k # l => lane'[k] = lane[k]
      BY <1>3 DEF Send, TInv, TypeOK
    <2>2. \A i \in 1..Len(lane'[l]) : lane'[l][i] = n \/ (i \in 1..Len(lane[l]) /\ lane'[l][i] = lane[l][i])
      BY <2>1
    <2>3. \A i \in 1..Len(lane'[l]) : row'[lane'[l][i]].req.lane = l
      BY <1>1, <2>2
    <2>4. \A k \in Lane : k # l => \A i \in 1..Len(lane'[k]) : row'[lane'[k][i]].req.lane = k
      BY <1>1, <2>1
    <2> QED
      BY <2>3, <2>4
  <1> QED
    BY <1>2, <1>3

\* A worker's job keeps its lane.
LEMMA HandsFit ==
  ASSUME TInv, InItsLane, ReqKept, NEW w \in Worker, wpc[w] # "idle", wjob'[w] = wjob[w]
  PROVE  row'[wjob'[w]].req.lane = LaneOf[w]
  BY WorkersRequest DEF InItsLane, LaneFor, ReqKept

\* Every step keeps the ids on the lanes of their requests.
LEMMA LaneFitStep ==
  ASSUME TInv, TInv', InItsLane, [Next]_vars
  PROVE  InItsLane'
  <1>0. ASSUME NEW n \in Job PROVE row[n].req.lane \in Lane /\ row'[n].req.lane \in Lane
    BY DEF TInv, TypeOK, Row, RequestType
  <1>1. ASSUME ReqKept, UNCHANGED lane
        PROVE  \A k \in Lane : \A i \in 1..Len(lane'[k]) : row'[lane'[k][i]].req.lane = k
    BY <1>1 DEF InItsLane, LaneFor, ReqKept, TInv, IdsExist
  <1>2. ASSUME NEW w \in Worker, WorkerStep(w) PROVE InItsLane'
    <2>1. ReqKept
      BY <1>2, WorkerKeepsRequests
    <2>2. ASSUME NEW v \in Worker, v # w, wpc'[v] # "idle" PROVE row'[wjob'[v]].req.lane = LaneOf[v]
      BY <1>2, <2>1, <2>2, WorkerFrame, HandsFit
    <2>3. CASE Dequeue(w)
      <3> DEFINE l == LaneOf[w]
      <3>1. /\ l \in Lane /\ lane[l] \in Seq(Job) /\ lane[l] # << >> /\ UNCHANGED row
            /\ lane'[l] = Tail(lane[l]) /\ wjob'[w] = Head(lane[l])
            /\ \A m \in Lane : m # l => lane'[m] = lane[m]
        BY <2>3, ManagerAssumption DEF Dequeue, TInv, TypeOK, ManagerAssumption, dbVars
      <3>2. row[wjob'[w]].req.lane = l
        <4>1. 1 \in 1..Len(lane[l]) /\ wjob'[w] = lane[l][1]
          BY <3>1
        <4> QED
          BY <3>1, <4>1 DEF InItsLane, LaneFor
      <3>3. \A i \in 1..Len(lane'[l]) : row[lane'[l][i]].req.lane = l
        <4> SUFFICES ASSUME NEW i \in 1..Len(lane'[l]) PROVE row[lane'[l][i]].req.lane = l
          OBVIOUS
        <4>1. i + 1 \in 1..Len(lane[l]) /\ lane'[l][i] = lane[l][i + 1]
          BY <3>1
        <4> QED
          BY <3>1, <4>1 DEF InItsLane, LaneFor
      <3> HIDE DEF l
      <3>4. \A k \in Lane : \A i \in 1..Len(lane'[k]) : row'[lane'[k][i]].req.lane = k
        BY <3>1, <3>3 DEF InItsLane, LaneFor
      <3> QED
        BY <2>2, <3>1, <3>2, <3>4 DEF InItsLane, LaneFor, l
    <2>4. CASE SeriesNext(w)
      <3> DEFINE q == [row[wjob[w]].req EXCEPT !.refine = FALSE, !.lane = "main", !.sup = TRUE]
      <3>1. CreateJob(q) /\ Schedule("main", nextId) /\ wpc[w] = "series" /\ wjob'[w] = wjob[w]
        BY <2>4 DEF SeriesNext, Step
      <3>2. row[wjob[w]].req \in RequestType /\ "main" \in Lane
        BY <3>1, WorkersRequest DEF Lane
      <3>3. q \in RequestType /\ q.lane = "main"
        BY <3>2 DEF RequestType
      <3> HIDE DEF q
      <3>4. nextId \in Job /\ row'[nextId].req.lane = "main"
        BY <3>1, <3>3, CreateKeeps
      <3>5. \A k \in Lane : \A i \in 1..Len(lane'[k]) : row'[lane'[k][i]].req.lane = k
        BY <2>1, <3>1, <3>2, <3>4, LanesFit DEF Schedule
      <3>6. row'[wjob'[w]].req.lane = LaneOf[w]
        BY <2>1, <3>1, HandsFit
      <3> QED
        BY <2>2, <3>5, <3>6 DEF InItsLane, LaneFor
    <2>5. CASE ~Dequeue(w) /\ ~SeriesNext(w)
      <3>1. UNCHANGED lane
        BY <1>2, <2>5 DEF WorkerStep, ReadFails, SkipCancelled, GoOn, AcquireLock, Register, SetRunning, Execute,
             WriteEnd, CloseTurn, ClosePanicked, SeriesStops, Unregister, Unlock, UnlockPanicked, laneVars
      <3>2. wpc'[w] # "idle" => wpc[w] # "idle" /\ wjob'[w] = wjob[w]
        BY <1>2, <2>5 DEF WorkerStep, ReadFails, SkipCancelled, GoOn, AcquireLock, Register, SetRunning, Execute,
             WriteEnd, CloseTurn, ClosePanicked, SeriesStops, Unregister, Unlock, UnlockPanicked, Return, Step,
             TInv, TypeOK
      <3> QED
        BY <1>1, <2>1, <2>2, <3>1, <3>2, HandsFit DEF InItsLane, LaneFor
    <2> QED
      BY <2>3, <2>4, <2>5
  <1>3. ASSUME NEW c \in Client, ClientStep(c) PROVE InItsLane'
    <2>1. ReqKept /\ UNCHANGED <<wpc, wjob>>
      BY <1>3, ClientKeepsRequests, ClientFrame
    <2>2. \A w \in Worker : wpc'[w] # "idle" => row'[wjob'[w]].req.lane = LaneOf[w]
      BY <2>1, HandsFit
    <2>3. CASE EnqueuePush(c) \/ ContinuePush(c)
      <3>1. /\ cjob[c] \in Job /\ UNCHANGED row
            /\ UNCHANGED lane \/ Send(LaneFor(cjob[c]), cjob[c])
        BY <2>3, ExistingJobs DEF EnqueuePush, ContinuePush, Schedule, TInv, TypeOK, IdsExist, dbVars
      <3> QED
        BY <1>0, <2>1, <2>2, <3>1, LanesFit DEF InItsLane, LaneFor
    <2>4. CASE ~EnqueuePush(c) /\ ~ContinuePush(c)
      <3>1. UNCHANGED lane
        BY <1>3, <2>4 DEF ClientStep, EnqueueCreate, CancelLookup, CancelWrite, Replay, CancelRun, CancelMiss,
                          ContinueRead, laneVars
      <3> QED
        BY <1>1, <2>1, <2>2, <3>1 DEF InItsLane, LaneFor
    <2> QED
      BY <2>3, <2>4
  <1>4. CASE ProcessStep
    <2>1. ReqKept
      BY <1>4, ProcessKeepsRequests
    <2>2. CASE Die
      <3>1. /\ \A l \in Lane : lane'[l] = << >>
            /\ \A w \in Worker : wpc'[w] = "idle"
        BY <2>2 DEF Die
      <3> QED
        BY <3>1 DEF InItsLane
    <2>3. CASE ~Die
      <3>1. UNCHANGED <<wpc, wjob>>
        BY <1>4, <2>3 DEF ProcessStep, Stop, Boot, Booted, Listen, Redispatch, workerVars
      <3>2. \A w \in Worker : wpc'[w] # "idle" => row'[wjob'[w]].req.lane = LaneOf[w]
        BY <2>1, <3>1, HandsFit
      <3>3. ASSUME NEW j \in Job, Redispatch(j) PROVE InItsLane'
        <4>1. UNCHANGED row /\ (UNCHANGED lane \/ Send(LaneFor(j), j))
          BY <3>3 DEF Redispatch, Schedule, dbVars
        <4> QED
          BY <1>0, <2>1, <3>2, <4>1, LanesFit DEF InItsLane, LaneFor
      <3>4. CASE UNCHANGED lane
        BY <1>1, <2>1, <3>2, <3>4 DEF InItsLane, LaneFor
      <3> QED
        BY <1>4, <2>3, <3>3, <3>4 DEF ProcessStep, Stop, Boot, Booted, Listen, laneVars
    <2> QED
      BY <2>2, <2>3
  <1>5. CASE UNCHANGED vars \/ \E j \in Job : Pause(j)
    BY <1>5 DEF vars, dbVars, laneVars, workerVars, Pause, InItsLane, LaneFor
  <1> QED
    BY <1>2, <1>3, <1>4, <1>5 DEF Next

\* Redispatch ends before the first request, and nothing is dispatched after it.
LEMMA BootFirstStep ==
  ASSUME TInv, DownIsEmpty, BootFirst, [Next]_vars
  PROVE  BootFirst'
  <1>1. ASSUME NEW w \in Worker, WorkerStep(w) PROVE BootFirst'
    BY <1>1, WorkerFrame DEF BootFirst
  <1>2. ASSUME NEW c \in Client, ClientStep(c) PROVE BootFirst'
    <2>1. UNCHANGED <<up, dispatch>> /\ \A d \in Client : d # c => cpc'[d] = cpc[d]
      BY <1>2, ClientFrame
    <2>2. up # "booting" \/ cpc'[c] = "idle"
      BY <1>2 DEF BootFirst, ClientStep, EnqueueCreate, EnqueuePush, CancelLookup, CancelWrite, ContinuePush, Replay,
             CancelRun, CancelMiss, ContinueRead
    <2> QED
      BY <2>1, <2>2 DEF BootFirst
  <1>3. CASE ProcessStep
    BY <1>3 DEF ProcessStep, Stop, Die, Boot, Booted, Listen, Redispatch, laneVars, clientVars, BootFirst, DownIsEmpty
  <1>4. CASE UNCHANGED vars \/ \E j \in Job : Pause(j)
    BY <1>4 DEF vars, laneVars, clientVars, Pause, BootFirst
  <1> QED
    BY <1>1, <1>2, <1>3, <1>4 DEF Next

\* Who kept its job and its turn has overtaken nobody new.
LEMMA StaysInOrder ==
  ASSUME TInv, NoNewWait, NEW w \in Worker, ~Overtakes(w),
         InTurn(w)' => InTurn(w) /\ wjob'[w] = wjob[w]
  PROVE  ~Overtakes(w)'
  <1> SUFFICES ASSUME InTurn(w)', NEW j \in 1..(nextId' - 1), j < wjob'[w], Waits(j)' PROVE FALSE
    BY DEF Overtakes
  <1>1. wjob[w] \in 1..(nextId - 1) /\ wjob'[w] = wjob[w] /\ nextId \in Nat
    BY WorkersRequest, ExistingJobs DEF InTurn
  <1>2. j \in 1..(nextId - 1)
    BY <1>1
  <1> QED
    BY <1>1, <1>2 DEF NoNewWait, Overtakes

\* A step that leaves the lane alone keeps it in order.
LEMMA LaneStaysInOrder ==
  ASSUME TInv, NoNewWait, LaneInOrder, lane'["seq"] = lane["seq"],
         up' \in {"up", "booting"} => up \in {"up", "booting"},
         \A j \in 1..(nextId - 1) : up' \in {"up", "booting"} /\ Waits(j)' /\ Unread(j) => Unread(j)'
  PROVE  LaneInOrder'
  <1> SUFFICES ASSUME up' \in {"up", "booting"}, NEW i \in 1..Len(lane["seq"]), NEW j \in 1..(nextId' - 1),
                      j < lane["seq"][i], Waits(j)'
               PROVE  Ahead(j, i)'
    BY DEF LaneInOrder
  <1>1. lane["seq"][i] \in 1..(nextId - 1) /\ nextId \in Nat
    BY ExistingJobs DEF TInv, IdsExist, Lane
  <1>2. j \in 1..(nextId - 1)
    BY <1>1
  <1>3. Ahead(j, i)
    BY <1>2 DEF NoNewWait, LaneInOrder
  <1> QED
    BY <1>2, <1>3 DEF Ahead

\* An id is sent when whoever waits longer is already on the lane, or about to run.
LEMMA SentInOrder ==
  ASSUME TInv, NoNewWait, LaneInOrder, InItsLane, UNCHANGED <<wpc, wjob, nextId, up>>,
         NEW n \in Job, UNCHANGED lane \/ Send("seq", n),
         up \in {"up", "booting"} =>
           \A j \in 1..(nextId - 1) : j < n /\ Waits(j) => OnLane(j) \/ Unread(j)
  PROVE  LaneInOrder'
  <1>0. \A j \in Job : Unread(j) <=> Unread(j)'
    BY DEF Unread
  <1>9. nextId \in Nat /\ 1..(nextId - 1) \subseteq Job
    BY ExistingJobs
  <1>1. CASE UNCHANGED lane
    BY <1>0, <1>1, <1>9, LaneStaysInOrder
  <1>2. CASE Send("seq", n)
    <2>1. lane["seq"] \in Seq(Job) /\ lane'["seq"] = Append(lane["seq"], n)
      BY <1>2 DEF Send, TInv, TypeOK, Lane
    <2> SUFFICES ASSUME up \in {"up", "booting"}, NEW i \in 1..Len(lane'["seq"]), NEW j \in 1..(nextId - 1),
                        j < lane'["seq"][i], Waits(j)
                 PROVE  Ahead(j, i)'
      BY DEF LaneInOrder, NoNewWait
    <2>2. CASE i \in 1..Len(lane["seq"])
      <3>1. lane'["seq"][i] = lane["seq"][i] /\ \A h \in 1..(i - 1) : lane'["seq"][h] = lane["seq"][h]
        BY <2>1, <2>2
      <3>2. Ahead(j, i)
        BY <2>2, <3>1 DEF LaneInOrder
      <3> QED
        BY <1>0, <1>9, <3>1, <3>2 DEF Ahead
    <2>3. CASE i \notin 1..Len(lane["seq"])
      <3>1. i = Len(lane["seq"]) + 1 /\ lane'["seq"][i] = n
        BY <2>1, <2>3
      <3>2. CASE Unread(j)
        BY <1>0, <1>9, <3>2 DEF Ahead
      <3>3. CASE OnLane(j)
        <4>1. PICK l \in Lane : \E h \in 1..Len(lane[l]) : lane[l][h] = j
          BY <3>3 DEF OnLane
        <4>2. PICK h \in 1..Len(lane[l]) : lane[l][h] = j
          BY <4>1
        <4>3. l = "seq"
          BY <4>2 DEF InItsLane, Waits
        <4>4. h \in 1..(i - 1) /\ lane'["seq"][h] = j
          BY <2>1, <3>1, <4>2, <4>3
        <4> QED
          BY <4>4 DEF Ahead
      <3> QED
        BY <3>1, <3>2, <3>3
    <2> QED
      BY <2>2, <2>3
  <1> QED
    BY <1>1, <1>2

\* A receive takes the oldest that waits; the worker keeps its turn until it starts.
LEMMA OrderWorker ==
  ASSUME ~DBMayFail, OneSeqWorker, SInv, NEW w \in Worker, WorkerStep(w)
  PROVE  NoneOvertaken' /\ LaneInOrder'
  <1> USE DEF SInv, QInv
  <1>1. NoNewWait /\ ReqKept
    BY WorkerQueuesNone, WorkerKeepsRequests
  <1>2. /\ \A v \in Worker : v # w => wpc'[v] = wpc[v] /\ wjob'[v] = wjob[v]
        /\ UNCHANGED up
    BY WorkerFrame
  <1>3. ASSUME NEW v \in Worker, v # w, LaneOf[v] = "seq" PROVE ~Overtakes(v)'
    BY <1>1, <1>2, <1>3, StaysInOrder DEF NoneOvertaken, InTurn
  <1>4. up # "down" \/ wpc[w] = "idle"
    BY DEF DownIsEmpty
  <1>5. nextId \in Nat /\ 1..(nextId - 1) \subseteq Job
    BY ExistingJobs
  <1>6. CASE Dequeue(w)
    <2>1. /\ LaneOf[w] \in Lane /\ lane[LaneOf[w]] \in Seq(Job) /\ lane[LaneOf[w]] # << >>
          /\ lane'[LaneOf[w]] = Tail(lane[LaneOf[w]]) /\ wjob'[w] = Head(lane[LaneOf[w]])
          /\ \A m \in Lane : m # LaneOf[w] => lane'[m] = lane[m]
          /\ wpc[w] = "idle" /\ wpc'[w] = "read" /\ UNCHANGED <<row, nextId, dropped>>
      BY <1>6, ManagerAssumption DEF Dequeue, Step, TInv, TypeOK, ManagerAssumption, dbVars
    <2>2. \A j \in Job : Unread(j) => Unread(j)'
      BY <1>2, <2>1 DEF Unread
    <2>3. CASE LaneOf[w] # "seq"
      <3>1. LaneInOrder'
        BY <1>1, <1>2, <1>5, <2>1, <2>2, <2>3, LaneStaysInOrder DEF Lane
      <3> QED
        BY <1>3, <2>3, <3>1 DEF NoneOvertaken
    <2>4. CASE LaneOf[w] = "seq"
      <3>1. \A j \in Job : Waits(j) <=> Waits(j)'
        BY <2>1 DEF Waits, LaneFor
      <3>2. ASSUME NEW j \in Job, Waits(j) PROVE ~Unread(j)
        <4> SUFFICES ASSUME NEW v \in Worker, wjob[v] = j, wpc[v] \in {"read", "lock", "start"} PROVE FALSE
          BY DEF Unread
        <4>1. LaneOf[v] = "seq"
          BY <3>2 DEF InItsLane, Waits
        <4> QED
          BY <2>1, <2>4, <4>1 DEF OneSeqWorker
      <3>5. lane["seq"] \in Seq(Job) /\ lane["seq"] # << >> /\ lane'["seq"] = Tail(lane["seq"])
        BY <2>1, <2>4
      <3>3. ~Overtakes(w)'
        <4> SUFFICES ASSUME up \in {"up", "booting"}, NEW j \in 1..(nextId - 1), j < wjob'[w], Waits(j) PROVE FALSE
          BY <1>2, <1>5, <2>1, <3>1 DEF Overtakes, InTurn
        <4>1. 1 \in 1..Len(lane["seq"]) /\ lane["seq"][1] = wjob'[w]
          BY <2>1, <2>4
        <4>2. Ahead(j, 1)
          BY <4>1 DEF LaneInOrder
        <4> QED
          BY <1>5, <3>2, <4>2 DEF Ahead
      <3>4. LaneInOrder'
        <4> SUFFICES ASSUME up \in {"up", "booting"}, NEW i \in 1..Len(lane'["seq"]), NEW j \in 1..(nextId - 1),
                            j < lane'["seq"][i], Waits(j)
                     PROVE  Ahead(j, i)'
          BY <1>2, <1>5, <2>1, <3>1 DEF LaneInOrder
        <4>1. i + 1 \in 1..Len(lane["seq"]) /\ lane["seq"][i + 1] = lane'["seq"][i]
          BY <3>5
        <4>2. Ahead(j, i + 1)
          BY <4>1 DEF LaneInOrder
        <4>3. PICK h \in 1..i : lane["seq"][h] = j
          BY <1>5, <3>2, <4>1, <4>2 DEF Ahead
        <4>4. CASE h = 1
          <5>1. wjob'[w] = j
            BY <2>1, <2>4, <4>3, <4>4
          <5> QED
            BY <2>1, <5>1 DEF Ahead, Unread
        <4>5. CASE h # 1
          <5>1. h - 1 \in 1..(i - 1) /\ lane'["seq"][h - 1] = j
            BY <3>5, <4>1, <4>3, <4>5
          <5> QED
            BY <5>1 DEF Ahead
        <4> QED
          BY <4>4, <4>5
      <3> QED
        BY <1>3, <3>3, <3>4 DEF NoneOvertaken
    <2> QED
      BY <2>3, <2>4
  <1>7. CASE ~Dequeue(w)
    <2>1. lane'["seq"] = lane["seq"]
      <3>1. CASE SeriesNext(w)
        BY <3>1 DEF SeriesNext, Schedule, Send, TInv, TypeOK, Lane
      <3> QED
        BY <1>7, <3>1 DEF WorkerStep, ReadFails, SkipCancelled, GoOn, AcquireLock, Register, SetRunning, Execute,
             WriteEnd, CloseTurn, ClosePanicked, SeriesStops, Unregister, Unlock, UnlockPanicked, laneVars
    <2>2. InTurn(w)' => InTurn(w) /\ wjob'[w] = wjob[w]
      BY <1>2, <1>4, <1>7 DEF InTurn, WorkerStep, ReadFails, SkipCancelled, GoOn, AcquireLock, Register, SetRunning,
         Execute, WriteEnd, CloseTurn, ClosePanicked, SeriesStops, SeriesNext, Unregister, Unlock, UnlockPanicked,
         Step, Return, TInv, TypeOK
    <2>3. LaneOf[w] = "seq" => ~Overtakes(w)'
      BY <1>1, <2>2, StaysInOrder DEF NoneOvertaken
    <2>4. ASSUME NEW j \in Job, up' \in {"up", "booting"}, Waits(j)', Unread(j) PROVE Unread(j)'
      <3>1. PICK v \in Worker : wjob[v] = j /\ wpc[v] \in {"read", "lock", "start"}
        BY <2>4 DEF Unread
      <3>2. CASE v # w
        BY <1>2, <3>1, <3>2 DEF Unread
      <3>3. CASE v = w
        <4>1. row'[j].status = "queued"
          BY <2>4 DEF Waits
        <4>2. ~SetRunning(w)
          <5> SUFFICES ASSUME SetRunning(w) PROVE FALSE
            OBVIOUS
          <5>1. SetStatus(j, "running")
            BY <1>2, <2>4, <3>1, <3>3 DEF SetRunning, Ignored
          <5> QED
            BY <4>1, <5>1 DEF SetStatus, TInv, TypeOK
        <4>3. ~SkipCancelled(w) /\ ~ReadFails(w)
          BY <1>2, <2>4, <3>1, <3>3, <4>1 DEF SkipCancelled, ReadFails, dbVars
        <4>4. wjob'[w] = wjob[w] /\ wpc'[w] \in {"lock", "start"}
          BY <1>7, <3>1, <3>3, <4>2, <4>3 DEF WorkerStep, GoOn, AcquireLock, Register, Execute, WriteEnd,
             CloseTurn, ClosePanicked, SeriesStops, SeriesNext, Unregister, Unlock, UnlockPanicked, Step, TInv, TypeOK
        <4> QED
          BY <3>1, <3>3, <4>4 DEF Unread
      <3> QED
        BY <3>2, <3>3
    <2>5. LaneInOrder'
      BY <1>1, <1>2, <1>5, <2>1, <2>4, LaneStaysInOrder
    <2> QED
      BY <1>3, <2>3, <2>5 DEF NoneOvertaken
  <1> QED
    BY <1>6, <1>7

\* A handler's push goes behind everybody who waits longer.
LEMMA OrderClient ==
  ASSUME OneSubmission, SInv, NEW c \in Client, ClientStep(c)
  PROVE  NoneOvertaken' /\ LaneInOrder'
  <1> USE DEF SInv, QInv
  <1>1. NoNewWait /\ ReqKept
    BY ClientQueuesNone, ClientKeepsRequests
  <1>2. UNCHANGED <<wpc, wjob, up, dispatch>>
    BY ClientFrame
  <1>3. NoneOvertaken'
    BY <1>1, <1>2, StaysInOrder DEF NoneOvertaken, InTurn
  <1>4. nextId \in Nat /\ 1..(nextId - 1) \subseteq Job
    BY ExistingJobs
  <1>5. CASE lane'["seq"] = lane["seq"]
    <2>1. \A j \in Job : Unread(j) => Unread(j)'
      BY <1>2 DEF Unread
    <2> QED
      BY <1>1, <1>2, <1>3, <1>4, <1>5, <2>1, LaneStaysInOrder
  <1>6. CASE (EnqueuePush(c) \/ ContinuePush(c)) /\ lane'["seq"] # lane["seq"]
    <2>1. /\ cpc[c] \in {"push", "resume"} /\ cjob[c] \in Job /\ UNCHANGED nextId
          /\ LaneFor(cjob[c]) = "seq" /\ (UNCHANGED lane \/ Send("seq", cjob[c]))
      BY <1>4, <1>6 DEF EnqueuePush, ContinuePush, Schedule, Send, TInv, TypeOK, IdsExist, Lane, dbVars
    <2>2. ASSUME up \in {"up", "booting"}, NEW j \in 1..(nextId - 1), j < cjob[c], Waits(j)
          PROVE  OnLane(j) \/ Unread(j)
      <3>1. up = "up" /\ dispatch = {}
        BY <2>1, <2>2 DEF BootFirst
      <3>2. ~Pushing(j)
        <4> SUFFICES ASSUME NEW d \in Client, cjob[d] = j, cpc[d] \in {"push", "resume"} PROVE FALSE
          BY DEF Pushing
        <4>1. d = c
          BY <2>1, <2>2 DEF OneSubmission, Submitting, Waits
        <4> QED
          BY <1>4, <2>2, <4>1
      <3> QED
        BY <1>4, <2>2, <3>1, <3>2 DEF QueuedIsScheduled, Waits
    <2> QED
      BY <1>1, <1>2, <1>3, <2>1, <2>2, SentInOrder
  <1> QED
    BY <1>3, <1>5, <1>6 DEF ClientStep, EnqueueCreate, CancelLookup, CancelWrite, Replay, CancelRun, CancelMiss,
       ContinueRead, laneVars

\* A boot starts from empty lanes and pushes the oldest first.
LEMMA OrderProcess ==
  ASSUME SInv, ProcessStep
  PROVE  NoneOvertaken' /\ LaneInOrder'
  <1> USE DEF SInv, QInv
  <1>1. nextId \in Nat /\ 1..(nextId - 1) \subseteq Job
    BY ExistingJobs
  <1>2. ASSUME UNCHANGED <<row, nextId, wpc, wjob>>, dropped \subseteq dropped',
               \A w \in Worker : InTurn(w)' => InTurn(w)
        PROVE  NoNewWait /\ NoneOvertaken'
    <2>1. NoNewWait
      BY <1>2 DEF NoNewWait, Waits, LaneFor
    <2> QED
      BY <1>2, <2>1, StaysInOrder DEF NoneOvertaken
  <1>3. CASE Stop \/ Listen
    <2>1. /\ UNCHANGED <<row, nextId, wpc, wjob, lane, dropped>>
          /\ up' \in {"up", "booting"} => up \in {"up", "booting"}
      BY <1>3 DEF Stop, Listen, dbVars, laneVars, workerVars
    <2>2. NoNewWait /\ NoneOvertaken'
      BY <1>2, <2>1 DEF InTurn
    <2>3. \A j \in Job : Unread(j) => Unread(j)'
      BY <2>1 DEF Unread
    <2> QED
      BY <1>1, <2>1, <2>2, <2>3, LaneStaysInOrder
  <1>4. CASE Die
    BY <1>4 DEF Die, NoneOvertaken, Overtakes, InTurn, LaneInOrder
  <1>5. CASE Boot
    <2>1. /\ \A w \in Worker : wpc'[w] = "idle"
          /\ lane'["seq"] = << >>
      BY <1>5 DEF Boot, Booted, workerVars, DownIsEmpty, Lane
    <2> QED
      BY <2>1 DEF NoneOvertaken, Overtakes, InTurn, LaneInOrder
  <1>6. ASSUME NEW n \in Job, Redispatch(n) PROVE NoneOvertaken' /\ LaneInOrder'
    <2>1. /\ up = "booting" /\ n \in dispatch /\ \A k \in dispatch : n <= k
          /\ Schedule(LaneFor(n), n)
          /\ UNCHANGED <<row, nextId, up, wpc, wjob, cpc>>
      BY <1>6 DEF Redispatch, dbVars, workerVars, clientVars
    <2>2. dropped \subseteq dropped'
      BY <2>1 DEF Schedule
    <2>3. NoNewWait /\ NoneOvertaken'
      BY <1>2, <2>1, <2>2 DEF InTurn
    <2>4. CASE lane'["seq"] = lane["seq"]
      <3>1. \A j \in Job : Unread(j) => Unread(j)'
        BY <2>1 DEF Unread
      <3> QED
        BY <1>1, <2>1, <2>3, <2>4, <3>1, LaneStaysInOrder
    <2>5. CASE lane'["seq"] # lane["seq"]
      <3>1. UNCHANGED lane \/ Send("seq", n)
        BY <2>1, <2>5 DEF Schedule, Send, TInv, TypeOK, Lane
      <3>2. ASSUME NEW j \in 1..(nextId - 1), j < n, Waits(j) PROVE OnLane(j) \/ Unread(j)
        <4>1. j \notin dispatch
          BY <1>1, <2>1, <3>2 DEF Job
        <4>2. ~Pushing(j)
          BY <2>1 DEF BootFirst, Pushing
        <4> QED
          BY <1>1, <2>1, <3>2, <4>1, <4>2 DEF QueuedIsScheduled, Waits
      <3> QED
        BY <2>1, <2>3, <3>1, <3>2, SentInOrder
    <2> QED
      BY <2>4, <2>5
  <1> QED
    BY <1>3, <1>4, <1>5, <1>6 DEF ProcessStep

\* The invariant of the order: nobody waits behind a younger id.
LEMMA OrderStep ==
  ASSUME ~DBMayFail, OneSeqWorker, OneSubmission, SInv, [Next]_vars
  PROVE  SInv'
  <1>1. QInv'
    BY QueuedStep DEF SInv
  <1>2. InItsLane' /\ BootFirst'
    BY <1>1, LaneFitStep, BootFirstStep DEF SInv, QInv
  <1>3. CASE UNCHANGED vars \/ \E j \in Job : Pause(j)
    <2>1. UNCHANGED <<row, nextId, up, lane, dropped, wpc, wjob>>
      BY <1>3 DEF vars, Pause, dbVars, laneVars, workerVars
    <2>2. NoNewWait /\ \A w \in Worker : InTurn(w)' => InTurn(w)
      BY <2>1 DEF NoNewWait, Waits, LaneFor, InTurn
    <2>3. NoneOvertaken'
      BY <2>1, <2>2, StaysInOrder DEF NoneOvertaken, SInv, QInv
    <2>4. \A j \in Job : Unread(j) => Unread(j)'
      BY <2>1 DEF Unread
    <2>5. LaneInOrder'
      BY <2>1, <2>2, <2>4, ExistingJobs, LaneStaysInOrder DEF SInv, QInv
    <2> QED
      BY <1>1, <1>2, <2>3, <2>5 DEF SInv
  <1>4. NoneOvertaken' /\ LaneInOrder'
    BY <1>1, <1>2, <1>3, OrderWorker, OrderClient, OrderProcess DEF Next, SInv
  <1> QED
    BY <1>1, <1>2, <1>4 DEF SInv

\* The sequential lane runs its jobs in the order of their submission, across
\* restarts too: when its one worker starts a job, every earlier job still
\* queued was refused by a full lane (Start, redispatchQueued).  The order is
\* that of the ids, so handlers must not push two sequential jobs at once.
THEOREM SequentialOrder ==
  ASSUME ~DBMayFail, OneSeqWorker
  PROVE  Spec /\ []OneSubmission => SeqInOrder
  <1>1. Init => SInv
    <2> SUFFICES ASSUME Init PROVE SInv
      OBVIOUS
    <2>1. /\ \A l \in Lane : lane[l] = << >>
          /\ \A w \in Worker : wpc[w] = "idle"
          /\ up = "up" /\ dispatch = {}
      BY DEF Init
    <2>2. InItsLane /\ BootFirst /\ NoneOvertaken /\ LaneInOrder
      BY <2>1 DEF InItsLane, BootFirst, NoneOvertaken, Overtakes, InTurn, LaneInOrder, Lane
    <2> QED
      BY <2>2, QueuedInit DEF SInv
  <1>2. OneSubmission /\ SInv /\ [Next]_vars => SInv'
    BY OrderStep
  <1>3. SInv => [\A w \in Worker : LaneOf[w] = "seq" /\ wpc[w] = "start" /\ wpc'[w] = "exec" =>
       \A j \in Job : j < wjob[w] /\ row[j].status = "queued" /\ LaneFor(j) = "seq" => j \in dropped]_vars
    <2> SUFFICES ASSUME SInv, NEW w \in Worker, LaneOf[w] = "seq", wpc[w] = "start",
                        NEW j \in Job, j < wjob[w], row[j].status = "queued", LaneFor(j) = "seq"
                 PROVE  j \in dropped
      OBVIOUS
    <2>1. wjob[w] \in 1..(nextId - 1) /\ nextId \in Nat
      BY WorkersRequest, ExistingJobs DEF SInv, QInv
    <2>2. j \in 1..(nextId - 1)
      BY <2>1 DEF Job
    <2> QED
      BY <2>2 DEF SInv, NoneOvertaken, Overtakes, InTurn, Waits
  <1> QED
    BY <1>1, <1>2, <1>3, PTL DEF Spec, SeqInOrder

=============================================================================
