---------------------------- MODULE RunWatchProofs ----------------------------
(***************************************************************************)
(* The engine monitor keeps one sampler, exactly while runs are            *)
(* registered, for any number of jobs, runs and readers.                   *)
(***************************************************************************)
EXTENDS RunWatch, TLAPS

\* The monitor's own variables, apart from the runs and the events.
MonitorTypeOK ==
  /\ holder \in Job \cup {NoJob} /\ watched \subseteq Job /\ stopFn \in Gen \cup {0}
  /\ sampler \in [Gen -> {"none", "tick", "read", "send", "gone"}]
  /\ told \in [Gen -> BOOLEAN]

\* The inductive invariant: stopFn names the only goroutine that may be
\* alive; it is alive, and untold, unless a release is waiting for it.
OnlyStopFn == \A g \in Gen : Alive(g) => g = stopFn

StopFnLives ==
  /\ stopFn # 0 => sampler[stopFn] # "none"
  /\ stopFn # 0 /\ holder = NoJob => Alive(stopFn) /\ ~told[stopFn]

FnWhileWatched ==
  /\ holder = NoJob => (stopFn # 0 <=> watched # {})
  /\ holder # NoJob => stopFn # 0 /\ watched = {}

FreshUntold == \A g \in Gen : sampler[g] = "none" => ~told[g]

IInv == MonitorTypeOK /\ OnlyStopFn /\ StopFnLives /\ FnWhileWatched /\ FreshUntold

monitorVars == <<holder, watched, stopFn, sampler, told>>

LEMMA MonitorInit == Init => IInv
  BY WatchAssumption, EventsAssumption
  DEF Init, IInv, MonitorTypeOK, OnlyStopFn, StopFnLives, FnWhileWatched, FreshUntold, Alive, Gen

\* What registration does to the monitor.
LEMMA RegisterStep ==
  ASSUME IInv, NEW j \in Job, Register(j)
  PROVE  IInv'
  <1> USE DEF IInv, MonitorTypeOK
  <1>1. /\ holder = NoJob /\ UNCHANGED <<holder, told>>
        /\ watched' = watched \cup {j} /\ watched' # {}
    BY DEF Register, Joined
  <1>2. CASE stopFn # 0
    BY <1>1, <1>2, EventsAssumption
    DEF Register, OnlyStopFn, StopFnLives, FnWhileWatched, FreshUntold, Alive
  <1>3. CASE stopFn = 0
    <2>1. PICK g \in Gen : /\ sampler[g] = "none"
                           /\ sampler' = [sampler EXCEPT ![g] = "tick"] /\ stopFn' = g
      BY <1>3 DEF Register, StartSampler
    <2>2. g # 0
      BY WatchAssumption DEF Gen
    <2>3. MonitorTypeOK' /\ FnWhileWatched'
      BY <1>1, <2>1, <2>2 DEF FnWhileWatched
    <2>4. OnlyStopFn'
      <3>1. \A h \in Gen : ~Alive(h)
        BY <1>3, WatchAssumption DEF OnlyStopFn, Gen
      <3> QED
        BY <2>1, <3>1 DEF OnlyStopFn, Alive
    <2>5. StopFnLives' /\ FreshUntold'
      BY <1>1, <2>1, <2>2 DEF StopFnLives, FreshUntold, Alive
    <2> QED
      BY <2>3, <2>4, <2>5
  <1> QED
    BY <1>2, <1>3

\* What a release, and the end of its wait, do to it.
LEMMA ReleaseStep ==
  ASSUME IInv, NEW j \in Job, Release(j) \/ Stopped(j)
  PROVE  IInv'
  <1> USE DEF IInv, MonitorTypeOK
  <1>1. CASE Release(j)
    <2>1. holder = NoJob /\ watched' = watched \ {j} /\ UNCHANGED <<stopFn, sampler>>
      BY <1>1 DEF Release
    <2>2. CASE (watched' # {} \/ stopFn = 0) /\ UNCHANGED <<holder, told>>
      BY <2>1, <2>2 DEF OnlyStopFn, StopFnLives, FnWhileWatched, FreshUntold, Alive
    <2>3. CASE /\ watched' = {} /\ stopFn # 0
               /\ holder' = j /\ told' = [told EXCEPT ![stopFn] = TRUE]
      <3>1. holder' # NoJob
        BY <2>3, EventsAssumption
      <3> QED
        BY <2>1, <2>3, <3>1 DEF OnlyStopFn, StopFnLives, FnWhileWatched, FreshUntold, Alive
    <2> QED
      BY <1>1, <2>2, <2>3 DEF Release
  <1>2. CASE Stopped(j)
    <2>1. /\ holder = j /\ sampler[stopFn] = "gone" /\ holder' = NoJob /\ stopFn' = 0
          /\ UNCHANGED <<watched, sampler, told>>
      BY <1>2 DEF Stopped
    <2>2. j # NoJob
      BY EventsAssumption
    <2> QED
      BY <2>1, <2>2 DEF OnlyStopFn, StopFnLives, FnWhileWatched, FreshUntold, Alive
  <1> QED
    BY <1>1, <1>2

\* What the sampler goroutine does to it.
LEMMA SamplerKeeps ==
  ASSUME IInv, NEW g \in Gen, SamplerStep(g) \/ Tick(g)
  PROVE  IInv'
  <1> USE DEF IInv, MonitorTypeOK
  <1>1. CASE OnSample(g) \/ Sent(g) \/ Tick(g)
    <2>1. /\ Alive(g) /\ UNCHANGED <<holder, watched, stopFn, told>>
          /\ \E to \in {"tick", "read", "send"} : sampler' = [sampler EXCEPT ![g] = to]
      BY <1>1 DEF OnSample, Sent, Tick, At, Alive
    <2> QED
      BY <2>1 DEF OnlyStopFn, StopFnLives, FnWhileWatched, FreshUntold, Alive
  <1>2. CASE SendReading(g)
    BY <1>2 DEF SendReading, OnlyStopFn, StopFnLives, FnWhileWatched, FreshUntold, Alive
  <1>3. CASE Exit(g)
    <2>1. /\ told[g] /\ Alive(g) /\ UNCHANGED <<holder, watched, stopFn, told>>
          /\ sampler' = [sampler EXCEPT ![g] = "gone"]
      BY <1>3 DEF Exit, At, Alive
    <2>2. g = stopFn /\ holder # NoJob
      BY <2>1, WatchAssumption DEF OnlyStopFn, StopFnLives, Gen
    <2> QED
      BY <2>1, <2>2 DEF OnlyStopFn, StopFnLives, FnWhileWatched, FreshUntold, Alive
  <1> QED
    BY <1>1, <1>2, <1>3 DEF SamplerStep

LEMMA MonitorStep == IInv /\ [Next]_vars => IInv'
  <1> SUFFICES ASSUME IInv, [Next]_vars PROVE IInv'
    OBVIOUS
  <1>1. ASSUME UNCHANGED monitorVars PROVE IInv'
    BY <1>1 DEF monitorVars, IInv, MonitorTypeOK, OnlyStopFn, StopFnLives,
                FnWhileWatched, FreshUntold, Alive
  <1>2. CASE UNCHANGED vars
    BY <1>1, <1>2 DEF vars, watchVars, monitorVars
  <1>3. ASSUME NEW j \in Job,
               RunStep(j) \/ Begin(j) \/ Progress(j) \/ Beat(j)
        PROVE  IInv'
    <2>1. CASE Register(j)
      BY <2>1, RegisterStep
    <2>2. CASE Release(j) \/ Stopped(j)
      BY <2>2, ReleaseStep
    <2>3. CASE Announce(j) \/ EndRow(j) \/ Tell(j) \/ End(j) \/ Begin(j) \/ Progress(j) \/ Beat(j)
      <3>1. UNCHANGED monitorVars
        BY <2>3 DEF Announce, EndRow, Tell, End, Begin, Progress, Beat, watchVars, monitorVars
      <3> QED
        BY <3>1, <1>1
    <2> QED
      BY <1>3, <2>1, <2>2, <2>3 DEF RunStep
  <1>4. ASSUME NEW g \in Gen, SamplerStep(g) \/ Tick(g) PROVE IInv'
    BY <1>4, SamplerKeeps
  <1>5. ASSUME NEW r \in Reader, ReaderStep(r) /\ UNCHANGED watchVars PROVE IInv'
    BY <1>1, <1>5 DEF watchVars, monitorVars
  <1> QED
    BY <1>2, <1>3, <1>4, <1>5 DEF Next

\* The invariant holds in every reachable state.
THEOREM MonitorInvariant == Spec => []IInv
  BY MonitorInit, MonitorStep, PTL DEF Spec

\* There are never two samplers, however many runs overlap, start and end.
THEOREM SamplerIsSingle == Spec => []OneSampler
  <1>1. IInv => OneSampler
    BY DEF IInv, OnlyStopFn, OneSampler
  <1> QED
    BY <1>1, MonitorInvariant, PTL

\* Whenever no release is waiting, a sampler is alive exactly while a run is
\* registered.
THEOREM SamplerFollowsRuns == Spec => []SamplerServesRuns
  <1>1. IInv => SamplerServesRuns
    <2> SUFFICES ASSUME IInv, holder = NoJob
                 PROVE  (\E g \in Gen : Alive(g)) <=> watched # {}
      BY DEF SamplerServesRuns
    <2>1. ASSUME NEW g \in Gen, Alive(g) PROVE watched # {}
      BY <2>1, WatchAssumption DEF IInv, OnlyStopFn, FnWhileWatched, Gen
    <2>2. ASSUME watched # {} PROVE Alive(stopFn) /\ stopFn \in Gen
      BY <2>2 DEF IInv, MonitorTypeOK, FnWhileWatched, StopFnLives
    <2> QED
      BY <2>1, <2>2
  <1> QED
    BY <1>1, MonitorInvariant, PTL

-----------------------------------------------------------------------------
(* What a page shows.                                                      *)

EventTypes ==
  /\ lastPreview \in [Job -> Preview \cup {NoPreview}]
  /\ rpc \in [Reader -> {"off", "read", "snapshot", "send", "follow"}]
  /\ watch \in [Reader -> Job \cup {NoJob}]
  /\ chan \in [Reader -> Seq(Event)] /\ (\A r \in Reader : Len(chan[r]) <= ChanCap)
  /\ shown \in [Reader -> Preview \cup {NoPreview}]
  /\ missed \in [Reader -> BOOLEAN]

\* A handler watches a job from its first statement to its last, and leaves
\* nothing in its channel.
WatchesOrOff ==
  \A r \in Reader : /\ rpc[r] # "off" => watch[r] \in Job
                    /\ rpc[r] = "off" => chan[r] = << >> /\ ~missed[r]

\* The preview a page shows once it has handled an event that is not a note.
After(e) == IF e.kind = "preview" THEN e.preview ELSE NoPreview

\* Only notes in a channel, from a place on.
NotesFrom(c, k) == \A m \in k..Len(c) : c[m].kind = "note"

\* The last event in a channel that is not a note leads to the latest preview ...
LeadsTo(c, p) == \A k \in 1..Len(c) : c[k].kind # "note" /\ NotesFrom(c, k + 1) => After(c[k]) = p

\* ... and with notes only, the page shows it already.
Tells(r) ==
  rpc[r] # "off" /\ ~missed[r] =>
    /\ LeadsTo(chan[r], lastPreview[watch[r]])
    /\ rpc[r] \in {"send", "follow"} /\ NotesFrom(chan[r], 1) => shown[r] = lastPreview[watch[r]]

EventInv == EventTypes /\ WatchesOrOff /\ \A r \in Reader : Tells(r)

LEMMA EventFacts ==
  ASSUME NEW e \in Event
  PROVE  /\ e.kind \in {"note", "done", "preview"}
         /\ e = Done <=> e.kind = "done"
         /\ e.kind = "preview" => e.preview \in Preview
  <1>1. CASE e = Note
    BY <1>1 DEF Note, Done
  <1>2. CASE e = Done
    BY <1>2 DEF Done
  <1>3. CASE \E p \in Preview : e = Shows(p)
    BY <1>3 DEF Shows, Done
  <1> QED
    BY <1>1, <1>2, <1>3 DEF Event

LEMMA AppendLeads ==
  ASSUME NEW c \in Seq(Event), NEW e \in Event, NEW p
  PROVE  /\ e.kind = "note" => /\ LeadsTo(c, p) => LeadsTo(Append(c, e), p)
                               /\ NotesFrom(Append(c, e), 1) => NotesFrom(c, 1)
         /\ e.kind # "note" => /\ LeadsTo(Append(c, e), After(e))
                               /\ ~NotesFrom(Append(c, e), 1)
  <1> DEFINE d == Append(c, e)
             n == Len(c)
  <1>1. /\ n \in Nat /\ Len(d) = n + 1 /\ d[n + 1] = e
        /\ \A k \in 1..n : d[k] = c[k]
    OBVIOUS
  <1> HIDE DEF d, n
  <1>2. ASSUME e.kind = "note", LeadsTo(c, p) PROVE LeadsTo(d, p)
    <2> SUFFICES ASSUME NEW k \in 1..Len(d), d[k].kind # "note", NotesFrom(d, k + 1)
                 PROVE  After(d[k]) = p
      BY DEF LeadsTo
    <2>1. k \in 1..n /\ d[k] = c[k]
      BY <1>1, <1>2
    <2>2. NotesFrom(c, k + 1)
      <3> SUFFICES ASSUME NEW m \in (k + 1)..n PROVE c[m].kind = "note"
        BY DEF NotesFrom, n
      <3>1. m \in (k + 1)..Len(d) /\ m \in 1..n
        BY <1>1, <2>1
      <3> QED
        BY <1>1, <3>1 DEF NotesFrom
    <2> QED
      BY <1>2, <2>1, <2>2 DEF LeadsTo, n
  <1>3. ASSUME NotesFrom(d, 1) PROVE NotesFrom(c, 1)
    BY <1>1, <1>3 DEF NotesFrom, n
  <1>4. ASSUME e.kind # "note" PROVE LeadsTo(d, After(e)) /\ ~NotesFrom(d, 1)
    <2>1. n + 1 \in 1..Len(d)
      BY <1>1
    <2>2. ~NotesFrom(d, 1)
      BY <1>1, <1>4, <2>1 DEF NotesFrom
    <2>3. ASSUME NEW k \in 1..Len(d), NotesFrom(d, k + 1) PROVE d[k] = e
      <3>1. CASE k = n + 1
        BY <1>1, <3>1
      <3>2. CASE k # n + 1
        <4>1. n + 1 \in (k + 1)..Len(d)
          BY <1>1, <3>2
        <4> QED
          BY <1>1, <1>4, <2>3, <4>1 DEF NotesFrom
      <3> QED
        BY <3>1, <3>2
    <2> QED
      BY <2>2, <2>3 DEF LeadsTo
  <1> QED
    BY <1>2, <1>3, <1>4 DEF d

LEMMA TailLeads ==
  ASSUME NEW c \in Seq(Event), c # << >>, NEW p, LeadsTo(c, p)
  PROVE  /\ LeadsTo(Tail(c), p)
         /\ NotesFrom(Tail(c), 1) => IF Head(c).kind = "note" THEN NotesFrom(c, 1)
                                                            ELSE After(Head(c)) = p
  <1> DEFINE d == Tail(c)
             n == Len(c)
  <1>1. /\ n \in Nat /\ n >= 1 /\ Len(d) = n - 1 /\ Head(c) = c[1]
        /\ \A k \in 1..(n - 1) : d[k] = c[k + 1]
    OBVIOUS
  <1> HIDE DEF d, n
  <1>2. ASSUME NEW k \in 0..(n - 1), NotesFrom(d, k + 1) PROVE NotesFrom(c, k + 2)
    <2> SUFFICES ASSUME NEW m \in (k + 2)..n PROVE c[m].kind = "note"
      BY DEF NotesFrom, n
    <2>1. m - 1 \in (k + 1)..Len(d) /\ m - 1 \in 1..(n - 1) /\ (m - 1) + 1 = m
      BY <1>1
    <2> QED
      BY <1>1, <1>2, <2>1 DEF NotesFrom
  <1>3. LeadsTo(d, p)
    <2> SUFFICES ASSUME NEW k \in 1..Len(d), d[k].kind # "note", NotesFrom(d, k + 1)
                 PROVE  After(d[k]) = p
      BY DEF LeadsTo
    <2>1. k \in 1..(n - 1) /\ d[k] = c[k + 1] /\ k + 1 \in 1..n /\ (k + 1) + 1 = k + 2
      BY <1>1
    <2>2. NotesFrom(c, (k + 1) + 1)
      BY <1>2, <2>1
    <2> QED
      BY <2>1, <2>2 DEF LeadsTo, n
  <1>4. ASSUME NotesFrom(d, 1)
        PROVE  IF Head(c).kind = "note" THEN NotesFrom(c, 1) ELSE After(Head(c)) = p
    <2>1. NotesFrom(c, 2)
      <3>1. 0 \in 0..(n - 1) /\ 0 + 1 = 1 /\ 0 + 2 = 2
        BY <1>1
      <3> QED
        BY <1>2, <1>4, <3>1
    <2>2. CASE Head(c).kind = "note"
      <3>1. \A m \in 1..n : m = 1 \/ m \in 2..n
        BY <1>1
      <3> QED
        BY <1>1, <2>1, <2>2, <3>1 DEF NotesFrom, n
    <2>3. CASE Head(c).kind # "note"
      <3>1. 1 \in 1..n /\ 1 + 1 = 2
        BY <1>1
      <3> QED
        BY <1>1, <2>1, <2>3, <3>1 DEF LeadsTo, n
    <2> QED
      BY <2>2, <2>3
  <1> QED
    BY <1>3, <1>4 DEF d

\* An event is published: remembered, and appended where there is room.
LEMMA PublishTells ==
  ASSUME EventInv, NEW j \in Job, NEW e \in Event, Publish(j, e)
  PROVE  EventInv'
  <1>1. Retained(j, e) = IF e.kind = "note" THEN lastPreview[j] ELSE After(e)
    BY EventFacts DEF Retained, After
  <1>2. After(e) \in Preview \cup {NoPreview}
    BY EventFacts DEF After
  <1>3. /\ lastPreview' = [lastPreview EXCEPT ![j] = Retained(j, e)]
        /\ lastPreview' \in [Job -> Preview \cup {NoPreview}]
        /\ UNCHANGED <<rpc, watch, shown>>
    BY <1>1, <1>2 DEF Publish, EventInv, EventTypes
  <1>4. ASSUME NEW r \in Reader
        PROVE  /\ chan'[r] \in Seq(Event) /\ Len(chan'[r]) <= ChanCap /\ missed'[r] \in BOOLEAN
               /\ r \notin Listening(j) => chan'[r] = chan[r] /\ missed'[r] = missed[r]
               /\ r \in Listening(j) /\ ~missed'[r] => ~missed[r] /\ chan'[r] = Append(chan[r], e)
    <2>1. chan[r] \in Seq(Event) /\ Len(chan[r]) <= ChanCap /\ missed[r] \in BOOLEAN
      BY DEF EventInv, EventTypes
    <2>2. CASE r \in Listening(j) /\ Len(chan[r]) < ChanCap
      BY <2>1, <2>2, EventsAssumption DEF Publish, EventsAssumption
    <2>3. CASE ~(r \in Listening(j) /\ Len(chan[r]) < ChanCap)
      <3>1. chan'[r] = chan[r] /\ missed'[r] = (missed[r] \/ (r \in Listening(j) /\ Len(chan[r]) = ChanCap))
        BY <2>3 DEF Publish
      <3>2. r \in Listening(j) => Len(chan[r]) = ChanCap
        BY <2>1, <2>3, EventsAssumption DEF EventsAssumption
      <3> QED
        BY <2>1, <3>1, <3>2
    <2> QED
      BY <2>2, <2>3
  <1>5. EventTypes'
    <2>1. chan' \in [Reader -> Seq(Event)] /\ missed' \in [Reader -> BOOLEAN]
      BY <1>4 DEF Publish
    <2> QED
      BY <1>3, <1>4, <2>1 DEF EventInv, EventTypes
  <1>6. WatchesOrOff'
    BY <1>3, <1>4 DEF EventInv, WatchesOrOff, Listening
  <1>7. ASSUME NEW r \in Reader PROVE Tells(r)'
    <2> SUFFICES ASSUME rpc[r] # "off", ~missed'[r]
                 PROVE  /\ LeadsTo(chan'[r], lastPreview'[watch[r]])
                        /\ rpc[r] \in {"send", "follow"} /\ NotesFrom(chan'[r], 1) =>
                             shown[r] = lastPreview'[watch[r]]
      BY <1>3 DEF Tells
    <2>1. watch[r] \in Job /\ chan[r] \in Seq(Event)
      BY DEF EventInv, EventTypes, WatchesOrOff
    <2>2. CASE watch[r] # j
      <3>1. chan'[r] = chan[r] /\ ~missed[r] /\ lastPreview'[watch[r]] = lastPreview[watch[r]]
        BY <1>3, <1>4, <2>1, <2>2 DEF Listening, EventInv, EventTypes
      <3> QED
        BY <3>1 DEF EventInv, Tells
    <2>3. CASE watch[r] = j
      <3>1. ~missed[r] /\ chan'[r] = Append(chan[r], e)
        BY <1>4, <2>3 DEF Listening
      <3>2. lastPreview'[watch[r]] = IF e.kind = "note" THEN lastPreview[watch[r]] ELSE After(e)
        BY <1>1, <1>3, <2>1, <2>3 DEF EventInv, EventTypes
      <3>3. Tells(r)
        BY DEF EventInv
      <3> QED
        BY <2>1, <3>1, <3>2, <3>3, AppendLeads DEF Tells
    <2> QED
      BY <2>2, <2>3
  <1> QED
    BY <1>5, <1>6, <1>7 DEF EventInv

\* What one handler does: its channel and its page agree with the latest
\* preview, and the others' are left alone.
LEMMA OneReader ==
  ASSUME EventInv, NEW r \in Reader, UNCHANGED lastPreview,
         NEW at \in {"off", "read", "snapshot", "send", "follow"}, NEW j \in Job \cup {NoJob},
         NEW c \in Seq(Event), NEW s \in Preview \cup {NoPreview}, NEW m \in BOOLEAN,
         rpc' = [rpc EXCEPT ![r] = at], watch' = [watch EXCEPT ![r] = j],
         chan' = [chan EXCEPT ![r] = c], shown' = [shown EXCEPT ![r] = s],
         missed' = [missed EXCEPT ![r] = m],
         Len(c) <= ChanCap, at # "off" => j \in Job, at = "off" => c = << >> /\ ~m,
         at # "off" /\ ~m => /\ LeadsTo(c, lastPreview[j])
                             /\ at \in {"send", "follow"} /\ NotesFrom(c, 1) => s = lastPreview[j]
  PROVE  EventInv'
  <1>1. EventTypes'
    BY DEF EventInv, EventTypes
  <1>2. WatchesOrOff'
    BY DEF EventInv, EventTypes, WatchesOrOff
  <1>3. ASSUME NEW q \in Reader PROVE Tells(q)'
    <2>1. CASE q = r
      BY <2>1 DEF EventInv, EventTypes, Tells
    <2>2. CASE q # r
      <3>1. Tells(q) /\ /\ rpc'[q] = rpc[q] /\ watch'[q] = watch[q] /\ chan'[q] = chan[q]
                        /\ shown'[q] = shown[q] /\ missed'[q] = missed[q]
        BY <2>2 DEF EventInv, EventTypes
      <3> QED
        BY <3>1 DEF Tells
    <2> QED
      BY <2>1, <2>2
  <1> QED
    BY <1>1, <1>2, <1>3 DEF EventInv

\* A handler subscribes, reads the row, takes its snapshot, relays or returns.
LEMMA ReadingTells ==
  ASSUME EventInv, NEW r \in Reader, ReaderStep(r)
  PROVE  EventInv'
  <1>1. /\ lastPreview \in [Job -> Preview \cup {NoPreview}]
        /\ rpc \in [Reader -> {"off", "read", "snapshot", "send", "follow"}]
        /\ watch \in [Reader -> Job \cup {NoJob}] /\ chan \in [Reader -> Seq(Event)]
        /\ shown \in [Reader -> Preview \cup {NoPreview}] /\ missed \in [Reader -> BOOLEAN]
    BY DEF EventInv, EventTypes
  <1>2. /\ chan[r] \in Seq(Event) /\ Len(chan[r]) <= ChanCap
        /\ watch[r] \in Job \cup {NoJob} /\ shown[r] \in Preview \cup {NoPreview}
        /\ missed[r] \in BOOLEAN /\ Tells(r)
        /\ rpc[r] # "off" => watch[r] \in Job
        /\ rpc[r] = "off" => chan[r] = << >> /\ ~missed[r]
    BY DEF EventInv, EventTypes, WatchesOrOff
  <1>3. << >> \in Seq(Event) /\ Len(<< >>) = 0 /\ 0 <= ChanCap
    BY EventsAssumption DEF EventsAssumption
  <1>4. CASE Close(r)
    <2>1. /\ rpc' = [rpc EXCEPT ![r] = "off"] /\ watch' = [watch EXCEPT ![r] = NoJob]
          /\ chan' = [chan EXCEPT ![r] = << >>] /\ shown' = [shown EXCEPT ![r] = NoPreview]
          /\ missed' = [missed EXCEPT ![r] = FALSE] /\ UNCHANGED lastPreview
      BY <1>4 DEF Close
    <2> QED
      BY <1>3, <2>1, OneReader
  <1>5. ASSUME NEW j \in Opened, Subscribe(r, j) PROVE EventInv'
    <2>1. j \in Job /\ LeadsTo(<< >>, lastPreview[j])
      BY <1>3, EventsAssumption DEF EventsAssumption, LeadsTo
    <2>2. /\ rpc' = [rpc EXCEPT ![r] = "read"] /\ watch' = [watch EXCEPT ![r] = j]
          /\ chan' = [chan EXCEPT ![r] = << >>] /\ shown' = [shown EXCEPT ![r] = shown[r]]
          /\ missed' = [missed EXCEPT ![r] = FALSE] /\ UNCHANGED lastPreview
      BY <1>1, <1>2, <1>5 DEF Subscribe
    <2> QED
      BY <1>2, <1>3, <2>1, <2>2, OneReader
  <1>6. ASSUME (ReadRow(r) /\ ~Close(r)) \/ SendSnapshot(r)
        PROVE  /\ UNCHANGED lastPreview
               /\ watch' = [watch EXCEPT ![r] = watch[r]] /\ chan' = [chan EXCEPT ![r] = chan[r]]
               /\ shown' = [shown EXCEPT ![r] = shown[r]] /\ missed' = [missed EXCEPT ![r] = missed[r]]
    BY <1>1, <1>6 DEF ReadRow, SendSnapshot
  <1>7. CASE ReadRow(r) /\ ~Close(r)
    <2>1. rpc[r] = "read" /\ rpc' = [rpc EXCEPT ![r] = "snapshot"]
      BY <1>7 DEF ReadRow
    <2>2. ~missed[r] => LeadsTo(chan[r], lastPreview[watch[r]])
      BY <1>2, <2>1 DEF Tells
    <2> QED
      BY <1>2, <1>6, <1>7, <2>1, <2>2, OneReader
  <1>8. CASE SendSnapshot(r)
    <2>1. rpc[r] = "send" /\ rpc' = [rpc EXCEPT ![r] = "follow"]
      BY <1>8 DEF SendSnapshot
    <2>2. ~missed[r] => /\ LeadsTo(chan[r], lastPreview[watch[r]])
                        /\ NotesFrom(chan[r], 1) => shown[r] = lastPreview[watch[r]]
      BY <1>2, <2>1 DEF Tells
    <2> QED
      BY <1>2, <1>6, <1>8, <2>1, <2>2, OneReader
  <1>9. CASE TakeSnapshot(r)
    <2>1. /\ rpc[r] = "snapshot" /\ rpc' = [rpc EXCEPT ![r] = "send"] /\ UNCHANGED lastPreview
          /\ watch' = [watch EXCEPT ![r] = watch[r]] /\ chan' = [chan EXCEPT ![r] = chan[r]]
          /\ shown' = [shown EXCEPT ![r] = lastPreview[watch[r]]]
          /\ missed' = [missed EXCEPT ![r] = missed[r]]
      BY <1>1, <1>9 DEF TakeSnapshot
    <2>2. lastPreview[watch[r]] \in Preview \cup {NoPreview}
      BY <1>1, <1>2, <2>1
    <2>3. ~missed[r] => LeadsTo(chan[r], lastPreview[watch[r]])
      BY <1>2, <2>1 DEF Tells
    <2> QED
      BY <1>2, <2>1, <2>2, <2>3, OneReader
  <1>10. CASE Receive(r) /\ ~Close(r)
    <2> DEFINE e == Head(chan[r])
               s == IF e.kind = "preview" THEN e.preview ELSE shown[r]
    <2>1. /\ rpc[r] = "follow" /\ chan[r] # << >> /\ e # Done /\ UNCHANGED lastPreview
          /\ rpc' = [rpc EXCEPT ![r] = "follow"] /\ watch' = [watch EXCEPT ![r] = watch[r]]
          /\ chan' = [chan EXCEPT ![r] = Tail(chan[r])] /\ shown' = [shown EXCEPT ![r] = s]
          /\ missed' = [missed EXCEPT ![r] = missed[r]]
      BY <1>1, <1>10 DEF Receive
    <2>2. /\ e \in Event /\ Tail(chan[r]) \in Seq(Event) /\ Len(Tail(chan[r])) = Len(chan[r]) - 1
          /\ Len(chan[r]) \in Nat
      BY <1>2, <2>1
    <2>3. e.kind \in {"note", "preview"} /\ s \in Preview \cup {NoPreview}
      BY <1>2, <2>1, <2>2, EventFacts
    <2>4. Len(Tail(chan[r])) <= ChanCap
      BY <1>2, <2>2, EventsAssumption DEF EventsAssumption
    <2>5. ASSUME ~missed[r]
          PROVE  /\ LeadsTo(Tail(chan[r]), lastPreview[watch[r]])
                 /\ NotesFrom(Tail(chan[r]), 1) => s = lastPreview[watch[r]]
      <3>1. /\ LeadsTo(chan[r], lastPreview[watch[r]])
            /\ NotesFrom(chan[r], 1) => shown[r] = lastPreview[watch[r]]
        BY <1>2, <2>1, <2>5 DEF Tells
      <3> HIDE DEF s
      <3>2. /\ LeadsTo(Tail(chan[r]), lastPreview[watch[r]])
            /\ NotesFrom(Tail(chan[r]), 1) =>
                 IF e.kind = "note" THEN NotesFrom(chan[r], 1) ELSE After(e) = lastPreview[watch[r]]
        BY <1>2, <2>1, <3>1, TailLeads
      <3> QED
        BY <2>3, <3>1, <3>2 DEF After, s
    <2> HIDE DEF s
    <2> QED
      BY <1>2, <2>1, <2>2, <2>3, <2>4, <2>5, OneReader
  <1> QED
    BY <1>4, <1>5, <1>7, <1>8, <1>9, <1>10 DEF ReaderStep, Serve, HangUp

LEMMA EventInit == Init => EventInv
  BY EventsAssumption
  DEF EventsAssumption, Init, InitEvents, EventInv, EventTypes, WatchesOrOff, Tells

-----------------------------------------------------------------------------
(* The rest of the types, and the theorems.                                *)

WatchTypes ==
  /\ status \in [Job -> Status]
  /\ jpc \in [Job -> {"idle", "announce", "execute", "live", "stopping", "write", "tell", "end"}]
  /\ runs \in 0..MaxRuns /\ started \in [Job -> BOOLEAN] /\ outs \in [Gen -> SUBSET Job]

LEMMA WatchInit == Init => WatchTypes
  BY WatchAssumption DEF WatchAssumption, Init, InitEvents, WatchTypes, Status

LEMMA WatchStep == IInv /\ WatchTypes /\ [Next]_vars => WatchTypes'
  <1> SUFFICES ASSUME IInv, WatchTypes, [Next]_vars PROVE WatchTypes'
    OBVIOUS
  <1> USE DEF WatchTypes
  <1>1. CASE UNCHANGED vars
    BY <1>1 DEF vars, watchVars, eventVars
  <1>2. ASSUME NEW j \in Job, RunStep(j) \/ Begin(j) \/ Progress(j) \/ Beat(j) PROVE WatchTypes'
    <2>1. CASE Announce(j) \/ Tell(j) \/ Progress(j) \/ Beat(j)
      BY <2>1 DEF Announce, Tell, Progress, Beat, Goto, watchVars
    <2>2. CASE Register(j) \/ Release(j) \/ Stopped(j) \/ End(j)
      BY <2>2 DEF Register, Joined, Release, Stopped, End, Goto, Quiet, eventVars
    <2>3. CASE Begin(j)
      BY <2>3, WatchAssumption DEF WatchAssumption, Begin, Goto, Status
    <2>4. CASE EndRow(j)
      BY <2>4 DEF EndRow, Goto, Status
    <2> QED
      BY <1>2, <2>1, <2>2, <2>3, <2>4 DEF RunStep
  <1>3. ASSUME NEW g \in Gen, SamplerStep(g) \/ Tick(g) PROVE WatchTypes'
    <2>1. CASE OnSample(g)
      BY <2>1 DEF OnSample, Quiet, eventVars, IInv, MonitorTypeOK
    <2>2. CASE SendReading(g)
      BY <2>2 DEF SendReading
    <2>3. CASE Sent(g) \/ Exit(g) \/ Tick(g)
      BY <2>3 DEF Sent, Exit, Tick, Quiet, eventVars
    <2> QED
      BY <1>3, <2>1, <2>2, <2>3 DEF SamplerStep
  <1>4. ASSUME NEW r \in Reader, ReaderStep(r), UNCHANGED watchVars PROVE WatchTypes'
    <2>1. UNCHANGED status
      BY <1>4 DEF ReaderStep, Serve, ReadRow, TakeSnapshot, SendSnapshot, Receive, HangUp, Subscribe, Close
    <2> QED
      BY <1>4, <2>1 DEF watchVars
  <1> QED
    BY <1>1, <1>2, <1>3, <1>4 DEF Next

\* What any step does to the stream: it publishes an event of a job, or is a
\* reader's, or neither.
LEMMA EventStep ==
  ASSUME WatchTypes, Next
  PROVE  \/ \E j \in Job, e \in Event : Publish(j, e)
         \/ \E r \in Reader : ReaderStep(r)
         \/ UNCHANGED <<lastPreview, readerVars>>
  <1>1. Note \in Event /\ Done \in Event /\ \A p \in Preview : Shows(p) \in Event
    BY DEF Event
  <1>2. ASSUME NEW j \in Job, RunStep(j) \/ Begin(j) \/ Progress(j) \/ Beat(j)
        PROVE  (\E e \in Event : Publish(j, e)) \/ UNCHANGED <<lastPreview, readerVars>>
    BY <1>1, <1>2
    DEF RunStep, Announce, Register, Release, Stopped, EndRow, Tell, End, Begin, Progress, Beat, Quiet,
        eventVars
  <1>3. ASSUME NEW g \in Gen, SamplerStep(g) \/ Tick(g)
        PROVE  (\E j \in outs[g], e \in Event : Publish(j, e)) \/ UNCHANGED <<lastPreview, readerVars>>
    BY <1>1, <1>3 DEF SamplerStep, OnSample, SendReading, Sent, Exit, Tick, Quiet, eventVars
  <1> QED
    BY <1>2, <1>3 DEF Next, WatchTypes

LEMMA EventInvStep == WatchTypes /\ EventInv /\ [Next]_vars => EventInv'
  <1> SUFFICES ASSUME WatchTypes, EventInv, [Next]_vars PROVE EventInv'
    OBVIOUS
  <1>1. CASE UNCHANGED <<lastPreview, readerVars>>
    BY <1>1 DEF readerVars, EventInv, EventTypes, WatchesOrOff, Tells
  <1>2. ASSUME NEW j \in Job, NEW e \in Event, Publish(j, e) PROVE EventInv'
    BY <1>2, PublishTells
  <1>3. ASSUME NEW r \in Reader, ReaderStep(r) PROVE EventInv'
    BY <1>3, ReadingTells
  <1> QED
    BY <1>1, <1>2, <1>3, EventStep DEF vars, eventVars

\* What waits in the channels leads every page to the latest preview.
THEOREM EventInvariant == Spec => []EventInv
  <1>1. Spec => []WatchTypes
    BY WatchInit, WatchStep, MonitorInvariant, PTL DEF Spec
  <1> QED
    BY <1>1, EventInit, EventInvStep, PTL DEF Spec

\* A page that has caught up, and lost nothing, shows the latest preview.
THEOREM PageIsUpToDate == Spec => []PreviewUpToDate
  <1>1. EventInv => PreviewUpToDate
    <2> SUFFICES ASSUME EventInv, NEW r \in Reader, rpc[r] = "follow", chan[r] = << >>, ~missed[r]
                 PROVE  shown[r] = lastPreview[watch[r]]
      BY DEF PreviewUpToDate
    <2>1. NotesFrom(chan[r], 1)
      BY DEF NotesFrom
    <2> QED
      BY <2>1 DEF EventInv, Tells
  <1> QED
    BY <1>1, EventInvariant, PTL

\* Every variable keeps its type.
THEOREM TypeCorrect == Spec => []TypeOK
  <1>1. Spec => []WatchTypes
    BY WatchInit, WatchStep, MonitorInvariant, PTL DEF Spec
  <1>2. IInv /\ WatchTypes /\ EventInv => TypeOK
    BY DEF IInv, MonitorTypeOK, WatchTypes, EventInv, EventTypes, TypeOK, EventsTypeOK
  <1> QED
    BY <1>1, <1>2, MonitorInvariant, EventInvariant, PTL
=============================================================================
