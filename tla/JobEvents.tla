------------------------------- MODULE JobEvents -------------------------------
(***************************************************************************)
(* The live event stream of a job: m.publish fans an event out to the      *)
(* subscribers' bounded channels and drops it where a channel is full; the *)
(* manager remembers the latest preview of a running job; the SSE handler  *)
(* jobEvents subscribes, sends a snapshot of the row and of the preview,   *)
(* and follows the channel until an event says the job is done.            *)
(*                                                                         *)
(* This module has the bus and its readers; RunWatch has the publishers.   *)
(* An event is what the stream's promises distinguish: it carries a        *)
(* preview, or says the job is done, or neither.                           *)
(***************************************************************************)
EXTENDS Naturals, Sequences

CONSTANTS
  Job, NoJob,
  Reader,      \* SSE requests
  Opened,      \* bound: the jobs a page opens (jobs are interchangeable, so a
               \* run with one reader loses nothing with a single one)
  Preview,     \* preview images a run may render
  NoPreview,
  ChanCap      \* capacity of a subscriber's channel (64 in the code)

ASSUME EventsAssumption ==
  Opened \subseteq Job /\ ChanCap \in Nat \ {0} /\ NoPreview \notin Preview /\ NoJob \notin Job

VARIABLES
  status,       \* the job rows
  lastPreview,  \* m.lastPreview
  rpc, watch,   \* each reader's place in jobEvents, and the job it watches
  chan,         \* its channel
  shown,        \* history: the preview its page shows
  missed        \* history: an event was dropped on its channel

readerVars == <<rpc, watch, chan, shown, missed>>
eventVars  == <<status, lastPreview, readerVars>>

Status   == {"queued", "running", "paused", "over"}
Note     == [kind |-> "note"]
Done     == [kind |-> "done"]
Shows(p) == [kind |-> "preview", preview |-> p]
Event    == {Note, Done} \cup {Shows(p) : p \in Preview}

InitEvents ==
  /\ status = [j \in Job |-> "queued"]
  /\ lastPreview = [j \in Job |-> NoPreview]
  /\ rpc = [r \in Reader |-> "off"] /\ watch = [r \in Reader |-> NoJob]
  /\ chan = [r \in Reader |-> << >>] /\ shown = [r \in Reader |-> NoPreview]
  /\ missed = [r \in Reader |-> FALSE]

-----------------------------------------------------------------------------
(* The bus.                                                                *)

\* Broken variant: the handler subscribes after it has taken its snapshot.
ListenLate(j) == {r \in Reader : rpc[r] = "follow" /\ watch[r] = j}

\* m.subs[j]: a handler is a subscriber from its first statement to its last.
Listening(j) == {r \in Reader : rpc[r] # "off" /\ watch[r] = j}

\* retainPreview: the latest preview of a job, forgotten when it is done.
Retained(j, e) ==
  CASE e = Done            -> NoPreview
    [] e.kind = "preview"  -> e.preview
    [] OTHER               -> lastPreview[j]

\* m.publish, one critical section of m.mu: a full channel drops the event.
Publish(j, e) ==
  /\ lastPreview' = [lastPreview EXCEPT ![j] = Retained(j, e)]
  /\ chan' = [r \in Reader |-> IF r \in Listening(j) /\ Len(chan[r]) < ChanCap
                               THEN Append(chan[r], e) ELSE chan[r]]
  /\ missed' = [r \in Reader |-> missed[r] \/ (r \in Listening(j) /\ Len(chan[r]) = ChanCap)]
  /\ UNCHANGED <<rpc, watch, shown>>

-----------------------------------------------------------------------------
(* The readers.                                                            *)

Close(r) ==
  /\ rpc' = [rpc EXCEPT ![r] = "off"]
  /\ watch' = [watch EXCEPT ![r] = NoJob]
  /\ chan' = [chan EXCEPT ![r] = << >>]
  /\ shown' = [shown EXCEPT ![r] = NoPreview]
  /\ missed' = [missed EXCEPT ![r] = FALSE]
  /\ UNCHANGED <<status, lastPreview>>

\* A page opens the stream of a job.
Subscribe(r, j) ==
  /\ rpc[r] = "off"
  /\ rpc' = [rpc EXCEPT ![r] = "read"]
  /\ watch' = [watch EXCEPT ![r] = j]
  /\ UNCHANGED <<status, lastPreview, chan, shown, missed>>

\* Broken variant: the snapshot of a finished job does not end the stream.
ReadRowAnyway(r) ==
  /\ rpc[r] = "read"
  /\ rpc' = [rpc EXCEPT ![r] = "snapshot"]
  /\ UNCHANGED <<status, lastPreview, watch, chan, shown, missed>>

\* GetJob: the snapshot of a finished job ends the stream.
ReadRow(r) ==
  /\ rpc[r] = "read"
  /\ \/ status[watch[r]] = "over" /\ Close(r)
     \/ /\ status[watch[r]] # "over"
        /\ rpc' = [rpc EXCEPT ![r] = "snapshot"]
        /\ UNCHANGED <<status, lastPreview, watch, chan, shown, missed>>

\* PreviewSnapshot, a second critical section.
TakeSnapshot(r) ==
  /\ rpc[r] = "snapshot"
  /\ rpc' = [rpc EXCEPT ![r] = "send"]
  /\ shown' = [shown EXCEPT ![r] = lastPreview[watch[r]]]
  /\ UNCHANGED <<status, lastPreview, watch, chan, missed>>

\* The snapshot is sent, and the loop entered.
SendSnapshot(r) ==
  /\ rpc[r] = "send"
  /\ rpc' = [rpc EXCEPT ![r] = "follow"]
  /\ UNCHANGED <<status, lastPreview, watch, chan, shown, missed>>

\* The handler relays the next event, and leaves after the last one.
Receive(r) ==
  /\ rpc[r] = "follow" /\ chan[r] # << >>
  /\ \/ Head(chan[r]) = Done /\ Close(r)
     \/ /\ Head(chan[r]) # Done
        /\ chan' = [chan EXCEPT ![r] = Tail(@)]
        /\ shown' = [shown EXCEPT ![r] =
                       IF Head(chan[r]).kind = "preview" THEN Head(chan[r]).preview ELSE @]
        /\ UNCHANGED <<status, lastPreview, rpc, watch, missed>>

\* The page goes away, or GetJob fails: the handler returns.
HangUp(r) == rpc[r] # "off" /\ Close(r)

Serve(r) == ReadRow(r) \/ TakeSnapshot(r) \/ SendSnapshot(r) \/ Receive(r)

ReaderStep(r) == Serve(r) \/ HangUp(r) \/ \E j \in Opened : Subscribe(r, j)

-----------------------------------------------------------------------------
EventsTypeOK ==
  /\ status \in [Job -> Status] /\ lastPreview \in [Job -> Preview \cup {NoPreview}]
  /\ rpc \in [Reader -> {"off", "read", "snapshot", "send", "follow"}] /\ watch \in [Reader -> Job \cup {NoJob}]
  /\ chan \in [Reader -> Seq(Event)] /\ (\A r \in Reader : Len(chan[r]) <= ChanCap)
  /\ shown \in [Reader -> Preview \cup {NoPreview}]
  /\ missed \in [Reader -> BOOLEAN]

\* A page that has caught up with its channel, and lost nothing, shows the
\* job's latest preview, whenever it connected (jobEvents: "a page reloaded
\* mid-run restores its live preview").
PreviewUpToDate ==
  \A r \in Reader : rpc[r] = "follow" /\ chan[r] = << >> /\ ~missed[r] =>
    shown[r] = lastPreview[watch[r]]

\* The stream of a finished job ends, unless an event of it was dropped (the
\* one dropped may be the last: then it does dangle).
StreamEnds ==
  \A r \in Reader :
    (\E j \in Job : watch[r] = j /\ status[j] = "over") ~> (rpc[r] = "off" \/ missed[r])

=============================================================================
