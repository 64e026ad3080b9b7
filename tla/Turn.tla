---------------------------------- MODULE Turn ----------------------------------
(***************************************************************************)
(* One conversation of a supervised job (package turns): a backlog of      *)
(* events with live subscribers, the confirm rendezvous in which the run   *)
(* waits for the user, and the mailbox the run empties between passes.     *)
(*                                                                         *)
(* The session's mutex makes each operation one action (an answer is sent  *)
(* after it is released: one that comes too late is accepted and lost, as  *)
(* after the timeout in Supervise).  An event is what the stream's         *)
(* promises distinguish: its place in the backlog, and whether it is the   *)
(* last one.  Supervise has the run that talks.                            *)
(***************************************************************************)
EXTENDS Naturals, Sequences

CONSTANTS
  Reader,     \* SSE requests for this turn
  ChanCap     \* capacity of a subscriber's channel (64 in the code)

ASSUME TurnAssumption == ChanCap \in Nat \ {0}

VARIABLES
  hub,          \* the session in the hub: "open", "finished" (done published) or "reaped"
  events,       \* number of events in the backlog
  pending,      \* a confirm is registered
  reply,        \* the registered confirm's buffered answer, or "none"
  nudged,       \* the mailbox holds nudges
  stopping,     \* the sticky stop request
  rpc,          \* each reader's place in agentTurnEvents
  backlog,      \* how many events the backlog it was given holds
  chan,         \* its live channel: the places of the events in it
  seen,         \* the last event it relayed
  missed        \* history: an event was dropped on its channel

readerVars == <<rpc, backlog, chan, seen, missed>>
mailVars   == <<nudged, stopping>>
askVars    == <<pending, reply>>
turnVars   == <<hub, events, askVars, mailVars, readerVars>>

Choice == {"proceed", "skip"}

InitTurn ==
  /\ hub = "open" /\ events = 0
  /\ pending = FALSE /\ reply = "none" /\ nudged = FALSE /\ stopping = FALSE
  /\ rpc = [r \in Reader |-> "off"] /\ backlog = [r \in Reader |-> 0]
  /\ chan = [r \in Reader |-> << >>] /\ seen = [r \in Reader |-> 0]
  /\ missed = [r \in Reader |-> FALSE]

-----------------------------------------------------------------------------
(* The run's side.                                                         *)

\* Broken variant: the handler subscribes after it has sent the backlog.
Following(r) == rpc[r] = "follow"

\* s.subs: the channel is registered together with the backlog's snapshot.
Subscribed(r) == rpc[r] # "off"

Full(r) == Len(chan[r]) = ChanCap

\* session.publish: append to the backlog, and offer the event to every
\* subscriber; a full channel drops it.
Publish ==
  /\ events' = events + 1
  /\ chan' = [r \in Reader |-> IF Subscribed(r) /\ ~Full(r) THEN Append(chan[r], events + 1)
                               ELSE chan[r]]
  /\ missed' = [r \in Reader |-> missed[r] \/ (Subscribed(r) /\ Full(r))]
  /\ UNCHANGED <<rpc, backlog, seen>>

\* drainMessages: the nudges are taken, the stop request stays.
Drain == nudged' = FALSE /\ UNCHANGED stopping

\* awaitConfirm registers the question ...
Register == pending' = TRUE /\ reply' = "none"

\* ... and forgets it, answered or not.
Forget == pending' = FALSE /\ reply' = "none"

-----------------------------------------------------------------------------
(* The user's side.                                                        *)

\* PostMessage.
Nudge == hub # "reaped" /\ ~nudged /\ nudged' = TRUE /\ UNCHANGED stopping
Stop  == hub # "reaped" /\ ~stopping /\ stopping' = TRUE /\ UNCHANGED nudged

\* Resolve, the case it answers true: a question is registered, and its buffer
\* is empty.  (In every other case it changes nothing and answers false.)
Resolve(c) ==
  /\ hub # "reaped" /\ pending /\ reply = "none"
  /\ reply' = c /\ UNCHANGED pending

-----------------------------------------------------------------------------
(* The readers: agentTurnEvents.                                           *)

Become(r, place) == rpc' = [rpc EXCEPT ![r] = place]

\* subscribe: the backlog is snapshotted together with the subscription.
\* (A reaped turn sends the reader away.)
Subscribe(r) ==
  /\ rpc[r] = "off" /\ hub # "reaped"
  /\ Become(r, "backlog")
  /\ backlog' = [backlog EXCEPT ![r] = events]
  /\ UNCHANGED <<chan, seen, missed>>

Close(r) ==
  /\ Become(r, "off")
  /\ backlog' = [backlog EXCEPT ![r] = 0]
  /\ chan' = [chan EXCEPT ![r] = << >>]
  /\ seen' = [seen EXCEPT ![r] = 0]
  /\ missed' = [missed EXCEPT ![r] = FALSE]

\* Whether the event in a place is the "done" event.
IsDone(e) == hub # "open" /\ e = events

\* The whole backlog is sent; one that ends in "done" ends the stream.
SendBacklog(r) ==
  /\ rpc[r] = "backlog"
  /\ \/ backlog[r] > 0 /\ IsDone(backlog[r]) /\ Close(r)
     \/ /\ backlog[r] = 0 \/ ~IsDone(backlog[r])
        /\ Become(r, "follow")
        /\ seen' = [seen EXCEPT ![r] = backlog[r]]
        /\ backlog' = [backlog EXCEPT ![r] = 0]
        /\ UNCHANGED <<chan, missed>>

\* A live event is relayed; "done" ends the stream.
Relay(r) ==
  /\ rpc[r] = "follow" /\ chan[r] # << >>
  /\ \/ IsDone(Head(chan[r])) /\ Close(r)
     \/ /\ ~IsDone(Head(chan[r]))
        /\ seen' = [seen EXCEPT ![r] = Head(chan[r])]
        /\ chan' = [chan EXCEPT ![r] = Tail(@)]
        /\ UNCHANGED <<rpc, backlog, missed>>

\* The page goes away.
HangUp(r) == rpc[r] = "follow" /\ Close(r)

Serve(r) == SendBacklog(r) \/ Relay(r)
ReaderStep(r) == Serve(r) \/ Subscribe(r) \/ HangUp(r)

-----------------------------------------------------------------------------
TurnTypeOK ==
  /\ hub \in {"open", "finished", "reaped"} /\ events \in Nat
  /\ pending \in BOOLEAN /\ reply \in Choice \cup {"none"}
  /\ nudged \in BOOLEAN /\ stopping \in BOOLEAN
  /\ rpc \in [Reader -> {"off", "backlog", "follow"}]
  /\ backlog \in [Reader -> Nat] /\ seen \in [Reader -> Nat]
  /\ chan \in [Reader -> Seq(Nat)] /\ (\A r \in Reader : Len(chan[r]) <= ChanCap)
  /\ missed \in [Reader -> BOOLEAN]

\* An event is delivered exactly once, in order, regardless of when the reader
\* connected: what it has relayed, or was given as its backlog, and what waits
\* in its channel are together the whole conversation (unless its channel
\* overflowed: "a slow browser never stalls the producer").
DeliveredOnce ==
  \A r \in Reader : rpc[r] # "off" /\ ~missed[r] =>
    LET given == IF rpc[r] = "backlog" THEN backlog[r] ELSE seen[r] IN
    /\ given + Len(chan[r]) = events
    /\ \A k \in 1..Len(chan[r]) : chan[r][k] = given + k

=============================================================================
