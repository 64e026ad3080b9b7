------------------------------ MODULE FrameLoops ------------------------------
(***************************************************************************)
(* The three helpers that run the body of a loop in parallel: over frames  *)
(* consumed in order (planetary's orderedFrames: a dispatcher, a decoder   *)
(* per frame and one consumer), over frames in any order (forEachFrame),   *)
(* and over the bands of a stack (stacknative's forEachBand: a dispatcher  *)
(* that hands bands to a pool).  The body may fail; the context may be     *)
(* cancelled at any moment.                                                *)
(***************************************************************************)
EXTENDS Integers, Sequences, FiniteSets

CONSTANTS
  Frames,     \* how many frames (or bands)
  Workers     \* how many at once

ASSUME FrameAssumption  == Frames \in Nat
ASSUME WorkerAssumption == Workers \in Nat \ {0}

Item == 1 .. Frames
Pool == 1 .. Workers

VARIABLES
  loop,       \* which helper
  ctx,        \* the caller's context is cancelled
  err,        \* an error was returned (the first one cancels an errgroup)
  dpc, next,  \* the dispatcher: its step, and the next item
  item,       \* each item: new, taken (a goroutine has it), busy, ready, using, done, failed
  window,     \* tokens of the window in use
  cpc,        \* the consumer's step
  used,       \* the frames consumed, in the order they were
  hand,       \* per worker of the pool: its item, 0 when it waits for one, Gone
  result      \* what the helper returned

outside == <<loop, ctx>>
vars == <<loop, ctx, err, dpc, next, item, window, cpc, used, hand, result>>

Gone == Frames + 1
gctx == ctx \/ err
Has(S) == {i \in Item : item[i] \in S}
Limit == Cardinality(Has({"taken", "busy"})) < Workers

Init ==
  /\ loop \in {"ordered", "frames", "bands"} /\ ctx = FALSE /\ err = FALSE
  /\ dpc = "head" /\ next = 1 /\ item = [i \in Item |-> "new"]
  /\ window = 0 /\ used = <<>>
  /\ cpc = IF loop = "ordered" THEN "receive" ELSE "gone"
  /\ hand = [w \in Pool |-> IF loop = "bands" THEN 0 ELSE Gone]
  /\ result = "none"

Cancel == ~ctx /\ ctx' = TRUE /\ UNCHANGED <<loop, err, dpc, next, item, window, cpc, used, hand, result>>

\* A step of the dispatcher.
Dispatch(from, to) == dpc = from /\ dpc' = to

-----------------------------------------------------------------------------
(* orderedFrames.                                                          *)

\* Broken variant: one token too many.
RoomForOneMore == window <= Workers + 2
Room == window < Workers + 2

\* The dispatcher takes a token, or sees the cancellation: it returns then
\* without waiting for its decoders.  When every frame is dispatched it waits.
TakeToken ==
  /\ loop = "ordered" /\ next <= Frames
  /\ \/ Dispatch("head", "spawn") /\ Room /\ window' = window + 1 /\ UNCHANGED err
     \/ Dispatch("head", "gone") /\ gctx /\ err' = TRUE /\ UNCHANGED window
  /\ UNCHANGED <<outside, next, item, cpc, used, hand, result>>

\* dec.Go blocks while the decoders are at their limit.
SpawnDecoder ==
  /\ loop = "ordered" /\ Dispatch("spawn", "head") /\ Limit
  /\ item' = [item EXCEPT ![next] = "taken"] /\ next' = next + 1
  /\ UNCHANGED <<outside, err, window, cpc, used, hand, result>>

AwaitDecoders ==
  /\ loop = "ordered" /\ next > Frames /\ Dispatch("head", "gone") /\ Has({"taken"}) = {}
  /\ UNCHANGED <<outside, err, next, item, window, cpc, used, hand, result>>

\* Broken variant: the slots have no room, so a decoder waits for its consumer.
DeliverToConsumer(i) ==
  /\ loop = "ordered" /\ item[i] = "taken" /\ cpc = "receive" /\ Len(used) + 1 = i
  /\ item' = [item EXCEPT ![i] = "ready"]
  /\ UNCHANGED <<outside, err, dpc, next, window, cpc, used, hand, result>>

\* The frame, readable or not, goes into its slot, which has room for it.
Deliver(i) ==
  /\ loop = "ordered" /\ item[i] = "taken"
  /\ item' = [item EXCEPT ![i] = "ready"]
  /\ UNCHANGED <<outside, err, dpc, next, window, cpc, used, hand, result>>

\* Broken variant: one channel for all frames.
TurnOfAny(i) == TRUE
\* The consumer waits at the slot of the next frame.
TurnOf(i) == i = Len(used) + 1

Receive(i) ==
  /\ loop = "ordered" /\ cpc = "receive" /\ TurnOf(i) /\ item[i] = "ready"
  /\ cpc' = "use" /\ item' = [item EXCEPT ![i] = "using"]
  /\ UNCHANGED <<outside, err, dpc, next, window, used, hand, result>>

StopConsuming ==
  /\ loop = "ordered" /\ cpc = "receive"
  /\ \/ Len(used) = Frames /\ UNCHANGED err
     \/ Len(used) < Frames /\ gctx /\ err' = TRUE
  /\ cpc' = "gone"
  /\ UNCHANGED <<outside, dpc, next, item, window, used, hand, result>>

\* consume returns, and only then is the token given back.
Consume(i) ==
  /\ loop = "ordered" /\ cpc = "use" /\ item[i] = "using"
  /\ cpc' = "receive" /\ item' = [item EXCEPT ![i] = "done"]
  /\ used' = Append(used, i) /\ window' = window - 1
  /\ UNCHANGED <<outside, err, dpc, next, hand, result>>

-----------------------------------------------------------------------------
(* forEachFrame.                                                           *)

\* No more frames are scheduled once the group is cancelled.
Schedule ==
  /\ loop = "frames"
  /\ \/ Dispatch("head", "spawn") /\ next <= Frames /\ ~gctx
     \/ Dispatch("head", "join") /\ (next > Frames \/ gctx)
  /\ UNCHANGED <<outside, err, next, item, window, cpc, used, hand, result>>

SpawnBody ==
  /\ loop = "frames" /\ Dispatch("spawn", "head") /\ Limit
  /\ item' = [item EXCEPT ![next] = "taken"] /\ next' = next + 1
  /\ UNCHANGED <<outside, err, window, cpc, used, hand, result>>

\* A goroutine looks at the context before it runs the body.
Enter(i) ==
  /\ loop = "frames" /\ item[i] = "taken"
  /\ item' = [item EXCEPT ![i] = IF gctx THEN "failed" ELSE "busy"]
  /\ err' = gctx
  /\ UNCHANGED <<outside, dpc, next, window, cpc, used, hand, result>>

Body(i) ==
  /\ loop = "frames" /\ item[i] = "busy"
  /\ \/ item' = [item EXCEPT ![i] = "done"] /\ UNCHANGED err
     \/ item' = [item EXCEPT ![i] = "failed"] /\ err' = TRUE
  /\ UNCHANGED <<outside, dpc, next, window, cpc, used, hand, result>>

-----------------------------------------------------------------------------
(* forEachBand.                                                            *)

\* A band passes from the dispatcher to a waiting worker, hand to hand.
Offer(w) ==
  /\ loop = "bands" /\ dpc = "head" /\ next <= Frames /\ hand[w] = 0
  /\ hand' = [hand EXCEPT ![w] = next] /\ item' = [item EXCEPT ![next] = "taken"]
  /\ next' = next + 1
  /\ UNCHANGED <<outside, err, dpc, window, cpc, used, result>>

\* Every band is handed out, or the context is cancelled: the channel is closed.
CloseBands ==
  /\ loop = "bands" /\ Dispatch("head", "gone") /\ (next > Frames \/ ctx)
  /\ UNCHANGED <<outside, err, next, item, window, cpc, used, hand, result>>

\* A worker looks at the context, then stacks its band; it leaves at an error.
StackBand(w) ==
  LET i == hand[w] IN
  /\ loop = "bands" /\ i \in Item
  /\ \/ item[i] = "taken" /\ ~ctx /\ item' = [item EXCEPT ![i] = "busy"] /\ UNCHANGED <<err, hand>>
     \/ item[i] = "busy" /\ item' = [item EXCEPT ![i] = "done"] /\ hand' = [hand EXCEPT ![w] = 0] /\ UNCHANGED err
     \/ /\ item[i] = "busy" \/ ctx
        /\ item' = [item EXCEPT ![i] = "failed"] /\ hand' = [hand EXCEPT ![w] = Gone] /\ err' = TRUE
  /\ UNCHANGED <<outside, dpc, next, window, cpc, used, result>>

LeavePool(w) ==
  /\ loop = "bands" /\ dpc = "gone" /\ hand[w] = 0
  /\ hand' = [hand EXCEPT ![w] = Gone]
  /\ UNCHANGED <<outside, err, dpc, next, item, window, cpc, used, result>>

-----------------------------------------------------------------------------
(* The end.                                                                *)

Joined ==
  CASE loop = "ordered" -> dpc = "gone" /\ cpc = "gone"
    [] loop = "frames"  -> dpc = "join" /\ Has({"taken", "busy"}) = {}
    [] OTHER            -> \A w \in Pool : hand[w] = Gone

\* Broken variant: only the first error of a goroutine counts.
FailedIfSeen == err
\* The first error; forEachFrame and forEachBand then look at the context.
Failed == IF loop = "ordered" THEN err ELSE err \/ ctx

Return ==
  /\ result = "none" /\ Joined
  /\ result' = IF Failed THEN "error" ELSE "ok"
  /\ UNCHANGED <<outside, err, dpc, next, item, window, cpc, used, hand>>

Step ==
  \/ TakeToken \/ SpawnDecoder \/ AwaitDecoders \/ StopConsuming
  \/ Schedule \/ SpawnBody \/ CloseBands \/ Return
  \/ \E i \in Item : Deliver(i) \/ Receive(i) \/ Consume(i) \/ Enter(i) \/ Body(i)
  \/ \E w \in Pool : Offer(w) \/ StackBand(w) \/ LeavePool(w)

Next == Step \/ Cancel

\* Every goroutine gets its turn, and decoding and stacking a frame end.
Fairness ==
  /\ WF_vars(TakeToken) /\ WF_vars(SpawnDecoder) /\ WF_vars(AwaitDecoders) /\ WF_vars(StopConsuming)
  /\ WF_vars(Schedule) /\ WF_vars(SpawnBody) /\ WF_vars(CloseBands) /\ WF_vars(Return)
  /\ \A i \in Item : WF_vars(Deliver(i)) /\ WF_vars(Receive(i)) /\ WF_vars(Consume(i)) /\ WF_vars(Enter(i)) /\ WF_vars(Body(i))
  /\ \A w \in Pool : WF_vars(Offer(w)) /\ WF_vars(StackBand(w)) /\ WF_vars(LeavePool(w))

Spec == Init /\ [][Next]_vars /\ Fairness

-----------------------------------------------------------------------------
(* Properties.                                                             *)

TypeOK ==
  /\ loop \in {"ordered", "frames", "bands"} /\ ctx \in BOOLEAN /\ err \in BOOLEAN
  /\ dpc \in {"head", "spawn", "join", "gone"} /\ next \in 1 .. Gone
  /\ item \in [Item -> {"new", "taken", "busy", "ready", "using", "done", "failed"}]
  /\ window \in Int /\ cpc \in {"receive", "use", "gone"} /\ used \in Seq(Item)
  /\ hand \in [Pool -> 0 .. Gone] /\ result \in {"none", "ok", "error"}

\* orderedFrames is the serial loop: strict order, nothing consumed after it
\* returned, and success exactly when every frame was consumed, whatever the
\* decoders and the cancellation do ("bit-identical to the old serial loops").
Serial == INSTANCE SerialLoop WITH
  used <- IF loop = "ordered" THEN used ELSE <<>>,
  result <- IF loop = "ordered" THEN result ELSE "none"
ImplementsSerialLoop == Serial!Spec

\* At most workers + 2 decoded frames are in memory, the ones of decoders that
\* outlive a cancelled loop included ("the window token for slot i is released
\* only once consume(i) returns").
InFlightBound == loop = "ordered" => Cardinality(Has({"taken", "ready", "using"})) <= Workers + 2

\* A helper that reports success has run the body over every item, also when a
\* cancellation was seen by the dispatcher alone.
OkMeansAll == result = "ok" => \A i \in Item : item[i] = "done"

\* Every helper returns, and once the run's context has ended no goroutine of it
\* is left: no decoder at a slot nobody reads, no dispatcher offering a band to
\* workers that have left.
Ended == result # "none" /\ dpc \in {"gone", "join"} /\ Has({"taken", "busy"}) = {}
EverythingEnds == <>(result # "none") /\ (ctx ~> Ended)
=============================================================================
