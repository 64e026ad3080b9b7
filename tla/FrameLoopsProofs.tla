--------------------------- MODULE FrameLoopsProofs ---------------------------
(***************************************************************************)
(* For any number of items and workers: types, the bound on the frames in  *)
(* memory, that success means every item, and that orderedFrames is the    *)
(* serial loop.                                                            *)
(*                                                                         *)
(* The invariant says where every item is: those from next on are new, the *)
(* consumer has used the first ones in order, and what lies between is in  *)
(* the window.  The number of tokens is then a difference of two indices,  *)
(* and no proof has to count a set that changes.                           *)
(***************************************************************************)
EXTENDS FrameLoops, FiniteSetTheorems, TLAPS

\* The state of the items against the dispatcher's index, whatever the loop.
Items ==
  /\ \A i \in Item : item[i] = "new" <=> i >= next
  /\ dpc = "spawn" => next <= Frames
  /\ \A i \in Item : item[i] = "failed" => err
  /\ loop = "ordered" => \A i \in Item : item[i] \notin {"busy", "failed"}
  /\ loop # "ordered" => /\ cpc = "gone"
                         /\ \A i \in Item : item[i] \notin {"ready", "using"}

\* orderedFrames: used is 1, 2, 3, ..., and the tokens are the frames from the
\* first that is not consumed to the last that is dispatched.
Ordered ==
  loop = "ordered" =>
    /\ \A k \in 1 .. Len(used) : used[k] = k
    /\ Len(used) < next
    /\ \A i \in Item : item[i] = "done" <=> i <= Len(used)
    /\ \A i \in Item : item[i] = "using" <=> cpc = "use" /\ i = Len(used) + 1
    /\ window = next - 1 - Len(used) + (IF dpc = "spawn" THEN 1 ELSE 0)
    /\ window <= Workers + 2
    /\ cpc = "gone" /\ ~err => Len(used) = Frames
    /\ err => (dpc = "gone" /\ next <= Frames) \/ (cpc = "gone" /\ Len(used) < Frames)
    /\ result # "none" => dpc = "gone" /\ cpc = "gone"
    /\ result = "ok" => Len(used) = Frames
    /\ result = "error" => Len(used) < Frames

\* forEachFrame: nothing is left to schedule but after an error or a cancel.
EachFrame ==
  loop = "frames" =>
    /\ dpc = "join" => next > Frames \/ ctx \/ err
    /\ result # "none" => dpc = "join" /\ \A i \in Item : item[i] \notin {"taken", "busy"}
    /\ result = "ok" => \A i \in Item : item[i] = "done"

\* forEachBand: a band in work is in somebody's hand; workers leave at an error,
\* or when the channel is closed.
EachBand ==
  loop = "bands" =>
    /\ dpc = "gone" => next > Frames \/ ctx
    /\ \A w \in Pool : hand[w] = Gone => err \/ dpc = "gone"
    /\ \A w \in Pool : hand[w] = Gone \/ hand[w] < next
    /\ \A i \in Item : item[i] \in {"taken", "busy"} => \E w \in Pool : hand[w] = i
    /\ result # "none" => \A w \in Pool : hand[w] = Gone
    /\ result = "ok" => \A i \in Item : item[i] = "done"

Inv == TypeOK /\ Items /\ Ordered /\ EachFrame /\ EachBand

USE FrameAssumption, WorkerAssumption

LEMMA InitInv == Init => Inv
<1> SUFFICES ASSUME Init PROVE Inv
  OBVIOUS
<1>0. /\ used \in Seq(Item) /\ Len(used) = 0
      /\ next = 1 /\ window = 0 /\ dpc = "head" /\ result = "none" /\ err = FALSE
      /\ loop = "ordered" => cpc = "receive"
      /\ item \in [Item -> {"new"}] /\ hand \in [Pool -> {0, Gone}]
  BY DEF Init
<1>1. TypeOK
  <2>1. cpc \in {"receive", "gone"} /\ loop \in {"ordered", "frames", "bands"} /\ ctx = FALSE
    BY DEF Init
  <2>2. item \in [Item -> {"new", "taken", "busy", "ready", "using", "done", "failed"}]
    BY <1>0
  <2>3. hand \in [Pool -> 0 .. Gone]
    BY <1>0 DEF Gone
  <2>4. ctx \in BOOLEAN /\ err \in BOOLEAN
    BY <1>0, <2>1
  <2>5. next \in 1 .. Gone /\ window \in Int /\ used \in Seq(Item)
    BY <1>0 DEF Gone
  <2> QED
    BY <1>0, <2>1, <2>2, <2>3, <2>4, <2>5 DEF TypeOK
<1>2. Items /\ EachFrame /\ EachBand
  BY DEF Init, Items, EachFrame, EachBand, Item, Pool, Gone
<1>3. Ordered
  BY <1>0 DEF Ordered, Item
<1> QED
  BY <1>1, <1>2, <1>3 DEF Inv

LEMMA NextInv == Inv /\ [Next]_vars => Inv'
<1> SUFFICES ASSUME Inv, [Next]_vars PROVE Inv'
  OBVIOUS
<1> USE DEF Inv, TypeOK, Item, Pool, Gone
<1>1. CASE UNCHANGED vars
  BY <1>1 DEF vars, Items, Ordered, EachFrame, EachBand
<1>2. CASE Cancel
  BY <1>2 DEF Cancel, Items, Ordered, EachFrame, EachBand
<1> USE DEF outside, gctx, Dispatch
<1>3. CASE TakeToken
  <2>1. TypeOK'
    <3>1. /\ dpc' \in {"spawn", "gone"} /\ window' \in Int
          /\ UNCHANGED <<loop, ctx, next, item, cpc, used, hand, result>>
      BY <1>3 DEF TakeToken, Items
    <3>2. err' \in BOOLEAN
      BY <1>3, ZenonT(30) DEF TakeToken
    <3> QED
      BY <3>1, <3>2
  <2>2. Items'
    BY <1>3 DEF TakeToken, Room, Items, Ordered
  <2>3. Ordered'
    BY <1>3, SMTT(60) DEF TakeToken, Room, Items, Ordered
  <2>4. EachFrame'
    BY <1>3 DEF TakeToken, Room, Items, EachFrame
  <2>5. EachBand'
    BY <1>3 DEF TakeToken, Room, Items, EachBand
  <2> QED
    BY <2>1, <2>2, <2>3, <2>4, <2>5
<1>4. CASE SpawnDecoder
  BY <1>4 DEF SpawnDecoder, Items, Ordered, EachFrame, EachBand
<1>5. CASE AwaitDecoders
  BY <1>5 DEF AwaitDecoders, Items, Ordered, EachFrame, EachBand
<1>6. CASE StopConsuming
  <2>1. TypeOK'
    BY <1>6 DEF StopConsuming, Items
  <2>2. Items'
    BY <1>6 DEF StopConsuming, Items, Ordered
  <2>3. Ordered'
    BY <1>6 DEF StopConsuming, Items, Ordered
  <2>4. EachFrame'
    BY <1>6 DEF StopConsuming, Items, EachFrame
  <2>5. EachBand'
    BY <1>6 DEF StopConsuming, Items, EachBand
  <2> QED
    BY <2>1, <2>2, <2>3, <2>4, <2>5
<1>7. CASE Schedule
  BY <1>7 DEF Schedule, Items, Ordered, EachFrame, EachBand
<1>8. CASE SpawnBody
  BY <1>8 DEF SpawnBody, Items, Ordered, EachFrame, EachBand
<1>9. CASE CloseBands
  BY <1>9 DEF CloseBands, Items, Ordered, EachFrame, EachBand
<1>10. CASE Return
  <2>1. TypeOK'
    BY <1>10 DEF Return, Joined, Failed, Has, Items
  <2>2. Items'
    BY <1>10 DEF Return, Joined, Failed, Has, Items, Ordered
  <2>3. Ordered'
    BY <1>10 DEF Return, Joined, Failed, Has, Items, Ordered
  <2>4. EachFrame'
    BY <1>10 DEF Return, Joined, Failed, Has, Items, EachFrame
  <2>5. EachBand'
    <3>1. CASE loop # "bands"
      BY <1>10, <3>1 DEF Return, EachBand
    <3>2. CASE loop = "bands"
      <4>1. /\ \A w \in Pool : hand[w] = Gone
            /\ UNCHANGED <<loop, ctx, err, dpc, next, item, hand>>
            /\ result' = "ok" => ~err /\ ~ctx
        BY <1>10, <3>2 DEF Return, Joined, Failed
      <4>2. 1 \in Pool
        OBVIOUS
      <4>3. ~err /\ ~ctx => \A i \in Item : item[i] \notin {"new", "taken", "busy", "failed"}
        BY <3>2, <4>1, <4>2 DEF Items, EachBand
      <4> QED
        BY <3>2, <4>1, <4>3 DEF Items, EachBand
    <3> QED
      BY <3>1, <3>2
  <2> QED
    BY <2>1, <2>2, <2>3, <2>4, <2>5
<1>11. ASSUME NEW i \in Item, Deliver(i) PROVE Inv'
  BY <1>11 DEF Deliver, Items, Ordered, EachFrame, EachBand
<1>12. ASSUME NEW i \in Item, Receive(i) PROVE Inv'
  BY <1>12 DEF Receive, TurnOf, Items, Ordered, EachFrame, EachBand
<1>13. ASSUME NEW i \in Item, Consume(i) PROVE Inv'
  BY <1>13 DEF Consume, Items, Ordered, EachFrame, EachBand
<1>14. ASSUME NEW i \in Item, Enter(i) PROVE Inv'
  BY <1>14 DEF Enter, Items, Ordered, EachFrame, EachBand
<1>15. ASSUME NEW i \in Item, Body(i) PROVE Inv'
  <2>1. TypeOK'
    BY <1>15 DEF Body, Items
  <2>2. Items'
    BY <1>15 DEF Body, Items, Ordered
  <2>3. Ordered'
    BY <1>15 DEF Body, Items, Ordered
  <2>4. EachFrame'
    BY <1>15 DEF Body, Items, EachFrame
  <2>5. EachBand'
    BY <1>15 DEF Body, Items, EachBand
  <2> QED
    BY <2>1, <2>2, <2>3, <2>4, <2>5
<1>16. ASSUME NEW w \in Pool, Offer(w) PROVE Inv'
  BY <1>16 DEF Offer, Items, Ordered, EachFrame, EachBand
<1>17. ASSUME NEW w \in Pool, StackBand(w) PROVE Inv'
  <2> DEFINE i == hand[w]
  <2>1. /\ loop = "bands" /\ i \in Item
        /\ UNCHANGED <<loop, ctx, dpc, next, window, cpc, used, result>>
    BY <1>17 DEF StackBand
  <2>2. CASE item[i] = "taken" /\ ~ctx /\ item' = [item EXCEPT ![i] = "busy"] /\ UNCHANGED <<err, hand>>
    BY <2>1, <2>2, SMTT(60) DEF Items, Ordered, EachFrame, EachBand
  <2>3. CASE /\ item[i] = "busy" /\ item' = [item EXCEPT ![i] = "done"]
             /\ hand' = [hand EXCEPT ![w] = 0] /\ UNCHANGED err
    BY <2>1, <2>3, SMTT(60) DEF Items, Ordered, EachFrame, EachBand
  <2>4. CASE /\ item' = [item EXCEPT ![i] = "failed"]
             /\ hand' = [hand EXCEPT ![w] = Gone] /\ err' = TRUE
    BY <2>1, <2>4 DEF Items, Ordered, EachFrame, EachBand
  <2> QED
    BY <1>17, <2>2, <2>3, <2>4 DEF StackBand
<1>18. ASSUME NEW w \in Pool, LeavePool(w) PROVE Inv'
  BY <1>18 DEF LeavePool, Items, Ordered, EachFrame, EachBand
<1> QED
  BY <1>1, <1>2, <1>3, <1>4, <1>5, <1>6, <1>7, <1>8, <1>9, <1>10, <1>11, <1>12, <1>13, <1>14,
     <1>15, <1>16, <1>17, <1>18 DEF Next, Step

LEMMA SpecInv == Spec => []Inv
  BY InitInv, NextInv, PTL DEF Spec

-----------------------------------------------------------------------------
(* The theorems.                                                           *)

\* Every variable of the loops stays in its range, for any number of items and
\* workers.
THEOREM TypeCorrect == Spec => []TypeOK
  BY SpecInv, PTL DEF Inv

\* orderedFrames never holds more than workers + 2 decoded frames: what is in
\* memory is the interval between the consumer and the dispatcher.
THEOREM MemoryIsBounded == Spec => []InFlightBound
<1>1. Inv => InFlightBound
  <2> SUFFICES ASSUME Inv, loop = "ordered"
               PROVE  Cardinality(Has({"taken", "ready", "using"})) <= Workers + 2
    BY DEF InFlightBound
  <2> USE DEF Inv, TypeOK, Item, Gone
  <2> DEFINE lo == Len(used) + 1
             hi == next - 1
  <2>1. lo \in Int /\ hi \in Int
    OBVIOUS
  <2>2. Has({"taken", "ready", "using"}) = lo .. hi
    BY DEF Has, Items, Ordered
  <2>3. hi - lo + 1 <= Workers + 2 /\ lo <= hi + 1
    BY DEF Ordered
  <2>4. Cardinality(lo .. hi) = IF lo > hi THEN 0 ELSE hi - lo + 1
    BY <2>1, FS_Interval
  <2> HIDE DEF lo, hi
  <2> QED
    BY <2>1, <2>2, <2>3, <2>4
<1> QED
  BY <1>1, SpecInv, PTL

\* A helper answers ok only if the body was run over every item.
THEOREM SuccessIsComplete == Spec => []OkMeansAll
<1>1. Inv => OkMeansAll
  BY DEF Inv, TypeOK, OkMeansAll, Ordered, EachFrame, EachBand, Item
<1> QED
  BY <1>1, SpecInv, PTL

\* Every step of orderedFrames is a step of the serial loop, or invisible to its
\* caller.
THEOREM OrderedIsSerial == Spec => ImplementsSerialLoop
<1> DEFINE u == IF loop = "ordered" THEN used ELSE <<>>
           r == IF loop = "ordered" THEN result ELSE "none"
<1>1. Init => Serial!Init
  BY DEF Init, Serial!Init
<1>2. Inv /\ [Next]_vars => [Serial!Next]_<<u, r>>
  <2> SUFFICES ASSUME Inv, [Next]_vars PROVE Serial!Next \/ UNCHANGED <<u, r>>
    OBVIOUS
  <2> USE DEF Inv, TypeOK, Gone, Item
  <2>1. CASE UNCHANGED <<loop, used, result>>
    BY <2>1
  <2>2. ASSUME NEW i \in Item, Consume(i) PROVE Serial!Next
    <3>1. /\ loop = "ordered" /\ loop' = "ordered" /\ used' = Append(used, i) /\ result' = result
          /\ cpc = "use" /\ i = Len(used) + 1
      BY <2>2 DEF Consume, outside, Ordered
    <3>2. result = "none" /\ Len(used) < Frames
      BY <3>1 DEF Ordered
    <3> QED
      BY <3>1, <3>2 DEF Serial!Next, Serial!Consume
  <2>3. CASE Return
    <3>1. /\ loop' = loop /\ used' = used /\ result = "none" /\ result' = IF Failed THEN "error" ELSE "ok"
          /\ Joined
      BY <2>3 DEF Return, outside
    <3>2. CASE loop = "ordered"
      <4>1. err => Len(used) < Frames
        BY <3>1, <3>2 DEF Ordered, Joined
      <4>2. ~err => Len(used) = Frames
        BY <3>1, <3>2 DEF Ordered, Joined
      <4> QED
        BY <3>1, <3>2, <4>1, <4>2 DEF Failed, Serial!Next, Serial!Succeed, Serial!GiveUp
    <3>3. CASE loop # "ordered"
      BY <3>1, <3>3
    <3> QED
      BY <3>2, <3>3
  <2>4. CASE UNCHANGED vars \/ Cancel
    BY <2>1, <2>4 DEF vars, Cancel
  <2>5. CASE TakeToken \/ SpawnDecoder \/ AwaitDecoders \/ StopConsuming
    BY <2>1, <2>5 DEF TakeToken, SpawnDecoder, AwaitDecoders, StopConsuming, outside
  <2>6. CASE Schedule \/ SpawnBody \/ CloseBands
    BY <2>1, <2>6 DEF Schedule, SpawnBody, CloseBands, outside
  <2>7. ASSUME NEW i \in Item, Deliver(i) \/ Receive(i) \/ Enter(i) \/ Body(i) PROVE UNCHANGED <<u, r>>
    BY <2>1, <2>7 DEF Deliver, Receive, Enter, Body, outside
  <2>8. ASSUME NEW w \in Pool, Offer(w) \/ StackBand(w) \/ LeavePool(w) PROVE UNCHANGED <<u, r>>
    BY <2>1, <2>8 DEF Offer, StackBand, LeavePool, outside
  <2> QED
    BY <2>2, <2>3, <2>4, <2>5, <2>6, <2>7, <2>8 DEF Next, Step
<1> QED
  BY <1>1, <1>2, SpecInv, PTL DEF Spec, ImplementsSerialLoop, Serial!Spec
=============================================================================
