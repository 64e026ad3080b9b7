----------------------------- MODULE SuperviseProofs -----------------------------
(***************************************************************************)
(* What the supervised finish keeps for every set of knobs, every budget,  *)
(* number of passes and kind of run: a stop request is heeded, a nudge is  *)
(* not passed over, and the tier budgets bound the renders.                *)
(***************************************************************************)
EXTENDS Supervise, TLAPS

Waits   == {"ask", "register", "wait", "expired", "proceed", "skip"}
Looping == {"render", "judge", "listen", "decide"} \cup Waits
Ending  == {"close", "final", "finish", "ended"}

Types ==
  /\ run \in Run /\ pc \in Looping \cup Ending
  /\ i \in Nat /\ renderTier \in Tier /\ budgetB \in Int /\ budgetC \in Int
  /\ guided \in BOOLEAN /\ nudged \in BOOLEAN /\ stopping \in BOOLEAN /\ overrun \in BOOLEAN
  /\ restacks \in Nat /\ preps \in Nat /\ late \in Nat
  /\ reply \in Choice \cup {"none"}

\* A pass begun after the stop request goes no further than the mailbox.
Stopping == late = 0 \/ (late = 1 /\ stopping /\ pc \in {"judge", "listen"} \cup Ending)

\* The cause is set once, at the end; what it says of the guidance stays true.
Hearing ==
  /\ pc \in Looping => cause = "none"
  /\ cause \in {"done", "plateau", "converged"} => ~guided

\* Every re-stack and every re-prep, the planned one included, is paid for.
PlannedC == IF pc = "render" /\ renderTier = C THEN 1 ELSE 0
PlannedB == IF pc = "render" /\ renderTier = B /\ i > 0 THEN 1 ELSE 0
Paying ==
  ~overrun => /\ budgetC >= 0 /\ restacks + PlannedC + budgetC <= BudgetC
              /\ budgetB >= 0 /\ preps + PlannedB + budgetB <= BudgetB

IInv == Types /\ Stopping /\ Hearing /\ Paying

-----------------------------------------------------------------------------
(* Tiers.                                                                  *)

LEMMA TierOfType == ASSUME NEW p PROVE TierOf(p) \in Tier
  BY DEF TierOf, Tier

\* What is affordable has a budget left.
LEMMA AffordableIsPaid ==
  ASSUME Types
  PROVE  /\ Affordable \in Tier
         /\ Affordable = C => budgetC > 0
         /\ Affordable >= B => budgetB > 0
  <1>1. run.ceiling \in Tier
    BY BoundAssumption DEF Types, BoundAssumption, RunKind
  <1> QED
    BY <1>1 DEF Types, Affordable, Tier, A, B, C

-----------------------------------------------------------------------------
\* The places in which the loop decides what to do next.
Choosing == pc \in {"decide", "ask", "register", "wait", "expired", "proceed", "skip"}

\* What a choice leaves alone.
Others ==
  /\ UNCHANGED <<run, guided, nudged, stopping, restacks, preps, late>>
  /\ reply' \in {reply, "none"}

\* Planning the next pass pays for its tier, or overruns.
LEMMA TakeKeeps ==
  ASSUME IInv, Choosing, Others, NEW p, Take(p)
  PROVE  IInv'
  <1>1. Types'
    BY TierOfType DEF IInv, Types, Others, Take, Again, Looping
  <1>2. Stopping' /\ Hearing'
    BY DEF IInv, Stopping, Hearing, Types, Choosing, Others, Take, Again, Looping, Waits, Ending
  <1>3. Paying'
    <2> SUFFICES ASSUME ~overrun' PROVE Paying'
      BY DEF Paying
    <2>1. ~overrun /\ ~(TierOf(p) > Affordable) /\ TierOf(p) \in Tier /\ Affordable \in Tier
      BY TierOfType, AffordableIsPaid DEF IInv, Take, Types
    <2>2. /\ budgetC >= 0 /\ restacks + budgetC <= BudgetC
          /\ budgetB >= 0 /\ preps + budgetB <= BudgetB
      BY <2>1, BoundAssumption DEF BoundAssumption, IInv, Types, Paying, Choosing, PlannedC, PlannedB
    <2>3. CASE TierOf(p) = C
      <3>1. budgetC > 0
        BY <2>1, <2>3, AffordableIsPaid DEF IInv, Tier, A, B, C
      <3> QED
        BY <2>2, <2>3, <3>1, BoundAssumption
        DEF BoundAssumption, IInv, Types, Paying, PlannedC, PlannedB, Take, Again, Others, B, C
    <2>4. CASE TierOf(p) = B
      <3>1. budgetB > 0
        BY <2>1, <2>4, AffordableIsPaid DEF IInv, Tier, A, B, C
      <3> QED
        BY <2>2, <2>4, <3>1, BoundAssumption
        DEF BoundAssumption, IInv, Types, Paying, PlannedC, PlannedB, Take, Again, Others, B, C
    <2>5. CASE TierOf(p) = A
      BY <2>2, <2>5, BoundAssumption
      DEF BoundAssumption, IInv, Types, Paying, PlannedC, PlannedB, Take, Again, Others, A, B, C
    <2> QED
      BY <2>1, <2>3, <2>4, <2>5 DEF Tier
  <1> QED
    BY <1>1, <1>2, <1>3 DEF IInv

\* Repeating a pass overruns, unless it is a cheap one; converging needs no
\* guidance to be gone.
LEMMA UnchangedKeeps ==
  ASSUME IInv, Choosing, Others, Unchanged
  PROVE  IInv'
  <1>1. Types'
    BY DEF IInv, Types, Others, Unchanged, Again, End, Looping, Ending, planVars
  <1>2. Stopping' /\ Hearing'
    BY DEF IInv, Stopping, Hearing, Types, Choosing, Others, Unchanged, Again, End, Looping, Waits,
           Ending, planVars
  <1>3. Paying'
    BY BoundAssumption
    DEF BoundAssumption, IInv, Types, Paying, PlannedC, PlannedB, Choosing, Others, Unchanged, Again,
        End, planVars, A, B, C
  <1> QED
    BY <1>1, <1>2, <1>3 DEF IInv

\* The loop ends before a pass, or after one.
LEMMA EndKeeps ==
  ASSUME IInv, Exhausted \/ RenderFails \/ Satisfied \/ GoesInCircles
  PROVE  IInv'
  <1> USE DEF Exhausted, RenderFails, Satisfied, GoesInCircles, Plateau, Deciding, End, turnVars,
              askVars, mailVars, planVars, passVars, doneVars, IInv
  <1>1. Types'
    BY DEF Types, Looping, Ending
  <1>2. Stopping' /\ Hearing'
    BY DEF Types, Stopping, Hearing, Looping, Ending, Waits
  <1>3. Paying'
    BY BoundAssumption DEF BoundAssumption, Types, Paying, PlannedC, PlannedB
  <1> QED
    BY <1>1, <1>2, <1>3

\* A pass that was paid for is rendered.
LEMMA RenderKeeps ==
  ASSUME IInv, Render
  PROVE  IInv'
  <1> USE DEF Render, turnVars, askVars, mailVars, passVars, IInv
  <1>1. Types'
    BY DEF Types, Looping, Ending
  <1>2. Stopping' /\ Hearing'
    BY DEF Types, Stopping, Hearing, Looping, Ending, Waits
  <1>3. Paying'
    BY BoundAssumption
    DEF BoundAssumption, Types, Paying, PlannedC, PlannedB, Tier, A, B, C
  <1> QED
    BY <1>1, <1>2, <1>3

\* The pass is judged, and the mailbox is emptied.
LEMMA ListenKeeps ==
  ASSUME IInv, Judge \/ Listen
  PROVE  IInv'
  <1> USE DEF Judge, Listen, Drain, End, askVars, mailVars, planVars, passVars, doneVars, IInv
  <1>1. Types'
    BY DEF Types, Looping, Ending
  <1>2. Stopping' /\ Hearing'
    BY DEF Types, Stopping, Hearing, Looping, Ending, Waits
  <1>3. Paying'
    BY BoundAssumption DEF BoundAssumption, Types, Paying, PlannedC, PlannedB
  <1> QED
    BY <1>1, <1>2, <1>3

\* The model's patch is taken, dropped, or put to the user.
LEMMA ProposeKeeps ==
  ASSUME IInv, Propose
  PROVE  IInv'
  <1>1. Choosing /\ Others
    BY DEF Propose, Deciding, Choosing, Others, turnVars, askVars, mailVars, doneVars
  <1>2. CASE Unchanged
    BY <1>1, <1>2, UnchangedKeeps
  <1>3. CASE \E p \in SUBSET Knob : Take(CapToTier(p, Affordable))
    BY <1>1, <1>3, TakeKeeps
  <1>4. CASE pc = "decide" /\ pc' = "ask" /\ UNCHANGED <<planVars, i, cause>>
    <2>1. Types'
      BY <1>1, <1>4 DEF IInv, Types, Others, Looping, Waits, planVars
    <2>2. Stopping' /\ Hearing'
      BY <1>1, <1>4 DEF IInv, Types, Stopping, Hearing, Others, Looping, Waits, Ending
    <2>3. Paying'
      BY <1>1, <1>4, BoundAssumption
      DEF BoundAssumption, IInv, Types, Paying, PlannedC, PlannedB, Others, planVars
    <2> QED
      BY <2>1, <2>2, <2>3 DEF IInv
  <1> QED
    BY <1>2, <1>3, <1>4 DEF Propose, Deciding

\* The question is asked, and a choice comes of it.
LEMMA GateKeeps ==
  ASSUME IInv, Ask \/ Await \/ Expire \/ Receive \/ GiveUp \/ Proceed \/ Decline
  PROVE  IInv'
  <1>1. CASE Ask \/ Await \/ Expire \/ Receive
    <2>1. /\ UNCHANGED <<run, guided, nudged, stopping, restacks, preps, late, planVars, i, cause>>
          /\ pc \in {"ask", "register", "wait"} /\ pc' \in Waits
          /\ reply' \in Choice \cup {"none"}
      BY <1>1
      DEF IInv, Types, Ask, Await, Expire, Receive, Register, Waiting, Waits, Choice, turnVars, askVars,
          mailVars, passVars, doneVars
    <2>2. Types'
      BY <2>1 DEF IInv, Types, Looping, planVars
    <2>3. Stopping' /\ Hearing'
      BY <2>1 DEF IInv, Types, Stopping, Hearing, Looping, Waits, Ending
    <2>4. Paying'
      BY <2>1, BoundAssumption
      DEF BoundAssumption, IInv, Types, Paying, PlannedC, PlannedB, Waits, planVars
    <2> QED
      BY <2>2, <2>3, <2>4 DEF IInv
  <1>2. CASE GiveUp \/ Proceed \/ Decline
    <2>1. Choosing /\ Others
      BY <1>2 DEF GiveUp, Proceed, Decline, Settled, Forget, Choosing, Others, mailVars, doneVars
    <2> QED
      BY <1>2, <2>1, TakeKeeps, UnchangedKeeps DEF GiveUp, Proceed, Decline
  <1> QED
    BY <1>1, <1>2

\* The end of the run, and everything the user and the readers do.
LEMMA RestKeeps ==
  ASSUME IInv, Winner \/ Final \/ Finish \/ Reap \/ Speak \/ Answer \/ Read \/ UNCHANGED vars
  PROVE  IInv'
  <1>1. /\ UNCHANGED <<run, guided, restacks, preps, late, planVars, i, cause>>
        /\ nudged' \in BOOLEAN /\ stopping' \in BOOLEAN /\ (stopping => stopping')
        /\ reply' \in Choice \cup {"none"}
        /\ \/ UNCHANGED pc
           \/ pc \in Ending /\ pc' \in Ending
    BY DEF IInv, Types, Winner, Final, Finish, Reap, Speak, Answer, Read, Closing, Nudge, Stop, Resolve,
           Choice, Ending, vars, turnVars, askVars, mailVars, loopVars, passVars, doneVars
  <1>2. Types'
    BY <1>1 DEF IInv, Types, planVars
  <1>3. Stopping' /\ Hearing'
    BY <1>1 DEF IInv, Types, Stopping, Hearing, Looping, Waits, Ending
  <1>4. Paying'
    BY <1>1, BoundAssumption
    DEF BoundAssumption, IInv, Types, Paying, PlannedC, PlannedB, Ending, planVars
  <1> QED
    BY <1>2, <1>3, <1>4 DEF IInv

-----------------------------------------------------------------------------
\* The invariant holds at the start: the first pass, at tier B, is not paid for.
THEOREM SuperviseInit == Init => IInv
  <1> SUFFICES ASSUME Init PROVE IInv
    OBVIOUS
  <1>1. Types
    <2>1. run \in Run /\ run.goal \in BOOLEAN
      BY BoundAssumption DEF BoundAssumption, RunKind, Init
    <2>2. /\ pc \in Looping /\ i \in Nat /\ renderTier \in Tier
          /\ restacks \in Nat /\ preps \in Nat /\ late \in Nat
      BY DEF Init, Looping, Tier, B
    <2>3. budgetB \in Int /\ budgetC \in Int
      BY BoundAssumption DEF BoundAssumption, Init
    <2>4. /\ guided \in BOOLEAN /\ nudged \in BOOLEAN /\ stopping \in BOOLEAN
          /\ overrun \in BOOLEAN
      BY <2>1 DEF Init, InitTurn
    <2>5. reply \in Choice \cup {"none"}
      BY DEF Init, InitTurn
    <2> QED
      BY <2>1, <2>2, <2>3, <2>4, <2>5 DEF Types
  <1>2. Stopping /\ Hearing /\ Paying
    BY BoundAssumption
    DEF BoundAssumption, Init, Stopping, Hearing, Paying, PlannedC, PlannedB, B, C
  <1> QED
    BY <1>1, <1>2 DEF IInv

\* Every step of the loop, the user or a reader keeps it.
THEOREM SuperviseStep == IInv /\ [Next]_vars => IInv'
  BY EndKeeps, RenderKeeps, ListenKeeps, ProposeKeeps, GateKeeps, RestKeeps
  DEF Next, LoopStep

\* The inductive invariant of the supervised finish.
THEOREM SuperviseInvariant == Spec => []IInv
  BY SuperviseInit, SuperviseStep, PTL DEF Spec

\* After a stop request at most one more pass is rendered.
THEOREM StopIsHeeded == Spec => []StopHeeded
  <1>1. IInv => StopHeeded
    BY DEF IInv, Stopping, StopHeeded
  <1> QED
    BY <1>1, SuperviseInvariant, PTL

\* No pending guidance is dropped for "done", a plateau or an empty patch.
THEOREM NudgeIsHeard == Spec => []NudgeHeard
  <1>1. IInv => NudgeHeard
    BY DEF IInv, Hearing, NudgeHeard
  <1> QED
    BY <1>1, SuperviseInvariant, PTL

\* As long as no render overran, re-stacks and re-preps keep to their budgets.
THEOREM BudgetIsKept == Spec => []BudgetKept
  <1>1. IInv => BudgetKept
    BY BoundAssumption DEF BoundAssumption, IInv, Types, Paying, PlannedC, PlannedB, BudgetKept
  <1> QED
    BY <1>1, SuperviseInvariant, PTL

-----------------------------------------------------------------------------
(* A second invariant: the types in full, what the rendered image shows    *)
(* and what an answer is worth.                                            *)

\* The loop, once a pass has been rendered.
Rendered == {"judge", "listen", "decide"} \cup Waits

\* A pass is judged once, so that noImprove never runs ahead of the passes.
Counting ==
  /\ i \in 0..Iters /\ (pc \in Rendered => i < Iters)
  /\ noImprove \in 0..Iters /\ (pc \in {"render", "judge"} => noImprove <= i)
  /\ (pc \in Rendered => noImprove <= i + 1)

MoreTypes ==
  /\ unmade \subseteq Knob /\ patch \subseteq Knob
  /\ best \in Score \cup {None} /\ steered \in BOOLEAN
  /\ cause \in {"none", "spent", "cancelled", "render", "stop", "done", "plateau", "converged"}
  /\ acked \in Choice \cup {"none"} /\ expired \in BOOLEAN
  /\ hub \in {"open", "finished", "reaped"} /\ pending \in BOOLEAN

\* What a pass may leave unmade: nothing, or the re-stack a warm start went without.
OnlyWarm(S) == S = {} \/ (run.warm /\ restacks = 0 /\ S \subseteq KnobC)

\* The planned tier remakes whatever may still be unmade, and a rendered tier C
\* is a re-stack that was counted.
Reflecting ==
  /\ pc = "render" => OnlyWarm(unmade \ UpTo(renderTier))
  /\ pc \in Rendered => OnlyWarm(unmade)
  /\ pc \in Rendered /\ renderTier = C => restacks > 0

\* A question is registered, and answered, in its own pass only; the loop takes
\* the first answer that was accepted.
Asking ==
  /\ pc \in {"render", "judge", "listen", "decide", "ask", "register"} => ~pending
  /\ pc \in {"judge", "listen", "decide", "ask", "register"} => acked = "none"
  /\ pc = "wait" => reply = acked
  /\ pc \in {"proceed", "skip"} => acked = pc
  /\ pc = "expired" => expired

PassInv == Counting /\ MoreTypes /\ Reflecting /\ Asking /\ AnswerCounts

\* A stage remakes every knob of a patch whose tier it is.
LEMMA TierCovers ==
  ASSUME NEW p \in SUBSET Knob
  PROVE  /\ p \subseteq UpTo(TierOf(p))
         /\ UpTo(C) = Knob
         /\ Knob \ UpTo(B) = KnobC
  BY KnobAssumption DEF KnobAssumption, UpTo, Above, TierOf, Knob, A, B, C

\* Capped to tier B, a patch reaches tier C through a knob capToTier forgets only.
LEMMA CappedSlips ==
  ASSUME NEW p \in SUBSET Knob, TierOf(CapToTier(p, B)) = C
  PROVE  CapToTier(p, B) \cap Slip # {}
  BY DEF TierOf, CapToTier, Above, A, B, C

\* What deciding leaves alone of this invariant's variables.
PassOthers ==
  /\ UNCHANGED <<run, hub, best, noImprove, steered, restacks, acked, expired>>
  /\ patch' \subseteq Knob /\ ~pending' /\ pending' \in BOOLEAN

\* A patch is taken: the next pass remakes all it changes.
LEMMA TakeReflects ==
  ASSUME IInv, PassInv, Choosing, PassOthers, NEW p \in SUBSET Knob, Take(p),
         Declined /\ TierOf(p) = C => p \cap Slip # {}
  PROVE  PassInv'
  <1>1. /\ pc \in Rendered /\ pc \in Looping
        /\ pc' = "render" /\ i' = i + 1 /\ renderTier' = TierOf(p) /\ unmade' = unmade \cup p
        /\ UNCHANGED cause
    BY DEF Choosing, Rendered, Looping, Waits, Take, Again
  <1>2. Counting'
    BY <1>1, BoundAssumption DEF PassInv, Counting, PassOthers, BoundAssumption, Rendered, Waits
  <1>3. MoreTypes'
    BY <1>1 DEF PassInv, MoreTypes, PassOthers
  <1>4. Reflecting'
    <2>1. unmade' \ UpTo(renderTier') \subseteq unmade
      BY <1>1, TierCovers
    <2>2. OnlyWarm(unmade) /\ UNCHANGED <<run, restacks>>
      BY <1>1 DEF PassInv, Reflecting, PassOthers
    <2>3. OnlyWarm(unmade \ UpTo(renderTier))'
      BY <2>1, <2>2 DEF OnlyWarm
    <2> QED
      BY <1>1, <2>3 DEF Reflecting, Rendered, Waits
  <1>5. Asking'
    BY <1>1 DEF Asking, PassOthers
  <1>6. AnswerCounts'
    BY <1>1 DEF AnswerCounts, Declined, PassOthers
  <1> QED
    BY <1>2, <1>3, <1>4, <1>5, <1>6 DEF PassInv

\* Nothing is changed: the pass is repeated as it was, or the loop ends.
LEMMA UnchangedReflects ==
  ASSUME IInv, PassInv, Choosing, PassOthers, Unchanged
  PROVE  PassInv'
  <1>1. /\ pc \in Rendered /\ UNCHANGED <<renderTier, unmade>>
        /\ \/ pc' = "render" /\ i' = i + 1 /\ UNCHANGED cause
           \/ pc' = "close" /\ i' = i /\ cause' = "converged"
    BY DEF Choosing, Rendered, Waits, Unchanged, Again, End, planVars
  <1>2. Counting'
    BY <1>1, BoundAssumption DEF PassInv, Counting, PassOthers, BoundAssumption, Rendered, Waits
  <1>3. MoreTypes'
    BY <1>1 DEF PassInv, MoreTypes, PassOthers
  <1>4. OnlyWarm(unmade) /\ (renderTier = C => unmade = {})
    BY <1>1 DEF PassInv, Reflecting, OnlyWarm
  <1>5. Reflecting'
    BY <1>1, <1>4 DEF Reflecting, OnlyWarm, PassOthers, Rendered, Waits
  <1>6. Asking'
    BY <1>1 DEF Asking, PassOthers
  <1>7. AnswerCounts'
    BY <1>1, <1>4 DEF AnswerCounts, Declined, PassOthers
  <1> QED
    BY <1>2, <1>3, <1>5, <1>6, <1>7 DEF PassInv

\* A pass is rendered: the stages from the planned tier down are made anew.
LEMMA RenderReflects ==
  ASSUME IInv, PassInv, Render
  PROVE  PassInv'
  <1>1. /\ pc = "render" /\ pc' = "judge" /\ i < Iters
        /\ unmade' = unmade \ UpTo(renderTier)
        /\ restacks' = restacks + (IF renderTier = C THEN 1 ELSE 0)
        /\ acked' = "none" /\ expired' = FALSE
        /\ UNCHANGED <<hub, pending, reply, run, renderTier, i, best, noImprove, steered, patch, cause>>
    BY DEF Render, turnVars, askVars, passVars
  <1>2. Counting'
    BY <1>1 DEF PassInv, Counting, Rendered, Waits
  <1>3. MoreTypes'
    BY <1>1 DEF PassInv, MoreTypes
  <1>4. Reflecting'
    <2>1. OnlyWarm(unmade') /\ restacks \in Nat
      BY <1>1 DEF PassInv, Reflecting, IInv, Types
    <2>2. CASE renderTier = C
      <3>1. unmade' = {}
        BY <1>1, <2>2, TierCovers DEF PassInv, MoreTypes
      <3> QED
        BY <1>1, <2>1, <3>1 DEF Reflecting, OnlyWarm
    <2>3. CASE renderTier # C
      <3>1. restacks' = restacks
        BY <1>1, <2>1, <2>3
      <3> QED
        BY <1>1, <2>1, <2>3, <3>1 DEF Reflecting, OnlyWarm
    <2> QED
      BY <2>2, <2>3
  <1>5. Asking' /\ AnswerCounts'
    BY <1>1 DEF PassInv, Asking, AnswerCounts
  <1> QED
    BY <1>2, <1>3, <1>4, <1>5 DEF PassInv

\* The pass is judged, the mailbox emptied, or the loop ends.
LEMMA ListenReflects ==
  ASSUME IInv, PassInv,
         Judge \/ Listen \/ Exhausted \/ RenderFails \/ Satisfied \/ GoesInCircles
  PROVE  PassInv'
  <1>1. /\ UNCHANGED <<hub, pending, reply, run, renderTier, unmade, i, patch, acked, expired, restacks>>
        /\ \/ pc = "judge" /\ pc' = "listen" /\ UNCHANGED cause
           \/ pc = "listen" /\ pc' = "decide" /\ UNCHANGED cause
           \/ pc' = "close" /\ cause' \in {"spent", "cancelled", "render", "stop", "done", "plateau"}
    BY DEF Judge, Listen, Exhausted, RenderFails, Satisfied, GoesInCircles, Deciding, End, turnVars,
           askVars, planVars, passVars, gateVars, doneVars
  <1>2. \/ UNCHANGED <<best, noImprove, steered>>
        \/ /\ pc = "judge" /\ pc' = "listen" /\ steered' = guided
           /\ noImprove' \in {0, noImprove + 1}
           /\ best' \in Score \cup {best}
    BY DEF Judge, Listen, Exhausted, RenderFails, Satisfied, GoesInCircles, Deciding, passVars
  <1>3. Counting'
    BY <1>1, <1>2, BoundAssumption DEF PassInv, Counting, BoundAssumption, Rendered, Waits
  <1>4. MoreTypes'
    BY <1>1, <1>2 DEF PassInv, MoreTypes, IInv, Types
  <1>5. Reflecting'
    BY <1>1 DEF PassInv, Reflecting, OnlyWarm, Rendered, Waits
  <1>6. Asking' /\ AnswerCounts'
    BY <1>1 DEF PassInv, Asking, AnswerCounts
  <1> QED
    BY <1>3, <1>4, <1>5, <1>6 DEF PassInv

\* The model's patch is taken, dropped, or put to the user.
LEMMA ProposeReflects ==
  ASSUME IInv, PassInv, Propose
  PROVE  PassInv'
  <1>1. Choosing /\ UNCHANGED <<hub, pending, reply, run, best, noImprove, steered, restacks>>
        /\ pc = "decide" /\ ~pending /\ acked = "none"
    BY DEF Propose, Deciding, Choosing, turnVars, askVars, doneVars, PassInv, Asking
  <1>2. PICK p \in SUBSET Knob :
          \/ Unchanged /\ UNCHANGED gateVars
          \/ Take(CapToTier(p, Affordable)) /\ UNCHANGED gateVars
          \/ /\ pc' = "ask" /\ patch' = p
             /\ UNCHANGED <<acked, expired, planVars, i, cause>>
    BY DEF Propose
  <1>3. ASSUME UNCHANGED gateVars PROVE PassOthers
    BY <1>1, <1>3 DEF PassOthers, gateVars, PassInv, MoreTypes
  <1>4. CASE Unchanged /\ UNCHANGED gateVars
    BY <1>1, <1>3, <1>4, UnchangedReflects
  <1>5. CASE Take(CapToTier(p, Affordable)) /\ UNCHANGED gateVars
    <2>1. CapToTier(p, Affordable) \in SUBSET Knob /\ ~Declined
      BY <1>1 DEF CapToTier, Declined
    <2> QED
      BY <1>1, <1>3, <1>5, <2>1, TakeReflects
  <1>6. CASE pc' = "ask" /\ patch' = p /\ UNCHANGED <<acked, expired, planVars, i, cause>>
    <2>1. Counting' /\ MoreTypes'
      BY <1>1, <1>6 DEF PassInv, Counting, MoreTypes, Rendered, Waits, planVars
    <2>2. Reflecting' /\ Asking' /\ AnswerCounts'
      BY <1>1, <1>6 DEF PassInv, Reflecting, OnlyWarm, Asking, AnswerCounts, Rendered, Waits, planVars
    <2> QED
      BY <2>1, <2>2 DEF PassInv
  <1> QED
    BY <1>2, <1>4, <1>5, <1>6

\* The question is asked, and an answer taken or given up on.
LEMMA AskReflects ==
  ASSUME IInv, PassInv, Ask \/ Await \/ Expire \/ Receive
  PROVE  PassInv'
  <1>1. /\ UNCHANGED <<hub, run, renderTier, unmade, i, best, noImprove, steered, patch, cause, restacks,
                      acked>>
        /\ pc \in Rendered /\ pc' \in Rendered \ {"judge"} /\ pc' # "render"
    BY DEF Ask, Await, Expire, Receive, Waiting, turnVars, planVars, passVars, doneVars, Rendered, Waits,
           IInv, Types, Choice
  <1>2. Counting' /\ Reflecting' /\ AnswerCounts'
    BY <1>1 DEF PassInv, Counting, Reflecting, OnlyWarm, AnswerCounts, Rendered, Waits
  <1>3. CASE Ask
    BY <1>1, <1>2, <1>3 DEF Ask, askVars, PassInv, MoreTypes, Asking
  <1>4. CASE Await
    BY <1>1, <1>2, <1>4 DEF Await, Register, PassInv, MoreTypes, Asking
  <1>5. CASE Expire
    BY <1>1, <1>2, <1>5 DEF Expire, turnVars, askVars, PassInv, MoreTypes, Asking
  <1>6. CASE Receive
    BY <1>1, <1>2, <1>6 DEF Receive, PassInv, MoreTypes, Asking, IInv, Types, Choice
  <1> QED
    BY <1>3, <1>4, <1>5, <1>6

\* The question is settled: by time, by consent, or by a refusal, which plans no
\* re-stack that capToTier does not let slip.
LEMMA SettleReflects ==
  ASSUME IInv, PassInv, GiveUp \/ Proceed \/ Decline
  PROVE  PassInv'
  <1>1. Choosing /\ PassOthers /\ patch \in SUBSET Knob
    BY DEF GiveUp, Proceed, Decline, Settled, Forget, Choosing, PassOthers, PassInv, MoreTypes, doneVars
  <1>2. CASE GiveUp \/ Proceed
    <2>1. CapToTier(patch, Affordable) \in SUBSET Knob
      BY <1>1 DEF CapToTier
    <2>2. ~Declined /\ Take(CapToTier(patch, Affordable))
      BY <1>2 DEF GiveUp, Proceed, Declined, PassInv, Asking
    <2> QED
      BY <1>1, <2>1, <2>2, TakeReflects
  <1>3. CASE Decline
    <2>1. CapToTier(patch, B) \in SUBSET Knob
      BY <1>1 DEF CapToTier
    <2>2. TierOf(CapToTier(patch, B)) = C => CapToTier(patch, B) \cap Slip # {}
      BY <1>1, CappedSlips
    <2>3. Unchanged \/ Take(CapToTier(patch, B))
      BY <1>3 DEF Decline
    <2> QED
      BY <1>1, <2>1, <2>2, <2>3, TakeReflects, UnchangedReflects
  <1> QED
    BY <1>2, <1>3

\* The end of the run, the readers, and a user who can only answer a question
\* that is registered.
LEMMA RestReflects ==
  ASSUME IInv, PassInv, Winner \/ Final \/ Finish \/ Reap \/ Speak \/ Answer \/ Read \/ UNCHANGED vars
  PROVE  PassInv'
  <1>1. /\ UNCHANGED <<run, renderTier, unmade, i, best, noImprove, steered, patch, cause, restacks,
                      pending, expired>>
        /\ hub' \in {hub, "finished", "reaped"}
        /\ UNCHANGED pc \/ pc' \in {"final", "finish", "ended"}
    BY DEF Winner, Final, Finish, Reap, Speak, Answer, Read, Closing, Resolve, vars, turnVars, askVars,
           mailVars, planVars, passVars, gateVars, doneVars, loopVars
  <1>2. \/ UNCHANGED <<reply, acked>>
        \/ /\ pending /\ reply = "none" /\ reply' \in Choice
           /\ acked' = (IF acked = "none" THEN reply' ELSE acked) /\ UNCHANGED pc
    BY DEF Winner, Final, Finish, Reap, Speak, Answer, Read, Closing, Resolve, vars, turnVars, askVars,
           mailVars, gateVars, loopVars
  <1>3. Counting' /\ Reflecting'
    BY <1>1 DEF PassInv, Counting, Reflecting, OnlyWarm, Rendered, Waits
  <1>4. MoreTypes' /\ Asking' /\ AnswerCounts'
    BY <1>1, <1>2 DEF PassInv, MoreTypes, Asking, AnswerCounts, Declined, Choice
  <1> QED
    BY <1>3, <1>4 DEF PassInv

LEMMA PassInit == Init => PassInv
  <1> SUFFICES ASSUME Init PROVE PassInv
    OBVIOUS
  <1>1. run \in RunKind
    BY BoundAssumption DEF BoundAssumption, Init
  <1>2. Counting
    BY BoundAssumption DEF Init, Counting, BoundAssumption, Rendered, Waits
  <1>3. MoreTypes
    BY DEF Init, InitTurn, MoreTypes
  <1>4. Reflecting
    <2>1. Knob \ UpTo(B) = KnobC
      BY TierCovers
    <2> QED
      BY <1>1, <2>1 DEF Init, Reflecting, OnlyWarm, Rendered, Waits, RunKind, Knob
  <1>5. Asking /\ AnswerCounts
    BY DEF Init, InitTurn, Asking, AnswerCounts, Declined
  <1> QED
    BY <1>2, <1>3, <1>4, <1>5 DEF PassInv

LEMMA PassStep == IInv /\ PassInv /\ [Next]_vars => PassInv'
  BY RenderReflects, ListenReflects, ProposeReflects, AskReflects, SettleReflects, RestReflects
  DEF Next, LoopStep

\* The second inductive invariant of the supervised finish.
THEOREM PassInvariant == Spec => []PassInv
  BY PassInit, PassStep, SuperviseInvariant, PTL DEF Spec

\* What the user sees of a pass is what its preset says, but for the stack of a
\* warm start.
THEOREM ImageIsTrue == Spec => []ImageMatchesPreset
  <1>1. PassInv => ImageMatchesPreset
    BY DEF PassInv, Reflecting, OnlyWarm, Rendered, Waits, ImageMatchesPreset
  <1> QED
    BY <1>1, PassInvariant, PTL

\* What the user declined in time is not rendered.
THEOREM RefusalCounts == Spec => []AnswerCounts
  <1>1. PassInv => AnswerCounts
    BY DEF PassInv
  <1> QED
    BY <1>1, PassInvariant, PTL

-----------------------------------------------------------------------------
(* The page that follows the conversation.                                 *)

\* A reader that is not subscribed has nothing left of an earlier visit.
OffIsEmpty == \A r \in Reader : rpc[r] = "off" => chan[r] = << >> /\ ~missed[r]

ReaderTypes ==
  /\ events \in Nat
  /\ rpc \in [Reader -> {"off", "backlog", "follow"}]
  /\ backlog \in [Reader -> Nat] /\ seen \in [Reader -> Nat]
  /\ chan \in [Reader -> Seq(Nat)] /\ (\A r \in Reader : Len(chan[r]) <= ChanCap)
  /\ missed \in [Reader -> BOOLEAN]

ReaderInv == ReaderTypes /\ OffIsEmpty /\ DeliveredOnce

\* A channel before and after a publish: one longer, or the event was missed.
LEMMA PublishDelivers ==
  ASSUME ReaderInv, Publish
  PROVE  ReaderInv'
  <1> USE TurnAssumption DEF TurnAssumption, ReaderInv, ReaderTypes
  <1>1. events' = events + 1 /\ events' \in Nat /\ UNCHANGED <<rpc, backlog, seen>>
    BY DEF Publish
  <1>2. ASSUME NEW r \in Reader
        PROVE  /\ chan'[r] \in Seq(Nat) /\ Len(chan'[r]) <= ChanCap /\ missed'[r] \in BOOLEAN
               /\ rpc[r] = "off" => chan'[r] = chan[r] /\ missed'[r] = missed[r]
               /\ rpc[r] # "off" /\ ~missed'[r] => /\ ~missed[r]
                                                 /\ chan'[r] = Append(chan[r], events + 1)
    <2>1. CASE Subscribed(r) /\ ~Full(r)
      BY <2>1 DEF Publish, Subscribed, Full
    <2>2. CASE ~(Subscribed(r) /\ ~Full(r))
      BY <2>2 DEF Publish, Subscribed, Full
    <2> QED
      BY <2>1, <2>2
  <1>3. ReaderTypes'
    <2>1. chan' \in [Reader -> Seq(Nat)] /\ missed' \in [Reader -> BOOLEAN]
      BY <1>2 DEF Publish
    <2> QED
      BY <1>1, <1>2, <2>1
  <1>4. OffIsEmpty'
    BY <1>1, <1>2 DEF OffIsEmpty
  <1>5. DeliveredOnce'
    <2> SUFFICES ASSUME NEW r \in Reader, rpc'[r] # "off", ~missed'[r],
                        NEW given, given = (IF rpc'[r] = "backlog" THEN backlog'[r] ELSE seen'[r])
                 PROVE  /\ given + Len(chan'[r]) = events'
                        /\ \A k \in 1..Len(chan'[r]) : chan'[r][k] = given + k
      BY DEF DeliveredOnce
    <2>1. /\ chan'[r] = Append(chan[r], events + 1) /\ chan[r] \in Seq(Nat) /\ given \in Nat
          /\ given + Len(chan[r]) = events
          /\ \A k \in 1..Len(chan[r]) : chan[r][k] = given + k
      BY <1>1, <1>2 DEF DeliveredOnce
    <2>2. /\ Len(chan'[r]) = Len(chan[r]) + 1 /\ Len(chan[r]) \in Nat
          /\ \A k \in 1..Len(chan[r]) : chan'[r][k] = chan[r][k]
          /\ chan'[r][Len(chan[r]) + 1] = events + 1
      BY <2>1
    <2>3. given + Len(chan'[r]) = events'
      BY <1>1, <2>1, <2>2
    <2>4. ASSUME NEW k \in 1..Len(chan'[r]) PROVE chan'[r][k] = given + k
      <3>1. k \in 1..Len(chan[r]) \/ k = Len(chan[r]) + 1
        BY <2>2
      <3>2. CASE k \in 1..Len(chan[r])
        BY <2>1, <2>2, <3>2
      <3>3. CASE k = Len(chan[r]) + 1
        BY <1>1, <2>1, <2>2, <3>3
      <3> QED
        BY <3>1, <3>2, <3>3
    <2> QED
      BY <2>3, <2>4
  <1> QED
    BY <1>3, <1>4, <1>5

\* What one reader does: its place, its channel and what it was given agree, and
\* the others' are left alone.
LEMMA OneReader ==
  ASSUME ReaderInv, NEW r \in Reader, UNCHANGED events,
         NEW p \in {"off", "backlog", "follow"}, NEW b \in Nat, NEW c \in Seq(Nat), NEW s \in Nat,
         NEW m \in BOOLEAN,
         rpc' = [rpc EXCEPT ![r] = p], backlog' = [backlog EXCEPT ![r] = b],
         chan' = [chan EXCEPT ![r] = c], seen' = [seen EXCEPT ![r] = s],
         missed' = [missed EXCEPT ![r] = m],
         Len(c) <= ChanCap, p = "off" => c = << >> /\ ~m,
         p # "off" /\ ~m => LET given == IF p = "backlog" THEN b ELSE s IN
                            /\ given + Len(c) = events
                            /\ \A k \in 1..Len(c) : c[k] = given + k
  PROVE  ReaderInv'
  <1>1. ReaderTypes'
    BY DEF ReaderInv, ReaderTypes
  <1>2. OffIsEmpty'
    BY DEF ReaderInv, ReaderTypes, OffIsEmpty
  <1>3. DeliveredOnce'
    <2> SUFFICES ASSUME NEW q \in Reader, rpc'[q] # "off", ~missed'[q],
                        NEW given, given = (IF rpc'[q] = "backlog" THEN backlog'[q] ELSE seen'[q])
                 PROVE  /\ given + Len(chan'[q]) = events
                        /\ \A k \in 1..Len(chan'[q]) : chan'[q][k] = given + k
      BY DEF DeliveredOnce
    <2>1. CASE q = r
      BY <2>1 DEF ReaderInv, ReaderTypes
    <2>2. CASE q # r
      BY <2>2 DEF ReaderInv, ReaderTypes, DeliveredOnce
    <2> QED
      BY <2>1, <2>2
  <1> QED
    BY <1>1, <1>2, <1>3 DEF ReaderInv

\* A reader subscribes, sends its backlog, relays an event or leaves.
LEMMA ReadingDelivers ==
  ASSUME ReaderInv, NEW r \in Reader, ReaderStep(r), UNCHANGED events
  PROVE  ReaderInv'
  <1>1. /\ events \in Nat /\ rpc \in [Reader -> {"off", "backlog", "follow"}]
        /\ backlog \in [Reader -> Nat] /\ seen \in [Reader -> Nat] /\ chan \in [Reader -> Seq(Nat)]
        /\ missed \in [Reader -> BOOLEAN] /\ chan[r] \in Seq(Nat) /\ Len(chan[r]) <= ChanCap
    BY DEF ReaderInv, ReaderTypes
  <1>2. << >> \in Seq(Nat) /\ Len(<< >>) = 0 /\ 0 <= ChanCap
    BY TurnAssumption DEF TurnAssumption
  <1>3. CASE Close(r)
    <2>1. /\ rpc' = [rpc EXCEPT ![r] = "off"] /\ backlog' = [backlog EXCEPT ![r] = 0]
          /\ chan' = [chan EXCEPT ![r] = << >>] /\ seen' = [seen EXCEPT ![r] = 0]
          /\ missed' = [missed EXCEPT ![r] = FALSE]
      BY <1>3 DEF Close, Become
    <2> QED
      BY <1>2, <2>1, OneReader
  <1>4. CASE Subscribe(r)
    <2>1. chan[r] = << >> /\ missed[r] = FALSE
      BY <1>1, <1>4 DEF Subscribe, ReaderInv, OffIsEmpty
    <2>2. /\ rpc' = [rpc EXCEPT ![r] = "backlog"] /\ backlog' = [backlog EXCEPT ![r] = events]
          /\ chan' = [chan EXCEPT ![r] = << >>] /\ seen' = [seen EXCEPT ![r] = seen[r]]
          /\ missed' = [missed EXCEPT ![r] = FALSE]
      BY <1>1, <1>4, <2>1 DEF Subscribe, Become
    <2>3. /\ events + Len(<< >>) = events
          /\ \A k \in 1..Len(<< >>) : << >>[k] = events + k
      BY <1>1, <1>2
    <2>4. seen[r] \in Nat
      BY <1>1
    <2> QED
      BY ONLY ReaderInv, UNCHANGED events, <1>1, <1>2, <2>2, <2>3, <2>4, OneReader
  <1>5. CASE SendBacklog(r) /\ ~Close(r)
    <2>1. /\ rpc' = [rpc EXCEPT ![r] = "follow"] /\ backlog' = [backlog EXCEPT ![r] = 0]
          /\ chan' = [chan EXCEPT ![r] = chan[r]] /\ seen' = [seen EXCEPT ![r] = backlog[r]]
          /\ missed' = [missed EXCEPT ![r] = missed[r]] /\ rpc[r] = "backlog"
      BY <1>1, <1>5 DEF SendBacklog, Become
    <2>2. ~missed[r] => /\ backlog[r] + Len(chan[r]) = events
                        /\ \A k \in 1..Len(chan[r]) : chan[r][k] = backlog[r] + k
      BY <2>1 DEF ReaderInv, DeliveredOnce
    <2> QED
      BY <1>1, <2>1, <2>2, OneReader
  <1>6. CASE Relay(r) /\ ~Close(r)
    <2>1. /\ rpc[r] = "follow" /\ chan[r] # << >>
          /\ rpc' = [rpc EXCEPT ![r] = "follow"] /\ backlog' = [backlog EXCEPT ![r] = backlog[r]]
          /\ chan' = [chan EXCEPT ![r] = Tail(chan[r])]
          /\ seen' = [seen EXCEPT ![r] = Head(chan[r])]
          /\ missed' = [missed EXCEPT ![r] = missed[r]]
      BY <1>1, <1>6 DEF Relay
    <2>2. /\ Head(chan[r]) = chan[r][1] /\ chan[r][1] \in Nat
          /\ Tail(chan[r]) \in Seq(Nat) /\ Len(Tail(chan[r])) = Len(chan[r]) - 1
          /\ Len(chan[r]) \in Nat /\ Len(chan[r]) >= 1
          /\ \A k \in 1..Len(Tail(chan[r])) : Tail(chan[r])[k] = chan[r][k + 1]
      BY <1>1, <2>1
    <2>3. ~missed[r] => /\ seen[r] + Len(chan[r]) = events
                        /\ \A k \in 1..Len(chan[r]) : chan[r][k] = seen[r] + k
      BY <2>1 DEF ReaderInv, DeliveredOnce
    <2>4. ASSUME ~missed[r]
          PROVE  /\ Head(chan[r]) + Len(Tail(chan[r])) = events
                 /\ \A k \in 1..Len(Tail(chan[r])) : Tail(chan[r])[k] = Head(chan[r]) + k
      <3>1. Head(chan[r]) = seen[r] + 1 /\ seen[r] \in Nat
        BY <1>1, <2>2, <2>3, <2>4
      <3>2. Head(chan[r]) + Len(Tail(chan[r])) = events
        BY <1>1, <2>2, <2>3, <2>4, <3>1
      <3>3. ASSUME NEW k \in 1..Len(Tail(chan[r])) PROVE Tail(chan[r])[k] = Head(chan[r]) + k
        <4>1. k + 1 \in 1..Len(chan[r]) /\ Tail(chan[r])[k] = chan[r][k + 1] /\ k \in Nat
          BY <2>2
        <4>2. chan[r][k + 1] = seen[r] + (k + 1)
          BY <2>3, <2>4, <4>1
        <4> QED
          BY <3>1, <4>1, <4>2
      <3> QED
        BY <3>2, <3>3
    <2>5. Len(Tail(chan[r])) <= ChanCap
      BY <1>1, <2>2, TurnAssumption DEF TurnAssumption
    <2> QED
      BY <1>1, <2>1, <2>2, <2>4, <2>5, OneReader
  <1> QED
    BY <1>3, <1>4, <1>5, <1>6 DEF ReaderStep, Serve, HangUp

LEMMA ReaderInit == Init => ReaderInv
  BY TurnAssumption
  DEF TurnAssumption, Init, InitTurn, ReaderInv, ReaderTypes, OffIsEmpty, DeliveredOnce

LEMMA ReaderInvStep == ReaderInv /\ [Next]_vars => ReaderInv'
  <1> SUFFICES ASSUME ReaderInv, [Next]_vars PROVE ReaderInv'
    OBVIOUS
  <1>1. CASE UNCHANGED <<events, readerVars>>
    BY <1>1 DEF readerVars, ReaderInv, ReaderTypes, OffIsEmpty, DeliveredOnce
  <1>2. CASE Publish
    BY <1>2, PublishDelivers
  <1>3. CASE Read
    BY <1>3, ReadingDelivers DEF Read
  <1> QED
    BY <1>1, <1>2, <1>3
    DEF Next, LoopStep, Exhausted, Render, RenderFails, Judge, Listen, Satisfied, GoesInCircles, Propose,
        Deciding, Ask, Await, Expire, GiveUp, Receive, Proceed, Decline, Settled, Winner, Final, Finish,
        Reap, Speak, Answer, vars, turnVars

\* A page is given the whole conversation, each event once and in its place,
\* whenever it connects.
THEOREM ConversationIsWhole == Spec => []DeliveredOnce
  <1>1. ReaderInv => DeliveredOnce
    BY DEF ReaderInv
  <1> QED
    BY <1>1, ReaderInit, ReaderInvStep, PTL DEF Spec

\* Every variable keeps its type, and every counter its bound.
THEOREM TypeCorrect == Spec => []TypeOK
  <1>1. Spec => []ReaderInv
    BY ReaderInit, ReaderInvStep, PTL DEF Spec
  <1>2. IInv /\ PassInv /\ ReaderInv => TypeOK
    BY DEF IInv, Types, PassInv, Counting, MoreTypes, ReaderInv, ReaderTypes, TypeOK, TurnTypeOK, Looping,
           Waits, Ending
  <1> QED
    BY <1>1, <1>2, SuperviseInvariant, PassInvariant, PTL

=============================================================================
