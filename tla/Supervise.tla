-------------------------------- MODULE Supervise --------------------------------
(***************************************************************************)
(* The supervised finish of a deep-sky run (superviseFinish driving the    *)
(* deepskyRenderer) and the conversation it holds with the user (Turn):    *)
(* render, let the model judge, listen to the user, decide what to change, *)
(* ask before an expensive change, render again; and keep the best pass.   *)
(*                                                                         *)
(* A preset is abstracted to what its tiers distinguish: which of its      *)
(* knobs have changed since the stage they belong to was last made.  The   *)
(* three stages are tiers: the composite (A), the linear prep (B) and the  *)
(* stack (C); a stage remakes the ones below it.                           *)
(*                                                                         *)
(* At this commit the deep-sky renderer's first pass panics, for want of a *)
(* result (prepGimpInputs): RunDir has that.  Here a rendering returns, as *)
(* those of the other modes that drive the same loop do.                   *)
(***************************************************************************)
EXTENDS Turn, FiniteSets, Integers

CONSTANTS
  KnobA, KnobB, KnobC,  \* the knobs of a preset, by the tier a change of them needs
  Slip,                 \* the knobs capToTier forgets to revert: sky_desat, sky_lum_flatten_px,
                        \* emit_luminance_mono ... (B); seam_noise_eq, union_canvas ... (C)
  MaxPatch,             \* bound: knobs the model changes in one patch
  Iters,                \* superviseIters
  BudgetB, BudgetC,     \* superviseBudgets
  Score,                \* combined scores, in tenths
  Run                   \* bound: the kinds of run tried (see RunKind)

Knob == KnobA \cup KnobB \cup KnobC
A == 0
B == 1
C == 2
Tier == {A, B, C}

\* A run: its tier ceiling, whether it asks before a re-stack, whether it is
\* seeded by a prior run of its target, whether its request had a goal; and, a
\* bound, whether a page follows it (a reader only listens, so it need not be
\* tried with every kind of run).
RunKind == [ceiling : Tier, gated : BOOLEAN, warm : BOOLEAN, goal : BOOLEAN, followed : BOOLEAN]

ASSUME KnobAssumption ==
  /\ KnobA \cap KnobB = {} /\ KnobA \cap KnobC = {} /\ KnobB \cap KnobC = {}
  /\ Slip \subseteq KnobB \cup KnobC
ASSUME BoundAssumption ==
  /\ MaxPatch \in Nat /\ Iters \in Nat \ {0} /\ BudgetB \in Nat /\ BudgetC \in Nat
  /\ Score \subseteq Nat /\ Score # {} /\ Run \subseteq RunKind

None == 999       \* no pass yet
ASSUME NoneAssumption == None \notin Score

VARIABLES
  run,        \* the run's options
  pc, i,
  renderTier, budgetB, budgetC,
  unmade,     \* knobs of the working preset that the stages on disk do not reflect
  best,       \* best.score, or None
  noImprove,
  guided,     \* guidance is not empty
  steered,    \* it was not empty when this pass was judged
  patch,      \* the model's patch, while the user is asked about it
  cause,      \* what ended the loop
  \* history
  restacks, preps,  \* renders at tier C, and at tier B after the first
  overrun,    \* a render beyond the affordable tier was planned, or one at B or C repeated
  late,       \* renders begun since the user asked to stop
  acked,      \* the first answer to the current question that was accepted (ok: true)
  expired     \* the current question ended without an answer

planVars == <<renderTier, budgetB, budgetC, unmade, overrun>>
passVars == <<i, best, noImprove, steered>>
gateVars == <<patch, acked, expired>>
doneVars == <<restacks, preps, late>>
loopVars == <<pc, planVars, passVars, guided, gateVars, cause, doneVars>>
vars     == <<turnVars, run, loopVars>>

Init ==
  /\ InitTurn
  /\ run \in Run
  /\ pc = "render" /\ i = 0
  /\ renderTier = B /\ budgetB = BudgetB /\ budgetC = BudgetC
  /\ unmade = IF run.warm THEN Knob ELSE {}
  /\ best = None /\ noImprove = 0
  /\ guided = run.goal /\ steered = FALSE
  /\ patch = {} /\ cause = "none"
  /\ restacks = 0 /\ preps = 0 /\ overrun = FALSE
  /\ late = 0 /\ acked = "none" /\ expired = FALSE

-----------------------------------------------------------------------------
(* Tiers.                                                                  *)

\* The knobs of the stages above a tier, and of those up to it.
Above(t) == CASE t = C -> {} [] t = B -> KnobC [] t = A -> KnobB \cup KnobC
UpTo(t)  == Knob \ Above(t)

\* Broken variant: the cheapest tier that has a change.
TierOfCheapest(p) == IF p \cap KnobA # {} THEN A ELSE IF p \cap KnobB # {} THEN B ELSE
                     IF p \cap KnobC # {} THEN C ELSE A

\* tierOf: the most expensive stage a change needs.
TierOf(p) == IF p \cap KnobC # {} THEN C ELSE IF p \cap KnobB # {} THEN B ELSE A

\* Broken variant: only the ceiling counts.
AffordableByCeiling == run.ceiling

\* affordableTier: a spent budget caps at the tier below.
Affordable ==
  LET t == IF run.ceiling = C /\ budgetC <= 0 THEN B ELSE run.ceiling
  IN IF t >= B /\ budgetB <= 0 THEN A ELSE t

\* capToTier: a patch without the changes above a tier, but for those it forgets.
CapToTier(p, t) == p \ (Above(t) \ Slip)

-----------------------------------------------------------------------------
(* A pass.                                                                 *)

End(why) == pc' = "close" /\ cause' = why

\* The loop ends before the pass is rendered: all iterations are spent, or the
\* run was cancelled (which is seen here, and as an answer that does not come).
Exhausted ==
  /\ pc = "render"
  /\ \/ i = Iters /\ End("spent")
     \/ i < Iters /\ End("cancelled")
  /\ UNCHANGED <<turnVars, run, planVars, passVars, guided, gateVars, doneVars>>

\* render and measureFinish: the stages from renderTier down are made anew.
Render ==
  /\ pc = "render" /\ i < Iters
  /\ pc' = "judge"
  /\ unmade' = unmade \ UpTo(renderTier)
  /\ restacks' = restacks + (IF renderTier = C THEN 1 ELSE 0)
  /\ preps' = preps + (IF renderTier = B /\ i > 0 THEN 1 ELSE 0)
  /\ late' = late + (IF stopping THEN 1 ELSE 0)
  /\ acked' = "none" /\ expired' = FALSE
  /\ UNCHANGED <<turnVars, run, renderTier, budgetB, budgetC, overrun, passVars, guided, patch,
                 cause>>

\* Either fails (a re-stack without raw frames always does): the passes so far
\* are kept, and with none the caller falls back to the standard finish.
RenderFails ==
  /\ pc = "render" /\ i < Iters
  /\ End("render")
  /\ UNCHANGED <<turnVars, run, planVars, passVars, guided, gateVars, doneVars>>

\* critique: the model has judged the pass (or is away: a neutral score); the
\* pass is recorded, published and compared with the best one.
Judge ==
  /\ pc = "judge" /\ pc' = "listen"
  /\ steered' = guided /\ guided' = FALSE
  /\ \E score \in Score :
       /\ best' = IF best = None \/ score > best THEN score ELSE best
       /\ noImprove' = IF best = None \/ score > best + 1 THEN 0 ELSE noImprove + 1
  /\ Publish
  /\ UNCHANGED <<run, planVars, hub, askVars, mailVars, i, gateVars, cause, doneVars>>

\* Broken variant: a stop request that comes with a nudge is taken for a nudge.
ListenToNudges ==
  /\ pc = "listen"
  /\ Drain
  /\ guided' = nudged
  /\ IF stopping /\ ~nudged THEN End("stop") ELSE pc' = "decide" /\ UNCHANGED cause
  /\ UNCHANGED <<hub, events, askVars, readerVars, run, planVars, passVars, gateVars, doneVars>>

\* opts.Steer: the mailbox is emptied; a stop request ends the loop.
Listen ==
  /\ pc = "listen"
  /\ Drain
  /\ IF stopping THEN End("stop") /\ UNCHANGED guided
     ELSE pc' = "decide" /\ guided' = nudged /\ UNCHANGED cause
  /\ UNCHANGED <<hub, events, askVars, readerVars, run, planVars, passVars, gateVars, doneVars>>

-----------------------------------------------------------------------------
(* What to change.  The model's reply is drawn here, where it is used.     *)

Again == pc' = "render" /\ i' = i + 1

Deciding == pc = "decide" /\ UNCHANGED <<turnVars, run, doneVars, best, noImprove, steered>>

\* Broken variant: the model's "done" is honoured whatever the user says.
SatisfiedAlways ==
  /\ Deciding
  /\ End("done")
  /\ UNCHANGED <<planVars, i, guided, gateVars>>

\* The model says done and the metrics agree: honoured unless the user is steering.
Satisfied ==
  /\ Deciding
  /\ ~guided /\ ~steered
  /\ End("done")
  /\ UNCHANGED <<planVars, i, guided, gateVars>>

Plateau == ~guided /\ i >= 2 /\ noImprove >= 2

\* Two passes in a row that did not improve.
GoesInCircles ==
  /\ Deciding
  /\ Plateau
  /\ End("plateau")
  /\ UNCHANGED <<planVars, i, guided, gateVars>>

\* No patch, or nothing left of it: the loop has converged, or, when the user
\* asked for something, the model is asked again.
Unchanged ==
  IF guided
  THEN /\ Again
       /\ overrun' = (overrun \/ renderTier # A)
       /\ UNCHANGED <<cause, renderTier, budgetB, budgetC, unmade>>
  ELSE End("converged") /\ UNCHANGED <<i, planVars>>

\* The working preset and the tier of the next render.
Take(p) ==
  /\ Again
  /\ renderTier' = TierOf(p)
  /\ budgetC' = budgetC - (IF TierOf(p) = C THEN 1 ELSE 0)
  /\ budgetB' = budgetB - (IF TierOf(p) = B THEN 1 ELSE 0)
  /\ unmade' = unmade \cup p
  /\ overrun' = (overrun \/ TierOf(p) > Affordable)
  /\ UNCHANGED cause

Propose ==
  /\ Deciding
  /\ ~Plateau
  /\ \E p \in SUBSET Knob :
       LET next == CapToTier(p, Affordable) IN
       /\ Cardinality(p) <= MaxPatch
       /\ \/ next = {} /\ Unchanged /\ UNCHANGED gateVars
          \/ /\ next # {} /\ (TierOf(next) = C => ~run.gated)
             /\ Take(next) /\ UNCHANGED gateVars
          \/ /\ TierOf(next) = C /\ run.gated
             /\ pc' = "ask" /\ patch' = p
             /\ UNCHANGED <<acked, expired, planVars, i, cause>>
  /\ UNCHANGED guided

-----------------------------------------------------------------------------
(* confirmHook: the gate before a re-stack.                                *)

Waiting == UNCHANGED <<run, planVars, passVars, guided, patch, cause, doneVars>>

\* The question is published ...
Ask ==
  /\ pc = "ask" /\ pc' = "register"
  /\ Publish
  /\ Waiting /\ UNCHANGED <<hub, askVars, mailVars, acked, expired>>

\* ... and only then registered.
Await ==
  /\ pc = "register" /\ pc' = "wait"
  /\ Register
  /\ Waiting /\ UNCHANGED <<hub, events, mailVars, readerVars, acked, expired>>

\* Broken variant: the question waits until a page's stream ends it.
ExpireWithPage ==
  /\ pc = "wait" /\ pc' = "expired"
  /\ \E r \in Reader : rpc[r] # "off"
  /\ expired' = TRUE
  /\ Waiting /\ UNCHANGED <<turnVars, acked>>

\* Ten minutes pass, or the run is cancelled.  An answer may be in the buffer.
Expire ==
  /\ pc = "wait" /\ pc' = "expired"
  /\ expired' = TRUE
  /\ Waiting /\ UNCHANGED <<turnVars, acked>>

\* awaitConfirm returns: the question is forgotten, answered or not.
Settled ==
  /\ Forget /\ patch' = {}
  /\ UNCHANGED <<hub, events, mailVars, readerVars, run, best, noImprove, steered, guided,
                 acked, expired, doneVars>>

\* No answer counts as "Proceed".
GiveUp ==
  /\ pc = "expired"
  /\ Take(CapToTier(patch, Affordable))
  /\ Settled

\* Broken variant: any answer is taken for consent.
DeclineNothing ==
  /\ pc = "skip"
  /\ Take(CapToTier(patch, Affordable))
  /\ Settled

\* An answer is taken from the buffer.  The question is still registered, so
\* that a second one would be accepted, and lost.
Receive ==
  /\ pc = "wait" /\ reply # "none" /\ pc' = reply
  /\ reply' = "none" /\ UNCHANGED pending
  /\ Waiting /\ UNCHANGED <<hub, events, mailVars, readerVars, acked, expired>>

Proceed ==
  /\ pc = "proceed"
  /\ Take(CapToTier(patch, Affordable))
  /\ Settled

\* Anything but "Proceed" caps the change to tier B.
Decline ==
  /\ pc = "skip"
  /\ LET less == CapToTier(patch, B) IN
       \/ less = {} /\ Unchanged
       \/ less # {} /\ Take(less)
  /\ Settled

-----------------------------------------------------------------------------
(* The end of the run: the winner's bubble once more, then closeTurn.      *)

Closing == UNCHANGED <<run, planVars, passVars, guided, gateVars, cause, doneVars,
                       askVars, mailVars>>

Winner ==
  /\ pc = "close" /\ pc' = "final"
  /\ IF best = None THEN UNCHANGED <<events, readerVars>> ELSE Publish
  /\ Closing /\ UNCHANGED hub

Final ==
  /\ pc = "final" /\ pc' = "finish"
  /\ Publish
  /\ Closing /\ UNCHANGED hub

Finish ==
  /\ pc = "finish" /\ pc' = "ended"
  /\ hub' = "finished"
  /\ Publish
  /\ Closing

\* reapGrace after the turn finished.
Reap ==
  /\ hub = "finished" /\ hub' = "reaped"
  /\ UNCHANGED <<events, askVars, mailVars, readerVars, run, loopVars>>

-----------------------------------------------------------------------------
\* The user.
Speak ==
  /\ Nudge \/ Stop
  /\ UNCHANGED <<hub, events, askVars, readerVars, run, loopVars>>

Answer ==
  /\ \E c \in Choice : Resolve(c) /\ acked' = IF acked = "none" THEN c ELSE acked
  /\ UNCHANGED <<hub, events, mailVars, readerVars, run, pc, planVars, passVars, guided, patch,
                 expired, cause, doneVars>>

Read ==
  /\ run.followed
  /\ \E r \in Reader : ReaderStep(r)
  /\ UNCHANGED <<hub, events, askVars, mailVars, run, loopVars>>

LoopStep ==
  \/ Exhausted \/ Render \/ RenderFails \/ Judge \/ Listen \/ Satisfied \/ GoesInCircles
  \/ Propose \/ Ask \/ Await \/ Expire \/ GiveUp
  \/ Receive \/ Proceed \/ Decline \/ Winner \/ Final \/ Finish

Next == LoopStep \/ Reap \/ Speak \/ Answer \/ Read

Spec == Init /\ [][Next]_vars

\* The run computes, the model and the timer answer, a browser reads what it
\* is sent.  Nothing is asked of the user.
FairSpec ==
  /\ Spec /\ WF_vars(LoopStep)
  /\ \A r \in Reader :
       WF_vars(Serve(r) /\ UNCHANGED <<hub, events, askVars, mailVars, run, loopVars>>)

-----------------------------------------------------------------------------
TypeOK ==
  /\ TurnTypeOK
  /\ run \in Run
  /\ pc \in {"render", "judge", "listen", "decide", "ask", "register", "wait", "expired",
             "proceed", "skip", "close", "final", "finish", "ended"}
  /\ i \in 0..Iters /\ renderTier \in Tier /\ budgetB \in Int /\ budgetC \in Int
  /\ unmade \subseteq Knob /\ best \in Score \cup {None} /\ noImprove \in 0..Iters
  /\ guided \in BOOLEAN /\ steered \in BOOLEAN /\ patch \subseteq Knob
  /\ cause \in {"none", "spent", "cancelled", "render", "stop", "done", "plateau", "converged"}
  /\ restacks \in Nat /\ preps \in Nat /\ overrun \in BOOLEAN /\ late \in Nat
  /\ acked \in Choice \cup {"none"} /\ expired \in BOOLEAN

\* A rendered pass shows the working preset it is recorded (and, as the best
\* one, finished) with: no knob has changed since its stage was made.  The one
\* exception is a warm start, whose tier C knobs the first pass, rendered at
\* tier B, records without having stacked with them.
ImageMatchesPreset ==
  pc \in {"judge", "listen", "decide", "ask", "register", "wait", "expired",
         "proceed", "skip"} =>
    unmade = {} \/ (run.warm /\ restacks = 0 /\ unmade \subseteq KnobC)

\* Nobody who asked for a change is left without an answer because the model
\* is content, the scores stand still or a patch came to nothing: guidance is
\* gone when the loop stops for one of those reasons.
NudgeHeard == cause \in {"done", "plateau", "converged"} => ~guided

\* After a stop request at most one more pass is rendered (the request may have
\* come after the mailbox was emptied): "stop is in-band".
StopHeeded == late <= 1

\* The user declined the last question, in time.
Declined == acked = "skip" /\ ~expired

\* An accepted "Skip" counts, unless the question expired meanwhile: what was
\* asked about is not rendered (as long as the patch had no change capToTier
\* forgets, and the last pass is not repeated for a nudge).
AnswerCounts ==
  pc = "render" /\ Declined /\ renderTier = C => unmade = {} \/ unmade \cap Slip # {}

\* Tier budgets hold, "so full autonomy can never blow up wall-clock" - as long
\* as no patch had a change capToTier forgets and no pass was repeated for a
\* nudge; those two ways spend no budget.
BudgetKept == ~overrun => restacks <= BudgetC /\ preps <= BudgetB

\* A run whose watcher walked away still completes.
LoopEnds == <>(pc = "ended")

=============================================================================
