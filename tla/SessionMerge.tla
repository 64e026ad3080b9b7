------------------------------ MODULE SessionMerge ------------------------------
(***************************************************************************)
(* The cross-session merge (processChannelGroups): a channel made of       *)
(* several groups of lights - this capture's nights and earlier sessions'  *)
(* - where each group is calibrated with its own night's flat and turned   *)
(* the right way round, and all of them are then normalized, registered    *)
(* onto the anchor night's canvas and stacked.  The channels of a run work *)
(* at the same time and share the flats and the parity readings; a group   *)
(* that fails costs its own frames only; a cancel ends the channel.        *)
(***************************************************************************)
EXTENDS Integers, Sequences, SequencesExt

CONSTANTS
  Lane,          \* channels: a filter, or a filter's dual-band frames apart from the others
  FilterOf,      \* the filter of a channel's groups
  Current,       \* per channel: the groups of this capture, in scan order
  Prior,         \* per channel: the groups of earlier sessions
  RawFlat,       \* the raw flats of the catalog
  Optics,        \* the sets of parity keys that may be shot through a mirror
  MaxFaults,     \* bound: failures of a tool, and false readings
  MaxPasses      \* bound: re-stacks of the supervised finish

\* A group: [session, current, night, gain, frames]; a raw flat: [session, lane,
\* night, gain].  Nights are dates; 0 is an undated one.
Group == UNION {Range(Current[l]) \cup Prior[l] : l \in Lane}

\* A channel of the plan has at least one group.
ASSUME GroupAssumption ==
  /\ \A l \in Lane : Current[l] \in Seq(Group) /\ IsFiniteSet(Prior[l])
  /\ \A l \in Lane : Current[l] # <<>> \/ Prior[l] # {}
  /\ \A l \in Lane : (\A g \in Range(Current[l]) : g.current) /\ (\A g \in Prior[l] : ~g.current)
  /\ \A g \in Group : g.frames \in Nat \ {0} /\ g.night \in Nat

\* What the two caches are keyed by: the flat's lacks the gain.  Only groups of an
\* earlier session have one, and the channel of those is their filter.
FlatKey(l, g) == <<g.session, l, g.night>>
ParityKey(g)  == <<g.session, g.gain, g.night>>
FlatKeys   == {FlatKey(l, g) : l \in Lane, g \in Group}
ParityKeys == {ParityKey(g) : g \in Group}

VARIABLES
  plan, anchorNight, \* plan.byFilter, plan.AnchorNight
  optics,            \* the parity keys shot through a mirror
  asked, built,      \* flatCache: the keys asked for, the raws of their flats
  seen,              \* parityCache
  told, fluke,       \* parity keys with a warning; how often a key was read falsely
  cancelled, faults, passes,
  pc, at,            \* per channel: its step, the group it is at
  flat, merged,      \* that group's flat; the groups that go into the merge
  broken,            \* the groups that failed by themselves
  shown,             \* the merged groups a frame of which is seen to have registered
  canvas,            \* the group whose canvas the master has
  scale              \* pairs of groups: frames of the one were put on the other's scale

caches == <<asked, built, seen, told, fluke>>
work   == <<flat, merged, broken>>
result == <<shown, canvas, scale>>
vars   == <<plan, anchorNight, optics, caches, cancelled, faults, passes, pc, at, work, result>>

-----------------------------------------------------------------------------
(* The anchor.                                                             *)

Bit(b) == IF b THEN 1 ELSE 0
\* The first criterion that differs decides.
Beats(x, y) == \E k \in DOMAIN x : x[k] > y[k] /\ \A j \in 1 .. k - 1 : x[j] = y[j]

\* anchorOutranks: nights of this capture, then filters covered, then frames,
\* then the later night.
Lights(p, n) == {x \in UNION {{l} \X DOMAIN p[l] : l \in Lane} : p[x[1]][x[2]].night = n}
NightRank(p, n) ==
  <<Bit(\E x \in Lights(p, n) : p[x[1]][x[2]].current),
    Cardinality({FilterOf[x[1]] : x \in Lights(p, n)}),
    MapThenSumSet(LAMBDA x : p[x[1]][x[2]].frames, Lights(p, n)),
    n>>

\* computeAnchor.
AnchorOf(p) ==
  LET nights == {g.night : g \in UNION {Range(p[l]) : l \in Lane}} IN
  CHOOSE n \in nights : \A m \in nights \ {n} : Beats(NightRank(p, n), NightRank(p, m))

\* anchorGroupOutranks; its broken variant goes by the frames of the channel.
GroupRankByFrames(g) == <<Bit(g.current), g.frames, g.night>>
GroupRank(g) == <<Bit(g.night = anchorNight), Bit(g.current), g.frames, g.night>>

\* anchorGroupIndex: the first of the best, among all groups of the plan.
AnchorIndex(l) ==
  CHOOSE i \in DOMAIN plan[l] : \A j \in DOMAIN plan[l] \ {i} :
    IF j < i THEN Beats(GroupRank(plan[l][i]), GroupRank(plan[l][j]))
             ELSE ~Beats(GroupRank(plan[l][j]), GroupRank(plan[l][i]))

-----------------------------------------------------------------------------
\* buildReusePlan: the groups of this capture, then those of earlier sessions
\* as the map gives them.  No channel is worked on yet, and the caches are empty.
All(v) == [l \in Lane |-> v]
Init ==
  /\ \E order \in [Lane -> UNION {SetToSeqs(Prior[l]) : l \in Lane}] :
       /\ \A l \in Lane : order[l] \in SetToSeqs(Prior[l])
       /\ plan = [l \in Lane |-> Current[l] \o order[l]]
  /\ anchorNight = AnchorOf(plan)
  /\ optics \in Optics
  /\ asked = {} /\ built = [k \in FlatKeys |-> {}]
  /\ seen = [k \in ParityKeys |-> "unknown"]
  /\ told = {} /\ fluke = [k \in ParityKeys |-> 0]
  /\ cancelled = FALSE /\ faults = 0 /\ passes = 0
  /\ pc = All("masters") /\ at = All(1)
  /\ flat = All({}) /\ merged = All(<<>>) /\ broken = All({})
  /\ shown = All({}) /\ canvas = All(0) /\ scale = All({})

\* The group a channel is at.
G(l) == plan[l][at[l]]
Step(l, from, to) == pc[l] = from /\ pc' = [pc EXCEPT ![l] = to]

\* A tool fails: by itself, or because the run is cancelled.
Fault == faults < MaxFaults /\ faults' = faults + 1
ToolFails == (cancelled /\ UNCHANGED faults) \/ Fault

\* Go on to the next group; "merge" after the last.
NextGroup(l) ==
  /\ at' = [at EXCEPT ![l] = @ + 1]
  /\ pc' = [pc EXCEPT ![l] = IF at[l] = Len(plan[l]) THEN "merge" ELSE "masters"]

\* sessionFlatPaths: the flats of the group's session, gain and filter, and of
\* its night if there are any; the broken variant does not look at the night.
AnyFlats(l, g) == {r \in RawFlat : r.session = g.session /\ r.gain = g.gain /\ r.lane = l}
SessionFlats(l, g) ==
  LET own == {r \in AnyFlats(l, g) : g.night = 0 \/ r.night = g.night} IN
  IF own # {} THEN own ELSE AnyFlats(l, g)

\* mastersFor: the flat of this run for this capture's groups (not modelled);
\* an earlier session's is built once and kept, a failure (none) as well.
Masters(l) ==
  /\ Step(l, "masters", "calibrate")
  /\ LET g == G(l) k == FlatKey(l, G(l)) IN
     IF g.current \/ k \in asked
     THEN /\ flat' = [flat EXCEPT ![l] = IF g.current THEN {} ELSE built[k]]
          /\ UNCHANGED <<asked, built, faults>>
     ELSE /\ asked' = asked \cup {k}
          /\ \/ ~cancelled /\ UNCHANGED faults /\ built' = [built EXCEPT ![k] = SessionFlats(l, g)]
             \/ ToolFails /\ UNCHANGED built
          /\ flat' = [flat EXCEPT ![l] = built'[k]]
  /\ UNCHANGED <<plan, anchorNight, optics, seen, told, fluke, cancelled, passes, at, merged, broken, result>>

\* A group whose links fail, or whose calibration does while the run is not
\* cancelled, is left out.
Skip(l) ==
  /\ Fault /\ broken' = [broken EXCEPT ![l] = @ \cup {at[l]}] /\ NextGroup(l)
  /\ UNCHANGED <<plan, anchorNight, optics, caches, cancelled, passes, flat, merged, result>>

Leave(l) ==
  /\ pc' = [pc EXCEPT ![l] = "failed"]
  /\ UNCHANGED <<plan, anchorNight, optics, caches, cancelled, faults, passes, at, work, result>>

\* The calibration of a group; the broken variant lets a cancel pass for a
\* failure of the group.
Calibrated(l) ==
  /\ ~cancelled /\ pc' = [pc EXCEPT ![l] = "parity"]
  /\ UNCHANGED <<plan, anchorNight, optics, caches, cancelled, faults, passes, at, work, result>>
CalibrateAnyhow(l) ==
  /\ pc[l] = "calibrate"
  /\ \/ Calibrated(l)
     \/ Skip(l)
     \/ /\ cancelled /\ NextGroup(l)
        /\ UNCHANGED <<plan, anchorNight, optics, caches, cancelled, faults, passes, work, result>>
Calibrate(l) ==
  /\ pc[l] = "calibrate"
  /\ \/ Calibrated(l)
     \/ Skip(l)
     \/ cancelled /\ Leave(l)

-----------------------------------------------------------------------------
(* parityCache.correct, under its lock from the reading to the last undo.  *)

Locked == \E l \in Lane : pc[l] \in {"mirror", "verify", "undo"}

Reading == {"target", "mirror", "none"}
\* A plate-solve of a frame that lies as captured or mirrored: what it is, or
\* nothing, or (a fluke) the opposite.
Truth(k, mirrored) == IF (k \in optics) # mirrored THEN "mirror" ELSE "target"
Solve(k, mirrored, reading) ==
  \/ reading = Truth(k, mirrored) /\ ~cancelled /\ UNCHANGED <<faults, fluke>>
  \/ reading = "none" /\ ToolFails /\ UNCHANGED fluke
  \/ /\ reading \in {"target", "mirror"} \ {Truth(k, mirrored)}
     /\ ~cancelled /\ Fault /\ fluke' = [fluke EXCEPT ![k] = @ + 1]

\* The calibrated frames go into the merge, as they lie now.
Join(l, pose) ==
  /\ merged' = [merged EXCEPT ![l] = Append(@, [group |-> at[l], flat |-> flat[l], pose |-> pose])]
  /\ NextGroup(l)
Tell(k, b) == told' = IF b THEN told \cup {k} ELSE told

\* signFor: the reading of the session, from the cache or from the group's
\* first frame; only a mirrored group has more to be done.
Probe(l) ==
  LET k == ParityKey(G(l)) IN
  /\ pc[l] = "parity" /\ ~Locked
  /\ \E reading \in Reading :
       /\ IF seen[k] # "unknown"
          THEN reading = seen[k] /\ UNCHANGED <<faults, fluke, seen>>
          ELSE Solve(k, FALSE, reading) /\ seen' = [seen EXCEPT ![k] = reading]
       /\ Tell(k, reading = "none")
       /\ IF reading = "mirror"
          THEN pc' = [pc EXCEPT ![l] = "mirror"] /\ UNCHANGED <<at, merged>>
          ELSE Join(l, "captured")
  /\ UNCHANGED <<plan, anchorNight, optics, asked, built, cancelled, passes, flat, broken, result>>

\* The mirror script saves one frame after the other: when it fails, some, all
\* or none of them are mirrored.
Pose == {"captured", "mixed", "mirrored"}

MirrorUnverified(l) ==
  /\ pc[l] = "mirror"
  /\ \/ ~cancelled /\ Join(l, "mirrored") /\ UNCHANGED <<faults, told>>
     \/ ToolFails /\ Tell(ParityKey(G(l)), TRUE) /\ \E pose \in Pose : Join(l, pose)
  /\ UNCHANGED <<plan, anchorNight, optics, asked, built, seen, fluke, cancelled, passes, flat, broken, result>>
Mirror(l) ==
  /\ pc[l] = "mirror"
  /\ \/ ~cancelled /\ Step(l, "mirror", "verify") /\ UNCHANGED <<faults, told, at, merged>>
     \/ ToolFails /\ Tell(ParityKey(G(l)), TRUE) /\ \E pose \in Pose : Join(l, pose)
  /\ UNCHANGED <<plan, anchorNight, optics, asked, built, seen, fluke, cancelled, passes, flat, broken, result>>

\* verifyFlip: a group that still reads mirrored is not to be trusted.
Verify(l) ==
  LET k == ParityKey(G(l)) IN
  /\ pc[l] = "verify"
  /\ \E reading \in Reading :
       /\ Solve(k, TRUE, reading)
       /\ Tell(k, reading # "target")
       /\ IF reading = "mirror"
          THEN seen' = [seen EXCEPT ![k] = "none"] /\ Step(l, "verify", "undo") /\ UNCHANGED <<at, merged>>
          ELSE UNCHANGED seen /\ Join(l, "mirrored")
  /\ UNCHANGED <<plan, anchorNight, optics, asked, built, cancelled, passes, flat, broken, result>>

Undo(l) ==
  /\ pc[l] = "undo"
  /\ \/ ~cancelled /\ Join(l, "captured") /\ UNCHANGED faults
     \/ ToolFails /\ \E pose \in Pose : Join(l, pose)
  /\ UNCHANGED <<plan, anchorNight, optics, caches, cancelled, passes, flat, broken, result>>

-----------------------------------------------------------------------------
(* The merge.                                                              *)

Frames(l) == MapThenSumSet(LAMBDA i : plan[l][merged[l][i].group].frames, DOMAIN merged[l])

\* Every group failed; or a single frame is left, and copied to be the master.
Lone(l) ==
  /\ pc[l] = "merge" /\ Frames(l) <= 1
  /\ \/ merged[l] = <<>> /\ Step(l, "merge", "failed") /\ UNCHANGED <<faults, shown, canvas>>
     \/ merged[l] # <<>> /\ Fault /\ Step(l, "merge", "failed") /\ UNCHANGED <<shown, canvas>>
     \/ /\ merged[l] # <<>> /\ Step(l, "merge", "stacked") /\ UNCHANGED faults
        /\ shown' = [shown EXCEPT ![l] = {1}]
        /\ canvas' = [canvas EXCEPT ![l] = merged[l][1].group]
  /\ UNCHANGED <<plan, anchorNight, optics, caches, cancelled, passes, at, work, scale>>

\* NormalizeGroups: the group marked as the reference (markReferenceGroup: the
\* anchor's index in the plan, among the merged groups), else the largest.
Largest(l) ==
  CHOOSE i \in DOMAIN merged[l] : \A j \in DOMAIN merged[l] :
    \/ plan[l][merged[l][j].group].frames < plan[l][merged[l][i].group].frames
    \/ plan[l][merged[l][j].group].frames = plan[l][merged[l][i].group].frames /\ i <= j
Reference(l) == IF AnchorIndex(l) \in DOMAIN merged[l] THEN AnchorIndex(l) ELSE Largest(l)

\* The other groups are rewritten to its scale, each by itself: one that cannot
\* be read is left alone, one whose rewriting breaks off has frames that were and
\* frames that were not, and after a cancel all are left alone.
Normalize(l) ==
  /\ Step(l, "merge", "register") /\ Frames(l) > 1
  /\ LET others == DOMAIN merged[l] \ {Reference(l)} IN
     \E put \in SUBSET others :
       /\ \/ put = others /\ ~cancelled /\ UNCHANGED faults
          \/ others # {} /\ ~cancelled /\ Fault
          \/ put = {} /\ cancelled /\ UNCHANGED faults
       /\ scale' = [scale EXCEPT ![l] =
            {<<merged[l][i].group, merged[l][Reference(l)].group>> : i \in put}]
  /\ UNCHANGED <<plan, anchorNight, optics, caches, cancelled, passes, at, work, shown, canvas>>

\* registerMergedGroups: Siril registers what it can; the review pins a frame
\* of the anchor's span, and if none is registered, or there is no such span,
\* Siril keeps a reference of its own.  So it does after a review that cannot read
\* the sequence, though the grading may well: then no group is known to be in it.
\* A mosaic registers again, in the same way.
Register(l) ==
  /\ pc[l] = "register"
  /\ \/ ToolFails /\ Step(l, "register", "failed") /\ UNCHANGED <<shown, canvas>>
     \/ /\ ~cancelled /\ Step(l, "register", "stack") /\ UNCHANGED faults
        /\ \E some \in (SUBSET DOMAIN merged[l]) \ {{}} : \E i \in some :
             /\ AnchorIndex(l) \in some => i = AnchorIndex(l)
             /\ shown' = [shown EXCEPT ![l] = some]
             /\ canvas' = [canvas EXCEPT ![l] = merged[l][i].group]
     \/ /\ ~cancelled /\ Fault /\ Step(l, "register", "stack")
        /\ shown' = [shown EXCEPT ![l] = {}]
        /\ \E i \in DOMAIN merged[l] : canvas' = [canvas EXCEPT ![l] = merged[l][i].group]
  /\ UNCHANGED <<plan, anchorNight, optics, caches, cancelled, passes, at, work, scale>>

\* finishStackedChannel; a single registered frame is copied without Siril,
\* cancelled or not.
Stack(l) ==
  /\ pc[l] = "stack"
  /\ \/ ToolFails /\ Step(l, "stack", "failed")
     \/ /\ ~cancelled \/ Cardinality(shown[l]) <= 1
        /\ Step(l, "stack", "stacked") /\ UNCHANGED faults
  /\ UNCHANGED <<plan, anchorNight, optics, caches, cancelled, passes, at, work, result>>

Cancel ==
  /\ ~cancelled /\ cancelled' = TRUE
  /\ UNCHANGED <<plan, anchorNight, optics, caches, faults, passes, pc, at, work, result>>

\* reStack: the supervised finish stacks every channel again, from the plan and
\* with the caches of the run.
Finished(l) == pc[l] \in {"stacked", "failed"}
Restack ==
  /\ passes < MaxPasses /\ passes' = passes + 1
  /\ ~cancelled /\ (\A l \in Lane : Finished(l)) /\ (\E l \in Lane : pc[l] = "stacked")
  /\ pc' = All("masters") /\ at' = All(1)
  /\ flat' = All({}) /\ merged' = All(<<>>) /\ broken' = All({})
  /\ shown' = All({}) /\ canvas' = All(0) /\ scale' = All({})
  /\ UNCHANGED <<plan, anchorNight, optics, caches, cancelled, faults>>

Next ==
  \/ \E l \in Lane :
       \/ Masters(l) \/ Calibrate(l)
       \/ Probe(l) \/ Mirror(l) \/ Verify(l) \/ Undo(l)
       \/ Lone(l) \/ Normalize(l) \/ Register(l) \/ Stack(l)
  \/ Cancel \/ Restack

Spec == Init /\ [][Next]_vars

-----------------------------------------------------------------------------
(* Properties.                                                             *)

\* The steps of a channel in its loop over the groups.
Looping == {"masters", "calibrate", "parity", "mirror", "verify", "undo"}

TypeOK ==
  /\ plan \in [Lane -> Seq(Group)] /\ cancelled \in BOOLEAN
  /\ pc \in [Lane -> Looping \cup {"merge", "register", "stack", "stacked", "failed"}]
  /\ at \in [Lane -> Nat \ {0}]
  /\ seen \in [ParityKeys -> {"unknown"} \cup Reading] /\ told \subseteq ParityKeys
  /\ fluke \in [ParityKeys -> Nat]
  /\ built \in [FlatKeys -> SUBSET RawFlat] /\ flat \in [Lane -> SUBSET RawFlat]
  /\ merged \in [Lane -> Seq([group : Nat, flat : SUBSET RawFlat, pose : Pose])]
  /\ broken \in [Lane -> SUBSET Nat]

Taken(l) == {merged[l][i].group : i \in DOMAIN merged[l]}
\* No group up to the anchor was left out: later indices still fit.
Straight(l) == \A i \in 1 .. AnchorIndex(l) : i \in Taken(l)

\* Every channel master lies on the anchor night's field, and no frame of it was
\* rewritten to the scale of another night: "one run-wide anchor night therefore
\* sets both the geometric canvas AND the photometric scale of every channel" - of
\* every channel that has a frame of that night which is seen to register, and (an
\* index into the plan serves as one into the merged groups) lost no group before
\* it.
OneAnchor ==
  \A l \in Lane :
    pc[l] = "stacked" /\ Straight(l) /\ (\E g \in Range(plan[l]) : g.night = anchorNight) =>
      /\ AnchorIndex(l) \in shown[l] => plan[l][canvas[l]].night = anchorNight
      /\ \A x \in scale[l] : plan[l][x[2]].night = anchorNight

\* A group of an earlier session is divided by flats of that session and filter
\* only, and of its night if the session has any ("each group is calibrated with
\* its own masters - crucially, its own night's flat").  The gain is that of a
\* group of the same session and night, which may be another one: the cache does
\* not tell them apart.
FlatIsOwn ==
  \A l \in Lane : \A i \in DOMAIN merged[l] :
    LET g == plan[l][merged[l][i].group] IN
    ~g.current => \A r \in merged[l][i].flat :
      /\ r.session = g.session /\ r.lane = l
      /\ \E h \in Range(plan[l]) : FlatKey(l, h) = FlatKey(l, g) /\ r.gain = h.gain
      /\ \/ g.night \in {0, r.night}
         \/ \A s \in RawFlat : s.night = g.night => s.session # g.session \/ s.lane # l \/ s.gain # r.gain

\* A group goes into a merge the right way round, or its session has a warning:
\* opposite parities never meet unannounced ("measurement and correction must
\* agree before opposite-parity frames enter the merge").  One false reading of a
\* mirrored session goes unnoticed; of any other it takes two.
RightPose(k) == IF k \in optics THEN "mirrored" ELSE "captured"
FlipIsTold ==
  \A l \in Lane : \A i \in DOMAIN merged[l] :
    LET k == ParityKey(plan[l][merged[l][i].group]) IN
    merged[l][i].pose # RightPose(k) => k \in told \/ fluke[k] >= IF k \in optics THEN 1 ELSE 2

\* A cancel costs no master a group: what is missing from a stacked channel has
\* failed by itself ("a cancelled run must abort, not 'skip' its way through
\* every group", "one corrupt group must cost only its own frames").
CancelCostsNothing ==
  \A l \in Lane : pc[l] = "stacked" => DOMAIN plan[l] \ Taken(l) = broken[l]

=============================================================================
