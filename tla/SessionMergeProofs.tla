-------------------------- MODULE SessionMergeProofs ---------------------------
(***************************************************************************)
(* What the merge of sessions guarantees, for any channels, groups, flats, *)
(* optics, failures and re-stacks.  The argument: the groups a channel has *)
(* passed are either in its merge or broken; a flat in hand, like one in   *)
(* the cache, is fit for the group; and a session that may be taken for    *)
(* what it is not has a warning or a false reading to its account, neither *)
(* of which is ever taken back.  For the anchor: the best group of a       *)
(* channel exists, and a group before which none is missing has in the     *)
(* merge the index it has in the plan.                                     *)
(***************************************************************************)
EXTENDS SessionMerge, FiniteSetTheorems, WellFoundedInduction, TLAPS

Nonempty == \A l \in Lane : 1 \in DOMAIN plan[l]

\* A channel in its loop is at a group of its plan.
Placed == \A l \in Lane : pc[l] \in Looping => at[l] \in DOMAIN plan[l]

\* The groups behind a channel.
Passed(l) == IF pc[l] \in Looping THEN 1 .. at[l] - 1 ELSE DOMAIN plan[l]
AccountedAt(l) ==
  /\ Taken(l) \subseteq DOMAIN plan[l]
  /\ pc[l] # "failed" => Taken(l) \subseteq Passed(l) /\ Passed(l) \ Taken(l) = broken[l]
Accounted == \A l \in Lane : AccountedAt(l)

\* The raws F make a flat for group g of channel l.
Fits(l, g, F) ==
  ~g.current => \A r \in F :
    /\ r.session = g.session /\ r.lane = l
    /\ \E h \in Range(plan[l]) : FlatKey(l, h) = FlatKey(l, g) /\ r.gain = h.gain
    /\ \/ g.night \in {0, r.night}
       \/ \A s \in RawFlat : s.night = g.night => s.session # g.session \/ s.lane # l \/ s.gain # r.gain

\* Whatever is cached fits every group of its key; what is in hand fits.
CacheFits == \A l \in Lane : \A g \in Range(plan[l]) : Fits(l, g, built[FlatKey(l, g)])
HandFits  == \A l \in Lane : pc[l] \in Looping \ {"masters"} => Fits(l, G(l), flat[l])

\* A session may be taken for mirrored, or for straight.
Suspect(k) == k \in told \/ fluke[k] >= 1
SeenFits ==
  \A k \in ParityKeys :
    /\ seen[k] = "none" => k \in told
    /\ seen[k] = "target" => k \notin optics \/ Suspect(k)
    /\ seen[k] = "mirror" => k \in optics \/ Suspect(k)
FlipFits ==
  \A l \in Lane :
    /\ pc[l] \in {"mirror", "verify"} => ParityKey(G(l)) \in optics \/ Suspect(ParityKey(G(l)))
    /\ pc[l] = "undo" => ParityKey(G(l)) \in told

IInv ==
  /\ TypeOK /\ Nonempty /\ Placed /\ Accounted
  /\ CacheFits /\ HandFits /\ FlatIsOwn
  /\ SeenFits /\ FlipFits /\ FlipIsTold

-----------------------------------------------------------------------------
(* Data.                                                                   *)

Entry == [group : Nat, flat : SUBSET RawFlat, pose : Pose]
Told(k) == k \in told \/ fluke[k] >= IF k \in optics THEN 1 ELSE 2

\* What an append adds to a sequence.
LEMMA AppendEntry ==
  ASSUME NEW s \in Seq(Entry), NEW e \in Entry
  PROVE  /\ Append(s, e) \in Seq(Entry)
         /\ DOMAIN Append(s, e) = DOMAIN s \cup {Len(s) + 1}
         /\ \A i \in DOMAIN s : Append(s, e)[i] = s[i]
         /\ Append(s, e)[Len(s) + 1] = e
  OBVIOUS

\* The group a channel is at is one of its plan, and so of the catalog.
LEMMA AtGroup ==
  ASSUME TypeOK, Placed, NEW l \in Lane, pc[l] \in Looping
  PROVE  /\ at[l] \in DOMAIN plan[l] /\ at[l] \in 1 .. Len(plan[l])
         /\ DOMAIN plan[l] = 1 .. Len(plan[l]) /\ Len(plan[l]) \in Nat
         /\ G(l) \in Range(plan[l]) /\ G(l) \in Group
         /\ FlatKey(l, G(l)) \in FlatKeys /\ ParityKey(G(l)) \in ParityKeys
<1>1. at[l] \in DOMAIN plan[l] /\ plan[l] \in Seq(Group)
  BY DEF TypeOK, Placed
<1>2. G(l) \in Group /\ G(l) \in Range(plan[l])
  BY <1>1 DEF G, Range
<1> QED
  BY <1>1, <1>2 DEF FlatKeys, ParityKeys

-----------------------------------------------------------------------------
(* Steps by what they do to the argument.                                  *)

\* Warnings and false readings are never taken back, the plan and the optics
\* never change.
Grows ==
  /\ plan' = plan /\ optics' = optics /\ told \subseteq told'
  /\ told' \subseteq ParityKeys /\ fluke' \in [ParityKeys -> Nat]
  /\ \A k \in ParityKeys : fluke'[k] >= fluke[k]

LEMMA ToldStays ==
  ASSUME TypeOK, Grows, NEW k \in ParityKeys
  PROVE  (Told(k) => Told(k)') /\ (Suspect(k) => Suspect(k)')
<1>1. fluke[k] \in Nat /\ fluke'[k] \in Nat /\ fluke'[k] >= fluke[k]
  BY DEF TypeOK, Grows
<1>2. CASE k \in told
  BY <1>2 DEF Told, Suspect, Grows
<1>3. CASE k \notin told
  BY <1>1, <1>3 DEF Told, Suspect, Grows
<1> QED
  BY <1>2, <1>3

\* A merged group is one of the plan.
LEMMA MergedGroup ==
  ASSUME TypeOK, Accounted, NEW l \in Lane, NEW i \in DOMAIN merged[l]
  PROVE  /\ merged[l][i].group \in DOMAIN plan[l]
         /\ ParityKey(plan[l][merged[l][i].group]) \in ParityKeys
<1>1. merged[l][i].group \in DOMAIN plan[l]
  BY DEF Accounted, AccountedAt, Taken
<1>2. plan[l] \in Seq(Group)
  BY DEF TypeOK
<1>3. plan[l][merged[l][i].group] \in Group
  BY <1>1, <1>2
<1> QED
  BY <1>1, <1>3 DEF ParityKeys

\* The merges stay as they are.
LEMMA MergesStay ==
  ASSUME IInv, Grows, UNCHANGED merged
  PROVE  FlatIsOwn' /\ FlipIsTold'
<1>1. FlatIsOwn'
  BY DEF IInv, FlatIsOwn, Grows, FlatKey
<1>2. FlipIsTold'
  <2> SUFFICES ASSUME NEW l \in Lane, NEW i \in DOMAIN merged[l],
                      NEW k, k = ParityKey(plan[l][merged[l][i].group]), merged[l][i].pose # RightPose(k)
               PROVE  Told(k)'
    BY DEF FlipIsTold, Told, RightPose, ParityKey, Grows
  <2>1. k \in ParityKeys
    BY MergedGroup DEF IInv
  <2>2. Told(k)
    BY DEF IInv, FlipIsTold, Told
  <2> QED
    BY <2>1, <2>2, ToldStays, SMTT(60) DEF IInv
<1> QED
  BY <1>1, <1>2

\* What is known of the sessions' parity stays true where nothing is read.
LEMMA ReadingsStay ==
  ASSUME IInv, Grows, UNCHANGED seen
  PROVE  SeenFits'
<1> SUFFICES ASSUME NEW k \in ParityKeys
             PROVE  /\ seen[k] = "none" => k \in told'
                    /\ seen[k] = "target" => k \notin optics \/ Suspect(k)'
                    /\ seen[k] = "mirror" => k \in optics \/ Suspect(k)'
  BY DEF SeenFits, Suspect, Grows
<1> QED
  BY ToldStays DEF IInv, SeenFits, Grows

\* A channel leaves its loop, or goes on outside of it.
Quiet ==
  /\ UNCHANGED <<plan, optics, at, work, caches>>
  /\ \A l \in Lane : \/ pc'[l] = pc[l] \/ pc'[l] = "failed"
                     \/ pc[l] = "calibrate" /\ pc'[l] = "parity"
                     \/ pc[l] \notin Looping \cup {"failed"} /\ pc'[l] \notin Looping

LEMMA QuietStays ==
  ASSUME IInv, TypeOK', Quiet
  PROVE  IInv'
<1>1. Grows
  BY DEF Grows, Quiet, caches, IInv, TypeOK
<1>2. FlatIsOwn' /\ FlipIsTold' /\ SeenFits'
  BY <1>1, MergesStay, ReadingsStay DEF Quiet, work, caches
<1>3. Placed'
  BY DEF Quiet, Placed, Looping, IInv
<1>4. Accounted'
  <2> SUFFICES ASSUME NEW l \in Lane PROVE AccountedAt(l)'
    BY DEF Accounted
  <2>1. Taken(l)' = Taken(l) /\ broken' = broken /\ plan' = plan /\ at' = at
    BY DEF Quiet, work, Taken
  <2>2. CASE pc'[l] = "failed"
    BY <2>1, <2>2 DEF IInv, Accounted, AccountedAt
  <2>3. CASE pc'[l] # "failed"
    <3>1. pc[l] # "failed" /\ Passed(l)' = Passed(l)
      BY <2>1, <2>3 DEF Quiet, Passed, Looping
    <3> QED
      BY <2>1, <2>3, <3>1 DEF IInv, Accounted, AccountedAt
  <2> QED
    BY <2>2, <2>3
<1>5. CacheFits'
  BY DEF Quiet, caches, CacheFits, Fits, FlatKey, IInv
<1>6. HandFits'
  BY DEF Quiet, work, HandFits, Fits, FlatKey, G, Looping, IInv
<1>7. FlipFits'
  <2>1. told' = told /\ fluke' = fluke /\ optics' = optics /\ plan' = plan /\ at' = at
    BY DEF Quiet, caches
  <2>2. \A l \in Lane : ParityKey(G(l))' = ParityKey(G(l))
    BY <2>1 DEF ParityKey, G
  <2>3. \A l \in Lane : pc'[l] \in {"mirror", "verify", "undo"} => pc'[l] = pc[l]
    BY DEF Quiet, Looping
  <2> QED
    BY <2>1, <2>2, <2>3 DEF IInv, FlipFits, Suspect
<1>8. Nonempty'
  BY DEF Quiet, IInv, Nonempty
<1> QED
  BY <1>2, <1>3, <1>4, <1>5, <1>6, <1>7, <1>8 DEF IInv

\* The group at hand joins the merge in a pose it may have.
LEMMA JoinStays ==
  ASSUME IInv, Grows, NEW l \in Lane, pc[l] \in {"parity", "mirror", "verify", "undo"},
         NEW pose \in Pose, Join(l, pose),
         NEW k, k = ParityKey(G(l)), pose # RightPose(k) => Told(k)',
         UNCHANGED <<flat, broken, asked, built>>
  PROVE  /\ at' \in [Lane -> Nat \ {0}] /\ merged' \in [Lane -> Seq(Entry)]
         /\ pc' = [pc EXCEPT ![l] = IF at[l] = Len(plan[l]) THEN "merge" ELSE "masters"]
         /\ Placed' /\ Accounted' /\ CacheFits' /\ HandFits' /\ FlatIsOwn' /\ FlipFits' /\ FlipIsTold'
<1> DEFINE e == [group |-> at[l], flat |-> flat[l], pose |-> pose]
<1>1. /\ merged' = [merged EXCEPT ![l] = Append(@, e)]
      /\ at' = [at EXCEPT ![l] = @ + 1]
      /\ pc' = [pc EXCEPT ![l] = IF at[l] = Len(plan[l]) THEN "merge" ELSE "masters"]
  BY DEF Join, NextGroup
<1>2. /\ at \in [Lane -> Nat \ {0}] /\ merged \in [Lane -> Seq(Entry)] /\ plan \in [Lane -> Seq(Group)]
      /\ DOMAIN pc = Lane /\ flat \in [Lane -> SUBSET RawFlat] /\ plan' = plan /\ optics' = optics
  BY DEF IInv, TypeOK, Entry, Grows
<1>3. e \in Entry
  BY <1>2 DEF Entry
<1>4. at[l] \in 1 .. Len(plan[l]) /\ DOMAIN plan[l] = 1 .. Len(plan[l]) /\ G(l) \in Range(plan[l])
      /\ ParityKey(G(l)) \in ParityKeys /\ Len(plan[l]) \in Nat
  BY AtGroup DEF IInv, Looping
<1>5. \A m \in Lane \ {l} : merged'[m] = merged[m] /\ at'[m] = at[m] /\ pc'[m] = pc[m]
  BY <1>1, <1>2
<1>6. /\ merged'[l] \in Seq(Entry)
      /\ DOMAIN merged'[l] = DOMAIN merged[l] \cup {Len(merged[l]) + 1}
      /\ \A i \in DOMAIN merged[l] : merged'[l][i] = merged[l][i]
      /\ merged'[l][Len(merged[l]) + 1] = e
  BY <1>1, <1>2, <1>3, AppendEntry
<1>7. at' \in [Lane -> Nat \ {0}] /\ merged' \in [Lane -> Seq(Entry)]
  BY <1>1, <1>2, <1>6
<1>8. at'[l] = at[l] + 1 /\ pc'[l] = IF at[l] = Len(plan[l]) THEN "merge" ELSE "masters"
  BY <1>1, <1>2
<1>9. Placed'
  <2>1. \A m \in Lane \ {l} : pc'[m] \in Looping => at'[m] \in DOMAIN plan'[m]
    BY <1>2, <1>5 DEF IInv, Placed
  <2>2. pc'[l] \in Looping => at[l] # Len(plan[l])
    BY <1>8 DEF Looping
  <2>3. pc'[l] \in Looping => at'[l] \in DOMAIN plan'[l]
    BY <1>2, <1>4, <1>8, <2>2
  <2> QED
    BY <2>1, <2>3 DEF Placed
<1>10. Accounted'
  <2>1. \A m \in Lane \ {l} : AccountedAt(m)'
    <3> SUFFICES ASSUME NEW m \in Lane \ {l} PROVE AccountedAt(m)'
      OBVIOUS
    <3>1. Taken(m)' = Taken(m)
      BY <1>5 DEF Taken
    <3>2. Passed(m)' = Passed(m)
      BY <1>2, <1>5 DEF Passed
    <3> QED
      BY <1>2, <1>5, <3>1, <3>2 DEF IInv, Accounted, AccountedAt
  <2>2. Taken(l)' = Taken(l) \cup {at[l]}
    BY <1>2, <1>6 DEF Taken
  <2>3. Passed(l) = 1 .. at[l] - 1 /\ Passed(l)' = 1 .. at[l]
    BY <1>2, <1>4, <1>8 DEF Passed, Looping
  <2>4. AccountedAt(l)'
    <3>1. Taken(l) \subseteq 1 .. at[l] - 1 /\ (1 .. at[l] - 1) \ Taken(l) = broken[l]
      BY <2>3 DEF IInv, Accounted, AccountedAt
    <3>2. 1 .. at[l] = (1 .. at[l] - 1) \cup {at[l]} /\ at[l] \notin 1 .. at[l] - 1
      BY <1>2
    <3>3. 1 .. at[l] \subseteq DOMAIN plan[l]
      BY <1>4
    <3> QED
      BY <1>2, <2>2, <2>3, <3>1, <3>2, <3>3 DEF AccountedAt
  <2> QED
    BY <2>1, <2>4 DEF Accounted
<1>11. CacheFits'
  BY <1>2 DEF IInv, CacheFits, Fits, FlatKey
<1>12. HandFits'
  <2> SUFFICES ASSUME NEW m \in Lane, pc'[m] \in Looping \ {"masters"}
               PROVE  Fits(m, G(m), flat[m])'
    BY DEF HandFits
  <2>1. m # l /\ pc'[m] = pc[m] /\ at'[m] = at[m]
    BY <1>5, <1>8 DEF Looping
  <2> QED
    BY <1>2, <2>1 DEF IInv, HandFits, Fits, FlatKey, G
<1>13. Fits(l, G(l), flat[l])
  BY DEF IInv, HandFits, Looping
<1>14. FlatIsOwn'
  <2> SUFFICES ASSUME NEW m \in Lane, NEW i \in DOMAIN merged'[m]
               PROVE  Fits(m, plan[m][merged'[m][i].group], merged'[m][i].flat)
    BY <1>2 DEF FlatIsOwn, Fits, FlatKey
  <2>1. CASE m # l \/ i \in DOMAIN merged[l]
    <3>1. i \in DOMAIN merged[m] /\ merged'[m][i] = merged[m][i]
      BY <1>5, <1>6, <2>1
    <3> QED
      BY <3>1 DEF IInv, FlatIsOwn, Fits
  <2>2. CASE m = l /\ i \notin DOMAIN merged[l]
    <3>1. merged'[l][i] = e
      BY <1>6, <2>2
    <3> QED
      BY <1>13, <2>2, <3>1 DEF G
  <2> QED
    BY <2>1, <2>2
<1>15. FlipFits'
  <2>1. \A m \in Lane : pc'[m] \in {"mirror", "verify", "undo"} => m # l
    BY <1>8
  <2>2. \A m \in Lane \ {l} : ParityKey(G(m))' = ParityKey(G(m))
    BY <1>2, <1>5 DEF ParityKey, G
  <2>3. \A m \in Lane : pc[m] \in Looping => ParityKey(G(m)) \in ParityKeys
    BY AtGroup DEF IInv
  <2> SUFFICES ASSUME NEW m \in Lane, pc'[m] \in {"mirror", "verify", "undo"}
               PROVE  /\ pc'[m] \in {"mirror", "verify"} => ParityKey(G(m)) \in optics \/ Suspect(ParityKey(G(m)))'
                      /\ pc'[m] = "undo" => ParityKey(G(m)) \in told'
    BY <1>2, <2>1, <2>2 DEF FlipFits, Suspect
  <2>4. m # l /\ pc'[m] = pc[m] /\ ParityKey(G(m)) \in ParityKeys
    BY <1>5, <2>1, <2>3 DEF Looping
  <2>5. Suspect(ParityKey(G(m))) => Suspect(ParityKey(G(m)))'
    BY <1>2, <1>5, <2>2, <2>4, ToldStays DEF IInv, Suspect
  <2> QED
    BY <2>4, <2>5 DEF IInv, FlipFits, Grows
<1>16. FlipIsTold'
  <2> SUFFICES ASSUME NEW m \in Lane, NEW i \in DOMAIN merged'[m], NEW q,
                      q = ParityKey(plan[m][merged'[m][i].group]),
                      merged'[m][i].pose # RightPose(q)
               PROVE  q \in told' \/ fluke'[q] >= IF q \in optics THEN 1 ELSE 2
    BY <1>2, ZenonT(60) DEF FlipIsTold, RightPose, ParityKey
  <2>1. CASE m # l \/ i \in DOMAIN merged[l]
    <3>1. i \in DOMAIN merged[m] /\ merged'[m][i] = merged[m][i]
      BY <1>5, <1>6, <2>1
    <3>2. Told(q) /\ q \in ParityKeys
      BY <3>1, MergedGroup DEF IInv, FlipIsTold, Told
    <3> QED
      BY <1>2, <3>2, ToldStays DEF IInv, Told
  <2>2. CASE m = l /\ i \notin DOMAIN merged[l]
    <3>1. merged'[l][i] = e
      BY <1>6, <2>2
    <3>2. q = k /\ pose # RightPose(k)
      BY <2>2, <3>1 DEF G
    <3> QED
      BY <1>2, <3>2 DEF Told
  <2> QED
    BY <2>1, <2>2
<1> QED
  BY <1>1, <1>7, <1>9, <1>10, <1>11, <1>12, <1>14, <1>15, <1>16, SMTT(60)

-----------------------------------------------------------------------------
(* The initial states.                                                     *)

\* A plan has the groups of the channel, at least one.
LEMMA InitPlan ==
  ASSUME Init, NEW l \in Lane
  PROVE  plan[l] \in Seq(Group) /\ plan[l] # <<>>
<1>1. PICK order \in [Lane -> UNION {SetToSeqs(Prior[m]) : m \in Lane}] :
        order[l] \in SetToSeqs(Prior[l]) /\ plan = [m \in Lane |-> Current[m] \o order[m]]
  BY DEF Init
<1>2. Current[l] \in Seq(Group) /\ IsFiniteSet(Prior[l]) /\ (Current[l] # <<>> \/ Prior[l] # {})
  BY GroupAssumption
<1>3. Prior[l] \subseteq Group
  BY DEF Group
<1>4. Cardinality(Prior[l]) \in Nat /\ (Cardinality(Prior[l]) = 0 => Prior[l] = {})
  BY <1>2, FS_CardinalityType, FS_EmptySet
<1>5. order[l] \in [1 .. Cardinality(Prior[l]) -> Prior[l]]
  BY <1>1 DEF SetToSeqs
<1>6. order[l] \in Seq(Group) /\ (Prior[l] # {} => Len(order[l]) > 0)
  BY <1>3, <1>4, <1>5
<1>7. plan[l] = Current[l] \o order[l]
  BY <1>1
<1> QED
  BY <1>2, <1>6, <1>7

LEMMA InitInvariant == Init => IInv
<1> SUFFICES ASSUME Init PROVE IInv
  OBVIOUS
<1>1. \A l \in Lane : plan[l] \in Seq(Group) /\ plan[l] # <<>>
  BY InitPlan
<1>2. plan \in [Lane -> Seq(Group)]
  <2>1. PICK order : plan = [l \in Lane |-> Current[l] \o order[l]]
    BY DEF Init
  <2> QED
    BY <1>1, <2>1
<1>3. TypeOK
  <2>1. merged \in [Lane -> Seq(Entry)]
    BY DEF Init, All
  <2>2. pc \in [Lane -> Looping \cup {"merge", "register", "stack", "stacked", "failed"}]
    BY DEF Init, All, Looping
  <2>3. /\ at \in [Lane -> Nat \ {0}] /\ broken \in [Lane -> SUBSET Nat]
        /\ flat \in [Lane -> SUBSET RawFlat] /\ built \in [FlatKeys -> SUBSET RawFlat]
    BY DEF Init, All
  <2>4. /\ seen \in [ParityKeys -> {"unknown"} \cup Reading] /\ told \subseteq ParityKeys
        /\ fluke \in [ParityKeys -> Nat] /\ cancelled \in BOOLEAN
    BY DEF Init
  <2> QED
    BY <1>2, <2>1, <2>2, <2>3, <2>4 DEF TypeOK, Entry
<1>4. Placed /\ Accounted
  <2>1. \A l \in Lane : 1 \in DOMAIN plan[l]
    BY <1>1
  <2>2. \A l \in Lane : Taken(l) = {} /\ broken[l] = {} /\ pc[l] = "masters" /\ at[l] = 1
    BY DEF Init, All, Taken
  <2> QED
    BY <2>1, <2>2 DEF Placed, Accounted, AccountedAt, Passed, Looping
<1>5. CacheFits /\ HandFits
  <2>1. \A l \in Lane : \A g \in Range(plan[l]) : FlatKey(l, g) \in FlatKeys
    BY <1>1 DEF FlatKeys, Range
  <2> QED
    BY <2>1 DEF Init, All, CacheFits, HandFits, Fits, Looping
<1>6. FlatIsOwn /\ FlipIsTold
  BY DEF Init, All, FlatIsOwn, FlipIsTold
<1>7. SeenFits /\ FlipFits
  BY DEF Init, All, SeenFits, FlipFits
<1>8. Nonempty
  BY <1>1 DEF Nonempty
<1> QED
  BY <1>3, <1>4, <1>5, <1>6, <1>7, <1>8 DEF IInv

-----------------------------------------------------------------------------
(* The steps.                                                              *)

\* Steps of which only pc matters.
LEMMA QuietStep ==
  ASSUME IInv, NEW l \in Lane, \/ pc[l] = "calibrate" /\ (Leave(l) \/ Calibrated(l))
                               \/ Lone(l) \/ Normalize(l) \/ Register(l) \/ Stack(l)
  PROVE  IInv'
<1>1. PICK to \in {"failed", "parity", "register", "stack", "stacked"} :
        /\ pc' = [pc EXCEPT ![l] = to]
        /\ to = "parity" => pc[l] = "calibrate"
        /\ to \in {"register", "stack", "stacked"} => pc[l] \in {"merge", "register", "stack"}
  BY DEF Leave, Calibrated, Lone, Normalize, Register, Stack, Step
<1>2. UNCHANGED <<plan, optics, at, work, caches, cancelled>>
  BY DEF Leave, Calibrated, Lone, Normalize, Register, Stack
<1>3. pc \in [Lane -> Looping \cup {"merge", "register", "stack", "stacked", "failed"}]
  BY DEF IInv, TypeOK
<1>4. pc' \in [Lane -> Looping \cup {"merge", "register", "stack", "stacked", "failed"}]
  BY <1>1, <1>3 DEF Looping
<1>5. TypeOK'
  BY <1>2, <1>4 DEF IInv, TypeOK, work, caches
<1>6. Quiet
  BY <1>1, <1>2, <1>3 DEF Quiet, Looping
<1> QED
  BY <1>5, <1>6, QuietStays

LEMMA CancelStep ==
  ASSUME IInv, Cancel
  PROVE  IInv'
<1>1. UNCHANGED <<plan, optics, at, work, caches, pc>> /\ cancelled' = TRUE
  BY DEF Cancel
<1>2. TypeOK' /\ Quiet
  BY <1>1 DEF IInv, TypeOK, work, caches, Quiet
<1> QED
  BY <1>2, QuietStays

LEMMA StutterStep ==
  ASSUME IInv, UNCHANGED vars
  PROVE  IInv'
<1>1. UNCHANGED <<plan, optics, at, work, caches, pc, cancelled>>
  BY DEF vars
<1>2. TypeOK' /\ Quiet
  BY <1>1 DEF IInv, TypeOK, work, caches, Quiet
<1> QED
  BY <1>2, QuietStays

\* A re-stack begins anew, with the caches as they are.
LEMMA RestackStep ==
  ASSUME IInv, Restack
  PROVE  IInv'
<1>1. /\ UNCHANGED <<plan, optics, caches, cancelled>>
      /\ pc' = [l \in Lane |-> "masters"] /\ at' = [l \in Lane |-> 1]
      /\ flat' = [l \in Lane |-> {}] /\ merged' = [l \in Lane |-> <<>>] /\ broken' = [l \in Lane |-> {}]
  BY DEF Restack, All
<1>2. Grows
  BY <1>1 DEF IInv, TypeOK, Grows, caches
<1>3. TypeOK'
  <2>1. merged' \in [Lane -> Seq(Entry)]
    BY <1>1
  <2>2. pc' \in [Lane -> Looping \cup {"merge", "register", "stack", "stacked", "failed"}]
    BY <1>1 DEF Looping
  <2> QED
    BY <1>1, <2>1, <2>2 DEF IInv, TypeOK, Entry, caches
<1>4. \A l \in Lane : 1 \in DOMAIN plan[l]
  BY DEF IInv, Nonempty
<1>5. Placed' /\ Accounted'
  BY <1>1, <1>4 DEF Placed, Accounted, AccountedAt, Passed, Taken, Looping
<1>6. CacheFits' /\ HandFits'
  BY <1>1 DEF IInv, CacheFits, HandFits, Fits, FlatKey, Looping, caches
<1>7. FlatIsOwn' /\ FlipIsTold' /\ FlipFits'
  BY <1>1 DEF FlatIsOwn, FlipIsTold, FlipFits
<1>8. SeenFits'
  BY <1>1, <1>2, ReadingsStay DEF caches
<1> QED
  BY <1>1, <1>3, <1>5, <1>6, <1>7, <1>8 DEF IInv, Nonempty

\* A flat is made once, and fits every group of its key.
LEMMA MastersStep ==
  ASSUME IInv, NEW l \in Lane, Masters(l)
  PROVE  IInv'
<1> DEFINE g == G(l)
           k == FlatKey(l, g)
<1>1. /\ UNCHANGED <<plan, optics, seen, told, fluke, cancelled, at, merged, broken>>
      /\ pc[l] = "masters" /\ pc' = [pc EXCEPT ![l] = "calibrate"]
      /\ flat' = [flat EXCEPT ![l] = IF g.current THEN {} ELSE built'[k]]
      /\ \/ built' = built
         \/ k \notin asked /\ built' = [built EXCEPT ![k] = SessionFlats(l, g)]
  BY DEF Masters, Step
<1>2. /\ pc \in [Lane -> Looping \cup {"merge", "register", "stack", "stacked", "failed"}]
      /\ built \in [FlatKeys -> SUBSET RawFlat] /\ flat \in [Lane -> SUBSET RawFlat]
      /\ fluke \in [ParityKeys -> Nat] /\ told \subseteq ParityKeys
  BY DEF IInv, TypeOK
<1>3. k \in FlatKeys /\ g \in Range(plan[l])
  BY <1>1, AtGroup DEF IInv, Looping
<1>4. SessionFlats(l, g) \in SUBSET RawFlat
  BY DEF SessionFlats, AnyFlats
<1>5. built' \in [FlatKeys -> SUBSET RawFlat]
  BY <1>1, <1>2, <1>4
<1>6. flat' \in [Lane -> SUBSET RawFlat]
  BY <1>1, <1>2, <1>3, <1>5
<1>7. pc' \in [Lane -> Looping \cup {"merge", "register", "stack", "stacked", "failed"}]
  BY <1>1, <1>2 DEF Looping
<1>8. TypeOK'
  BY <1>1, <1>5, <1>6, <1>7 DEF IInv, TypeOK
<1>9. Grows
  BY <1>1, <1>2 DEF Grows
<1>10. FlatIsOwn' /\ FlipIsTold' /\ SeenFits'
  BY <1>1, <1>9, MergesStay, ReadingsStay
<1>11. Nonempty' /\ Placed' /\ FlipFits'
  <2>1. \A m \in Lane : ParityKey(G(m))' = ParityKey(G(m))
    BY <1>1 DEF ParityKey, G
  <2>2. \A m \in Lane : pc'[m] \in {"mirror", "verify", "undo"} => pc'[m] = pc[m]
    BY <1>1, <1>2
  <2>3. \A m \in Lane : pc'[m] \in Looping => pc[m] \in Looping
    BY <1>1, <1>2 DEF Looping
  <2>4. Nonempty' /\ Placed'
    BY <1>1, <2>3 DEF IInv, Nonempty, Placed
  <2>5. FlipFits'
    BY <1>1, <2>1, <2>2 DEF IInv, FlipFits, Suspect
  <2> QED
    BY <2>4, <2>5
<1>12. Accounted'
  <2> SUFFICES ASSUME NEW m \in Lane PROVE AccountedAt(m)'
    BY DEF Accounted
  <2>1. Taken(m)' = Taken(m) /\ broken' = broken /\ plan' = plan /\ at' = at
    BY <1>1 DEF Taken
  <2>2. Passed(m)' = Passed(m) /\ (pc'[m] = "failed" <=> pc[m] = "failed")
    BY <1>1, <1>2, <2>1 DEF Passed, Looping
  <2> QED
    <3>1. AccountedAt(m)
      BY DEF IInv, Accounted
    <3> QED
      BY <2>1, <2>2, <3>1 DEF AccountedAt
<1>13. CacheFits'
  <2> SUFFICES ASSUME NEW m \in Lane, NEW h \in Range(plan[m]) PROVE Fits(m, h, built'[FlatKey(m, h)])
    BY <1>1 DEF CacheFits, Fits, FlatKey
  <2>1. FlatKey(m, h) \in FlatKeys
    BY DEF IInv, TypeOK, FlatKeys, Range
  <2>2. CASE built'[FlatKey(m, h)] = built[FlatKey(m, h)]
    BY <2>2 DEF IInv, CacheFits
  <2>3. CASE FlatKey(m, h) = k /\ built'[k] = SessionFlats(l, g)
    <3>1. m = l /\ h.session = g.session /\ h.night = g.night /\ FlatKey(m, g) = FlatKey(m, h)
      BY <2>3 DEF FlatKey
    <3>2. Fits(l, h, SessionFlats(l, g))
      <4> SUFFICES ASSUME NEW r \in SessionFlats(l, g)
                   PROVE  /\ r.session = h.session /\ r.lane = l
                          /\ \E i \in Range(plan[l]) : FlatKey(l, i) = FlatKey(l, h) /\ r.gain = i.gain
                          /\ \/ h.night \in {0, r.night}
                             \/ \A s \in RawFlat : s.night = h.night =>
                                  s.session # h.session \/ s.lane # l \/ s.gain # r.gain
        BY DEF Fits
      <4>1. r.session = g.session /\ r.gain = g.gain /\ r.lane = l
        BY DEF SessionFlats, AnyFlats
      <4>2. \/ g.night = 0 \/ r.night = g.night
            \/ \A s \in AnyFlats(l, g) : s.night # g.night
        BY DEF SessionFlats
      <4>3. (\A s \in AnyFlats(l, g) : s.night # g.night) =>
              \A s \in RawFlat : s.night = g.night => s.session # g.session \/ s.lane # l \/ s.gain # r.gain
        BY <4>1 DEF AnyFlats
      <4> QED
        BY <1>3, <3>1, <4>1, <4>2, <4>3
    <3> QED
      BY <2>3, <3>1, <3>2
  <2> QED
    BY <1>1, <1>2, <1>3, <2>1, <2>2, <2>3
<1>14. HandFits'
  <2> SUFFICES ASSUME NEW m \in Lane, pc'[m] \in Looping \ {"masters"} PROVE Fits(m, G(m), flat'[m])
    BY <1>1 DEF HandFits, Fits, FlatKey, G
  <2>1. CASE m = l
    <3>1. g.current => Fits(l, g, flat'[l])
      BY DEF Fits
    <3>2. ~g.current => flat'[l] = built'[k]
      BY <1>1, <1>2
    <3>3. Fits(l, g, built'[k])
      BY <1>1, <1>3, <1>13 DEF CacheFits, Fits, FlatKey
    <3> QED
      BY <2>1, <3>1, <3>2, <3>3
  <2>2. CASE m # l
    BY <1>1, <1>2, <2>2 DEF IInv, HandFits
  <2> QED
    BY <2>1, <2>2
<1> QED
  BY <1>8, <1>10, <1>11, <1>12, <1>13, <1>14 DEF IInv

\* A group that fails is broken, and its channel goes on.
LEMMA SkipStep ==
  ASSUME IInv, NEW l \in Lane, pc[l] = "calibrate", Skip(l)
  PROVE  IInv'
<1>1. /\ UNCHANGED <<plan, optics, caches, cancelled, flat, merged>>
      /\ broken' = [broken EXCEPT ![l] = @ \cup {at[l]}] /\ at' = [at EXCEPT ![l] = @ + 1]
      /\ pc' = [pc EXCEPT ![l] = IF at[l] = Len(plan[l]) THEN "merge" ELSE "masters"]
  BY DEF Skip, NextGroup
<1>2. /\ pc \in [Lane -> Looping \cup {"merge", "register", "stack", "stacked", "failed"}]
      /\ at \in [Lane -> Nat \ {0}] /\ broken \in [Lane -> SUBSET Nat]
      /\ fluke \in [ParityKeys -> Nat] /\ told \subseteq ParityKeys
  BY DEF IInv, TypeOK
<1>3. at[l] \in 1 .. Len(plan[l]) /\ DOMAIN plan[l] = 1 .. Len(plan[l]) /\ Len(plan[l]) \in Nat
  BY AtGroup DEF IInv, Looping
<1>4. \A m \in Lane \ {l} : broken'[m] = broken[m] /\ at'[m] = at[m] /\ pc'[m] = pc[m]
  BY <1>1, <1>2
<1>5. /\ at'[l] = at[l] + 1 /\ broken'[l] = broken[l] \cup {at[l]}
      /\ pc'[l] = IF at[l] = Len(plan[l]) THEN "merge" ELSE "masters"
  BY <1>1, <1>2
<1>6. TypeOK'
  <2>1. pc' \in [Lane -> Looping \cup {"merge", "register", "stack", "stacked", "failed"}]
    BY <1>1, <1>2 DEF Looping
  <2>2. at' \in [Lane -> Nat \ {0}] /\ broken' \in [Lane -> SUBSET Nat]
    BY <1>1, <1>2
  <2> QED
    BY <1>1, <2>1, <2>2 DEF IInv, TypeOK, caches
<1>7. Grows
  BY <1>1, <1>2 DEF Grows, caches
<1>8. FlatIsOwn' /\ FlipIsTold' /\ SeenFits' /\ Nonempty'
  BY <1>1, <1>7, MergesStay, ReadingsStay DEF caches, IInv, Nonempty
<1>9. Placed'
  <2>1. pc'[l] \in Looping => at[l] # Len(plan[l])
    BY <1>5 DEF Looping
  <2>2. pc'[l] \in Looping => at'[l] \in DOMAIN plan'[l]
    BY <1>1, <1>3, <1>5, <2>1
  <2> QED
    BY <1>1, <1>4, <2>2 DEF IInv, Placed
<1>10. Accounted'
  <2> SUFFICES ASSUME NEW m \in Lane PROVE AccountedAt(m)'
    BY DEF Accounted
  <2>1. AccountedAt(m) /\ Taken(m)' = Taken(m)
    BY <1>1 DEF IInv, Accounted, Taken
  <2>2. CASE m # l
    <3>1. Passed(m)' = Passed(m)
      BY <1>1, <1>4, <2>2 DEF Passed
    <3> QED
      BY <1>1, <1>4, <2>1, <2>2, <3>1 DEF AccountedAt
  <2>3. CASE m = l
    <3>1. Passed(l) = 1 .. at[l] - 1 /\ Passed(l)' = 1 .. at[l]
      BY <1>1, <1>2, <1>3, <1>5 DEF Passed, Looping
    <3>2. 1 .. at[l] = (1 .. at[l] - 1) \cup {at[l]} /\ at[l] \notin 1 .. at[l] - 1
      BY <1>2
    <3> QED
      BY <1>1, <1>5, <2>1, <2>3, <3>1, <3>2 DEF AccountedAt
  <2> QED
    BY <2>2, <2>3
<1>11. CacheFits' /\ HandFits'
  <2>1. \A m \in Lane : pc'[m] \in Looping \ {"masters"} => m # l /\ pc'[m] = pc[m] /\ at'[m] = at[m]
    BY <1>4, <1>5 DEF Looping
  <2> QED
    BY <1>1, <2>1 DEF IInv, CacheFits, HandFits, Fits, FlatKey, G, caches
<1>12. FlipFits'
  <2>1. \A m \in Lane : pc'[m] \in {"mirror", "verify", "undo"} => m # l /\ pc'[m] = pc[m] /\ at'[m] = at[m]
    BY <1>4, <1>5
  <2> QED
    BY <1>1, <2>1 DEF IInv, FlipFits, Suspect, ParityKey, G, caches
<1> QED
  BY <1>6, <1>8, <1>9, <1>10, <1>11, <1>12 DEF IInv

\* What a frame of a session is, as captured and mirrored.
LEMMA TruthTable ==
  ASSUME NEW k
  PROVE  /\ Truth(k, FALSE) = IF k \in optics THEN "mirror" ELSE "target"
         /\ Truth(k, TRUE) = IF k \in optics THEN "target" ELSE "mirror"
<1>1. CASE k \in optics
  <2>1. (k \in optics) = TRUE
    BY <1>1
  <2> QED
    BY <1>1, <2>1 DEF Truth
<1>2. CASE k \notin optics
  <2>1. (k \in optics) = FALSE
    BY <1>2
  <2> QED
    BY <1>2, <2>1 DEF Truth
<1> QED
  BY <1>1, <1>2

\* What a plate-solve leaves behind.
LEMMA SolveGrows ==
  ASSUME IInv, NEW k \in ParityKeys, NEW mirrored \in BOOLEAN, NEW reading \in Reading,
         Solve(k, mirrored, reading)
  PROVE  /\ fluke' \in [ParityKeys -> Nat] /\ \A q \in ParityKeys : fluke'[q] >= fluke[q]
         /\ reading \in {"none", Truth(k, mirrored)} \/ fluke'[k] = fluke[k] + 1
<1>1. fluke \in [ParityKeys -> Nat]
  BY DEF IInv, TypeOK
<1>2. CASE UNCHANGED fluke /\ reading \in {"none", Truth(k, mirrored)}
  BY <1>1, <1>2
<1>3. CASE fluke' = [fluke EXCEPT ![k] = @ + 1]
  BY <1>1, <1>3
<1> QED
  BY <1>2, <1>3 DEF Solve

\* The group at hand goes on towards the mirror, or back.
LEMMA ParityMove ==
  ASSUME IInv, Grows, NEW l \in Lane, NEW k, k = ParityKey(G(l)),
         pc[l] \in {"parity", "mirror", "verify"},
         NEW to \in {"mirror", "verify", "undo"}, pc' = [pc EXCEPT ![l] = to],
         UNCHANGED <<at, flat, merged, broken, asked, built, cancelled>>,
         to = "undo" => k \in told', k \in optics \/ Suspect(k)' \/ to = "undo",
         seen' \in [ParityKeys -> {"unknown"} \cup Reading], SeenFits'
  PROVE  IInv'
<1>1. /\ pc \in [Lane -> Looping \cup {"merge", "register", "stack", "stacked", "failed"}]
      /\ plan' = plan /\ optics' = optics
  BY DEF IInv, TypeOK, Grows
<1>2. pc' \in [Lane -> Looping \cup {"merge", "register", "stack", "stacked", "failed"}]
  BY <1>1 DEF Looping
<1>3. TypeOK'
  BY <1>1, <1>2 DEF IInv, TypeOK, Grows
<1>4. FlatIsOwn' /\ FlipIsTold' /\ Nonempty'
  BY <1>1, MergesStay DEF IInv, Nonempty
<1>5. /\ \A m \in Lane \ {l} : pc'[m] = pc[m]
      /\ pc'[l] = to /\ pc[l] \in Looping \ {"masters"} /\ pc'[l] \in Looping \ {"masters"}
  BY <1>1 DEF Looping
<1>6. Placed'
  BY <1>1, <1>5 DEF IInv, Placed
<1>7. Accounted'
  <2> SUFFICES ASSUME NEW m \in Lane PROVE AccountedAt(m)'
    BY DEF Accounted
  <2>1. AccountedAt(m) /\ Taken(m)' = Taken(m)
    BY DEF IInv, Accounted, Taken
  <2>2. Passed(m)' = Passed(m) /\ (pc'[m] = "failed" <=> pc[m] = "failed")
    BY <1>1, <1>5 DEF Passed, Looping
  <2> QED
    BY <1>1, <2>1, <2>2 DEF AccountedAt
<1>8. CacheFits' /\ HandFits'
  BY <1>1, <1>5 DEF IInv, CacheFits, HandFits, Fits, FlatKey, G
<1>9. FlipFits'
  <2> SUFFICES ASSUME NEW m \in Lane, pc'[m] \in {"mirror", "verify", "undo"},
                      NEW q, q = ParityKey(G(m))
               PROVE  /\ pc'[m] \in {"mirror", "verify"} => q \in optics \/ Suspect(q)'
                      /\ pc'[m] = "undo" => q \in told'
    BY <1>1 DEF FlipFits, Suspect, ParityKey, G
  <2>1. CASE m = l
    BY <1>5, <2>1
  <2>2. CASE m # l
    <3>1. pc'[m] = pc[m] /\ q \in ParityKeys
      BY <1>5, <2>2, AtGroup DEF IInv, Looping
    <3> QED
      BY <3>1, ToldStays DEF IInv, FlipFits, Grows
  <2> QED
    BY <2>1, <2>2
<1> QED
  BY <1>3, <1>4, <1>6, <1>7, <1>8, <1>9 DEF IInv

\* The group at hand joins, whatever its session now reads.
LEMMA ParityJoin ==
  ASSUME IInv, Grows, NEW l \in Lane, NEW k, k = ParityKey(G(l)),
         pc[l] \in {"parity", "mirror", "verify", "undo"}, NEW pose \in Pose, Join(l, pose),
         pose # RightPose(k) => Told(k)',
         UNCHANGED <<flat, broken, asked, built, cancelled>>,
         seen' \in [ParityKeys -> {"unknown"} \cup Reading], SeenFits'
  PROVE  IInv'
<1>1. /\ at' \in [Lane -> Nat \ {0}] /\ merged' \in [Lane -> Seq(Entry)]
      /\ pc' = [pc EXCEPT ![l] = IF at[l] = Len(plan[l]) THEN "merge" ELSE "masters"]
      /\ Placed' /\ Accounted' /\ CacheFits' /\ HandFits' /\ FlatIsOwn' /\ FlipFits' /\ FlipIsTold'
  BY JoinStays
<1>2. pc' \in [Lane -> Looping \cup {"merge", "register", "stack", "stacked", "failed"}]
  <2>1. pc \in [Lane -> Looping \cup {"merge", "register", "stack", "stacked", "failed"}]
    BY DEF IInv, TypeOK
  <2> QED
    BY <1>1, <2>1 DEF Looping
<1>3. TypeOK'
  BY <1>1, <1>2 DEF IInv, TypeOK, Grows, Entry
<1>4. Nonempty'
  BY DEF IInv, Nonempty, Grows
<1> QED
  BY <1>1, <1>3, <1>4 DEF IInv

\* The session of the group is read, or known.
LEMMA ProbeStep ==
  ASSUME IInv, NEW l \in Lane, Probe(l)
  PROVE  IInv'
<1>1. PICK k : k = ParityKey(G(l))
  OBVIOUS
<1>2. pc[l] = "parity" /\ k \in ParityKeys
  BY <1>1, AtGroup DEF IInv, Looping, Probe
<1>3. PICK reading \in Reading :
        /\ IF seen[k] # "unknown"
           THEN reading = seen[k] /\ UNCHANGED <<faults, fluke, seen>>
           ELSE Solve(k, FALSE, reading) /\ seen' = [seen EXCEPT ![k] = reading]
        /\ Tell(k, reading = "none")
        /\ IF reading = "mirror"
           THEN pc' = [pc EXCEPT ![l] = "mirror"] /\ UNCHANGED <<at, merged>>
           ELSE Join(l, "captured")
  BY <1>1 DEF Probe
<1>4. UNCHANGED <<plan, optics, asked, built, cancelled, flat, broken>>
  BY DEF Probe
<1>5. /\ fluke \in [ParityKeys -> Nat] /\ told \subseteq ParityKeys
      /\ seen \in [ParityKeys -> {"unknown"} \cup Reading]
  BY DEF IInv, TypeOK
<1>6. told' = IF reading = "none" THEN told \cup {k} ELSE told
  BY <1>3 DEF Tell
<1>7. fluke' \in [ParityKeys -> Nat] /\ (\A q \in ParityKeys : fluke'[q] >= fluke[q])
      /\ seen' \in [ParityKeys -> {"unknown"} \cup Reading] /\ seen'[k] = reading
      /\ \A q \in ParityKeys \ {k} : seen'[q] = seen[q]
  <2>1. CASE seen[k] # "unknown"
    BY <1>2, <1>3, <1>5, <2>1
  <2>2. CASE seen[k] = "unknown"
    BY <1>2, <1>3, <1>5, <2>2, SolveGrows
  <2> QED
    BY <2>1, <2>2
<1>8. Grows
  BY <1>2, <1>4, <1>5, <1>6, <1>7 DEF Grows
<1>9. \* What is read of the session is so, or it is suspect.
      /\ reading = "none" => k \in told'
      /\ reading = "target" => k \notin optics \/ Suspect(k)'
      /\ reading = "mirror" => k \in optics \/ Suspect(k)'
  <2>1. CASE seen[k] # "unknown"
    BY <1>2, <1>3, <1>6, <2>1, <1>8, ToldStays DEF IInv, SeenFits
  <2>2. CASE seen[k] = "unknown"
    <3>1. Truth(k, FALSE) = IF k \in optics THEN "mirror" ELSE "target"
      BY TruthTable
    <3>2. reading \in {"none", Truth(k, FALSE)} \/ fluke'[k] = fluke[k] + 1
      BY <1>2, <1>3, <2>2, SolveGrows
    <3>3. fluke[k] \in Nat
      BY <1>2, <1>5
    <3> QED
      <4>1. CASE fluke'[k] = fluke[k] + 1
        BY <1>6, <3>3, <4>1 DEF Suspect
      <4>2. CASE reading \in {"none", Truth(k, FALSE)}
        BY <1>6, <3>1, <4>2
      <4> QED
        BY <3>2, <4>1, <4>2
  <2> QED
    BY <2>1, <2>2
<1>10. SeenFits'
  <2> SUFFICES ASSUME NEW q \in ParityKeys
               PROVE  /\ seen'[q] = "none" => q \in told'
                      /\ seen'[q] = "target" => q \notin optics \/ Suspect(q)'
                      /\ seen'[q] = "mirror" => q \in optics \/ Suspect(q)'
    BY <1>4 DEF SeenFits, Suspect
  <2>1. CASE q = k
    BY <1>7, <1>9, <2>1
  <2>2. CASE q # k
    BY <1>7, <1>8, <2>2, ToldStays DEF IInv, SeenFits, Grows
  <2> QED
    BY <2>1, <2>2
<1>11. CASE reading = "mirror"
  BY <1>1, <1>2, <1>3, <1>4, <1>7, <1>8, <1>9, <1>10, <1>11, ParityMove
<1>12. CASE reading # "mirror"
  <2>1. "captured" # RightPose(k) => Told(k)'
    <3> SUFFICES ASSUME k \in optics PROVE Told(k)'
      BY DEF RightPose
    <3>1. Suspect(k)' /\ optics' = optics
      BY <1>4, <1>9, <1>12 DEF Reading, Suspect
    <3> QED
      BY <3>1 DEF Suspect, Told
  <2>2. "captured" \in Pose
    BY DEF Pose
  <2> QED
    BY <1>1, <1>2, <1>3, <1>4, <1>7, <1>8, <1>10, <1>12, <2>1, <2>2, ParityJoin
<1> QED
  BY <1>11, <1>12

\* The group is mirrored, or a warning says that it may not be.
LEMMA MirrorStep ==
  ASSUME IInv, NEW l \in Lane, Mirror(l)
  PROVE  IInv'
<1>1. PICK k : k = ParityKey(G(l))
  OBVIOUS
<1>2. pc[l] = "mirror" /\ k \in ParityKeys
  BY <1>1, AtGroup DEF IInv, Looping, Mirror
<1>3. UNCHANGED <<plan, optics, asked, built, cancelled, flat, broken, seen, fluke>>
  BY DEF Mirror
<1>4. /\ fluke \in [ParityKeys -> Nat] /\ told \subseteq ParityKeys
      /\ seen \in [ParityKeys -> {"unknown"} \cup Reading]
  BY DEF IInv, TypeOK
<1>5. CASE pc' = [pc EXCEPT ![l] = "verify"] /\ UNCHANGED <<told, at, merged>>
  <2>1. Grows
    BY <1>3, <1>4, <1>5 DEF Grows
  <2>2. SeenFits'
    BY <1>3, <2>1, ReadingsStay
  <2>3. k \in optics \/ Suspect(k)'
    BY <1>1, <1>2, <2>1, ToldStays DEF IInv, FlipFits
  <2> QED
    BY <1>1, <1>2, <1>3, <1>4, <1>5, <2>1, <2>2, <2>3, ParityMove
<1>6. CASE Tell(k, TRUE) /\ \E pose \in Pose : Join(l, pose)
  <2>1. told' = told \cup {k}
    BY <1>6 DEF Tell
  <2>2. Grows
    BY <1>2, <1>3, <1>4, <2>1 DEF Grows
  <2>3. SeenFits'
    BY <1>3, <2>2, ReadingsStay
  <2>4. Told(k)'
    BY <2>1 DEF Told
  <2>5. PICK pose \in Pose : Join(l, pose)
    BY <1>6
  <2> QED
    BY <1>1, <1>2, <1>3, <1>4, <2>2, <2>3, <2>4, <2>5, ParityJoin
<1> QED
  BY <1>1, <1>5, <1>6 DEF Mirror, Step

\* The flip is trusted on a second reading.
LEMMA VerifyStep ==
  ASSUME IInv, NEW l \in Lane, Verify(l)
  PROVE  IInv'
<1>1. PICK k : k = ParityKey(G(l))
  OBVIOUS
<1>2. pc[l] = "verify" /\ k \in ParityKeys
  BY <1>1, AtGroup DEF IInv, Looping, Verify
<1>3. UNCHANGED <<plan, optics, asked, built, cancelled, flat, broken>>
  BY DEF Verify
<1>4. /\ fluke \in [ParityKeys -> Nat] /\ told \subseteq ParityKeys
      /\ seen \in [ParityKeys -> {"unknown"} \cup Reading]
  BY DEF IInv, TypeOK
<1>5. PICK reading \in Reading :
        /\ Solve(k, TRUE, reading) /\ Tell(k, reading # "target")
        /\ IF reading = "mirror"
           THEN seen' = [seen EXCEPT ![k] = "none"] /\ pc' = [pc EXCEPT ![l] = "undo"] /\ UNCHANGED <<at, merged>>
           ELSE UNCHANGED seen /\ Join(l, "mirrored")
  BY <1>1 DEF Verify, Step
<1>6. /\ reading = "target" => told' = told
      /\ reading # "target" => told' = told \cup {k}
  BY <1>5 DEF Tell
<1>7. /\ fluke' \in [ParityKeys -> Nat] /\ (\A q \in ParityKeys : fluke'[q] >= fluke[q])
      /\ reading \in {"none", Truth(k, TRUE)} \/ fluke'[k] = fluke[k] + 1
  BY <1>2, <1>5, SolveGrows
<1>8. Grows
  BY <1>2, <1>3, <1>4, <1>6, <1>7 DEF Grows
<1>9. CASE reading = "mirror"
  <2>1. k \in told' /\ seen' = [seen EXCEPT ![k] = "none"]
    BY <1>5, <1>6, <1>9
  <2>2. SeenFits'
    <3> SUFFICES ASSUME NEW q \in ParityKeys
                 PROVE  /\ seen'[q] = "none" => q \in told'
                        /\ seen'[q] = "target" => q \notin optics \/ Suspect(q)'
                        /\ seen'[q] = "mirror" => q \in optics \/ Suspect(q)'
      BY <1>3 DEF SeenFits, Suspect
    <3>1. CASE q = k
      BY <1>4, <2>1, <3>1
    <3>2. CASE q # k
      BY <1>4, <1>8, <2>1, <3>2, ToldStays DEF IInv, SeenFits, Grows
    <3> QED
      BY <3>1, <3>2
  <2>3. seen' \in [ParityKeys -> {"unknown"} \cup Reading]
    BY <1>4, <2>1 DEF Reading
  <2> QED
    BY <1>1, <1>2, <1>3, <1>5, <1>8, <1>9, <2>1, <2>2, <2>3, ParityMove
<1>10. CASE reading # "mirror"
  <2>1. UNCHANGED seen /\ Join(l, "mirrored")
    BY <1>5, <1>10
  <2>2. SeenFits'
    BY <1>8, <2>1, ReadingsStay
  <2>3. "mirrored" # RightPose(k) => Told(k)'
    <3> SUFFICES ASSUME k \notin optics PROVE Told(k)'
      BY DEF RightPose
    <3>1. CASE reading = "none"
      BY <1>6, <3>1 DEF Told
    <3>2. CASE reading = "target"
      <4>1. fluke'[k] = fluke[k] + 1 /\ fluke[k] \in Nat
        BY <1>2, <1>4, <1>7, <3>2, TruthTable
      <4>2. Suspect(k)
        BY <1>1, <1>2 DEF IInv, FlipFits
      <4> QED
        BY <1>3, <1>6, <3>2, <4>1, <4>2 DEF Suspect, Told
    <3> QED
      BY <1>10, <3>1, <3>2 DEF Reading
  <2>4. "mirrored" \in Pose
    BY DEF Pose
  <2> QED
    BY <1>1, <1>2, <1>3, <1>4, <1>8, <2>1, <2>2, <2>3, <2>4, ParityJoin
<1> QED
  BY <1>9, <1>10

\* A flip that did not verify is undone, or a warning says that it may not be.
LEMMA UndoStep ==
  ASSUME IInv, NEW l \in Lane, Undo(l)
  PROVE  IInv'
<1>1. PICK k : k = ParityKey(G(l))
  OBVIOUS
<1>2. pc[l] = "undo" /\ k \in ParityKeys /\ k \in told
  BY <1>1, AtGroup DEF IInv, Looping, Undo, FlipFits
<1>3. UNCHANGED <<plan, optics, asked, built, cancelled, flat, broken, seen, told, fluke>>
  BY DEF Undo, caches
<1>4. /\ fluke \in [ParityKeys -> Nat] /\ told \subseteq ParityKeys
      /\ seen \in [ParityKeys -> {"unknown"} \cup Reading]
  BY DEF IInv, TypeOK
<1>5. Grows
  BY <1>3, <1>4 DEF Grows
<1>6. PICK pose \in Pose : Join(l, pose)
  BY DEF Undo, Pose
<1>7. Told(k)'
  BY <1>2, <1>3 DEF Told
<1>8. SeenFits'
  BY <1>3, <1>5, ReadingsStay
<1> QED
  BY <1>1, <1>2, <1>3, <1>4, <1>5, <1>6, <1>7, <1>8, ParityJoin

-----------------------------------------------------------------------------
(* The anchor's index exists: the least-number principle, then the order.  *)

LEMMA LeastNat ==
  ASSUME NEW T \in SUBSET Nat, T # {}
  PROVE  \E x \in T : \A y \in T : x <= y
<1>1. PICK x \in T : \A y \in T : <<y, x>> \notin OpToRel(<, Nat)
  BY NatLessThanWellFounded, WFMin
<1>2. \A y \in T : ~(y < x)
  BY <1>1 DEF OpToRel
<1> QED
  BY <1>2

\* The ranks of groups, and their order, spelled out.
Ranks == Int \X Int \X Int \X Int
Above(x, y) ==
  \/ x[1] > y[1]
  \/ x[1] = y[1] /\ x[2] > y[2]
  \/ x[1] = y[1] /\ x[2] = y[2] /\ x[3] > y[3]
  \/ x[1] = y[1] /\ x[2] = y[2] /\ x[3] = y[3] /\ x[4] > y[4]

LEMMA BeatsIsAbove ==
  ASSUME NEW x \in Ranks, NEW y \in Ranks
  PROVE  Beats(x, y) <=> Above(x, y)
<1>1. DOMAIN x = {1, 2, 3, 4}
  BY DEF Ranks
<1>2. /\ 1 .. 1 - 1 = {} /\ 1 .. 2 - 1 = {1} /\ 1 .. 3 - 1 = {1, 2} /\ 1 .. 4 - 1 = {1, 2, 3}
  OBVIOUS
<1>3. Beats(x, y) <=>
        \/ x[1] > y[1] /\ \A j \in 1 .. 1 - 1 : x[j] = y[j]
        \/ x[2] > y[2] /\ \A j \in 1 .. 2 - 1 : x[j] = y[j]
        \/ x[3] > y[3] /\ \A j \in 1 .. 3 - 1 : x[j] = y[j]
        \/ x[4] > y[4] /\ \A j \in 1 .. 4 - 1 : x[j] = y[j]
  BY <1>1 DEF Beats
<1> QED
  BY <1>2, <1>3 DEF Above

\* It is a strict order whose incomparable ranks are interchangeable.
LEMMA AboveOrder ==
  ASSUME NEW x \in Ranks, NEW y \in Ranks, NEW z \in Ranks, Above(x, y)
  PROVE  ~Above(y, x) /\ (~Above(z, y) => Above(x, z))
  BY DEF Ranks, Above

\* Among the first k of n ranks there is a first best.
FirstBest(f, k, i) ==
  \A j \in 1 .. k : j # i => IF j < i THEN Above(f[i], f[j]) ELSE ~Above(f[j], f[i])

LEMMA BestExists ==
  ASSUME NEW n \in Nat \ {0}, NEW f \in [1 .. n -> Ranks]
  PROVE  \E i \in 1 .. n : FirstBest(f, n, i)
<1> DEFINE Bad == {k \in 1 .. n : ~\E i \in 1 .. k : FirstBest(f, k, i)}
<1> SUFFICES ASSUME ~\E i \in 1 .. n : FirstBest(f, n, i) PROVE FALSE
  OBVIOUS
<1>a. n \in Bad /\ Bad \in SUBSET Nat
  OBVIOUS
<1>b. \A k \in Bad : k \in 1 .. n /\ ~\E i \in 1 .. k : FirstBest(f, k, i)
  OBVIOUS
<1>c. \A k \in 1 .. n : k \notin Bad => \E i \in 1 .. k : FirstBest(f, k, i)
  OBVIOUS
<1> HIDE DEF Bad
<1>1. PICK k \in Bad : \A h \in Bad : k <= h
  BY <1>a, LeastNat
<1>2. k \in 1 .. n /\ ~\E i \in 1 .. k : FirstBest(f, k, i)
  BY <1>b
<1>3. CASE k = 1
  <2>1. FirstBest(f, k, 1)
    BY <1>3 DEF FirstBest
  <2> QED
    BY <1>2, <1>3, <2>1
<1>4. CASE k # 1
  <2>1. k - 1 \in 1 .. n /\ k - 1 \notin Bad
    BY <1>1, <1>2, <1>4
  <2>2. PICK i \in 1 .. k - 1 : FirstBest(f, k - 1, i)
    BY <1>c, <2>1
  <2>3. i \in 1 .. n /\ i \in 1 .. k /\ k \in 1 .. k /\ i < k
    BY <1>2, <2>2
  <2>4. \A j \in 1 .. k : j # k => j \in 1 .. k - 1 /\ j \in 1 .. n
    BY <1>2
  <2>5. CASE Above(f[k], f[i])
    <3>1. ASSUME NEW j \in 1 .. k, j # k PROVE j < k /\ Above(f[k], f[j])
      <4>1. j \in 1 .. k - 1 /\ f[j] \in Ranks /\ f[i] \in Ranks /\ f[k] \in Ranks
        BY <1>2, <2>3, <2>4, <3>1
      <4>2. CASE j = i
        BY <2>3, <2>5, <4>2
      <4>3. CASE j # i
        <5>1. ~Above(f[j], f[i])
          BY <2>2, <4>1, <4>3, AboveOrder DEF FirstBest
        <5> QED
          BY <1>2, <2>4, <2>5, <3>1, <4>1, <5>1, AboveOrder
      <4> QED
        BY <4>2, <4>3
    <3>2. FirstBest(f, k, k)
      BY <3>1 DEF FirstBest
    <3> QED
      BY <1>2, <2>3, <3>2
  <2>6. CASE ~Above(f[k], f[i])
    <3>1. FirstBest(f, k, i)
      BY <2>2, <2>3, <2>4, <2>6 DEF FirstBest
    <3> QED
      BY <1>2, <2>3, <3>1
  <2> QED
    BY <2>5, <2>6
<1> QED
  BY <1>3, <1>4

\* The anchor's index is one of the plan, and a group of the anchor night's if
\* the channel has any.
LEMMA AnchorIndexIs ==
  ASSUME TypeOK, Nonempty, NEW l \in Lane
  PROVE  /\ AnchorIndex(l) \in DOMAIN plan[l]
         /\ (\E g \in Range(plan[l]) : g.night = anchorNight) => plan[l][AnchorIndex(l)].night = anchorNight
<1> DEFINE n == Len(plan[l])
           f == [i \in 1 .. n |-> GroupRank(plan[l][i])]
<1>1. plan[l] \in Seq(Group) /\ DOMAIN plan[l] = 1 .. n /\ n \in Nat \ {0}
  BY DEF TypeOK, Nonempty
<1>2. \A i \in 1 .. n : plan[l][i].frames \in Int /\ plan[l][i].night \in Int
  BY <1>1, GroupAssumption
<1>3. f \in [1 .. n -> Ranks] /\ \A i \in 1 .. n : f[i] = GroupRank(plan[l][i])
  BY <1>2 DEF GroupRank, Ranks, Bit
<1> HIDE DEF f, n
<1>4. PICK i \in 1 .. n : FirstBest(f, n, i)
  BY <1>1, <1>3, BestExists
<1>5. \A j \in DOMAIN plan[l] \ {i} :
        IF j < i THEN Beats(GroupRank(plan[l][i]), GroupRank(plan[l][j]))
                 ELSE ~Beats(GroupRank(plan[l][j]), GroupRank(plan[l][i]))
  BY <1>1, <1>3, <1>4, BeatsIsAbove DEF FirstBest
<1>6. /\ AnchorIndex(l) \in DOMAIN plan[l]
      /\ \A j \in DOMAIN plan[l] \ {AnchorIndex(l)} :
           IF j < AnchorIndex(l) THEN Beats(GroupRank(plan[l][AnchorIndex(l)]), GroupRank(plan[l][j]))
                    ELSE ~Beats(GroupRank(plan[l][j]), GroupRank(plan[l][AnchorIndex(l)]))
  BY <1>1, <1>4, <1>5 DEF AnchorIndex
<1>7. ASSUME NEW j \in 1 .. n, plan[l][j].night = anchorNight
      PROVE  plan[l][AnchorIndex(l)].night = anchorNight
  <2>1. PICK a \in 1 .. n : a = AnchorIndex(l)
    BY <1>1, <1>6
  <2>2. j # a => ~Above(f[j], f[a])
    <3>1. f[j] \in Ranks /\ f[a] \in Ranks
      BY <1>3, <2>1
    <3> QED
      BY <1>1, <1>3, <1>6, <2>1, <3>1, BeatsIsAbove, AboveOrder
  <2>3. f[j][1] = 1 /\ f[a][1] = Bit(plan[l][a].night = anchorNight)
    BY <1>3, <1>7, <2>1 DEF GroupRank, Bit
  <2> QED
    BY <1>7, <2>1, <2>2, <2>3 DEF Above, Bit
<1>8. \A g \in Range(plan[l]) : \E j \in 1 .. n : plan[l][j] = g
  BY <1>1 DEF Range
<1> QED
  BY <1>6, <1>7, <1>8

-----------------------------------------------------------------------------
(* One anchor: where no group is missing, the index into the plan serves as *)
(* one into the merged groups.                                             *)

\* A merged group before which none is missing is at its own index; so the
\* loop, where none is missing, has merged as many groups as it has passed.
AlignedAt(l) ==
  /\ \A i \in DOMAIN merged[l] : 1 .. merged[l][i].group \subseteq Taken(l) => merged[l][i].group = i
  /\ pc[l] \in Looping /\ 1 .. at[l] - 1 \subseteq Taken(l) => Len(merged[l]) = at[l] - 1

\* The canvas and the scale are those of the anchor's index, if that is there.
CanvasAt(l) ==
  pc[l] \in {"stack", "stacked"} /\ AnchorIndex(l) \in shown[l] => canvas[l] = merged[l][AnchorIndex(l)].group
ScaleAt(l) ==
  \A x \in scale[l] :
    /\ pc[l] \notin Looping \cup {"merge"}
    /\ AnchorIndex(l) \in DOMAIN merged[l] => x[2] = merged[l][AnchorIndex(l)].group

OInv ==
  /\ DOMAIN shown = Lane /\ DOMAIN canvas = Lane /\ DOMAIN scale = Lane
  /\ \A l \in Lane : AlignedAt(l) /\ CanvasAt(l) /\ ScaleAt(l)

LEMMA InitAnchor == Init => OInv
<1> SUFFICES ASSUME Init PROVE OInv
  OBVIOUS
<1>1. \A l \in Lane : merged[l] = <<>> /\ scale[l] = {} /\ at[l] = 1 /\ pc[l] = "masters"
  BY DEF Init, All
<1>2. DOMAIN shown = Lane /\ DOMAIN canvas = Lane /\ DOMAIN scale = Lane
  BY DEF Init, All
<1> QED
  BY <1>1, <1>2 DEF OInv, AlignedAt, CanvasAt, ScaleAt

\* The plan and the anchor night of a run never change, so neither does the
\* index of the anchor.
LEMMA AnchorStays ==
  ASSUME [Next]_vars
  PROVE  /\ plan' = plan /\ anchorNight' = anchorNight
         /\ \A l \in Lane : AnchorIndex(l)' = AnchorIndex(l)
<1>1. plan' = plan /\ anchorNight' = anchorNight
  BY DEF Next, vars, Masters, Calibrate, Calibrated, Leave, Skip, Probe, Mirror, Verify, Undo,
         Lone, Normalize, Register, Stack, Cancel, Restack
<1>2. \A l \in Lane : AnchorIndex(l)' = AnchorIndex(l)
  BY <1>1 DEF AnchorIndex, GroupRank
<1> QED
  BY <1>1, <1>2

\* A channel goes on inside its loop, stops, or does not move.
LEMMA AnchorWaits ==
  ASSUME IInv, OInv, [Next]_vars, UNCHANGED <<merged, at, result>>,
         \A l \in Lane : \/ pc'[l] = pc[l] \/ pc'[l] = "failed"
                         \/ pc[l] \in Looping /\ pc'[l] \in Looping
                         \/ pc[l] = "stack" /\ pc'[l] = "stacked"
  PROVE  OInv'
<1> SUFFICES ASSUME NEW l \in Lane PROVE (AlignedAt(l) /\ CanvasAt(l) /\ ScaleAt(l))'
  BY DEF OInv, result
<1>1. /\ AnchorIndex(l)' = AnchorIndex(l) /\ Taken(l)' = Taken(l)
      /\ merged' = merged /\ at' = at /\ shown' = shown /\ canvas' = canvas /\ scale' = scale
  BY AnchorStays DEF Taken, result
<1>2. AlignedAt(l) /\ CanvasAt(l) /\ ScaleAt(l)
  BY DEF OInv
<1>3. AlignedAt(l)'
  <2>1. pc'[l] \in Looping => pc[l] \in Looping
    BY DEF Looping
  <2> QED
    BY <1>1, <1>2, <2>1 DEF AlignedAt
<1>4. CanvasAt(l)'
  <2>1. pc'[l] \in {"stack", "stacked"} => pc[l] \in {"stack", "stacked"}
    BY DEF Looping
  <2> QED
    BY <1>1, <1>2, <2>1 DEF CanvasAt
<1>5. ScaleAt(l)'
  <2>1. pc[l] \notin Looping \cup {"merge"} => pc'[l] \notin Looping \cup {"merge"}
    BY DEF Looping
  <2> QED
    BY <1>1, <1>2, <2>1 DEF ScaleAt
<1> QED
  BY <1>3, <1>4, <1>5

\* The loop goes on to the next group, with the one at hand or without it.
LEMMA AnchorMoves ==
  ASSUME IInv, OInv, [Next]_vars, UNCHANGED result, NEW l \in Lane, pc[l] \in Looping,
         NextGroup(l), NEW e \in Entry, e.group = at[l],
         merged' = merged \/ merged' = [merged EXCEPT ![l] = Append(@, e)]
  PROVE  OInv'
<1>1. /\ at \in [Lane -> Nat \ {0}] /\ merged \in [Lane -> Seq(Entry)] /\ DOMAIN pc = Lane
      /\ \A m \in Lane : AlignedAt(m) /\ CanvasAt(m) /\ ScaleAt(m)
  BY DEF IInv, TypeOK, Entry, OInv
<1>2. /\ \A m \in Lane \ {l} : merged'[m] = merged[m] /\ at'[m] = at[m] /\ pc'[m] = pc[m]
      /\ at'[l] = at[l] + 1 /\ pc'[l] \in {"merge", "masters"}
  BY <1>1 DEF NextGroup
<1>3. /\ \A m \in Lane : AnchorIndex(m)' = AnchorIndex(m)
      /\ shown' = shown /\ canvas' = canvas /\ scale' = scale
  BY AnchorStays DEF result
<1>4. ASSUME NEW m \in Lane \ {l} PROVE (AlignedAt(m) /\ CanvasAt(m) /\ ScaleAt(m))'
  <2>1. Taken(m)' = Taken(m)
    BY <1>2 DEF Taken
  <2> QED
    BY <1>1, <1>2, <1>3, <2>1 DEF AlignedAt, CanvasAt, ScaleAt
<1>5. CanvasAt(l)' /\ ScaleAt(l)'
  BY <1>1, <1>2, <1>3 DEF CanvasAt, ScaleAt
<1>6. Taken(l) \subseteq 1 .. at[l] - 1 /\ at[l] \in Nat \ {0}
  <2>1. pc[l] # "failed" /\ AccountedAt(l) /\ Passed(l) = 1 .. at[l] - 1
    BY DEF IInv, Accounted, Looping, Passed
  <2> QED
    BY <1>1, <2>1 DEF AccountedAt
<1>7. CASE merged' = merged
  <2>1. Taken(l)' = Taken(l) /\ merged'[l] = merged[l]
    BY <1>7 DEF Taken
  <2>2. ~(1 .. at'[l] - 1 \subseteq Taken(l))
    <3>1. at[l] \in 1 .. at'[l] - 1 /\ at[l] \notin Taken(l)
      BY <1>2, <1>6
    <3> QED
      BY <3>1
  <2>3. AlignedAt(l)'
    BY <1>1, <2>1, <2>2 DEF AlignedAt
  <2> QED
    BY <1>3, <1>4, <1>5, <2>3 DEF OInv
<1>8. CASE merged' = [merged EXCEPT ![l] = Append(@, e)]
  <2> DEFINE n == Len(merged[l])
  <2>1. /\ merged'[l] = Append(merged[l], e) /\ merged[l] \in Seq(Entry)
        /\ DOMAIN merged'[l] = DOMAIN merged[l] \cup {n + 1}
        /\ \A i \in DOMAIN merged[l] : merged'[l][i] = merged[l][i]
        /\ merged'[l][n + 1] = e /\ Len(merged'[l]) = n + 1 /\ n \in Nat
    BY <1>1, <1>8, AppendEntry
  <2>2. Taken(l)' = Taken(l) \cup {at[l]}
    BY <2>1 DEF Taken
  <2>3. 1 .. at[l] - 1 \subseteq Taken(l)' => n = at[l] - 1
    <3>1. at[l] \notin 1 .. at[l] - 1
      BY <1>6
    <3>2. 1 .. at[l] - 1 \subseteq Taken(l)' => 1 .. at[l] - 1 \subseteq Taken(l)
      BY <2>2, <3>1
    <3> QED
      BY <1>1, <3>2 DEF AlignedAt
  <2>4. 1 .. at[l] \subseteq Taken(l)' => n = at[l] - 1
    <3>1. 1 .. at[l] - 1 \subseteq 1 .. at[l]
      BY <1>6
    <3> QED
      BY <2>3, <3>1
  <2>5. ASSUME NEW i \in DOMAIN merged'[l], 1 .. merged'[l][i].group \subseteq Taken(l)'
        PROVE  merged'[l][i].group = i
    <3>1. CASE i \in DOMAIN merged[l]
      <4>1. merged'[l][i] = merged[l][i] /\ merged[l][i].group \in Taken(l)
        BY <2>1, <3>1 DEF Taken
      <4>2. at[l] \notin 1 .. merged[l][i].group
        BY <1>6, <4>1
      <4>3. 1 .. merged[l][i].group \subseteq Taken(l)
        BY <2>2, <2>5, <4>1, <4>2
      <4> QED
        BY <1>1, <3>1, <4>1, <4>3 DEF AlignedAt
    <3>2. CASE i = n + 1
      <4>1. merged'[l][i].group = at[l]
        BY <2>1, <3>2
      <4> QED
        BY <1>6, <2>4, <2>5, <3>2, <4>1
    <3> QED
      BY <2>1, <3>1, <3>2
  <2>6. AlignedAt(l)'
    <3>1. at'[l] - 1 = at[l]
      BY <1>2, <1>6
    <3>2. 1 .. at'[l] - 1 \subseteq Taken(l)' => Len(merged'[l]) = at'[l] - 1
      BY <1>6, <2>1, <2>4, <3>1
    <3> QED
      BY <2>5, <3>2 DEF AlignedAt
  <2> QED
    BY <1>3, <1>4, <1>5, <2>6 DEF OInv
<1> QED
  BY <1>7, <1>8

\* The group at hand joins.
LEMMA AnchorJoins ==
  ASSUME IInv, OInv, [Next]_vars, UNCHANGED result, NEW l \in Lane, pc[l] \in Looping,
         NEW pose \in Pose, Join(l, pose)
  PROVE  OInv'
<1> DEFINE e == [group |-> at[l], flat |-> flat[l], pose |-> pose]
<1>1. e \in Entry /\ e.group = at[l]
  BY DEF IInv, TypeOK, Entry
<1>2. merged' = [merged EXCEPT ![l] = Append(@, e)] /\ NextGroup(l)
  BY DEF Join
<1> HIDE DEF e
<1> QED
  BY <1>1, <1>2, AnchorMoves

\* The merge: the first look at the frames decides the canvas of a lone one, the
\* normalization the scale, the registration the canvas.
LEMMA AnchorDecides ==
  ASSUME IInv, OInv, [Next]_vars, NEW l \in Lane, UNCHANGED <<merged, at>>,
         \E to \in {"failed", "register", "stack", "stacked"} : pc' = [pc EXCEPT ![l] = to],
         \/ pc[l] = "merge" /\ pc'[l] # "stack" /\ UNCHANGED scale
         \/ /\ pc[l] = "merge" /\ pc'[l] = "register"
            /\ \E some : /\ scale' = [scale EXCEPT ![l] = some]
                         /\ \A x \in some : x[2] = merged[l][Reference(l)].group
         \/ pc[l] = "register" /\ UNCHANGED scale,
         \/ pc'[l] \in {"failed", "register"} /\ UNCHANGED <<shown, canvas>>
         \/ \E some, i : /\ shown' = [shown EXCEPT ![l] = some]
                         /\ AnchorIndex(l) \in some => i = AnchorIndex(l)
                         /\ canvas' = [canvas EXCEPT ![l] = merged[l][i].group]
  PROVE  OInv'
<1>1. /\ DOMAIN pc = Lane /\ \A m \in Lane : AlignedAt(m) /\ CanvasAt(m) /\ ScaleAt(m)
      /\ DOMAIN shown = Lane /\ DOMAIN canvas = Lane /\ DOMAIN scale = Lane
      /\ \A m \in Lane : AnchorIndex(m)' = AnchorIndex(m) /\ Taken(m)' = Taken(m)
  BY AnchorStays DEF IInv, TypeOK, OInv, Taken
<1>2. /\ \A m \in Lane \ {l} : pc'[m] = pc[m] /\ shown'[m] = shown[m] /\ canvas'[m] = canvas[m] /\ scale'[m] = scale[m]
      /\ DOMAIN shown' = Lane /\ DOMAIN canvas' = Lane /\ DOMAIN scale' = Lane
      /\ pc'[l] \in {"failed", "register", "stack", "stacked"}
  BY <1>1
<1>3. ASSUME NEW m \in Lane \ {l} PROVE (AlignedAt(m) /\ CanvasAt(m) /\ ScaleAt(m))'
  BY <1>1, <1>2 DEF AlignedAt, CanvasAt, ScaleAt
<1>4. AlignedAt(l)'
  BY <1>1, <1>2 DEF AlignedAt, Looping
<1>5. CanvasAt(l)'
  <2>1. CASE pc'[l] \in {"failed", "register"}
    BY <2>1 DEF CanvasAt
  <2>2. CASE pc'[l] \notin {"failed", "register"}
    <3>1. PICK some, i : /\ shown' = [shown EXCEPT ![l] = some]
                         /\ AnchorIndex(l) \in some => i = AnchorIndex(l)
                         /\ canvas' = [canvas EXCEPT ![l] = merged[l][i].group]
      BY <2>2
    <3>2. shown'[l] = some /\ canvas'[l] = merged[l][i].group
      BY <1>1, <3>1
    <3> QED
      BY <1>1, <3>1, <3>2 DEF CanvasAt
  <2> QED
    BY <2>1, <2>2
<1>6. ScaleAt(l)'
  <2>1. pc'[l] \notin Looping \cup {"merge"}
    BY <1>2 DEF Looping
  <2>2. CASE UNCHANGED scale
    BY <1>1, <2>1, <2>2 DEF ScaleAt
  <2>3. CASE \E some : /\ scale' = [scale EXCEPT ![l] = some]
                       /\ \A x \in some : x[2] = merged[l][Reference(l)].group
    <3>1. \A x \in scale'[l] : x[2] = merged[l][Reference(l)].group
      BY <1>1, <2>3
    <3>2. AnchorIndex(l) \in DOMAIN merged[l] => Reference(l) = AnchorIndex(l)
      BY DEF Reference
    <3> QED
      BY <1>1, <2>1, <3>1, <3>2 DEF ScaleAt
  <2> QED
    BY <2>2, <2>3
<1> QED
  BY <1>2, <1>3, <1>4, <1>5, <1>6 DEF OInv

LEMMA NextAnchor ==
  ASSUME IInv, OInv, [Next]_vars
  PROVE  OInv'
<1>p. pc \in [Lane -> Looping \cup {"merge", "register", "stack", "stacked", "failed"}]
  BY DEF IInv, TypeOK
<1>1. CASE UNCHANGED vars
  BY <1>1, AnchorWaits DEF vars, work, result
<1>2. CASE Cancel
  BY <1>2, AnchorWaits DEF Cancel, work
<1>3. CASE Restack
  <2>1. /\ DOMAIN shown' = Lane /\ DOMAIN canvas' = Lane /\ DOMAIN scale' = Lane
        /\ \A l \in Lane : merged'[l] = <<>> /\ scale'[l] = {} /\ at'[l] = 1 /\ pc'[l] = "masters"
    BY <1>3 DEF Restack, All
  <2> QED
    BY <2>1 DEF OInv, AlignedAt, CanvasAt, ScaleAt
<1>4. ASSUME NEW l \in Lane, Masters(l) PROVE OInv'
  BY <1>p, <1>4, AnchorWaits DEF Masters, Step, Looping
<1>5. ASSUME NEW l \in Lane, Calibrate(l) PROVE OInv'
  <2>1. CASE Calibrated(l) \/ Leave(l)
    BY <1>p, <1>5, <2>1, AnchorWaits DEF Calibrate, Calibrated, Leave, work, Looping
  <2>2. CASE Skip(l)
    <3>1. /\ UNCHANGED <<merged, result>> /\ NextGroup(l) /\ pc[l] \in Looping
      BY <1>5, <2>2 DEF Skip, Calibrate, Looping
    <3>2. PICK e \in Entry : e.group = at[l]
      <4>1. [group |-> at[l], flat |-> {}, pose |-> "captured"] \in Entry
        BY DEF IInv, TypeOK, Entry, Pose
      <4> QED
        BY <4>1
    <3> QED
      BY <3>1, <3>2, AnchorMoves
  <2> QED
    BY <1>5, <2>1, <2>2 DEF Calibrate
<1>6. ASSUME NEW l \in Lane, Probe(l) \/ Mirror(l) \/ Verify(l) \/ Undo(l) PROVE OInv'
  <2>1. pc[l] \in Looping /\ UNCHANGED result
    BY <1>6 DEF Probe, Mirror, Verify, Undo, Looping
  <2>2. \/ \E pose \in Pose : Join(l, pose)
        \/ UNCHANGED <<at, merged>> /\ \E to \in Looping : pc' = [pc EXCEPT ![l] = to]
    <3>1. "captured" \in Pose /\ "mirrored" \in Pose /\ "mirror" \in Looping /\ "verify" \in Looping /\ "undo" \in Looping
      BY DEF Pose, Looping
    <3>2. CASE Probe(l)
      BY <3>1, <3>2 DEF Probe
    <3>3. CASE Mirror(l)
      BY <3>1, <3>3 DEF Mirror, Step
    <3>4. CASE Verify(l)
      BY <3>1, <3>4 DEF Verify, Step
    <3>5. CASE Undo(l)
      BY <3>1, <3>5 DEF Undo
    <3> QED
      BY <1>6, <3>2, <3>3, <3>4, <3>5
  <2>3. CASE \E pose \in Pose : Join(l, pose)
    BY <2>1, <2>3, AnchorJoins
  <2>4. CASE UNCHANGED <<at, merged>> /\ \E to \in Looping : pc' = [pc EXCEPT ![l] = to]
    BY <1>p, <2>1, <2>4, AnchorWaits
  <2> QED
    BY <2>2, <2>3, <2>4
<1>7. ASSUME NEW l \in Lane, Lone(l) PROVE OInv'
  <2>1. /\ UNCHANGED <<merged, at, scale>> /\ pc[l] = "merge"
        /\ \/ pc' = [pc EXCEPT ![l] = "failed"] /\ UNCHANGED <<shown, canvas>>
           \/ /\ pc' = [pc EXCEPT ![l] = "stacked"] /\ shown' = [shown EXCEPT ![l] = {1}]
              /\ canvas' = [canvas EXCEPT ![l] = merged[l][1].group]
    BY <1>7 DEF Lone, Step, work
  <2>2. pc'[l] \in {"failed", "stacked"}
    BY <1>p, <2>1
  <2>3. CASE pc' = [pc EXCEPT ![l] = "failed"] /\ UNCHANGED <<shown, canvas>>
    BY <1>p, <2>1, <2>2, <2>3, AnchorDecides
  <2>4. CASE /\ pc' = [pc EXCEPT ![l] = "stacked"] /\ shown' = [shown EXCEPT ![l] = {1}]
             /\ canvas' = [canvas EXCEPT ![l] = merged[l][1].group]
    <3>1. \E some, i : /\ shown' = [shown EXCEPT ![l] = some]
                       /\ AnchorIndex(l) \in some => i = AnchorIndex(l)
                       /\ canvas' = [canvas EXCEPT ![l] = merged[l][i].group]
      <4> WITNESS {1}
      <4> WITNESS 1
      <4> QED
        BY <2>4
    <3> QED
      BY <1>p, <2>1, <2>2, <2>4, <3>1, AnchorDecides
  <2> QED
    BY <2>1, <2>3, <2>4
<1>8. ASSUME NEW l \in Lane, Normalize(l) PROVE OInv'
  <2>1. /\ UNCHANGED <<merged, at, shown, canvas>> /\ pc[l] = "merge" /\ pc' = [pc EXCEPT ![l] = "register"]
        /\ \E some : /\ scale' = [scale EXCEPT ![l] = some]
                     /\ \A x \in some : x[2] = merged[l][Reference(l)].group
    <3>1. PICK put : scale' = [scale EXCEPT ![l] =
                       {<<merged[l][i].group, merged[l][Reference(l)].group>> : i \in put}]
      BY <1>8 DEF Normalize
    <3>2. \A x \in {<<merged[l][i].group, merged[l][Reference(l)].group>> : i \in put} :
            x[2] = merged[l][Reference(l)].group
      OBVIOUS
    <3> QED
      BY <1>8, <3>1, <3>2 DEF Normalize, Step, work
  <2>2. pc'[l] = "register"
    BY <1>p, <2>1
  <2> QED
    BY <2>1, <2>2, AnchorDecides
<1>9. ASSUME NEW l \in Lane, Register(l) PROVE OInv'
  <2>1. /\ UNCHANGED <<merged, at, scale>> /\ pc[l] = "register"
        /\ \/ pc' = [pc EXCEPT ![l] = "failed"] /\ UNCHANGED <<shown, canvas>>
           \/ /\ pc' = [pc EXCEPT ![l] = "stack"]
              /\ \E some, i : /\ shown' = [shown EXCEPT ![l] = some]
                              /\ AnchorIndex(l) \in some => i = AnchorIndex(l)
                              /\ canvas' = [canvas EXCEPT ![l] = merged[l][i].group]
    BY <1>9, AnchorIndexIs DEF Register, Step, work
  <2>2. pc'[l] \in {"failed", "stack"} /\ (pc' = [pc EXCEPT ![l] = "failed"] => pc'[l] = "failed")
    BY <1>p, <2>1
  <2>3. CASE pc' = [pc EXCEPT ![l] = "failed"] /\ UNCHANGED <<shown, canvas>>
    BY <2>1, <2>2, <2>3, AnchorDecides
  <2>5. CASE pc' = [pc EXCEPT ![l] = "stack"]
    BY <2>1, <2>2, <2>5, AnchorDecides
  <2> QED
    BY <2>1, <2>3, <2>5
<1>10. ASSUME NEW l \in Lane, Stack(l) PROVE OInv'
  BY <1>p, <1>10, AnchorWaits DEF Stack, Step, work
<1> QED
  BY <1>1, <1>2, <1>3, <1>4, <1>5, <1>6, <1>7, <1>8, <1>9, <1>10 DEF Next

\* Where no group up to the anchor is missing, that group is merged at its index.
LEMMA AnchorMerged ==
  ASSUME IInv, OInv, NEW l \in Lane, Straight(l)
  PROVE  /\ AnchorIndex(l) \in DOMAIN merged[l]
         /\ merged[l][AnchorIndex(l)].group = AnchorIndex(l)
<1>1. AnchorIndex(l) \in DOMAIN plan[l] /\ plan[l] \in Seq(Group)
  BY AnchorIndexIs DEF IInv, TypeOK
<1>2. 1 .. AnchorIndex(l) \subseteq Taken(l) /\ AnchorIndex(l) \in 1 .. AnchorIndex(l)
  BY <1>1 DEF Straight
<1>3. PICK i \in DOMAIN merged[l] : merged[l][i].group = AnchorIndex(l)
  BY <1>2 DEF Taken
<1>4. merged[l][i].group = i
  BY <1>2, <1>3 DEF OInv, AlignedAt
<1> QED
  BY <1>3, <1>4

LEMMA AnchorHolds ==
  ASSUME IInv, OInv
  PROVE  OneAnchor
<1> SUFFICES ASSUME NEW l \in Lane, pc[l] = "stacked", Straight(l), \E g \in Range(plan[l]) : g.night = anchorNight
             PROVE  /\ AnchorIndex(l) \in shown[l] => plan[l][canvas[l]].night = anchorNight
                    /\ \A x \in scale[l] : plan[l][x[2]].night = anchorNight
  BY DEF OneAnchor
<1>1. plan[l][AnchorIndex(l)].night = anchorNight
  BY AnchorIndexIs DEF IInv
<1>2. AnchorIndex(l) \in DOMAIN merged[l] /\ merged[l][AnchorIndex(l)].group = AnchorIndex(l)
  BY AnchorMerged
<1> QED
  BY <1>1, <1>2 DEF OInv, CanvasAt, ScaleAt

-----------------------------------------------------------------------------
(* Theorems.                                                               *)

LEMMA NextInvariant == IInv /\ [Next]_vars => IInv'
<1> SUFFICES ASSUME IInv, [Next]_vars PROVE IInv'
  OBVIOUS
<1>1. CASE UNCHANGED vars
  BY <1>1, StutterStep
<1>2. CASE Cancel
  BY <1>2, CancelStep
<1>3. CASE Restack
  BY <1>3, RestackStep
<1>4. ASSUME NEW l \in Lane, Masters(l) PROVE IInv'
  BY <1>4, MastersStep
<1>5. ASSUME NEW l \in Lane, Calibrate(l) PROVE IInv'
  BY <1>5, QuietStep, SkipStep DEF Calibrate
<1>6. ASSUME NEW l \in Lane, Probe(l) PROVE IInv'
  BY <1>6, ProbeStep
<1>7. ASSUME NEW l \in Lane, Mirror(l) \/ Verify(l) \/ Undo(l) PROVE IInv'
  BY <1>7, MirrorStep, VerifyStep, UndoStep
<1>8. ASSUME NEW l \in Lane, Lone(l) \/ Normalize(l) \/ Register(l) \/ Stack(l) PROVE IInv'
  BY <1>8, QuietStep
<1> QED
  BY <1>1, <1>2, <1>3, <1>4, <1>5, <1>6, <1>7, <1>8 DEF Next

LEMMA Invariance == Spec => []IInv
  BY InitInvariant, NextInvariant, PTL DEF Spec

\* The plan, the caches and what the channels hold have their types, for any
\* channels, groups, flats and optics.
THEOREM TypeCorrect == Spec => []TypeOK
<1>1. IInv => TypeOK
  BY DEF IInv
<1> QED
  BY <1>1, Invariance, PTL

\* The groups of an earlier session are divided by flats of that session and
\* filter only, whichever channel asked for the flat first.
THEOREM FlatsAreOwn == Spec => []FlatIsOwn
<1>1. IInv => FlatIsOwn
  BY DEF IInv
<1> QED
  BY <1>1, Invariance, PTL

\* Frames that lie the wrong way round enter a merge only of a session that has
\* a warning, or was read falsely as often as it takes.
THEOREM FlipsAreTold == Spec => []FlipIsTold
<1>1. IInv => FlipIsTold
  BY DEF IInv
<1> QED
  BY <1>1, Invariance, PTL

\* A channel that is stacked lacks no group but those that failed by themselves,
\* wherever the run was cancelled.
THEOREM CancelIsFree == Spec => []CancelCostsNothing
<1>1. IInv => CancelCostsNothing
  BY DEF IInv, CancelCostsNothing, Accounted, AccountedAt, Passed, Looping
<1> QED
  BY <1>1, Invariance, PTL

\* The master of a channel lies on the anchor night's field, and its frames are
\* on the anchor night's scale, where the channel has a registered frame of that
\* night and lost no group before it: whichever groups failed after it, and
\* however often the run is stacked again (anchorGroupIndex, markReferenceGroup,
\* registerMergedGroups).
THEOREM MastersShareAnchor == Spec => []OneAnchor
<1>1. IInv /\ OInv => OneAnchor
  BY AnchorHolds
<1>2. Init => OInv
  BY InitAnchor
<1>3. IInv /\ OInv /\ [Next]_vars => OInv'
  BY NextAnchor
<1> QED
  BY <1>1, <1>2, <1>3, Invariance, PTL DEF Spec

=============================================================================
