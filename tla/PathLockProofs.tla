--------------------------- MODULE PathLockProofs ---------------------------
(***************************************************************************)
(* The path locker, proved for every set of jobs and every directory tree. *)
(* The inductive invariant says that the held map IS the set of roots of   *)
(* the jobs inside; mutual exclusion, the absence of lost wake-ups and the *)
(* refinement of RootMutex all follow from it.                             *)
(***************************************************************************)
EXTENDS PathLock, TLAPS

IInv == TypeOK /\ HeldIsInside /\ Exclusive

\* The counts and the set of jobs inside after a claim: every claimed root
\* was free, so its count is one.
LEMMA ClaimedHeld ==
  ASSUME IInv, NEW c \in Client, pc[c] = "try", ~AnyConflict(want[c])
  PROVE  /\ DOMAIN Claimed(want[c]) = DOMAIN held \cup want[c]
         /\ \A r \in DOMAIN Claimed(want[c]) : Claimed(want[c])[r] = 1
  <1>1. \A r \in want[c] : r \notin DOMAIN held
    BY DEF AnyConflict, PathsConflict
  <1> QED
    BY <1>1 DEF IInv, HeldIsInside, Claimed

\* The counts after a release: the roots of the job that leaves are gone,
\* every other count is untouched.
LEMMA ReleasedHeld ==
  ASSUME IInv, NEW c \in Client, pc[c] = "in"
  PROVE  /\ DOMAIN Released(want[c]) = DOMAIN held \ want[c]
         /\ \A r \in DOMAIN Released(want[c]) : Released(want[c])[r] = 1
  BY DEF IInv, HeldIsInside, Released

\* No root of a job inside is also a root of another job inside.
LEMMA InsideDisjoint ==
  ASSUME IInv, NEW c \in Inside, NEW d \in Inside, c # d
  PROVE  want[c] \cap want[d] = {}
  BY DEF IInv, Exclusive, PathsConflict

LEMMA TypeInit == Init => IInv
  BY DEF Init, IInv, TypeOK, HeldIsInside, Exclusive, Inside

LEMMA CallKeeps ==
  ASSUME IInv, NEW c \in Client, Call(c)
  PROVE  IInv'
  <1>1. TypeOK'
    BY DEF IInv, TypeOK, Call
  <1>2. Inside' = Inside /\ c \notin Inside
    BY DEF IInv, TypeOK, Call, Inside
  <1>3. \A d \in Inside : want'[d] = want[d]
    BY <1>2 DEF IInv, TypeOK, Call, Inside
  <1>4. HeldIsInside'
    <2>1. UNION {want'[d] : d \in Inside} = UNION {want[d] : d \in Inside}
      BY <1>3
    <2> QED
      BY <1>2, <2>1 DEF IInv, HeldIsInside, Call
  <1>5. Exclusive'
    BY <1>2, <1>3 DEF IInv, Exclusive, PathsConflict
  <1> QED
    BY <1>1, <1>4, <1>5 DEF IInv

LEMMA TryKeeps ==
  ASSUME IInv, NEW c \in Client, Try(c)
  PROVE  IInv'
  <1> USE DEF IInv
  <1>1. CASE AnyConflict(want[c])
    <2>1. Inside' = Inside /\ want' = want /\ held' = held
      BY <1>1 DEF TypeOK, Try, Inside
    <2> QED
      BY <2>1, <1>1 DEF TypeOK, Try, HeldIsInside, Exclusive, PathsConflict
  <1>2. CASE ~AnyConflict(want[c])
    <2>1. /\ pc[c] = "try"
          /\ pc' = [pc EXCEPT ![c] = "in"]
          /\ held' = Claimed(want[c])
          /\ want' = want
      BY <1>2 DEF Try
    <2>2. Inside' = Inside \cup {c} /\ c \notin Inside
      BY <2>1 DEF TypeOK, Inside
    <2>3. DOMAIN held' = DOMAIN held \cup want[c] /\ \A r \in DOMAIN held' : held'[r] = 1
      BY <1>2, <2>1, ClaimedHeld
    <2>4. TypeOK'
      <3>1. held' \in [DOMAIN held' -> Nat]
        BY <2>1, <2>3 DEF Claimed
      <3> QED
        BY <2>1, <2>3, <3>1 DEF TypeOK
    <2>5. HeldIsInside'
      BY <2>1, <2>2, <2>3 DEF HeldIsInside
    <2>6. Exclusive'
      <3> SUFFICES ASSUME NEW d \in Inside', NEW e \in Inside', d # e,
                          NEW r \in want[d], NEW s \in want[e]
                   PROVE  ~PathsConflict(r, s)
        BY <2>1 DEF Exclusive, PathsConflict
      <3>1. CASE d \in Inside /\ e \in Inside
        BY <3>1 DEF Exclusive
      <3>2. CASE d = c
        <4>1. s \in DOMAIN held
          BY <2>2, <3>2 DEF HeldIsInside
        <4> QED
          BY <4>1, <3>2, <1>2 DEF AnyConflict
      <3>3. CASE e = c
        <4>1. r \in DOMAIN held
          BY <2>2, <3>3 DEF HeldIsInside
        <4> QED
          BY <4>1, <3>3, <1>2 DEF AnyConflict, PathsConflict
      <3> QED
        BY <2>2, <3>1, <3>2, <3>3
    <2> QED
      BY <2>4, <2>5, <2>6
  <1> QED
    BY <1>1, <1>2

LEMMA ReleaseKeeps ==
  ASSUME IInv, NEW c \in Client, Release(c)
  PROVE  IInv'
  <1>1. /\ pc[c] = "in"
        /\ pc' = [pc EXCEPT ![c] = "bcast"]
        /\ held' = Released(want[c])
        /\ want' = want
    BY DEF Release
  <1>2. Inside' = Inside \ {c} /\ c \in Inside
    BY <1>1 DEF IInv, TypeOK, Inside
  <1>3. DOMAIN held' = DOMAIN held \ want[c] /\ \A r \in DOMAIN held' : held'[r] = 1
    BY <1>1, ReleasedHeld
  <1>4. TypeOK'
    <2>1. held' \in [DOMAIN held' -> Nat]
      BY <1>1, <1>3 DEF Released
    <2> QED
      BY <1>1, <1>3, <2>1 DEF IInv, TypeOK
  <1>5. HeldIsInside'
    <2>1. \A d \in Inside' : want[d] \cap want[c] = {}
      BY <1>2, InsideDisjoint
    <2>2. (UNION {want[d] : d \in Inside}) \ want[c] = UNION {want[d] : d \in Inside'}
      BY <1>2, <2>1
    <2> QED
      BY <1>1, <1>3, <2>2 DEF IInv, HeldIsInside
  <1>6. Exclusive'
    BY <1>1, <1>2 DEF IInv, Exclusive, PathsConflict
  <1> QED
    BY <1>4, <1>5, <1>6 DEF IInv

LEMMA BroadcastKeeps ==
  ASSUME IInv, NEW c \in Client, Broadcast(c)
  PROVE  IInv'
  <1>1. TypeOK'
    BY DEF IInv, TypeOK, Broadcast
  <1>2. Inside' = Inside /\ c \notin Inside
    BY DEF IInv, TypeOK, Broadcast, Inside
  <1>3. \A d \in Inside : want'[d] = want[d]
    BY <1>2 DEF IInv, TypeOK, Broadcast, Inside
  <1>4. HeldIsInside'
    <2>1. UNION {want'[d] : d \in Inside} = UNION {want[d] : d \in Inside}
      BY <1>3
    <2> QED
      BY <1>2, <2>1 DEF IInv, HeldIsInside, Broadcast
  <1>5. Exclusive'
    BY <1>2, <1>3 DEF IInv, Exclusive, PathsConflict
  <1> QED
    BY <1>1, <1>4, <1>5 DEF IInv

\* Every reachable state of the locker satisfies the inductive invariant.
THEOREM Invariance == Spec => []IInv
  <1>1. IInv /\ [Next]_vars => IInv'
    <2> SUFFICES ASSUME IInv, [Next]_vars PROVE IInv'
      OBVIOUS
    <2>1. CASE UNCHANGED vars
      BY <2>1 DEF IInv, vars, TypeOK, HeldIsInside, Exclusive, Inside, PathsConflict
    <2>2. CASE Next
      BY <2>2, CallKeeps, TryKeeps, ReleaseKeeps, BroadcastKeeps DEF Next
    <2> QED
      BY <2>1, <2>2
  <1> QED
    BY TypeInit, <1>1, PTL DEF Spec

\* No two jobs whose input roots overlap are ever inside the lock together,
\* whatever the number of workers and the shape of the directory tree.
THEOREM MutualExclusion == Spec => []Exclusive
  BY Invariance, PTL DEF IInv

\* The held map never holds a root nobody is using, nor misses one.
THEOREM HeldMapExact == Spec => []HeldIsInside
  BY Invariance, PTL DEF IInv

-----------------------------------------------------------------------------
\* A sleeper that could go ahead has a broadcast on its way.  A root leaves
\* the held map only in Release, which leaves its goroutine about to
\* broadcast; the broadcast leaves no sleeper.
THEOREM WakeupNotLost == Spec => []NoLostWakeup
  <1>1. Init => NoLostWakeup
    BY DEF Init, NoLostWakeup
  <1>2. IInv /\ NoLostWakeup /\ [Next]_vars => NoLostWakeup'
    <2> SUFFICES ASSUME IInv, NoLostWakeup, [Next]_vars,
                        NEW w \in Client, pc'[w] = "wait", ~AnyConflict(want[w])'
                 PROVE  \E d \in Client : pc'[d] = "bcast"
      BY DEF NoLostWakeup
    <2> USE DEF IInv, TypeOK
    <2>1. CASE UNCHANGED vars
      BY <2>1 DEF NoLostWakeup, vars, AnyConflict
    <2>2. ASSUME NEW c \in Client, Call(c) PROVE \E d \in Client : pc'[d] = "bcast"
      BY <2>2 DEF Call, NoLostWakeup, AnyConflict
    <2>3. ASSUME NEW c \in Client, Try(c) PROVE \E d \in Client : pc'[d] = "bcast"
      <3>1. CASE AnyConflict(want[c])
        BY <2>3, <3>1 DEF Try, NoLostWakeup, AnyConflict
      <3>2. CASE ~AnyConflict(want[c])
        <4>1. w # c /\ pc[w] = "wait" /\ want' = want
          BY <2>3, <3>2 DEF Try
        <4>2. DOMAIN held \subseteq DOMAIN held'
          BY <2>3, <3>2, ClaimedHeld DEF Try
        <4>3. ~AnyConflict(want[w])
          BY <4>1, <4>2 DEF AnyConflict
        <4> QED
          BY <2>3, <3>2, <4>1, <4>3 DEF Try, NoLostWakeup
      <3> QED
        BY <3>1, <3>2
    <2>4. ASSUME NEW c \in Client, Release(c) PROVE \E d \in Client : pc'[d] = "bcast"
      BY <2>4 DEF Release
    <2>5. ASSUME NEW c \in Client, Broadcast(c) PROVE \E d \in Client : pc'[d] = "bcast"
      BY <2>5 DEF Broadcast
    <2> QED
      BY <2>1, <2>2, <2>3, <2>4, <2>5 DEF Next
  <1> QED
    BY <1>1, <1>2, Invariance, PTL DEF Spec

-----------------------------------------------------------------------------
\* The locker implements the abstract mutex: claiming is Enter, giving back
\* is Leave, everything else (and a job without roots) is a stutter.
THEOREM Refinement == Spec => ImplementsRootMutex
  <1> DEFINE in == [c \in Client |-> IF pc[c] = "in" THEN want[c] ELSE {}]
  <1>1. Init => Abs!Init
    BY DEF Init, Abs!Init
  <1>2. IInv /\ [Next]_vars => [Abs!Next]_in
    <2> SUFFICES ASSUME IInv, [Next]_vars PROVE [Abs!Next]_in
      OBVIOUS
    <2> USE DEF IInv, TypeOK
    <2>1. CASE UNCHANGED vars
      BY <2>1 DEF vars
    <2>2. ASSUME NEW c \in Client, Call(c) PROVE UNCHANGED in
      BY <2>2 DEF Call
    <2>3. ASSUME NEW c \in Client, Try(c) PROVE [Abs!Next]_in
      <3>1. CASE AnyConflict(want[c])
        BY <2>3, <3>1 DEF Try
      <3>2. CASE ~AnyConflict(want[c])
        <4>1. /\ in[c] = {} /\ in' = [in EXCEPT ![c] = want[c]]
              /\ want[c] \in SUBSET Root
          BY <2>3, <3>2 DEF Try
        <4>2. ASSUME NEW d \in Client PROVE ~Abs!Overlap(want[c], in[d])
          <5>1. in[d] \subseteq DOMAIN held
            BY DEF HeldIsInside, Inside
          <5> QED
            BY <5>1, <3>2 DEF Abs!Overlap, Abs!PathsConflict, AnyConflict, PathsConflict
        <4>3. \E R \in SUBSET Root : Abs!Enter(c, R)
          BY <4>1, <4>2 DEF Abs!Enter
        <4> QED
          BY <4>3 DEF Abs!Next
      <3> QED
        BY <3>1, <3>2
    <2>4. ASSUME NEW c \in Client, Release(c) PROVE [Abs!Next]_in
      <3>1. in[c] = want[c] /\ in' = [in EXCEPT ![c] = {}]
        BY <2>4 DEF Release
      <3>2. CASE want[c] = {}
        BY <3>1, <3>2
      <3>3. CASE want[c] # {}
        BY <3>1, <3>3 DEF Abs!Next, Abs!Leave
      <3> QED
        BY <3>2, <3>3
    <2>5. ASSUME NEW c \in Client, Broadcast(c) PROVE UNCHANGED in
      BY <2>5 DEF Broadcast
    <2> QED
      BY <2>1, <2>2, <2>3, <2>4, <2>5 DEF Next
  <1> QED
    BY <1>1, <1>2, Invariance, PTL DEF Spec, Abs!Spec, ImplementsRootMutex
=============================================================================
