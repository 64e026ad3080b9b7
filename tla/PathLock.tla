------------------------------ MODULE PathLock ------------------------------
(***************************************************************************)
(* internal/job/pathlock.go: the monitor that serialises jobs whose input  *)
(* roots overlap.  Acquire claims ALL of a job's roots under one mutex, or *)
(* sleeps on the condition variable; release gives them back, unlocks, and *)
(* only THEN broadcasts, so the unlock and the wake-up are two steps other *)
(* goroutines run between.                                                 *)
(*                                                                         *)
(* The mutex is not a variable: each action below is one critical section, *)
(* or the broadcast, which runs outside it.                                *)
(***************************************************************************)
EXTENDS Naturals

CONSTANTS Client, Root, Parent

ASSUME ParentAssumption == Parent \in [Root -> SUBSET Root]

VARIABLES
  held,   \* pathLocker.held: root -> count; a root not in its domain is free
  pc,     \* where each goroutine is in Acquire / release
  want    \* the normalised roots it asked for

vars == <<held, pc, want>>

PathsConflict(a, b) == a = b \/ a \in Parent[b] \/ b \in Parent[a]

\* Broken variant: exact paths only, the mutex map this locker replaced.
AnyEqual(roots) == \E r \in roots, h \in DOMAIN held : r = h

\* anyConflict: some requested root conflicts with some held one.
AnyConflict(roots) ==
  \E r \in roots, h \in DOMAIN held : PathsConflict(r, h)

Init ==
  /\ held = [r \in {} |-> 0]
  /\ pc   = [c \in Client |-> "out"]
  /\ want = [c \in Client |-> {}]

\* A worker calls lockTarget with its job's roots.  normalizeRoots drops
\* duplicates and empty paths, so the request is a set; it may be empty, and
\* then there is nothing to conflict with.
Call(c) ==
  /\ pc[c] = "out"
  /\ \E R \in SUBSET Root : want' = [want EXCEPT ![c] = R]
  /\ pc' = [pc EXCEPT ![c] = "try"]
  /\ UNCHANGED held

\* l.held[r]++ for every requested root.
Claimed(roots) ==
  [r \in DOMAIN held \cup roots |->
     (IF r \in DOMAIN held THEN held[r] ELSE 0) + (IF r \in roots THEN 1 ELSE 0)]

\* One pass of the loop in Acquire: claim everything, or sleep.  Wait puts
\* the goroutine on the notify list before it releases the mutex.
Try(c) ==
  /\ pc[c] = "try"
  /\ IF AnyConflict(want[c])
     THEN /\ pc' = [pc EXCEPT ![c] = "wait"]
          /\ UNCHANGED held
     ELSE /\ pc' = [pc EXCEPT ![c] = "in"]
          /\ held' = Claimed(want[c])
  /\ UNCHANGED want

\* l.held[r]--, and delete(l.held, r) when the count falls to zero.
Released(roots) ==
  [r \in {x \in DOMAIN held : x \notin roots \/ held[x] > 1} |->
     IF r \in roots THEN held[r] - 1 ELSE held[r]]

Release(c) ==
  /\ pc[c] = "in"
  /\ held' = Released(want[c])
  /\ pc' = [pc EXCEPT ![c] = "bcast"]
  /\ UNCHANGED want

\* Broken variant: Signal instead of Broadcast, one sleeper rechecks.
SignalOne(c) ==
  /\ pc[c] = "bcast"
  /\ \/ \E s \in Client : pc[s] = "wait" /\ pc' = [pc EXCEPT ![c] = "out", ![s] = "try"]
     \/ (\A s \in Client : pc[s] # "wait") /\ pc' = [pc EXCEPT ![c] = "out"]
  /\ want' = [want EXCEPT ![c] = {}]
  /\ UNCHANGED held

\* Broken variant: no broadcast at all.
LeaveSilently(c) ==
  /\ pc[c] = "bcast"
  /\ pc' = [pc EXCEPT ![c] = "out"]
  /\ want' = [want EXCEPT ![c] = {}]
  /\ UNCHANGED held

\* l.cond.Broadcast(), after the unlock: every sleeper rechecks.
Broadcast(c) ==
  /\ pc[c] = "bcast"
  /\ pc' = [d \in Client |-> IF d = c THEN "out"
                             ELSE IF pc[d] = "wait" THEN "try" ELSE pc[d]]
  /\ want' = [want EXCEPT ![c] = {}]
  /\ UNCHANGED held

Next == \E c \in Client : Call(c) \/ Try(c) \/ Release(c) \/ Broadcast(c)

Spec == Init /\ [][Next]_vars

\* A goroutine that is runnable runs: the scheduler's fairness for the pass
\* of the loop and the broadcast.  A holder always leaves, because the job's
\* deferred unlock runs however the job ends.  Nobody is obliged to call.
FairSpec ==
  /\ Spec
  /\ \A c \in Client : WF_vars(Try(c)) /\ WF_vars(Release(c)) /\ WF_vars(Broadcast(c))

-----------------------------------------------------------------------------
Inside == {c \in Client : pc[c] = "in"}

TypeOK ==
  /\ DOMAIN held \subseteq Root
  /\ held \in [DOMAIN held -> Nat]
  /\ pc \in [Client -> {"out", "try", "wait", "in", "bcast"}]
  /\ want \in [Client -> SUBSET Root]

\* Two jobs inside the lock never scan the same directory, nor one a
\* directory above or below the other's (pathlock.go "Conflict = the same
\* path OR a directory-ancestor relationship").
Exclusive ==
  \A c, d \in Inside : c # d =>
    \A r \in want[c], s \in want[d] : ~PathsConflict(r, s)

\* The held map is exactly the roots of the jobs inside, each counted once:
\* "the held map only ever contains actively-running roots".
HeldIsInside ==
  /\ DOMAIN held = UNION {want[c] : c \in Inside}
  /\ \A r \in DOMAIN held : held[r] = 1

\* No wake-up is lost between the unlock and the broadcast: a sleeper whose
\* roots are free still has a broadcast coming.
NoLostWakeup ==
  \A c \in Client : pc[c] = "wait" /\ ~AnyConflict(want[c]) =>
    \E d \in Client : pc[d] = "bcast"

\* A job whose roots have become free is not left asleep: it gets in, or
\* some other job takes an overlapping root first.
FreeSleeperRuns ==
  \A c \in Client :
    (pc[c] = "wait" /\ ~AnyConflict(want[c])) ~> (pc[c] = "in" \/ AnyConflict(want[c]))

-----------------------------------------------------------------------------
\* The abstract lock: a client is inside with its roots from the moment it
\* claims them to the moment it gives them back.
Abs == INSTANCE RootMutex WITH
         inside <- [c \in Client |-> IF pc[c] = "in" THEN want[c] ELSE {}]

ImplementsRootMutex == Abs!Spec

=============================================================================
