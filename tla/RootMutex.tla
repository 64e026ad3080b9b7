------------------------------ MODULE RootMutex ------------------------------
(***************************************************************************)
(* What internal/job's path locker promises its callers: a job enters with *)
(* the set of input roots it scans, and while it is inside no other job    *)
(* whose roots overlap may be.  "Overlap" is the same directory or one     *)
(* inside the other.  Nothing is said of how the promise is kept: no held  *)
(* map, no condition variable, no order among the waiters.                 *)
(***************************************************************************)
CONSTANTS
  Client,   \* the goroutines that take the lock (the job workers)
  Root,     \* the input roots jobs name
  Parent    \* Parent[r]: the roots r lies strictly inside of

VARIABLE
  inside    \* inside[c]: the roots client c is inside with, {} when outside

PathsConflict(a, b) == a = b \/ a \in Parent[b] \/ b \in Parent[a]

Overlap(R, S) == \E a \in R, b \in S : PathsConflict(a, b)

Init == inside = [c \in Client |-> {}]

Enter(c, R) ==
  /\ inside[c] = {}
  /\ \A d \in Client : ~Overlap(R, inside[d])
  /\ inside' = [inside EXCEPT ![c] = R]

Leave(c) ==
  /\ inside[c] # {}
  /\ inside' = [inside EXCEPT ![c] = {}]

Next == \E c \in Client : Leave(c) \/ \E R \in SUBSET Root : Enter(c, R)

Spec == Init /\ [][Next]_inside

TypeOK == inside \in [Client -> SUBSET Root]

\* Two jobs that are inside at the same time never overlap: the reason
\* pathlock.go exists (a run over data/M101 and one over data/M101/lights).
Exclusive ==
  \A c, d \in Client : c # d => ~Overlap(inside[c], inside[d])

=============================================================================
