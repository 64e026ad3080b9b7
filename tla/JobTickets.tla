----------------------------- MODULE JobTickets -----------------------------
(***************************************************************************)
(* What the job manager promises about runs, whatever requests, crashes    *)
(* and database failures do: a run of a job is paid for by a ticket, and a *)
(* ticket is issued by a submission, by a Continue of a paused job, or by  *)
(* a boot that finds the job queued.  A job's status changes only when a   *)
(* run starts or ends, when somebody cancels it, or at a boot.             *)
(***************************************************************************)
EXTENDS Naturals

CONSTANT Job

VARIABLES
  status,    \* status[j]: the status column, "none" before the row exists
  tickets,   \* tickets[j]: runs of j that are still owed
  runs       \* runs[j]: runs of j in progress

vars == <<status, tickets, runs>>

Terminal == {"succeeded", "failed", "cancelled"}

Init ==
  /\ status = [j \in Job |-> "none"]
  /\ tickets = [j \in Job |-> 0]
  /\ runs = [j \in Job |-> 0]

\* The new job has its ticket, or met a full queue and has none.
Submit(j) ==
  /\ status[j] = "none" /\ status' = [status EXCEPT ![j] = "queued"]
  /\ \E n \in 0..1 : tickets' = [tickets EXCEPT ![j] = n]
  /\ UNCHANGED runs

Continue(j) ==
  /\ status[j] = "paused"
  /\ tickets' = [tickets EXCEPT ![j] = @ + 1]
  /\ UNCHANGED <<status, runs>>

\* A ticket is lost: a full queue, an unreadable row, a cancelled job.
Void(j) ==
  /\ tickets[j] > 0 /\ tickets' = [tickets EXCEPT ![j] = @ - 1]
  /\ UNCHANGED <<status, runs>>

\* A run starts; the status may fail to say so.
Start(j) ==
  /\ tickets[j] > 0 /\ tickets' = [tickets EXCEPT ![j] = @ - 1]
  /\ runs' = [runs EXCEPT ![j] = @ + 1]
  /\ status' \in {status, [status EXCEPT ![j] = "running"]}

\* A run ends, in any way; the status may fail to say so.
End(j) ==
  /\ runs[j] > 0 /\ runs' = [runs EXCEPT ![j] = @ - 1]
  /\ status' \in {status} \cup {[status EXCEPT ![j] = st] : st \in Terminal \cup {"paused"}}
  /\ UNCHANGED tickets

Cancel(j) ==
  /\ status[j] # "none"
  /\ status' \in {[status EXCEPT ![j] = st] : st \in {"cancelled", "failed"}}
  /\ UNCHANGED <<tickets, runs>>

\* The process dies with every ticket and every run.
Crash ==
  /\ tickets' = [j \in Job |-> 0] /\ runs' = [j \in Job |-> 0]
  /\ UNCHANGED status

\* A boot finds no run in progress; it hands running jobs back to the queue or
\* gives them up (or fails to), and issues one ticket per queued job (or none).
Boot ==
  /\ \A j \in Job : tickets[j] = 0 /\ runs[j] = 0
  /\ \E fate \in [Job -> {"queued", "failed", "running"}] :
       status' = [j \in Job |-> IF status[j] = "running" THEN fate[j] ELSE status[j]]
  /\ \E n \in 0..1 : tickets' = [j \in Job |-> IF status'[j] = "queued" THEN n ELSE 0]
  /\ UNCHANGED runs

Next ==
  \/ Crash \/ Boot
  \/ \E j \in Job : \/ Submit(j) \/ Continue(j) \/ Void(j)
                    \/ Start(j) \/ End(j) \/ Cancel(j)

Spec == Init /\ [][Next]_vars
=============================================================================
