----------------------------- MODULE MCScheduler -----------------------------
(* Instances of Scheduler for model checking.                               *)
EXTENDS Scheduler

\* A task that repeats, needs the server online and retries once.
MCRetrying == {[schedule |-> "repeat", retries |-> 1, needsOnline |-> TRUE]}

\* It may also be submitted with an expression that nothing can be computed from.
MCRepeating == MCRetrying \cup {[schedule |-> "invalid", retries |-> 0, needsOnline |-> FALSE]}

MCOnce  == {[schedule |-> "once", retries |-> 0, needsOnline |-> FALSE]}
MCEvent == {[schedule |-> "event", retries |-> 0, needsOnline |-> FALSE]}

\* A task is created as one kind and edited into the other.
MCRetryOrEvent == MCRetrying \cup MCEvent

\* Identifiers are drawn without end in the program.  Here a finished run is
\* forgotten so that its identifier can be drawn again: Execs bounds how many
\* runs are in flight, not how many there are.
Recycle(e) ==
  /\ pc[e] = "done"
  /\ pc' = [pc EXCEPT ![e] = "free"]
  /\ record' = [record EXCEPT ![e] = "none"]
  /\ job' = [job EXCEPT ![e] = BlankJob]
  /\ ctx' = [ctx EXCEPT ![e] = "live"]
  /\ attempt' = [attempt EXCEPT ![e] = 0]
  /\ ok' = [ok EXCEPT ![e] = FALSE]
  /\ verdict' = [verdict EXCEPT ![e] = "none"]
  /\ unrecorded' = unrecorded \ {e}
  /\ UNCHANGED <<rows, server, process, tracked, edits, cancels, crashes, faults>>

\* The scheduler left to itself: tasks are created, nobody cancels, triggers,
\* edits or deletes.
UnattendedNext ==
  \/ Start \/ CheckAndRunDueTasks
  \/ Stop \/ ExitLoop \/ StopWaited \/ StopCancels
  \/ ServerChanges
  \/ \E t \in Tasks : CreateTask(t) \/ BecomeDue(t)
  \/ \E e \in Execs : ExecuteTask(e) \/ Expire(e) \/ Recycle(e)

UnattendedSpec ==
  Init /\ [][UnattendedNext]_vars /\ Fairness /\ \A e \in Execs : WF_vars(Recycle(e))
=============================================================================
