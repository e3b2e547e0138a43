--------------------------- MODULE ExecutionLedger ---------------------------
(***************************************************************************)
(* What the execution history promises its reader, whatever runs the       *)
(* tasks: an execution is opened at most once and closed at most once, a   *)
(* closed one is not written again, and an outcome that blames the context *)
(* names what ended it.  Rows may be erased with their task, an execution  *)
(* may be forfeited (its writer died or could not write), and one that is  *)
(* closed after its row was erased comes back.                             *)
(***************************************************************************)
CONSTANTS Execs

VARIABLES
  ledger,   \* [Execs -> status]: the rows of task_executions
  phase,    \* [Execs -> "fresh", "open" or "closed"]: what its writer may still do
  cause     \* [Execs -> "live", "deadline" or "cancelled"]: how its context ended

vars == <<ledger, phase, cause>>

Init ==
  /\ ledger = [e \in Execs |-> "none"]
  /\ phase = [e \in Execs |-> "fresh"]
  /\ cause = [e \in Execs |-> "live"]

Move(e, from, to) == phase[e] = from /\ phase' = [phase EXCEPT ![e] = to]

\* The row appears, running.
Open(e) ==
  /\ Move(e, "fresh", "open")
  /\ ledger' = [ledger EXCEPT ![e] = "running"]
  /\ UNCHANGED cause

\* The row appears, ended: the run is skipped.
Skip(e) ==
  /\ Move(e, "fresh", "closed")
  /\ ledger' = [ledger EXCEPT ![e] = "skipped"]
  /\ UNCHANGED cause

\* No row will appear.
Drop(e) ==
  /\ Move(e, "fresh", "closed")
  /\ UNCHANGED <<ledger, cause>>

\* The one outcome an open execution gets.
Close(e) ==
  /\ Move(e, "open", "closed")
  /\ \E outcome \in {"completed", "failed", "timeout", "cancelled"} :
       /\ outcome = "timeout" => cause[e] = "deadline"
       /\ outcome = "cancelled" => cause[e] = "cancelled"
       /\ ledger' = [ledger EXCEPT ![e] = outcome]
  /\ UNCHANGED cause

\* The writer of an open execution gives up without an outcome.
Forfeit(e) ==
  /\ Move(e, "open", "closed")
  /\ UNCHANGED <<ledger, cause>>

\* The process dies: whatever is not closed stays as it is, or was never begun.
Collapse ==
  /\ \E S \in SUBSET Execs :
       phase' = [e \in Execs |-> IF e \in S THEN "closed" ELSE phase[e]]
  /\ UNCHANGED <<ledger, cause>>

\* Contexts end, each at most once.
Interrupt ==
  /\ cause' \in [Execs -> {"live", "deadline", "cancelled"}]
  /\ \A e \in Execs : cause[e] # "live" => cause'[e] = cause[e]
  /\ UNCHANGED <<ledger, phase>>

\* The rows of a deleted task go away.
Erase ==
  /\ \E S \in SUBSET Execs :
       ledger' = [e \in Execs |-> IF e \in S THEN "none" ELSE ledger[e]]
  /\ UNCHANGED <<phase, cause>>

Next ==
  \/ Collapse \/ Interrupt \/ Erase
  \/ \E e \in Execs : Open(e) \/ Skip(e) \/ Drop(e) \/ Close(e) \/ Forfeit(e)

Spec == Init /\ [][Next]_vars
=============================================================================
