-------------------------- MODULE DispatcherContract --------------------------
(***************************************************************************)
(* What the thread dispatcher promises those who dispatch runs and ask for *)
(* their status, as if admission, execution and shutdown took a moment     *)
(* each: a run waits or executes at most once at a time, no more run than  *)
(* there are workers, and none begins once the dispatcher is shut down.    *)
(***************************************************************************)
EXTENDS Naturals, FiniteSets

CONSTANTS
  Runs,        (* Run identifiers.                       *)
  MaxWorkers   (* How many runs may execute at once.     *)

VARIABLES
  status,      (* what get_status answers for each run   *)
  open         (* does dispatch still admit requests?    *)

vars == <<status, open>>

Init ==
  /\ status = [r \in Runs |-> "unknown"]
  /\ open = TRUE

Finished == {"completed", "failed", "unknown"}

Running == {r \in Runs : status[r] = "running"}

Becomes(r, answer) == status' = [status EXCEPT ![r] = answer]

Admit(r) ==
  /\ open
  /\ status[r] \in Finished
  /\ Becomes(r, "queued")
  /\ UNCHANGED open

Begin(r) ==
  /\ open
  /\ status[r] = "queued"
  /\ Cardinality(Running) < MaxWorkers
  /\ Becomes(r, "running")
  /\ UNCHANGED open

(* A run that ends may be pushed out of the history at once.               *)
End(r) ==
  /\ status[r] = "running"
  /\ \E answer \in Finished : Becomes(r, answer)
  /\ UNCHANGED open

Forget(r) ==
  /\ status[r] \in Finished
  /\ Becomes(r, "unknown")
  /\ UNCHANGED open

(* A request that still waits at shutdown is dropped.                      *)
Discard(r) ==
  /\ ~open
  /\ status[r] = "queued"
  /\ Becomes(r, "unknown")
  /\ UNCHANGED open

Close ==
  /\ open
  /\ open' = FALSE
  /\ UNCHANGED status

Next ==
  \/ \E r \in Runs : Admit(r) \/ Begin(r) \/ End(r) \/ Forget(r) \/ Discard(r)
  \/ Close

Spec == Init /\ [][Next]_vars

===============================================================================
