------------------------------ MODULE RunContract ------------------------------
(***************************************************************************)
(* What a run promises to those who submit, watch and cancel it: the       *)
(* transitions of domain/run.py, and what each of them may rely on, as if  *)
(* a run were served by one worker that never loses a race.                *)
(***************************************************************************)
EXTENDS Naturals, Sequences

CONSTANTS
  Runs,      (* Run identifiers.               *)
  NumSteps   (* Steps of every plan version.   *)

VARIABLES status, runSteps, cancelRequested, manifests

vars == <<status, runSteps, cancelRequested, manifests>>

Init ==
  /\ status = [r \in Runs |-> "absent"]
  /\ runSteps = [r \in Runs |-> <<>>]
  /\ cancelRequested = [r \in Runs |-> FALSE]
  /\ manifests = [r \in Runs |-> <<>>]

Becomes(r, source, target) ==
  /\ status[r] = source
  /\ status' = [status EXCEPT ![r] = target]

Submit(r) ==
  /\ Becomes(r, "absent", "submitted")
  /\ UNCHANGED <<runSteps, cancelRequested, manifests>>

Start(r) ==
  /\ Becomes(r, "submitted", "running")
  /\ UNCHANGED <<runSteps, cancelRequested, manifests>>

AllSucceeded(steps) == \A i \in DOMAIN steps : steps[i] = "succeeded"

(* The next step of a run is recorded while the run is running, nobody has *)
(* asked for its cancellation, and every step before it succeeded.         *)
Record(r) ==
  /\ status[r] = "running"
  /\ ~cancelRequested[r]
  /\ Len(runSteps[r]) < NumSteps
  /\ AllSucceeded(runSteps[r])
  /\ \E result \in {"succeeded", "failed"} :
       runSteps' = [runSteps EXCEPT ![r] = Append(@, result)]
  /\ UNCHANGED <<status, cancelRequested, manifests>>

RequestCancel(r) ==
  /\ status[r] = "running"
  /\ cancelRequested' = [cancelRequested EXCEPT ![r] = TRUE]
  /\ UNCHANGED <<status, runSteps, manifests>>

(* A run that no worker has claimed is cancelled at once, without manifest. *)
Withdraw(r) ==
  /\ Becomes(r, "submitted", "cancelled")
  /\ UNCHANGED <<runSteps, cancelRequested, manifests>>

(* The run ends, and its manifest is written with it.                      *)
Finish(r) ==
  /\ \/ /\ Becomes(r, "running", "succeeded")
        /\ ~cancelRequested[r]
        /\ Len(runSteps[r]) = NumSteps
        /\ AllSucceeded(runSteps[r])
     \/ /\ Becomes(r, "running", "cancelled")
        /\ cancelRequested[r]
     \/ Becomes(r, "running", "failed")
     \/ Becomes(r, "running", "interrupted")
     \/ Becomes(r, "submitted", "failed")
  /\ manifests' = [manifests EXCEPT ![r] =
                     Append(@, [status |-> status'[r], steps |-> runSteps[r]])]
  /\ UNCHANGED <<runSteps, cancelRequested>>

Next == \E r \in Runs :
  \/ Submit(r) \/ Start(r) \/ Record(r) \/ RequestCancel(r) \/ Withdraw(r) \/ Finish(r)

Spec == Init /\ [][Next]_vars

===============================================================================
