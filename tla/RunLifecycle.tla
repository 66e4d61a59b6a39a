----------------------------- MODULE RunLifecycle -----------------------------
(***************************************************************************)
(* The life of a run in cardre: SubmitRun, ExecuteRun, the heartbeat       *)
(* watchdog, CancelRun, FinalizeRun, the stale-run recovery and the        *)
(* startup reconciliation of dispatches, over one project database.        *)
(*                                                                         *)
(* Every database transaction of the code opens with BEGIN IMMEDIATE, so   *)
(* a transaction is one action.  What the code reads outside the           *)
(* transaction that uses it (the status ExecuteRun reads on entry, the     *)
(* cancellation flag, the heartbeats a sweep observes) is a step of its    *)
(* own.  What a process keeps in memory is lost when it exits.             *)
(*                                                                         *)
(* A process executes a run at most once at a time, so an execution        *)
(* attempt is named by its process and its run.                            *)
(***************************************************************************)
EXTENDS Integers, Sequences, FiniteSets

CONSTANTS
  Processes,      (* Server processes that share the project database.      *)
  Runs,           (* Run identifiers a submission may draw.  Bounds the model. *)
  PlanVersions,   (* Committed plan versions a run may execute.             *)
  NumSteps,       (* Steps of every plan version, in topological order.     *)
  SummarySteps,   (* Positions of the technical-manifest steps.             *)
  StaleAfter,     (* stale_heartbeat_seconds, in ticks.                     *)
  BeatEvery,      (* heartbeat_watchdog_interval_seconds, in ticks.         *)
  MaxMisses,      (* heartbeat_max_retries.                                 *)
  MaxClock,       (* Last tick of the clock.  Bounds the model.             *)
  MaxExits,       (* Crashes and shutdowns of processes.  Bounds the model. *)
  Faults,         (* May a transaction or a file write of a worker raise?   *)
  Punctual,       (* Does time wait for a watchdog whose interval is over?  *)
  None            (* No run, no plan version.                               *)

ASSUME PlanAssumption ==
  /\ NumSteps \in Nat
  /\ SummarySteps \subseteq Nat

ASSUME TimingAssumption ==
  /\ StaleAfter \in Nat
  /\ BeatEvery \in Nat \ {0}
  /\ BeatEvery <= StaleAfter
  /\ MaxMisses \in Nat \ {0}
  /\ MaxClock \in Nat
  /\ MaxExits \in Nat

ASSUME SwitchAssumption ==
  /\ Faults \in BOOLEAN
  /\ Punctual \in BOOLEAN
  /\ None \notin Runs \cup PlanVersions

VARIABLES
  (* The runs table, one function per column. *)
  status, versionOf, forced, cancelRequested, generation, heartbeatAt,
  (* The other tables a run owns rows of. *)
  pendingDispatch,  (* pending_run_dispatches                               *)
  runSteps,         (* run_steps: the statuses, in the order of insertion   *)
  summaries,        (* RunSummary artifacts: how many steps each one covers *)
  diagnostics,      (* diagnostics: their codes                             *)
  manifests,        (* manifest rows of the outbox: their payloads          *)
  (* Each process. *)
  proc, reconciling, queue, submission, sweep,
  (* Each execution attempt, and its heartbeat watchdog. *)
  pc, lease, at, outcome, watchdog, misses, due,
  (* The environment. *)
  clock, exits

dbVars == <<status, versionOf, forced, cancelRequested, generation, heartbeatAt,
            pendingDispatch, runSteps, summaries, diagnostics, manifests>>
procVars == <<proc, reconciling, queue, submission, sweep, exits>>
workerVars == <<pc, lease, at, outcome>>
watchdogVars == <<watchdog, misses, due>>
vars == <<dbVars, procVars, workerVars, watchdogVars, clock>>

-----------------------------------------------------------------------------
(* States and types.                                                       *)

Active == {"submitted", "running"}
Terminal == {"succeeded", "failed", "cancelled", "interrupted"}
RunStatus == Active \cup Terminal
StepStatus == {"succeeded", "failed"}

(* Where an attempt stands in ExecuteRun.__call__ and _execute_steps.  From *)
(* "stepTop" on the attempt has claimed the run.                            *)
BeforeClaim == {"entered", "validated", "preExecFailed", "preCancelled", "preFailed"}
Finalizing == {"finCancelled", "finSucceeded", "finFailed", "finInterrupted", "handler"}
Claimed == {"stepTop", "summary", "heartbeat", "node", "persist", "publish",
            "stopping"} \cup Finalizing

WatchdogState == {"off", "waiting", "terminalizing"}

Observation == Runs \X Nat

Submission == [pc : {"idle", "sweep", "dispatch"},
               version : PlanVersions \cup {None}, force : BOOLEAN, sync : BOOLEAN,
               run : Runs \cup {None}, observed : SUBSET Observation]

NoSubmission == [pc |-> "idle", version |-> None, force |-> FALSE, sync |-> FALSE,
                 run |-> None, observed |-> {}]

Codes == {"RUN_DISPATCH_FAILED", "RUN_VALIDATION_FAILED", "RUN_EXECUTION_FAILED",
          "RUN_HEARTBEAT_FAILED", "RUN_STALE"}

Manifest == [status : RunStatus, steps : Seq(StepStatus)]

DatabaseTypeOK ==
  /\ status \in [Runs -> RunStatus \cup {"absent"}]
  /\ versionOf \in [Runs -> PlanVersions \cup {None}]
  /\ forced \in [Runs -> BOOLEAN]
  /\ cancelRequested \in [Runs -> BOOLEAN]
  /\ generation \in [Runs -> Nat]
  /\ heartbeatAt \in [Runs -> Nat]
  /\ pendingDispatch \in SUBSET Runs
  /\ runSteps \in [Runs -> Seq(StepStatus)]
  /\ summaries \in [Runs -> SUBSET Nat]
  /\ diagnostics \in [Runs -> SUBSET Codes]
  /\ manifests \in [Runs -> Seq(Manifest)]

ProcessTypeOK ==
  /\ proc \in [Processes -> {"down", "starting", "up", "draining"}]
  /\ reconciling \in [Processes -> SUBSET Runs]
  /\ queue \in [Processes -> SUBSET Runs]
  /\ submission \in [Processes -> Submission]
  /\ \A p \in Processes : submission[p].pc = "dispatch" => submission[p].run \in Runs
  /\ sweep \in [Processes -> SUBSET Observation]
  /\ exits \in Nat

AttemptTypeOK ==
  /\ pc \in [Processes -> [Runs -> {"idle"} \cup BeforeClaim \cup Claimed]]
  /\ lease \in [Processes -> [Runs -> Nat]]
  /\ at \in [Processes -> [Runs -> Nat]]
  /\ outcome \in [Processes -> [Runs -> StepStatus]]
  /\ watchdog \in [Processes -> [Runs -> WatchdogState]]
  /\ misses \in [Processes -> [Runs -> Nat]]
  /\ due \in [Processes -> [Runs -> Nat]]

TypeOK == DatabaseTypeOK /\ ProcessTypeOK /\ AttemptTypeOK /\ clock \in Nat

Init ==
  /\ status = [r \in Runs |-> "absent"]
  /\ versionOf = [r \in Runs |-> None]
  /\ forced = [r \in Runs |-> FALSE]
  /\ cancelRequested = [r \in Runs |-> FALSE]
  /\ generation = [r \in Runs |-> 0]
  /\ heartbeatAt = [r \in Runs |-> 0]
  /\ pendingDispatch = {}
  /\ runSteps = [r \in Runs |-> <<>>]
  /\ summaries = [r \in Runs |-> {}]
  /\ diagnostics = [r \in Runs |-> {}]
  /\ manifests = [r \in Runs |-> <<>>]
  /\ proc = [p \in Processes |-> "down"]
  /\ reconciling = [p \in Processes |-> {}]
  /\ queue = [p \in Processes |-> {}]
  /\ submission = [p \in Processes |-> NoSubmission]
  /\ sweep = [p \in Processes |-> {}]
  /\ pc = [p \in Processes |-> [r \in Runs |-> "idle"]]
  /\ lease = [p \in Processes |-> [r \in Runs |-> 0]]
  /\ at = [p \in Processes |-> [r \in Runs |-> 0]]
  /\ outcome = [p \in Processes |-> [r \in Runs |-> "succeeded"]]
  /\ watchdog = [p \in Processes |-> [r \in Runs |-> "off"]]
  /\ misses = [p \in Processes |-> [r \in Runs |-> 0]]
  /\ due = [p \in Processes |-> [r \in Runs |-> 0]]
  /\ clock = 0
  /\ exits = 0

-----------------------------------------------------------------------------
(* The conditions and effects of the repositories' conditional updates.    *)
(* Some of them are followed by a faulty variant, which a mutant of the    *)
(* definition after it uses and no specification does.                     *)

NotSucceeded(r) == status[r] \notin {"absent", "succeeded"}

(* transition(expected_from = (SUBMITTED, RUNNING))                        *)
IsActive(r) == status[r] \in Active

ClaimableTwice(r) == IsActive(r)

(* transition(expected_from = (SUBMITTED,)), by the claim                  *)
Claimable(r) == status[r] = "submitted"

DispatchKept(r) == pendingDispatch

(* RunDispatchRepo.claim and remove                                        *)
DispatchRemoved(r) == pendingDispatch \ {r}

(* transition_failed_fenced, transition_interrupted_fenced, heartbeat_fenced *)
Owns(r, g) == status[r] = "running" /\ generation[r] = g

HoldsLeaseIfCancelled(r, g) == Owns(r, g)
HoldsLeaseOfOthers(r, g) == ~cancelRequested[r]

(* transition_success, assert_running_lease *)
HoldsLease(r, g) == Owns(r, g) /\ ~cancelRequested[r]

StillRunning(r, hb) == status[r] = "running"

(* transition_interrupted: heartbeat_at IS the observed value *)
StillObserved(r, hb) == status[r] = "running" /\ heartbeatAt[r] = hb

IsStaleInQueue(r) == status[r] = "submitted" /\ clock - heartbeatAt[r] > StaleAfter

(* Run.is_stale *)
IsStale(r) == status[r] = "running" /\ clock - heartbeatAt[r] > StaleAfter

StaleRuns == {<<r, heartbeatAt[r]>> : r \in {q \in Runs : IsStale(q)}}

(* FinalizeRun past its conditional transition, in the same transaction:   *)
(* the diagnostic, a new generation, the dispatch row and the manifest row. *)
Terminalize(r, target, codes) ==
  /\ status' = [status EXCEPT ![r] = target]
  /\ diagnostics' = [diagnostics EXCEPT ![r] = @ \cup codes]
  /\ generation' = [generation EXCEPT ![r] = @ + 1]
  /\ pendingDispatch' = DispatchRemoved(r)
  /\ manifests' = [manifests EXCEPT ![r] =
                     Append(@, [status |-> target, steps |-> runSteps[r]])]
  /\ UNCHANGED <<versionOf, forced, cancelRequested, heartbeatAt, runSteps, summaries>>

(* The diagnostic is written before the comparison. *)
InterruptDiagnosedFirst(r, hb) ==
  \/ StillObserved(r, hb) /\ Terminalize(r, "interrupted", {"RUN_STALE"})
  \/ /\ ~StillObserved(r, hb)
     /\ diagnostics' = [diagnostics EXCEPT ![r] = @ \cup {"RUN_STALE"}]
     /\ UNCHANGED <<status, versionOf, forced, cancelRequested, generation, heartbeatAt,
                    pendingDispatch, runSteps, summaries, manifests>>

(* FinalizeRun("interrupted", stale_heartbeat_at = hb): a lost comparison   *)
(* changes nothing.                                                         *)
InterruptIfStill(r, hb) ==
  \/ StillObserved(r, hb) /\ Terminalize(r, "interrupted", {"RUN_STALE"})
  \/ ~StillObserved(r, hb) /\ UNCHANGED dbVars

Goto(p, r, label) == pc' = [pc EXCEPT ![p][r] = label]

-----------------------------------------------------------------------------
(* SubmitRun, in a request thread of process p.                            *)

ServesRequests(p) == proc[p] \in {"up", "draining"}

SetSubmission(p, s) == submission' = [submission EXCEPT ![p] = s]

(* A request arrives; its sweep reads the runs that look abandoned.        *)
SubmitScan(p) ==
  /\ proc[p] = "up"
  /\ submission[p].pc = "idle"
  /\ \E v \in PlanVersions, force \in BOOLEAN, sync \in BOOLEAN :
       SetSubmission(p, [pc |-> "sweep", version |-> v, force |-> force, sync |-> sync,
                         run |-> None, observed |-> StaleRuns])
  /\ UNCHANGED <<dbVars, proc, reconciling, queue, sweep, exits, workerVars,
                 watchdogVars, clock>>

(* One abandoned run is interrupted.  A failed manifest write of that run  *)
(* aborts the submission.                                                  *)
SubmitSweep(p) ==
  /\ ServesRequests(p)
  /\ submission[p].pc = "sweep"
  /\ \E o \in submission[p].observed :
       /\ InterruptIfStill(o[1], o[2])
       /\ \/ SetSubmission(p, [submission[p] EXCEPT !.observed = @ \ {o}])
          \/ /\ Faults
             /\ SetSubmission(p, NoSubmission)
  /\ UNCHANGED <<proc, reconciling, queue, sweep, exits, workerVars, watchdogVars, clock>>

MayCreateUnlessRunning(version, force) ==
  force \/ ~ \E r \in Runs : versionOf[r] = version /\ status[r] = "running"

(* create_if_no_active_run                                                 *)
MayCreate(version, force) ==
  force \/ ~ \E r \in Runs : versionOf[r] = version /\ IsActive(r)

(* The run row and its dispatch row are inserted in one transaction.       *)
SubmitCreate(p) ==
  /\ ServesRequests(p)
  /\ submission[p].pc = "sweep"
  /\ submission[p].observed = {}
  /\ MayCreate(submission[p].version, submission[p].force)
  /\ \E r \in Runs :
       /\ status[r] = "absent"
       /\ status' = [status EXCEPT ![r] = "submitted"]
       /\ versionOf' = [versionOf EXCEPT ![r] = submission[p].version]
       /\ forced' = [forced EXCEPT ![r] = submission[p].force]
       /\ heartbeatAt' = [heartbeatAt EXCEPT ![r] = clock]
       /\ pendingDispatch' = pendingDispatch \cup {r}
       /\ SetSubmission(p, [submission[p] EXCEPT !.pc = "dispatch", !.run = r])
  /\ UNCHANGED <<cancelRequested, generation, runSteps, summaries, diagnostics, manifests,
                 proc, reconciling, queue, sweep, exits, workerVars, watchdogVars, clock>>

(* CONCURRENT_RUN, or a transaction of the sweep or the creation raises.   *)
SubmitRefused(p) ==
  /\ ServesRequests(p)
  /\ submission[p].pc = "sweep"
  /\ \/ Faults
     \/ /\ submission[p].observed = {}
        /\ ~MayCreate(submission[p].version, submission[p].force)
  /\ SetSubmission(p, NoSubmission)
  /\ UNCHANGED <<dbVars, proc, reconciling, queue, sweep, exits, workerVars,
                 watchdogVars, clock>>

(* The run goes to the in-memory queue, or is executed in the request.     *)
SubmitDispatch(p) ==
  /\ ServesRequests(p)
  /\ submission[p].pc = "dispatch"
  /\ LET r == submission[p].run IN
       \/ /\ submission[p].sync
          /\ pc[p][r] = "idle"
          /\ Goto(p, r, "entered")
          /\ UNCHANGED queue
       \/ /\ ~submission[p].sync
          /\ proc[p] = "up"
          /\ queue' = [queue EXCEPT ![p] = @ \cup {r}]
          /\ UNCHANGED pc
  /\ SetSubmission(p, NoSubmission)
  /\ UNCHANGED <<dbVars, proc, reconciling, sweep, exits, lease, at, outcome,
                 watchdogVars, clock>>

(* The dispatcher is shut down: the run is failed, whoever has claimed it. *)
SubmitDispatchFails(p) ==
  /\ proc[p] = "draining"
  /\ submission[p].pc = "dispatch"
  /\ ~submission[p].sync
  /\ LET r == submission[p].run IN
       \/ IsActive(r) /\ Terminalize(r, "failed", {"RUN_DISPATCH_FAILED"})
       \/ (Faults \/ ~IsActive(r)) /\ UNCHANGED dbVars
  /\ SetSubmission(p, NoSubmission)
  /\ UNCHANGED <<proc, reconciling, queue, sweep, exits, workerVars, watchdogVars, clock>>

Submit(p) ==
  \/ SubmitSweep(p) \/ SubmitCreate(p) \/ SubmitRefused(p)
  \/ SubmitDispatch(p) \/ SubmitDispatchFails(p)

-----------------------------------------------------------------------------
(* CancelRun, from a request or from the shutdown of the dispatcher.       *)

MayCancel == \E p \in Processes : ServesRequests(p)

(* No work has started: the run is terminal at once.                       *)
CancelSubmitted(r) ==
  /\ MayCancel
  /\ status[r] = "submitted"
  /\ status' = [status EXCEPT ![r] = "cancelled"]
  /\ pendingDispatch' = DispatchRemoved(r)
  /\ UNCHANGED <<versionOf, forced, cancelRequested, generation, heartbeatAt, runSteps,
                 summaries, diagnostics, manifests, procVars, workerVars, watchdogVars, clock>>

(* A worker has the run: it is asked to stop at its next fence.            *)
CancelRunning(r) ==
  /\ MayCancel
  /\ status[r] = "running"
  /\ cancelRequested' = [cancelRequested EXCEPT ![r] = TRUE]
  /\ UNCHANGED <<status, versionOf, forced, generation, heartbeatAt, pendingDispatch, runSteps,
                 summaries, diagnostics, manifests, procVars, workerVars, watchdogVars, clock>>

-----------------------------------------------------------------------------
(* ExecuteRun, up to and including the claim.                              *)

WorkerOnly == UNCHANGED <<dbVars, procVars, watchdogVars, clock>>

(* A worker of the pool takes the run from the queue.                      *)
Take(p, r) ==
  /\ proc[p] \in {"starting", "up"}
  /\ r \in queue[p]
  /\ pc[p][r] = "idle"
  /\ queue' = [queue EXCEPT ![p] = @ \ {r}]
  /\ Goto(p, r, "entered")
  /\ UNCHANGED <<dbVars, proc, reconciling, submission, sweep, exits, lease, at, outcome,
                 watchdogVars, clock>>

(* The run and its plan are read; a run that is not submitted is left alone. *)
Enter(p, r) ==
  /\ pc[p][r] = "entered"
  /\ \/ status[r] = "submitted" /\ Goto(p, r, "validated")
     \/ (status[r] # "submitted" \/ Faults) /\ Goto(p, r, "idle")
  /\ UNCHANGED <<lease, at, outcome>>
  /\ WorkerOnly

(* The checks of the plan come after the claim. *)
PreExecFailsLate(p, r) ==
  /\ pc[p][r] \in {"validated", "stepTop"}
  /\ Goto(p, r, "preExecFailed")
  /\ UNCHANGED <<lease, at, outcome>>
  /\ WorkerOnly

(* validate_topology or _assert_nodes_available refuses the plan, or the   *)
(* claim raises.                                                           *)
PreExecFails(p, r) ==
  /\ pc[p][r] = "validated"
  /\ Goto(p, r, "preExecFailed")
  /\ UNCHANGED <<lease, at, outcome>>
  /\ WorkerOnly

(* _claim_run: submitted -> running, a generation, and the dispatch row is *)
(* consumed, in one transaction; then the watchdog starts.                 *)
Claim(p, r) ==
  /\ pc[p][r] = "validated"
  /\ Claimable(r)
  /\ status' = [status EXCEPT ![r] = "running"]
  /\ generation' = [generation EXCEPT ![r] = @ + 1]
  /\ pendingDispatch' = DispatchRemoved(r)
  /\ lease' = [lease EXCEPT ![p][r] = generation[r] + 1]
  /\ at' = [at EXCEPT ![p][r] = 1]
  /\ watchdog' = [watchdog EXCEPT ![p][r] = "waiting"]
  /\ misses' = [misses EXCEPT ![p][r] = 0]
  /\ due' = [due EXCEPT ![p][r] = clock + BeatEvery]
  /\ Goto(p, r, "stepTop")
  /\ UNCHANGED <<versionOf, forced, cancelRequested, heartbeatAt, runSteps, summaries,
                 diagnostics, manifests, procVars, outcome, clock>>

(* Another attempt claimed the run, or it is terminal.                     *)
ClaimLost(p, r) ==
  /\ pc[p][r] = "validated"
  /\ ~Claimable(r)
  /\ Goto(p, r, "idle")
  /\ UNCHANGED <<lease, at, outcome>>
  /\ WorkerOnly

(* _finalize_after_pre_exec_failure reads the cancellation flag ...        *)
PreExecRead(p, r) ==
  /\ pc[p][r] = "preExecFailed"
  /\ Goto(p, r, IF cancelRequested[r] THEN "preCancelled" ELSE "preFailed")
  /\ UNCHANGED <<lease, at, outcome>>
  /\ WorkerOnly

(* ... and finalizes the run without a generation.  RunAlreadyFinalised,   *)
(* like a fault, ends the attempt and changes nothing.                     *)
PreExecFinalize(p, r) ==
  /\ \/ pc[p][r] = "preCancelled" /\ IsActive(r) /\ Terminalize(r, "cancelled", {})
     \/ pc[p][r] = "preFailed" /\ IsActive(r)
        /\ Terminalize(r, "failed", {"RUN_VALIDATION_FAILED"})
     \/ pc[p][r] \in {"preCancelled", "preFailed"} /\ (Faults \/ ~IsActive(r))
        /\ UNCHANGED dbVars
  /\ Goto(p, r, "idle")
  /\ UNCHANGED <<procVars, lease, at, outcome, watchdogVars, clock>>

-----------------------------------------------------------------------------
(* ExecuteRun after the claim: _execute_steps and its exception handler.   *)

(* The top of the loop, and the check after its last iteration: both read  *)
(* the cancellation flag.                                                  *)
StepTop(p, r) ==
  /\ pc[p][r] = "stepTop"
  /\ \/ cancelRequested[r] /\ Goto(p, r, "finCancelled")
     \/ ~cancelRequested[r] /\ at[p][r] > NumSteps /\ Goto(p, r, "finSucceeded")
     \/ ~cancelRequested[r] /\ at[p][r] <= NumSteps
        /\ Goto(p, r, IF at[p][r] \in SummarySteps /\ at[p][r] > 1
                        THEN "summary" ELSE "heartbeat")
     \/ Faults /\ Goto(p, r, "handler")
  /\ UNCHANGED <<lease, at, outcome>>
  /\ WorkerOnly

(* _publish_run_summary: written under the lease, or skipped without it.   *)
WriteSummary(p, r) ==
  /\ pc[p][r] = "summary"
  /\ \/ /\ HoldsLease(r, lease[p][r])
        /\ summaries' = [summaries EXCEPT ![r] = @ \cup {Len(runSteps[r])}]
        /\ \/ Goto(p, r, "heartbeat")
           \/ Faults /\ Goto(p, r, "handler")
     \/ /\ ~HoldsLease(r, lease[p][r])
        /\ UNCHANGED summaries
        /\ Goto(p, r, "heartbeat")
     \/ /\ Faults
        /\ UNCHANGED summaries
        /\ Goto(p, r, "handler")
  /\ UNCHANGED <<status, versionOf, forced, cancelRequested, generation, heartbeatAt,
                 pendingDispatch, runSteps, diagnostics, manifests,
                 procVars, lease, at, outcome, watchdogVars, clock>>

(* _heartbeat: renewed, lost, or failed heartbeat_max_retries times.       *)
Heartbeat(p, r) ==
  /\ pc[p][r] = "heartbeat"
  /\ \/ /\ Owns(r, lease[p][r])
        /\ heartbeatAt' = [heartbeatAt EXCEPT ![r] = clock]
        /\ Goto(p, r, "node")
     \/ /\ ~Owns(r, lease[p][r])
        /\ UNCHANGED heartbeatAt
        /\ Goto(p, r, "stopping")
     \/ /\ Faults
        /\ UNCHANGED heartbeatAt
        /\ Goto(p, r, "finInterrupted")
  /\ UNCHANGED <<status, versionOf, forced, cancelRequested, generation, pendingDispatch,
                 runSteps, summaries, diagnostics, manifests,
                 procVars, lease, at, outcome, watchdogVars, clock>>

(* StepRunner.run_step: a node that raises yields a failed result.         *)
RunNode(p, r) ==
  /\ pc[p][r] = "node"
  /\ \E result \in StepStatus : outcome' = [outcome EXCEPT ![p][r] = result]
  /\ Goto(p, r, "persist")
  /\ UNCHANGED <<lease, at>>
  /\ WorkerOnly

(* _persist_step_outputs: the run step, its artifacts, their lineage and   *)
(* outbox rows and the evidence edges, under the lease, or nothing.        *)
Persist(p, r) ==
  /\ pc[p][r] = "persist"
  /\ \/ /\ HoldsLease(r, lease[p][r])
        /\ runSteps' = [runSteps EXCEPT ![r] = Append(@, outcome[p][r])]
        /\ Goto(p, r, "publish")
     \/ /\ ~HoldsLease(r, lease[p][r])
        /\ UNCHANGED runSteps
        /\ Goto(p, r, IF status[r] = "running" /\ cancelRequested[r]
                        THEN "finCancelled" ELSE "stopping")
     \/ /\ Faults
        /\ UNCHANGED runSteps
        /\ Goto(p, r, "handler")
  /\ UNCHANGED <<status, versionOf, forced, cancelRequested, generation, heartbeatAt,
                 pendingDispatch, summaries, diagnostics, manifests,
                 procVars, lease, at, outcome, watchdogVars, clock>>

(* _finalize_artifacts, then the verdict on the step.                      *)
PublishArtifacts(p, r) ==
  /\ pc[p][r] = "publish"
  /\ \/ /\ outcome[p][r] = "succeeded"
        /\ at' = [at EXCEPT ![p][r] = @ + 1]
        /\ Goto(p, r, "stepTop")
     \/ /\ outcome[p][r] = "failed"
        /\ UNCHANGED at
        /\ Goto(p, r, "finFailed")
     \/ /\ Faults
        /\ UNCHANGED at
        /\ Goto(p, r, "handler")
  /\ UNCHANGED <<lease, outcome>>
  /\ WorkerOnly

(* FinalizeRun("cancelled"): any active run, whatever its generation.      *)
FinalizeCancelled(p, r) ==
  /\ pc[p][r] = "finCancelled"
  /\ IsActive(r)
  /\ Terminalize(r, "cancelled", {})

(* FinalizeRun("succeeded"): a cancellation that came first wins.          *)
FinalizeSucceeded(p, r) ==
  /\ pc[p][r] = "finSucceeded"
  /\ \/ HoldsLease(r, lease[p][r]) /\ Terminalize(r, "succeeded", {})
     \/ ~HoldsLease(r, lease[p][r]) /\ cancelRequested[r] /\ IsActive(r)
        /\ Terminalize(r, "cancelled", {})

FinalizeErrored(p, r) ==
  /\ Owns(r, lease[p][r])
  /\ pc[p][r] \in {"finFailed", "handler"}
  /\ Terminalize(r, "errored", {})

(* FinalizeRun("failed") with the generation: after a failed step, or from *)
(* the exception handler.                                                  *)
FinalizeFailed(p, r) ==
  /\ Owns(r, lease[p][r])
  /\ \/ pc[p][r] = "finFailed" /\ Terminalize(r, "failed", {})
     \/ pc[p][r] = "handler" /\ Terminalize(r, "failed", {"RUN_EXECUTION_FAILED"})

(* FinalizeRun("interrupted") with the generation.                         *)
FinalizeInterrupted(p, r) ==
  /\ pc[p][r] = "finInterrupted"
  /\ Owns(r, lease[p][r])
  /\ Terminalize(r, "interrupted", {"RUN_HEARTBEAT_FAILED"})

(* A finalization that commits ends the attempt; when the manifest cannot  *)
(* be written afterwards, the exception handler finalizes again.           *)
Finalize(p, r) ==
  /\ \/ FinalizeCancelled(p, r) \/ FinalizeSucceeded(p, r)
     \/ FinalizeFailed(p, r) \/ FinalizeInterrupted(p, r)
  /\ \/ Goto(p, r, "stopping")
     \/ Faults /\ pc[p][r] # "handler" /\ Goto(p, r, "handler")
  /\ UNCHANGED <<procVars, lease, at, outcome, watchdogVars, clock>>

(* RunAlreadyFinalised, or a transaction that fails, is an exception; the  *)
(* handler suppresses the first and lets the second end the attempt.  A    *)
(* fenced finalization that has lost its lease returns quietly.            *)
FinalizeLost(p, r) ==
  /\ \/ /\ pc[p][r] = "finCancelled"
        /\ Faults \/ ~IsActive(r)
        /\ Goto(p, r, "handler")
     \/ /\ pc[p][r] = "finSucceeded"
        /\ \/ Faults
           \/ ~HoldsLease(r, lease[p][r]) /\ ~(cancelRequested[r] /\ IsActive(r))
        /\ Goto(p, r, "handler")
     \/ /\ pc[p][r] \in {"finFailed", "finInterrupted"}
        /\ Faults
        /\ Goto(p, r, "handler")
     \/ /\ pc[p][r] \in {"finFailed", "finInterrupted", "handler"}
        /\ ~Owns(r, lease[p][r])
        /\ Goto(p, r, "stopping")
     \/ /\ pc[p][r] = "handler"
        /\ Faults
        /\ Goto(p, r, "stopping")
  /\ UNCHANGED <<lease, at, outcome>>
  /\ WorkerOnly

(* watchdog.stop(): joins the watchdog, then the attempt is over.          *)
StopWatchdog(p, r) ==
  /\ pc[p][r] = "stopping"
  /\ watchdog[p][r] # "terminalizing"
  /\ watchdog' = [watchdog EXCEPT ![p][r] = "off"]
  /\ misses' = [misses EXCEPT ![p][r] = 0]
  /\ due' = [due EXCEPT ![p][r] = 0]
  /\ lease' = [lease EXCEPT ![p][r] = 0]
  /\ at' = [at EXCEPT ![p][r] = 0]
  /\ outcome' = [outcome EXCEPT ![p][r] = "succeeded"]
  /\ Goto(p, r, "idle")
  /\ UNCHANGED <<dbVars, procVars, clock>>

Work(p, r) ==
  \/ Enter(p, r) \/ PreExecFails(p, r) \/ Claim(p, r) \/ ClaimLost(p, r)
  \/ PreExecRead(p, r) \/ PreExecFinalize(p, r)
  \/ StepTop(p, r) \/ WriteSummary(p, r) \/ Heartbeat(p, r) \/ RunNode(p, r)
  \/ Persist(p, r) \/ PublishArtifacts(p, r)
  \/ Finalize(p, r) \/ FinalizeLost(p, r) \/ StopWatchdog(p, r)

-----------------------------------------------------------------------------
(* HeartbeatWatchdog, a thread of its own beside each claimed attempt.     *)

WatchdogOnly == UNCHANGED <<procVars, workerVars, clock>>

(* The interval is over: the lease is renewed, or found lost, or the       *)
(* renewal fails and too many misses in a row lead to _terminalize.        *)
WatchdogBeat(p, r) ==
  /\ watchdog[p][r] = "waiting"
  /\ clock >= due[p][r]
  /\ \/ /\ Owns(r, lease[p][r])
        /\ heartbeatAt' = [heartbeatAt EXCEPT ![r] = clock]
        /\ misses' = [misses EXCEPT ![p][r] = 0]
        /\ due' = [due EXCEPT ![p][r] = clock + BeatEvery]
        /\ UNCHANGED watchdog
     \/ /\ ~Owns(r, lease[p][r])
        /\ watchdog' = [watchdog EXCEPT ![p][r] = "off"]
        /\ UNCHANGED <<heartbeatAt, misses, due>>
     \/ /\ Faults
        /\ misses' = [misses EXCEPT ![p][r] = IF @ < MaxMisses THEN @ + 1 ELSE @]
        /\ IF misses[p][r] + 1 >= MaxMisses
             THEN /\ watchdog' = [watchdog EXCEPT ![p][r] = "terminalizing"]
                  /\ UNCHANGED due
             ELSE /\ due' = [due EXCEPT ![p][r] = clock + BeatEvery]
                  /\ UNCHANGED watchdog
        /\ UNCHANGED heartbeatAt
  /\ UNCHANGED <<status, versionOf, forced, cancelRequested, generation, pendingDispatch,
                 runSteps, summaries, diagnostics, manifests>>
  /\ WatchdogOnly

(* _terminalize: the run is interrupted, or is no longer this worker's, or *)
(* the finalization fails and is tried again after the next interval.      *)
WatchdogTerminalize(p, r) ==
  /\ watchdog[p][r] = "terminalizing"
  /\ \/ /\ Owns(r, lease[p][r])
        /\ Terminalize(r, "interrupted", {"RUN_HEARTBEAT_FAILED"})
        /\ \/ /\ watchdog' = [watchdog EXCEPT ![p][r] = "off"]
              /\ UNCHANGED due
           \/ /\ Faults
              /\ watchdog' = [watchdog EXCEPT ![p][r] = "waiting"]
              /\ due' = [due EXCEPT ![p][r] = clock + BeatEvery]
     \/ /\ ~Owns(r, lease[p][r])
        /\ watchdog' = [watchdog EXCEPT ![p][r] = "off"]
        /\ UNCHANGED <<dbVars, due>>
     \/ /\ Faults
        /\ watchdog' = [watchdog EXCEPT ![p][r] = "waiting"]
        /\ due' = [due EXCEPT ![p][r] = clock + BeatEvery]
        /\ UNCHANGED dbVars
  /\ UNCHANGED misses
  /\ WatchdogOnly

Watch(p, r) == WatchdogBeat(p, r) \/ WatchdogTerminalize(p, r)

-----------------------------------------------------------------------------
(* RecoverStaleRuns, on the periodic thread of process p.                  *)

RecoverScan(p) ==
  /\ ServesRequests(p)
  /\ sweep[p] = {}
  /\ StaleRuns # {}
  /\ sweep' = [sweep EXCEPT ![p] = StaleRuns]
  /\ UNCHANGED <<dbVars, proc, reconciling, queue, submission, exits, workerVars,
                 watchdogVars, clock>>

RecoverOne(p) ==
  /\ ServesRequests(p)
  /\ \E o \in sweep[p] :
       /\ InterruptIfStill(o[1], o[2])
       /\ sweep' = [sweep EXCEPT ![p] = @ \ {o}]
  /\ UNCHANGED <<proc, reconciling, queue, submission, exits, workerVars, watchdogVars, clock>>

(* The finalization of one run raises: it waits for the next pass.         *)
RecoverSkips(p) ==
  /\ ServesRequests(p)
  /\ Faults
  /\ \E o \in sweep[p] : sweep' = [sweep EXCEPT ![p] = @ \ {o}]
  /\ UNCHANGED <<dbVars, proc, reconciling, queue, submission, exits, workerVars,
                 watchdogVars, clock>>

-----------------------------------------------------------------------------
(* The process: startup with its reconciliation, shutdown, exit.           *)

StartAfresh(p) ==
  /\ proc[p] = "down"
  /\ proc' = [proc EXCEPT ![p] = "starting"]
  /\ UNCHANGED <<dbVars, reconciling, queue, submission, sweep, exits, workerVars,
                 watchdogVars, clock>>

(* build_app: the pending dispatches are listed ...                        *)
Start(p) ==
  /\ proc[p] = "down"
  /\ proc' = [proc EXCEPT ![p] = "starting"]
  /\ reconciling' = [reconciling EXCEPT ![p] = pendingDispatch]
  /\ UNCHANGED <<dbVars, queue, submission, sweep, exits, workerVars, watchdogVars, clock>>

(* ... and each is handed to the dispatcher, or dropped when its run is no *)
(* longer submitted, or skipped when it cannot be read.                    *)
ReconcileOne(p) ==
  /\ proc[p] = "starting"
  /\ \E r \in reconciling[p] :
       /\ reconciling' = [reconciling EXCEPT ![p] = @ \ {r}]
       /\ \/ /\ status[r] = "submitted"
             /\ queue' = [queue EXCEPT ![p] = @ \cup {r}]
             /\ UNCHANGED pendingDispatch
          \/ /\ status[r] # "submitted"
             /\ pendingDispatch' = DispatchRemoved(r)
             /\ UNCHANGED queue
          \/ /\ Faults
             /\ UNCHANGED <<queue, pendingDispatch>>
  /\ UNCHANGED <<status, versionOf, forced, cancelRequested, generation, heartbeatAt,
                 runSteps, summaries, diagnostics, manifests,
                 proc, submission, sweep, exits, workerVars, watchdogVars, clock>>

(* The application serves requests and the recovery thread starts.         *)
Serve(p) ==
  /\ proc[p] = "starting"
  /\ reconciling[p] = {}
  /\ proc' = [proc EXCEPT ![p] = "up"]
  /\ UNCHANGED <<dbVars, reconciling, queue, submission, sweep, exits, workerVars,
                 watchdogVars, clock>>

(* ThreadRunDispatcher.shutdown: no run is taken from the queue any more.  *)
Shutdown(p) ==
  /\ proc[p] = "up"
  /\ exits < MaxExits
  /\ exits' = exits + 1
  /\ proc' = [proc EXCEPT ![p] = "draining"]
  /\ queue' = [queue EXCEPT ![p] = {}]
  /\ UNCHANGED <<dbVars, reconciling, submission, sweep, workerVars, watchdogVars, clock>>

(* The process ends; its memory and its threads are gone.                  *)
Exit(p) ==
  /\ proc[p] # "down"
  /\ proc[p] # "draining" => exits < MaxExits
  /\ exits' = IF proc[p] = "draining" THEN exits ELSE exits + 1
  /\ proc' = [proc EXCEPT ![p] = "down"]
  /\ reconciling' = [reconciling EXCEPT ![p] = {}]
  /\ queue' = [queue EXCEPT ![p] = {}]
  /\ submission' = [submission EXCEPT ![p] = NoSubmission]
  /\ sweep' = [sweep EXCEPT ![p] = {}]
  /\ pc' = [pc EXCEPT ![p] = [r \in Runs |-> "idle"]]
  /\ lease' = [lease EXCEPT ![p] = [r \in Runs |-> 0]]
  /\ at' = [at EXCEPT ![p] = [r \in Runs |-> 0]]
  /\ outcome' = [outcome EXCEPT ![p] = [r \in Runs |-> "succeeded"]]
  /\ watchdog' = [watchdog EXCEPT ![p] = [r \in Runs |-> "off"]]
  /\ misses' = [misses EXCEPT ![p] = [r \in Runs |-> 0]]
  /\ due' = [due EXCEPT ![p] = [r \in Runs |-> 0]]
  /\ UNCHANGED <<dbVars, clock>>

(* Time passes.  A punctual system never leaves a watchdog overdue.        *)
Tick ==
  /\ clock < MaxClock
  /\ Punctual => \A p \in Processes, r \in Runs :
                   watchdog[p][r] = "waiting" => clock < due[p][r]
  /\ clock' = clock + 1
  /\ UNCHANGED <<dbVars, procVars, workerVars, watchdogVars>>

-----------------------------------------------------------------------------

Next ==
  \/ \E p \in Processes :
       \/ SubmitScan(p) \/ Submit(p)
       \/ RecoverScan(p) \/ RecoverOne(p) \/ RecoverSkips(p)
       \/ Start(p) \/ ReconcileOne(p) \/ Serve(p) \/ Shutdown(p) \/ Exit(p)
  \/ \E r \in Runs : CancelSubmitted(r) \/ CancelRunning(r)
  \/ \E p \in Processes, r \in Runs : Take(p, r) \/ Work(p, r) \/ Watch(p, r)
  \/ Tick

Spec == Init /\ [][Next]_vars

(***************************************************************************)
(* Every thread keeps running while its process does, an application that  *)
(* has gone down is started again and a draining one ends, and time goes   *)
(* on.  Nobody is obliged to submit, to cancel or to stop the application. *)
(***************************************************************************)
Fairness ==
  /\ \A p \in Processes :
       /\ WF_vars(Submit(p)) /\ WF_vars(RecoverScan(p)) /\ WF_vars(RecoverOne(p))
       /\ WF_vars(Start(p)) /\ WF_vars(ReconcileOne(p)) /\ WF_vars(Serve(p))
       /\ WF_vars(proc[p] = "draining" /\ Exit(p))
  /\ \A p \in Processes, r \in Runs :
       WF_vars(Take(p, r)) /\ WF_vars(Work(p, r)) /\ WF_vars(Watch(p, r))
  /\ WF_vars(Tick)

FairSpec == Spec /\ Fairness

-----------------------------------------------------------------------------
(* Properties.                                                             *)

(* A dispatch row stands for a run that still waits for a worker, and for  *)
(* nothing else: creation, claim, cancellation and finalization each move  *)
(* the row and the status together, so neither a crash nor a race leaves a *)
(* waiting run without its row or a row without its waiting run.           *)
PendingIffSubmitted ==
  \A r \in Runs : r \in pendingDispatch <=> status[r] = "submitted"

(* A run is claimed once in its life, whatever processes executed it and   *)
(* however often it was dispatched: no two attempts ever hold it, and a    *)
(* running run is at the first generation, which is its holder's.          *)
OneOwner ==
  /\ \A r \in Runs, p, q \in Processes :
       pc[p][r] \in Claimed /\ pc[q][r] \in Claimed => p = q
  /\ \A r \in Runs : status[r] = "running" => generation[r] = 1
  /\ \A r \in Runs, p \in Processes : pc[p][r] \in Claimed => lease[p][r] = 1

(* The manifest of a run says what its row and its run steps say: every    *)
(* run that FinalizeRun ended has one manifest row, with its final status  *)
(* and exactly the steps it ever recorded; a run without one is not        *)
(* terminal, or was cancelled before a worker claimed it.                  *)
ManifestIsFaithful ==
  \A r \in Runs :
    IF status[r] \in Terminal /\ generation[r] > 0
      THEN manifests[r] = <<[status |-> status[r], steps |-> runSteps[r]]>>
      ELSE /\ manifests[r] = <<>>
           /\ status[r] \in Terminal => status[r] = "cancelled" /\ runSteps[r] = <<>>

(* A run succeeds only when every step of its plan version has succeeded   *)
(* and been recorded, the technical manifest step saw a summary of all the *)
(* steps before it, and nobody had asked for its cancellation.             *)
SuccessIsComplete ==
  \A r \in Runs : status[r] = "succeeded" =>
    /\ runSteps[r] = [i \in 1..NumSteps |-> "succeeded"]
    /\ summaries[r] = {s - 1 : s \in {q \in SummarySteps : q > 1 /\ q <= NumSteps}}
    /\ ~cancelRequested[r]

(* Two submissions that race, in one process or in two, never leave a plan *)
(* version with two active runs that nobody forced.                        *)
OneActivePerVersion ==
  \A r, q \in Runs :
    /\ IsActive(r) /\ ~forced[r]
    /\ IsActive(q) /\ ~forced[q]
    /\ versionOf[r] = versionOf[q]
    => r = q

(* A diagnostic tells why the run ended as it did: a sweep or a watchdog   *)
(* that lost its race leaves no trace on the run.                          *)
DiagnosticsAreTrue ==
  \A r \in Runs :
    /\ diagnostics[r] \cap {"RUN_STALE", "RUN_HEARTBEAT_FAILED"} # {} =>
         status[r] = "interrupted"
    /\ diagnostics[r] \cap {"RUN_DISPATCH_FAILED", "RUN_VALIDATION_FAILED",
                            "RUN_EXECUTION_FAILED"} # {} => status[r] = "failed"
    /\ status[r] = "interrupted" => Cardinality(diagnostics[r]) = 1

(* Nothing about a terminal run changes any more, whatever its old worker, *)
(* its watchdog, a sweep or a late cancellation still try.                 *)
TerminalIsFinal ==
  [][\A r \in Runs : status[r] \in Terminal =>
       /\ status'[r] = status[r]
       /\ generation'[r] = generation[r]
       /\ heartbeatAt'[r] = heartbeatAt[r]
       /\ cancelRequested'[r] = cancelRequested[r]
       /\ runSteps'[r] = runSteps[r]
       /\ summaries'[r] = summaries[r]
       /\ diagnostics'[r] = diagnostics[r]
       /\ manifests'[r] = manifests[r]]_vars

SweptNow(r) == /\ status[r] = "running" /\ status'[r] = "interrupted"
               /\ "RUN_STALE" \in diagnostics'[r]

(* The attempt is past its first renewal and its watchdog still renews.    *)
Renewing(p, r) ==
  /\ watchdog[p][r] = "waiting"
  /\ at[p][r] > 1 \/ pc[p][r] \in {"node", "persist", "publish", "finFailed"}

(* While watchdogs are punctual and renewals do not fail, no sweep         *)
(* interrupts a run whose worker has renewed its lease since its claim,    *)
(* however old the heartbeat was that the sweep observed.                  *)
SweepSparesRenewingWorker ==
  [][\A r \in Runs : SweptNow(r) => ~ \E p \in Processes : Renewing(p, r)]_vars

(* The sweep must not kill a live worker, one that has just claimed its    *)
(* run included.                                                           *)
SweepSparesLiveWorker ==
  [][\A r \in Runs : SweptNow(r) => \A p \in Processes : watchdog[p][r] = "off"]_vars

(* With one process, a running run fails only by the hand of the attempt   *)
(* that holds it: the finalizations without a generation (a failed         *)
(* dispatch, a failed validation) never reach a run that was claimed.      *)
OnlyTheOwnerFails ==
  [][\A r \in Runs : status[r] = "running" /\ status'[r] = "failed" =>
       \E p \in Processes : pc[p][r] \in {"finFailed", "handler"} /\ pc'[p][r] # pc[p][r]]_vars

(* What a run promises to its users, implemented by many threads of many   *)
(* processes: every step of the implementation is one step of the contract *)
(* on one run, or none.                                                    *)
Contract == INSTANCE RunContract

ImplementsContract == Contract!Spec

(* The end of the clock: a run whose heartbeat cannot become stale before. *)
OutOfTime(r) == status[r] = "running" /\ heartbeatAt[r] + StaleAfter >= MaxClock

(* Every submitted run ends, through crashes before its dispatch, between  *)
(* its dispatch and its claim, and during its execution.                   *)
SubmittedRunEnds ==
  \A r \in Runs : status[r] = "submitted" ~> status[r] \in Terminal \/ OutOfTime(r)

(* A run whose worker died is interrupted; it does not stay running.       *)
AbandonedRunIsInterrupted ==
  \A r \in Runs :
    (status[r] = "running" /\ \A p \in Processes : pc[p][r] \notin Claimed)
      ~> (status[r] \in Terminal \/ OutOfTime(r))

=============================================================================
