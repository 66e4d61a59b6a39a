-------------------------- MODULE RunLifecycleProofs --------------------------
(***************************************************************************)
(* Theorems about RunLifecycle, for every number of processes, runs and    *)
(* steps, every timing and every switch.                                   *)
(***************************************************************************)
EXTENDS RunLifecycle, FiniteSetTheorems, TLAPS

-----------------------------------------------------------------------------
(* Types.                                                                  *)

(* FinalizeRun's transaction keeps the database well typed.                *)
LEMMA TerminalizeType ==
  ASSUME DatabaseTypeOK,
         NEW r \in Runs, NEW target \in Terminal, NEW codes \in SUBSET Codes,
         Terminalize(r, target, codes)
  PROVE  DatabaseTypeOK'
<1>1. target \in RunStatus
  BY DEF RunStatus
<1>2. [status |-> target, steps |-> runSteps[r]] \in Manifest
  BY <1>1 DEF DatabaseTypeOK, Manifest
<1>3. manifests' \in [Runs -> Seq(Manifest)]
  BY <1>2 DEF DatabaseTypeOK, Terminalize
<1>4. QED
  BY <1>1, <1>3 DEF DatabaseTypeOK, Terminalize, DispatchRemoved

(* What a step leaves alone keeps its type.                                *)
LEMMA StutterType ==
  /\ DatabaseTypeOK /\ UNCHANGED dbVars => DatabaseTypeOK'
  /\ ProcessTypeOK /\ UNCHANGED procVars => ProcessTypeOK'
  /\ AttemptTypeOK /\ UNCHANGED <<workerVars, watchdogVars>> => AttemptTypeOK'
BY DEF DatabaseTypeOK, ProcessTypeOK, AttemptTypeOK, dbVars, procVars, workerVars, watchdogVars

(* A sweep interrupts a run or leaves the database alone.                  *)
LEMMA InterruptType ==
  ASSUME DatabaseTypeOK, NEW r \in Runs, NEW hb, InterruptIfStill(r, hb)
  PROVE  DatabaseTypeOK'
BY TerminalizeType, StutterType DEF InterruptIfStill, Terminal, Codes

(* An attempt moves to a place of ExecuteRun.                              *)
LEMMA GotoType ==
  ASSUME AttemptTypeOK, NEW p \in Processes, NEW r,
         NEW label \in {"idle"} \cup BeforeClaim \cup Claimed,
         Goto(p, r, label)
  PROVE  pc' \in [Processes -> [Runs -> {"idle"} \cup BeforeClaim \cup Claimed]]
BY DEF AttemptTypeOK, Goto

(* What a sweep observes is a set of observations.                         *)
LEMMA StaleRunsType == DatabaseTypeOK => StaleRuns \in SUBSET Observation
BY DEF DatabaseTypeOK, StaleRuns, Observation

(* A submission that moves on to a well-typed state stays well typed.      *)
LEMMA SubmissionType ==
  ASSUME ProcessTypeOK, NEW p \in Processes, NEW s \in Submission,
         s.pc = "dispatch" => s.run \in Runs,
         SetSubmission(p, s)
  PROVE  /\ submission' \in [Processes -> Submission]
         /\ \A q \in Processes : submission'[q].pc = "dispatch" => submission'[q].run \in Runs
BY DEF ProcessTypeOK, SetSubmission

LEMMA NoSubmissionType == NoSubmission \in Submission /\ NoSubmission.pc = "idle"
BY DEF NoSubmission, Submission

(* SubmitRun and the sweep that precedes a submission.                     *)
LEMMA SubmitType ==
  ASSUME TypeOK, NEW p \in Processes, SubmitScan(p) \/ Submit(p)
  PROVE  TypeOK'
<1> USE DEF TypeOK
<1>1. CASE SubmitScan(p)
  <2>1. StaleRuns \in SUBSET Observation
    BY StaleRunsType
  <2>2. ProcessTypeOK'
    BY <1>1, <2>1 DEF SubmitScan, SetSubmission, Submission, ProcessTypeOK
  <2>3. QED
    BY <1>1, <2>2, StutterType DEF SubmitScan
<1>2. CASE SubmitSweep(p)
  <2>1. PICK o \in submission[p].observed :
           /\ InterruptIfStill(o[1], o[2])
           /\ \/ SetSubmission(p, [submission[p] EXCEPT !.observed = @ \ {o}])
              \/ SetSubmission(p, NoSubmission)
    BY <1>2 DEF SubmitSweep
  <2>2. o[1] \in Runs
    BY <2>1 DEF ProcessTypeOK, Submission, Observation
  <2>3. DatabaseTypeOK'
    BY <2>1, <2>2, InterruptType
  <2>4. ProcessTypeOK'
    <3>1. [submission[p] EXCEPT !.observed = @ \ {o}] \in Submission
      BY DEF ProcessTypeOK, Submission
    <3>2. [submission[p] EXCEPT !.observed = @ \ {o}].pc # "dispatch"
      BY <1>2 DEF SubmitSweep, ProcessTypeOK, Submission
    <3>3. QED
      BY <1>2, <2>1, <3>1, <3>2, NoSubmissionType, SubmissionType
      DEF SubmitSweep, ProcessTypeOK
  <2>5. QED
    BY <1>2, <2>3, <2>4, StutterType DEF SubmitSweep
<1>3. CASE SubmitCreate(p)
  <2>1. DatabaseTypeOK'
    BY <1>3 DEF SubmitCreate, DatabaseTypeOK, ProcessTypeOK, Submission, RunStatus, Active
  <2>2. ProcessTypeOK'
    <3>1. PICK r \in Runs : SetSubmission(p, [submission[p] EXCEPT !.pc = "dispatch", !.run = r])
      BY <1>3 DEF SubmitCreate
    <3>2. [submission[p] EXCEPT !.pc = "dispatch", !.run = r] \in Submission
      BY DEF ProcessTypeOK, Submission
    <3>3. [submission[p] EXCEPT !.pc = "dispatch", !.run = r].run = r
      BY DEF ProcessTypeOK, Submission
    <3>4. QED
      BY <1>3, <3>1, <3>2, <3>3, SubmissionType DEF SubmitCreate, ProcessTypeOK
  <2>3. QED
    BY <1>3, <2>1, <2>2, StutterType DEF SubmitCreate
<1>4. CASE SubmitRefused(p)
  <2>1. ProcessTypeOK'
    BY <1>4, NoSubmissionType, SubmissionType DEF SubmitRefused, ProcessTypeOK
  <2>2. QED
    BY <1>4, <2>1, StutterType DEF SubmitRefused
<1>5. CASE SubmitDispatch(p)
  <2>1. submission[p].run \in Runs
    BY <1>5 DEF SubmitDispatch, ProcessTypeOK
  <2>2. ProcessTypeOK'
    <3>1. queue' \in [Processes -> SUBSET Runs]
      BY <1>5, <2>1 DEF SubmitDispatch, ProcessTypeOK
    <3>2. SetSubmission(p, NoSubmission)
      BY <1>5 DEF SubmitDispatch
    <3>3. QED
      BY <1>5, <3>1, <3>2, NoSubmissionType, SubmissionType DEF SubmitDispatch, ProcessTypeOK
  <2>3. AttemptTypeOK'
    <3>1. pc' \in [Processes -> [Runs -> {"idle"} \cup BeforeClaim \cup Claimed]]
      BY <1>5, GotoType DEF SubmitDispatch, BeforeClaim, AttemptTypeOK
    <3>2. QED
      BY <1>5, <3>1 DEF SubmitDispatch, AttemptTypeOK, watchdogVars
  <2>4. QED
    BY <1>5, <2>2, <2>3, StutterType DEF SubmitDispatch
<1>6. CASE SubmitDispatchFails(p)
  <2>1. submission[p].run \in Runs
    BY <1>6 DEF SubmitDispatchFails, ProcessTypeOK
  <2>2. DatabaseTypeOK'
    BY <1>6, <2>1, TerminalizeType, StutterType DEF SubmitDispatchFails, Terminal, Codes
  <2>3. ProcessTypeOK'
    BY <1>6, NoSubmissionType, SubmissionType DEF SubmitDispatchFails, ProcessTypeOK
  <2>4. QED
    BY <1>6, <2>2, <2>3, StutterType DEF SubmitDispatchFails
<1>7. QED
  BY <1>1, <1>2, <1>3, <1>4, <1>5, <1>6 DEF Submit

(* ExecuteRun up to the claim, and the claim.                              *)
LEMMA PreExecType ==
  ASSUME TypeOK, NEW p \in Processes, NEW r \in Runs,
         \/ Take(p, r) \/ Enter(p, r) \/ PreExecFails(p, r) \/ Claim(p, r)
         \/ ClaimLost(p, r) \/ PreExecRead(p, r) \/ PreExecFinalize(p, r)
  PROVE  TypeOK'
<1> USE DEF TypeOK
<1>1. CASE Take(p, r)
  <2>1. ProcessTypeOK'
    BY <1>1 DEF Take, ProcessTypeOK
  <2>2. AttemptTypeOK'
    BY <1>1, GotoType DEF Take, BeforeClaim, AttemptTypeOK, watchdogVars
  <2>3. QED
    BY <1>1, <2>1, <2>2, StutterType DEF Take
<1>2. CASE Enter(p, r) \/ PreExecFails(p, r) \/ ClaimLost(p, r) \/ PreExecRead(p, r)
  <2>1. PICK label \in {"idle"} \cup BeforeClaim : Goto(p, r, label)
    BY <1>2 DEF Enter, PreExecFails, ClaimLost, PreExecRead, BeforeClaim
  <2>2. UNCHANGED <<lease, at, outcome>> /\ WorkerOnly
    BY <1>2 DEF Enter, PreExecFails, ClaimLost, PreExecRead
  <2>3. AttemptTypeOK'
    BY <2>1, <2>2, GotoType DEF AttemptTypeOK, WorkerOnly, watchdogVars
  <2>4. QED
    BY <2>2, <2>3, StutterType DEF WorkerOnly
<1>3. CASE Claim(p, r)
  <2>1. DatabaseTypeOK'
    BY <1>3 DEF Claim, DatabaseTypeOK, RunStatus, Active, DispatchRemoved
  <2>2. pc' \in [Processes -> [Runs -> {"idle"} \cup BeforeClaim \cup Claimed]]
    BY <1>3, GotoType DEF Claim, Claimed
  <2>3. clock + BeatEvery \in Nat /\ generation[r] + 1 \in Nat
    BY TimingAssumption DEF DatabaseTypeOK
  <2>4. AttemptTypeOK'
    BY <1>3, <2>2, <2>3 DEF Claim, AttemptTypeOK, WatchdogState
  <2>5. QED
    BY <1>3, <2>1, <2>4, StutterType DEF Claim
<1>4. CASE PreExecFinalize(p, r)
  <2>1. DatabaseTypeOK'
    BY <1>4, TerminalizeType, StutterType DEF PreExecFinalize, Terminal, Codes
  <2>2. AttemptTypeOK'
    BY <1>4, GotoType DEF PreExecFinalize, AttemptTypeOK, watchdogVars
  <2>3. QED
    BY <1>4, <2>1, <2>2, StutterType DEF PreExecFinalize
<1>5. QED
  BY <1>1, <1>2, <1>3, <1>4

(* ExecuteRun after the claim.                                             *)
LEMMA ExecuteType ==
  ASSUME TypeOK, NEW p \in Processes, NEW r \in Runs,
         \/ StepTop(p, r) \/ WriteSummary(p, r) \/ Heartbeat(p, r) \/ RunNode(p, r)
         \/ Persist(p, r) \/ PublishArtifacts(p, r)
         \/ Finalize(p, r) \/ FinalizeLost(p, r) \/ StopWatchdog(p, r)
  PROVE  TypeOK'
<1> USE DEF TypeOK
<1>1. CASE StepTop(p, r) \/ FinalizeLost(p, r)
  <2>1. PICK label \in Claimed : Goto(p, r, label)
    BY <1>1 DEF StepTop, FinalizeLost, Claimed, Finalizing
  <2>2. UNCHANGED <<lease, at, outcome>> /\ WorkerOnly
    BY <1>1 DEF StepTop, FinalizeLost
  <2>3. AttemptTypeOK'
    BY <2>1, <2>2, GotoType DEF AttemptTypeOK, WorkerOnly, watchdogVars
  <2>4. QED
    BY <2>2, <2>3, StutterType DEF WorkerOnly
<1>2. CASE WriteSummary(p, r)
  <2>1. Len(runSteps[r]) \in Nat
    BY DEF DatabaseTypeOK
  <2>2. DatabaseTypeOK'
    <3>1. summaries[r] \cup {Len(runSteps[r])} \in SUBSET Nat
      BY <2>1 DEF DatabaseTypeOK
    <3>2. summaries' \in [Runs -> SUBSET Nat]
      BY <1>2, <3>1 DEF WriteSummary, DatabaseTypeOK
    <3>3. QED
      BY <1>2, <3>2 DEF WriteSummary, DatabaseTypeOK
  <2>3. PICK label \in Claimed : Goto(p, r, label)
    BY <1>2 DEF WriteSummary, Claimed, Finalizing
  <2>4. AttemptTypeOK'
    BY <1>2, <2>3, GotoType DEF WriteSummary, AttemptTypeOK, watchdogVars
  <2>5. QED
    BY <1>2, <2>2, <2>4, StutterType DEF WriteSummary
<1>3. CASE Heartbeat(p, r)
  <2>1. DatabaseTypeOK'
    BY <1>3 DEF Heartbeat, DatabaseTypeOK
  <2>2. PICK label \in Claimed : Goto(p, r, label)
    BY <1>3 DEF Heartbeat, Claimed, Finalizing
  <2>3. AttemptTypeOK'
    BY <1>3, <2>2, GotoType DEF Heartbeat, AttemptTypeOK, watchdogVars
  <2>4. QED
    BY <1>3, <2>1, <2>3, StutterType DEF Heartbeat
<1>4. CASE RunNode(p, r)
  <2>1. AttemptTypeOK'
    BY <1>4, GotoType DEF RunNode, WorkerOnly, Claimed, AttemptTypeOK, watchdogVars
  <2>2. QED
    BY <1>4, <2>1, StutterType DEF RunNode, WorkerOnly
<1>5. CASE Persist(p, r)
  <2>1. outcome[p][r] \in StepStatus
    BY DEF AttemptTypeOK
  <2>2. DatabaseTypeOK'
    <3>1. Append(runSteps[r], outcome[p][r]) \in Seq(StepStatus)
      BY <2>1 DEF DatabaseTypeOK
    <3>2. runSteps' \in [Runs -> Seq(StepStatus)]
      BY <1>5, <3>1 DEF Persist, DatabaseTypeOK
    <3>3. QED
      BY <1>5, <3>2 DEF Persist, DatabaseTypeOK
  <2>3. PICK label \in Claimed : Goto(p, r, label)
    BY <1>5 DEF Persist, Claimed, Finalizing
  <2>4. AttemptTypeOK'
    BY <1>5, <2>3, GotoType DEF Persist, AttemptTypeOK, watchdogVars
  <2>5. QED
    BY <1>5, <2>2, <2>4, StutterType DEF Persist
<1>6. CASE PublishArtifacts(p, r)
  <2>1. PICK label \in Claimed : Goto(p, r, label)
    BY <1>6 DEF PublishArtifacts, Claimed, Finalizing
  <2>2. at' \in [Processes -> [Runs -> Nat]]
    <3>1. at[p][r] + 1 \in Nat
      BY DEF AttemptTypeOK
    <3>2. [at EXCEPT ![p][r] = at[p][r] + 1] \in [Processes -> [Runs -> Nat]]
      BY <3>1 DEF AttemptTypeOK
    <3>3. QED
      BY <1>6, <3>2 DEF PublishArtifacts, AttemptTypeOK
  <2>3. AttemptTypeOK'
    BY <1>6, <2>1, <2>2, GotoType
    DEF PublishArtifacts, WorkerOnly, AttemptTypeOK, watchdogVars
  <2>4. QED
    BY <1>6, <2>3, StutterType DEF PublishArtifacts, WorkerOnly
<1>7. CASE Finalize(p, r)
  <2>1. PICK target \in Terminal, codes \in SUBSET Codes : Terminalize(r, target, codes)
    BY <1>7 DEF Finalize, FinalizeCancelled, FinalizeSucceeded, FinalizeFailed,
                FinalizeInterrupted, Terminal, Codes
  <2>2. DatabaseTypeOK'
    BY <2>1, TerminalizeType
  <2>3. PICK label \in Claimed : Goto(p, r, label)
    BY <1>7 DEF Finalize, Claimed, Finalizing
  <2>4. AttemptTypeOK'
    BY <1>7, <2>3, GotoType DEF Finalize, AttemptTypeOK, watchdogVars
  <2>5. QED
    BY <1>7, <2>2, <2>4, StutterType DEF Finalize
<1>8. CASE StopWatchdog(p, r)
  <2>1. AttemptTypeOK'
    BY <1>8, GotoType DEF StopWatchdog, AttemptTypeOK, StepStatus, WatchdogState
  <2>2. QED
    BY <1>8, <2>1, StutterType DEF StopWatchdog
<1>9. QED
  BY <1>1, <1>2, <1>3, <1>4, <1>5, <1>6, <1>7, <1>8

(* The watchdog beside an attempt.                                         *)
LEMMA WatchType ==
  ASSUME TypeOK, NEW p \in Processes, NEW r \in Runs, Watch(p, r)
  PROVE  TypeOK'
<1> USE DEF TypeOK
<1>1. clock + BeatEvery \in Nat /\ misses[p][r] + 1 \in Nat
  BY TimingAssumption DEF AttemptTypeOK
<1>2. [due EXCEPT ![p][r] = clock + BeatEvery] \in [Processes -> [Runs -> Nat]]
  BY <1>1 DEF AttemptTypeOK
<1>3. \A w \in WatchdogState :
        [watchdog EXCEPT ![p][r] = w] \in [Processes -> [Runs -> WatchdogState]]
  BY DEF AttemptTypeOK
<1>4. CASE WatchdogBeat(p, r)
  <2>1. DatabaseTypeOK'
    BY <1>4 DEF WatchdogBeat, DatabaseTypeOK
  <2>2. misses' \in [Processes -> [Runs -> Nat]]
    <3>1. [misses EXCEPT ![p][r] = 0] \in [Processes -> [Runs -> Nat]]
      BY DEF AttemptTypeOK
    <3>2. [misses EXCEPT ![p][r] = IF @ < MaxMisses THEN @ + 1 ELSE @]
            \in [Processes -> [Runs -> Nat]]
      BY <1>1 DEF AttemptTypeOK
    <3>3. QED
      BY <1>4, <3>1, <3>2 DEF WatchdogBeat, AttemptTypeOK
  <2>3. due' \in [Processes -> [Runs -> Nat]]
    BY <1>4, <1>2 DEF WatchdogBeat, AttemptTypeOK
  <2>4. watchdog' \in [Processes -> [Runs -> WatchdogState]]
    BY <1>4, <1>3 DEF WatchdogBeat, AttemptTypeOK, WatchdogState
  <2>5. QED
    BY <1>4, <2>1, <2>2, <2>3, <2>4, StutterType
    DEF WatchdogBeat, WatchdogOnly, AttemptTypeOK, workerVars
<1>5. CASE WatchdogTerminalize(p, r)
  <2>1. DatabaseTypeOK'
    BY <1>5, TerminalizeType, StutterType DEF WatchdogTerminalize, Terminal, Codes
  <2>2. watchdog' \in [Processes -> [Runs -> WatchdogState]]
    BY <1>5, <1>3 DEF WatchdogTerminalize, AttemptTypeOK, WatchdogState
  <2>3. due' \in [Processes -> [Runs -> Nat]]
    BY <1>5, <1>2 DEF WatchdogTerminalize, AttemptTypeOK
  <2>4. AttemptTypeOK'
    BY <1>5, <2>2, <2>3 DEF WatchdogTerminalize, WatchdogOnly, AttemptTypeOK, workerVars
  <2>5. QED
    BY <1>5, <2>1, <2>4, StutterType DEF WatchdogTerminalize, WatchdogOnly
<1>6. QED
  BY <1>4, <1>5 DEF Watch

(* Cancellation, the periodic recovery, and the life of a process.         *)
LEMMA EnvironmentType ==
  ASSUME TypeOK,
         \/ \E r \in Runs : CancelSubmitted(r) \/ CancelRunning(r)
         \/ \E p \in Processes :
              \/ RecoverScan(p) \/ RecoverOne(p) \/ RecoverSkips(p)
              \/ Start(p) \/ ReconcileOne(p) \/ Serve(p) \/ Shutdown(p) \/ Exit(p)
         \/ Tick
  PROVE  TypeOK'
<1> USE DEF TypeOK
<1>1. ASSUME NEW r \in Runs, CancelSubmitted(r) \/ CancelRunning(r)
      PROVE  TypeOK'
  <2>1. DatabaseTypeOK'
    BY <1>1 DEF CancelSubmitted, CancelRunning, DatabaseTypeOK, RunStatus, Terminal,
                DispatchRemoved
  <2>2. QED
    BY <1>1, <2>1, StutterType DEF CancelSubmitted, CancelRunning
<1>2. ASSUME NEW p \in Processes, RecoverScan(p) \/ RecoverSkips(p)
      PROVE  TypeOK'
  <2>1. ProcessTypeOK'
    BY <1>2, StaleRunsType DEF RecoverScan, RecoverSkips, ProcessTypeOK
  <2>2. QED
    BY <1>2, <2>1, StutterType DEF RecoverScan, RecoverSkips
<1>3. ASSUME NEW p \in Processes, RecoverOne(p)
      PROVE  TypeOK'
  <2>1. PICK o \in sweep[p] : /\ InterruptIfStill(o[1], o[2])
                             /\ sweep' = [sweep EXCEPT ![p] = @ \ {o}]
    BY <1>3 DEF RecoverOne
  <2>2. o[1] \in Runs
    BY <2>1 DEF ProcessTypeOK, Observation
  <2>3. ProcessTypeOK'
    BY <1>3, <2>1 DEF RecoverOne, ProcessTypeOK
  <2>4. QED
    BY <1>3, <2>1, <2>2, <2>3, InterruptType, StutterType DEF RecoverOne
<1>4. ASSUME NEW p \in Processes, Start(p) \/ Serve(p) \/ Shutdown(p)
      PROVE  TypeOK'
  <2>1. exits' \in Nat
    BY <1>4 DEF Start, Serve, Shutdown, ProcessTypeOK
  <2>2. ProcessTypeOK'
    BY <1>4, <2>1 DEF Start, Serve, Shutdown, ProcessTypeOK, DatabaseTypeOK
  <2>3. QED
    BY <1>4, <2>2, StutterType DEF Start, Serve, Shutdown
<1>5. ASSUME NEW p \in Processes, ReconcileOne(p)
      PROVE  TypeOK'
  <2>1. DatabaseTypeOK'
    BY <1>5 DEF ReconcileOne, DatabaseTypeOK, DispatchRemoved
  <2>2. ProcessTypeOK'
    BY <1>5 DEF ReconcileOne, ProcessTypeOK
  <2>3. QED
    BY <1>5, <2>1, <2>2, StutterType DEF ReconcileOne
<1>6. ASSUME NEW p \in Processes, Exit(p)
      PROVE  TypeOK'
  <2>1. ProcessTypeOK'
    <3>1. submission' \in [Processes -> Submission]
      BY <1>6, NoSubmissionType DEF Exit, ProcessTypeOK
    <3>2. \A q \in Processes : submission'[q].pc = "dispatch" => submission'[q].run \in Runs
      BY <1>6, NoSubmissionType DEF Exit, ProcessTypeOK
    <3>3. QED
      BY <1>6, <3>1, <3>2 DEF Exit, ProcessTypeOK
  <2>2. AttemptTypeOK'
    BY <1>6 DEF Exit, AttemptTypeOK, StepStatus, WatchdogState
  <2>3. QED
    BY <1>6, <2>1, <2>2, StutterType DEF Exit
<1>7. CASE Tick
  BY <1>7, StutterType DEF Tick
<1>8. QED
  BY <1>1, <1>2, <1>3, <1>4, <1>5, <1>6, <1>7

(* Every variable keeps its type in every reachable state.                 *)
THEOREM TypeCorrect == Spec => []TypeOK
<1>1. Init => TypeOK
  BY NoSubmissionType
  DEF Init, TypeOK, DatabaseTypeOK, ProcessTypeOK, AttemptTypeOK, StepStatus, WatchdogState
<1>2. TypeOK /\ [Next]_vars => TypeOK'
  <2>1. TypeOK /\ Next => TypeOK'
    BY SubmitType, PreExecType, ExecuteType, WatchType, EnvironmentType DEF Next, Work
  <2>2. TypeOK /\ UNCHANGED vars => TypeOK'
    BY StutterType DEF TypeOK, vars
  <2>3. QED
    BY <2>1, <2>2
<1>3. QED
  BY <1>1, <1>2, PTL DEF Spec

-----------------------------------------------------------------------------
(* The transactions.  Every step of the system changes the rows of at most *)
(* one run, in one of nine ways; what is proved below about the database   *)
(* is proved about these.                                                  *)

Created(r) ==
  /\ status[r] = "absent"
  /\ status' = [status EXCEPT ![r] = "submitted"]
  /\ pendingDispatch' = pendingDispatch \cup {r}
  /\ \E version \in PlanVersions \cup {None}, force \in BOOLEAN :
       /\ MayCreate(version, force)
       /\ versionOf' = [versionOf EXCEPT ![r] = version]
       /\ forced' = [forced EXCEPT ![r] = force]
  /\ heartbeatAt' = [heartbeatAt EXCEPT ![r] = clock]
  /\ UNCHANGED <<cancelRequested, generation, runSteps, summaries, diagnostics, manifests>>

Started(r) ==
  /\ status[r] = "submitted"
  /\ status' = [status EXCEPT ![r] = "running"]
  /\ generation' = [generation EXCEPT ![r] = @ + 1]
  /\ pendingDispatch' = pendingDispatch \ {r}
  /\ UNCHANGED <<versionOf, forced, cancelRequested, heartbeatAt, runSteps, summaries,
                 diagnostics, manifests>>

Withdrawn(r) ==
  /\ status[r] = "submitted"
  /\ status' = [status EXCEPT ![r] = "cancelled"]
  /\ pendingDispatch' = pendingDispatch \ {r}
  /\ UNCHANGED <<versionOf, forced, cancelRequested, generation, heartbeatAt, runSteps,
                 summaries, diagnostics, manifests>>

CancelAsked(r) ==
  /\ status[r] = "running"
  /\ cancelRequested' = [cancelRequested EXCEPT ![r] = TRUE]
  /\ UNCHANGED <<status, versionOf, forced, generation, heartbeatAt, pendingDispatch,
                 runSteps, summaries, diagnostics, manifests>>

Renewed(r) ==
  /\ status[r] = "running"
  /\ heartbeatAt' = [heartbeatAt EXCEPT ![r] = clock]
  /\ UNCHANGED <<status, versionOf, forced, cancelRequested, generation, pendingDispatch,
                 runSteps, summaries, diagnostics, manifests>>

Summarized(r) ==
  /\ status[r] = "running"
  /\ summaries' = [summaries EXCEPT ![r] = @ \cup {Len(runSteps[r])}]
  /\ UNCHANGED <<status, versionOf, forced, cancelRequested, generation, heartbeatAt,
                 pendingDispatch, runSteps, diagnostics, manifests>>

Recorded(r) ==
  /\ status[r] = "running"
  /\ ~cancelRequested[r]
  /\ \E result \in StepStatus : runSteps' = [runSteps EXCEPT ![r] = Append(@, result)]
  /\ UNCHANGED <<status, versionOf, forced, cancelRequested, generation, heartbeatAt,
                 pendingDispatch, summaries, diagnostics, manifests>>

(* The codes a run may end with.                                           *)
FailureCodes == {"RUN_DISPATCH_FAILED", "RUN_VALIDATION_FAILED", "RUN_EXECUTION_FAILED"}

EndsWith == [succeeded |-> {{}}, cancelled |-> {{}},
             failed |-> {{}} \cup {{code} : code \in FailureCodes},
             interrupted |-> {{"RUN_STALE"}, {"RUN_HEARTBEAT_FAILED"}}]

Ended(r) ==
  /\ IsActive(r)
  /\ \E target \in Terminal : \E codes \in EndsWith[target] : Terminalize(r, target, codes)

Forgotten(r) ==
  /\ status[r] # "submitted"
  /\ pendingDispatch' = pendingDispatch \ {r}
  /\ UNCHANGED <<status, versionOf, forced, cancelRequested, generation, heartbeatAt,
                 runSteps, summaries, diagnostics, manifests>>

Transaction(r) ==
  \/ Created(r) \/ Started(r) \/ Withdrawn(r) \/ CancelAsked(r) \/ Renewed(r)
  \/ Summarized(r) \/ Recorded(r) \/ Ended(r) \/ Forgotten(r)

OneTransaction == UNCHANGED dbVars \/ \E r \in Runs : Transaction(r)

(* A finalization that holds its condition ends the run.                   *)
LEMMA TerminalizeEnds ==
  ASSUME NEW r, NEW target \in Terminal, NEW codes \in EndsWith[target],
         IsActive(r), Terminalize(r, target, codes)
  PROVE  Ended(r)
BY DEF Ended

LEMMA CodesOfEnds ==
  /\ {} \in EndsWith["succeeded"] /\ {} \in EndsWith["cancelled"] /\ {} \in EndsWith["failed"]
  /\ \A code \in FailureCodes : {code} \in EndsWith["failed"]
  /\ \A code \in {"RUN_STALE", "RUN_HEARTBEAT_FAILED"} : {code} \in EndsWith["interrupted"]
BY DEF EndsWith

LEMMA InterruptTransaction ==
  ASSUME NEW r \in Runs, NEW hb, InterruptIfStill(r, hb)
  PROVE  OneTransaction
BY CodesOfEnds, TerminalizeEnds
DEF InterruptIfStill, StillObserved, IsActive, Active, Terminal, OneTransaction, Transaction

(* The steps of submissions, cancellations, recoveries and processes.      *)
LEMMA ServerTransaction ==
  ASSUME TypeOK,
         \/ \E p \in Processes :
              \/ SubmitScan(p) \/ Submit(p)
              \/ RecoverScan(p) \/ RecoverOne(p) \/ RecoverSkips(p)
              \/ Start(p) \/ ReconcileOne(p) \/ Serve(p) \/ Shutdown(p) \/ Exit(p)
         \/ \E r \in Runs : CancelSubmitted(r) \/ CancelRunning(r)
         \/ Tick
  PROVE  OneTransaction
<1>1. ASSUME NEW p \in Processes, SubmitSweep(p)
      PROVE  OneTransaction
  <2>1. PICK o \in submission[p].observed : InterruptIfStill(o[1], o[2])
    BY <1>1 DEF SubmitSweep
  <2>2. o[1] \in Runs
    BY DEF TypeOK, ProcessTypeOK, Submission, Observation
  <2>3. QED
    BY <2>1, <2>2, InterruptTransaction
<1>2. ASSUME NEW p \in Processes, SubmitCreate(p)
      PROVE  OneTransaction
  <2>1. PICK r \in Runs :
           /\ status[r] = "absent"
           /\ status' = [status EXCEPT ![r] = "submitted"]
           /\ versionOf' = [versionOf EXCEPT ![r] = submission[p].version]
           /\ forced' = [forced EXCEPT ![r] = submission[p].force]
           /\ heartbeatAt' = [heartbeatAt EXCEPT ![r] = clock]
           /\ pendingDispatch' = pendingDispatch \cup {r}
    BY <1>2 DEF SubmitCreate
  <2>2. submission[p].version \in PlanVersions \cup {None} /\ submission[p].force \in BOOLEAN
    BY <1>2 DEF SubmitCreate, TypeOK, ProcessTypeOK, Submission
  <2>3. Created(r)
    BY <1>2, <2>1, <2>2 DEF SubmitCreate, Created
  <2>4. QED
    BY <2>3 DEF OneTransaction, Transaction
<1>3. ASSUME NEW p \in Processes, SubmitDispatchFails(p)
      PROVE  OneTransaction
  <2>1. submission[p].run \in Runs
    BY <1>3 DEF SubmitDispatchFails, TypeOK, ProcessTypeOK
  <2>2. QED
    BY <1>3, <2>1, CodesOfEnds, TerminalizeEnds
    DEF SubmitDispatchFails, Terminal, FailureCodes, OneTransaction, Transaction
<1>4. ASSUME NEW p \in Processes, RecoverOne(p)
      PROVE  OneTransaction
  <2>1. PICK o \in sweep[p] : InterruptIfStill(o[1], o[2])
    BY <1>4 DEF RecoverOne
  <2>2. o[1] \in Runs
    BY DEF TypeOK, ProcessTypeOK, Observation
  <2>3. QED
    BY <2>1, <2>2, InterruptTransaction
<1>5. ASSUME NEW p \in Processes, ReconcileOne(p)
      PROVE  OneTransaction
  BY <1>5
  DEF ReconcileOne, DispatchRemoved, Forgotten, OneTransaction, Transaction, TypeOK,
      ProcessTypeOK, dbVars
<1>6. ASSUME NEW p \in Processes,
             \/ SubmitScan(p) \/ SubmitRefused(p) \/ SubmitDispatch(p)
             \/ RecoverScan(p) \/ RecoverSkips(p)
             \/ Start(p) \/ Serve(p) \/ Shutdown(p) \/ Exit(p)
      PROVE  OneTransaction
  BY <1>6
  DEF SubmitScan, SubmitRefused, SubmitDispatch, RecoverScan, RecoverSkips, Start, Serve,
      Shutdown, Exit, OneTransaction
<1>7. ASSUME NEW r \in Runs, CancelSubmitted(r) \/ CancelRunning(r)
      PROVE  OneTransaction
  BY <1>7
  DEF CancelSubmitted, CancelRunning, DispatchRemoved, Withdrawn, CancelAsked,
      OneTransaction, Transaction
<1>8. CASE Tick
  BY <1>8 DEF Tick, OneTransaction
<1>9. QED
  BY <1>1, <1>2, <1>3, <1>4, <1>5, <1>6, <1>7, <1>8 DEF Submit

(* The steps of an execution attempt and of its watchdog.                  *)
LEMMA AttemptTransaction ==
  ASSUME TypeOK, NEW p \in Processes, NEW r \in Runs,
         Take(p, r) \/ Work(p, r) \/ Watch(p, r)
  PROVE  OneTransaction
<1>1. CASE \/ Take(p, r) \/ Enter(p, r) \/ PreExecFails(p, r) \/ ClaimLost(p, r)
           \/ PreExecRead(p, r) \/ StepTop(p, r) \/ RunNode(p, r)
           \/ PublishArtifacts(p, r) \/ FinalizeLost(p, r) \/ StopWatchdog(p, r)
  BY <1>1
  DEF Take, Enter, PreExecFails, ClaimLost, PreExecRead, StepTop, RunNode,
      PublishArtifacts, FinalizeLost, StopWatchdog, WorkerOnly, OneTransaction
<1>2. CASE Claim(p, r)
  BY <1>2 DEF Claim, Claimable, DispatchRemoved, Started, OneTransaction, Transaction
<1>3. CASE PreExecFinalize(p, r)
  BY <1>3, CodesOfEnds, TerminalizeEnds
  DEF PreExecFinalize, Terminal, FailureCodes, OneTransaction, Transaction
<1>4. CASE WriteSummary(p, r)
  BY <1>4
  DEF WriteSummary, HoldsLease, Owns, Summarized, OneTransaction, Transaction, dbVars
<1>5. CASE Heartbeat(p, r)
  BY <1>5 DEF Heartbeat, Owns, Renewed, OneTransaction, Transaction, dbVars
<1>6. CASE Persist(p, r)
  BY <1>6
  DEF Persist, HoldsLease, Owns, Recorded, OneTransaction, Transaction, dbVars, TypeOK,
      AttemptTypeOK
<1>7. CASE Finalize(p, r)
  BY <1>7, CodesOfEnds, TerminalizeEnds
  DEF Finalize, FinalizeCancelled, FinalizeSucceeded, FinalizeFailed, FinalizeInterrupted,
      HoldsLease, Owns, IsActive, Active, Terminal, FailureCodes, OneTransaction, Transaction
<1>8. CASE WatchdogBeat(p, r)
  BY <1>8 DEF WatchdogBeat, Owns, Renewed, OneTransaction, Transaction, dbVars
<1>9. CASE WatchdogTerminalize(p, r)
  BY <1>9, CodesOfEnds, TerminalizeEnds
  DEF WatchdogTerminalize, Owns, IsActive, Active, Terminal, OneTransaction, Transaction
<1>10. QED
  BY <1>1, <1>2, <1>3, <1>4, <1>5, <1>6, <1>7, <1>8, <1>9 DEF Work, Watch

LEMMA StepIsTransaction == TypeOK /\ [Next]_vars => OneTransaction
BY ServerTransaction, AttemptTransaction DEF Next, vars, OneTransaction

(* A dispatch row stands for a run that waits for a worker.                *)
THEOREM PendingIsSubmitted == Spec => []PendingIffSubmitted
<1>1. Init => PendingIffSubmitted
  BY DEF Init, PendingIffSubmitted
<1>2. TypeOK /\ PendingIffSubmitted /\ OneTransaction => PendingIffSubmitted'
  <2> SUFFICES ASSUME TypeOK, PendingIffSubmitted, OneTransaction, NEW q \in Runs
               PROVE  (q \in pendingDispatch <=> status[q] = "submitted")'
    BY DEF PendingIffSubmitted
  <2>1. CASE UNCHANGED dbVars
    BY <2>1 DEF PendingIffSubmitted, dbVars
  <2>2. ASSUME NEW r \in Runs, Transaction(r)
        PROVE  (q \in pendingDispatch <=> status[q] = "submitted")'
    BY <2>2
    DEF Transaction, Created, Started, Withdrawn, CancelAsked, Renewed, Summarized, Recorded,
        Ended, Forgotten, Terminalize, DispatchRemoved, Terminal, PendingIffSubmitted,
        TypeOK, DatabaseTypeOK
  <2>3. QED
    BY <2>1, <2>2 DEF OneTransaction
<1>3. QED
  BY <1>1, <1>2, StepIsTransaction, TypeCorrect, PTL DEF Spec

(* Nothing about a terminal run changes any more.                          *)
THEOREM TerminalStaysFinal == Spec => TerminalIsFinal
<1>1. TypeOK /\ OneTransaction =>
        \A r \in Runs : status[r] \in Terminal =>
          /\ status'[r] = status[r]
          /\ generation'[r] = generation[r]
          /\ heartbeatAt'[r] = heartbeatAt[r]
          /\ cancelRequested'[r] = cancelRequested[r]
          /\ runSteps'[r] = runSteps[r]
          /\ summaries'[r] = summaries[r]
          /\ diagnostics'[r] = diagnostics[r]
          /\ manifests'[r] = manifests[r]
  <2> SUFFICES ASSUME TypeOK, OneTransaction, NEW q \in Runs, status[q] \in Terminal
               PROVE  /\ status'[q] = status[q]
                      /\ generation'[q] = generation[q]
                      /\ heartbeatAt'[q] = heartbeatAt[q]
                      /\ cancelRequested'[q] = cancelRequested[q]
                      /\ runSteps'[q] = runSteps[q]
                      /\ summaries'[q] = summaries[q]
                      /\ diagnostics'[q] = diagnostics[q]
                      /\ manifests'[q] = manifests[q]
    OBVIOUS
  <2>1. CASE UNCHANGED dbVars
    BY <2>1 DEF dbVars
  <2>2. ASSUME NEW r \in Runs, Transaction(r), r # q
        PROVE  UNCHANGED <<status[q], generation[q], heartbeatAt[q], cancelRequested[q],
                           runSteps[q], summaries[q], diagnostics[q], manifests[q]>>
    BY <2>2
    DEF Transaction, Created, Started, Withdrawn, CancelAsked, Renewed, Summarized, Recorded,
        Ended, Forgotten, Terminalize, TypeOK, DatabaseTypeOK
  <2>3. ASSUME Transaction(q)
        PROVE  Forgotten(q)
    BY <2>3
    DEF Transaction, Created, Started, Withdrawn, CancelAsked, Renewed, Summarized, Recorded,
        Ended, IsActive, Active, Terminal
  <2>4. QED
    BY <2>1, <2>2, <2>3 DEF OneTransaction, Forgotten
<1>2. QED
  BY <1>1, StepIsTransaction, TypeCorrect, PTL DEF Spec, TerminalIsFinal

-----------------------------------------------------------------------------
(* What the rows of one run say.  ManifestIsFaithful and DiagnosticsAreTrue *)
(* are not inductive: that a finalization writes the only manifest and the *)
(* only diagnostic of a run needs that an active run has neither, and that *)
(* a run withdrawn from the queue has none needs that no step was recorded *)
(* and no generation drawn before the claim.                               *)

ActiveRow(r) ==
  /\ status[r] \in {"absent", "submitted"} =>
       generation[r] = 0 /\ runSteps[r] = <<>>
  /\ status[r] = "running" => generation[r] = 1
  /\ status[r] \notin Terminal => manifests[r] = <<>> /\ diagnostics[r] = {}

FaithfulManifest(r) ==
  IF status[r] \in Terminal /\ generation[r] > 0
    THEN manifests[r] = <<[status |-> status[r], steps |-> runSteps[r]]>>
    ELSE /\ manifests[r] = <<>>
         /\ status[r] \in Terminal => status[r] = "cancelled" /\ runSteps[r] = <<>>

TrueDiagnostics(r) ==
  status[r] \in Terminal => diagnostics[r] \in EndsWith[status[r]]

Row(r) == ActiveRow(r) /\ FaithfulManifest(r) /\ TrueDiagnostics(r)

RowsOK == \A r \in Runs : Row(r)

LEMMA RowOfInit == Init => RowsOK
BY DEF Init, RowsOK, Row, ActiveRow, FaithfulManifest, TrueDiagnostics, Terminal

(* A transaction on another run leaves the row alone.                      *)
LEMMA OtherRow ==
  ASSUME TypeOK, NEW r \in Runs, Transaction(r), NEW q \in Runs, q # r, Row(q)
  PROVE  Row(q)'
<1>1. UNCHANGED <<status[q], generation[q], runSteps[q], diagnostics[q], manifests[q]>>
  BY DEF Transaction, Created, Started, Withdrawn, CancelAsked, Renewed, Summarized,
         Recorded, Ended, Forgotten, Terminalize, TypeOK, DatabaseTypeOK
<1>2. QED
  BY <1>1 DEF Row, ActiveRow, FaithfulManifest, TrueDiagnostics

(* A transaction on the run itself.                                        *)
LEMMA OwnRow ==
  ASSUME TypeOK, NEW r \in Runs, Transaction(r), Row(r)
  PROVE  Row(r)'
<1>1. CASE Created(r) \/ Started(r) \/ Withdrawn(r)
  <2>1. /\ generation[r] = 0 /\ runSteps[r] = <<>>
        /\ manifests[r] = <<>> /\ diagnostics[r] = {}
    BY <1>1 DEF Created, Started, Withdrawn, Row, ActiveRow, Terminal
  <2>2. UNCHANGED <<runSteps[r], manifests[r], diagnostics[r]>>
    BY <1>1 DEF Created, Started, Withdrawn
  <2>3. \/ status'[r] = "submitted" /\ generation'[r] = 0
        \/ status'[r] = "running" /\ generation'[r] = 1
        \/ status'[r] = "cancelled" /\ generation'[r] = 0
    BY <1>1, <2>1 DEF Created, Started, Withdrawn, TypeOK, DatabaseTypeOK
  <2>4. QED
    BY <2>1, <2>2, <2>3, CodesOfEnds
    DEF Row, ActiveRow, FaithfulManifest, TrueDiagnostics, Terminal
<1>2. CASE CancelAsked(r) \/ Renewed(r) \/ Summarized(r) \/ Forgotten(r)
  BY <1>2
  DEF CancelAsked, Renewed, Summarized, Forgotten, Row, ActiveRow, FaithfulManifest,
      TrueDiagnostics
<1>3. CASE Recorded(r)
  BY <1>3
  DEF Recorded, Row, ActiveRow, FaithfulManifest, TrueDiagnostics, Terminal, TypeOK,
      DatabaseTypeOK
<1>4. CASE Ended(r)
  <2>1. PICK target \in Terminal : \E codes \in EndsWith[target] : Terminalize(r, target, codes)
    BY <1>4 DEF Ended
  <2>2. PICK codes \in EndsWith[target] : Terminalize(r, target, codes)
    BY <2>1
  <2>3. manifests[r] = <<>> /\ diagnostics[r] = {} /\ generation[r] \in Nat
    BY <1>4 DEF Ended, IsActive, Active, Terminal, Row, ActiveRow, TypeOK, DatabaseTypeOK
  <2>4. /\ status'[r] = target
        /\ generation'[r] = generation[r] + 1
        /\ diagnostics'[r] = codes
        /\ runSteps'[r] = runSteps[r]
    BY <2>2, <2>3 DEF Terminalize, TypeOK, DatabaseTypeOK
  <2>5. manifests'[r] = <<[status |-> target, steps |-> runSteps[r]]>>
    BY <2>2, <2>3 DEF Terminalize, TypeOK, DatabaseTypeOK
  <2>6. QED
    BY <2>3, <2>4, <2>5 DEF Row, ActiveRow, FaithfulManifest, TrueDiagnostics, Terminal
<1>5. QED
  BY <1>1, <1>2, <1>3, <1>4 DEF Transaction

LEMMA RowsCorrect == Spec => []RowsOK
<1>1. TypeOK /\ RowsOK /\ OneTransaction => RowsOK'
  <2> SUFFICES ASSUME TypeOK, RowsOK, OneTransaction, NEW q \in Runs
               PROVE  Row(q)'
    BY DEF RowsOK
  <2>1. CASE UNCHANGED dbVars
    BY <2>1 DEF RowsOK, Row, ActiveRow, FaithfulManifest, TrueDiagnostics, dbVars
  <2>2. CASE \E r \in Runs : Transaction(r)
    BY <2>2, OwnRow, OtherRow DEF RowsOK
  <2>3. QED
    BY <2>1, <2>2 DEF OneTransaction
<1>2. QED
  BY <1>1, RowOfInit, StepIsTransaction, TypeCorrect, PTL DEF Spec

(* The manifest of a run says what its row and its run steps say.          *)
THEOREM ManifestStaysFaithful == Spec => []ManifestIsFaithful
<1>1. RowsOK => ManifestIsFaithful
  BY DEF RowsOK, Row, FaithfulManifest, ManifestIsFaithful
<1>2. QED
  BY <1>1, RowsCorrect, PTL

(* A diagnostic tells why its run ended as it did.                         *)
THEOREM DiagnosticsStayTrue == Spec => []DiagnosticsAreTrue
<1>1. TypeOK /\ RowsOK => DiagnosticsAreTrue
  <2> SUFFICES ASSUME TypeOK, RowsOK, NEW r \in Runs
               PROVE  /\ diagnostics[r] \cap {"RUN_STALE", "RUN_HEARTBEAT_FAILED"} # {} =>
                           status[r] = "interrupted"
                      /\ diagnostics[r] \cap FailureCodes # {} => status[r] = "failed"
                      /\ status[r] = "interrupted" => Cardinality(diagnostics[r]) = 1
    BY DEF DiagnosticsAreTrue, FailureCodes
  <2>1. status[r] \in Terminal \/ diagnostics[r] = {}
    BY DEF RowsOK, Row, ActiveRow
  <2>2. status[r] \in Terminal => diagnostics[r] \in EndsWith[status[r]]
    BY DEF RowsOK, Row, TrueDiagnostics
  <2>3. CASE status[r] \in {"succeeded", "cancelled"}
    BY <2>2, <2>3 DEF EndsWith, Terminal
  <2>4. CASE status[r] = "failed"
    BY <2>2, <2>4 DEF EndsWith, FailureCodes, Terminal
  <2>5. CASE status[r] = "interrupted"
    <3>1. diagnostics[r] = {"RUN_STALE"} \/ diagnostics[r] = {"RUN_HEARTBEAT_FAILED"}
      BY <2>2, <2>5 DEF EndsWith, Terminal
    <3>2. QED
      BY <2>5, <3>1, FS_Singleton DEF FailureCodes
  <2>6. QED
    BY <2>1, <2>3, <2>4, <2>5 DEF Terminal
<1>2. QED
  BY <1>1, RowsCorrect, TypeCorrect, PTL

-----------------------------------------------------------------------------
(* Ownership.  Two attempts never hold one run because a run that an       *)
(* attempt holds is no longer submitted, and never becomes so again.       *)

Held(p, r) == pc[p][r] \in Claimed

HeldIsClaimed == \A p \in Processes, r \in Runs :
  Held(p, r) => lease[p][r] = 1 /\ status[r] \notin {"absent", "submitted"}

HeldOnce == \A r \in Runs, p, q \in Processes : Held(p, r) /\ Held(q, r) => p = q

(* No step but a claim gives an attempt a run, or changes the lease it has. *)
NoneClaims == \A p \in Processes, r \in Runs :
  Held(p, r)' => Held(p, r) /\ lease'[p][r] = lease[p][r]

LEMMA GotoUnclaimed ==
  ASSUME TypeOK, NEW p \in Processes, NEW r,
         NEW label \in {"idle"} \cup BeforeClaim, Goto(p, r, label), UNCHANGED lease
  PROVE  NoneClaims
BY DEF TypeOK, AttemptTypeOK, Goto, NoneClaims, Held, BeforeClaim, Claimed, Finalizing

LEMMA GotoWithinClaim ==
  ASSUME TypeOK, NEW p \in Processes, NEW r \in Runs, Held(p, r),
         NEW label, Goto(p, r, label), UNCHANGED lease
  PROVE  NoneClaims
BY DEF TypeOK, AttemptTypeOK, Goto, NoneClaims, Held

LEMMA OthersKeepAttempts ==
  ASSUME UNCHANGED <<pc, lease>>
  PROVE  NoneClaims
BY DEF NoneClaims, Held

LEMMA OnlyClaimClaims ==
  ASSUME TypeOK, [Next]_vars, \A p \in Processes, r \in Runs : ~Claim(p, r)
  PROVE  NoneClaims
<1>1. ASSUME NEW p \in Processes, SubmitDispatch(p)
      PROVE  NoneClaims
  BY <1>1, GotoUnclaimed, OthersKeepAttempts DEF SubmitDispatch, BeforeClaim
<1>2. ASSUME NEW p \in Processes, Exit(p)
      PROVE  NoneClaims
  BY <1>2 DEF Exit, TypeOK, AttemptTypeOK, NoneClaims, Held, Claimed, Finalizing
<1>3. ASSUME NEW p \in Processes, NEW r \in Runs,
             \/ Take(p, r) \/ Enter(p, r) \/ PreExecFails(p, r) \/ ClaimLost(p, r)
             \/ PreExecRead(p, r) \/ PreExecFinalize(p, r)
      PROVE  NoneClaims
  <2>1. PICK label \in {"idle"} \cup BeforeClaim : Goto(p, r, label)
    BY <1>3
    DEF Take, Enter, PreExecFails, ClaimLost, PreExecRead, PreExecFinalize, BeforeClaim
  <2>2. UNCHANGED lease
    BY <1>3 DEF Take, Enter, PreExecFails, ClaimLost, PreExecRead, PreExecFinalize
  <2>3. QED
    BY <2>1, <2>2, GotoUnclaimed
<1>4. ASSUME NEW p \in Processes, NEW r \in Runs,
             \/ StepTop(p, r) \/ WriteSummary(p, r) \/ Heartbeat(p, r) \/ RunNode(p, r)
             \/ Persist(p, r) \/ PublishArtifacts(p, r)
             \/ Finalize(p, r) \/ FinalizeLost(p, r)
      PROVE  NoneClaims
  <2>1. Held(p, r)
    BY <1>4
    DEF StepTop, WriteSummary, Heartbeat, RunNode, Persist, PublishArtifacts, Finalize,
        FinalizeCancelled, FinalizeSucceeded, FinalizeFailed, FinalizeInterrupted,
        FinalizeLost, Held, Claimed, Finalizing
  <2>2. PICK label : Goto(p, r, label)
    BY <1>4
    DEF StepTop, WriteSummary, Heartbeat, RunNode, Persist, PublishArtifacts, Finalize,
        FinalizeLost
  <2>3. UNCHANGED lease
    BY <1>4
    DEF StepTop, WriteSummary, Heartbeat, RunNode, Persist, PublishArtifacts, Finalize,
        FinalizeLost
  <2>4. QED
    BY <2>1, <2>2, <2>3, GotoWithinClaim
<1>5. ASSUME NEW p \in Processes, NEW r \in Runs, StopWatchdog(p, r)
      PROVE  NoneClaims
  BY <1>5
  DEF StopWatchdog, Goto, TypeOK, AttemptTypeOK, NoneClaims, Held, Claimed, Finalizing
<1>6. ASSUME \/ \E p \in Processes :
                  \/ SubmitScan(p) \/ SubmitSweep(p) \/ SubmitCreate(p) \/ SubmitRefused(p)
                  \/ SubmitDispatchFails(p)
                  \/ RecoverScan(p) \/ RecoverOne(p) \/ RecoverSkips(p)
                  \/ Start(p) \/ ReconcileOne(p) \/ Serve(p) \/ Shutdown(p)
             \/ \E r \in Runs : CancelSubmitted(r) \/ CancelRunning(r)
             \/ \E p \in Processes, r \in Runs : Watch(p, r)
             \/ Tick \/ UNCHANGED vars
      PROVE  NoneClaims
  <2>1. UNCHANGED workerVars
    BY <1>6
    DEF SubmitScan, SubmitSweep, SubmitCreate, SubmitRefused, SubmitDispatchFails,
        RecoverScan, RecoverOne, RecoverSkips, Start, ReconcileOne, Serve, Shutdown,
        CancelSubmitted, CancelRunning, Watch, WatchdogBeat, WatchdogTerminalize,
        WatchdogOnly, Tick, vars
  <2>2. QED
    BY <2>1, OthersKeepAttempts DEF workerVars
<1>7. QED
  BY <1>1, <1>2, <1>3, <1>4, <1>5, <1>6 DEF Next, Submit, Work

(* A run that was claimed stays claimed, or ends.                          *)
LEMMA ClaimedForGood ==
  ASSUME TypeOK, OneTransaction, NEW q \in Runs, status[q] \notin {"absent", "submitted"}
  PROVE  status'[q] \notin {"absent", "submitted"}
<1>1. CASE UNCHANGED dbVars
  BY <1>1 DEF dbVars
<1>2. ASSUME NEW r \in Runs, Transaction(r)
      PROVE  status'[q] \notin {"absent", "submitted"}
  BY <1>2
  DEF Transaction, Created, Started, Withdrawn, CancelAsked, Renewed, Summarized, Recorded,
      Ended, Forgotten, Terminalize, Terminal, TypeOK, DatabaseTypeOK
<1>3. QED
  BY <1>1, <1>2 DEF OneTransaction

LEMMA Ownership == Spec => [](HeldIsClaimed /\ HeldOnce)
<1>1. Init => HeldIsClaimed /\ HeldOnce
  BY DEF Init, HeldIsClaimed, HeldOnce, Held, Claimed, Finalizing
<1>2. ASSUME TypeOK, RowsOK, HeldIsClaimed, HeldOnce, [Next]_vars
      PROVE  HeldIsClaimed' /\ HeldOnce'
  <2>1. OneTransaction
    BY <1>2, StepIsTransaction
  <2>2. ASSUME NEW p \in Processes, NEW r \in Runs, Claim(p, r)
        PROVE  HeldIsClaimed' /\ HeldOnce'
    <3>1. status[r] = "submitted" /\ status'[r] = "running" /\ lease'[p][r] = 1
      BY <1>2, <2>2
      DEF Claim, Claimable, RowsOK, Row, ActiveRow, TypeOK, DatabaseTypeOK, AttemptTypeOK
    <3>2. \A q \in Processes, s \in Runs :
            Held(q, s)' => (q = p /\ s = r) \/ (Held(q, s) /\ lease'[q][s] = lease[q][s])
      BY <2>2, <1>2 DEF Claim, Goto, Held, TypeOK, AttemptTypeOK
    <3>3. \A q \in Processes : ~Held(q, r)
      BY <1>2, <3>1 DEF HeldIsClaimed
    <3>4. HeldIsClaimed'
      BY <1>2, <2>1, <3>1, <3>2, ClaimedForGood DEF HeldIsClaimed
    <3>5. HeldOnce'
      BY <1>2, <3>2, <3>3 DEF HeldOnce
    <3>6. QED
      BY <3>4, <3>5
  <2>3. CASE \A p \in Processes, r \in Runs : ~Claim(p, r)
    <3>1. NoneClaims
      BY <1>2, <2>3, OnlyClaimClaims
    <3>2. HeldIsClaimed'
      BY <1>2, <2>1, <3>1, ClaimedForGood DEF HeldIsClaimed, NoneClaims
    <3>3. HeldOnce'
      BY <1>2, <3>1 DEF HeldOnce, NoneClaims
    <3>4. QED
      BY <3>2, <3>3
  <2>4. QED
    BY <2>2, <2>3
<1>3. QED
  BY <1>1, <1>2, TypeCorrect, RowsCorrect, PTL DEF Spec

(* A run is claimed once in its life, and has one owner at most.           *)
THEOREM OneOwnerAtMost == Spec => []OneOwner
<1>1. RowsOK /\ HeldIsClaimed /\ HeldOnce => OneOwner
  BY DEF RowsOK, Row, ActiveRow, HeldIsClaimed, HeldOnce, Held, OneOwner
<1>2. QED
  BY <1>1, RowsCorrect, Ownership, PTL

(* Submissions that race leave one active run of a plan version at most,   *)
(* those that were forced aside.                                           *)
THEOREM OneActiveRunPerVersion == Spec => []OneActivePerVersion
<1>1. Init => OneActivePerVersion
  BY DEF Init, OneActivePerVersion, IsActive, Active
<1>2. TypeOK /\ OneActivePerVersion /\ OneTransaction => OneActivePerVersion'
  <2> SUFFICES ASSUME TypeOK, OneActivePerVersion, OneTransaction,
                      NEW q \in Runs, NEW s \in Runs,
                      (IsActive(q) /\ ~forced[q] /\ IsActive(s) /\ ~forced[s])',
                      (versionOf[q] = versionOf[s])'
               PROVE  q = s
    BY DEF OneActivePerVersion
  <2>1. CASE UNCHANGED dbVars
    BY <2>1 DEF OneActivePerVersion, IsActive, dbVars
  <2>2. ASSUME NEW r \in Runs, Created(r)
        PROVE  q = s
    <3>1. PICK version \in PlanVersions \cup {None}, force \in BOOLEAN :
             /\ MayCreate(version, force)
             /\ versionOf' = [versionOf EXCEPT ![r] = version]
             /\ forced' = [forced EXCEPT ![r] = force]
      BY <2>2 DEF Created
    <3>2. \A t \in Runs \ {r} : /\ IsActive(t)' => IsActive(t)
                                /\ forced'[t] = forced[t] /\ versionOf'[t] = versionOf[t]
      BY <2>2, <3>1 DEF Created, IsActive, TypeOK, DatabaseTypeOK
    <3>3. ASSUME NEW t \in Runs \ {r}, IsActive(t)', (versionOf[t] = versionOf[r])'
          PROVE  forced'[r]
      BY <3>1, <3>2, <3>3 DEF MayCreate, TypeOK, DatabaseTypeOK
    <3>4. QED
      BY <3>2, <3>3 DEF OneActivePerVersion
  <2>3. ASSUME NEW r \in Runs, Transaction(r), ~Created(r)
        PROVE  q = s
    <3>1. \A t \in Runs : /\ IsActive(t)' => IsActive(t)
                         /\ forced'[t] = forced[t] /\ versionOf'[t] = versionOf[t]
      BY <2>3
      DEF Transaction, Started, Withdrawn, CancelAsked, Renewed, Summarized, Recorded, Ended,
          Forgotten, Terminalize, IsActive, Active, Terminal, TypeOK, DatabaseTypeOK
    <3>2. QED
      BY <3>1 DEF OneActivePerVersion
  <2>4. QED
    BY <2>1, <2>2, <2>3 DEF OneTransaction
<1>3. QED
  BY <1>1, <1>2, StepIsTransaction, TypeCorrect, PTL DEF Spec

-----------------------------------------------------------------------------
(* The two races that a setting excludes: that of a sweep with a worker    *)
(* whose renewals are in time, and that of a finalization without a        *)
(* generation with the claim, in one process.                              *)

-----------------------------------------------------------------------------
(* Which steps make a run running, and renew its heartbeat.                *)

(* Only a claim makes a run running.                                       *)
LEMMA OnlyClaimStarts ==
  ASSUME TypeOK, [Next]_vars, NEW r \in Runs, status'[r] = "running", status[r] # "running"
  PROVE  \E p \in Processes : Claim(p, r)
<1> USE DEF TypeOK, DatabaseTypeOK
<1>1. \A t \in Runs, target \in Terminal, codes \in SUBSET Codes :
        ~Terminalize(t, target, codes)
  BY DEF Terminalize, Terminal
<1>2. \A target : target \in {"succeeded", "failed", "cancelled", "interrupted"} =>
        target \in Terminal
  BY DEF Terminal
<1>3. \A code : code \in Codes => {code} \in SUBSET Codes
  OBVIOUS
<1>4. {} \in SUBSET Codes
  OBVIOUS
<1>5. \A t \in Runs : \A hb : InterruptIfStill(t, hb) => UNCHANGED dbVars
  BY <1>1, <1>2 DEF InterruptIfStill, Codes
<1>6. ASSUME NEW p \in Processes, Submit(p) \/ RecoverOne(p)
      PROVE  FALSE
  <2>1. ASSUME SubmitSweep(p) \/ RecoverOne(p) PROVE FALSE
    <3>1. PICK o \in Observation : InterruptIfStill(o[1], o[2])
      BY <2>1 DEF SubmitSweep, RecoverOne, ProcessTypeOK, Submission
    <3>2. o[1] \in Runs
      BY DEF Observation
    <3> QED
      BY <1>5, <3>1, <3>2 DEF dbVars
  <2>2. ASSUME SubmitCreate(p) PROVE FALSE
    BY <2>2 DEF SubmitCreate
  <2>3. ASSUME SubmitDispatchFails(p) PROVE FALSE
    <3>1. submission[p].run \in Runs
      BY <2>3 DEF SubmitDispatchFails, ProcessTypeOK
    <3> QED
      BY <1>1, <1>2, <2>3, <3>1 DEF SubmitDispatchFails, Codes, dbVars
  <2>4. ASSUME SubmitRefused(p) \/ SubmitDispatch(p) PROVE FALSE
    BY <2>4 DEF SubmitRefused, SubmitDispatch, dbVars
  <2> QED
    BY <1>6, <2>1, <2>2, <2>3, <2>4 DEF Submit
<1>7. ASSUME NEW p \in Processes,
             \/ SubmitScan(p) \/ RecoverScan(p) \/ RecoverSkips(p)
             \/ Start(p) \/ ReconcileOne(p) \/ Serve(p) \/ Shutdown(p) \/ Exit(p)
      PROVE  FALSE
  BY <1>7 DEF SubmitScan, RecoverScan, RecoverSkips, Start, ReconcileOne, Serve, Shutdown,
              Exit, dbVars
<1>8. ASSUME NEW t \in Runs, CancelSubmitted(t) \/ CancelRunning(t) PROVE FALSE
  BY <1>8 DEF CancelSubmitted, CancelRunning
<1>9. ASSUME Tick \/ UNCHANGED vars PROVE FALSE
  BY <1>9 DEF Tick, vars, dbVars
<1>10. PICK p \in Processes, t \in Runs : Take(p, t) \/ Work(p, t) \/ Watch(p, t)
  BY <1>6, <1>7, <1>8, <1>9 DEF Next
<1>11. CASE \/ Take(p, t) \/ Enter(p, t) \/ PreExecFails(p, t) \/ ClaimLost(p, t)
            \/ PreExecRead(p, t) \/ StepTop(p, t) \/ RunNode(p, t)
            \/ PublishArtifacts(p, t) \/ FinalizeLost(p, t) \/ StopWatchdog(p, t)
            \/ WriteSummary(p, t) \/ Heartbeat(p, t) \/ Persist(p, t) \/ WatchdogBeat(p, t)
  BY <1>11
  DEF Take, Enter, PreExecFails, ClaimLost, PreExecRead, StepTop, RunNode, PublishArtifacts,
      FinalizeLost, StopWatchdog, WriteSummary, Heartbeat, Persist, WatchdogBeat, WorkerOnly,
      dbVars
<1>12. CASE PreExecFinalize(p, t)
  BY <1>1, <1>2, <1>12 DEF PreExecFinalize, Codes, dbVars
<1>13. CASE Finalize(p, t)
  BY <1>1, <1>2, <1>13
  DEF Finalize, FinalizeCancelled, FinalizeSucceeded, FinalizeFailed, FinalizeInterrupted, Codes
<1>14. CASE WatchdogTerminalize(p, t)
  BY <1>1, <1>2, <1>14 DEF WatchdogTerminalize, Codes, dbVars
<1>15. CASE Claim(p, t)
  <2>1. t = r
    BY <1>15 DEF Claim
  <2> QED
    BY <1>15, <2>1
<1> QED
  BY <1>10, <1>11, <1>12, <1>13, <1>14, <1>15 DEF Work, Watch

(* The lease of a run is renewed in this step.                             *)
RenewedNow(r) == clock' = clock /\ heartbeatAt'[r] = clock

(* A run that stays running keeps its heartbeat, or has it renewed.        *)
LEMMA HeartbeatKept ==
  ASSUME TypeOK, [Next]_vars, NEW r \in Runs, status[r] = "running"
  PROVE  heartbeatAt'[r] = heartbeatAt[r] \/ heartbeatAt'[r] = clock
<1>1. OneTransaction
  BY StepIsTransaction
<1>2. CASE UNCHANGED dbVars
  BY <1>2 DEF dbVars
<1>3. ASSUME NEW t \in Runs, Transaction(t)
      PROVE  heartbeatAt'[r] = heartbeatAt[r] \/ heartbeatAt'[r] = clock
  BY <1>3
  DEF Transaction, Created, Started, Withdrawn, CancelAsked, Renewed, Summarized, Recorded,
      Ended, Forgotten, Terminalize, TypeOK, DatabaseTypeOK
<1> QED
  BY <1>1, <1>2, <1>3 DEF OneTransaction

(* Time passes in no other step than Tick, which changes nothing else.     *)
LEMMA TimePasses ==
  ASSUME TypeOK, [Next]_vars
  PROVE  \/ clock' = clock
         \/ Tick /\ clock' = clock + 1 /\ UNCHANGED <<dbVars, procVars, workerVars, watchdogVars>>
<1>1. ASSUME NEW p \in Processes,
             \/ SubmitScan(p) \/ Submit(p)
             \/ RecoverScan(p) \/ RecoverOne(p) \/ RecoverSkips(p)
             \/ Start(p) \/ ReconcileOne(p) \/ Serve(p) \/ Shutdown(p) \/ Exit(p)
      PROVE  clock' = clock
  <2>1. ASSUME Submit(p) PROVE clock' = clock
    BY <2>1 DEF Submit, SubmitSweep, SubmitCreate, SubmitRefused, SubmitDispatch,
                SubmitDispatchFails
  <2> QED
    BY <1>1, <2>1 DEF SubmitScan, RecoverScan, RecoverOne, RecoverSkips, Start, ReconcileOne,
                      Serve, Shutdown, Exit
<1>2. ASSUME NEW r \in Runs, CancelSubmitted(r) \/ CancelRunning(r)
      PROVE  clock' = clock
  BY <1>2 DEF CancelSubmitted, CancelRunning
<1>3. ASSUME NEW p \in Processes, NEW r \in Runs, Take(p, r) \/ Work(p, r) \/ Watch(p, r)
      PROVE  clock' = clock
  <2>1. ASSUME Work(p, r) PROVE clock' = clock
    BY <2>1 DEF Work, WorkerOnly, Enter, PreExecFails, Claim, ClaimLost, PreExecRead,
       PreExecFinalize, StepTop, WriteSummary, Heartbeat, RunNode, Persist, PublishArtifacts,
       Finalize, FinalizeLost, StopWatchdog
  <2> QED
    BY <1>3, <2>1 DEF Take, Watch, WatchdogBeat, WatchdogTerminalize, WatchdogOnly
<1>4. CASE Tick
  BY <1>4 DEF Tick
<1>5. CASE UNCHANGED vars
  BY <1>5 DEF vars
<1> QED
  BY <1>1, <1>2, <1>3, <1>4, <1>5 DEF Next

-----------------------------------------------------------------------------
(* Sweeps and renewals.  SweepSparesRenewingWorker is about a sweep that   *)
(* read the heartbeat long ago, so it needs to be known how old whatever   *)
(* was read must have been (ObservedOK), that a watchdog which waits is    *)
(* never late (WatchdogOK), and that it is due no later than one interval  *)
(* after the heartbeat on record, once that heartbeat is the worker's own  *)
(* (FreshOK).                                                              *)

LongAgo(o) == clock - o[2] > StaleAfter

ObservedOK ==
  \A p \in Processes :
    /\ \A o \in sweep[p] : LongAgo(o)
    /\ \A o \in submission[p].observed : LongAgo(o)

WatchdogOK ==
  \A p \in Processes, r \in Runs :
    /\ watchdog[p][r] # "terminalizing"
    /\ watchdog[p][r] = "waiting" =>
         /\ Held(p, r)
         /\ clock <= due[p][r] /\ due[p][r] <= clock + BeatEvery

FreshOK ==
  \A p \in Processes, r \in Runs :
    Renewing(p, r) /\ status[r] = "running" => due[p][r] <= heartbeatAt[r] + BeatEvery

(* What a step does to an attempt and its watchdog while nothing raises: a *)
(* watchdog goes, or comes with the claim, or renews, or stays as it is    *)
(* beside an attempt that enters its renewing part only by a renewal.      *)
Moved(p, r) ==
  \/ watchdog'[p][r] = "off"
  \/ Claim(p, r)
  \/ /\ watchdog'[p][r] = watchdog[p][r]
     /\ Held(p, r) => Held(p, r)'
     /\ \/ RenewedNow(r) /\ due'[p][r] = clock + BeatEvery
        \/ /\ due'[p][r] = due[p][r]
           /\ Renewing(p, r)' => Renewing(p, r) \/ RenewedNow(r)

LEMMA StillMoved ==
  ASSUME NEW p \in Processes, NEW r \in Runs,
         UNCHANGED <<watchdog[p][r], due[p][r], at[p][r], pc[p][r]>>
  PROVE  Moved(p, r)
BY DEF Moved, Held, Renewing

(* An attempt that goes elsewhere, other than out of its claim.            *)
LEMMA GotoMoved ==
  ASSUME TypeOK, NEW p \in Processes, NEW r \in Runs, UNCHANGED <<watchdogVars, at>>,
         NEW label, Goto(p, r, label),
         Held(p, r) => label \in Claimed,
         \/ RenewedNow(r)
         \/ label \notin {"node", "persist", "publish", "finFailed"}
         \/ pc[p][r] \in {"node", "persist", "publish", "finFailed"}
  PROVE  \A q \in Processes, t \in Runs : Moved(q, t)
<1> SUFFICES ASSUME NEW q \in Processes, NEW t \in Runs PROVE Moved(q, t)
  OBVIOUS
<1>1. CASE q = p /\ t = r
  <2>1. pc'[q][t] = label
    BY <1>1 DEF Goto, TypeOK, AttemptTypeOK
  <2> QED
    BY <1>1, <2>1 DEF Moved, Held, Renewing, watchdogVars
<1>2. CASE q # p \/ t # r
  <2>1. pc'[q][t] = pc[q][t]
    BY <1>2 DEF Goto, TypeOK, AttemptTypeOK
  <2> QED
    BY <2>1, StillMoved DEF watchdogVars
<1> QED
  BY <1>1, <1>2

LEMMA ServerMoves ==
  ASSUME TypeOK, 
         \/ \E p \in Processes :
              \/ SubmitScan(p) \/ Submit(p)
              \/ RecoverScan(p) \/ RecoverOne(p) \/ RecoverSkips(p)
              \/ Start(p) \/ ReconcileOne(p) \/ Serve(p) \/ Shutdown(p) \/ Exit(p)
         \/ \E r \in Runs : CancelSubmitted(r) \/ CancelRunning(r)
         \/ Tick \/ UNCHANGED vars
  PROVE  \A q \in Processes, t \in Runs : Moved(q, t)
<1>1. ASSUME UNCHANGED <<workerVars, watchdogVars>>
      PROVE  \A q \in Processes, t \in Runs : Moved(q, t)
  BY <1>1, StillMoved DEF workerVars, watchdogVars
<1>2. ASSUME NEW p \in Processes, SubmitDispatch(p)
      PROVE  \A q \in Processes, t \in Runs : Moved(q, t)
  <2>1. CASE UNCHANGED workerVars
    BY <1>1, <1>2, <2>1 DEF SubmitDispatch
  <2>2. CASE /\ pc[p][submission[p].run] = "idle"
             /\ Goto(p, submission[p].run, "entered")
    <3>1. submission[p].run \in Runs
      BY <1>2 DEF SubmitDispatch, TypeOK, ProcessTypeOK
    <3> QED
      BY <1>2, <2>2, <3>1, GotoMoved DEF SubmitDispatch, Held, Claimed, Finalizing
  <2> QED
    BY <1>2, <2>1, <2>2 DEF SubmitDispatch, workerVars
<1>3. ASSUME NEW p \in Processes, Exit(p)
      PROVE  \A q \in Processes, t \in Runs : Moved(q, t)
  <2>1. \A t \in Runs : watchdog'[p][t] = "off"
    BY <1>3 DEF Exit, TypeOK, AttemptTypeOK
  <2>2. \A q \in Processes \ {p} : UNCHANGED <<watchdog[q], due[q], at[q], pc[q]>>
    BY <1>3 DEF Exit, TypeOK, AttemptTypeOK
  <2>3. ASSUME NEW q \in Processes, NEW t \in Runs PROVE Moved(q, t)
    BY <2>1, <2>2, StillMoved DEF Moved
  <2> QED
    BY <2>3
<1>4. ASSUME \/ \E p \in Processes :
                  \/ SubmitScan(p) \/ SubmitSweep(p) \/ SubmitCreate(p) \/ SubmitRefused(p)
                  \/ SubmitDispatchFails(p)
                  \/ RecoverScan(p) \/ RecoverOne(p) \/ RecoverSkips(p)
                  \/ Start(p) \/ ReconcileOne(p) \/ Serve(p) \/ Shutdown(p)
             \/ \E r \in Runs : CancelSubmitted(r) \/ CancelRunning(r)
             \/ Tick \/ UNCHANGED vars
      PROVE  \A q \in Processes, t \in Runs : Moved(q, t)
  <2>1. UNCHANGED <<workerVars, watchdogVars>>
    BY <1>4
    DEF SubmitScan, SubmitSweep, SubmitCreate, SubmitRefused, SubmitDispatchFails,
        RecoverScan, RecoverOne, RecoverSkips, Start, ReconcileOne, Serve, Shutdown,
        CancelSubmitted, CancelRunning, Tick, vars
  <2> QED
    BY <1>1, <2>1
<1> QED
  BY <1>2, <1>3, <1>4 DEF Submit

LEMMA AttemptMoves ==
  ASSUME TypeOK, ~Faults, NEW p \in Processes, NEW r \in Runs,
         Take(p, r) \/ Work(p, r) \/ Watch(p, r)
  PROVE  \A q \in Processes, t \in Runs : Moved(q, t)
<1> USE DEF Claimed, Finalizing, WorkerOnly
<1>1. CASE \/ Take(p, r) \/ Enter(p, r) \/ PreExecFails(p, r) \/ ClaimLost(p, r)
           \/ PreExecRead(p, r) \/ PreExecFinalize(p, r)
  <2>1. PICK label \in {"idle"} \cup BeforeClaim : Goto(p, r, label)
    BY <1>1
    DEF Take, Enter, PreExecFails, ClaimLost, PreExecRead, PreExecFinalize, BeforeClaim
  <2>2. ~Held(p, r) /\ UNCHANGED <<watchdogVars, at>>
    BY <1>1
    DEF Take, Enter, PreExecFails, ClaimLost, PreExecRead, PreExecFinalize, Held
  <2> QED
    BY <2>1, <2>2, GotoMoved DEF BeforeClaim
<1>2. CASE \/ StepTop(p, r) \/ WriteSummary(p, r) \/ Finalize(p, r) \/ FinalizeLost(p, r)
  <2>1. PICK label \in {"finCancelled", "finSucceeded", "summary", "heartbeat", "handler",
                        "stopping"} : Goto(p, r, label)
    BY <1>2 DEF StepTop, WriteSummary, Finalize, FinalizeLost
  <2>2. UNCHANGED <<watchdogVars, at>>
    BY <1>2 DEF StepTop, WriteSummary, Finalize, FinalizeLost
  <2> QED
    BY <2>1, <2>2, GotoMoved
<1>3. CASE RunNode(p, r) \/ Persist(p, r)
  <2>1. PICK label \in {"persist", "publish", "finCancelled", "handler", "stopping"} :
          Goto(p, r, label)
    BY <1>3 DEF RunNode, Persist
  <2>2. UNCHANGED <<watchdogVars, at>> /\ pc[p][r] \in {"node", "persist"}
    BY <1>3 DEF RunNode, Persist
  <2> QED
    BY <2>1, <2>2, GotoMoved
<1>4. CASE Heartbeat(p, r)
  <2>1. UNCHANGED <<watchdogVars, at, clock>>
    BY <1>4 DEF Heartbeat
  <2>2. CASE heartbeatAt' = [heartbeatAt EXCEPT ![r] = clock] /\ Goto(p, r, "node")
    <3>1. RenewedNow(r)
      BY <2>1, <2>2 DEF RenewedNow, TypeOK, DatabaseTypeOK
    <3> QED
      BY <2>1, <2>2, <3>1, GotoMoved
  <2>3. CASE Goto(p, r, "stopping")
    BY <2>1, <2>3, GotoMoved
  <2> QED
    BY <1>4, <2>2, <2>3 DEF Heartbeat
<1>5. CASE PublishArtifacts(p, r)
  <2>1. CASE outcome[p][r] = "failed" /\ at' = at /\ Goto(p, r, "finFailed")
    BY <1>5, <2>1, GotoMoved DEF PublishArtifacts
  <2>2. CASE at' = [at EXCEPT ![p][r] = @ + 1] /\ Goto(p, r, "stepTop")
    <3> SUFFICES ASSUME NEW q \in Processes, NEW t \in Runs PROVE Moved(q, t)
      OBVIOUS
    <3>1. pc[p][r] = "publish" /\ UNCHANGED watchdogVars
      BY <1>5 DEF PublishArtifacts
    <3>2. CASE q = p /\ t = r
      <4>1. pc'[q][t] = "stepTop"
        BY <2>2, <3>2 DEF Goto, TypeOK, AttemptTypeOK
      <4> QED
        BY <3>1, <3>2, <4>1 DEF Moved, Held, Renewing, watchdogVars
    <3>3. CASE q # p \/ t # r
      <4>1. pc'[q][t] = pc[q][t] /\ at'[q][t] = at[q][t]
        BY <2>2, <3>3 DEF Goto, TypeOK, AttemptTypeOK
      <4> QED
        BY <3>1, <4>1, StillMoved DEF watchdogVars
    <3> QED
      BY <3>2, <3>3
  <2> QED
    BY <1>5, <2>1, <2>2 DEF PublishArtifacts
<1>6. CASE Claim(p, r) \/ StopWatchdog(p, r)
  <2> SUFFICES ASSUME NEW q \in Processes, NEW t \in Runs PROVE Moved(q, t)
    OBVIOUS
  <2>1. CASE q = p /\ t = r
    BY <1>6, <2>1 DEF StopWatchdog, Moved, TypeOK, AttemptTypeOK
  <2>2. CASE q # p \/ t # r
    <3>1. UNCHANGED <<watchdog[q][t], due[q][t], at[q][t], pc[q][t]>>
      BY <1>6, <2>2 DEF Claim, StopWatchdog, Goto, TypeOK, AttemptTypeOK
    <3> QED
      BY <3>1, StillMoved
  <2> QED
    BY <2>1, <2>2
<1>7. CASE Watch(p, r)
  <2> SUFFICES ASSUME NEW q \in Processes, NEW t \in Runs PROVE Moved(q, t)
    OBVIOUS
  <2>1. UNCHANGED <<workerVars, clock>>
    BY <1>7 DEF Watch, WatchdogBeat, WatchdogTerminalize, WatchdogOnly
  <2>2. CASE q = p /\ t = r
    <3>1. \/ watchdog'[p][r] = "off"
          \/ /\ watchdog'[p][r] = watchdog[p][r]
             /\ heartbeatAt'[r] = clock /\ due'[p][r] = clock + BeatEvery
      <4>1. CASE WatchdogTerminalize(p, r)
        BY <4>1 DEF WatchdogTerminalize, TypeOK, AttemptTypeOK
      <4>2. CASE WatchdogBeat(p, r)
        <5>1. CASE watchdog' = [watchdog EXCEPT ![p][r] = "off"]
          BY <5>1 DEF TypeOK, AttemptTypeOK
        <5>2. CASE /\ heartbeatAt' = [heartbeatAt EXCEPT ![r] = clock]
                   /\ due' = [due EXCEPT ![p][r] = clock + BeatEvery]
                   /\ watchdog' = watchdog
          BY <5>2 DEF TypeOK, DatabaseTypeOK, AttemptTypeOK
        <5> QED
          BY <4>2, <5>1, <5>2 DEF WatchdogBeat
      <4> QED
        BY <1>7, <4>1, <4>2 DEF Watch
    <3> QED
      BY <2>1, <2>2, <3>1 DEF Moved, RenewedNow, Held, workerVars
  <2>3. CASE q # p \/ t # r
    <3>1. UNCHANGED <<watchdog[q][t], due[q][t]>>
      BY <1>7, <2>3 DEF Watch, WatchdogBeat, WatchdogTerminalize, TypeOK, AttemptTypeOK
    <3> QED
      BY <2>1, <3>1, StillMoved DEF workerVars
  <2> QED
    BY <2>2, <2>3
<1> QED
  BY <1>1, <1>2, <1>3, <1>4, <1>5, <1>6, <1>7 DEF Work

LEMMA EveryMove ==
  ASSUME TypeOK, ~Faults, [Next]_vars
  PROVE  \A q \in Processes, t \in Runs : Moved(q, t)
BY ServerMoves, AttemptMoves DEF Next

LEMMA WatchdogStep ==
  ASSUME TypeOK, WatchdogOK, Punctual, ~Faults, [Next]_vars
  PROVE  WatchdogOK'
<1> SUFFICES ASSUME NEW p \in Processes, NEW r \in Runs
             PROVE  /\ watchdog'[p][r] # "terminalizing"
                    /\ watchdog'[p][r] = "waiting" =>
                         /\ Held(p, r)'
                         /\ clock' <= due'[p][r] /\ due'[p][r] <= clock' + BeatEvery
  BY DEF WatchdogOK
<1>0. /\ clock \in Nat /\ BeatEvery \in Nat /\ due[p][r] \in Nat
      /\ watchdog[p][r] = "waiting" =>
           Held(p, r) /\ clock <= due[p][r] /\ due[p][r] <= clock + BeatEvery
      /\ watchdog[p][r] # "terminalizing"
  BY TimingAssumption DEF TypeOK, AttemptTypeOK, WatchdogOK
<1>1. Moved(p, r)
  BY EveryMove
<1>2. CASE Tick /\ clock' = clock + 1 /\ UNCHANGED <<dbVars, procVars, workerVars, watchdogVars>>
  <2>1. watchdog[p][r] = "waiting" => clock < due[p][r]
    BY <1>2 DEF Tick
  <2> QED
    BY <1>0, <1>2, <2>1 DEF Held, workerVars, watchdogVars
<1>3. CASE clock' = clock
  <2>1. CASE watchdog'[p][r] = "off"
    BY <2>1
  <2>2. CASE Claim(p, r)
    <3>1. /\ watchdog'[p][r] = "waiting" /\ due'[p][r] = clock + BeatEvery
          /\ pc'[p][r] = "stepTop"
      BY <2>2 DEF Claim, Goto, TypeOK, AttemptTypeOK
    <3> QED
      BY <1>0, <1>3, <3>1 DEF Held, Claimed
  <2>3. CASE /\ watchdog'[p][r] = watchdog[p][r]
             /\ Held(p, r) => Held(p, r)'
             /\ due'[p][r] \in {due[p][r], clock + BeatEvery}
    BY <1>0, <1>3, <2>3
  <2> QED
    BY <1>1, <2>1, <2>2, <2>3 DEF Moved
<1> QED
  BY <1>2, <1>3, TimePasses

LEMMA FreshStep ==
  ASSUME TypeOK, HeldIsClaimed, WatchdogOK, WatchdogOK', FreshOK, ~Faults, [Next]_vars
  PROVE  FreshOK'
<1> SUFFICES ASSUME NEW p \in Processes, NEW r \in Runs, Renewing(p, r)', status'[r] = "running"
             PROVE  due'[p][r] <= heartbeatAt'[r] + BeatEvery
  BY DEF FreshOK
<1>1. watchdog'[p][r] = "waiting" /\ due'[p][r] <= clock' + BeatEvery
  BY DEF Renewing, WatchdogOK
<1>2. CASE RenewedNow(r)
  BY <1>1, <1>2 DEF RenewedNow
<1>3. CASE ~RenewedNow(r)
  <2>1. ~Claim(p, r)
    BY DEF Claim, Goto, Renewing, TypeOK, AttemptTypeOK
  <2>2. /\ watchdog[p][r] = "waiting" /\ due'[p][r] = due[p][r]
        /\ Renewing(p, r)
    BY <1>1, <1>3, <2>1, EveryMove DEF Moved
  <2>3. Held(p, r) /\ status[r] # "submitted"
    BY <2>2 DEF WatchdogOK, HeldIsClaimed
  <2>4. status[r] = "running"
    <3>1. \A q \in Processes : ~Claim(q, r)
      BY <2>3 DEF Claim, Claimable
    <3> QED
      BY <3>1, OnlyClaimStarts
  <2>5. heartbeatAt'[r] = heartbeatAt[r]
    <3>1. CASE clock' = clock
      BY <1>3, <2>4, <3>1, HeartbeatKept DEF RenewedNow
    <3>2. CASE UNCHANGED dbVars
      BY <3>2 DEF dbVars
    <3> QED
      BY <3>1, <3>2, TimePasses
  <2> QED
    BY <2>2, <2>4, <2>5 DEF FreshOK
<1> QED
  BY <1>2, <1>3

(* What a scan reads is old.                                               *)
LEMMA StaleIsLongAgo == \A o \in StaleRuns : LongAgo(o)
BY DEF StaleRuns, IsStale, LongAgo

(* What a sweep has in hand it has read in a scan.                         *)
LEMMA ObservedBefore ==
  ASSUME TypeOK, [Next]_vars, NEW p \in Processes
  PROVE  /\ sweep'[p] \subseteq sweep[p] \cup StaleRuns
         /\ submission'[p].observed \subseteq submission[p].observed \cup StaleRuns
<1> DEFINE Within == /\ sweep'[p] \subseteq sweep[p] \cup StaleRuns
                     /\ submission'[p].observed \subseteq submission[p].observed \cup StaleRuns
<1> USE DEF TypeOK, ProcessTypeOK, Submission, SetSubmission, NoSubmission
<1>1. ASSUME NEW q \in Processes,
             \/ SubmitScan(q) \/ SubmitRefused(q) \/ SubmitDispatch(q) \/ SubmitDispatchFails(q)
      PROVE  Within
  BY <1>1 DEF SubmitScan, SubmitRefused, SubmitDispatch, SubmitDispatchFails
<1>2. ASSUME NEW q \in Processes, SubmitSweep(q) PROVE Within
  <2>1. PICK o \in submission[q].observed :
          \/ submission' = [submission EXCEPT ![q] = [submission[q] EXCEPT !.observed = @ \ {o}]]
          \/ submission' = [submission EXCEPT ![q] = NoSubmission]
    BY <1>2 DEF SubmitSweep
  <2>2. submission'[p].observed \subseteq submission[p].observed
    BY <2>1
  <2> QED
    BY <1>2, <2>2 DEF SubmitSweep
<1>3. ASSUME NEW q \in Processes, SubmitCreate(q) PROVE Within
  <2>1. PICK r \in Runs :
          submission' = [submission EXCEPT
                           ![q] = [submission[q] EXCEPT !.pc = "dispatch", !.run = r]]
    BY <1>3 DEF SubmitCreate
  <2>2. submission'[p].observed \subseteq submission[p].observed
    BY <2>1
  <2> QED
    BY <1>3, <2>2 DEF SubmitCreate
<1>4. ASSUME NEW q \in Processes, RecoverScan(q) \/ RecoverOne(q) \/ RecoverSkips(q)
      PROVE  Within
  BY <1>4 DEF RecoverScan, RecoverOne, RecoverSkips
<1>5. ASSUME NEW q \in Processes,
             Start(q) \/ ReconcileOne(q) \/ Serve(q) \/ Shutdown(q) \/ Exit(q)
      PROVE  Within
  BY <1>5 DEF Start, ReconcileOne, Serve, Shutdown, Exit
<1>6. ASSUME NEW r \in Runs, CancelSubmitted(r) \/ CancelRunning(r) PROVE Within
  BY <1>6 DEF CancelSubmitted, CancelRunning, procVars
<1>7. ASSUME NEW q \in Processes, NEW r \in Runs, Take(q, r) \/ Work(q, r) \/ Watch(q, r)
      PROVE  Within
  <2>1. UNCHANGED <<submission, sweep>>
    BY <1>7
    DEF Take, Work, Enter, PreExecFails, Claim, ClaimLost, PreExecRead, PreExecFinalize,
        StepTop, WriteSummary, Heartbeat, RunNode, Persist, PublishArtifacts, Finalize,
        FinalizeLost, StopWatchdog, Watch, WatchdogBeat, WatchdogTerminalize, WatchdogOnly,
        WorkerOnly, procVars
  <2> QED
    BY <2>1
<1>8. CASE Tick \/ UNCHANGED vars
  BY <1>8 DEF Tick, vars, procVars
<1> QED
  BY <1>1, <1>2, <1>3, <1>4, <1>5, <1>6, <1>7, <1>8 DEF Next, Submit

LEMMA ObservedStep ==
  ASSUME TypeOK, ObservedOK, [Next]_vars
  PROVE  ObservedOK'
<1>1. ASSUME NEW p \in Processes, NEW o \in sweep'[p] \cup submission'[p].observed
      PROVE  LongAgo(o)'
  <2>1. o \in sweep[p] \cup submission[p].observed \cup StaleRuns
    BY <1>1, ObservedBefore
  <2>2. LongAgo(o)
    BY <2>1, StaleIsLongAgo DEF ObservedOK
  <2>3. o \in Observation
    BY <2>1, StaleRunsType DEF TypeOK, ProcessTypeOK, Submission
  <2>4. o[2] \in Nat /\ clock \in Nat /\ StaleAfter \in Nat
    BY <2>3, TimingAssumption DEF Observation, TypeOK
  <2>5. clock' = clock \/ clock' = clock + 1
    BY TimePasses
  <2> QED
    BY <2>2, <2>4, <2>5 DEF LongAgo
<1> QED
  BY <1>1 DEF ObservedOK

(* Only a sweep interrupts a running run as stale, and only one whose      *)
(* heartbeat it still finds as it was read.                                *)
LEMMA SweptByObservation ==
  ASSUME TypeOK, RowsOK, ObservedOK, [Next]_vars, NEW r \in Runs, SweptNow(r)
  PROVE  clock - heartbeatAt[r] > StaleAfter
<1>0. status[r] = "running" /\ status'[r] # "running" /\ "RUN_STALE" \in diagnostics'[r]
  BY DEF SweptNow
<1>1. diagnostics[r] = {} /\ diagnostics' # diagnostics
  BY <1>0 DEF RowsOK, Row, ActiveRow, Terminal
<1>2. ASSUME NEW t \in Runs, NEW target, NEW codes, Terminalize(t, target, codes)
      PROVE  "RUN_STALE" \in codes
  <2>1. t = r
    BY <1>0, <1>2 DEF Terminalize, TypeOK, DatabaseTypeOK
  <2> QED
    BY <1>0, <1>1, <1>2, <2>1 DEF Terminalize, TypeOK, DatabaseTypeOK
<1>3. ASSUME NEW o \in Observation, InterruptIfStill(o[1], o[2]), LongAgo(o)
      PROVE  clock - heartbeatAt[r] > StaleAfter
  <2>1. o[1] \in Runs /\ StillObserved(o[1], o[2]) /\ Terminalize(o[1], "interrupted", {"RUN_STALE"})
    BY <1>1, <1>3 DEF InterruptIfStill, Observation, dbVars
  <2>2. o[1] = r
    BY <1>0, <2>1 DEF Terminalize, TypeOK, DatabaseTypeOK
  <2> QED
    BY <1>3, <2>1, <2>2 DEF StillObserved, LongAgo
<1>4. ASSUME NEW p \in Processes, SubmitSweep(p) \/ RecoverOne(p)
      PROVE  clock - heartbeatAt[r] > StaleAfter
  <2>1. PICK o \in sweep[p] \cup submission[p].observed : InterruptIfStill(o[1], o[2])
    BY <1>4 DEF SubmitSweep, RecoverOne
  <2>2. o \in Observation /\ LongAgo(o)
    BY <2>1 DEF ObservedOK, TypeOK, ProcessTypeOK, Submission
  <2> QED
    BY <1>3, <2>1, <2>2
<1>5. ASSUME NEW p \in Processes,
             \/ SubmitScan(p) \/ SubmitCreate(p) \/ SubmitRefused(p) \/ SubmitDispatch(p)
             \/ RecoverScan(p) \/ RecoverSkips(p)
             \/ Start(p) \/ ReconcileOne(p) \/ Serve(p) \/ Shutdown(p) \/ Exit(p)
      PROVE  FALSE
  BY <1>1, <1>5 DEF SubmitScan, SubmitCreate, SubmitRefused, SubmitDispatch, RecoverScan,
     RecoverSkips, Start, ReconcileOne, Serve, Shutdown, Exit, dbVars
<1>6. ASSUME NEW p \in Processes, SubmitDispatchFails(p) PROVE FALSE
  <2>1. submission[p].run \in Runs
    BY <1>6 DEF SubmitDispatchFails, TypeOK, ProcessTypeOK
  <2> QED
    BY <1>1, <1>2, <1>6, <2>1 DEF SubmitDispatchFails, dbVars
<1>7. ASSUME \/ \E t \in Runs : CancelSubmitted(t) \/ CancelRunning(t)
             \/ Tick \/ UNCHANGED vars
      PROVE  FALSE
  BY <1>1, <1>7 DEF CancelSubmitted, CancelRunning, Tick, vars, dbVars
<1>8. ASSUME NEW p \in Processes, NEW t \in Runs,
             \/ Take(p, t) \/ Enter(p, t) \/ PreExecFails(p, t) \/ Claim(p, t) \/ ClaimLost(p, t)
             \/ PreExecRead(p, t) \/ StepTop(p, t) \/ RunNode(p, t)
             \/ PublishArtifacts(p, t) \/ FinalizeLost(p, t) \/ StopWatchdog(p, t)
             \/ WriteSummary(p, t) \/ Heartbeat(p, t) \/ Persist(p, t) \/ WatchdogBeat(p, t)
      PROVE  FALSE
  BY <1>1, <1>8
  DEF Take, Enter, PreExecFails, Claim, ClaimLost, PreExecRead, StepTop, RunNode,
      PublishArtifacts, FinalizeLost, StopWatchdog, WriteSummary, Heartbeat, Persist,
      WatchdogBeat, WorkerOnly, dbVars
<1>9. ASSUME NEW p \in Processes, NEW t \in Runs,
             PreExecFinalize(p, t) \/ Finalize(p, t) \/ WatchdogTerminalize(p, t)
      PROVE  FALSE
  BY <1>1, <1>2, <1>9
  DEF PreExecFinalize, Finalize, FinalizeCancelled, FinalizeSucceeded, FinalizeFailed,
      FinalizeInterrupted, WatchdogTerminalize, dbVars
<1> QED
  BY <1>4, <1>5, <1>6, <1>7, <1>8, <1>9 DEF Next, Submit, Work, Watch

TimelyOK == WatchdogOK /\ ObservedOK /\ FreshOK

(* While watchdogs renew in time, the heartbeat of a worker that has once  *)
(* renewed is never older than an interval.                                *)
LEMMA Timely == Punctual /\ ~Faults => (Spec => []TimelyOK)
<1> SUFFICES ASSUME Punctual, ~Faults PROVE Spec => []TimelyOK
  OBVIOUS
<1>1. Init => TimelyOK
  BY DEF Init, TimelyOK, WatchdogOK, ObservedOK, FreshOK, Renewing, NoSubmission
<1>2. TypeOK /\ HeldIsClaimed /\ TimelyOK /\ [Next]_vars => TimelyOK'
  BY WatchdogStep, ObservedStep, FreshStep DEF TimelyOK
<1> QED
  BY <1>1, <1>2, TypeCorrect, Ownership, PTL DEF Spec

(* While watchdogs are punctual and no renewal fails, no sweep of any      *)
(* process interrupts a run whose worker has renewed its lease since its   *)
(* claim, however long ago the sweep read the heartbeat it goes by: the    *)
(* comparison with that heartbeat fails, or the worker has not renewed.    *)
THEOREM RenewingWorkerIsSpared ==
  Punctual /\ ~Faults => (Spec => SweepSparesRenewingWorker)
<1> SUFFICES ASSUME Punctual, ~Faults PROVE Spec => SweepSparesRenewingWorker
  OBVIOUS
<1>1. TypeOK /\ RowsOK /\ TimelyOK /\ [Next]_vars =>
        [\A r \in Runs : SweptNow(r) => ~ \E p \in Processes : Renewing(p, r)]_vars
  <2> SUFFICES ASSUME TypeOK, RowsOK, TimelyOK, [Next]_vars, NEW r \in Runs, SweptNow(r),
                      NEW p \in Processes, Renewing(p, r)
               PROVE  FALSE
    OBVIOUS
  <2>1. clock - heartbeatAt[r] > StaleAfter
    BY SweptByObservation DEF TimelyOK
  <2>2. clock <= due[p][r] /\ due[p][r] <= heartbeatAt[r] + BeatEvery
    BY DEF TimelyOK, WatchdogOK, FreshOK, Renewing, SweptNow
  <2>3. /\ clock \in Nat /\ heartbeatAt[r] \in Nat /\ due[p][r] \in Nat
        /\ BeatEvery \in Nat /\ StaleAfter \in Nat /\ BeatEvery <= StaleAfter
    BY TimingAssumption DEF TypeOK, DatabaseTypeOK, AttemptTypeOK
  <2> QED
    BY <2>1, <2>2, <2>3
<1>2. Spec => []TimelyOK
  BY Timely
<1> QED
  BY <1>1, <1>2, TypeCorrect, RowsCorrect, PTL DEF Spec, SweepSparesRenewingWorker

-----------------------------------------------------------------------------
(* One process.  A submission that failed to dispatch its run, and an      *)
(* attempt whose plan was refused, fail the run without a generation: in   *)
(* one process the run has one way to its claim, and they are on it.       *)

SingleProcess == \A p, q \in Processes : p = q

Dispatching(p, r) == submission[p].pc = "dispatch" /\ submission[p].run = r

(* The attempt found the run submitted, and has not claimed it.            *)
AwaitsClaim(p, r) == pc[p][r] \in {"validated", "preExecFailed", "preCancelled", "preFailed"}

PhasesOK ==
  \A p \in Processes :
    /\ proc[p] \in {"down", "starting"} => submission[p].pc = "idle"
    /\ proc[p] # "starting" => reconciling[p] = {}

(* A run goes from its submission to the queue, and from the queue to an   *)
(* attempt: it is never in two of these places.                            *)
OnItsWay(p, r) ==
  /\ status[r] = "absent" =>
       /\ r \notin queue[p] \cup reconciling[p]
       /\ pc[p][r] = "idle" /\ ~Dispatching(p, r)
  /\ Dispatching(p, r) => r \notin queue[p] /\ pc[p][r] = "idle"

NotClaimedYet(p, r) ==
  Dispatching(p, r) \/ AwaitsClaim(p, r) => status[r] # "running"

WayOK == \A p \in Processes, r \in Runs : OnItsWay(p, r) /\ NotClaimedYet(p, r)

(* A run is never absent again.                                            *)
LEMMA CreatedForGood ==
  ASSUME TypeOK, [Next]_vars, NEW q \in Runs, status'[q] = "absent"
  PROVE  status[q] = "absent"
<1>1. OneTransaction
  BY StepIsTransaction
<1>2. CASE UNCHANGED dbVars
  BY <1>2 DEF dbVars
<1>3. ASSUME NEW r \in Runs, Transaction(r)
      PROVE  status[q] = "absent"
  BY <1>3
  DEF Transaction, Created, Started, Withdrawn, CancelAsked, Renewed, Summarized, Recorded,
      Ended, Forgotten, Terminalize, Terminal, TypeOK, DatabaseTypeOK
<1> QED
  BY <1>1, <1>2, <1>3 DEF OneTransaction

(* A step that moves nothing of an attempt's way leaves it in order.       *)
LEMMA WayKept ==
  ASSUME TypeOK, [Next]_vars, NEW p \in Processes, NEW r \in Runs, OnItsWay(p, r),
         queue'[p] \subseteq queue[p], reconciling'[p] \subseteq reconciling[p],
         pc'[p][r] = "idle" \/ pc'[p][r] = pc[p][r],
         Dispatching(p, r)' => Dispatching(p, r)
  PROVE  OnItsWay(p, r)'
BY CreatedForGood DEF OnItsWay

(* What the exit of a process, or a move of one attempt, leaves of another. *)
LEMMA ExitMoves ==
  ASSUME AttemptTypeOK, NEW q \in Processes, pc' = [pc EXCEPT ![q] = [t \in Runs |-> "idle"]]
  PROVE  \A p \in Processes, r \in Runs : pc'[p][r] = "idle" \/ pc'[p][r] = pc[p][r]
<1>1. pc \in [Processes -> [Runs -> {"idle"} \cup BeforeClaim \cup Claimed]]
  BY DEF AttemptTypeOK
<1>2. \A p \in Processes : pc'[p] = IF p = q THEN [t \in Runs |-> "idle"] ELSE pc[p]
  BY <1>1
<1> QED
  BY <1>2

LEMMA GotoMoves ==
  ASSUME AttemptTypeOK, NEW q \in Processes, NEW t \in Runs, NEW label, Goto(q, t, label)
  PROVE  \A p \in Processes, r \in Runs : pc'[p][r] = label \/ pc'[p][r] = pc[p][r]
<1>1. pc \in [Processes -> [Runs -> {"idle"} \cup BeforeClaim \cup Claimed]]
  BY DEF AttemptTypeOK
<1>2. \A p \in Processes : pc'[p] = IF p = q THEN [pc[p] EXCEPT ![t] = label] ELSE pc[p]
  BY <1>1 DEF Goto
<1> QED
  BY <1>1, <1>2

LEMMA PhasesStep == TypeOK /\ PhasesOK /\ [Next]_vars => PhasesOK'
<1> SUFFICES ASSUME TypeOK, PhasesOK, [Next]_vars PROVE PhasesOK'
  OBVIOUS
<1> USE DEF PhasesOK, TypeOK, ProcessTypeOK, SetSubmission, NoSubmission
<1>1. ASSUME NEW p \in Processes, SubmitScan(p) \/ Submit(p) PROVE PhasesOK'
  <2>1. /\ UNCHANGED <<proc, reconciling>> /\ proc[p] \in {"up", "draining"}
        /\ \A q \in Processes \ {p} : submission'[q] = submission[q]
    BY <1>1 DEF SubmitScan, Submit, SubmitSweep, SubmitCreate, SubmitRefused, SubmitDispatch,
                SubmitDispatchFails, ServesRequests
  <2> QED
    BY <2>1
<1>2. ASSUME NEW p \in Processes, RecoverScan(p) \/ RecoverOne(p) \/ RecoverSkips(p)
      PROVE  PhasesOK'
  BY <1>2 DEF RecoverScan, RecoverOne, RecoverSkips
<1>3. ASSUME NEW p \in Processes,
             Start(p) \/ ReconcileOne(p) \/ Serve(p) \/ Shutdown(p) \/ Exit(p)
      PROVE  PhasesOK'
  BY <1>3 DEF Start, ReconcileOne, Serve, Shutdown, Exit
<1>4. ASSUME NEW r \in Runs, CancelSubmitted(r) \/ CancelRunning(r) PROVE PhasesOK'
  BY <1>4 DEF CancelSubmitted, CancelRunning, procVars
<1>5. ASSUME NEW p \in Processes, NEW r \in Runs, Take(p, r) \/ Work(p, r) \/ Watch(p, r)
      PROVE  PhasesOK'
  <2>1. UNCHANGED <<proc, reconciling, submission>>
    BY <1>5
    DEF Take, Work, Enter, PreExecFails, Claim, ClaimLost, PreExecRead, PreExecFinalize,
        StepTop, WriteSummary, Heartbeat, RunNode, Persist, PublishArtifacts, Finalize,
        FinalizeLost, StopWatchdog, Watch, WatchdogBeat, WatchdogTerminalize, WatchdogOnly,
        WorkerOnly, procVars
  <2> QED
    BY <2>1
<1>6. CASE Tick \/ UNCHANGED vars
  BY <1>6 DEF Tick, vars, procVars
<1> QED
  BY <1>1, <1>2, <1>3, <1>4, <1>5, <1>6 DEF Next

(* Where an attempt goes when it does not go to its claim.                 *)
LEMMA GotoOnItsWay ==
  ASSUME TypeOK, WayOK, [Next]_vars, NEW p \in Processes, NEW r \in Runs,
         pc[p][r] # "idle", NEW label, Goto(p, r, label), procVars' = procVars
  PROVE  \A q \in Processes, t \in Runs : OnItsWay(q, t)'
<1> SUFFICES ASSUME NEW q \in Processes, NEW t \in Runs PROVE OnItsWay(q, t)'
  OBVIOUS
<1>0. OnItsWay(q, t)
  BY DEF WayOK
<1>1. UNCHANGED <<queue, reconciling, submission>>
  BY DEF procVars
<1>2. CASE q = p /\ t = r
  BY <1>0, <1>1, <1>2, CreatedForGood DEF OnItsWay, Dispatching
<1>3. CASE q # p \/ t # r
  <2>1. pc'[q][t] = pc[q][t]
    BY <1>3 DEF Goto, TypeOK, AttemptTypeOK
  <2> QED
    BY <1>0, <1>1, <2>1, WayKept DEF Dispatching
<1> QED
  BY <1>2, <1>3

LEMMA OnItsWayStep ==
  ASSUME TypeOK, PendingIffSubmitted, PhasesOK, WayOK, [Next]_vars
  PROVE  \A p \in Processes, r \in Runs : OnItsWay(p, r)'
<1> DEFINE Way == \A p \in Processes, r \in Runs : OnItsWay(p, r)'
<1>0. \A p \in Processes, r \in Runs : OnItsWay(p, r)
  BY DEF WayOK
<1> USE DEF TypeOK, ProcessTypeOK, SetSubmission, NoSubmission
<1>1. ASSUME UNCHANGED <<queue, reconciling, pc>>,
             \A p \in Processes, r \in Runs : Dispatching(p, r)' => Dispatching(p, r)
      PROVE  Way
  BY <1>0, <1>1, WayKept
<1>2. ASSUME NEW p \in Processes,
             SubmitScan(p) \/ SubmitRefused(p) \/ SubmitDispatchFails(p)
      PROVE  Way
  <2>1. UNCHANGED <<queue, reconciling, pc>>
    BY <1>2 DEF SubmitScan, SubmitRefused, SubmitDispatchFails, workerVars
  <2>2. \A q \in Processes : submission'[q] = submission[q] \/ submission'[q].pc # "dispatch"
    BY <1>2 DEF SubmitScan, SubmitRefused, SubmitDispatchFails
  <2> QED
    BY <1>1, <2>1, <2>2 DEF Dispatching
<1>3. ASSUME NEW p \in Processes, SubmitSweep(p) PROVE Way
  <2>1. UNCHANGED <<queue, reconciling, pc>>
    BY <1>3 DEF SubmitSweep, workerVars
  <2>2. PICK o \in submission[p].observed :
          \/ submission' = [submission EXCEPT ![p] = [submission[p] EXCEPT !.observed = @ \ {o}]]
          \/ submission' = [submission EXCEPT ![p] = NoSubmission]
    BY <1>3 DEF SubmitSweep
  <2>3. submission[p].pc = "sweep"
    BY <1>3 DEF SubmitSweep
  <2>4. \A q \in Processes : submission'[q] = submission[q] \/ submission'[q].pc # "dispatch"
    BY <2>2, <2>3 DEF Submission
  <2> QED
    BY <1>1, <2>1, <2>4 DEF Dispatching
<1>4. ASSUME NEW p \in Processes, SubmitCreate(p) PROVE Way
  <2>1. UNCHANGED <<queue, reconciling, pc>>
    BY <1>4 DEF SubmitCreate, workerVars
  <2>2. PICK s \in Runs :
          /\ status[s] = "absent" /\ status' = [status EXCEPT ![s] = "submitted"]
          /\ submission' = [submission EXCEPT
                              ![p] = [submission[p] EXCEPT !.pc = "dispatch", !.run = s]]
    BY <1>4 DEF SubmitCreate
  <2>3. /\ submission'[p].run = s
        /\ \A q \in Processes \ {p} : submission'[q] = submission[q]
    BY <2>2 DEF Submission
  <2>4. status'[s] # "absent"
    BY <2>2 DEF DatabaseTypeOK
  <2> SUFFICES ASSUME NEW q \in Processes, NEW t \in Runs PROVE OnItsWay(q, t)'
    OBVIOUS
  <2>5. CASE t = s
    BY <1>0, <2>1, <2>2, <2>4, <2>5 DEF OnItsWay
  <2>6. CASE t # s
    <3>1. Dispatching(q, t)' => Dispatching(q, t)
      BY <2>3, <2>6 DEF Dispatching
    <3> QED
      BY <1>0, <2>1, <3>1, WayKept
  <2> QED
    BY <2>5, <2>6
<1>5. ASSUME NEW p \in Processes, SubmitDispatch(p) PROVE Way
  <2> DEFINE s == submission[p].run
  <2>1. /\ s \in Runs /\ Dispatching(p, s) /\ reconciling' = reconciling
        /\ submission'[p].pc = "idle"
        /\ \A q \in Processes \ {p} : submission'[q] = submission[q]
    BY <1>5 DEF SubmitDispatch, Dispatching
  <2>2. status[s] # "absent" /\ status'[s] # "absent"
    BY <1>0, <2>1, CreatedForGood DEF OnItsWay
  <2>3. \A q \in Processes, t \in Runs : Dispatching(q, t)' => Dispatching(q, t) /\ q # p
    BY <2>1 DEF Dispatching
  <2>4. \A q \in Processes, t \in Runs : q # p \/ t # s =>
          /\ t \in queue'[q] => t \in queue[q]
          /\ pc'[q][t] = pc[q][t]
    BY <1>5 DEF SubmitDispatch, Goto, AttemptTypeOK
  <2> SUFFICES ASSUME NEW q \in Processes, NEW t \in Runs PROVE OnItsWay(q, t)'
    OBVIOUS
  <2>5. CASE q = p /\ t = s
    BY <2>2, <2>3, <2>5 DEF OnItsWay
  <2>6. CASE q # p \/ t # s
    BY <1>0, <2>1, <2>3, <2>4, <2>6, CreatedForGood DEF OnItsWay
  <2> QED
    BY <2>5, <2>6
<1>6. ASSUME NEW p \in Processes, RecoverScan(p) \/ RecoverOne(p) \/ RecoverSkips(p)
      PROVE  Way
  BY <1>1, <1>6 DEF RecoverScan, RecoverOne, RecoverSkips, workerVars, Dispatching
<1>7. ASSUME NEW p \in Processes, Start(p) PROVE Way
  <2>1. UNCHANGED <<queue, pc, submission, status>>
        /\ \A q \in Processes : reconciling'[q] \in {reconciling[q], pendingDispatch}
    BY <1>7 DEF Start, workerVars, dbVars
  <2>2. \A t \in pendingDispatch : status[t] = "submitted"
    BY DEF PendingIffSubmitted, DatabaseTypeOK
  <2> QED
    BY <1>0, <2>1, <2>2 DEF OnItsWay, Dispatching
<1>8. ASSUME NEW p \in Processes, ReconcileOne(p) PROVE Way
  <2>1. PICK s \in reconciling[p] :
          /\ reconciling' = [reconciling EXCEPT ![p] = @ \ {s}]
          /\ queue' = queue \/ queue' = [queue EXCEPT ![p] = @ \cup {s}]
    BY <1>8 DEF ReconcileOne
  <2>2. UNCHANGED <<pc, submission, status>> /\ proc[p] = "starting" /\ s \in Runs
    BY <1>8 DEF ReconcileOne, workerVars
  <2>3. status[s] # "absent"
    BY <1>0, <2>1, <2>2 DEF OnItsWay
  <2>4. \A t \in Runs : ~Dispatching(p, t)
    BY <2>2 DEF PhasesOK, Dispatching
  <2> SUFFICES ASSUME NEW q \in Processes, NEW t \in Runs PROVE OnItsWay(q, t)'
    OBVIOUS
  <2>5. CASE q = p /\ t = s
    BY <2>2, <2>3, <2>4, <2>5 DEF OnItsWay, Dispatching
  <2>6. CASE q # p \/ t # s
    <3>1. /\ t \in queue'[q] => t \in queue[q]
          /\ t \in reconciling'[q] => t \in reconciling[q]
      BY <2>1, <2>6
    <3> QED
      BY <1>0, <2>2, <3>1 DEF OnItsWay, Dispatching
  <2> QED
    BY <2>5, <2>6
<1>9. ASSUME NEW p \in Processes, Serve(p) \/ Shutdown(p) \/ Exit(p) PROVE Way
  <2>1. reconciling' = reconciling \/ reconciling' = [reconciling EXCEPT ![p] = {}]
    BY <1>9 DEF Serve, Shutdown, Exit
  <2>2. queue' = queue \/ queue' = [queue EXCEPT ![p] = {}]
    BY <1>9 DEF Serve, Shutdown, Exit
  <2>3. pc' = pc \/ pc' = [pc EXCEPT ![p] = [r \in Runs |-> "idle"]]
    BY <1>9 DEF Serve, Shutdown, Exit, workerVars
  <2>4. \A q \in Processes : submission'[q] = submission[q] \/ submission'[q].pc = "idle"
    BY <1>9 DEF Serve, Shutdown, Exit
  <2> SUFFICES ASSUME NEW q \in Processes, NEW t \in Runs PROVE OnItsWay(q, t)'
    OBVIOUS
  <2>5. queue'[q] \subseteq queue[q] /\ reconciling'[q] \subseteq reconciling[q]
    BY <2>1, <2>2
  <2>6. pc'[q][t] = "idle" \/ pc'[q][t] = pc[q][t]
    BY <2>3, ExitMoves
  <2>7. Dispatching(q, t)' => Dispatching(q, t)
    BY <2>4 DEF Dispatching
  <2> QED
    BY <1>0, <2>5, <2>6, <2>7, WayKept
<1>10. ASSUME \/ \E r \in Runs : CancelSubmitted(r) \/ CancelRunning(r)
              \/ \E p \in Processes, r \in Runs : Watch(p, r)
              \/ Tick \/ UNCHANGED vars
       PROVE  Way
  <2>1. UNCHANGED <<queue, reconciling, pc, submission>>
    BY <1>10 DEF CancelSubmitted, CancelRunning, Watch, WatchdogBeat, WatchdogTerminalize,
                 WatchdogOnly, Tick, vars, procVars, workerVars
  <2> QED
    BY <1>1, <2>1 DEF Dispatching
<1>11. ASSUME NEW p \in Processes, NEW r \in Runs, Take(p, r) PROVE Way
  <2>1. /\ UNCHANGED <<reconciling, submission, status>> /\ r \in queue[p]
        /\ queue' = [queue EXCEPT ![p] = @ \ {r}] /\ pc' = [pc EXCEPT ![p][r] = "entered"]
    BY <1>11 DEF Take, Goto, dbVars
  <2>2. status[r] # "absent" /\ ~Dispatching(p, r)
    BY <1>0, <2>1 DEF OnItsWay
  <2> SUFFICES ASSUME NEW q \in Processes, NEW t \in Runs PROVE OnItsWay(q, t)'
    OBVIOUS
  <2>3. CASE q = p /\ t = r
    BY <2>1, <2>2, <2>3 DEF OnItsWay, Dispatching
  <2>4. CASE q # p \/ t # r
    <3>1. pc'[q][t] = pc[q][t] /\ queue'[q] \subseteq queue[q]
      BY <2>1, <2>4 DEF AttemptTypeOK
    <3> QED
      BY <1>0, <2>1, <3>1, WayKept DEF Dispatching
  <2> QED
    BY <2>3, <2>4
<1>12. ASSUME NEW p \in Processes, NEW r \in Runs, Work(p, r) PROVE Way
  <2>1. pc[p][r] # "idle" /\ procVars' = procVars
    BY <1>12
    DEF Work, Enter, PreExecFails, Claim, ClaimLost, PreExecRead, PreExecFinalize, StepTop,
        WriteSummary, Heartbeat, RunNode, Persist, PublishArtifacts, Finalize,
        FinalizeCancelled, FinalizeSucceeded, FinalizeFailed, FinalizeInterrupted,
        FinalizeLost, StopWatchdog, WorkerOnly, procVars
  <2>2. PICK label : Goto(p, r, label)
    BY <1>12
    DEF Work, Enter, PreExecFails, Claim, ClaimLost, PreExecRead, PreExecFinalize, StepTop,
        WriteSummary, Heartbeat, RunNode, Persist, PublishArtifacts, Finalize, FinalizeLost,
        StopWatchdog
  <2> QED
    BY <2>1, <2>2, GotoOnItsWay
<1> QED
  BY <1>2, <1>3, <1>4, <1>5, <1>6, <1>7, <1>8, <1>9, <1>10, <1>11, <1>12 DEF Next, Submit

(* A run is dispatched when it was just created, and awaits a claim when   *)
(* it was just seen to be submitted.                                       *)
LEMMA BeginsToWait ==
  ASSUME TypeOK, [Next]_vars, NEW p \in Processes, NEW r \in Runs
  PROVE  /\ Dispatching(p, r)' => Dispatching(p, r) \/ status[r] = "absent"
         /\ AwaitsClaim(p, r)' => AwaitsClaim(p, r) \/ status[r] = "submitted"
<1> DEFINE Begins == /\ Dispatching(p, r)' => Dispatching(p, r) \/ status[r] = "absent"
                     /\ AwaitsClaim(p, r)' => AwaitsClaim(p, r) \/ status[r] = "submitted"
<1> USE DEF TypeOK, ProcessTypeOK, AttemptTypeOK, SetSubmission, NoSubmission
<1>1. ASSUME NEW q \in Processes,
             \/ SubmitScan(q) \/ SubmitRefused(q) \/ SubmitDispatch(q) \/ SubmitDispatchFails(q)
      PROVE  Begins
  <2>1. submission'[p] = submission[p] \/ submission'[p].pc # "dispatch"
    BY <1>1 DEF SubmitScan, SubmitRefused, SubmitDispatch, SubmitDispatchFails
  <2>2. pc' = pc \/ Goto(q, submission[q].run, "entered")
    BY <1>1 DEF SubmitScan, SubmitRefused, SubmitDispatch, SubmitDispatchFails, workerVars
  <2>3. pc'[p][r] = "entered" \/ pc'[p][r] = pc[p][r]
    <3>1. CASE SubmitDispatch(q)
      <4>1. submission[q].run \in Runs
        BY <3>1 DEF SubmitDispatch
      <4> QED
        BY <2>2, <4>1, GotoMoves
    <3>2. CASE ~SubmitDispatch(q)
      BY <1>1, <3>2 DEF SubmitScan, SubmitRefused, SubmitDispatchFails, workerVars
    <3> QED
      BY <3>1, <3>2
  <2> QED
    BY <2>1, <2>3 DEF Dispatching, AwaitsClaim
<1>2. ASSUME NEW q \in Processes, SubmitSweep(q) PROVE Begins
  <2>1. PICK o \in submission[q].observed :
          \/ submission' = [submission EXCEPT ![q] = [submission[q] EXCEPT !.observed = @ \ {o}]]
          \/ submission' = [submission EXCEPT ![q] = NoSubmission]
    BY <1>2 DEF SubmitSweep
  <2>2. submission[q].pc = "sweep" /\ pc' = pc
    BY <1>2 DEF SubmitSweep, workerVars
  <2>3. submission \in [Processes -> Submission]
    OBVIOUS
  <2>4. submission'[p] = submission[p] \/ submission'[p].pc # "dispatch"
    <3>1. CASE p = q
      <4>1. submission[q] \in Submission
        BY <2>3
      <4>2. \/ submission'[q] = [submission[q] EXCEPT !.observed = @ \ {o}]
            \/ submission'[q] = NoSubmission
        BY <2>1, <2>3
      <4>3. [submission[q] EXCEPT !.observed = @ \ {o}].pc = submission[q].pc
        BY <4>1 DEF Submission
      <4>4. NoSubmission.pc = "idle"
        OBVIOUS
      <4>5. submission'[q].pc = "sweep" \/ submission'[q].pc = "idle"
        BY <2>2, <4>2, <4>3, <4>4, Zenon
      <4> QED
        BY <3>1, <4>5
    <3>2. CASE p # q
      BY <2>1, <2>3, <3>2
    <3> QED
      BY <3>1, <3>2
  <2> QED
    BY <2>2, <2>4 DEF Dispatching, AwaitsClaim
<1>3. ASSUME NEW q \in Processes, SubmitCreate(q) PROVE Begins
  <2>1. PICK s \in Runs :
          /\ status[s] = "absent"
          /\ submission' = [submission EXCEPT
                              ![q] = [submission[q] EXCEPT !.pc = "dispatch", !.run = s]]
    BY <1>3 DEF SubmitCreate
  <2>2. submission'[p] = submission[p] \/ submission'[p].run = s
    BY <2>1 DEF Submission
  <2>3. pc' = pc
    BY <1>3 DEF SubmitCreate, workerVars
  <2> QED
    BY <2>1, <2>2, <2>3 DEF Dispatching, AwaitsClaim
<1>4. ASSUME NEW q \in Processes,
             \/ RecoverScan(q) \/ RecoverOne(q) \/ RecoverSkips(q)
             \/ Start(q) \/ ReconcileOne(q) \/ Serve(q) \/ Shutdown(q) \/ Exit(q)
      PROVE  Begins
  <2>1. pc' = pc \/ pc' = [pc EXCEPT ![q] = [t \in Runs |-> "idle"]]
    BY <1>4 DEF RecoverScan, RecoverOne, RecoverSkips, Start, ReconcileOne, Serve, Shutdown,
                Exit, workerVars
  <2>2. submission'[p] = submission[p] \/ submission'[p].pc # "dispatch"
    BY <1>4 DEF RecoverScan, RecoverOne, RecoverSkips, Start, ReconcileOne, Serve, Shutdown, Exit
  <2>3. pc'[p][r] = "idle" \/ pc'[p][r] = pc[p][r]
    BY <2>1, ExitMoves
  <2> QED
    BY <2>2, <2>3 DEF Dispatching, AwaitsClaim
<1>5. ASSUME \/ \E t \in Runs : CancelSubmitted(t) \/ CancelRunning(t)
             \/ \E q \in Processes, t \in Runs : Watch(q, t)
             \/ Tick \/ UNCHANGED vars
      PROVE  Begins
  <2>1. UNCHANGED <<pc, submission>>
    BY <1>5 DEF CancelSubmitted, CancelRunning, Watch, WatchdogBeat, WatchdogTerminalize,
                WatchdogOnly, Tick, vars, procVars, workerVars
  <2> QED
    BY <2>1 DEF Dispatching, AwaitsClaim
<1>6. ASSUME NEW q \in Processes, NEW t \in Runs, Take(q, t) \/ Work(q, t)
      PROVE  Begins
  <2>1. submission' = submission
    BY <1>6
    DEF Take, Work, Enter, PreExecFails, Claim, ClaimLost, PreExecRead, PreExecFinalize,
        StepTop, WriteSummary, Heartbeat, RunNode, Persist, PublishArtifacts, Finalize,
        FinalizeLost, StopWatchdog, WorkerOnly, procVars
  <2>2. CASE q = p /\ t = r
    <3> DEFINE Waits == {"validated", "preExecFailed", "preCancelled", "preFailed"}
    <3>1. ASSUME Enter(p, r) PROVE pc'[p][r] \in Waits => status[r] = "submitted"
      BY <3>1 DEF Enter, Goto
    <3>2. ASSUME PreExecFails(p, r) \/ PreExecRead(p, r) PROVE pc[p][r] \in Waits
      BY <3>2 DEF PreExecFails, PreExecRead
    <3>3. ASSUME \/ Take(p, r) \/ Claim(p, r) \/ ClaimLost(p, r) \/ PreExecFinalize(p, r)
                 \/ StopWatchdog(p, r) \/ RunNode(p, r)
          PROVE  pc'[p][r] \notin Waits
      BY <3>3 DEF Take, Claim, ClaimLost, PreExecFinalize, StopWatchdog, RunNode, Goto
    <3>4. ASSUME \/ StepTop(p, r) \/ WriteSummary(p, r) \/ Heartbeat(p, r) \/ Persist(p, r)
                 \/ PublishArtifacts(p, r) \/ Finalize(p, r) \/ FinalizeLost(p, r)
          PROVE  pc'[p][r] \notin Waits
      <4>1. \E label \in Claimed : Goto(p, r, label)
        BY <3>4 DEF StepTop, WriteSummary, Heartbeat, Persist, PublishArtifacts, Finalize,
                    FinalizeLost, Claimed, Finalizing
      <4> QED
        BY <4>1 DEF Goto, Claimed, Finalizing
    <3> QED
      BY <1>6, <2>1, <2>2, <3>1, <3>2, <3>3, <3>4 DEF Work, Dispatching, AwaitsClaim
  <2>3. CASE q # p \/ t # r
    <3>1. PICK label : Goto(q, t, label)
      BY <1>6
      DEF Take, Work, Enter, PreExecFails, Claim, ClaimLost, PreExecRead, PreExecFinalize,
          StepTop, WriteSummary, Heartbeat, RunNode, Persist, PublishArtifacts, Finalize,
          FinalizeLost, StopWatchdog
    <3>2. pc'[p][r] = pc[p][r]
      BY <2>3, <3>1 DEF Goto
    <3> QED
      BY <2>1, <3>2 DEF Dispatching, AwaitsClaim
  <2> QED
    BY <2>2, <2>3
<1> QED
  BY <1>1, <1>2, <1>3, <1>4, <1>5, <1>6 DEF Next, Submit

(* In one process the claim is the end of the way to it.                   *)
LEMMA NotClaimedStep ==
  ASSUME SingleProcess, TypeOK, WayOK, [Next]_vars, NEW p \in Processes, NEW r \in Runs
  PROVE  NotClaimedYet(p, r)'
<1> SUFFICES ASSUME Dispatching(p, r)' \/ AwaitsClaim(p, r)', status'[r] = "running"
             PROVE  FALSE
  BY DEF NotClaimedYet
<1>1. CASE status[r] = "running"
  BY <1>1, BeginsToWait DEF WayOK, NotClaimedYet
<1>2. CASE status[r] # "running"
  <2>1. Claim(p, r)
    BY <1>2, OnlyClaimStarts DEF SingleProcess
  <2>2. pc[p][r] = "validated" /\ pc'[p][r] = "stepTop" /\ submission' = submission
    BY <2>1 DEF Claim, Goto, procVars, TypeOK, AttemptTypeOK
  <2> QED
    BY <2>2 DEF WayOK, OnItsWay, Dispatching, AwaitsClaim
<1> QED
  BY <1>1, <1>2

LEMMA WayCorrect == SingleProcess => (Spec => []WayOK)
<1> SUFFICES ASSUME SingleProcess PROVE Spec => []WayOK
  OBVIOUS
<1>1. Init => PhasesOK /\ WayOK
  BY DEF Init, PhasesOK, WayOK, OnItsWay, NotClaimedYet, Dispatching, AwaitsClaim, NoSubmission
<1>2. TypeOK /\ PendingIffSubmitted /\ PhasesOK /\ WayOK /\ [Next]_vars => PhasesOK' /\ WayOK'
  BY PhasesStep, OnItsWayStep, NotClaimedStep DEF WayOK
<1> QED
  BY <1>1, <1>2, TypeCorrect, PendingIsSubmitted, PTL DEF Spec

(* With one process, a running run fails only by the attempt that has it.  *)
THEOREM OwnerFailsAlone == SingleProcess => (Spec => OnlyTheOwnerFails)
<1> SUFFICES ASSUME SingleProcess PROVE Spec => OnlyTheOwnerFails
  OBVIOUS
<1> DEFINE ByOwner(r) ==
      \E p \in Processes : pc[p][r] \in {"finFailed", "handler"} /\ pc'[p][r] # pc[p][r]
<1>1. TypeOK /\ WayOK /\ [Next]_vars =>
        [\A r \in Runs : status[r] = "running" /\ status'[r] = "failed" => ByOwner(r)]_vars
  <2> SUFFICES ASSUME TypeOK, WayOK, [Next]_vars,
                      NEW r \in Runs, status[r] = "running", status'[r] = "failed"
               PROVE  ByOwner(r)
    OBVIOUS
  <2>0. dbVars' # dbVars
    BY DEF dbVars
  <2>1. ASSUME NEW t \in Runs, NEW target, NEW codes, Terminalize(t, target, codes)
        PROVE  t = r /\ target = "failed"
    BY <2>1 DEF Terminalize, TypeOK, DatabaseTypeOK
  <2>2. ASSUME NEW p \in Processes, SubmitSweep(p) \/ RecoverOne(p) PROVE FALSE
    <3>1. PICK o \in Observation : InterruptIfStill(o[1], o[2])
      BY <2>2 DEF SubmitSweep, RecoverOne, TypeOK, ProcessTypeOK, Submission
    <3> QED
      BY <2>0, <2>1, <3>1 DEF InterruptIfStill, Observation
  <2>3. ASSUME NEW p \in Processes, SubmitDispatchFails(p) PROVE FALSE
    <3>1. submission[p].run \in Runs /\ Dispatching(p, submission[p].run)
      BY <2>3 DEF SubmitDispatchFails, Dispatching, TypeOK, ProcessTypeOK
    <3>2. submission[p].run = r
      BY <2>0, <2>1, <2>3, <3>1 DEF SubmitDispatchFails
    <3> QED
      BY <3>1, <3>2 DEF WayOK, NotClaimedYet
  <2>4. ASSUME NEW p \in Processes,
               \/ SubmitScan(p) \/ SubmitRefused(p) \/ SubmitDispatch(p)
               \/ RecoverScan(p) \/ RecoverSkips(p)
               \/ Start(p) \/ ReconcileOne(p) \/ Serve(p) \/ Shutdown(p) \/ Exit(p)
        PROVE  FALSE
    BY <2>4 DEF SubmitScan, SubmitRefused, SubmitDispatch, RecoverScan,
       RecoverSkips, Start, ReconcileOne, Serve, Shutdown, Exit, dbVars
  <2>5. ASSUME NEW p \in Processes, SubmitCreate(p) PROVE FALSE
    BY <2>5 DEF SubmitCreate, TypeOK, DatabaseTypeOK
  <2>6. ASSUME \/ \E t \in Runs : CancelSubmitted(t) \/ CancelRunning(t)
               \/ Tick \/ UNCHANGED vars
        PROVE  FALSE
    BY <2>6 DEF CancelSubmitted, CancelRunning, Tick, vars, dbVars, TypeOK, DatabaseTypeOK
  <2>7. ASSUME NEW p \in Processes, NEW t \in Runs,
               \/ Take(p, t) \/ Enter(p, t) \/ PreExecFails(p, t) \/ ClaimLost(p, t)
               \/ PreExecRead(p, t) \/ StepTop(p, t) \/ RunNode(p, t) \/ PublishArtifacts(p, t)
               \/ FinalizeLost(p, t) \/ StopWatchdog(p, t) \/ WriteSummary(p, t)
               \/ Heartbeat(p, t) \/ Persist(p, t) \/ WatchdogBeat(p, t)
        PROVE  FALSE
    BY <2>7
    DEF Take, Enter, PreExecFails, ClaimLost, PreExecRead, StepTop, RunNode,
        PublishArtifacts, FinalizeLost, StopWatchdog, WriteSummary, Heartbeat, Persist,
        WatchdogBeat, WorkerOnly, dbVars
  <2>8. ASSUME NEW p \in Processes, NEW t \in Runs, Claim(p, t) PROVE FALSE
    BY <2>8 DEF Claim, TypeOK, DatabaseTypeOK
  <2>9. ASSUME NEW p \in Processes, NEW t \in Runs, PreExecFinalize(p, t) PROVE FALSE
    <3>1. t = r /\ AwaitsClaim(p, t)
      BY <2>0, <2>1, <2>9 DEF PreExecFinalize, AwaitsClaim
    <3> QED
      BY <3>1 DEF WayOK, NotClaimedYet
  <2>10. ASSUME NEW p \in Processes, NEW t \in Runs, Finalize(p, t) PROVE ByOwner(r)
    <3>1. t = r /\ pc[p][t] \in {"finFailed", "handler"}
      BY <2>1, <2>10
      DEF Finalize, FinalizeCancelled, FinalizeSucceeded, FinalizeFailed, FinalizeInterrupted
    <3>2. pc'[p][t] # pc[p][t]
      BY <2>10, <3>1 DEF Finalize, Goto, TypeOK, AttemptTypeOK
    <3> QED
      BY <3>1, <3>2
  <2>11. ASSUME NEW p \in Processes, NEW t \in Runs, WatchdogTerminalize(p, t) PROVE FALSE
    BY <2>0, <2>1, <2>11 DEF WatchdogTerminalize
  <2> QED
    BY <2>2, <2>3, <2>4, <2>5, <2>6, <2>7, <2>8, <2>9, <2>10, <2>11
    DEF Next, Submit, Work, Watch
<1>2. Spec => []WayOK
  BY WayCorrect
<1> QED
  BY <1>1, <1>2, TypeCorrect, PTL DEF Spec, OnlyTheOwnerFails

=============================================================================
