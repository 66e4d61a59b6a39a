---------------------------- MODULE RunContractProofs ----------------------------
(***************************************************************************)
(* A run that succeeded is complete, and RunLifecycle implements           *)
(* RunContract, for every number of processes, runs and steps.  Neither is *)
(* inductive: what a run has recorded when a step is added or when it ends *)
(* follows from where its attempt stands in the loop over the steps, so    *)
(* the invariant ties that place to the rows for as long as the run is     *)
(* running.                                                                *)
(***************************************************************************)
EXTENDS RunLifecycleProofs, SequenceTheorems

AllSucceeded(n) == [i \in 1..n |-> "succeeded"]

(* What the technical-manifest steps up to n have summarized.              *)
SummarizedUpTo(n) == {s - 1 : s \in {q \in SummarySteps : q > 1 /\ q <= n}}

(* The attempt stands before a step, or behind the last one.               *)
BetweenSteps(p, r) ==
  /\ at[p][r] \in 1..NumSteps + 1
  /\ runSteps[r] = AllSucceeded(at[p][r] - 1)
  /\ summaries[r] = SummarizedUpTo(at[p][r] - 1)

(* The summary before this step is skipped only when the run is cancelled. *)
InStep(p, r) ==
  /\ at[p][r] \in 1..NumSteps
  /\ runSteps[r] = AllSucceeded(at[p][r] - 1)
  /\ cancelRequested[r] \/ summaries[r] = SummarizedUpTo(at[p][r])

StepRecorded(p, r) ==
  /\ at[p][r] \in 1..NumSteps
  /\ runSteps[r] = Append(AllSucceeded(at[p][r] - 1), outcome[p][r])
  /\ summaries[r] = SummarizedUpTo(at[p][r])

StepsComplete(r) ==
  /\ runSteps[r] = AllSucceeded(NumSteps)
  /\ summaries[r] = SummarizedUpTo(NumSteps)

Place(p, r) ==
  /\ pc[p][r] = "stepTop" => BetweenSteps(p, r)
  /\ pc[p][r] = "summary" =>
       /\ BetweenSteps(p, r)
       /\ at[p][r] <= NumSteps /\ at[p][r] > 1 /\ at[p][r] \in SummarySteps
  /\ pc[p][r] \in {"heartbeat", "node", "persist"} => InStep(p, r)
  /\ pc[p][r] = "publish" => StepRecorded(p, r)
  /\ pc[p][r] = "finSucceeded" => StepsComplete(r)

PlacesOK == \A p \in Processes, r \in Runs : status[r] = "running" => Place(p, r)

(* Nothing is summarized, and nobody cancels by request, before the claim. *)
Untouched == \A r \in Runs :
  status[r] \in {"absent", "submitted"} => summaries[r] = {} /\ ~cancelRequested[r]

SuccessOK == PlacesOK /\ Untouched /\ SuccessIsComplete

-----------------------------------------------------------------------------
(* Sequences of successes, and the sets of summaries.                      *)

LEMMA SuccessesGrow ==
  ASSUME NEW n \in Nat
  PROVE  /\ AllSucceeded(n) \in Seq(StepStatus)
         /\ Len(AllSucceeded(n)) = n
         /\ Append(AllSucceeded(n), "succeeded") = AllSucceeded(n + 1)
<1>1. AllSucceeded(n) \in Seq(StepStatus) /\ Len(AllSucceeded(n)) = n
  BY DEF AllSucceeded, StepStatus
<1>2. AllSucceeded(n + 1) \in Seq(StepStatus) /\ Len(AllSucceeded(n + 1)) = n + 1
  BY DEF AllSucceeded, StepStatus
<1>3. /\ Append(AllSucceeded(n), "succeeded") \in Seq(StepStatus)
      /\ Len(Append(AllSucceeded(n), "succeeded")) = n + 1
  BY <1>1 DEF StepStatus
<1>4. ASSUME NEW i \in 1..n + 1
      PROVE  Append(AllSucceeded(n), "succeeded")[i] = AllSucceeded(n + 1)[i]
  <2>1. AllSucceeded(n + 1)[i] = "succeeded"
    BY DEF AllSucceeded
  <2>2. CASE i = n + 1
    BY <1>1, <2>1, <2>2
  <2>3. CASE i \in 1..n
    <3>1. Append(AllSucceeded(n), "succeeded")[i] = AllSucceeded(n)[i]
      BY <1>1, <2>3
    <3>2. QED
      BY <2>1, <2>3, <3>1 DEF AllSucceeded
  <2>4. i = n + 1 \/ i \in 1..n
    OBVIOUS
  <2>5. QED
    BY <2>2, <2>3, <2>4
<1>5. QED
  BY <1>1, <1>2, <1>3, <1>4, SeqEqual

LEMMA SummariesGrow ==
  /\ SummarizedUpTo(0) = {}
  /\ \A n \in Nat \ {0} :
       IF n \in SummarySteps /\ n > 1
         THEN SummarizedUpTo(n) = SummarizedUpTo(n - 1) \cup {n - 1}
         ELSE SummarizedUpTo(n) = SummarizedUpTo(n - 1)
BY PlanAssumption DEF SummarizedUpTo

-----------------------------------------------------------------------------
(* A place that a step does not move, on rows that it does not touch.      *)

RowsKept(r) ==
  /\ UNCHANGED <<runSteps[r], summaries[r]>>
  /\ cancelRequested[r] => cancelRequested'[r]

LEMMA PlaceKept ==
  ASSUME NEW p \in Processes, NEW r \in Runs, Place(p, r),
         UNCHANGED <<pc[p][r], at[p][r], outcome[p][r]>>, RowsKept(r)
  PROVE  Place(p, r)'
BY DEF Place, BetweenSteps, InStep, StepRecorded, StepsComplete, RowsKept

(* A place where nothing is said of the rows.                              *)
LEMMA PlaceSilent ==
  ASSUME NEW p, NEW r,
         pc'[p][r] \notin {"stepTop", "summary", "heartbeat", "node", "persist", "publish",
                          "finSucceeded"}
  PROVE  Place(p, r)'
BY DEF Place

(* No step outside ExecuteRun lets a run run or succeed, or touches what a *)
(* running run has recorded or what a run that succeeded says.             *)

RowsStay(r) ==
  status'[r] \in {"running", "succeeded"} =>
    /\ status[r] = status'[r]
    /\ RowsKept(r)
    /\ status[r] = "succeeded" => cancelRequested'[r] = cancelRequested[r]

LEMMA QuietRowsStay ==
  ASSUME UNCHANGED dbVars, NEW q
  PROVE  RowsStay(q)
BY DEF dbVars, RowsStay, RowsKept

LEMMA TerminalizedRowsStay ==
  ASSUME TypeOK, NEW r \in Runs, NEW target \in Terminal, target # "succeeded", NEW codes,
         Terminalize(r, target, codes), NEW q \in Runs
  PROVE  RowsStay(q)
BY DEF Terminalize, Terminal, RowsStay, RowsKept, TypeOK, DatabaseTypeOK

LEMMA InterruptedRowsStay ==
  ASSUME TypeOK, NEW r \in Runs, NEW hb, InterruptIfStill(r, hb), NEW q \in Runs
  PROVE  RowsStay(q)
BY QuietRowsStay, TerminalizedRowsStay DEF InterruptIfStill, Terminal

LEMMA ServerRowsStay ==
  ASSUME TypeOK, NEW q \in Runs,
         \/ \E p \in Processes :
              \/ SubmitScan(p) \/ Submit(p)
              \/ RecoverScan(p) \/ RecoverOne(p) \/ RecoverSkips(p)
              \/ Start(p) \/ ReconcileOne(p) \/ Serve(p) \/ Shutdown(p) \/ Exit(p)
         \/ \E r \in Runs : CancelSubmitted(r) \/ CancelRunning(r)
         \/ \E p \in Processes, r \in Runs : Take(p, r) \/ Watch(p, r)
         \/ Tick \/ UNCHANGED vars
  PROVE  RowsStay(q)
<1>1. ASSUME NEW p \in Processes, SubmitSweep(p) \/ RecoverOne(p)
      PROVE  RowsStay(q)
  <2>1. PICK o \in submission[p].observed \cup sweep[p] : InterruptIfStill(o[1], o[2])
    BY <1>1 DEF SubmitSweep, RecoverOne
  <2>2. o[1] \in Runs
    BY DEF TypeOK, ProcessTypeOK, Submission, Observation
  <2>3. QED
    BY <2>1, <2>2, InterruptedRowsStay
<1>2. ASSUME NEW p \in Processes, SubmitCreate(p)
      PROVE  RowsStay(q)
  BY <1>2 DEF SubmitCreate, RowsStay, RowsKept, TypeOK, DatabaseTypeOK
<1>3. ASSUME NEW p \in Processes, SubmitDispatchFails(p)
      PROVE  RowsStay(q)
  <2>1. submission[p].run \in Runs
    BY <1>3 DEF SubmitDispatchFails, TypeOK, ProcessTypeOK
  <2>2. QED
    BY <1>3, <2>1, QuietRowsStay, TerminalizedRowsStay DEF SubmitDispatchFails, Terminal
<1>4. ASSUME NEW p \in Processes, ReconcileOne(p)
      PROVE  RowsStay(q)
  BY <1>4 DEF ReconcileOne, RowsStay, RowsKept
<1>5. ASSUME NEW r \in Runs, CancelSubmitted(r) \/ CancelRunning(r)
      PROVE  RowsStay(q)
  BY <1>5 DEF CancelSubmitted, CancelRunning, RowsStay, RowsKept, TypeOK, DatabaseTypeOK
<1>6. ASSUME NEW p \in Processes, NEW r \in Runs, Watch(p, r)
      PROVE  RowsStay(q)
  <2>1. CASE WatchdogBeat(p, r)
    BY <2>1 DEF WatchdogBeat, RowsStay, RowsKept
  <2>2. CASE WatchdogTerminalize(p, r)
    BY <2>2, QuietRowsStay, TerminalizedRowsStay DEF WatchdogTerminalize, Terminal
  <2>3. QED
    BY <1>6, <2>1, <2>2 DEF Watch
<1>7. ASSUME \/ \E p \in Processes :
                  \/ SubmitScan(p) \/ SubmitRefused(p) \/ SubmitDispatch(p)
                  \/ RecoverScan(p) \/ RecoverSkips(p)
                  \/ Start(p) \/ Serve(p) \/ Shutdown(p) \/ Exit(p)
             \/ \E p \in Processes, r \in Runs : Take(p, r)
             \/ Tick \/ UNCHANGED vars
      PROVE  RowsStay(q)
  BY <1>7, QuietRowsStay
  DEF SubmitScan, SubmitRefused, SubmitDispatch, RecoverScan, RecoverSkips, Start, Serve,
      Shutdown, Exit, Take, Tick, vars
<1>8. QED
  BY <1>1, <1>2, <1>3, <1>4, <1>5, <1>6, <1>7 DEF Submit

(* A step of an attempt touches the rows of its own run only.              *)
LEMMA OtherRowsStay ==
  ASSUME TypeOK, NEW p \in Processes, NEW r \in Runs, Work(p, r), NEW q \in Runs, q # r
  PROVE  UNCHANGED <<status[q], cancelRequested[q], runSteps[q], summaries[q]>>
<1>1. CASE \/ Enter(p, r) \/ PreExecFails(p, r) \/ ClaimLost(p, r) \/ PreExecRead(p, r)
           \/ StepTop(p, r) \/ RunNode(p, r) \/ PublishArtifacts(p, r)
           \/ FinalizeLost(p, r) \/ StopWatchdog(p, r)
  BY <1>1
  DEF Enter, PreExecFails, ClaimLost, PreExecRead, StepTop, RunNode, PublishArtifacts,
      FinalizeLost, StopWatchdog, WorkerOnly, dbVars
<1>2. CASE Claim(p, r) \/ WriteSummary(p, r) \/ Heartbeat(p, r) \/ Persist(p, r)
  BY <1>2 DEF Claim, WriteSummary, Heartbeat, Persist, TypeOK, DatabaseTypeOK
<1>3. CASE PreExecFinalize(p, r) \/ Finalize(p, r)
  <2>1. UNCHANGED dbVars \/ \E target, codes : Terminalize(r, target, codes)
    BY <1>3
    DEF PreExecFinalize, Finalize, FinalizeCancelled, FinalizeSucceeded, FinalizeFailed,
        FinalizeInterrupted
  <2>2. QED
    BY <2>1 DEF Terminalize, dbVars, TypeOK, DatabaseTypeOK
<1>4. QED
  BY <1>1, <1>2, <1>3 DEF Work

-----------------------------------------------------------------------------
(* The steps of an attempt lead from place to place.                       *)

LEMMA OwnPlace ==
  ASSUME TypeOK, RowsOK, HeldIsClaimed, Untouched,
         NEW p \in Processes, NEW r \in Runs, Work(p, r),
         status[r] = "running" => Place(p, r), status'[r] = "running"
  PROVE  Place(p, r)'
<1> USE DEF TypeOK
<1>1. CASE \/ Enter(p, r) \/ PreExecFails(p, r) \/ ClaimLost(p, r) \/ PreExecRead(p, r)
           \/ PreExecFinalize(p, r) \/ FinalizeLost(p, r) \/ StopWatchdog(p, r)
  <2>1. pc'[p][r] \in {"idle", "stopping", "handler"} \cup BeforeClaim
    BY <1>1
    DEF Enter, PreExecFails, ClaimLost, PreExecRead, PreExecFinalize, FinalizeLost,
        StopWatchdog, Goto, AttemptTypeOK, BeforeClaim
  <2>2. QED
    BY <2>1, PlaceSilent DEF BeforeClaim
<1>2. CASE Claim(p, r)
  <2>1. pc'[p][r] = "stepTop" /\ at'[p][r] = 1
    BY <1>2 DEF Claim, Goto, AttemptTypeOK
  <2>2. runSteps'[r] = <<>> /\ summaries'[r] = {}
    BY <1>2 DEF Claim, Claimable, RowsOK, Row, ActiveRow, Untouched
  <2>3. AllSucceeded(0) = <<>>
    BY SuccessesGrow
  <2>4. BetweenSteps(p, r)'
    BY <2>1, <2>2, <2>3, SummariesGrow, PlanAssumption DEF BetweenSteps
  <2>5. QED
    BY <2>1, <2>4 DEF Place
<1>3. CASE StepTop(p, r)
  <2>1. status[r] = "running" /\ BetweenSteps(p, r)
    BY <1>3 DEF StepTop, WorkerOnly, dbVars, Place
  <2>2. UNCHANGED <<at[p][r], runSteps[r], summaries[r], cancelRequested[r]>>
    BY <1>3 DEF StepTop, WorkerOnly, dbVars
  <2>3. \/ pc'[p][r] \in {"finCancelled", "handler"}
        \/ pc'[p][r] = "finSucceeded" /\ at[p][r] > NumSteps
        \/ /\ pc'[p][r] = "summary" /\ at[p][r] <= NumSteps
           /\ at[p][r] \in SummarySteps /\ at[p][r] > 1
        \/ /\ pc'[p][r] = "heartbeat" /\ at[p][r] <= NumSteps
           /\ ~(at[p][r] \in SummarySteps /\ at[p][r] > 1)
    BY <1>3 DEF StepTop, Goto, AttemptTypeOK
  <2>4. CASE pc'[p][r] \in {"finCancelled", "handler"}
    BY <2>4, PlaceSilent
  <2>5. CASE pc'[p][r] = "finSucceeded" /\ at[p][r] > NumSteps
    <3>1. at[p][r] - 1 = NumSteps
      BY <2>1, <2>5, PlanAssumption DEF BetweenSteps
    <3>2. StepsComplete(r)'
      BY <2>1, <2>2, <3>1 DEF BetweenSteps, StepsComplete
    <3>3. QED
      BY <2>5, <3>2 DEF Place
  <2>6. CASE pc'[p][r] = "summary" /\ at[p][r] <= NumSteps
             /\ at[p][r] \in SummarySteps /\ at[p][r] > 1
    BY <2>1, <2>2, <2>6 DEF Place, BetweenSteps
  <2>7. CASE pc'[p][r] = "heartbeat" /\ at[p][r] <= NumSteps
             /\ ~(at[p][r] \in SummarySteps /\ at[p][r] > 1)
    <3>1. at[p][r] \in 1..NumSteps /\ at[p][r] \in Nat \ {0}
      BY <2>1, <2>7, PlanAssumption DEF BetweenSteps
    <3>2. SummarizedUpTo(at[p][r]) = SummarizedUpTo(at[p][r] - 1)
      BY <2>7, <3>1, SummariesGrow
    <3>3. InStep(p, r)'
      BY <2>1, <2>2, <3>1, <3>2 DEF BetweenSteps, InStep
    <3>4. QED
      BY <2>7, <3>3 DEF Place
  <2>8. QED
    BY <2>3, <2>4, <2>5, <2>6, <2>7
<1>4. CASE WriteSummary(p, r)
  <2>1. /\ status[r] = "running" /\ BetweenSteps(p, r)
        /\ at[p][r] <= NumSteps /\ at[p][r] > 1 /\ at[p][r] \in SummarySteps
    BY <1>4 DEF WriteSummary, Place
  <2>2. UNCHANGED <<at[p][r], runSteps[r], cancelRequested[r]>>
    BY <1>4 DEF WriteSummary
  <2>3. at[p][r] \in 1..NumSteps /\ at[p][r] \in Nat \ {0} /\ at[p][r] - 1 \in Nat
    BY <2>1, PlanAssumption DEF BetweenSteps
  <2>4. CASE pc'[p][r] = "handler"
    BY <2>4, PlaceSilent
  <2>5. CASE HoldsLease(r, lease[p][r]) /\ pc'[p][r] = "heartbeat"
             /\ summaries' = [summaries EXCEPT ![r] = @ \cup {Len(runSteps[r])}]
    <3>1. summaries'[r] = SummarizedUpTo(at[p][r])
      BY <2>1, <2>3, <2>5, SuccessesGrow, SummariesGrow DEF BetweenSteps, DatabaseTypeOK
    <3>2. InStep(p, r)'
      BY <2>1, <2>2, <2>3, <3>1 DEF BetweenSteps, InStep
    <3>3. QED
      BY <2>5, <3>2 DEF Place
  <2>6. CASE ~HoldsLease(r, lease[p][r]) /\ pc'[p][r] = "heartbeat"
    <3>1. generation[r] = 1 /\ lease[p][r] = 1
      BY <1>4, <2>1
      DEF WriteSummary, RowsOK, Row, ActiveRow, HeldIsClaimed, Held, Claimed
    <3>2. cancelRequested[r]
      BY <2>1, <2>6, <3>1 DEF HoldsLease, Owns
    <3>3. InStep(p, r)'
      BY <2>1, <2>2, <2>3, <3>2 DEF BetweenSteps, InStep
    <3>4. QED
      BY <2>6, <3>3 DEF Place
  <2>7. QED
    BY <1>4, <2>4, <2>5, <2>6 DEF WriteSummary, Goto, AttemptTypeOK
<1>5. CASE Heartbeat(p, r) \/ RunNode(p, r)
  <2>1. /\ status[r] = "running" /\ InStep(p, r)
        /\ UNCHANGED <<at[p][r], runSteps[r], summaries[r], cancelRequested[r]>>
    BY <1>5 DEF Heartbeat, RunNode, WorkerOnly, dbVars, Place
  <2>2. pc'[p][r] \in {"node", "persist", "stopping", "finInterrupted"}
    BY <1>5 DEF Heartbeat, RunNode, Goto, AttemptTypeOK
  <2>3. QED
    BY <2>1, <2>2 DEF Place, InStep
<1>6. CASE Persist(p, r)
  <2>1. status[r] = "running" /\ InStep(p, r)
    BY <1>6 DEF Persist, Place
  <2>2. pc'[p][r] \in {"publish", "finCancelled", "stopping", "handler"}
    BY <1>6 DEF Persist, Goto, AttemptTypeOK
  <2>3. CASE pc'[p][r] = "publish"
    <3>1. HoldsLease(r, lease[p][r]) /\ runSteps'[r] = Append(runSteps[r], outcome[p][r])
      BY <1>6, <2>3 DEF Persist, Goto, AttemptTypeOK, DatabaseTypeOK
    <3>2. UNCHANGED <<at[p][r], outcome[p][r], summaries[r]>>
      BY <1>6 DEF Persist
    <3>3. StepRecorded(p, r)'
      BY <2>1, <3>1, <3>2 DEF InStep, HoldsLease, StepRecorded
    <3>4. QED
      BY <2>3, <3>3 DEF Place
  <2>4. QED
    BY <2>2, <2>3, PlaceSilent
<1>7. CASE PublishArtifacts(p, r)
  <2>1. /\ status[r] = "running" /\ StepRecorded(p, r)
        /\ UNCHANGED <<runSteps[r], summaries[r]>>
    BY <1>7 DEF PublishArtifacts, WorkerOnly, dbVars, Place
  <2>2. \/ pc'[p][r] \in {"finFailed", "handler"}
        \/ /\ pc'[p][r] = "stepTop" /\ outcome[p][r] = "succeeded"
           /\ at'[p][r] = at[p][r] + 1
    BY <1>7 DEF PublishArtifacts, Goto, AttemptTypeOK
  <2>3. CASE pc'[p][r] = "stepTop" /\ outcome[p][r] = "succeeded"
             /\ at'[p][r] = at[p][r] + 1
    <3>1. at[p][r] \in 1..NumSteps /\ at[p][r] - 1 \in Nat /\ at[p][r] - 1 + 1 = at[p][r]
      BY <2>1, PlanAssumption DEF StepRecorded
    <3>2. runSteps'[r] = AllSucceeded(at[p][r])
      BY <2>1, <2>3, <3>1, SuccessesGrow DEF StepRecorded
    <3>3. at'[p][r] \in 1..NumSteps + 1 /\ at'[p][r] - 1 = at[p][r]
      BY <2>3, <3>1, PlanAssumption
    <3>4. BetweenSteps(p, r)'
      BY <2>1, <3>2, <3>3 DEF StepRecorded, BetweenSteps
    <3>5. QED
      BY <2>3, <3>4 DEF Place
  <2>4. QED
    BY <2>2, <2>3, PlaceSilent
<1>8. CASE Finalize(p, r)
  <2>1. pc'[p][r] \in {"stopping", "handler"}
    BY <1>8 DEF Finalize, Goto, AttemptTypeOK
  <2>2. QED
    BY <2>1, PlaceSilent
<1>9. QED
  BY <1>1, <1>2, <1>3, <1>4, <1>5, <1>6, <1>7, <1>8 DEF Work

(* The step of another attempt, of this run or of another one.             *)
LEMMA OtherPlace ==
  ASSUME TypeOK, HeldIsClaimed, HeldOnce,
         NEW p \in Processes, NEW r \in Runs, Work(p, r),
         NEW q \in Processes, NEW s \in Runs, q # p \/ s # r,
         status[s] = "running" => Place(q, s), status'[s] = "running"
  PROVE  Place(q, s)'
<1>1. UNCHANGED <<pc[q][s], at[q][s], outcome[q][s]>>
  <2>1. \E label : Goto(p, r, label)
    BY DEF Work, Enter, PreExecFails, Claim, ClaimLost, PreExecRead, PreExecFinalize, StepTop,
           WriteSummary, Heartbeat, RunNode, Persist, PublishArtifacts, Finalize,
           FinalizeLost, StopWatchdog
  <2>2. UNCHANGED <<at[q][s], outcome[q][s]>>
    <3>1. CASE Claim(p, r) \/ RunNode(p, r) \/ PublishArtifacts(p, r)
      BY <3>1 DEF Claim, RunNode, PublishArtifacts, TypeOK, AttemptTypeOK
    <3>2. CASE StopWatchdog(p, r)
      BY <3>2 DEF StopWatchdog, TypeOK, AttemptTypeOK
    <3>3. CASE \/ Enter(p, r) \/ PreExecFails(p, r) \/ ClaimLost(p, r) \/ PreExecRead(p, r)
               \/ PreExecFinalize(p, r) \/ StepTop(p, r) \/ WriteSummary(p, r)
               \/ Heartbeat(p, r) \/ Persist(p, r) \/ Finalize(p, r) \/ FinalizeLost(p, r)
      BY <3>3
      DEF Enter, PreExecFails, ClaimLost, PreExecRead, PreExecFinalize, StepTop,
          WriteSummary, Heartbeat, Persist, Finalize, FinalizeLost
    <3>4. QED
      BY <3>1, <3>2, <3>3 DEF Work
  <2>3. pc'[q][s] = pc[q][s]
    BY <2>1 DEF Goto, TypeOK, AttemptTypeOK
  <2>4. QED
    BY <2>2, <2>3
<1>2. CASE ~Held(q, s)
  BY <1>1, <1>2, PlaceSilent DEF Held, Claimed, Finalizing
<1>3. CASE s # r
  BY <1>1, <1>3, OtherRowsStay, PlaceKept DEF RowsKept
<1>4. CASE Held(q, s) /\ s = r
  <2>1. ~Held(p, r) /\ status[r] # "submitted"
    BY <1>4 DEF HeldOnce, HeldIsClaimed
  <2>2. \/ Enter(p, r) \/ PreExecFails(p, r) \/ ClaimLost(p, r) \/ PreExecRead(p, r)
        \/ PreExecFinalize(p, r)
    BY <2>1
    DEF Work, Claim, Claimable, StepTop, WriteSummary, Heartbeat, RunNode, Persist,
        PublishArtifacts, Finalize, FinalizeCancelled, FinalizeSucceeded, FinalizeFailed,
        FinalizeInterrupted, FinalizeLost, StopWatchdog, Held, Claimed, Finalizing
  <2>3. RowsStay(r)
    BY <2>2, QuietRowsStay, TerminalizedRowsStay
    DEF Enter, PreExecFails, ClaimLost, PreExecRead, PreExecFinalize, WorkerOnly, Terminal
  <2>4. QED
    BY <1>1, <1>4, <2>3, PlaceKept DEF RowsStay
<1>5. QED
  BY <1>2, <1>3, <1>4

(* A step that is not one of an attempt.                                   *)
LEMMA PlaceStays ==
  ASSUME TypeOK, NEW q \in Processes, NEW s \in Runs, RowsStay(s),
         \/ UNCHANGED <<pc[q][s], at[q][s], outcome[q][s]>>
         \/ pc'[q][s] \in {"idle", "entered"},
         status[s] = "running" => Place(q, s), status'[s] = "running"
  PROVE  Place(q, s)'
BY PlaceKept, PlaceSilent DEF RowsStay

(* Every step keeps every attempt in its place.                            *)
LEMMA PlacesPreserved ==
  ASSUME TypeOK, RowsOK, HeldIsClaimed, HeldOnce, Untouched, PlacesOK, [Next]_vars
  PROVE  PlacesOK'
<1> SUFFICES ASSUME NEW q \in Processes, NEW s \in Runs, status'[s] = "running"
             PROVE  Place(q, s)'
  BY DEF PlacesOK
<1>1. status[s] = "running" => Place(q, s)
  BY DEF PlacesOK
<1>2. ASSUME NEW p \in Processes, NEW r \in Runs, Work(p, r)
      PROVE  Place(q, s)'
  BY <1>1, <1>2, OwnPlace, OtherPlace
<1>3. ASSUME \/ \E p \in Processes :
                  \/ SubmitScan(p) \/ Submit(p)
                  \/ RecoverScan(p) \/ RecoverOne(p) \/ RecoverSkips(p)
                  \/ Start(p) \/ ReconcileOne(p) \/ Serve(p) \/ Shutdown(p) \/ Exit(p)
             \/ \E r \in Runs : CancelSubmitted(r) \/ CancelRunning(r)
             \/ \E p \in Processes, r \in Runs : Take(p, r) \/ Watch(p, r)
             \/ Tick \/ UNCHANGED vars
      PROVE  Place(q, s)'
  <2>1. RowsStay(s)
    BY <1>3, ServerRowsStay
  <2>2. ASSUME NEW p \in Processes, SubmitDispatch(p)
        PROVE  \/ UNCHANGED <<pc[q][s], at[q][s], outcome[q][s]>>
               \/ pc'[q][s] \in {"idle", "entered"}
    <3>1. UNCHANGED <<at, outcome>>
      BY <2>2 DEF SubmitDispatch
    <3>2. PICK r \in Runs : UNCHANGED pc \/ Goto(p, r, "entered")
      BY <2>2 DEF SubmitDispatch, TypeOK, ProcessTypeOK
    <3>3. pc \in [Processes -> [Runs -> {"idle"} \cup BeforeClaim \cup Claimed]]
      BY DEF TypeOK, AttemptTypeOK
    <3>4. pc'[q][s] = pc[q][s] \/ pc'[q][s] = "entered"
      BY <3>2, <3>3 DEF Goto
    <3>5. QED
      BY <3>1, <3>4
  <2>3. ASSUME NEW p \in Processes, NEW r \in Runs, Take(p, r)
        PROVE  \/ UNCHANGED <<pc[q][s], at[q][s], outcome[q][s]>>
               \/ pc'[q][s] \in {"idle", "entered"}
    BY <2>3 DEF Take, Goto, TypeOK, AttemptTypeOK
  <2>4. ASSUME NEW p \in Processes, Exit(p)
        PROVE  \/ UNCHANGED <<pc[q][s], at[q][s], outcome[q][s]>>
               \/ pc'[q][s] \in {"idle", "entered"}
    BY <2>4 DEF Exit, TypeOK, AttemptTypeOK
  <2>5. ASSUME \/ \E p \in Processes :
                    \/ SubmitScan(p) \/ SubmitSweep(p) \/ SubmitCreate(p) \/ SubmitRefused(p)
                    \/ SubmitDispatchFails(p)
                    \/ RecoverScan(p) \/ RecoverOne(p) \/ RecoverSkips(p)
                    \/ Start(p) \/ ReconcileOne(p) \/ Serve(p) \/ Shutdown(p)
               \/ \E r \in Runs : CancelSubmitted(r) \/ CancelRunning(r)
               \/ \E p \in Processes, r \in Runs : Watch(p, r)
               \/ Tick \/ UNCHANGED vars
        PROVE  UNCHANGED <<pc[q][s], at[q][s], outcome[q][s]>>
    <3>1. UNCHANGED workerVars
      BY <2>5
      DEF SubmitScan, SubmitSweep, SubmitCreate, SubmitRefused, SubmitDispatchFails,
          RecoverScan, RecoverOne, RecoverSkips, Start, ReconcileOne, Serve, Shutdown,
          CancelSubmitted, CancelRunning, Watch, WatchdogBeat, WatchdogTerminalize,
          WatchdogOnly, Tick, vars
    <3>2. QED
      BY <3>1 DEF workerVars
  <2>6. \/ UNCHANGED <<pc[q][s], at[q][s], outcome[q][s]>>
        \/ pc'[q][s] \in {"idle", "entered"}
    BY <1>3, <2>2, <2>3, <2>4, <2>5 DEF Submit
  <2>7. QED
    BY <1>1, <2>1, <2>6, PlaceStays
<1>4. QED
  BY <1>2, <1>3 DEF Next

LEMMA UntouchedPreserved ==
  ASSUME TypeOK, RowsOK, Untouched, OneTransaction
  PROVE  Untouched'
<1> SUFFICES ASSUME NEW q \in Runs, status'[q] \in {"absent", "submitted"}
             PROVE  summaries'[q] = {} /\ ~cancelRequested'[q]
  BY DEF Untouched
<1>1. CASE UNCHANGED dbVars
  BY <1>1 DEF Untouched, dbVars
<1>2. ASSUME NEW r \in Runs, Transaction(r)
      PROVE  summaries'[q] = {} /\ ~cancelRequested'[q]
  BY <1>2
  DEF Untouched, Transaction, Created, Started, Withdrawn, CancelAsked, Renewed, Summarized,
      Recorded, Ended, Forgotten, Terminalize, Terminal, TypeOK, DatabaseTypeOK
<1>3. QED
  BY <1>1, <1>2 DEF OneTransaction

-----------------------------------------------------------------------------
(* What a run says that succeeded.                                         *)

Complete(r) ==
  /\ runSteps[r] = [i \in 1..NumSteps |-> "succeeded"]
  /\ summaries[r] = {s - 1 : s \in {q \in SummarySteps : q > 1 /\ q <= NumSteps}}
  /\ ~cancelRequested[r]

(* A step of the attempt of a run, or of another attempt of the same run,  *)
(* lets it succeed when it is complete, and does not disturb it then.      *)
LEMMA OwnSuccess ==
  ASSUME TypeOK, NEW p \in Processes, NEW r \in Runs, Work(p, r),
         status[r] = "running" => Place(p, r),
         status[r] = "succeeded" => Complete(r), status'[r] = "succeeded"
  PROVE  Complete(r)'
<1>1. CASE UNCHANGED dbVars
  BY <1>1 DEF dbVars, Complete
<1>2. CASE Claim(p, r)
  BY <1>2 DEF Claim, TypeOK, DatabaseTypeOK
<1>3. CASE WriteSummary(p, r) \/ Heartbeat(p, r) \/ Persist(p, r)
  <2>1. status[r] = "succeeded"
    BY <1>3 DEF WriteSummary, Heartbeat, Persist
  <2>2. UNCHANGED <<runSteps, summaries, cancelRequested>>
    BY <1>3, <2>1 DEF WriteSummary, Heartbeat, Persist, HoldsLease, Owns
  <2>3. QED
    BY <2>1, <2>2 DEF Complete
<1>4. CASE PreExecFinalize(p, r)
  <2>1. RowsStay(r)
    BY <1>4, QuietRowsStay, TerminalizedRowsStay DEF PreExecFinalize, Terminal
  <2>2. QED
    BY <2>1 DEF RowsStay, RowsKept, Complete
<1>5. CASE Finalize(p, r)
  <2>1. CASE FinalizeCancelled(p, r) \/ FinalizeFailed(p, r) \/ FinalizeInterrupted(p, r)
    BY <2>1
    DEF FinalizeCancelled, FinalizeFailed, FinalizeInterrupted, Terminalize, TypeOK,
        DatabaseTypeOK
  <2>2. CASE FinalizeSucceeded(p, r)
    <3>1. HoldsLease(r, lease[p][r]) /\ Terminalize(r, "succeeded", {})
      BY <2>2 DEF FinalizeSucceeded, Terminalize, TypeOK, DatabaseTypeOK
    <3>2. StepsComplete(r) /\ ~cancelRequested[r]
      BY <2>2, <3>1 DEF FinalizeSucceeded, HoldsLease, Owns, Place
    <3>3. QED
      BY <3>1, <3>2 DEF Terminalize, StepsComplete, AllSucceeded, SummarizedUpTo, Complete
  <2>3. QED
    BY <1>5, <2>1, <2>2 DEF Finalize
<1>6. QED
  BY <1>1, <1>2, <1>3, <1>4, <1>5
  DEF Work, Enter, PreExecFails, ClaimLost, PreExecRead, StepTop, RunNode, PublishArtifacts,
      FinalizeLost, StopWatchdog, WorkerOnly

LEMMA SuccessPreserved ==
  ASSUME TypeOK, PlacesOK, SuccessIsComplete, [Next]_vars
  PROVE  SuccessIsComplete'
<1> SUFFICES ASSUME NEW s \in Runs, status'[s] = "succeeded"
             PROVE  Complete(s)'
  BY DEF SuccessIsComplete, Complete
<1>1. status[s] = "succeeded" => Complete(s)
  BY DEF SuccessIsComplete, Complete
<1>2. ASSUME NEW p \in Processes, NEW r \in Runs, Work(p, r)
      PROVE  Complete(s)'
  <2>1. CASE s = r
    BY <1>1, <1>2, <2>1, OwnSuccess DEF PlacesOK
  <2>2. CASE s # r
    BY <1>1, <1>2, <2>2, OtherRowsStay DEF Complete
  <2>3. QED
    BY <2>1, <2>2
<1>3. CASE RowsStay(s)
  BY <1>1, <1>3 DEF RowsStay, RowsKept, Complete
<1>4. QED
  BY <1>2, <1>3, ServerRowsStay DEF Next

LEMMA SuccessInvariant == Spec => []SuccessOK
<1>1. Init => SuccessOK
  BY DEF Init, SuccessOK, PlacesOK, Untouched, SuccessIsComplete
<1>2. /\ TypeOK /\ RowsOK /\ HeldIsClaimed /\ HeldOnce /\ SuccessOK /\ [Next]_vars
      => SuccessOK'
  BY PlacesPreserved, UntouchedPreserved, SuccessPreserved, StepIsTransaction DEF SuccessOK
<1>3. QED
  BY <1>1, <1>2, TypeCorrect, RowsCorrect, Ownership, PTL DEF Spec

(* A run succeeds only when every step of its plan version has succeeded   *)
(* and been recorded, every technical manifest saw a summary of the steps  *)
(* before it, and nobody had asked for its cancellation.                   *)
THEOREM SuccessStaysComplete == Spec => []SuccessIsComplete
BY SuccessInvariant, PTL DEF SuccessOK

-----------------------------------------------------------------------------
(* The steps of RunContract.                                               *)

(* An attempt that is about to cancel its run has read the request, which  *)
(* is never taken back.                                                    *)
CancelWasAsked == \A p \in Processes, r \in Runs :
  pc[p][r] \in {"preCancelled", "finCancelled"} => cancelRequested[r]

LEMMA RequestsStay ==
  ASSUME TypeOK, OneTransaction, NEW r \in Runs, cancelRequested[r]
  PROVE  cancelRequested'[r]
<1>1. CASE UNCHANGED dbVars
  BY <1>1 DEF dbVars
<1>2. ASSUME NEW q \in Runs, Transaction(q)
      PROVE  cancelRequested'[r]
  BY <1>2
  DEF Transaction, Created, Started, Withdrawn, CancelAsked, Renewed, Summarized, Recorded,
      Ended, Forgotten, Terminalize, TypeOK, DatabaseTypeOK
<1>3. QED
  BY <1>1, <1>2 DEF OneTransaction

LEMMA CancelWasAskedPreserved ==
  ASSUME TypeOK, RowsOK, HeldIsClaimed, CancelWasAsked, [Next]_vars
  PROVE  CancelWasAsked'
<1> SUFFICES ASSUME NEW q \in Processes, NEW s \in Runs,
                    pc'[q][s] \in {"preCancelled", "finCancelled"}
             PROVE  cancelRequested'[s]
  BY DEF CancelWasAsked
<1>1. OneTransaction
  BY StepIsTransaction
<1>2. CASE pc[q][s] = pc'[q][s]
  BY <1>1, <1>2, RequestsStay DEF CancelWasAsked
<1>3. ASSUME NEW p \in Processes, NEW r \in Runs, Work(p, r), pc[q][s] # pc'[q][s]
      PROVE  cancelRequested'[s]
  <2>1. q = p /\ s = r
    <3>1. \E label : Goto(p, r, label)
      BY <1>3
      DEF Work, Enter, PreExecFails, Claim, ClaimLost, PreExecRead, PreExecFinalize, StepTop,
          WriteSummary, Heartbeat, RunNode, Persist, PublishArtifacts, Finalize,
          FinalizeLost, StopWatchdog
    <3>2. QED
      BY <1>3, <3>1 DEF Goto, TypeOK, AttemptTypeOK
  <2>2. PreExecRead(p, r) \/ StepTop(p, r) \/ Persist(p, r)
    BY <1>3, <2>1
    DEF Work, Enter, PreExecFails, Claim, ClaimLost, PreExecFinalize, WriteSummary,
        Heartbeat, RunNode, PublishArtifacts, Finalize, FinalizeLost, StopWatchdog, Goto,
        TypeOK, AttemptTypeOK
  <2>3. cancelRequested[r]
    BY <2>1, <2>2 DEF PreExecRead, StepTop, Persist, Goto, TypeOK, AttemptTypeOK
  <2>4. QED
    BY <1>1, <2>1, <2>3, RequestsStay
<1>4. ASSUME NEW p \in Processes, SubmitDispatch(p)
      PROVE  pc[q][s] = pc'[q][s]
  <2>1. PICK r \in Runs : UNCHANGED pc \/ Goto(p, r, "entered")
    BY <1>4 DEF SubmitDispatch, TypeOK, ProcessTypeOK
  <2>2. pc \in [Processes -> [Runs -> {"idle"} \cup BeforeClaim \cup Claimed]]
    BY DEF TypeOK, AttemptTypeOK
  <2>3. pc'[q][s] = pc[q][s] \/ pc'[q][s] = "entered"
    BY <2>1, <2>2 DEF Goto
  <2>4. QED
    BY <2>3
<1>5. ASSUME NEW p \in Processes, NEW r \in Runs, Take(p, r)
      PROVE  pc[q][s] = pc'[q][s]
  BY <1>5 DEF Take, Goto, TypeOK, AttemptTypeOK
<1>6. ASSUME NEW p \in Processes, Exit(p)
      PROVE  pc[q][s] = pc'[q][s]
  BY <1>6 DEF Exit, TypeOK, AttemptTypeOK
<1>7. ASSUME \/ \E p \in Processes :
                  \/ SubmitScan(p) \/ SubmitSweep(p) \/ SubmitCreate(p) \/ SubmitRefused(p)
                  \/ SubmitDispatchFails(p)
                  \/ RecoverScan(p) \/ RecoverOne(p) \/ RecoverSkips(p)
                  \/ Start(p) \/ ReconcileOne(p) \/ Serve(p) \/ Shutdown(p)
             \/ \E r \in Runs : CancelSubmitted(r) \/ CancelRunning(r)
             \/ \E p \in Processes, r \in Runs : Watch(p, r)
             \/ Tick \/ UNCHANGED vars
      PROVE  pc[q][s] = pc'[q][s]
  <2>1. UNCHANGED workerVars
    BY <1>7
    DEF SubmitScan, SubmitSweep, SubmitCreate, SubmitRefused, SubmitDispatchFails,
        RecoverScan, RecoverOne, RecoverSkips, Start, ReconcileOne, Serve, Shutdown,
        CancelSubmitted, CancelRunning, Watch, WatchdogBeat, WatchdogTerminalize,
        WatchdogOnly, Tick, vars
  <2>2. QED
    BY <2>1 DEF workerVars
<1>8. QED
  BY <1>2, <1>3, <1>4, <1>5, <1>6, <1>7 DEF Next, Submit

ContractStep == [Contract!Next]_Contract!vars

LEMMA ContractStutters ==
  ASSUME UNCHANGED <<status, runSteps, cancelRequested, manifests>>
  PROVE  ContractStep
BY DEF ContractStep, Contract!vars

LEMMA ContractDatabaseStutters ==
  ASSUME UNCHANGED dbVars
  PROVE  ContractStep
BY ContractStutters DEF dbVars

(* FinalizeRun's transaction is Finish, when the run may end this way.     *)
LEMMA TerminalizeFinishes ==
  ASSUME TypeOK, NEW r \in Runs, NEW target, NEW codes, Terminalize(r, target, codes),
         \/ /\ target = "succeeded" /\ status[r] = "running" /\ ~cancelRequested[r]
            /\ StepsComplete(r)
         \/ target = "cancelled" /\ status[r] = "running" /\ cancelRequested[r]
         \/ target = "failed" /\ IsActive(r)
         \/ target = "interrupted" /\ status[r] = "running"
  PROVE  ContractStep
<1>1. /\ status' = [status EXCEPT ![r] = target]
      /\ manifests' = [manifests EXCEPT ![r] =
                         Append(@, [status |-> status'[r], steps |-> runSteps[r]])]
      /\ UNCHANGED <<runSteps, cancelRequested>>
  BY DEF Terminalize, TypeOK, DatabaseTypeOK
<1>2. target = "succeeded" =>
        Len(runSteps[r]) = NumSteps /\ Contract!AllSucceeded(runSteps[r])
  <2>1. Len(AllSucceeded(NumSteps)) = NumSteps
    BY SuccessesGrow, PlanAssumption
  <2>2. Contract!AllSucceeded(AllSucceeded(NumSteps))
    BY DEF Contract!AllSucceeded, AllSucceeded
  <2>3. QED
    BY <2>1, <2>2 DEF StepsComplete
<1>3. Contract!Finish(r)
  BY <1>1, <1>2 DEF Contract!Finish, Contract!Becomes, IsActive, Active
<1>4. QED
  BY <1>3 DEF ContractStep, Contract!Next

LEMMA InterruptFinishes ==
  ASSUME TypeOK, NEW r \in Runs, NEW hb, InterruptIfStill(r, hb)
  PROVE  ContractStep
BY TerminalizeFinishes, ContractDatabaseStutters DEF InterruptIfStill, StillObserved

LEMMA PersistRecords ==
  ASSUME TypeOK, PlacesOK, NEW p \in Processes, NEW r \in Runs, Persist(p, r)
  PROVE  ContractStep
<1>1. CASE UNCHANGED runSteps
  BY <1>1, ContractStutters DEF Persist
<1>2. CASE /\ HoldsLease(r, lease[p][r])
           /\ runSteps' = [runSteps EXCEPT ![r] = Append(@, outcome[p][r])]
  <2>1. status[r] = "running" /\ ~cancelRequested[r]
    BY <1>2 DEF HoldsLease, Owns
  <2>2. InStep(p, r)
    BY <2>1 DEF Persist, PlacesOK, Place
  <2>3. at[p][r] - 1 \in Nat /\ at[p][r] - 1 < NumSteps
    BY <2>2, PlanAssumption DEF InStep
  <2>4. Len(runSteps[r]) < NumSteps
    BY <2>2, <2>3, SuccessesGrow DEF InStep
  <2>5. Contract!AllSucceeded(runSteps[r])
    BY <2>2 DEF InStep, Contract!AllSucceeded, AllSucceeded
  <2>6. outcome[p][r] \in {"succeeded", "failed"}
    BY DEF TypeOK, AttemptTypeOK, StepStatus
  <2>7. Contract!Record(r)
    BY <1>2, <2>1, <2>4, <2>5, <2>6 DEF Persist, Contract!Record
  <2>8. QED
    BY <2>7 DEF ContractStep, Contract!Next
<1>3. QED
  BY <1>1, <1>2 DEF Persist

LEMMA FinalizeFinishes ==
  ASSUME TypeOK, HeldIsClaimed, PlacesOK, CancelWasAsked,
         NEW p \in Processes, NEW r \in Runs, Finalize(p, r)
  PROVE  ContractStep
<1>1. Held(p, r)
  BY DEF Finalize, FinalizeCancelled, FinalizeSucceeded, FinalizeFailed, FinalizeInterrupted,
         Held, Claimed, Finalizing
<1>2. status[r] # "submitted"
  BY <1>1 DEF HeldIsClaimed
<1>3. CASE FinalizeCancelled(p, r)
  BY <1>2, <1>3, TerminalizeFinishes DEF FinalizeCancelled, CancelWasAsked, IsActive, Active
<1>4. CASE FinalizeSucceeded(p, r)
  <2>1. CASE HoldsLease(r, lease[p][r]) /\ Terminalize(r, "succeeded", {})
    <3>1. StepsComplete(r)
      BY <1>4, <2>1 DEF FinalizeSucceeded, HoldsLease, Owns, PlacesOK, Place
    <3>2. QED
      BY <2>1, <3>1, TerminalizeFinishes DEF HoldsLease, Owns
  <2>2. CASE cancelRequested[r] /\ IsActive(r) /\ Terminalize(r, "cancelled", {})
    BY <1>2, <2>2, TerminalizeFinishes DEF IsActive, Active
  <2>3. QED
    BY <1>4, <2>1, <2>2 DEF FinalizeSucceeded
<1>5. CASE FinalizeFailed(p, r)
  BY <1>5, TerminalizeFinishes DEF FinalizeFailed, Owns, IsActive, Active
<1>6. CASE FinalizeInterrupted(p, r)
  BY <1>6, TerminalizeFinishes DEF FinalizeInterrupted, Owns
<1>7. QED
  BY <1>3, <1>4, <1>5, <1>6 DEF Finalize

LEMMA PreExecFinishes ==
  ASSUME TypeOK, Untouched, CancelWasAsked,
         NEW p \in Processes, NEW r \in Runs, PreExecFinalize(p, r)
  PROVE  ContractStep
<1>1. CASE pc[p][r] = "preCancelled" /\ IsActive(r) /\ Terminalize(r, "cancelled", {})
  <2>1. cancelRequested[r] /\ status[r] = "running"
    BY <1>1 DEF CancelWasAsked, Untouched, IsActive, Active
  <2>2. QED
    BY <1>1, <2>1, TerminalizeFinishes
<1>2. CASE IsActive(r) /\ Terminalize(r, "failed", {"RUN_VALIDATION_FAILED"})
  BY <1>2, TerminalizeFinishes
<1>3. QED
  BY <1>1, <1>2, ContractDatabaseStutters DEF PreExecFinalize

LEMMA ServerKeepsContract ==
  ASSUME TypeOK,
         \/ \E p \in Processes :
              \/ SubmitScan(p) \/ Submit(p)
              \/ RecoverScan(p) \/ RecoverOne(p) \/ RecoverSkips(p)
              \/ Start(p) \/ ReconcileOne(p) \/ Serve(p) \/ Shutdown(p) \/ Exit(p)
         \/ \E r \in Runs : CancelSubmitted(r) \/ CancelRunning(r)
         \/ Tick \/ UNCHANGED vars
  PROVE  ContractStep
<1>1. ASSUME NEW p \in Processes, SubmitSweep(p) \/ RecoverOne(p)
      PROVE  ContractStep
  <2>1. PICK o \in submission[p].observed \cup sweep[p] : InterruptIfStill(o[1], o[2])
    BY <1>1 DEF SubmitSweep, RecoverOne
  <2>2. o[1] \in Runs
    BY DEF TypeOK, ProcessTypeOK, Submission, Observation
  <2>3. QED
    BY <2>1, <2>2, InterruptFinishes
<1>2. ASSUME NEW p \in Processes, SubmitCreate(p)
      PROVE  ContractStep
  BY <1>2
  DEF SubmitCreate, ContractStep, Contract!Next, Contract!Submit, Contract!Becomes
<1>3. ASSUME NEW p \in Processes, SubmitDispatchFails(p)
      PROVE  ContractStep
  <2>1. submission[p].run \in Runs
    BY <1>3 DEF SubmitDispatchFails, TypeOK, ProcessTypeOK
  <2>2. QED
    BY <1>3, <2>1, TerminalizeFinishes, ContractDatabaseStutters DEF SubmitDispatchFails
<1>4. ASSUME NEW p \in Processes, ReconcileOne(p)
      PROVE  ContractStep
  BY <1>4, ContractStutters DEF ReconcileOne
<1>5. ASSUME NEW r \in Runs, CancelSubmitted(r)
      PROVE  ContractStep
  BY <1>5
  DEF CancelSubmitted, ContractStep, Contract!Next, Contract!Withdraw, Contract!Becomes
<1>6. ASSUME NEW r \in Runs, CancelRunning(r)
      PROVE  ContractStep
  BY <1>6 DEF CancelRunning, ContractStep, Contract!Next, Contract!RequestCancel
<1>7. ASSUME \/ \E p \in Processes :
                  \/ SubmitScan(p) \/ SubmitRefused(p) \/ SubmitDispatch(p)
                  \/ RecoverScan(p) \/ RecoverSkips(p)
                  \/ Start(p) \/ Serve(p) \/ Shutdown(p) \/ Exit(p)
             \/ Tick \/ UNCHANGED vars
      PROVE  ContractStep
  BY <1>7, ContractDatabaseStutters
  DEF SubmitScan, SubmitRefused, SubmitDispatch, RecoverScan, RecoverSkips, Start, Serve,
      Shutdown, Exit, Tick, vars
<1>8. QED
  BY <1>1, <1>2, <1>3, <1>4, <1>5, <1>6, <1>7 DEF Submit

LEMMA AttemptKeepsContract ==
  ASSUME TypeOK, HeldIsClaimed, SuccessOK, CancelWasAsked,
         NEW p \in Processes, NEW r \in Runs, Take(p, r) \/ Work(p, r) \/ Watch(p, r)
  PROVE  ContractStep
<1> USE DEF SuccessOK
<1>1. CASE \/ Take(p, r) \/ Enter(p, r) \/ PreExecFails(p, r) \/ ClaimLost(p, r)
           \/ PreExecRead(p, r) \/ StepTop(p, r) \/ RunNode(p, r)
           \/ PublishArtifacts(p, r) \/ FinalizeLost(p, r) \/ StopWatchdog(p, r)
  BY <1>1, ContractDatabaseStutters
  DEF Take, Enter, PreExecFails, ClaimLost, PreExecRead, StepTop, RunNode,
      PublishArtifacts, FinalizeLost, StopWatchdog, WorkerOnly
<1>2. CASE Claim(p, r)
  BY <1>2
  DEF Claim, Claimable, ContractStep, Contract!Next, Contract!Start, Contract!Becomes
<1>3. CASE WriteSummary(p, r) \/ Heartbeat(p, r) \/ WatchdogBeat(p, r)
  BY <1>3, ContractStutters DEF WriteSummary, Heartbeat, WatchdogBeat
<1>4. CASE PreExecFinalize(p, r) \/ Persist(p, r) \/ Finalize(p, r)
  BY <1>4, PreExecFinishes, PersistRecords, FinalizeFinishes
<1>5. CASE WatchdogTerminalize(p, r)
  BY <1>5, TerminalizeFinishes, ContractDatabaseStutters DEF WatchdogTerminalize, Owns
<1>6. QED
  BY <1>1, <1>2, <1>3, <1>4, <1>5 DEF Work, Watch

(* Whatever threads of whatever processes do, each of their steps is a     *)
(* step of RunContract on one run, or none.                                *)
THEOREM LifecycleKeepsContract == Spec => ImplementsContract
<1>1. Init => Contract!Init
  BY DEF Init, Contract!Init
<1>2. Init => CancelWasAsked
  BY DEF Init, CancelWasAsked
<1>3. TypeOK /\ RowsOK /\ HeldIsClaimed /\ CancelWasAsked /\ [Next]_vars => CancelWasAsked'
  BY CancelWasAskedPreserved
<1>4. TypeOK /\ HeldIsClaimed /\ SuccessOK /\ CancelWasAsked /\ [Next]_vars
      => [Contract!Next]_Contract!vars
  BY ServerKeepsContract, AttemptKeepsContract DEF Next, ContractStep
<1>5. QED
  BY <1>1, <1>2, <1>3, <1>4, TypeCorrect, RowsCorrect, Ownership, SuccessInvariant, PTL
  DEF Spec, ImplementsContract, Contract!Spec

==================================================================================
