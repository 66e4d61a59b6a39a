-------------------------- MODULE PlanVersionsProofs --------------------------
(***************************************************************************)
(* Theorems about PlanVersions, for every number of versions, runs and     *)
(* target columns.  PlanOK joins the invariants: that a committed version  *)
(* is ready needs that the open one which is committed has one target, and *)
(* what a manifest says needs that the version of its run is committed.    *)
(***************************************************************************)
EXTENDS PlanVersions, TLAPS

USE ColumnAssumption, VersionAssumption, StepAssumption

(* A run is of a committed version, and what its worker has read is what   *)
(* the version still says.                                                 *)
RunsOK == \A r \in Runs :
  /\ runOf[r] # None => stage[runOf[r]] = "committed"
  /\ executed[r] # None =>
       /\ runOf[r] # None
       /\ executed[r] = [params |-> params[runOf[r]], hashes |-> hashes[runOf[r]]]
  /\ manifest[r] # None => executed[r] # None

PlanOK == TypeOK /\ TargetsAgree /\ HashesAgree /\ CommittedIsReady /\ RunsOK /\ ManifestAgrees

-----------------------------------------------------------------------------
(* The operators on the parameters of a version.                           *)

LEMMA ConfiguredType ==
  ASSUME NEW t \in Columns \cup {Blank}, NEW config \in [Steps -> SUBSET Facts]
  PROVE  /\ Configured(t, config) \in PlanParams
         /\ \A s \in TargetSteps : Configured(t, config)[s].target = t
BY DEF Configured, PlanParams, StepParams, Steps, TargetSteps

LEMMA TemplateType ==
  Template \in PlanParams /\ \A s \in TargetSteps : Template[s].target = Default
BY ConfiguredType DEF Template

LEMMA BinningEditedType ==
  ASSUME NEW s \in Steps, NEW p \in StepParams, NEW overrides \in OverrideSets
  PROVE  /\ BinningEdited(s, p, overrides) \in StepParams
         /\ BinningEdited(s, p, overrides).target = p.target
BY DEF BinningEdited, StepParams, OverrideSets, Facts

LEMMA RequestedType ==
  ASSUME NEW s \in Steps, NEW new \in Requested(s)
  PROVE  new \in StepParams
BY DEF Requested, StepParams, OwnFacts, Facts

LEMMA WithTargetType ==
  ASSUME NEW p \in PlanParams, NEW s \in Steps, NEW new \in StepParams
  PROVE  /\ WithTarget(p, s, new) \in PlanParams
         /\ WithTarget(p, s, new)[s] = new
         /\ \A o \in Steps \ {s} : WithTarget(p, s, new)[o].facts = p[o].facts
         /\ \A o \in Steps \ {s} : ~({o, s} \subseteq TargetSteps) => WithTarget(p, s, new)[o] = p[o]
         /\ s \in TargetSteps => \A o \in TargetSteps : WithTarget(p, s, new)[o].target = new.target
         /\ s \notin TargetSteps => \A o \in TargetSteps : WithTarget(p, s, new)[o] = p[o]
BY DEF WithTarget, PlanParams, StepParams, Steps

LEMMA StoredIsHash ==
  ASSUME NEW p \in PlanParams, NEW s \in Steps, NEW new \in StepParams
  PROVE  Stored(p, WithTarget(p, s, new), s) = WithTarget(p, s, new)
<1>1. ASSUME NEW o \in Steps
      PROVE  Stored(p, WithTarget(p, s, new), s)[o] = WithTarget(p, s, new)[o]
  BY WithTargetType DEF Stored
<1>2. QED
  BY <1>1, WithTargetType DEF Stored, WithTarget

(* What the commit checks is what a committed version promises.            *)
LEMMA ReadyMeansReady ==
  ASSUME NEW p \in PlanParams, MayCommit(p)
  PROVE  /\ \A s \in Steps : "foreign" \notin p[s].facts
         /\ \A s \in TargetSteps : p[s].target # Blank
         /\ {"sound", "complete"} \subseteq p["define-metadata"].facts
         /\ "faulty" \notin p["manual-binning"].facts
         /\ "reviewed" \in p["manual-binning"].facts <=> "accepted" \notin p["manual-binning"].facts
         /\ "overrides" \in p["manual-binning"].facts => "reviewed" \in p["manual-binning"].facts
BY DEF MayCommit, CanonicalReady, OneOutcome, StepValid, Steps, TargetSteps

-----------------------------------------------------------------------------
(* The two ways to change a version's rows: a new draft, and an edit.      *)

LEMMA CreateDraftPreserves ==
  ASSUME PlanOK, NEW v \in Versions, NEW p \in PlanParams, CreateDraft(v, p, p),
         \A s, o \in TargetSteps : p[s].target = p[o].target
  PROVE  PlanOK'
<1>1. TypeOK'
  BY DEF PlanOK, CreateDraft, TypeOK
<1>2. TargetsAgree' /\ HashesAgree'
  BY DEF PlanOK, CreateDraft, TypeOK, TargetsAgree, HashesAgree
<1>3. CommittedIsReady'
  BY DEF PlanOK, CreateDraft, TypeOK, CommittedIsReady
<1>4. RunsOK'
  BY DEF PlanOK, CreateDraft, TypeOK, RunsOK
<1>5. ManifestAgrees'
  BY DEF PlanOK, CreateDraft, ManifestAgrees
<1>6. QED
  BY <1>1, <1>2, <1>3, <1>4, <1>5 DEF PlanOK

LEMMA UpdateStepPreserves ==
  ASSUME PlanOK, NEW v \in Versions, NEW s \in Steps, NEW new \in Requested(s),
         UpdateStep(v, s, new)
  PROVE  PlanOK'
<1> DEFINE q == WithTarget(params[v], s, new)
<1>1. params[v] \in PlanParams /\ hashes[v] = params[v] /\ new \in StepParams
  BY RequestedType DEF PlanOK, TypeOK, HashesAgree
<1>2. q \in PlanParams
  BY <1>1, WithTargetType
<1>3. /\ params' = [params EXCEPT ![v] = q]
      /\ hashes' = [hashes EXCEPT ![v] = q]
      /\ stage[v] = "draft"
      /\ UNCHANGED <<stage, runOf, executed, manifest>>
  BY <1>1, StoredIsHash DEF UpdateStep, IsOpen
<1>4. \A o, t \in TargetSteps : q[o].target = q[t].target
  <2>1. CASE s \in TargetSteps
    BY <1>1, <2>1, WithTargetType
  <2>2. CASE s \notin TargetSteps
    BY <1>1, <2>2, WithTargetType DEF PlanOK, TargetsAgree
  <2>3. QED
    BY <2>1, <2>2
<1> HIDE DEF q
<1>5. TypeOK'
  BY <1>2, <1>3 DEF PlanOK, TypeOK
<1>6. TargetsAgree' /\ HashesAgree'
  BY <1>3, <1>4 DEF PlanOK, TypeOK, TargetsAgree, HashesAgree
<1>7. CommittedIsReady'
  BY <1>3 DEF PlanOK, TypeOK, CommittedIsReady
<1>8. RunsOK'
  BY <1>3 DEF PlanOK, TypeOK, RunsOK
<1>9. ManifestAgrees'
  BY <1>3 DEF PlanOK, ManifestAgrees
<1>10. QED
  BY <1>5, <1>6, <1>7, <1>8, <1>9 DEF PlanOK

LEMMA CommitPreserves ==
  ASSUME PlanOK, NEW v \in Versions, Commit(v)
  PROVE  PlanOK'
<1>1. TypeOK'
  BY DEF PlanOK, Commit, TypeOK
<1>2. TargetsAgree' /\ HashesAgree' /\ ManifestAgrees'
  BY DEF PlanOK, Commit, TargetsAgree, HashesAgree, ManifestAgrees
<1>3. CommittedIsReady'
  BY ReadyMeansReady DEF PlanOK, Commit, TypeOK, CommittedIsReady
<1>4. RunsOK'
  BY DEF PlanOK, Commit, TypeOK, RunsOK
<1>5. QED
  BY <1>1, <1>2, <1>3, <1>4 DEF PlanOK

LEMMA ExecutionPreserves ==
  ASSUME PlanOK, NEW r \in Runs,
         (\E v \in Versions : SubmitRun(r, v)) \/ ReadSteps(r) \/ WriteManifest(r)
  PROVE  PlanOK'
<1>1. UNCHANGED <<stage, params, hashes>>
  BY DEF SubmitRun, ReadSteps, WriteManifest
<1>2. TargetsAgree' /\ HashesAgree' /\ CommittedIsReady'
  BY <1>1 DEF PlanOK, TargetsAgree, HashesAgree, CommittedIsReady
<1>3. CASE \E v \in Versions : SubmitRun(r, v)
  <2>1. TypeOK'
    BY <1>3 DEF PlanOK, SubmitRun, TypeOK
  <2>2. RunsOK'
    BY <1>3 DEF PlanOK, SubmitRun, MayRun, TypeOK, RunsOK
  <2>3. ManifestAgrees'
    BY <1>3 DEF PlanOK, SubmitRun, ManifestAgrees
  <2>4. QED
    BY <1>2, <2>1, <2>2, <2>3 DEF PlanOK
<1>4. CASE ReadSteps(r)
  <2>1. /\ runOf[r] \in Versions
        /\ params[runOf[r]] \in PlanParams /\ hashes[runOf[r]] \in PlanParams
    BY <1>4 DEF ReadSteps, PlanOK, TypeOK
  <2>2. TypeOK'
    BY <1>4, <2>1 DEF ReadSteps, PlanOK, TypeOK, Snapshot
  <2>3. manifest[r] = None /\ UNCHANGED <<runOf, manifest>>
    BY <1>4 DEF ReadSteps, PlanOK, RunsOK
  <2>4. /\ executed'[r] = [params |-> params[runOf[r]], hashes |-> hashes[runOf[r]]]
        /\ \A q \in Runs : q # r => executed'[q] = executed[q]
    BY <1>4 DEF ReadSteps, PlanOK, TypeOK
  <2>5. RunsOK'
    BY <1>1, <1>4, <2>3, <2>4 DEF ReadSteps, PlanOK, RunsOK
  <2>6. ManifestAgrees'
    BY <2>3, <2>4 DEF PlanOK, ManifestAgrees
  <2>7. QED
    BY <1>2, <2>2, <2>5, <2>6 DEF PlanOK
<1>5. CASE WriteManifest(r)
  <2>1. /\ runOf[r] \in Versions
        /\ params[runOf[r]] \in PlanParams
        /\ executed[r] = [params |-> params[runOf[r]], hashes |-> params[runOf[r]]]
    BY <1>5 DEF WriteManifest, PlanOK, TypeOK, RunsOK, HashesAgree
  <2>2. TypeOK'
    BY <1>5, <2>1 DEF WriteManifest, PlanOK, TypeOK, Snapshot
  <2>3. /\ UNCHANGED <<runOf, executed>>
        /\ executed[r] # None
        /\ manifest'[r] = [params |-> params[runOf[r]], hashes |-> executed[r].hashes]
        /\ \A q \in Runs : q # r => manifest'[q] = manifest[q]
    BY <1>5 DEF WriteManifest, PlanOK, TypeOK
  <2>4. RunsOK'
    BY <1>1, <2>3 DEF PlanOK, RunsOK
  <2>5. ManifestAgrees'
    BY <2>1, <2>3 DEF PlanOK, ManifestAgrees
  <2>6. QED
    BY <1>2, <2>2, <2>4, <2>5 DEF PlanOK
<1>6. QED
  BY <1>3, <1>4, <1>5

-----------------------------------------------------------------------------
LEMMA InitOK == Init => PlanOK
<1> SUFFICES ASSUME Init PROVE PlanOK
  OBVIOUS
<1>1. TypeOK
  BY TemplateType DEF Init, TypeOK
<1>2. TargetsAgree /\ HashesAgree
  BY TemplateType DEF Init, TargetsAgree, HashesAgree
<1>3. CommittedIsReady /\ RunsOK /\ ManifestAgrees
  BY DEF Init, CommittedIsReady, RunsOK, ManifestAgrees
<1>4. QED
  BY <1>1, <1>2, <1>3 DEF PlanOK

LEMMA CreatePreserves == PlanOK /\ Create => PlanOK'
<1> SUFFICES ASSUME PlanOK, Create PROVE PlanOK'
  OBVIOUS
<1>1. PICK v \in Versions, t \in Columns \cup {Blank}, config \in [Steps -> SUBSET Facts] :
        CreateCanonical(v, t, config)
  <2>1. PICK v \in Versions, t \in Columns \cup {Blank},
             metadata \in SUBSET ConfigurableFacts("define-metadata"),
             manual \in SUBSET ConfigurableFacts("manual-binning"),
             woe \in SUBSET ConfigurableFacts("final-woe-iv") :
          CreateCanonical(v, t, [s \in Steps |->
            CASE s = "define-metadata" -> metadata
              [] s = "manual-binning" -> manual
              [] s = "final-woe-iv" -> woe
              [] OTHER -> {}])
    BY Zenon DEF Create
  <2>2. [s \in Steps |->
            CASE s = "define-metadata" -> metadata
              [] s = "manual-binning" -> manual
              [] s = "final-woe-iv" -> woe
              [] OTHER -> {}] \in [Steps -> SUBSET Facts]
    BY DEF Facts, ConfigurableFacts
  <2>3. QED
    BY <2>1, <2>2
<1>2. QED
  BY <1>1, ConfiguredType, CreateDraftPreserves DEF CreateCanonical

LEMMA CopyPreserves ==
  ASSUME PlanOK, NEW b \in Versions, NEW v \in Versions, NEW s \in NamedSteps,
         NEW overrides \in OverrideSets, CopyWithOverrides(b, v, s, overrides)
  PROVE  PlanOK'
<1> DEFINE edited == BinningEdited(s, params[b][s], overrides)
           p == [params[b] EXCEPT ![s] = edited]
<1>1. params[b] \in PlanParams /\ hashes[b] = params[b] /\ s \in Steps
  BY DEF PlanOK, TypeOK, HashesAgree
<1>2. edited \in StepParams /\ edited.target = params[b][s].target
  BY <1>1, BinningEditedType DEF PlanParams
<1>3. p \in PlanParams /\ \A o \in Steps : p[o].target = params[b][o].target
  BY <1>1, <1>2 DEF PlanParams
<1>4. \A o, t \in TargetSteps : p[o].target = p[t].target
  BY <1>3 DEF PlanOK, TargetsAgree, Steps
<1>5. CreateDraft(v, p, p)
  BY <1>1 DEF CopyWithOverrides
<1> HIDE DEF p
<1>6. QED
  BY <1>3, <1>4, <1>5, CreateDraftPreserves

LEMMA NextPreserves == PlanOK /\ [Next]_vars => PlanOK'
<1> SUFFICES ASSUME PlanOK, [Next]_vars PROVE PlanOK'
  OBVIOUS
<1>1. CASE Create
  BY <1>1, CreatePreserves
<1>2. CASE ApplyManualBinningEdit
  BY <1>2, CopyPreserves DEF ApplyManualBinningEdit
<1>3. CASE UpdateStepParams
  BY <1>3, UpdateStepPreserves DEF UpdateStepParams
<1>4. CASE CommitPlanVersion
  BY <1>4, CommitPreserves DEF CommitPlanVersion
<1>5. CASE Execution
  BY <1>5, ExecutionPreserves DEF Execution
<1>6. CASE UNCHANGED vars
  BY <1>6 DEF vars, PlanOK, TypeOK, TargetsAgree, HashesAgree, CommittedIsReady, RunsOK,
     ManifestAgrees
<1>7. QED
  BY <1>1, <1>2, <1>3, <1>4, <1>5, <1>6 DEF Next

LEMMA PlanCorrect == Spec => []PlanOK
BY InitOK, NextPreserves, PTL DEF Spec

(* Every variable keeps its type.                                          *)
THEOREM TypeCorrect == Spec => []TypeOK
<1>1. PlanOK => TypeOK
  BY DEF PlanOK
<1>2. QED
  BY <1>1, PlanCorrect, PTL

(* The steps of every version have one target, through configuration,      *)
(* edits of any of them and copies.                                        *)
THEOREM TargetsKeepAgreeing == Spec => []TargetsAgree
<1>1. PlanOK => TargetsAgree
  BY DEF PlanOK
<1>2. QED
  BY <1>1, PlanCorrect, PTL

(* A committed version is and remains what the commit has checked.         *)
THEOREM CommittedStaysReady == Spec => []CommittedIsReady
<1>1. PlanOK => CommittedIsReady
  BY DEF PlanOK
<1>2. QED
  BY <1>1, PlanCorrect, PTL

(* Every stored hash is that of the parameters stored with it.             *)
THEOREM HashesKeepAgreeing == Spec => []HashesAgree
<1>1. PlanOK => HashesAgree
  BY DEF PlanOK
<1>2. QED
  BY <1>1, PlanCorrect, PTL

(* A manifest shows what was executed, though it is written from a second  *)
(* reading of the version.                                                 *)
THEOREM ManifestShowsExecuted == Spec => []ManifestAgrees
<1>1. PlanOK => ManifestAgrees
  BY DEF PlanOK
<1>2. QED
  BY <1>1, PlanCorrect, PTL

-----------------------------------------------------------------------------
(* No step changes the rows of a committed version.                        *)
THEOREM CommittedStaysFrozen == Spec => CommittedIsFrozen
<1>1. ASSUME TypeOK, [Next]_vars, NEW v \in Versions, stage[v] = "committed"
      PROVE  UNCHANGED <<stage[v], params[v], hashes[v]>>
  <2>1. ASSUME NEW w \in Versions, NEW p, NEW h, CreateDraft(w, p, h)
        PROVE  UNCHANGED <<stage[v], params[v], hashes[v]>>
    BY <1>1, <2>1 DEF CreateDraft, TypeOK
  <2>2. CASE Create
    BY <2>1, <2>2 DEF Create, CreateCanonical
  <2>3. CASE ApplyManualBinningEdit
    BY <2>1, <2>3 DEF ApplyManualBinningEdit, CopyWithOverrides
  <2>4. CASE UpdateStepParams
    BY <1>1, <2>4 DEF UpdateStepParams, UpdateStep, IsOpen, TypeOK
  <2>5. CASE CommitPlanVersion
    BY <1>1, <2>5 DEF CommitPlanVersion, Commit, IsOpen, TypeOK
  <2>6. CASE Execution
    BY <2>6 DEF Execution, SubmitRun, ReadSteps, WriteManifest
  <2>7. CASE UNCHANGED vars
    BY <2>7 DEF vars
  <2>8. QED
    BY <1>1, <2>2, <2>3, <2>4, <2>5, <2>6, <2>7 DEF Next
<1>2. TypeOK /\ [Next]_vars =>
        [\A v \in Versions : stage[v] = "committed" =>
          UNCHANGED <<stage[v], params[v], hashes[v]>>]_vars
  BY <1>1
<1>3. QED
  BY <1>2, TypeCorrect, PTL DEF Spec, CommittedIsFrozen

(* An edit changes the facts of one step and the targets of the others,    *)
(* and makes no step invalid.                                              *)
LEMMA UpdateStepIsLocal ==
  ASSUME TypeOK, NEW v \in Versions, NEW s \in Steps, NEW new \in Requested(s),
         UpdateStep(v, s, new)
  PROVE  /\ \A w \in Versions : w # v => params'[w] = params[w]
         /\ \A o \in Steps \ {s} : params'[v][o].facts = params[v][o].facts
         /\ \A o \in Steps : StepValid(o, params[v][o]) => StepValid(o, params'[v][o])
<1> DEFINE q == WithTarget(params[v], s, new)
<1>1. params[v] \in PlanParams /\ new \in StepParams
  BY RequestedType DEF TypeOK
<1>2. /\ params' = [params EXCEPT ![v] = q]
      /\ StepValid(s, new)
      /\ s \in TargetSteps => \A o \in TargetSteps \ {s} : StepValid(o, q[o])
  BY Zenon DEF UpdateStep, StillValid
<1>3. /\ q[s] = new
      /\ \A o \in Steps \ {s} : q[o].facts = params[v][o].facts
      /\ \A o \in Steps \ {s} : ~({o, s} \subseteq TargetSteps) => q[o] = params[v][o]
  BY <1>1, WithTargetType
<1> HIDE DEF q
<1>4. params'[v] = q /\ \A w \in Versions : w # v => params'[w] = params[w]
  BY <1>2 DEF TypeOK
<1>5. ASSUME NEW o \in Steps, StepValid(o, params[v][o])
      PROVE  StepValid(o, q[o])
  <2>1. CASE o = s
    BY <1>2, <1>3, <2>1
  <2>2. CASE o # s /\ {o, s} \subseteq TargetSteps
    BY <1>2, <2>2
  <2>3. CASE o # s /\ ~({o, s} \subseteq TargetSteps)
    BY <1>3, <1>5, <2>3
  <2>4. QED
    BY <2>1, <2>2, <2>3
<1>6. QED
  BY <1>3, <1>4, <1>5

THEOREM EditsStayLocal == Spec => EditIsLocal
<1>1. ASSUME TypeOK, [Next]_vars, NEW v \in Versions, stage[v] = "draft", params'[v] # params[v]
      PROVE  /\ \E s \in Steps : \A o \in Steps \ {s} : params'[v][o].facts = params[v][o].facts
             /\ \A s \in Steps : StepValid(s, params[v][s]) => StepValid(s, params'[v][s])
  <2>1. ASSUME NEW w \in Versions, NEW p, NEW h, CreateDraft(w, p, h)
        PROVE  FALSE
    BY <1>1, <2>1 DEF CreateDraft, TypeOK
  <2>2. CASE Create
    BY <2>1, <2>2 DEF Create, CreateCanonical
  <2>3. CASE ApplyManualBinningEdit
    BY <2>1, <2>3 DEF ApplyManualBinningEdit, CopyWithOverrides
  <2>4. CASE UpdateStepParams
    <3>1. PICK w \in Versions, s \in Steps : \E new \in Requested(s) : UpdateStep(w, s, new)
      BY <2>4 DEF UpdateStepParams
    <3>2. w = v
      BY <1>1, <3>1, UpdateStepIsLocal
    <3>3. QED
      BY <1>1, <3>1, <3>2, UpdateStepIsLocal
  <2>5. CASE CommitPlanVersion
    BY <1>1, <2>5 DEF CommitPlanVersion, Commit
  <2>6. CASE Execution
    BY <1>1, <2>6 DEF Execution, SubmitRun, ReadSteps, WriteManifest
  <2>7. CASE UNCHANGED vars
    BY <1>1, <2>7 DEF vars
  <2>8. QED
    BY <1>1, <2>2, <2>3, <2>4, <2>5, <2>6, <2>7 DEF Next
<1>2. TypeOK /\ [Next]_vars =>
        [\A v \in Versions : stage[v] = "draft" /\ params'[v] # params[v] =>
          /\ \E s \in Steps : \A o \in Steps \ {s} : params'[v][o].facts = params[v][o].facts
          /\ \A s \in Steps : StepValid(s, params[v][s]) => StepValid(s, params'[v][s])]_vars
  BY <1>1
<1>3. QED
  BY <1>2, TypeCorrect, PTL DEF Spec, EditIsLocal

=============================================================================
