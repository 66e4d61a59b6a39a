----------------------------- MODULE PlanVersions -----------------------------
(***************************************************************************)
(* The versions of a plan: drafts made from the scorecard template or from *)
(* a committed version with a manual-binning edit, edits of a step's       *)
(* parameters that carry the target column to every step that depends on   *)
(* it, the commit that makes a version immutable, and the runs that read a *)
(* committed version when they execute and again when they write their     *)
(* manifest.  A use case is one BEGIN IMMEDIATE transaction, so an action  *)
(* is a use case.                                                          *)
(*                                                                         *)
(* Of the parameters of a step the model keeps the target column and a set *)
(* of facts that the checks, and only they, tell apart:                    *)
(*   sound      the target classes and the reject-inference position of    *)
(*              define-metadata pass the checks of its node                *)
(*   complete   its business metadata and that position are filled in      *)
(*   overrides  manual-binning has overrides                               *)
(*   faulty     some of them do not pass the checks of the node            *)
(*   reviewed, accepted   its two switches                                 *)
(*   adjusted   another parameter differs from the template                *)
(*   foreign    a key that the schema of the node does not know            *)
(* A params hash is modelled by what it is the hash of.                    *)
(***************************************************************************)
EXTENDS Naturals

CONSTANTS Versions, Runs,
          Columns,     \* target columns that are not blank
          Default,     \* the one of the template
          NamedSteps,  \* the steps that a manual-binning edit may name
          Blank, None

TargetSteps == {"define-metadata", "validate-target", "split"}
Steps == TargetSteps \cup {"manual-binning", "final-woe-iv"}

ASSUME ColumnAssumption == Default \in Columns /\ Blank \notin Columns /\ None \notin Columns
ASSUME VersionAssumption == None \notin Versions
ASSUME StepAssumption == NamedSteps \subseteq Steps

VARIABLES
  stage,      \* plan_versions: absent, or whether is_committed is set
  params,     \* plan_steps.params_json, by version and step
  hashes,     \* plan_steps.params_hash
  runOf,      \* runs.plan_version_id
  executed,   \* the parameters and hashes a worker has read for its run
  manifest    \* the parameters and hashes in the manifest of a run

vars == <<stage, params, hashes, runOf, executed, manifest>>

Facts == {"sound", "complete", "overrides", "faulty", "reviewed", "accepted", "adjusted", "foreign"}
StepParams == [target : Columns \cup {Blank, None}, facts : SUBSET Facts]
PlanParams == [Steps -> StepParams]
Snapshot == [params : PlanParams, hashes : PlanParams]

(* What the parameters of a step may say beside the target.                *)
OwnFacts(s) ==
  CASE s = "define-metadata" -> {"sound", "complete"}
    [] s = "manual-binning" -> {"overrides", "faulty", "reviewed", "accepted"}
    [] OTHER -> {"adjusted"}

(* What CreateCanonicalScorecardVersion may be asked to configure.         *)
ConfigurableFacts(s) ==
  CASE s = "define-metadata" -> {"sound", "complete"}
    [] s = "manual-binning" -> {"accepted"}
    [] s = "final-woe-iv" -> {"adjusted"}
    [] OTHER -> {}

Configured(t, config) ==
  [s \in Steps |-> [target |-> IF s \in TargetSteps THEN t ELSE None, facts |-> config[s]]]

(* The production template leaves the business metadata empty.             *)
Template == Configured(Default, [s \in Steps |-> {}])

Init ==
  /\ stage = [v \in Versions |-> "absent"]
  /\ params = [v \in Versions |-> Template]
  /\ hashes = [v \in Versions |-> Template]
  /\ runOf = [r \in Runs |-> None]
  /\ executed = [r \in Runs |-> None]
  /\ manifest = [r \in Runs |-> None]

-----------------------------------------------------------------------------
(* Validation.                                                             *)

(* The schema of the node refuses foreign keys, its validate_params the    *)
(* rest.  Only define-metadata looks at the text of the target.            *)
StepValid(s, p) ==
  /\ "foreign" \notin p.facts
  /\ s = "define-metadata" => "sound" \in p.facts /\ p.target # Blank
  /\ s = "manual-binning" =>
       /\ "faulty" \notin p.facts
       /\ ~({"accepted", "overrides"} \subseteq p.facts)
       /\ ~({"accepted", "reviewed"} \subseteq p.facts)

OneOutcomeAtMost(p) == ~({"reviewed", "accepted"} \subseteq p.facts)

OneOutcome(p) ==
  /\ ("reviewed" \in p.facts) # ("accepted" \in p.facts)
  /\ "accepted" \in p.facts => "overrides" \notin p.facts

CanonicalReady(p) ==
  /\ {"sound", "complete"} \subseteq p["define-metadata"].facts
  /\ OneOutcome(p["manual-binning"])
  /\ \A s \in TargetSteps :
       p[s].target # Blank /\ p[s].target = p["define-metadata"].target

-----------------------------------------------------------------------------
(* CreateCanonicalScorecardVersion: nothing of the configuration is        *)
(* validated beyond its types.                                             *)
CreateDraft(v, p, h) ==
  /\ stage[v] = "absent"
  /\ stage' = [stage EXCEPT ![v] = "draft"]
  /\ params' = [params EXCEPT ![v] = p]
  /\ hashes' = [hashes EXCEPT ![v] = h]
  /\ UNCHANGED <<runOf, executed, manifest>>

CreateCanonical(v, t, config) ==
  LET p == Configured(t, config) IN CreateDraft(v, p, p)

-----------------------------------------------------------------------------
(* ApplyManualBinningEdit copies a committed version into a new draft, in  *)
(* which one step has new overrides and the status of the review among its *)
(* parameters.  The step is the one that the request names.                *)
BinningEdited(s, p, overrides) ==
  IF s = "manual-binning"
    THEN [p EXCEPT !.facts = (p.facts \ {"overrides", "faulty"}) \cup overrides \cup {"foreign"}]
    ELSE [p EXCEPT !.facts = p.facts \cup {"foreign"}]

OverrideSets == {{}, {"overrides"}, {"overrides", "faulty"}}

MayBeCopied(b) == stage[b] = "committed"

CopyWithOverrides(b, v, s, overrides) ==
  /\ MayBeCopied(b)
  /\ LET edited == BinningEdited(s, params[b][s], overrides)
     IN CreateDraft(v, [params[b] EXCEPT ![s] = edited], [hashes[b] EXCEPT ![s] = edited])

-----------------------------------------------------------------------------
(* UpdateStepParams.  The parameters of the request are normalized: keys   *)
(* that it leaves out have their defaults, so t and facts are what is left *)
(* after that.  A step that depends on the target hands it on to the       *)
(* others, whose parameters must be valid with it as well.                 *)
NotLookedAt(q, s) == TRUE

StillValid(q, s) == \A o \in TargetSteps \ {s} : StepValid(o, q[o])

WithoutTarget(p, s, new) == [p EXCEPT ![s] = new]

WithTarget(p, s, new) ==
  [o \in Steps |->
     IF o = s THEN new
     ELSE IF {o, s} \subseteq TargetSteps THEN [p[o] EXCEPT !.target = new.target]
     ELSE p[o]]

Exists(v) == stage[v] # "absent"

IsOpen(v) == stage[v] = "draft"

Stored(h, q, s) ==
  [o \in Steps |-> IF o = s \/ {o, s} \subseteq TargetSteps THEN q[o] ELSE h[o]]

UpdateStep(v, s, new) ==
  /\ IsOpen(v)
  /\ StepValid(s, new)
  /\ LET q == WithTarget(params[v], s, new)
     IN /\ s \in TargetSteps => StillValid(q, s)
        /\ params' = [params EXCEPT ![v] = q]
        /\ hashes' = [hashes EXCEPT ![v] = Stored(hashes[v], q, s)]
  /\ UNCHANGED <<stage, runOf, executed, manifest>>

Requested(s) ==
  [target : IF s \in TargetSteps THEN Columns \cup {Blank} ELSE {None}, facts : SUBSET OwnFacts(s)]

-----------------------------------------------------------------------------
(* CommitPlanVersion.  The step graph of the pathway is the template's, and *)
(* no use case changes it, so that its topology is valid.                   *)
MayCommit(p) == (\A s \in Steps : StepValid(s, p[s])) /\ CanonicalReady(p)

Commit(v) ==
  /\ IsOpen(v)
  /\ MayCommit(params[v])
  /\ stage' = [stage EXCEPT ![v] = "committed"]
  /\ UNCHANGED <<params, hashes, runOf, executed, manifest>>

-----------------------------------------------------------------------------
(* A run of a committed version.  Its worker reads the steps once, when it *)
(* begins; the manifest takes the hashes from the fingerprints of the      *)
(* executed steps, and the parameters from the version as it is then.      *)
MayRunDraft(v) == stage[v] # "absent"

MayRun(v) == stage[v] = "committed"

SubmitRun(r, v) ==
  /\ runOf[r] = None
  /\ MayRun(v)
  /\ runOf' = [runOf EXCEPT ![r] = v]
  /\ UNCHANGED <<stage, params, hashes, executed, manifest>>

ReadStepsOnly(r) ==
  /\ runOf[r] # None
  /\ executed[r] = None
  /\ executed' = [executed EXCEPT ![r] = params[runOf[r]]]
  /\ UNCHANGED <<stage, params, hashes, runOf, manifest>>

ReadSteps(r) ==
  /\ runOf[r] # None
  /\ executed[r] = None
  /\ LET v == runOf[r]
     IN executed' = [executed EXCEPT ![r] = [params |-> params[v], hashes |-> hashes[v]]]
  /\ UNCHANGED <<stage, params, hashes, runOf, manifest>>

WriteManifest(r) ==
  /\ executed[r] # None
  /\ manifest[r] = None
  /\ manifest' = [manifest EXCEPT ![r] =
       [params |-> params[runOf[r]], hashes |-> executed[r].hashes]]
  /\ UNCHANGED <<stage, params, hashes, runOf, executed>>

-----------------------------------------------------------------------------
Create == \E v \in Versions, t \in Columns \cup {Blank} :
  \E metadata \in SUBSET ConfigurableFacts("define-metadata"),
     manual \in SUBSET ConfigurableFacts("manual-binning"),
     woe \in SUBSET ConfigurableFacts("final-woe-iv") :
       CreateCanonical(v, t, [s \in Steps |->
         CASE s = "define-metadata" -> metadata
           [] s = "manual-binning" -> manual
           [] s = "final-woe-iv" -> woe
           [] OTHER -> {}])

ApplyManualBinningEdit == \E b, v \in Versions, s \in NamedSteps, overrides \in OverrideSets :
  CopyWithOverrides(b, v, s, overrides)

UpdateStepParams == \E v \in Versions, s \in Steps : \E new \in Requested(s) :
  ("faulty" \in new.facts => "overrides" \in new.facts) /\ UpdateStep(v, s, new)

CommitPlanVersion == \E v \in Versions : Commit(v)

Execution == \E r \in Runs :
  (\E v \in Versions : SubmitRun(r, v)) \/ ReadSteps(r) \/ WriteManifest(r)

Next == Create \/ ApplyManualBinningEdit \/ UpdateStepParams \/ CommitPlanVersion \/ Execution

Spec == Init /\ [][Next]_vars

-----------------------------------------------------------------------------
(* Every variable has its type: the rows of a version, and what its runs   *)
(* have read of it.                                                        *)
TypeOK ==
  /\ stage \in [Versions -> {"absent", "draft", "committed"}]
  /\ params \in [Versions -> PlanParams]
  /\ hashes \in [Versions -> PlanParams]
  /\ runOf \in [Runs -> Versions \cup {None}]
  /\ executed \in [Runs -> {None} \cup Snapshot]
  /\ manifest \in [Runs -> {None} \cup Snapshot]

(* The pathway defines, validates and splits on one target column in every *)
(* version, drafts included: UpdateStepParams hands a new target on to the *)
(* other steps in its transaction, and a copy keeps it.                    *)
TargetsAgree == \A v \in Versions, s, o \in TargetSteps :
  params[v][s].target = params[v][o].target

(* A committed version has a target, complete metadata, one recorded       *)
(* outcome of manual binning and no parameter that its node would refuse:  *)
(* what CommitPlanVersion checks cannot be undone behind its back.         *)
CommittedIsReady == \A v \in Versions : stage[v] = "committed" =>
  /\ \A s \in Steps : "foreign" \notin params[v][s].facts
  /\ \A s \in TargetSteps : params[v][s].target # Blank
  /\ {"sound", "complete"} \subseteq params[v]["define-metadata"].facts
  /\ LET manual == params[v]["manual-binning"].facts
     IN /\ "faulty" \notin manual
        /\ "reviewed" \in manual <=> "accepted" \notin manual
        /\ "overrides" \in manual => "reviewed" \in manual

(* A committed version never changes.                                      *)
CommittedIsFrozen == [][\A v \in Versions : stage[v] = "committed" =>
  UNCHANGED <<stage[v], params[v], hashes[v]>>]_vars

(* A manifest shows the parameters that the worker executed, which it read *)
(* earlier, and each hash in it is that of the parameters beside it.       *)
ManifestAgrees == \A r \in Runs : manifest[r] # None =>
  /\ manifest[r].params = executed[r].params
  /\ manifest[r].hashes = manifest[r].params

(* The hash of a step is that of its parameters, also when they were       *)
(* rewritten because the target of another step was.                       *)
HashesAgree == \A v \in Versions : hashes[v] = params[v]

(* An edit of one step changes nothing but the target of others, and does  *)
(* not make a step invalid that was valid: a target that define-metadata   *)
(* refuses does not reach it from a step whose node would accept it.       *)
EditIsLocal == [][\A v \in Versions : stage[v] = "draft" /\ params'[v] # params[v] =>
  /\ \E s \in Steps : \A o \in Steps \ {s} : params'[v][o].facts = params[v][o].facts
  /\ \A s \in Steps : StepValid(s, params[v][s]) => StepValid(s, params'[v][s])]_vars

=============================================================================
