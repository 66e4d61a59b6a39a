----------------------------- MODULE PathwayProofs -----------------------------
(***************************************************************************)
(* What is proved of a run of the pathway, for any data, parameters and    *)
(* overrides: no artifact of a scorecard is made of a row outside the      *)
(* training sample, the manifest of a run that has succeeded lists all of  *)
(* its steps, the three scorers agree, and a selection keeps what its      *)
(* parameters promise.                                                     *)
(*                                                                         *)
(* The first two follow from Inv.  For the others, ContentsOK says of the  *)
(* published definitions that their bins are in order, with what the proof *)
(* needs of the other artifacts, and StepsOK which artifacts an exporter   *)
(* has rendered.                                                           *)
(***************************************************************************)
EXTENDS Pathway, BinningProofs

(* What has to be clean: the kinds of the property, and the roles by which *)
(* nodes look for their inputs.                                            *)
MustBeClean(role, kind) ==
  kind \in FittedKinds \/ role \in {"input", "train", "model", "scorecard"}

CleanIds == {id \in DOMAIN artifacts : artifacts[id].from \subseteq {"train"}}

Clean ==
  \A id \in DOMAIN artifacts :
    MustBeClean(Role(id), Kind(id)) => artifacts[id].from \subseteq {"train"}

(* What the manifest needs: its step comes last, since the one step behind *)
(* it in the alphabet comes before the clustering, on which it depends.    *)
Others == Steps \ {"technical-manifest"}

Listed ==
  /\ "variable-clustering" \in done => "validate-target" \in done
  /\ \A id \in DOMAIN artifacts : Role(id) = "manifest" => artifacts[id].body = Others
  /\ "technical-manifest" \in done =>
       <<"technical-manifest", "manifest", "TECHNICAL_MANIFEST_INDEX">> \in DOMAIN artifacts

Inv == TypeOK /\ Clean /\ Listed

LEMMA StepNames ==
        {"apply-exclusions", "apply-model", "apply-woe", "automatic-binning",
         "build-summary-report", "calibration-diagnostics", "coefficient-sign-check",
         "cutoff-analysis", "define-metadata", Treatment, "final-woe-iv", Bundle, "import",
         "initial-woe-iv", "manual-binning", "model-fit", "profile", "sample-definition",
         "score-scaling", "scorecard-table-export", "scoring-export-python",
         "scoring-export-sql", "separation-diagnostics", "split", "technical-manifest",
         "validate-target", "validation-metrics", "variable-clustering", "variable-selection",
         "vif-diagnostics", "woe-transform-train"} \subseteq Steps
<1>1. Steps = {ByName[n] : n \in 1 .. 31}
  BY DEF Steps, ToSet, ByName
<1> QED
  BY <1>1 DEF ByName, Treatment, Bundle

(* What a step finds among its inputs.                                     *)
LEMMA Found ==
  ASSUME NEW s, NEW role, NEW kind
  PROVE  /\ OfRole(s, role) \subseteq DOMAIN artifacts
         /\ FirstOf(s, role) \subseteq DOMAIN artifacts
         /\ OfKind(s, kind) \subseteq DOMAIN artifacts
         /\ Samples(s) \subseteq DOMAIN artifacts
         /\ RolesOf(Samples(s)) \subseteq {"train", "test", "oot"}
BY DEF OfRole, FirstOf, OfKind, Samples, RolesOf, SampleRoles, Inputs, Resolved

LEMMA CleanRole ==
  ASSUME Inv, NEW s, NEW role \in {"input", "train", "model", "scorecard"}
  PROVE OfRole(s, role) \subseteq CleanIds /\ FirstOf(s, role) \subseteq CleanIds
BY DEF Inv, Clean, CleanIds, MustBeClean, OfRole, FirstOf, Inputs, Resolved

LEMMA CleanKind ==
  ASSUME Inv, NEW s, NEW kind \in FittedKinds
  PROVE OfKind(s, kind) \subseteq CleanIds
BY DEF Inv, Clean, CleanIds, MustBeClean, OfKind, Inputs, Resolved

LEMMA FromIds ==
  ASSUME Inv, NEW ids
  PROVE  /\ ids \subseteq DOMAIN artifacts => From(ids) \subseteq SampleRoles
         /\ ids \subseteq CleanIds => From(ids) \subseteq {"train"}
BY DEF Inv, TypeOK, From, CleanIds

(* The outputs that a step may publish.                                    *)
MayPublish(outputs) ==
  \A k \in DOMAIN outputs :
    /\ outputs[<<k[1], k[2]>>].from \subseteq SampleRoles
    /\ MustBeClean(k[1], k[2]) => outputs[<<k[1], k[2]>>].from \subseteq {"train"}
    /\ k[1] = "manifest" => outputs[<<k[1], k[2]>>].body = Others

(* ... and what the step of the manifest must.                             *)
HasManifest(s, outputs) ==
  s = "technical-manifest" => <<"manifest", "TECHNICAL_MANIFEST_INDEX">> \in DOMAIN outputs

LEMMA PublishedArtifacts ==
  ASSUME NEW s, NEW outputs, artifacts' = Published(s, outputs), NEW id \in DOMAIN artifacts'
  PROVE \/ id \in DOMAIN artifacts /\ artifacts'[id] = artifacts[id]
        \/ \E k \in DOMAIN outputs :
              id = <<s, k[1], k[2]>> /\ artifacts'[id] = outputs[<<k[1], k[2]>>]
<1> DEFINE new == {<<s, k[1], k[2]>> : k \in DOMAIN outputs}
<1>1. CASE id \in new
  <2>1. PICK k \in DOMAIN outputs : id = <<s, k[1], k[2]>>
    BY <1>1
  <2>2. artifacts'[id] = outputs[<<k[1], k[2]>>]
    BY <1>1, <2>1 DEF Published
  <2> QED
    BY <2>1, <2>2
<1>2. CASE id \notin new
  BY <1>2 DEF Published
<1> QED
  BY <1>1, <1>2

LEMMA CleanPublished ==
  ASSUME Inv, NEW s, NEW outputs, artifacts' = Published(s, outputs), MayPublish(outputs)
  PROVE Clean'
<1> SUFFICES ASSUME NEW id \in DOMAIN artifacts', MustBeClean(id[2], id[3])
             PROVE artifacts'[id].from \subseteq {"train"}
  BY DEF Clean, Role, Kind
<1>1. CASE id \in DOMAIN artifacts /\ artifacts'[id] = artifacts[id]
  BY <1>1 DEF Inv, Clean, Role, Kind
<1>2. CASE \E k \in DOMAIN outputs :
             id = <<s, k[1], k[2]>> /\ artifacts'[id] = outputs[<<k[1], k[2]>>]
  BY <1>2 DEF MayPublish
<1> QED
  BY <1>1, <1>2, PublishedArtifacts

LEMMA TypePublished ==
  ASSUME Inv, NEW s, NEW outputs, artifacts' = Published(s, outputs), MayPublish(outputs),
         done \subseteq done',
         s \in done' \/ \A k \in DOMAIN outputs : k[2] \in {"RUN_SUMMARY", "VALIDATION_METRICS"},
         NEW id \in DOMAIN artifacts'
  PROVE /\ artifacts'[id].from \in SUBSET SampleRoles
        /\ id[1] \in done' \/ id[3] \in {"RUN_SUMMARY", "VALIDATION_METRICS"}
<1>1. CASE id \in DOMAIN artifacts /\ artifacts'[id] = artifacts[id]
  BY <1>1 DEF Inv, TypeOK, StepOf, Kind
<1>2. CASE \E k \in DOMAIN outputs :
             id = <<s, k[1], k[2]>> /\ artifacts'[id] = outputs[<<k[1], k[2]>>]
  BY <1>2 DEF MayPublish
<1> QED
  BY <1>1, <1>2, PublishedArtifacts

-----------------------------------------------------------------------------
(* The order of the steps, as far as the manifest needs it.                *)

LEMMA Places ==
  /\ Position("calibration-diagnostics") = 6 /\ Position("profile") = 17
  /\ Position("scorecard-table-export") = 20 /\ Position("scoring-export-python") = 21
  /\ Position("scoring-export-sql") = 22 /\ Position("technical-manifest") = 25
  /\ Position("validate-target") = 26 /\ Position("variable-clustering") = 28
<1>1. DOMAIN ByName = 1 .. 31
  BY DEF ByName
<1>2. ByName[6] = "calibration-diagnostics"
      /\ \A n \in 1 .. 31 : ByName[n] = "calibration-diagnostics" => n = 6
  BY DEF ByName
<1>3. ByName[17] = "profile" /\ \A n \in 1 .. 31 : ByName[n] = "profile" => n = 17
  BY DEF ByName
<1>4. ByName[20] = "scorecard-table-export"
      /\ \A n \in 1 .. 31 : ByName[n] = "scorecard-table-export" => n = 20
  BY DEF ByName
<1>5. ByName[21] = "scoring-export-python"
      /\ \A n \in 1 .. 31 : ByName[n] = "scoring-export-python" => n = 21
  BY DEF ByName
<1>6. ByName[22] = "scoring-export-sql"
      /\ \A n \in 1 .. 31 : ByName[n] = "scoring-export-sql" => n = 22
  BY DEF ByName
<1>7. ByName[25] = "technical-manifest"
      /\ \A n \in 1 .. 31 : ByName[n] = "technical-manifest" => n = 25
  BY DEF ByName
<1>8. ByName[26] = "validate-target"
      /\ \A n \in 1 .. 31 : ByName[n] = "validate-target" => n = 26
  BY DEF ByName
<1>9. ByName[28] = "variable-clustering"
      /\ \A n \in 1 .. 31 : ByName[n] = "variable-clustering" => n = 28
  BY DEF ByName
<1> QED
  BY <1>1, <1>2, <1>3, <1>4, <1>5, <1>6, <1>7, <1>8, <1>9 DEF Position

LEMMA Edges ==
  /\ ToSet(Parents("apply-exclusions")) = {"import", "define-metadata"}
  /\ ToSet(Parents("profile")) = {"apply-exclusions"}
  /\ ToSet(Parents("validate-target")) = {"apply-exclusions", "define-metadata"}
  /\ ToSet(Parents("split")) = {"apply-exclusions", "sample-definition"}
  /\ ToSet(Parents(Treatment)) = {"split"}
  /\ ToSet(Parents("automatic-binning")) = {Treatment, "define-metadata"}
  /\ ToSet(Parents("initial-woe-iv")) = {Treatment, "automatic-binning",
       "define-metadata"}
  /\ ToSet(Parents("variable-clustering")) = {Treatment, "initial-woe-iv"}
  /\ ToSet(Parents("variable-selection")) = {"initial-woe-iv", "variable-clustering"}
  /\ ToSet(Parents("manual-binning")) = {"automatic-binning", "variable-selection"}
  /\ ToSet(Parents("model-fit")) = {"woe-transform-train", "define-metadata",
       "variable-selection"}
  /\ ToSet(Parents("score-scaling")) = {"model-fit", "manual-binning", "final-woe-iv",
       "coefficient-sign-check", "separation-diagnostics", "vif-diagnostics"}
  /\ ToSet(Parents("build-summary-report")) = {"score-scaling", "model-fit",
       "final-woe-iv"}
  /\ ToSet(Parents("apply-model")) = {"apply-woe", "model-fit", "score-scaling", Bundle}
  /\ ToSet(Parents("calibration-diagnostics")) = {"apply-model", "model-fit",
       "define-metadata"}
  /\ ToSet(Parents("validation-metrics")) = {"apply-model", "define-metadata"}
  /\ ToSet(Parents("scorecard-table-export")) = {"score-scaling", Bundle, "apply-model",
       "manual-binning", "final-woe-iv"}
  /\ ToSet(Parents("scoring-export-python")) = {Bundle, "model-fit", "score-scaling",
       "apply-model", "manual-binning", "final-woe-iv"}
  /\ ToSet(Parents("scoring-export-sql")) = {Bundle, "model-fit", "score-scaling",
       "apply-model", "manual-binning", "final-woe-iv"}
  /\ ToSet(Parents("technical-manifest")) = {"define-metadata", "sample-definition",
       "final-woe-iv", "build-summary-report", "validation-metrics", "cutoff-analysis"}
<1>1. Parents("apply-exclusions") = <<"import", "define-metadata">>
  BY DEF Parents, Treatment, Bundle
<1>2. Parents("profile") = <<"apply-exclusions">>
  BY DEF Parents, Treatment, Bundle
<1>3. Parents("validate-target") = <<"apply-exclusions", "define-metadata">>
  BY DEF Parents, Treatment, Bundle
<1>4. Parents("split") = <<"apply-exclusions", "sample-definition">>
  BY DEF Parents, Treatment, Bundle
<1>5. Parents(Treatment) = <<"split">>
  BY DEF Parents, Treatment, Bundle
<1>6. Parents("automatic-binning") = <<Treatment, "define-metadata">>
  BY DEF Parents, Treatment, Bundle
<1>7. Parents("initial-woe-iv") = <<Treatment, "automatic-binning", "define-metadata">>
  BY DEF Parents, Treatment, Bundle
<1>8. Parents("variable-clustering") = <<Treatment, "initial-woe-iv">>
  BY DEF Parents, Treatment, Bundle
<1>9. Parents("variable-selection") = <<"initial-woe-iv", "variable-clustering">>
  BY DEF Parents, Treatment, Bundle
<1>10. Parents("manual-binning") = <<"automatic-binning", "variable-selection">>
  BY DEF Parents, Treatment, Bundle
<1>11. Parents("model-fit") = <<"woe-transform-train", "define-metadata",
      "variable-selection">>
  BY DEF Parents, Treatment, Bundle
<1>12. Parents("score-scaling") = <<"model-fit", "manual-binning", "final-woe-iv",
      "coefficient-sign-check", "separation-diagnostics", "vif-diagnostics">>
  BY DEF Parents, Treatment, Bundle
<1>13. Parents("build-summary-report") = <<"score-scaling", "model-fit",
      "final-woe-iv">>
  BY DEF Parents, Treatment, Bundle
<1>14. Parents("apply-model") = <<"apply-woe", "model-fit", "score-scaling", Bundle>>
  BY DEF Parents, Treatment, Bundle
<1>15. Parents("calibration-diagnostics") = <<"apply-model", "model-fit",
      "define-metadata">>
  BY DEF Parents, Treatment, Bundle
<1>16. Parents("validation-metrics") = <<"apply-model", "define-metadata">>
  BY DEF Parents, Treatment, Bundle
<1>17. Parents("scorecard-table-export") = <<"score-scaling", Bundle, "apply-model",
      "manual-binning", "final-woe-iv">>
  BY DEF Parents, Treatment, Bundle
<1>18. Parents("scoring-export-python") = <<Bundle, "model-fit", "score-scaling",
      "apply-model", "manual-binning", "final-woe-iv">>
  BY DEF Parents, Treatment, Bundle
<1>19. Parents("scoring-export-sql") = <<Bundle, "model-fit", "score-scaling",
      "apply-model", "manual-binning", "final-woe-iv">>
  BY DEF Parents, Treatment, Bundle
<1>20. Parents("technical-manifest") = <<"define-metadata", "sample-definition",
      "final-woe-iv", "build-summary-report", "validation-metrics", "cutoff-analysis">>
  BY DEF Parents, Treatment, Bundle
<1> QED
  BY <1>1, <1>2, <1>3, <1>4, <1>5, <1>6, <1>7, <1>8, <1>9, <1>10, <1>11, <1>12, <1>13,
     <1>14, <1>15, <1>16, <1>17, <1>18, <1>19, <1>20 DEF ToSet

(* A step that waits with a smaller name than the one that is due cannot   *)
(* be ready.                                                               *)
LEMMA NotReady ==
  ASSUME NEW s \in Steps, NEW t \in Steps, IsDue(s), Position(t) \in Nat, Position(s) \in Nat,
         Position(t) < Position(s)
  PROVE ~IsReady(t)
BY DEF IsDue, IsNext

LEMMA Closed ==
  ASSUME Inv, NEW s \in done
  PROVE ToSet(Parents(s)) \subseteq done
BY DEF Inv, TypeOK

LEMMA TargetIsValidated ==
  ASSUME Inv, IsDue("variable-clustering")
  PROVE "validate-target" \in done
<1>1. {Treatment, "initial-woe-iv"} \subseteq done
  BY Edges DEF IsDue, IsNext, IsReady
<1>2. "split" \in done /\ "define-metadata" \in done
  BY <1>1, Closed, Edges
<1>3. "apply-exclusions" \in done
  BY <1>2, Closed, Edges
<1>4. ~IsReady("validate-target")
  BY Places, StepNames, NotReady
<1> QED
  BY <1>2, <1>3, <1>4, Edges DEF IsReady

LEMMA ManifestIsLast ==
  ASSUME Inv, IsDue("technical-manifest")
  PROVE done = Others
<1>1. /\ {"define-metadata", "sample-definition", "final-woe-iv", "build-summary-report",
          "validation-metrics", "cutoff-analysis"} \subseteq done
      /\ "technical-manifest" \notin done
  BY Edges DEF IsDue, IsNext, IsReady
<1>2. {"score-scaling", "model-fit", "apply-model"} \subseteq done
  BY <1>1, Closed, Edges
<1>3. {"manual-binning", "coefficient-sign-check", "separation-diagnostics", "vif-diagnostics",
       "woe-transform-train", "variable-selection", "apply-woe", Bundle} \subseteq done
  BY <1>2, Closed, Edges
<1>4. {"automatic-binning", "initial-woe-iv", "variable-clustering"} \subseteq done
  BY <1>3, Closed, Edges
<1>5. Treatment \in done /\ "validate-target" \in done
  BY <1>4, Closed, Edges DEF Inv, Listed
<1>6. "split" \in done
  BY <1>5, Closed, Edges
<1>7. "apply-exclusions" \in done
  BY <1>6, Closed, Edges
<1>8. "import" \in done
  BY <1>7, Closed, Edges
<1>9. \A t \in {"profile", "calibration-diagnostics", "scorecard-table-export",
                "scoring-export-python", "scoring-export-sql"} : ~IsReady(t)
  BY Places, StepNames, NotReady
<1>10. {"profile", "calibration-diagnostics", "scorecard-table-export",
        "scoring-export-python", "scoring-export-sql"} \subseteq done
  BY <1>1, <1>2, <1>3, <1>7, <1>9, Edges DEF IsReady
<1>11. Steps \subseteq done \cup {"technical-manifest"}
  <2>1. Steps = {ByName[n] : n \in 1 .. 31}
    BY DEF Steps, ToSet, ByName
  <2>2. \A n \in 1 .. 31 : ByName[n] \in done \cup {"technical-manifest"}
    BY <1>1, <1>2, <1>3, <1>4, <1>5, <1>6, <1>7, <1>8, <1>10 DEF ByName, Treatment, Bundle
  <2> QED
    BY <2>1, <2>2
<1> QED
  BY <1>1, <1>11 DEF Inv, TypeOK, Others

-----------------------------------------------------------------------------
(* The outcomes of a step.                                                 *)
LEMMA ListedPublished ==
  ASSUME Inv, NEW s, NEW outputs, artifacts' = Published(s, outputs), MayPublish(outputs),
         NEW id \in DOMAIN artifacts', Role(id) = "manifest"
  PROVE artifacts'[id].body = Others
<1>1. CASE id \in DOMAIN artifacts /\ artifacts'[id] = artifacts[id]
  BY <1>1 DEF Inv, Listed
<1>2. CASE \E k \in DOMAIN outputs :
             id = <<s, k[1], k[2]>> /\ artifacts'[id] = outputs[<<k[1], k[2]>>]
  BY <1>2 DEF MayPublish, Role
<1> QED
  BY <1>1, <1>2, PublishedArtifacts

LEMMA ListedKept ==
  ASSUME Inv, NEW s, NEW outputs, artifacts' = Published(s, outputs), MayPublish(outputs),
         done' = done
  PROVE Listed'
<1>1. DOMAIN artifacts \subseteq DOMAIN artifacts'
  BY DEF Published
<1>2. \A id \in DOMAIN artifacts' : Role(id) = "manifest" => artifacts'[id].body = Others
  BY ListedPublished
<1> QED
  BY <1>1, <1>2 DEF Inv, Listed, Role

LEMMA InvSucceed ==
  ASSUME Inv, NEW s \in Steps, IsDue(s), NEW outputs, MayPublish(outputs),
         HasManifest(s, outputs), Succeed(s, outputs)
  PROVE Inv'
<1>1. artifacts' = Published(s, outputs) /\ done' = done \cup {s}
  BY DEF Succeed
<1>2. Clean'
  BY <1>1, CleanPublished
<1>3. state' \in {"running", "succeeded", "failed"} /\ (state' = "succeeded" <=> done' = Steps)
  BY DEF Succeed
<1>4. done' \in SUBSET Steps /\ \A t \in done' : ToSet(Parents(t)) \subseteq done'
  BY <1>1 DEF Inv, TypeOK, IsDue, IsNext, IsReady
<1>5. \A id \in DOMAIN artifacts' :
        /\ artifacts'[id].from \in SUBSET SampleRoles
        /\ id[1] \in done' \/ id[3] \in {"RUN_SUMMARY", "VALIDATION_METRICS"}
  BY <1>1, TypePublished
<1>6. Listed'
  <2>1. "variable-clustering" \in done' => "validate-target" \in done'
    BY <1>1, TargetIsValidated DEF Inv, Listed
  <2>2. "technical-manifest" \in done' =>
          <<"technical-manifest", "manifest", "TECHNICAL_MANIFEST_INDEX">> \in DOMAIN artifacts'
    <3>1. DOMAIN artifacts' = DOMAIN artifacts \cup {<<s, k[1], k[2]>> : k \in DOMAIN outputs}
      BY <1>1 DEF Published
    <3> QED
      BY <1>1, <3>1 DEF HasManifest, Inv, Listed
  <2>3. \A id \in DOMAIN artifacts' : Role(id) = "manifest" => artifacts'[id].body = Others
    BY <1>1, ListedPublished
  <2> QED
    BY <2>1, <2>2, <2>3 DEF Listed, Role
<1> QED
  BY <1>2, <1>3, <1>4, <1>5, <1>6 DEF Inv, TypeOK, StepOf, Kind

LEMMA InvFail == ASSUME Inv, state = "running", Fail PROVE Inv'
BY DEF Inv, TypeOK, Clean, Listed, Fail

LEMMA InvRun ==
  ASSUME Inv, NEW s \in Steps, IsDue(s), NEW ok, NEW outputs, Run(s, ok, outputs),
         MayPublish(outputs), HasManifest(s, outputs)
  PROVE Inv'
BY InvSucceed, InvFail DEF Run, IsDue

LEMMA NamesDiffer == Treatment # "technical-manifest" /\ Bundle # "technical-manifest"
BY DEF Treatment, Bundle

LEMMA InvPublish ==
  ASSUME Inv, NEW s \in Steps, IsDue(s), NEW ok, NEW role, NEW kind, NEW ids, NEW body,
         Run(s, ok, Publish(role, kind, ids, body)),
         ids \subseteq DOMAIN artifacts, MustBeClean(role, kind) => ids \subseteq CleanIds,
         role = "manifest" => body = Others,
         s = "technical-manifest" => role = "manifest" /\ kind = "TECHNICAL_MANIFEST_INDEX"
  PROVE Inv'
<1> DEFINE outputs == Publish(role, kind, ids, body)
<1>1. /\ DOMAIN outputs = {<<role, kind>>}
      /\ outputs[<<role, kind>>].from = From(ids)
      /\ outputs[<<role, kind>>].body = body
  BY DEF Publish, Derived
<1> HIDE DEF outputs
<1>2. MayPublish(outputs) /\ HasManifest(s, outputs)
  BY <1>1, FromIds DEF MayPublish, HasManifest
<1>3. Run(s, ok, outputs)
  BY DEF outputs
<1> QED
  BY <1>2, <1>3, InvRun

LEMMA InvPreparation ==
  ASSUME Inv, Import \/ DefineMetadata \/ ProfileDataset \/ ValidateTarget \/ SampleDefinition
  PROVE Inv'
<1>1. CASE Import
  <2>1. PICK frame \in Datasets :
          IsDue("import") /\ Run("import", frame # <<>>, Publish("input", "FRAME", {}, frame))
    BY <1>1 DEF Import
  <2> QED
    BY <2>1, StepNames, InvPublish
<1>2. CASE DefineMetadata
  <2> DEFINE input == FirstOf("define-metadata", "input")
  <2>1. PICK indeterminate, ok :
          /\ IsDue("define-metadata")
          /\ Run("define-metadata", ok,
                 Publish("definition", "MODELLING_METADATA", input, indeterminate))
    BY <1>2 DEF DefineMetadata
  <2>2. input \subseteq CleanIds /\ input \subseteq DOMAIN artifacts
    BY CleanRole, Found
  <2> HIDE DEF input
  <2> QED
    BY <2>1, <2>2, StepNames, InvPublish
<1>3. CASE ProfileDataset
  <2> DEFINE s == "profile"
             ids == FirstOf(s, "input")
  <2>1. PICK ok, body : IsDue(s) /\ Run(s, ok, Publish("report", "PROFILE_SUMMARY", ids, body))
    BY <1>3 DEF ProfileDataset
  <2>2. ids \subseteq DOMAIN artifacts /\ s \in Steps /\ s # "technical-manifest"
    BY Found, StepNames
  <2>3. ~MustBeClean("report", "PROFILE_SUMMARY")
    BY DEF MustBeClean, FittedKinds
  <2> HIDE DEF ids, s
  <2> QED
    BY <2>1, <2>2, <2>3, InvPublish
<1>4. CASE ValidateTarget
  <2> DEFINE s == "validate-target"
             ids == FirstOf(s, "input")
  <2>1. PICK ok, body : IsDue(s) /\ Run(s, ok, Publish("report", "SPLIT_SUMMARY", ids, body))
    BY <1>4 DEF ValidateTarget
  <2>2. ids \subseteq DOMAIN artifacts /\ s \in Steps /\ s # "technical-manifest"
    BY Found, StepNames
  <2>3. ~MustBeClean("report", "SPLIT_SUMMARY")
    BY DEF MustBeClean, FittedKinds
  <2> HIDE DEF ids, s
  <2> QED
    BY <2>1, <2>2, <2>3, InvPublish
<1>5. CASE SampleDefinition
  <2> DEFINE s == "sample-definition"
             ids == FirstOf(s, "input")
  <2>1. PICK ok, body :
               IsDue(s) /\ Run(s, ok, Publish("definition", "SAMPLE_DEFINITION", ids, body))
    BY <1>5 DEF SampleDefinition
  <2>2. ids \subseteq DOMAIN artifacts /\ s \in Steps /\ s # "technical-manifest"
    BY Found, StepNames
  <2>3. ~MustBeClean("definition", "SAMPLE_DEFINITION")
    BY DEF MustBeClean, FittedKinds
  <2> HIDE DEF ids, s
  <2> QED
    BY <2>1, <2>2, <2>3, InvPublish
<1> QED
  BY <1>1, <1>2, <1>3, <1>4, <1>5

LEMMA InvFrames ==
  ASSUME Inv, NEW s \in Steps, s # "technical-manifest", IsDue(s),
         NEW ok, NEW frames, NEW kind, NEW ids, NEW body,
         Run(s, ok, PublishFrames(frames, kind, ids, body)),
         ids \subseteq DOMAIN artifacts, ~MustBeClean("report", kind),
         \A role \in DOMAIN frames :
           /\ role \in {"input", "train", "test", "oot"}
           /\ frames[role].from \subseteq SampleRoles
           /\ role \in {"input", "train"} => frames[role].from \subseteq {"train"}
  PROVE Inv'
<1> DEFINE outputs == PublishFrames(frames, kind, ids, body)
<1>1. DOMAIN outputs = {<<role, "FRAME">> : role \in DOMAIN frames} \cup {<<"report", kind>>}
  BY DEF PublishFrames
<1>2. \A role \in DOMAIN frames : outputs[<<role, "FRAME">>] = frames[role]
  BY DEF PublishFrames
<1>3. outputs[<<"report", kind>>].from = From(ids)
  BY DEF PublishFrames, Derived
<1> HIDE DEF outputs
<1>4. ASSUME NEW k \in DOMAIN outputs
      PROVE  /\ outputs[<<k[1], k[2]>>].from \subseteq SampleRoles
             /\ MustBeClean(k[1], k[2]) => outputs[<<k[1], k[2]>>].from \subseteq {"train"}
             /\ k[1] # "manifest"
  <2>1. CASE k = <<"report", kind>>
    BY <1>3, <2>1, FromIds
  <2>2. CASE \E role \in DOMAIN frames : k = <<role, "FRAME">>
    <3>1. PICK role \in DOMAIN frames : k = <<role, "FRAME">>
      BY <2>2
    <3>2. MustBeClean(k[1], k[2]) => role \in {"input", "train"}
      BY <3>1 DEF MustBeClean, FittedKinds
    <3> QED
      BY <1>2, <3>1, <3>2
  <2> QED
    BY <1>1, <2>1, <2>2
<1>5. Run(s, ok, outputs)
  BY DEF outputs
<1>6. MayPublish(outputs) /\ HasManifest(s, outputs)
  BY <1>4 DEF MayPublish, HasManifest
<1> QED
  BY <1>5, <1>6, InvRun

LEMMA InvExclusions == ASSUME Inv, ApplyExclusions PROVE Inv'
<1> DEFINE input == FirstOf("apply-exclusions", "input")
<1>1. PICK ok, kept :
        /\ IsDue("apply-exclusions")
        /\ Run("apply-exclusions", ok,
               PublishFrames([role \in {"input"} |-> Derived(input, kept)],
                             "EXCLUSION_SUMMARY", input, Len(kept)))
  BY DEF ApplyExclusions
<1>2. /\ input \subseteq DOMAIN artifacts
      /\ From(input) \subseteq SampleRoles /\ From(input) \subseteq {"train"}
  BY CleanRole, FromIds, Found
<1> HIDE DEF input
<1>3. ~MustBeClean("report", "EXCLUSION_SUMMARY")
  BY DEF MustBeClean, FittedKinds
<1>4. Derived(input, kept).from = From(input)
  BY DEF Derived
<1> QED
  BY <1>1, <1>2, <1>3, <1>4, StepNames, InvFrames

LEMMA InvSplit == ASSUME Inv, Split PROVE Inv'
<1> DEFINE input == FirstOf("split", "input")
           frame == Body(input)
           Sample(order, role) ==
             At(frame, {n \in DOMAIN frame : SplitRole(frame, order)[n] = role})
           frames(order) ==
             [role \in SampleRoles |-> [from |-> {role}, body |-> Sample(order, role)]]
<1>1. PICK order, ok :
        /\ IsDue("split")
        /\ Run("split", ok, PublishFrames(frames(order), "SPLIT_SUMMARY", input, Len(frame)))
  BY DEF Split
<1>2. /\ DOMAIN frames(order) = SampleRoles
      /\ \A role \in SampleRoles : frames(order)[role].from = {role}
  OBVIOUS
<1>3. ~MustBeClean("report", "SPLIT_SUMMARY")
  BY DEF MustBeClean, FittedKinds
<1>4. input \subseteq DOMAIN artifacts /\ "split" \in Steps
  BY Found, StepNames
<1> HIDE DEF frames, input
<1> QED
  BY <1>1, <1>2, <1>3, <1>4, InvFrames DEF SampleRoles

LEMMA InvTreatment == ASSUME Inv, TreatMissingAndOutliers PROVE Inv'
<1> DEFINE s == Treatment
           Treat(row, t) == [row EXCEPT !.x = [v \in Variables |-> Treated(@[v], v, t)]]
           Sample(role, t) ==
             LET frame == Body(OfRole(s, role)) IN
             Derived(OfRole(s, role), [n \in DOMAIN frame |-> Treat(frame[n], t)])
           frames(t) == [role \in RolesOf(Samples(s)) |-> Sample(role, t)]
<1>1. PICK t, ok :
        IsDue(s) /\ Run(s, ok, PublishFrames(frames(t), "EXCLUSION_SUMMARY", Samples(s), t))
  BY DEF TreatMissingAndOutliers
<1>2. /\ DOMAIN frames(t) = RolesOf(Samples(s))
      /\ \A role \in RolesOf(Samples(s)) : frames(t)[role].from = From(OfRole(s, role))
  BY DEF Derived
<1>3. /\ From(OfRole(s, "train")) \subseteq {"train"}
      /\ \A role : From(OfRole(s, role)) \subseteq SampleRoles
      /\ Samples(s) \subseteq DOMAIN artifacts /\ s \in Steps /\ s # "technical-manifest"
  BY CleanRole, FromIds, Found, StepNames, NamesDiffer
<1>4. ~MustBeClean("report", "EXCLUSION_SUMMARY")
  BY DEF MustBeClean, FittedKinds
<1> HIDE DEF frames, s
<1>5. \A role \in DOMAIN frames(t) :
        /\ role \in {"input", "train", "test", "oot"}
        /\ frames(t)[role].from \subseteq SampleRoles
        /\ role \in {"input", "train"} => frames(t)[role].from \subseteq {"train"}
  BY <1>2, <1>3, Found
<1> QED
  BY <1>1, <1>3, <1>4, <1>5, InvFrames

-----------------------------------------------------------------------------
(* The steps that fit.                                                     *)

LEMMA InvBinning == ASSUME Inv, AutomaticBinning PROVE Inv'
<1> DEFINE s == "automatic-binning"
           ids == FirstOf(s, "train") \cup OfKind(s, "MODELLING_METADATA")
<1>1. PICK ok, body : IsDue(s) /\ Run(s, ok, Publish("definition", "BIN_DEFINITION", ids, body))
  BY DEF AutomaticBinning
<1>2. ids \subseteq CleanIds /\ ids \subseteq DOMAIN artifacts
  BY CleanRole, CleanKind, Found DEF FittedKinds
<1>3. s \in Steps /\ s # "technical-manifest"
  BY StepNames
<1> HIDE DEF ids, s
<1> QED
  BY <1>1, <1>2, <1>3, InvPublish

LEMMA InvWoeIv ==
  ASSUME Inv, NEW s \in Steps, s # "technical-manifest", IsDue(s), NEW p, CalculateWoeIv(s, p)
  PROVE Inv'
<1> DEFINE definition == OfKind(s, "BIN_DEFINITION")
           ids == FirstOf(s, "train") \cup definition \cup OfKind(s, "MODELLING_METADATA")
           bins == Body(definition)
           table == [v \in DOMAIN bins |->
                       WoeRows(Column(Body(FirstOf(s, "train")), v), bins[v], KindOf(v),
                               p.smoothing)]
           BodyOf(kind) ==
             CASE kind = "WOE_TABLE" -> table
               [] kind = "IV_TABLE" -> [v \in DOMAIN bins |-> IsInformative(table[v])]
               [] OTHER -> p.purpose
           tables == {<<"report", kind>> :
                        kind \in {"WOE_TABLE", "IV_TABLE", "SUMMARY", "WOE_IV_EVIDENCE"}}
           outputs == [k \in tables |-> Derived(ids, BodyOf(k[2]))]
<1>1. PICK ok : Run(s, ok, outputs)
  BY DEF CalculateWoeIv
<1>2. From(ids) \subseteq {"train"} /\ From(ids) \subseteq SampleRoles
  <2>1. ids \subseteq CleanIds /\ ids \subseteq DOMAIN artifacts
    BY CleanRole, CleanKind, Found DEF FittedKinds
  <2> HIDE DEF ids
  <2> QED
    BY <2>1, FromIds
<1>3. \A k \in DOMAIN outputs :
        k[1] = "report" /\ outputs[<<k[1], k[2]>>].from = From(ids)
  <2> HIDE DEF ids, BodyOf
  <2> QED
    BY DEF Derived
<1> HIDE DEF outputs, ids
<1> QED
  BY <1>1, <1>2, <1>3, InvRun DEF MayPublish, HasManifest

LEMMA InvClustering == ASSUME Inv, VariableClustering PROVE Inv'
<1> DEFINE s == "variable-clustering"
           ids == FirstOf(s, "train") \cup OfKind(s, "IV_TABLE")
<1>1. PICK ok, body : IsDue(s) /\ Run(s, ok, Publish("report", "VARIABLE_CLUSTERING", ids, body))
  BY DEF VariableClustering
<1>2. ids \subseteq CleanIds /\ ids \subseteq DOMAIN artifacts
  BY CleanRole, CleanKind, Found DEF FittedKinds
<1>3. s \in Steps /\ s # "technical-manifest"
  BY StepNames
<1> HIDE DEF ids, s
<1> QED
  BY <1>1, <1>2, <1>3, InvPublish

LEMMA InvSelection == ASSUME Inv, VariableSelection PROVE Inv'
<1> DEFINE s == "variable-selection"
           ids == OfKind(s, "IV_TABLE") \cup OfKind(s, "VARIABLE_CLUSTERING")
<1>1. PICK ok, body :
             IsDue(s) /\ Run(s, ok, Publish("definition", "SELECTION_DEFINITION", ids, body))
  BY DEF VariableSelection
<1>2. ids \subseteq CleanIds /\ ids \subseteq DOMAIN artifacts
  BY CleanKind, Found DEF FittedKinds
<1>3. s \in Steps /\ s # "technical-manifest"
  BY StepNames
<1> HIDE DEF ids, s
<1> QED
  BY <1>1, <1>2, <1>3, InvPublish

LEMMA InvManual == ASSUME Inv, ManualBinning PROVE Inv'
<1> DEFINE s == "manual-binning"
           ids == OfKind(s, "BIN_DEFINITION") \cup OfKind(s, "SELECTION_DEFINITION")
<1>1. PICK ok, body : IsDue(s) /\ Run(s, ok, Publish("definition", "BIN_DEFINITION", ids, body))
  BY DEF ManualBinning
<1>2. ids \subseteq CleanIds /\ ids \subseteq DOMAIN artifacts
  BY CleanKind, Found DEF FittedKinds
<1>3. s \in Steps /\ s # "technical-manifest"
  BY StepNames
<1> HIDE DEF ids, s
<1> QED
  BY <1>1, <1>2, <1>3, InvPublish

LEMMA InvTransform == ASSUME Inv, WoeTransformTrain PROVE Inv'
<1> DEFINE s == "woe-transform-train"
           weights == OfKind(s, "WOE_TABLE")
           selection == OfKind(s, "SELECTION_DEFINITION")
           definition == OfKind(s, "BIN_DEFINITION")
           train == FirstOf(s, "train")
           ids == train \cup (definition \cup weights \cup selection)
           chosen == ToSet(Body(selection).selected) \cap DOMAIN Body(definition)
           frame == Weighted(Body(train), Body(definition), Body(weights), chosen)
           frames == [role \in {"train"} |-> Derived(ids, frame)]
<1>1. PICK ok :
        IsDue(s) /\ Run(s, ok, PublishFrames(frames, "WOE_TRANSFORM_EVIDENCE", ids, chosen))
  BY DEF WoeTransformTrain
<1>2. ids \subseteq CleanIds /\ ids \subseteq DOMAIN artifacts /\ s \in Steps
        /\ s # "technical-manifest"
  BY CleanRole, CleanKind, Found, StepNames DEF FittedKinds
<1>3. DOMAIN frames = {"train"} /\ frames["train"].from = From(ids)
  BY DEF Derived
<1>4. ~MustBeClean("report", "WOE_TRANSFORM_EVIDENCE")
  BY DEF MustBeClean, FittedKinds
<1> HIDE DEF frames, ids, s
<1>5. From(ids) \subseteq {"train"} /\ From(ids) \subseteq SampleRoles
  BY <1>2, FromIds
<1> QED
  BY <1>1, <1>2, <1>3, <1>4, <1>5, InvFrames

LEMMA InvModel == ASSUME Inv, ModelFit PROVE Inv'
<1> DEFINE s == "model-fit"
           ids == FirstOf(s, "train") \cup OfKind(s, "MODELLING_METADATA")
                  \cup OfKind(s, "SELECTION_DEFINITION")
<1>1. PICK ok, body : IsDue(s) /\ Run(s, ok, Publish("model", "MODEL_ARTIFACT", ids, body))
  BY DEF ModelFit
<1>2. ids \subseteq CleanIds /\ ids \subseteq DOMAIN artifacts
  BY CleanRole, CleanKind, Found DEF FittedKinds
<1>3. s \in Steps /\ s # "technical-manifest"
  BY StepNames
<1> HIDE DEF ids, s
<1> QED
  BY <1>1, <1>2, <1>3, InvPublish

LEMMA InvScaling == ASSUME Inv, ScoreScaling PROVE Inv'
<1> DEFINE s == "score-scaling"
           ids == FirstOf(s, "model") \cup OfKind(s, "BIN_DEFINITION") \cup OfKind(s, "WOE_TABLE")
<1>1. PICK ok, body : IsDue(s) /\ Run(s, ok, Publish("scorecard", "SCORE_SCALING", ids, body))
  BY DEF ScoreScaling
<1>2. ids \subseteq CleanIds /\ ids \subseteq DOMAIN artifacts
  BY CleanRole, CleanKind, Found DEF FittedKinds
<1>3. s \in Steps /\ s # "technical-manifest"
  BY StepNames
<1> HIDE DEF ids, s
<1> QED
  BY <1>1, <1>2, <1>3, InvPublish

LEMMA InvBundle == ASSUME Inv, Freeze PROVE Inv'
<1> DEFINE s == Bundle
           pins == [model |-> FirstOf(s, "model"), scorecard |-> OfKind(s, "SCORE_SCALING"),
                    bins |-> OfKind(s, "BIN_DEFINITION"), woes |-> OfKind(s, "WOE_TABLE"),
                    selection |-> OfKind(s, "SELECTION_DEFINITION")]
           ids == UNION {pins[field] : field \in DOMAIN pins}
<1>1. PICK ok, body :
             IsDue(s) /\ Run(s, ok, Publish("scorecard", "FROZEN_SCORECARD_BUNDLE", ids, body))
  BY DEF Freeze
<1>2. ids \subseteq CleanIds /\ ids \subseteq DOMAIN artifacts
  <2>1. \A field \in DOMAIN pins : pins[field] \subseteq CleanIds
    BY CleanRole, CleanKind DEF FittedKinds
  <2> QED
    BY <2>1, Found, StepNames DEF CleanIds
<1>3. s \in Steps /\ s # "technical-manifest"
  BY StepNames, NamesDiffer
<1> HIDE DEF ids, s
<1> QED
  BY <1>1, <1>2, <1>3, InvPublish

-----------------------------------------------------------------------------
(* The steps that apply, and the ones that report.                         *)

LEMMA InvApplyWoe == ASSUME Inv, ApplyWoe PROVE Inv'
<1> DEFINE s == "apply-woe"
           definition == OfKind(s, "BIN_DEFINITION")
           weights == OfKind(s, "WOE_TABLE")
           selection == OfKind(s, "SELECTION_DEFINITION")
           fitted == definition \cup weights \cup selection
           bins == Body(definition)
           chosen == ToSet(Body(selection).selected) \cap DOMAIN bins
           Sample(role) == Weighted(Body(OfRole(s, role)), bins, Body(weights), chosen)
           frames == [role \in RolesOf(Samples(s)) |->
                        Derived(OfRole(s, role) \cup fitted, Sample(role))]
<1>1. PICK ok, ids :
        /\ IsDue(s) /\ Run(s, ok, PublishFrames(frames, "APPLY_WOE_EVIDENCE", ids, chosen))
        /\ ids \subseteq DOMAIN artifacts /\ s \in Steps /\ s # "technical-manifest"
  BY Found, StepNames DEF ApplyWoe
<1>2. /\ DOMAIN frames = RolesOf(Samples(s))
      /\ \A role \in RolesOf(Samples(s)) : frames[role].from = From(OfRole(s, role) \cup fitted)
  BY DEF Derived
<1>3. /\ From(OfRole(s, "train") \cup fitted) \subseteq {"train"}
      /\ \A role : From(OfRole(s, role) \cup fitted) \subseteq SampleRoles
  <2>1. OfRole(s, "train") \cup fitted \subseteq CleanIds
    BY CleanRole, CleanKind DEF FittedKinds
  <2>2. \A role : OfRole(s, role) \cup fitted \subseteq DOMAIN artifacts
    BY Found
  <2> HIDE DEF fitted, s
  <2> QED
    BY <2>1, <2>2, FromIds
<1>4. ~MustBeClean("report", "APPLY_WOE_EVIDENCE")
  BY DEF MustBeClean, FittedKinds
<1> HIDE DEF frames, fitted, s
<1>5. \A role \in DOMAIN frames :
        /\ role \in {"input", "train", "test", "oot"}
        /\ frames[role].from \subseteq SampleRoles
        /\ role \in {"input", "train"} => frames[role].from \subseteq {"train"}
  BY <1>2, <1>3, Found
<1> QED
  BY <1>1, <1>3, <1>4, <1>5, InvFrames

LEMMA InvApplyModel == ASSUME Inv, ApplyModel PROVE Inv'
<1> DEFINE s == "apply-model"
           model == FirstOf(s, "model")
           scorecard == FirstOf(s, "scorecard")
           features == Body(model).features
           Scored(role) ==
             LET frame == Body(OfRole(s, role)) IN
             [n \in DOMAIN frame |-> [frame[n] EXCEPT !.woe = [v \in features |-> @[v]]]]
           frames == [role \in RolesOf(Samples(s)) |->
                        Derived(OfRole(s, role) \cup model \cup scorecard, Scored(role))]
<1>1. PICK ok, ids :
        /\ IsDue(s) /\ Run(s, ok, PublishFrames(frames, "APPLY_MODEL_EVIDENCE", ids, features))
        /\ ids \subseteq DOMAIN artifacts /\ s \in Steps /\ s # "technical-manifest"
  BY Found, StepNames DEF ApplyModel
<1>2. /\ DOMAIN frames = RolesOf(Samples(s))
      /\ \A role \in RolesOf(Samples(s)) :
           frames[role].from = From(OfRole(s, role) \cup model \cup scorecard)
  BY DEF Derived
<1>3. /\ From(OfRole(s, "train") \cup model \cup scorecard) \subseteq {"train"}
      /\ \A role : From(OfRole(s, role) \cup model \cup scorecard) \subseteq SampleRoles
  <2>1. OfRole(s, "train") \cup model \cup scorecard \subseteq CleanIds
    BY CleanRole
  <2>2. \A role : OfRole(s, role) \cup model \cup scorecard \subseteq DOMAIN artifacts
    BY Found
  <2> HIDE DEF model, scorecard, s
  <2> QED
    BY <2>1, <2>2, FromIds
<1>4. ~MustBeClean("report", "APPLY_MODEL_EVIDENCE")
  BY DEF MustBeClean, FittedKinds
<1> HIDE DEF frames, model, scorecard, s
<1>5. \A role \in DOMAIN frames :
        /\ role \in {"input", "train", "test", "oot"}
        /\ frames[role].from \subseteq SampleRoles
        /\ role \in {"input", "train"} => frames[role].from \subseteq {"train"}
  BY <1>2, <1>3, Found
<1> QED
  BY <1>1, <1>3, <1>4, <1>5, InvFrames

LEMMA InvMetrics == ASSUME Inv, ValidationMetrics PROVE Inv'
<1> DEFINE s == "validation-metrics"
           ids == OfKind(s, "MODELLING_METADATA") \cup OfKind(s, "APPLY_MODEL_EVIDENCE")
                    \cup Samples(s)
           report(passed) == Publish("report", "VALIDATION_METRICS", ids, passed)
<1>1. s \in Steps /\ IsDue(s) /\ s # "technical-manifest"
  BY StepNames DEF ValidationMetrics
<1>2. \/ Fail
      \/ \E passed \in BOOLEAN :
           \/ Succeed(s, report(passed))
           \/ /\ artifacts' = Published(s, report(passed))
              /\ state' = "failed"
              /\ UNCHANGED done
  BY DEF ValidationMetrics
<1>3. ids \subseteq DOMAIN artifacts
  BY Found
<1>4. ASSUME NEW passed
      PROVE /\ DOMAIN report(passed) = {<<"report", "VALIDATION_METRICS">>}
            /\ report(passed)[<<"report", "VALIDATION_METRICS">>].from = From(ids)
  BY DEF Publish, Derived
<1>5. ~MustBeClean("report", "VALIDATION_METRICS")
  BY DEF MustBeClean, FittedKinds
<1> HIDE DEF report, ids, s
<1>6. \A passed : MayPublish(report(passed))
  BY <1>3, <1>4, <1>5, FromIds DEF MayPublish
<1>7. CASE Fail
  BY <1>1, <1>7, InvFail DEF IsDue
<1>8. ASSUME NEW passed, Succeed(s, report(passed)) PROVE Inv'
  BY <1>1, <1>6, <1>8, InvSucceed DEF HasManifest
<1>9. ASSUME NEW passed, artifacts' = Published(s, report(passed)), state' = "failed", done' = done
      PROVE Inv'
  <2>1. Clean'
    BY <1>6, <1>9, CleanPublished
  <2>2. \A id \in DOMAIN artifacts' :
          /\ artifacts'[id].from \in SUBSET SampleRoles
          /\ id[1] \in done' \/ id[3] \in {"RUN_SUMMARY", "VALIDATION_METRICS"}
    BY <1>4, <1>6, <1>9, TypePublished
  <2>3. Listed'
    BY <1>6, <1>9, ListedKept
  <2> QED
    BY <1>1, <1>9, <2>1, <2>2, <2>3 DEF Inv, TypeOK, StepOf, Kind, IsDue
<1> QED
  BY <1>2, <1>7, <1>8, <1>9

LEMMA InvSummary == ASSUME Inv, PublishRunSummary PROVE Inv'
<1> DEFINE s == "technical-manifest"
           outputs == Publish("manifest", "RUN_SUMMARY", {}, done)
<1>1. artifacts' = Published(s, outputs) /\ UNCHANGED <<state, done>>
  BY DEF PublishRunSummary
<1>2. /\ DOMAIN outputs = {<<"manifest", "RUN_SUMMARY">>}
      /\ outputs[<<"manifest", "RUN_SUMMARY">>].from = {}
      /\ outputs[<<"manifest", "RUN_SUMMARY">>].body = Others
  BY ManifestIsLast DEF Publish, Derived, From, PublishRunSummary
<1> HIDE DEF outputs, s
<1>3. MayPublish(outputs)
  BY <1>2 DEF MayPublish
<1>4. Clean'
  BY <1>1, <1>3, CleanPublished
<1>5. \A id \in DOMAIN artifacts' :
        /\ artifacts'[id].from \in SUBSET SampleRoles
        /\ id[1] \in done' \/ id[3] \in {"RUN_SUMMARY", "VALIDATION_METRICS"}
  BY <1>1, <1>2, <1>3, TypePublished
<1>6. Listed'
  BY <1>1, <1>3, ListedKept
<1> QED
  BY <1>1, <1>4, <1>5, <1>6 DEF Inv, TypeOK, StepOf, Kind

LEMMA InvReports ==
  ASSUME Inv,
         \/ CoefficientSignCheck \/ SeparationDiagnostics \/ VifDiagnostics \/ BuildSummary
         \/ CalibrationDiagnostics \/ CutoffAnalysis \/ ScorecardTableExport
         \/ ScoringExportPython \/ ScoringExportSql \/ TechnicalManifest
  PROVE Inv'
<1>1. CASE CoefficientSignCheck
  <2> DEFINE s == "coefficient-sign-check"
             ids == {id \in OfKind(s, "WOE_IV_EVIDENCE") : artifacts[id].body = "final"}
                      \cup FirstOf(s, "model")
  <2>1. PICK ok, body :
               IsDue(s) /\ Run(s, ok, Publish("report", "COEFFICIENT_SIGN_DIAGNOSTICS", ids, body))
    BY <1>1 DEF CoefficientSignCheck
  <2>2. ids \subseteq DOMAIN artifacts /\ s \in Steps /\ s # "technical-manifest"
    BY Found, StepNames
  <2>3. ~MustBeClean("report", "COEFFICIENT_SIGN_DIAGNOSTICS")
    BY DEF MustBeClean, FittedKinds
  <2> HIDE DEF ids, s
  <2> QED
    BY <2>1, <2>2, <2>3, InvPublish
<1>2. CASE SeparationDiagnostics
  <2> DEFINE s == "separation-diagnostics"
             ids == FirstOf(s, "model")
  <2>1. PICK ok, body :
               IsDue(s) /\ Run(s, ok, Publish("report", "SEPARATION_DIAGNOSTICS", ids, body))
    BY <1>2 DEF SeparationDiagnostics
  <2>2. ids \subseteq DOMAIN artifacts /\ s \in Steps /\ s # "technical-manifest"
    BY Found, StepNames
  <2>3. ~MustBeClean("report", "SEPARATION_DIAGNOSTICS")
    BY DEF MustBeClean, FittedKinds
  <2> HIDE DEF ids, s
  <2> QED
    BY <2>1, <2>2, <2>3, InvPublish
<1>3. CASE VifDiagnostics
  <2> DEFINE s == "vif-diagnostics"
             ids == FirstOf(s, "train") \cup FirstOf(s, "model")
  <2>1. PICK ok, body : IsDue(s) /\ Run(s, ok, Publish("report", "VIF_DIAGNOSTICS", ids, body))
    BY <1>3 DEF VifDiagnostics
  <2>2. ids \subseteq DOMAIN artifacts /\ s \in Steps /\ s # "technical-manifest"
    BY Found, StepNames
  <2>3. ~MustBeClean("report", "VIF_DIAGNOSTICS")
    BY DEF MustBeClean, FittedKinds
  <2> HIDE DEF ids, s
  <2> QED
    BY <2>1, <2>2, <2>3, InvPublish
<1>4. CASE BuildSummary
  <2> DEFINE s == "build-summary-report"
             ids == FirstOf(s, "scorecard") \cup FirstOf(s, "model")
                    \cup OfKind(s, "IV_TABLE") \cup OfKind(s, "WOE_TABLE")
  <2>1. PICK ok, body : IsDue(s) /\ Run(s, ok, Publish("report", "SUMMARY", ids, body))
    BY <1>4 DEF BuildSummary
  <2>2. ids \subseteq DOMAIN artifacts /\ s \in Steps /\ s # "technical-manifest"
    BY Found, StepNames
  <2>3. ~MustBeClean("report", "SUMMARY")
    BY DEF MustBeClean, FittedKinds
  <2> HIDE DEF ids, s
  <2> QED
    BY <2>1, <2>2, <2>3, InvPublish
<1>5. CASE CalibrationDiagnostics
  <2> DEFINE s == "calibration-diagnostics"
             ids == Samples(s) \cup OfRole(s, "model") \cup OfRole(s, "definition")
  <2>1. PICK ok, body :
               IsDue(s) /\ Run(s, ok, Publish("report", "CALIBRATION_DIAGNOSTICS", ids, body))
    BY <1>5 DEF CalibrationDiagnostics
  <2>2. ids \subseteq DOMAIN artifacts /\ s \in Steps /\ s # "technical-manifest"
    BY Found, StepNames
  <2>3. ~MustBeClean("report", "CALIBRATION_DIAGNOSTICS")
    BY DEF MustBeClean, FittedKinds
  <2> HIDE DEF ids, s
  <2> QED
    BY <2>1, <2>2, <2>3, InvPublish
<1>6. CASE CutoffAnalysis
  <2> DEFINE s == "cutoff-analysis"
             ids == Samples(s) \cup OfKind(s, "MODELLING_METADATA")
  <2>1. PICK ok, body : IsDue(s) /\ Run(s, ok, Publish("report", "CUTOFF_ANALYSIS", ids, body))
    BY <1>6 DEF CutoffAnalysis
  <2>2. ids \subseteq DOMAIN artifacts /\ s \in Steps /\ s # "technical-manifest"
    BY Found, StepNames
  <2>3. ~MustBeClean("report", "CUTOFF_ANALYSIS")
    BY DEF MustBeClean, FittedKinds
  <2> HIDE DEF ids, s
  <2> QED
    BY <2>1, <2>2, <2>3, InvPublish
<1>7. CASE ScorecardTableExport
  <2> DEFINE s == "scorecard-table-export"
             ids == OfKind(s, "SCORE_SCALING")
  <2>1. PICK ok, body : IsDue(s) /\ Run(s, ok, Publish("report", "SCORE_TABLE", ids, body))
    BY <1>7 DEF ScorecardTableExport
  <2>2. ids \subseteq DOMAIN artifacts /\ s \in Steps /\ s # "technical-manifest"
    BY Found, StepNames
  <2>3. ~MustBeClean("report", "SCORE_TABLE")
    BY DEF MustBeClean, FittedKinds
  <2> HIDE DEF ids, s
  <2> QED
    BY <2>1, <2>2, <2>3, InvPublish
<1>8. CASE TechnicalManifest
  <2> DEFINE s == "technical-manifest"
             ids == FirstOf(s, "manifest")
             body == Body(ids)
  <2>1. PICK ok : /\ IsDue(s) /\ ids # {}
                  /\ Run(s, ok, Publish("manifest", "TECHNICAL_MANIFEST_INDEX", ids, body))
    BY <1>8 DEF TechnicalManifest
  <2>2. ids \subseteq DOMAIN artifacts /\ s \in Steps
    BY Found, StepNames
  <2>3. ~MustBeClean("manifest", "TECHNICAL_MANIFEST_INDEX")
    BY DEF MustBeClean, FittedKinds
  <2>4. body = Others
    <3>1. \A id \in ids : artifacts[id].body = Others
      BY <2>2 DEF FirstOf, OfRole, Inv, Listed
    <3> QED
      BY <2>1, <3>1 DEF Body
  <2> HIDE DEF ids, s, body
  <2> QED
    BY <2>1, <2>2, <2>3, <2>4, InvPublish
<1>9. ASSUME NEW s \in Steps, s # "technical-manifest",
             NEW kind \in {"SCORING_EXPORT_PYTHON", "SCORING_EXPORT_SQL"},
             ScorerExport(s, kind)
      PROVE Inv'
  <2> DEFINE ids == OfKind(s, "FROZEN_SCORECARD_BUNDLE") \cup FirstOf(s, "model")
                    \cup OfKind(s, "SCORE_SCALING") \cup OfKind(s, "BIN_DEFINITION")
                    \cup OfKind(s, "WOE_TABLE")
  <2>1. PICK ok, body : IsDue(s) /\ Run(s, ok, Publish("report", kind, ids, body))
    BY <1>9 DEF ScorerExport
  <2>2. ids \subseteq DOMAIN artifacts
    BY Found
  <2>3. ~MustBeClean("report", kind)
    BY <1>9 DEF MustBeClean, FittedKinds
  <2> HIDE DEF ids
  <2> QED
    BY <1>9, <2>1, <2>2, <2>3, InvPublish
<1>10. CASE ScoringExportPython \/ ScoringExportSql
  BY <1>9, <1>10, StepNames DEF ScoringExportPython, ScoringExportSql
<1> QED
  BY <1>1, <1>2, <1>3, <1>4, <1>5, <1>6, <1>7, <1>8, <1>10

LEMMA InvStep == Inv /\ [Next]_vars => Inv'
<1> SUFFICES ASSUME Inv, [Next]_vars PROVE Inv'
  OBVIOUS
<1>1. CASE Prepare
  BY <1>1, InvPreparation, InvExclusions, InvSplit, InvTreatment DEF Prepare
<1>2. CASE InitialWoeIv \/ FinalWoeIv
  BY <1>2, InvWoeIv, StepNames DEF InitialWoeIv, FinalWoeIv
<1>3. CASE Build /\ ~(InitialWoeIv \/ FinalWoeIv)
  BY <1>3, InvBinning, InvClustering, InvSelection, InvManual, InvTransform,
     InvModel, InvScaling, InvBundle, InvReports DEF Build
<1>4. CASE Validate
  BY <1>4, InvApplyWoe, InvApplyModel, InvMetrics, InvSummary, InvReports DEF Validate
<1>5. CASE UNCHANGED vars
  BY <1>5 DEF vars, Inv, TypeOK, Clean, Listed
<1> QED
  BY <1>1, <1>2, <1>3, <1>4, <1>5 DEF Next

LEMMA InvInit == Init => Inv
BY StepNames DEF Init, Inv, TypeOK, Clean, Listed

(* A run is in a state of its type: it has succeeded exactly when all      *)
(* steps are done, and each of them after its parents.                     *)
THEOREM TypeCorrect == Spec => []TypeOK
<1>1. Inv => TypeOK
  BY DEF Inv
<1> QED
  BY <1>1, InvInit, InvStep, PTL DEF Spec

(* Nothing of a scorecard is made of the test or out-of-time sample,       *)
(* whatever the data, the order of the split, the parameters of the nodes  *)
(* and the overrides are.                                                  *)
THEOREM NothingEverLeaks == Spec => []NothingLeaks
<1>1. Inv => NothingLeaks
  BY DEF Inv, Clean, NothingLeaks, MustBeClean
<1> QED
  BY <1>1, InvInit, InvStep, PTL DEF Spec

(* The manifest of a run that has succeeded lists every other step,        *)
(* although the plan makes it wait for six of them only.                   *)
THEOREM ManifestListsEverything == Spec => []ManifestListsAll
<1>1. Inv => ManifestListsAll
  <2> SUFFICES ASSUME Inv, state = "succeeded"
               PROVE artifacts[<<"technical-manifest", "manifest",
                                 "TECHNICAL_MANIFEST_INDEX">>].body = Others
    BY DEF ManifestListsAll, Content, Others
  <2>1. "technical-manifest" \in done
    BY StepNames DEF Inv, TypeOK
  <2> QED
    BY <2>1 DEF Inv, Listed, Role
<1> QED
  BY <1>1, InvInit, InvStep, PTL DEF Spec

-----------------------------------------------------------------------------
(* What the steps publish.                                                 *)

FrameRoles == {"input", "train", "test", "oot"}

ArtifactOK(s, role, kind, body) ==
  /\ role \in FrameRoles => IsFiniteSet(DOMAIN body)
  /\ kind = "BIN_DEFINITION" =>
       /\ role = "definition" /\ s \in {"automatic-binning", "manual-binning"}
       /\ IsFiniteSet(DOMAIN body)
       /\ \A v \in DOMAIN body : Ordered(body[v], KindOf(v))
  /\ kind = "WOE_TABLE" => role = "report" /\ s \in {"initial-woe-iv", "final-woe-iv"}
  /\ role = "model" => kind = "MODEL_ARTIFACT" /\ s = "model-fit"
  /\ kind = "IV_TABLE" => IsFiniteSet(DOMAIN body)
  /\ kind = "VARIABLE_CLUSTERING" => Disjoint(body.clusters)
  /\ kind = "SELECTION_DEFINITION" => KeepsItsRules(body)

ContentsOK ==
  \A id \in DOMAIN artifacts :
    /\ id = <<id[1], id[2], id[3]>>
    /\ ArtifactOK(id[1], id[2], id[3], artifacts[id].body)

BinsId == <<"manual-binning", "definition", "BIN_DEFINITION">>
WeightsId == <<"final-woe-iv", "report", "WOE_TABLE">>
ModelId == <<"model-fit", "model", "MODEL_ARTIFACT">>
ClusteringId == <<"variable-clustering", "report", "VARIABLE_CLUSTERING">>
SelectionId == <<"variable-selection", "definition", "SELECTION_DEFINITION">>

(* What an exporter has rendered: for each feature of the model, bins and  *)
(* weights of the scorecard.                                               *)
Exporters == {"scoring-export-python", "scoring-export-sql"}
ScorerKind(s) ==
  IF s = "scoring-export-python" THEN "SCORING_EXPORT_PYTHON" ELSE "SCORING_EXPORT_SQL"

Rendered(body, model, bins, table) ==
  /\ DOMAIN body = model.features /\ DOMAIN body \subseteq DOMAIN bins
  /\ \A v \in DOMAIN body :
       /\ Compiles(bins[v], KindOf(v), table[v])
       /\ body[v] = Compiled(bins[v], table[v])

StepsOK ==
  /\ \A s \in Exporters : s \in done =>
       /\ {"manual-binning", "final-woe-iv", "model-fit"} \subseteq done
       /\ {BinsId, WeightsId, ModelId, <<s, "report", ScorerKind(s)>>} \subseteq DOMAIN artifacts
       /\ Rendered(artifacts[<<s, "report", ScorerKind(s)>>].body,
                   artifacts[ModelId].body, artifacts[BinsId].body, artifacts[WeightsId].body)
  /\ "variable-clustering" \in done => ClusteringId \in DOMAIN artifacts
  /\ "variable-selection" \in done => SelectionId \in DOMAIN artifacts

ScorecardInv == ContentsOK /\ StepsOK

(* What a step may publish to keep the invariant.                          *)
MayWrite(s, outputs) ==
  /\ \A k \in DOMAIN outputs : ArtifactOK(s, k[1], k[2], outputs[<<k[1], k[2]>>].body)
  /\ s \in Exporters =>
       /\ {"manual-binning", "final-woe-iv", "model-fit"} \subseteq done
       /\ {BinsId, WeightsId, ModelId} \subseteq DOMAIN artifacts
       /\ <<"report", ScorerKind(s)>> \in DOMAIN outputs
       /\ Rendered(outputs[<<"report", ScorerKind(s)>>].body,
                   artifacts[ModelId].body, artifacts[BinsId].body, artifacts[WeightsId].body)
  /\ s = "variable-clustering" => <<"report", "VARIABLE_CLUSTERING">> \in DOMAIN outputs
  /\ s = "variable-selection" => <<"definition", "SELECTION_DEFINITION">> \in DOMAIN outputs

LEMMA WrittenContents ==
  ASSUME ContentsOK, NEW s, NEW outputs, artifacts' = Published(s, outputs), MayWrite(s, outputs)
  PROVE ContentsOK'
<1> SUFFICES ASSUME NEW id \in DOMAIN artifacts'
             PROVE /\ id = <<id[1], id[2], id[3]>>
                   /\ ArtifactOK(id[1], id[2], id[3], artifacts'[id].body)
  BY DEF ContentsOK, ArtifactOK
<1>1. CASE id \in DOMAIN artifacts /\ artifacts'[id] = artifacts[id]
  BY <1>1 DEF ContentsOK
<1>2. CASE \E k \in DOMAIN outputs :
             id = <<s, k[1], k[2]>> /\ artifacts'[id] = outputs[<<k[1], k[2]>>]
  <2>1. PICK k \in DOMAIN outputs :
               id = <<s, k[1], k[2]>> /\ artifacts'[id] = outputs[<<k[1], k[2]>>]
    BY <1>2
  <2>2. ArtifactOK(s, k[1], k[2], outputs[<<k[1], k[2]>>].body)
    BY DEF MayWrite
  <2> QED
    BY <2>1, <2>2
<1> QED
  BY <1>1, <1>2, PublishedArtifacts

(* The artifacts of the other steps stay, and the outputs are added.       *)
LEMMA KeptArtifacts ==
  ASSUME NEW s, NEW outputs, artifacts' = Published(s, outputs)
  PROVE /\ \A t, role, kind : t # s /\ <<t, role, kind>> \in DOMAIN artifacts =>
             /\ <<t, role, kind>> \in DOMAIN artifacts'
             /\ artifacts'[<<t, role, kind>>] = artifacts[<<t, role, kind>>]
        /\ \A role, kind : <<role, kind>> \in DOMAIN outputs =>
             /\ <<s, role, kind>> \in DOMAIN artifacts'
             /\ artifacts'[<<s, role, kind>>] = outputs[<<role, kind>>]
        /\ DOMAIN artifacts \subseteq DOMAIN artifacts'
<1> DEFINE new == {<<s, k[1], k[2]>> : k \in DOMAIN outputs}
<1>1. /\ DOMAIN artifacts' = DOMAIN artifacts \cup new
      /\ \A id \in DOMAIN artifacts' :
            artifacts'[id] = IF id \in new THEN outputs[<<id[2], id[3]>>] ELSE artifacts[id]
  BY DEF Published
<1>2. \A t, role, kind : t # s => <<t, role, kind>> \notin new
  OBVIOUS
<1>3. ASSUME NEW role, NEW kind, <<role, kind>> \in DOMAIN outputs PROVE <<s, role, kind>> \in new
  BY <1>3
<1> HIDE DEF new
<1> QED
  BY <1>1, <1>2, <1>3

LEMMA WrittenSteps ==
  ASSUME StepsOK, NEW s, s \notin done, NEW outputs, artifacts' = Published(s, outputs),
         MayWrite(s, outputs), done' = done \cup {s}
  PROVE StepsOK'
<1>1. ASSUME NEW t \in Exporters, t \in done'
      PROVE /\ {"manual-binning", "final-woe-iv", "model-fit"} \subseteq done'
            /\ {BinsId, WeightsId, ModelId, <<t, "report", ScorerKind(t)>>}
                 \subseteq DOMAIN artifacts'
            /\ Rendered(artifacts'[<<t, "report", ScorerKind(t)>>].body,
                        artifacts'[ModelId].body, artifacts'[BinsId].body,
                        artifacts'[WeightsId].body)
  <2> DEFINE id == <<t, "report", ScorerKind(t)>>
  <2>1. /\ {"manual-binning", "final-woe-iv", "model-fit"} \subseteq done
        /\ {BinsId, WeightsId, ModelId} \subseteq DOMAIN artifacts
    BY <1>1 DEF MayWrite, StepsOK
  <2>2. /\ BinsId \in DOMAIN artifacts' /\ artifacts'[BinsId] = artifacts[BinsId]
        /\ WeightsId \in DOMAIN artifacts' /\ artifacts'[WeightsId] = artifacts[WeightsId]
        /\ ModelId \in DOMAIN artifacts' /\ artifacts'[ModelId] = artifacts[ModelId]
    <3>1. s # "manual-binning" /\ s # "final-woe-iv" /\ s # "model-fit"
      BY <2>1
    <3> QED
      BY <2>1, <3>1, KeptArtifacts DEF BinsId, WeightsId, ModelId
  <2>3. /\ id \in DOMAIN artifacts'
        /\ Rendered(artifacts'[id].body,
                    artifacts[ModelId].body, artifacts[BinsId].body, artifacts[WeightsId].body)
    <3>1. CASE t = s
      BY <1>1, <3>1, KeptArtifacts DEF MayWrite
    <3>2. CASE t # s
      <4>1. /\ id \in DOMAIN artifacts
            /\ Rendered(artifacts[id].body,
                        artifacts[ModelId].body, artifacts[BinsId].body, artifacts[WeightsId].body)
        BY <1>1, <3>2 DEF StepsOK
      <4>2. id \in DOMAIN artifacts' /\ artifacts'[id] = artifacts[id]
        BY <3>2, <4>1, KeptArtifacts
      <4> QED
        BY <4>1, <4>2
    <3> QED
      BY <3>1, <3>2
  <2> QED
    BY <2>1, <2>2, <2>3
<1>2. "variable-clustering" \in done' => ClusteringId \in DOMAIN artifacts'
  BY KeptArtifacts DEF MayWrite, StepsOK, ClusteringId
<1>3. "variable-selection" \in done' => SelectionId \in DOMAIN artifacts'
  BY KeptArtifacts DEF MayWrite, StepsOK, SelectionId
<1> QED
  BY <1>1, <1>2, <1>3
     DEF StepsOK, Exporters, ScorerKind, BinsId, WeightsId, ModelId, ClusteringId, SelectionId

(* The same, of a step that publishes and is not done: the summary of the  *)
(* run and the report of a validation that fails.                          *)
LEMMA WrittenAside ==
  ASSUME StepsOK, NEW s, s \notin done, NEW outputs, artifacts' = Published(s, outputs),
         done' = done
  PROVE StepsOK'
<1>1. ASSUME NEW t \in done, NEW role, NEW kind, <<t, role, kind>> \in DOMAIN artifacts
      PROVE /\ <<t, role, kind>> \in DOMAIN artifacts'
            /\ artifacts'[<<t, role, kind>>] = artifacts[<<t, role, kind>>]
  BY <1>1, KeptArtifacts
<1>2. ASSUME NEW t \in Exporters, t \in done
      PROVE /\ {"manual-binning", "final-woe-iv", "model-fit"} \subseteq done
            /\ {BinsId, WeightsId, ModelId, <<t, "report", ScorerKind(t)>>}
                 \subseteq DOMAIN artifacts'
            /\ Rendered(artifacts'[<<t, "report", ScorerKind(t)>>].body,
                        artifacts'[ModelId].body, artifacts'[BinsId].body,
                        artifacts'[WeightsId].body)
  <2>1. /\ {"manual-binning", "final-woe-iv", "model-fit"} \subseteq done
        /\ {BinsId, WeightsId, ModelId, <<t, "report", ScorerKind(t)>>} \subseteq DOMAIN artifacts
        /\ Rendered(artifacts[<<t, "report", ScorerKind(t)>>].body,
                    artifacts[ModelId].body, artifacts[BinsId].body, artifacts[WeightsId].body)
    BY <1>2 DEF StepsOK
  <2>2. \A id \in {BinsId, WeightsId, ModelId, <<t, "report", ScorerKind(t)>>} :
          id \in DOMAIN artifacts' /\ artifacts'[id] = artifacts[id]
    BY <1>1, <1>2, <2>1 DEF BinsId, WeightsId, ModelId
  <2> QED
    BY <2>1, <2>2
<1>3. /\ "variable-clustering" \in done => ClusteringId \in DOMAIN artifacts'
      /\ "variable-selection" \in done => SelectionId \in DOMAIN artifacts'
  BY <1>1 DEF StepsOK, ClusteringId, SelectionId
<1> QED
  BY <1>2, <1>3
     DEF StepsOK, Exporters, ScorerKind, BinsId, WeightsId, ModelId, ClusteringId, SelectionId

LEMMA KeepRun ==
  ASSUME ScorecardInv, NEW s, IsDue(s), NEW ok, NEW outputs, Run(s, ok, outputs),
         HasRoles(s) /\ ok => MayWrite(s, outputs)
  PROVE ScorecardInv'
<1>1. CASE Fail
  BY <1>1 DEF Fail, ScorecardInv, ContentsOK, StepsOK, ArtifactOK
<1>2. CASE HasRoles(s) /\ ok /\ Succeed(s, outputs)
  <2>1. artifacts' = Published(s, outputs) /\ done' = done \cup {s} /\ s \notin done
    BY <1>2 DEF Succeed, IsDue, IsNext, IsReady
  <2> QED
    BY <1>2, <2>1, WrittenContents, WrittenSteps DEF ScorecardInv
<1> QED
  BY <1>1, <1>2 DEF Run

-----------------------------------------------------------------------------
(* The steps, one by one.  Most of them publish nothing that the invariant *)
(* is about.                                                               *)

BoundKinds ==
  {"BIN_DEFINITION", "WOE_TABLE", "IV_TABLE", "VARIABLE_CLUSTERING", "SELECTION_DEFINITION"}

IsFree(s) == s \notin Exporters /\ s # "variable-clustering" /\ s # "variable-selection"

LEMMA FreePublish ==
  ASSUME NEW s, IsFree(s), NEW role, role \notin FrameRoles, role # "model",
         NEW kind, kind \notin BoundKinds,
         NEW ids, NEW body
  PROVE MayWrite(s, Publish(role, kind, ids, body))
<1> DEFINE outputs == Publish(role, kind, ids, body)
<1>1. \A k \in DOMAIN outputs : k[1] = role /\ k[2] = kind
  BY DEF Publish
<1> HIDE DEF outputs
<1>2. \A k \in DOMAIN outputs : ArtifactOK(s, k[1], k[2], outputs[<<k[1], k[2]>>].body)
  BY <1>1 DEF ArtifactOK, BoundKinds
<1>3. MayWrite(s, outputs)
  BY <1>2 DEF MayWrite, IsFree
<1> QED
  BY <1>3 DEF outputs

LEMMA FreeFrames ==
  ASSUME NEW s, IsFree(s), NEW frames, DOMAIN frames \subseteq FrameRoles,
         \A role \in DOMAIN frames : IsFiniteSet(DOMAIN (frames[role].body)),
         NEW kind, kind \notin BoundKinds, NEW ids, NEW body
  PROVE MayWrite(s, PublishFrames(frames, kind, ids, body))
<1> DEFINE outputs == PublishFrames(frames, kind, ids, body)
<1>1. ASSUME NEW k \in DOMAIN outputs
      PROVE ArtifactOK(s, k[1], k[2], outputs[<<k[1], k[2]>>].body)
  <2>1. CASE k = <<"report", kind>>
    BY <2>1 DEF ArtifactOK, BoundKinds, FrameRoles
  <2>2. CASE \E role \in DOMAIN frames : k = <<role, "FRAME">>
    <3>1. PICK role \in DOMAIN frames : k = <<role, "FRAME">>
      BY <2>2
    <3>2. role # "report" /\ role # "model"
      BY DEF FrameRoles
    <3>3. k[1] = role /\ k[2] = "FRAME" /\ <<k[1], k[2]>> = k
      BY <3>1
    <3>4. outputs[<<k[1], k[2]>>] = frames[role]
      BY <3>2, <3>3 DEF PublishFrames
    <3> HIDE DEF outputs
    <3> QED
      BY <3>2, <3>3, <3>4 DEF ArtifactOK
  <2> QED
    BY <2>1, <2>2 DEF PublishFrames
<1> HIDE DEF outputs
<1>2. MayWrite(s, outputs)
  BY <1>1 DEF MayWrite, IsFree
<1> QED
  BY <1>2 DEF outputs

LEMMA KeepFree ==
  ASSUME ScorecardInv, NEW s, IsFree(s), NEW role, role \notin FrameRoles, role # "model",
         NEW kind, kind \notin BoundKinds, IsDue(s),
         \E ok, ids, body : Run(s, ok, Publish(role, kind, ids, body))
  PROVE ScorecardInv'
<1>1. PICK ok, ids, body : Run(s, ok, Publish(role, kind, ids, body))
  OBVIOUS
<1>2. MayWrite(s, Publish(role, kind, ids, body))
  BY FreePublish
<1> QED
  BY <1>1, <1>2, KeepRun

(* A frame that is there has finitely many rows.                           *)
LEMMA FrameIsFinite ==
  ASSUME ContentsOK, NEW ids, ids \subseteq DOMAIN artifacts, ids # {},
         \A id \in ids : Role(id) \in FrameRoles
  PROVE IsFiniteSet(DOMAIN (Body(ids)))
<1> DEFINE id == CHOOSE id \in ids : TRUE
<1>1. id \in ids
  OBVIOUS
<1>2. id \in DOMAIN artifacts /\ id[2] \in FrameRoles
  BY <1>1 DEF Role
<1> HIDE DEF id
<1>3. IsFiniteSet(DOMAIN (artifacts[id].body))
  BY <1>2 DEF ContentsOK, ArtifactOK
<1> QED
  BY <1>3 DEF Body, id

(* What is required is found: there is a first of a role that is there.    *)
LEMMA FirstIsFound ==
  ASSUME NEW s, NEW n \in Nat, DOMAIN Sources(s) = 1 .. n, NEW role, OfRole(s, role) # {}
  PROVE FirstOf(s, role) # {}
<1> DEFINE numbers == {ParentNo(s, id) : id \in OfRole(s, role)}
<1>1. ASSUME NEW id \in OfRole(s, role) PROVE ParentNo(s, id) \in 1 .. n
  <2>1. \E k \in DOMAIN Sources(s) : Sources(s)[k] = StepOf(id)
    BY DEF OfRole, Inputs, Resolved, ToSet
  <2> QED
    BY <2>1 DEF ParentNo
<1>2. numbers \in SUBSET Nat /\ numbers # {}
  BY <1>1
<1>3. PICK least \in numbers : \A m \in numbers : least <= m
  <2> HIDE DEF numbers
  <2> QED
    BY <1>2, LeastNatural
<1> QED
  BY <1>3 DEF FirstOf

LEMMA FewSources ==
  /\ DOMAIN Sources("apply-exclusions") = 1 .. 3
  /\ DOMAIN Sources("split") = 1 .. 3
  /\ DOMAIN Sources("automatic-binning") = 1 .. 3
  /\ DOMAIN Sources("woe-transform-train") = 1 .. 6
<1>1. Parents("apply-exclusions") = <<"import", "define-metadata">>
  BY DEF Parents, Treatment, Bundle
<1>2. Parents("split") = <<"apply-exclusions", "sample-definition">>
  BY DEF Parents, Treatment, Bundle
<1>3. Parents("automatic-binning") = <<Treatment, "define-metadata">>
  BY DEF Parents, Treatment, Bundle
<1>4. Parents("woe-transform-train") =
         <<Treatment, "manual-binning", "final-woe-iv", "define-metadata", "variable-selection">>
  BY DEF Parents, Treatment, Bundle
<1>5. \A a, b : <<a, b>> \in Seq({a, b}) /\ Len(<<a, b>>) = 2
  OBVIOUS
<1>6. \A a, b, c, d, e : <<a, b, c, d, e>> \in Seq({a, b, c, d, e}) /\ Len(<<a, b, c, d, e>>) = 5
  OBVIOUS
<1>7. ASSUME NEW s, NEW S, Parents(s) \in Seq(S)
      PROVE DOMAIN Sources(s) = 1 .. Len(Parents(s)) + 1
  BY <1>7, AppendOne DEF Sources
<1>8. ASSUME NEW s, NEW a, NEW b, Parents(s) = <<a, b>>
      PROVE DOMAIN Sources(s) = 1 .. 3
  <2>1. Parents(s) \in Seq({a, b}) /\ Len(Parents(s)) + 1 = 3
    BY <1>5, <1>8
  <2> QED
    BY <1>7, <2>1
<1>9. ASSUME NEW s, NEW a, NEW b, NEW c, NEW d, NEW e, Parents(s) = <<a, b, c, d, e>>
       PROVE DOMAIN Sources(s) = 1 .. 6
  <2>1. Parents(s) \in Seq({a, b, c, d, e}) /\ Len(Parents(s)) + 1 = 6
    BY <1>6, <1>9
  <2> QED
    BY <1>7, <2>1
<1>10. DOMAIN Sources("apply-exclusions") = 1 .. 3
  BY <1>1, <1>8
<1>11. DOMAIN Sources("split") = 1 .. 3
  BY <1>2, <1>8
<1>12. DOMAIN Sources("automatic-binning") = 1 .. 3
  BY <1>3, <1>8
<1>13. DOMAIN Sources("woe-transform-train") = 1 .. 6
  BY <1>4, <1>9
<1> QED
  BY <1>10, <1>11, <1>12, <1>13

LEMMA FirstFrame ==
  ASSUME ContentsOK, NEW s, HasRoles(s), NEW n \in Nat, DOMAIN Sources(s) = 1 .. n,
         NEW role \in FrameRoles, role \in Required(s)
  PROVE IsFiniteSet(DOMAIN (Body(FirstOf(s, role))))
<1>1. OfRole(s, role) # {}
  BY DEF HasRoles
<1>2. FirstOf(s, role) # {}
  BY <1>1, FirstIsFound
<1>3. \A id \in FirstOf(s, role) : Role(id) \in FrameRoles
  BY DEF FirstOf, OfRole
<1> QED
  BY <1>2, <1>3, Found, FrameIsFinite

(* Each sample that is there is found by its role.                         *)
LEMMA SampleFrame ==
  ASSUME ContentsOK, NEW s, NEW role \in RolesOf(Samples(s))
  PROVE role \in FrameRoles /\ IsFiniteSet(DOMAIN (Body(OfRole(s, role))))
<1>1. PICK id \in Samples(s) : Role(id) = role
  BY DEF RolesOf
<1>2. id \in OfRole(s, role)
  BY <1>1 DEF Samples, OfRole
<1>3. role \in FrameRoles
  BY Found DEF FrameRoles
<1>4. \A other \in OfRole(s, role) : Role(other) \in FrameRoles
  BY <1>3 DEF OfRole
<1> QED
  BY <1>2, <1>3, <1>4, Found, FrameIsFinite

(* The data sets.                                                          *)
LEMMA KeepImport == ASSUME ScorecardInv, Import PROVE ScorecardInv'
<1> DEFINE s == "import"
<1>1. PICK frame \in Datasets : Run(s, frame # <<>>, Publish("input", "FRAME", {}, frame))
  BY DEF Import
<1>2. IsDue(s)
  BY DEF Import
<1>3. IsFiniteSet(DOMAIN frame)
  <2>1. DOMAIN frame = 1 .. Len(frame) /\ Len(frame) \in Nat
    BY DataAssumption, LenProperties
  <2> QED
    BY <2>1, FS_Interval
<1> DEFINE outputs == Publish("input", "FRAME", {}, frame)
<1>4. MayWrite(s, outputs)
  <2>1. \A k \in DOMAIN outputs : /\ k[1] = "input" /\ k[2] = "FRAME"
                                  /\ outputs[<<k[1], k[2]>>].body = frame
    BY DEF Publish, Derived
  <2>2. IsFree(s)
    BY DEF IsFree, Exporters
  <2> HIDE DEF outputs, s
  <2> QED
    BY <1>3, <2>1, <2>2 DEF MayWrite, IsFree, ArtifactOK
<1> HIDE DEF outputs, s
<1>5. Run(s, frame # <<>>, outputs)
  BY <1>1 DEF outputs
<1> QED
  BY <1>2, <1>4, <1>5, KeepRun

LEMMA KeepFrames ==
  ASSUME ScorecardInv, NEW s, IsFree(s), IsDue(s), NEW ok, NEW frames, NEW kind, NEW ids, NEW body,
         Run(s, ok, PublishFrames(frames, kind, ids, body)), kind \notin BoundKinds,
         HasRoles(s) => /\ DOMAIN frames \subseteq FrameRoles
                        /\ \A role \in DOMAIN frames : IsFiniteSet(DOMAIN (frames[role].body))
  PROVE ScorecardInv'
<1>1. HasRoles(s) => MayWrite(s, PublishFrames(frames, kind, ids, body))
  BY FreeFrames
<1> QED
  BY <1>1, KeepRun

(* Some rows of a frame.                                                   *)
LEMMA FewRows ==
  ASSUME NEW frame, IsFiniteSet(DOMAIN frame), NEW S \in SUBSET DOMAIN frame
  PROVE IsFiniteSet(DOMAIN At(frame, S))
<1>1. Cardinality(S) \in Nat
  BY FS_Subset, FS_CardinalityType
<1>2. DOMAIN At(frame, S) = 1 .. Cardinality(S)
  BY DEF At, InOrder
<1> QED
  BY <1>1, <1>2, FS_Interval

LEMMA KeepExclusions == ASSUME ScorecardInv, ApplyExclusions PROVE ScorecardInv'
<1> DEFINE s == "apply-exclusions"
           input == FirstOf(s, "input")
           frame == Body(input)
           Kept(rules) == At(frame, {m \in DOMAIN frame :
                                       \A n \in DOMAIN rules : ~IsExcluded(frame[m], rules[n])})
           Frames(rules) == [role \in {"input"} |-> Derived(input, Kept(rules))]
<1>1. PICK rules, ok, body :
             Run(s, ok, PublishFrames(Frames(rules), "EXCLUSION_SUMMARY", input, body))
  BY DEF ApplyExclusions
<1>2. IsDue(s) /\ IsFree(s)
  BY DEF ApplyExclusions, IsFree, Exporters
<1>3. ASSUME HasRoles(s) PROVE IsFiniteSet(DOMAIN (Kept(rules)))
  <2>1. "input" \in Required(s) /\ "input" \in FrameRoles
    BY DEF Required, FrameRoles, Treatment, Bundle
  <2>2. IsFiniteSet(DOMAIN frame)
    BY <1>3, <2>1, FirstFrame, FewSources DEF ScorecardInv
  <2> HIDE DEF frame
  <2> QED
    BY <2>2, FewRows
<1>4. DOMAIN Frames(rules) = {"input"} /\ Frames(rules)["input"].body = Kept(rules)
  BY DEF Derived
<1>5. {"input"} \subseteq FrameRoles /\ "EXCLUSION_SUMMARY" \notin BoundKinds
  BY DEF FrameRoles, BoundKinds
<1> HIDE DEF s, Frames, Kept, input
<1>6. HasRoles(s) => /\ DOMAIN Frames(rules) \subseteq FrameRoles
                     /\ \A role \in DOMAIN Frames(rules) :
                          IsFiniteSet(DOMAIN (Frames(rules)[role].body))
  BY <1>3, <1>4, <1>5
<1> QED
  BY <1>1, <1>2, <1>5, <1>6, KeepFrames

LEMMA KeepSplit == ASSUME ScorecardInv, Split PROVE ScorecardInv'
<1> DEFINE s == "split"
           input == FirstOf(s, "input")
           frame == Body(input)
           Sample(order, role) == At(frame,
             {n \in DOMAIN frame : SplitRole(frame, order)[n] = role})
           Frames(order) ==
             [role \in SampleRoles |-> [from |-> {role}, body |-> Sample(order, role)]]
<1>1. PICK order, ok, body : Run(s, ok, PublishFrames(Frames(order), "SPLIT_SUMMARY", input, body))
  BY DEF Split
<1>2. IsDue(s) /\ IsFree(s)
  BY DEF Split, IsFree, Exporters
<1>3. ASSUME HasRoles(s), NEW role PROVE IsFiniteSet(DOMAIN (Sample(order, role)))
  <2>1. "input" \in Required(s) /\ "input" \in FrameRoles
    BY DEF Required, FrameRoles, Treatment, Bundle
  <2>2. IsFiniteSet(DOMAIN frame)
    BY <1>3, <2>1, FirstFrame, FewSources DEF ScorecardInv
  <2> HIDE DEF frame
  <2> QED
    BY <2>2, FewRows
<1>4. DOMAIN Frames(order) = SampleRoles
      /\ \A role \in SampleRoles : Frames(order)[role].body = Sample(order, role)
  OBVIOUS
<1>5. SampleRoles \subseteq FrameRoles /\ "SPLIT_SUMMARY" \notin BoundKinds
  BY DEF FrameRoles, BoundKinds, SampleRoles
<1> HIDE DEF s, Frames, Sample, input
<1>6. HasRoles(s) => /\ DOMAIN Frames(order) \subseteq FrameRoles
                     /\ \A role \in DOMAIN Frames(order) :
                          IsFiniteSet(DOMAIN (Frames(order)[role].body))
  BY <1>3, <1>4, <1>5
<1> QED
  BY <1>1, <1>2, <1>5, <1>6, KeepFrames

(* What is made of the samples, row by row.                                *)
LEMMA KeepSamples ==
  ASSUME ScorecardInv, NEW s, IsFree(s), IsDue(s), NEW ok, NEW frames, NEW kind, NEW ids, NEW body,
         Run(s, ok, PublishFrames(frames, kind, ids, body)), kind \notin BoundKinds,
         DOMAIN frames = RolesOf(Samples(s)),
         \A role \in DOMAIN frames : DOMAIN (frames[role].body) = DOMAIN (Body(OfRole(s, role)))
  PROVE ScorecardInv'
<1>1. \A role \in DOMAIN frames : role \in FrameRoles /\ IsFiniteSet(DOMAIN (Body(OfRole(s, role))))
  BY SampleFrame DEF ScorecardInv
<1>2. /\ DOMAIN frames \subseteq FrameRoles
      /\ \A role \in DOMAIN frames : IsFiniteSet(DOMAIN (frames[role].body))
  BY <1>1
<1> QED
  BY <1>2, KeepFrames

LEMMA KeepTreatment == ASSUME ScorecardInv, TreatMissingAndOutliers PROVE ScorecardInv'
<1> DEFINE s == Treatment
           Treat(row, t) == [row EXCEPT !.x = [v \in Variables |-> Treated(@[v], v, t)]]
           Rows(role, t) == LET frame == Body(OfRole(s, role)) IN
                            [n \in DOMAIN frame |-> Treat(frame[n], t)]
           Frames(t) == [role \in RolesOf(Samples(s)) |-> Derived(OfRole(s, role), Rows(role, t))]
<1>1. PICK t, ok : Run(s, ok, PublishFrames(Frames(t), "EXCLUSION_SUMMARY", Samples(s), t))
  BY DEF TreatMissingAndOutliers
<1>2. IsDue(s) /\ IsFree(s)
  BY DEF TreatMissingAndOutliers, IsFree, Exporters, Treatment
<1>3. /\ DOMAIN Frames(t) = RolesOf(Samples(s))
      /\ \A role \in RolesOf(Samples(s)) : Frames(t)[role].body = Rows(role, t)
  BY DEF Derived
<1>4. \A role : DOMAIN Rows(role, t) = DOMAIN (Body(OfRole(s, role)))
  OBVIOUS
<1>5. "EXCLUSION_SUMMARY" \notin BoundKinds
  BY DEF BoundKinds
<1> HIDE DEF s, Frames, Rows
<1> QED
  BY <1>1, <1>2, <1>3, <1>4, <1>5, KeepSamples

LEMMA KeepTransform == ASSUME ScorecardInv, WoeTransformTrain PROVE ScorecardInv'
<1> DEFINE s == "woe-transform-train"
           weights == OfKind(s, "WOE_TABLE")
           selection == OfKind(s, "SELECTION_DEFINITION")
           definition == OfKind(s, "BIN_DEFINITION")
           train == FirstOf(s, "train")
           ids == train \cup (definition \cup weights \cup selection)
           chosen == ToSet(Body(selection).selected) \cap DOMAIN Body(definition)
           frame == Weighted(Body(train), Body(definition), Body(weights), chosen)
           frames == [role \in {"train"} |-> Derived(ids, frame)]
<1>1. PICK ok :
        IsDue(s) /\ Run(s, ok, PublishFrames(frames, "WOE_TRANSFORM_EVIDENCE", ids, chosen))
  BY DEF WoeTransformTrain
<1>2. IsFree(s)
  BY DEF IsFree, Exporters
<1>3. DOMAIN frame = DOMAIN (Body(train))
  BY DEF Weighted
<1>4. HasRoles(s) => IsFiniteSet(DOMAIN frame)
  <2>1. "train" \in Required(s) /\ "train" \in FrameRoles
    BY DEF Required, FrameRoles, Treatment, Bundle
  <2> QED
    BY <1>3, <2>1, FirstFrame, FewSources DEF ScorecardInv
<1>5. DOMAIN frames = {"train"} /\ frames["train"].body = frame
  BY DEF Derived
<1>6. {"train"} \subseteq FrameRoles /\ "WOE_TRANSFORM_EVIDENCE" \notin BoundKinds
  BY DEF FrameRoles, BoundKinds
<1> HIDE DEF s, frames, frame, ids
<1>7. HasRoles(s) => /\ DOMAIN frames \subseteq FrameRoles
                     /\ \A role \in DOMAIN frames : IsFiniteSet(DOMAIN (frames[role].body))
  BY <1>4, <1>5, <1>6
<1> QED
  BY <1>1, <1>2, <1>6, <1>7, KeepFrames

LEMMA KeepApplyWoe == ASSUME ScorecardInv, ApplyWoe PROVE ScorecardInv'
<1> DEFINE s == "apply-woe"
           bundle == OfKind(s, "FROZEN_SCORECARD_BUNDLE")
           definition == OfKind(s, "BIN_DEFINITION")
           weights == OfKind(s, "WOE_TABLE")
           selection == OfKind(s, "SELECTION_DEFINITION")
           fitted == definition \cup weights \cup selection
           bins == Body(definition)
           chosen == ToSet(Body(selection).selected) \cap DOMAIN bins
           Sample(role) == Weighted(Body(OfRole(s, role)), bins, Body(weights), chosen)
           frames == [role \in RolesOf(Samples(s)) |->
                        Derived(OfRole(s, role) \cup fitted, Sample(role))]
           ids == Samples(s) \cup fitted \cup bundle
<1>1. PICK ok : IsDue(s) /\ Run(s, ok, PublishFrames(frames, "APPLY_WOE_EVIDENCE", ids, chosen))
  BY DEF ApplyWoe
<1>2. IsFree(s)
  BY DEF IsFree, Exporters
<1>3. /\ DOMAIN frames = RolesOf(Samples(s))
      /\ \A role \in RolesOf(Samples(s)) : frames[role].body = Sample(role)
  BY DEF Derived
<1>4. \A role : DOMAIN Sample(role) = DOMAIN (Body(OfRole(s, role)))
  BY DEF Weighted
<1>5. "APPLY_WOE_EVIDENCE" \notin BoundKinds
  BY DEF BoundKinds
<1> HIDE DEF s, frames, ids, Sample, chosen
<1> QED
  BY <1>1, <1>2, <1>3, <1>4, <1>5, KeepSamples

LEMMA KeepApplyModel == ASSUME ScorecardInv, ApplyModel PROVE ScorecardInv'
<1> DEFINE s == "apply-model"
           model == FirstOf(s, "model")
           scorecard == FirstOf(s, "scorecard")
           bundle == OfKind(s, "FROZEN_SCORECARD_BUNDLE")
           features == Body(model).features
           Scored(role) ==
             LET frame == Body(OfRole(s, role)) IN
             [n \in DOMAIN frame |-> [frame[n] EXCEPT !.woe = [v \in features |-> @[v]]]]
           frames == [role \in RolesOf(Samples(s)) |->
                        Derived(OfRole(s, role) \cup model \cup scorecard, Scored(role))]
           ids == Samples(s) \cup model \cup scorecard \cup bundle
<1>1. PICK ok : IsDue(s) /\ Run(s, ok, PublishFrames(frames, "APPLY_MODEL_EVIDENCE", ids, features))
  BY DEF ApplyModel
<1>2. IsFree(s)
  BY DEF IsFree, Exporters
<1>3. /\ DOMAIN frames = RolesOf(Samples(s))
      /\ \A role \in RolesOf(Samples(s)) : frames[role].body = Scored(role)
  BY DEF Derived
<1>4. \A role : DOMAIN Scored(role) = DOMAIN (Body(OfRole(s, role)))
  OBVIOUS
<1>5. "APPLY_MODEL_EVIDENCE" \notin BoundKinds
  BY DEF BoundKinds
<1> HIDE DEF s, frames, ids, Scored, features
<1> QED
  BY <1>1, <1>2, <1>3, <1>4, <1>5, KeepSamples

(* The steps that publish bins and tables of them.                         *)
LEMMA BinsPublish ==
  ASSUME NEW s \in {"automatic-binning", "manual-binning"}, NEW ids, NEW body,
         IsFiniteSet(DOMAIN body), \A v \in DOMAIN body : Ordered(body[v], KindOf(v))
  PROVE MayWrite(s, Publish("definition", "BIN_DEFINITION", ids, body))
<1> DEFINE outputs == Publish("definition", "BIN_DEFINITION", ids, body)
<1>1. \A k \in DOMAIN outputs : /\ k[1] = "definition" /\ k[2] = "BIN_DEFINITION"
                                /\ outputs[<<k[1], k[2]>>].body = body
  BY DEF Publish, Derived
<1>2. IsFree(s)
  BY DEF IsFree, Exporters
<1> HIDE DEF outputs
<1>3. ArtifactOK(s, "definition", "BIN_DEFINITION", body)
  BY DEF ArtifactOK, FrameRoles
<1>4. MayWrite(s, outputs)
  BY <1>1, <1>2, <1>3 DEF MayWrite, IsFree
<1> QED
  BY <1>4 DEF outputs

LEMMA KeepBinning == ASSUME ScorecardInv, AutomaticBinning PROVE ScorecardInv'
<1> DEFINE s == "automatic-binning"
           train == FirstOf(s, "train")
           ids == train \cup OfKind(s, "MODELLING_METADATA")
           frame == Body(train)
           BinsOf(v, p, orders) ==
             IF v \in NumericVariables
             THEN NumericBins(Column(frame, v), p.maxBins, p.separate)
             ELSE CategoricalBins(Column(frame, v), orders[v], p.levels, p.separate)
           Bins(p, orders) == [v \in Variables \ p.exclude |-> BinsOf(v, p, orders)]
           OK(p) == /\ p.maxBins >= 2 /\ p.levels >= 1
                    /\ Has(s, {"MODELLING_METADATA"})
                    /\ {"good", "bad"} \subseteq Classes(frame)
<1>1. IsDue(s)
  BY DEF AutomaticBinning
<1>2. PICK p \in BinningParams, orders \in OrdersOfLevels(frame) :
        Run(s, OK(p), Publish("definition", "BIN_DEFINITION", ids, Bins(p, orders)))
  BY DEF AutomaticBinning
<1>3. ASSUME HasRoles(s), OK(p)
      PROVE MayWrite(s, Publish("definition", "BIN_DEFINITION", ids, Bins(p, orders)))
  <2>1. IsFiniteSet(DOMAIN frame)
    <3>1. "train" \in Required(s) /\ "train" \in FrameRoles
      BY DEF Required, FrameRoles, Treatment, Bundle
    <3> QED
      BY <1>3, <3>1, FirstFrame, FewSources DEF ScorecardInv
  <2>2. IsFiniteSet(Variables \ p.exclude)
    BY DataAssumption, FS_Difference
  <2> HIDE DEF frame
  <2>3. \A v : IsFiniteSet(DOMAIN Column(frame, v))
    BY <2>1 DEF Column
  <2>4. p.maxBins \in Int /\ p.levels \in Nat
    BY <1>3, ParameterAssumption
  <2>5. ASSUME NEW v \in Variables PROVE Ordered(BinsOf(v, p, orders), KindOf(v))
    <3>1. CASE v \in NumericVariables
      <4>1. Plain(NumericBins(Column(frame, v), p.maxBins, p.separate))
        BY <2>3, <2>4, NumericBinsPlain
      <4> QED
        BY <3>1, <4>1, PlainIsOrdered
    <3>2. CASE v \notin NumericVariables
      <4>1. orders[v] \in LevelOrders(Column(frame, v))
        BY <3>2 DEF OrdersOfLevels
      <4>2. KindOf(v) # "numeric"
        BY <3>2 DEF KindOf
      <4>3. Ordered(CategoricalBins(Column(frame, v), orders[v], p.levels, p.separate), KindOf(v))
        BY <2>3, <2>4, <4>1, <4>2, CategoricalBinsOrdered
      <4> QED
        BY <3>2, <4>3
    <3> QED
      BY <3>1, <3>2
  <2>6. DOMAIN Bins(p, orders) = Variables \ p.exclude
        /\ \A v \in Variables \ p.exclude : Bins(p, orders)[v] = BinsOf(v, p, orders)
    OBVIOUS
  <2> HIDE DEF Bins, BinsOf, ids
  <2> QED
    BY <2>2, <2>5, <2>6, BinsPublish
<1> HIDE DEF OK, Bins, ids, s
<1> QED
  BY <1>1, <1>2, <1>3, KeepRun

(* The only artifact of a kind.                                            *)
LEMMA OneOfKind ==
  ASSUME NEW s, NEW kind, Cardinality(OfKind(s, kind)) = 1
  PROVE OfKind(s, kind) # {}
BY FS_EmptySet

LEMMA BinsFound ==
  ASSUME ContentsOK, NEW s, Cardinality(OfKind(s, "BIN_DEFINITION")) = 1
  PROVE LET bins == Body(OfKind(s, "BIN_DEFINITION")) IN
        IsFiniteSet(DOMAIN bins) /\ \A v \in DOMAIN bins : Ordered(bins[v], KindOf(v))
<1> DEFINE ids == OfKind(s, "BIN_DEFINITION")
           id == CHOOSE id \in ids : TRUE
<1>1. id \in ids
  BY OneOfKind
<1>2. id \in DOMAIN artifacts /\ id[3] = "BIN_DEFINITION"
  BY <1>1, Found DEF OfKind, Kind
<1>3. Body(ids) = artifacts[id].body
  BY DEF Body
<1> HIDE DEF id
<1> QED
  BY <1>2, <1>3 DEF ContentsOK, ArtifactOK

LEMMA KeepWoeIv ==
  ASSUME ScorecardInv, NEW s \in {"initial-woe-iv", "final-woe-iv"}, IsDue(s), NEW p,
         CalculateWoeIv(s, p)
  PROVE ScorecardInv'
<1> DEFINE definition == OfKind(s, "BIN_DEFINITION")
           ids == FirstOf(s, "train") \cup definition \cup OfKind(s, "MODELLING_METADATA")
           frame == Body(FirstOf(s, "train"))
           bins == Body(definition)
           table == [v \in DOMAIN bins |->
                       WoeRows(Column(frame, v), bins[v], KindOf(v), p.smoothing)]
           BodyOf(kind) ==
             CASE kind = "WOE_TABLE" -> table
               [] kind = "IV_TABLE" -> [v \in DOMAIN bins |-> IsInformative(table[v])]
               [] OTHER -> p.purpose
           kinds == {"WOE_TABLE", "IV_TABLE", "SUMMARY", "WOE_IV_EVIDENCE"}
           tables == {<<"report", kind>> : kind \in kinds}
           outputs == [k \in tables |-> Derived(ids, BodyOf(k[2]))]
           OK == /\ Has(s, {"BIN_DEFINITION", "MODELLING_METADATA"})
                 /\ Classes(frame) = {"good", "bad"}
                 /\ \A v \in DOMAIN bins : \A n \in DOMAIN bins[v] : HasMask(bins[v][n], KindOf(v))
                 /\ MayPass(p, \E v \in DOMAIN bins : HasZeroCell(table[v]))
<1>1. Run(s, OK, outputs)
  BY DEF CalculateWoeIv
<1>2. ASSUME OK PROVE MayWrite(s, outputs)
  <2>1. IsFiniteSet(DOMAIN bins)
    <3>1. Cardinality(definition) = 1
      BY <1>2 DEF Has
    <3> QED
      BY <3>1, BinsFound DEF ScorecardInv
  <2>2. DOMAIN BodyOf("IV_TABLE") = DOMAIN bins
    OBVIOUS
  <2> HIDE DEF BodyOf, bins, ids
  <2>3. ASSUME NEW k \in DOMAIN outputs
        PROVE ArtifactOK(s, k[1], k[2], outputs[<<k[1], k[2]>>].body)
    <3>1. PICK kind \in kinds : k = <<"report", kind>>
      OBVIOUS
    <3>2. k[1] = "report" /\ k[2] = kind /\ outputs[<<k[1], k[2]>>].body = BodyOf(kind)
      BY <3>1 DEF Derived
    <3>3. ArtifactOK(s, "report", kind, BodyOf(kind))
      BY <2>1, <2>2 DEF ArtifactOK, FrameRoles
    <3> HIDE DEF outputs
    <3> QED
      BY <3>2, <3>3
  <2>4. IsFree(s)
    BY DEF IsFree, Exporters
  <2> HIDE DEF outputs
  <2> QED
    BY <2>3, <2>4 DEF MayWrite, IsFree
<1> HIDE DEF OK, outputs
<1> QED
  BY <1>1, <1>2, KeepRun

LEMMA KeepManual == ASSUME ScorecardInv, ManualBinning PROVE ScorecardInv'
<1> DEFINE s == "manual-binning"
           definition == OfKind(s, "BIN_DEFINITION")
           selection == OfKind(s, "SELECTION_DEFINITION")
           bins == Body(definition)
           selected == ToSet(Body(selection).selected)
           ids == definition \cup selection
           Of(v, os) == At(os, {n \in DOMAIN os : os[n].variable = v})
           Kept(os) == {v \in DOMAIN bins \cap selected :
                          \A n \in DOMAIN Of(v, os) : Of(v, os)[n].action # "reject_variable"}
           After(os) == [v \in Kept(os) |-> AfterOverrides(bins[v], Of(v, os))]
           OK(os, accepted) ==
             /\ ~(accepted /\ os # <<>>)
             /\ Has(s, {"BIN_DEFINITION", "SELECTION_DEFINITION"})
             /\ \A n \in DOMAIN os :
                  /\ os[n].variable \in DOMAIN bins \cap selected
                  /\ IsValidOverride(os[n], bins[os[n].variable], KindOf(os[n].variable))
             /\ \A v \in DOMAIN bins : CanApply(bins[v], Of(v, os))
<1>1. IsDue(s)
  BY DEF ManualBinning
<1>2. PICK os \in OverrideLists, accepted \in BOOLEAN :
        Run(s, OK(os, accepted), Publish("definition", "BIN_DEFINITION", ids, After(os)))
  BY DEF ManualBinning
<1>3. ASSUME OK(os, accepted)
      PROVE MayWrite(s, Publish("definition", "BIN_DEFINITION", ids, After(os)))
  <2>1. IsFiniteSet(DOMAIN bins) /\ \A v \in DOMAIN bins : Ordered(bins[v], KindOf(v))
    <3>1. Cardinality(definition) = 1
      BY <1>3 DEF Has
    <3> QED
      BY <3>1, BinsFound DEF ScorecardInv
  <2>2. \A v \in DOMAIN bins : CanApply(bins[v], Of(v, os))
    BY <1>3
  <2> HIDE DEF bins
  <2>3. /\ DOMAIN os = 1 .. Len(os) /\ Len(os) \in Nat
        /\ \A n \in DOMAIN os : os[n].sources \in Seq(ToSet(os[n].sources))
    BY ParameterAssumption, LenProperties
  <2>4. ASSUME NEW v \in DOMAIN bins PROVE Ordered(AfterOverrides(bins[v], Of(v, os)), KindOf(v))
    <3> DEFINE mine == {n \in DOMAIN os : os[n].variable = v}
    <3>1. mine \in SUBSET DOMAIN os
      OBVIOUS
    <3> HIDE DEF mine
    <3>2. /\ Len(At(os, mine)) \in Nat /\ DOMAIN At(os, mine) = 1 .. Len(At(os, mine))
          /\ \A k \in DOMAIN At(os, mine) : \E n \in mine : At(os, mine)[k] = os[n]
      BY <2>3, <3>1, AtSequence
    <3>4. \A k \in DOMAIN At(os, mine) :
            At(os, mine)[k].sources \in Seq(ToSet(At(os, mine)[k].sources))
      BY <2>3, <3>1, <3>2
    <3>5. Of(v, os) = At(os, mine)
      BY DEF mine
    <3>6. CanApply(bins[v], At(os, mine))
      BY <2>2, <3>5
    <3>7. Ordered(AfterOverrides(bins[v], At(os, mine)), KindOf(v))
      BY <2>1, <3>2, <3>4, <3>6, OrderedStages
    <3> QED
      BY <3>5, <3>7
  <2>5. Kept(os) \subseteq DOMAIN bins
    OBVIOUS
  <2>6. IsFiniteSet(Kept(os))
    BY <2>1, <2>5, FS_Subset
  <2> HIDE DEF Kept, Of
  <2>7. DOMAIN After(os) = Kept(os)
        /\ \A v \in Kept(os) : After(os)[v] = AfterOverrides(bins[v], Of(v, os))
    OBVIOUS
  <2> HIDE DEF After, ids
  <2> QED
    BY <2>4, <2>5, <2>6, <2>7, BinsPublish
<1> HIDE DEF OK, After, ids, s
<1> QED
  BY <1>1, <1>2, <1>3, KeepRun

-----------------------------------------------------------------------------
(* The exporters.  Of the bins and weights among their inputs each finds   *)
(* those of the scorecard, since no other parent of it publishes any.      *)
LEMMA ExporterParents ==
  ASSUME NEW s \in Exporters
  PROVE /\ ToSet(Sources(s)) \subseteq {Bundle, "model-fit", "score-scaling", "apply-model",
                                       "manual-binning", "final-woe-iv", s}
        /\ DOMAIN Sources(s) = 1 .. 7
<1> DEFINE names == {Bundle, "model-fit", "score-scaling", "apply-model", "manual-binning",
                     "final-woe-iv"}
           seq == Parents(s)
           all == Append(seq, s)
<1>1. seq = <<Bundle, "model-fit", "score-scaling", "apply-model", "manual-binning",
              "final-woe-iv">>
  <2>1. Parents("scoring-export-python") = <<Bundle, "model-fit", "score-scaling", "apply-model",
                                             "manual-binning", "final-woe-iv">>
    BY DEF Parents, Treatment, Bundle
  <2>2. Parents("scoring-export-sql") = <<Bundle, "model-fit", "score-scaling", "apply-model",
                                          "manual-binning", "final-woe-iv">>
    BY DEF Parents, Treatment, Bundle
  <2> QED
    BY <2>1, <2>2 DEF Exporters
<1>2. seq \in Seq(names) /\ Len(seq) = 6
  BY <1>1
<1> HIDE DEF seq, names
<1>3. ToSet(all) \subseteq names \cup {s} /\ DOMAIN all = 1 .. 7
  <2>1. DOMAIN all = 1 .. Len(seq) + 1
    BY <1>2, AppendOne
  <2>2. ToSet(all) \subseteq names \cup {s}
    BY <1>2, AppendOne
  <2> QED
    BY <1>2, <2>1, <2>2
<1> QED
  BY <1>3 DEF Sources, all, seq, names

LEMMA ExporterFinds ==
  ASSUME ContentsOK, NEW s \in Exporters, Has(s, {"BIN_DEFINITION", "WOE_TABLE"})
  PROVE /\ OfKind(s, "BIN_DEFINITION") = {BinsId} /\ BinsId \in DOMAIN artifacts
        /\ OfKind(s, "WOE_TABLE") = {WeightsId} /\ WeightsId \in DOMAIN artifacts
<1>1. ASSUME NEW id \in OfKind(s, "BIN_DEFINITION") PROVE id = BinsId
  <2>1. id \in DOMAIN artifacts /\ id[3] = "BIN_DEFINITION" /\ id[1] \in ToSet(Sources(s))
    BY DEF OfKind, Inputs, Resolved, Kind, StepOf
  <2>2. id = <<id[1], id[2], id[3]>> /\ id[2] = "definition"
        /\ id[1] \in {"automatic-binning", "manual-binning"}
    BY <2>1 DEF ContentsOK, ArtifactOK
  <2>3. id[1] # "automatic-binning"
    BY <2>1, ExporterParents DEF Exporters, Bundle
  <2> QED
    BY <2>1, <2>2, <2>3 DEF BinsId
<1>2. ASSUME NEW id \in OfKind(s, "WOE_TABLE") PROVE id = WeightsId
  <2>1. id \in DOMAIN artifacts /\ id[3] = "WOE_TABLE" /\ id[1] \in ToSet(Sources(s))
    BY DEF OfKind, Inputs, Resolved, Kind, StepOf
  <2>2. id = <<id[1], id[2], id[3]>> /\ id[2] = "report"
          /\ id[1] \in {"initial-woe-iv", "final-woe-iv"}
    BY <2>1 DEF ContentsOK, ArtifactOK
  <2>3. id[1] # "initial-woe-iv"
    BY <2>1, ExporterParents DEF Exporters, Bundle
  <2> QED
    BY <2>1, <2>2, <2>3 DEF WeightsId
<1>3. OfKind(s, "BIN_DEFINITION") # {} /\ OfKind(s, "WOE_TABLE") # {}
  BY OneOfKind DEF Has
<1> QED
  BY <1>1, <1>2, <1>3, Found

LEMMA ExporterModel ==
  ASSUME ContentsOK, NEW s \in Exporters, HasRoles(s)
  PROVE FirstOf(s, "model") = {ModelId} /\ ModelId \in DOMAIN artifacts
<1>1. ASSUME NEW id \in FirstOf(s, "model") PROVE id = ModelId
  <2>1. id \in DOMAIN artifacts /\ id[2] = "model"
    BY DEF FirstOf, OfRole, Inputs, Resolved, Role
  <2>2. id = <<id[1], id[2], id[3]>> /\ id[3] = "MODEL_ARTIFACT" /\ id[1] = "model-fit"
    BY <2>1 DEF ContentsOK, ArtifactOK
  <2> QED
    BY <2>1, <2>2 DEF ModelId
<1>2. "model" \in Required(s)
  BY DEF Required, Exporters, Treatment, Bundle
<1>3. FirstOf(s, "model") # {}
  BY <1>2, ExporterParents, FirstIsFound DEF HasRoles
<1> QED
  BY <1>1, <1>3, Found

LEMMA KeepExport ==
  ASSUME ScorecardInv, NEW s \in Exporters, ScorerExport(s, ScorerKind(s))
  PROVE ScorecardInv'
<1> DEFINE bundle == OfKind(s, "FROZEN_SCORECARD_BUNDLE")
           model == FirstOf(s, "model")
           scorecard == OfKind(s, "SCORE_SCALING")
           definition == OfKind(s, "BIN_DEFINITION")
           weights == OfKind(s, "WOE_TABLE")
           bins == Body(definition)
           table == Body(weights)
           features == Body(model).features
           ids == bundle \cup model \cup scorecard \cup definition \cup weights
           body == [v \in features |-> Compiled(bins[v], table[v])]
           outputs == Publish("report", ScorerKind(s), ids, body)
           OK == /\ Has(s, {"FROZEN_SCORECARD_BUNDLE", "BIN_DEFINITION", "WOE_TABLE",
                            "SCORE_SCALING"})
                 /\ Body(bundle).model = model /\ Body(bundle).scorecard = scorecard
                 /\ Body(bundle).bins = definition /\ Body(bundle).woes = weights
                 /\ features \subseteq DOMAIN bins
                 /\ \A v \in features : /\ v \in DOMAIN table /\ table[v] # <<>>
                                        /\ Compiles(bins[v], KindOf(v), table[v])
<1>1. IsDue(s) /\ Run(s, OK, outputs)
  BY DEF ScorerExport
<1>2. ASSUME HasRoles(s), OK PROVE MayWrite(s, outputs)
  <2>1. /\ definition = {BinsId} /\ BinsId \in DOMAIN artifacts
        /\ weights = {WeightsId} /\ WeightsId \in DOMAIN artifacts
        /\ model = {ModelId} /\ ModelId \in DOMAIN artifacts
    BY <1>2, ExporterFinds, ExporterModel DEF ScorecardInv, Has
  <2>2. /\ bins = artifacts[BinsId].body /\ table = artifacts[WeightsId].body
        /\ Body(model) = artifacts[ModelId].body
    BY <2>1 DEF Body
  <2>3. Rendered(body, Body(model), bins, table)
    BY <1>2 DEF Rendered
  <2>4. {"manual-binning", "final-woe-iv", "model-fit"} \subseteq done
    BY <1>1, Edges DEF IsDue, IsNext, IsReady, Exporters
  <2>5. <<"report", ScorerKind(s)>> \in DOMAIN outputs
        /\ outputs[<<"report", ScorerKind(s)>>].body = body
    BY DEF Publish, Derived
  <2> HIDE DEF bins, table, body, outputs, model
  <2>6. \A k \in DOMAIN outputs : ArtifactOK(s, k[1], k[2], outputs[<<k[1], k[2]>>].body)
    <3>1. ScorerKind(s) \notin BoundKinds /\ "report" \notin FrameRoles
      BY DEF ScorerKind, BoundKinds, FrameRoles
    <3>2. \A kind, content : kind \notin BoundKinds => ArtifactOK(s, "report", kind, content)
      BY <3>1 DEF ArtifactOK, BoundKinds
    <3>3. \A k \in DOMAIN outputs : k[1] = "report" /\ k[2] = ScorerKind(s)
      <4> DEFINE kind == ScorerKind(s)
      <4> HIDE DEF kind
      <4>1. \A k \in DOMAIN Publish("report", kind, ids, body) : k[1] = "report" /\ k[2] = kind
        BY DEF Publish
      <4> QED
        BY <4>1 DEF outputs, kind
    <3> QED
      BY <3>1, <3>2, <3>3
  <2>7. s # "variable-clustering" /\ s # "variable-selection"
    BY DEF Exporters
  <2> QED
    BY <2>1, <2>2, <2>3, <2>4, <2>5, <2>6, <2>7 DEF MayWrite
<1> HIDE DEF OK, outputs
<1> QED
  BY <1>1, <1>2, KeepRun

(* The other steps.                                                        *)
LEMMA KeepOthers ==
  ASSUME ScorecardInv,
         \/ DefineMetadata \/ ProfileDataset \/ ValidateTarget \/ SampleDefinition
         \/ CoefficientSignCheck \/ SeparationDiagnostics \/ VifDiagnostics \/ ScoreScaling
         \/ BuildSummary \/ Freeze \/ CalibrationDiagnostics \/ CutoffAnalysis
         \/ ScorecardTableExport \/ TechnicalManifest
  PROVE ScorecardInv'
<1>0. \A role \in {"definition", "report", "scorecard", "manifest"} :
        role \notin FrameRoles /\ role # "model"
  BY DEF FrameRoles
<1>1. CASE DefineMetadata
  <2> DEFINE s == "define-metadata"
  <2>1. /\ IsDue(s)
       /\ \E ok, ids, body : Run(s, ok, Publish("definition", "MODELLING_METADATA", ids, body))
    BY <1>1 DEF DefineMetadata
  <2>2. IsFree(s) /\ "MODELLING_METADATA" \notin BoundKinds
    BY DEF IsFree, Exporters, BoundKinds
  <2> HIDE DEF s
  <2> QED
    BY <1>0, <2>1, <2>2, KeepFree
<1>2. CASE ProfileDataset
  <2> DEFINE s == "profile"
  <2>1. IsDue(s) /\ \E ok, ids, body : Run(s, ok, Publish("report", "PROFILE_SUMMARY", ids, body))
    BY <1>2 DEF ProfileDataset
  <2>2. IsFree(s) /\ "PROFILE_SUMMARY" \notin BoundKinds
    BY DEF IsFree, Exporters, BoundKinds
  <2> HIDE DEF s
  <2> QED
    BY <1>0, <2>1, <2>2, KeepFree
<1>3. CASE ValidateTarget
  <2> DEFINE s == "validate-target"
  <2>1. IsDue(s) /\ \E ok, ids, body : Run(s, ok, Publish("report", "SPLIT_SUMMARY", ids, body))
    BY <1>3 DEF ValidateTarget
  <2>2. IsFree(s) /\ "SPLIT_SUMMARY" \notin BoundKinds
    BY DEF IsFree, Exporters, BoundKinds
  <2> HIDE DEF s
  <2> QED
    BY <1>0, <2>1, <2>2, KeepFree
<1>4. CASE SampleDefinition
  <2> DEFINE s == "sample-definition"
  <2>1. /\ IsDue(s)
       /\ \E ok, ids, body : Run(s, ok, Publish("definition", "SAMPLE_DEFINITION", ids, body))
    BY <1>4 DEF SampleDefinition
  <2>2. IsFree(s) /\ "SAMPLE_DEFINITION" \notin BoundKinds
    BY DEF IsFree, Exporters, BoundKinds
  <2> HIDE DEF s
  <2> QED
    BY <1>0, <2>1, <2>2, KeepFree
<1>5. CASE CoefficientSignCheck
  <2> DEFINE s == "coefficient-sign-check"
  <2>1. /\ IsDue(s)
       /\ \E ok, ids, body :
            Run(s, ok, Publish("report", "COEFFICIENT_SIGN_DIAGNOSTICS", ids, body))
    BY <1>5 DEF CoefficientSignCheck
  <2>2. IsFree(s) /\ "COEFFICIENT_SIGN_DIAGNOSTICS" \notin BoundKinds
    BY DEF IsFree, Exporters, BoundKinds
  <2> HIDE DEF s
  <2> QED
    BY <1>0, <2>1, <2>2, KeepFree
<1>6. CASE SeparationDiagnostics
  <2> DEFINE s == "separation-diagnostics"
  <2>1. /\ IsDue(s)
       /\ \E ok, ids, body : Run(s, ok, Publish("report", "SEPARATION_DIAGNOSTICS", ids, body))
    BY <1>6 DEF SeparationDiagnostics
  <2>2. IsFree(s) /\ "SEPARATION_DIAGNOSTICS" \notin BoundKinds
    BY DEF IsFree, Exporters, BoundKinds
  <2> HIDE DEF s
  <2> QED
    BY <1>0, <2>1, <2>2, KeepFree
<1>7. CASE VifDiagnostics
  <2> DEFINE s == "vif-diagnostics"
  <2>1. IsDue(s) /\ \E ok, ids, body : Run(s, ok, Publish("report", "VIF_DIAGNOSTICS", ids, body))
    BY <1>7 DEF VifDiagnostics
  <2>2. IsFree(s) /\ "VIF_DIAGNOSTICS" \notin BoundKinds
    BY DEF IsFree, Exporters, BoundKinds
  <2> HIDE DEF s
  <2> QED
    BY <1>0, <2>1, <2>2, KeepFree
<1>8. CASE ScoreScaling
  <2> DEFINE s == "score-scaling"
  <2>1. IsDue(s) /\ \E ok, ids, body : Run(s, ok, Publish("scorecard", "SCORE_SCALING", ids, body))
    BY <1>8 DEF ScoreScaling
  <2>2. IsFree(s) /\ "SCORE_SCALING" \notin BoundKinds
    BY DEF IsFree, Exporters, BoundKinds
  <2> HIDE DEF s
  <2> QED
    BY <1>0, <2>1, <2>2, KeepFree
<1>9. CASE BuildSummary
  <2> DEFINE s == "build-summary-report"
  <2>1. IsDue(s) /\ \E ok, ids, body : Run(s, ok, Publish("report", "SUMMARY", ids, body))
    BY <1>9 DEF BuildSummary
  <2>2. IsFree(s) /\ "SUMMARY" \notin BoundKinds
    BY DEF IsFree, Exporters, BoundKinds
  <2> HIDE DEF s
  <2> QED
    BY <1>0, <2>1, <2>2, KeepFree
<1>10. CASE Freeze
  <2> DEFINE s == Bundle
  <2>1. /\ IsDue(s)
       /\ \E ok, ids, body : Run(s, ok, Publish("scorecard", "FROZEN_SCORECARD_BUNDLE", ids, body))
    BY <1>10 DEF Freeze
  <2>2. IsFree(s) /\ "FROZEN_SCORECARD_BUNDLE" \notin BoundKinds
    BY DEF IsFree, Exporters, BoundKinds, Bundle
  <2> HIDE DEF s
  <2> QED
    BY <1>0, <2>1, <2>2, KeepFree
<1>11. CASE CalibrationDiagnostics
  <2> DEFINE s == "calibration-diagnostics"
  <2>1. /\ IsDue(s)
       /\ \E ok, ids, body : Run(s, ok, Publish("report", "CALIBRATION_DIAGNOSTICS", ids, body))
    BY <1>11 DEF CalibrationDiagnostics
  <2>2. IsFree(s) /\ "CALIBRATION_DIAGNOSTICS" \notin BoundKinds
    BY DEF IsFree, Exporters, BoundKinds
  <2> HIDE DEF s
  <2> QED
    BY <1>0, <2>1, <2>2, KeepFree
<1>12. CASE CutoffAnalysis
  <2> DEFINE s == "cutoff-analysis"
  <2>1. IsDue(s) /\ \E ok, ids, body : Run(s, ok, Publish("report", "CUTOFF_ANALYSIS", ids, body))
    BY <1>12 DEF CutoffAnalysis
  <2>2. IsFree(s) /\ "CUTOFF_ANALYSIS" \notin BoundKinds
    BY DEF IsFree, Exporters, BoundKinds
  <2> HIDE DEF s
  <2> QED
    BY <1>0, <2>1, <2>2, KeepFree
<1>13. CASE ScorecardTableExport
  <2> DEFINE s == "scorecard-table-export"
  <2>1. IsDue(s) /\ \E ok, ids, body : Run(s, ok, Publish("report", "SCORE_TABLE", ids, body))
    BY <1>13 DEF ScorecardTableExport
  <2>2. IsFree(s) /\ "SCORE_TABLE" \notin BoundKinds
    BY DEF IsFree, Exporters, BoundKinds
  <2> HIDE DEF s
  <2> QED
    BY <1>0, <2>1, <2>2, KeepFree
<1>14. CASE TechnicalManifest
  <2> DEFINE s == "technical-manifest"
  <2>1. /\ IsDue(s)
       /\ \E ok, ids, body : Run(s, ok, Publish("manifest", "TECHNICAL_MANIFEST_INDEX", ids, body))
    BY <1>14 DEF TechnicalManifest
  <2>2. IsFree(s) /\ "TECHNICAL_MANIFEST_INDEX" \notin BoundKinds
    BY DEF IsFree, Exporters, BoundKinds
  <2> HIDE DEF s
  <2> QED
    BY <1>0, <2>1, <2>2, KeepFree
<1> QED
  BY <1>1, <1>2, <1>3, <1>4, <1>5, <1>6, <1>7, <1>8, <1>9, <1>10, <1>11, <1>12, <1>13, <1>14

(* One output, of a step that may make it.                                 *)
LEMMA OneOutput ==
  ASSUME NEW s, s \notin Exporters, NEW role, NEW kind, NEW ids, NEW body,
         ArtifactOK(s, role, kind, body),
         s = "variable-clustering" => role = "report" /\ kind = "VARIABLE_CLUSTERING",
         s = "variable-selection" => role = "definition" /\ kind = "SELECTION_DEFINITION"
  PROVE MayWrite(s, Publish(role, kind, ids, body))
<1> DEFINE outputs == Publish(role, kind, ids, body)
<1>1. /\ <<role, kind>> \in DOMAIN outputs
      /\ \A k \in DOMAIN outputs : /\ k[1] = role /\ k[2] = kind
                                   /\ outputs[<<k[1], k[2]>>].body = body
  BY DEF Publish, Derived
<1> HIDE DEF outputs
<1>2. \A k \in DOMAIN outputs : ArtifactOK(s, k[1], k[2], outputs[<<k[1], k[2]>>].body)
  BY <1>1
<1>3. MayWrite(s, outputs)
  BY <1>1, <1>2 DEF MayWrite
<1> QED
  BY <1>3 DEF outputs

LEMMA KeepModelFit == ASSUME ScorecardInv, ModelFit PROVE ScorecardInv'
<1> DEFINE s == "model-fit"
<1>1. IsDue(s)
  BY DEF ModelFit
<1>2. PICK ok, ids, body : Run(s, ok, Publish("model", "MODEL_ARTIFACT", ids, body))
  BY DEF ModelFit
<1>3. s \notin Exporters /\ s # "variable-clustering" /\ s # "variable-selection"
  BY DEF Exporters
<1>4. ArtifactOK(s, "model", "MODEL_ARTIFACT", body)
  BY DEF ArtifactOK, FrameRoles
<1> HIDE DEF s
<1>5. MayWrite(s, Publish("model", "MODEL_ARTIFACT", ids, body))
  BY <1>3, <1>4, OneOutput
<1> QED
  BY <1>1, <1>2, <1>5, KeepRun

(* What is published beside the outputs of a step.                         *)
LEMMA KeepMetrics == ASSUME ScorecardInv, ValidationMetrics PROVE ScorecardInv'
<1> DEFINE s == "validation-metrics"
           inputs == OfKind(s, "MODELLING_METADATA") \cup OfKind(s, "APPLY_MODEL_EVIDENCE")
                     \cup Samples(s)
           Report(passed) == Publish("report", "VALIDATION_METRICS", inputs, passed)
<1>1. IsDue(s) /\ s \notin done
  BY DEF ValidationMetrics, IsDue, IsNext, IsReady
<1>2. PICK passed \in BOOLEAN :
        \/ Fail
        \/ Succeed(s, Report(passed))
        \/ artifacts' = Published(s, Report(passed)) /\ UNCHANGED done
  BY DEF ValidationMetrics
<1>3. MayWrite(s, Report(passed))
  BY FreePublish DEF IsFree, Exporters, BoundKinds, FrameRoles
<1> HIDE DEF s, Report
<1>4. CASE Fail
  BY <1>4 DEF Fail, ScorecardInv, ContentsOK, StepsOK, ArtifactOK
<1>5. CASE Succeed(s, Report(passed))
  BY <1>1, <1>3, <1>5, WrittenContents, WrittenSteps DEF Succeed, ScorecardInv
<1>6. CASE artifacts' = Published(s, Report(passed)) /\ UNCHANGED done
  BY <1>1, <1>3, <1>6, WrittenContents, WrittenAside DEF ScorecardInv
<1> QED
  BY <1>2, <1>4, <1>5, <1>6

LEMMA KeepSummary == ASSUME ScorecardInv, PublishRunSummary PROVE ScorecardInv'
<1> DEFINE s == "technical-manifest"
           outputs == Publish("manifest", "RUN_SUMMARY", {}, done)
<1>1. s \notin done /\ artifacts' = Published(s, outputs) /\ done' = done
  BY DEF PublishRunSummary, IsDue, IsNext, IsReady
<1>2. MayWrite(s, outputs)
  BY FreePublish DEF IsFree, Exporters, BoundKinds, FrameRoles
<1> HIDE DEF s, outputs
<1> QED
  BY <1>1, <1>2, WrittenContents, WrittenAside DEF ScorecardInv

(* Clusters are disjoint: a set of disjoint sets, in some order.           *)
LEMMA ClustersAreDisjoint ==
  ASSUME NEW candidates, IsFiniteSet(candidates), NEW clusters \in Clusterings(candidates)
  PROVE Disjoint(clusters)
<1> DEFINE all == {c \in SUBSET candidates : Cardinality(c) >= 2}
<1>1. PICK found \in SUBSET all :
        /\ clusters = SetToSeq(found)
        /\ \A c, d \in found : c = d \/ c \cap d = {}
  BY DEF Clusterings
<1>2. IsFiniteSet(found)
  <2>1. IsFiniteSet(SUBSET candidates) /\ found \in SUBSET (SUBSET candidates)
    BY FS_SUBSET
  <2> QED
    BY <2>1, FS_Subset
<1> DEFINE size == Cardinality(found)
<1>3. size \in Nat /\ \E f \in [1 .. size -> found] : IsInjective(f)
  BY <1>2, FS_CardinalityType DEF ExistsBijection, Bijection, Injection, IsInjective
<1> HIDE DEF size
<1>4. clusters \in [1 .. size -> found] /\ IsInjective(clusters)
  BY <1>1, <1>3 DEF SetToSeq, size
<1>5. Len(clusters) = size /\ DOMAIN clusters = 1 .. size
  <2>1. clusters \in Seq(found)
    BY <1>3, <1>4
  <2> QED
    BY <1>3, <1>4, <2>1, LenProperties
<1>6. \A c, d \in DOMAIN clusters : c # d => clusters[c] \cap clusters[d] = {}
  BY <1>1, <1>4, <1>5 DEF IsInjective
<1> QED
  BY <1>3, <1>5, <1>6 DEF Disjoint

LEMMA KeepClustering == ASSUME ScorecardInv, VariableClustering PROVE ScorecardInv'
<1> DEFINE s == "variable-clustering"
           train == FirstOf(s, "train")
           table == OfKind(s, "IV_TABLE")
           candidates == NumericVariables \cap DOMAIN Body(table)
           Result(clusters) ==
             [clusters |-> clusters,
              nulls |-> [v \in Variables |->
                           Cardinality(RowsWith(Column(Body(train), v), Null))]]
           Output(clusters) ==
             Publish("report", "VARIABLE_CLUSTERING", train \cup table, Result(clusters))
           OK == ~Ambiguous(s, {"IV_TABLE"})
<1>1. IsDue(s)
  BY DEF VariableClustering
<1>2. PICK clusters \in Clusterings(candidates) : Run(s, OK, Output(clusters))
  BY DEF VariableClustering
<1>3. IsFiniteSet(candidates)
  BY DataAssumption, FS_Subset
<1>4. Disjoint(clusters)
  BY <1>3, ClustersAreDisjoint
<1>5. Result(clusters).clusters = clusters
  OBVIOUS
<1>6. s \notin Exporters /\ s # "variable-selection"
  BY DEF Exporters
<1> HIDE DEF s, Result, OK, candidates
<1>7. ArtifactOK(s, "report", "VARIABLE_CLUSTERING", Result(clusters))
  BY <1>4, <1>5 DEF ArtifactOK, FrameRoles
<1>8. MayWrite(s, Output(clusters))
  BY <1>6, <1>7, OneOutput
<1> HIDE DEF Output
<1> QED
  BY <1>1, <1>2, <1>8, KeepRun

(* The selection finds the clusters of the step before it.                 *)
LEMMA SelectionParents == "variable-clustering" \in ToSet(Sources("variable-selection"))
<1> DEFINE s == "variable-selection"
           seq == Parents(s)
           all == Append(seq, s)
           names == {"initial-woe-iv", "variable-clustering"}
<1>1. seq = <<"initial-woe-iv", "variable-clustering">>
  BY DEF Parents, Treatment, Bundle
<1>2. seq \in Seq(names) /\ "variable-clustering" \in ToSet(seq)
  <2>1. \A a, b : <<a, b>> \in Seq({a, b}) /\ DOMAIN <<a, b>> = 1 .. 2 /\ <<a, b>>[2] = b
    OBVIOUS
  <2> HIDE DEF seq
  <2>2. DOMAIN seq = 1 .. 2 /\ seq[2] = "variable-clustering"
    BY <1>1, <2>1
  <2> QED
    BY <1>1, <2>1, <2>2 DEF ToSet
<1> HIDE DEF s, seq, names
<1>3. "variable-clustering" \in ToSet(all)
  BY <1>2, AppendOne
<1> QED
  BY <1>3 DEF Sources, all, seq, s

LEMMA ClustersFound ==
  ASSUME ScorecardInv, IsDue("variable-selection")
  PROVE Disjoint(Body(OfKind("variable-selection", "VARIABLE_CLUSTERING")).clusters)
<1> DEFINE s == "variable-selection"
           ids == OfKind(s, "VARIABLE_CLUSTERING")
           id == CHOOSE id \in ids : TRUE
<1>1. ClusteringId \in DOMAIN artifacts
  BY Edges DEF IsDue, IsNext, IsReady, ScorecardInv, StepsOK
<1>2. ClusteringId \in ids
  <2>1. Required(s) = {"report"}
    BY DEF Required, Treatment, Bundle
  <2> QED
    BY <1>1, <2>1, SelectionParents
       DEF OfKind, Inputs, Resolved, Kind, Role, StepOf, ClusteringId
<1>3. id \in ids
  BY <1>2
<1>4. id \in DOMAIN artifacts /\ id[3] = "VARIABLE_CLUSTERING"
  BY <1>3, Found DEF OfKind, Kind
<1>5. Body(ids) = artifacts[id].body
  BY DEF Body
<1> HIDE DEF id
<1>6. Disjoint(artifacts[id].body.clusters)
  BY <1>4 DEF ScorecardInv, ContentsOK, ArtifactOK
<1> QED
  BY <1>5, <1>6

(* The candidates in an order are finitely many.                           *)
LEMMA RankIsSequence ==
  ASSUME NEW informative, IsFiniteSet(DOMAIN informative), NEW rank \in Rankings(informative)
  PROVE rank \in Seq(ToSet(rank))
<1>1. rank \in SetToSeqs(DOMAIN informative)
  BY DEF Rankings
<1> DEFINE size == Cardinality(DOMAIN informative)
<1>2. size \in Nat
  BY FS_CardinalityType
<1>3. rank \in [1 .. size -> DOMAIN informative]
  BY <1>1 DEF SetToSeqs
<1> HIDE DEF size
<1>4. DOMAIN rank = 1 .. size /\ rank = [k \in 1 .. size |-> rank[k]]
  BY <1>3
<1> QED
  BY <1>2, <1>4, SequenceOfSet

LEMMA KeepSelection == ASSUME ScorecardInv, VariableSelection PROVE ScorecardInv'
<1> DEFINE s == "variable-selection"
           table == OfKind(s, "IV_TABLE")
           clustering == OfKind(s, "VARIABLE_CLUSTERING")
           informative == Body(table)
           found == Body(clustering)
           Result(rank, strong, p) == Selection(rank, strong, found.clusters, found.nulls, p)
           Made(rank, strong, p) ==
             [p |-> p, clusters |-> found.clusters,
              selected |-> Result(rank, strong, p).selected,
              rejected |-> Result(rank, strong, p).rejected]
           Output(rank, strong, p) ==
             Publish("definition", "SELECTION_DEFINITION", table \cup clustering,
                     Made(rank, strong, p))
           OK == Has(s, {"IV_TABLE"}) /\ ~Ambiguous(s, {"VARIABLE_CLUSTERING"})
<1>1. IsDue(s)
  BY DEF VariableSelection
<1>2. PICK p \in SelectionParams, rank \in Rankings(informative) :
        \E strong \in Strongest(rank, informative, p.demanding) :
          Run(s, OK, Output(rank, strong, p))
  BY DEF VariableSelection
<1>3. PICK strong \in Strongest(rank, informative, p.demanding) :
             Run(s, OK, Output(rank, strong, p))
  BY <1>2
<1>4. Disjoint(found.clusters)
  BY <1>1, ClustersFound
<1>5. s \notin Exporters /\ s # "variable-clustering"
  BY DEF Exporters
<1>6. p.limit \in Nat /\ p.representatives \in Seq(ToSet(p.representatives))
  BY ParameterAssumption
<1>7. ASSUME OK PROVE MayWrite(s, Output(rank, strong, p))
  <2>1. IsFiniteSet(DOMAIN informative)
    <3> DEFINE id == CHOOSE id \in table : TRUE
    <3>1. Cardinality(table) = 1
      BY <1>7 DEF Has
    <3>2. id \in table
      BY <3>1, OneOfKind
    <3>3. id \in DOMAIN artifacts /\ id[3] = "IV_TABLE"
      BY <3>2, Found DEF OfKind, Kind
    <3>4. informative = artifacts[id].body
      BY DEF Body
    <3> HIDE DEF id
    <3>5. IsFiniteSet(DOMAIN (artifacts[id].body))
      BY <3>3 DEF ScorecardInv, ContentsOK, ArtifactOK
    <3> QED
      BY <3>4, <3>5
  <2> HIDE DEF informative, found
  <2>2. rank \in Seq(ToSet(rank))
    BY <2>1, RankIsSequence
  <2>3. KeepsItsRules(Made(rank, strong, p))
    BY <1>4, <1>6, <2>2, SelectionKeepsRules
  <2> HIDE DEF s, Made
  <2>4. ArtifactOK(s, "definition", "SELECTION_DEFINITION", Made(rank, strong, p))
    BY <2>3 DEF ArtifactOK, FrameRoles
  <2> QED
    BY <1>5, <2>4, OneOutput
<1> HIDE DEF s, OK, Output
<1> QED
  BY <1>1, <1>3, <1>7, KeepRun

-----------------------------------------------------------------------------
(* The invariant and what it is for.                                       *)
LEMMA ScorecardInit == Init => ScorecardInv
BY DEF Init, ScorecardInv, ContentsOK, StepsOK

LEMMA ScorecardStep == ScorecardInv /\ [Next]_vars => ScorecardInv'
<1> SUFFICES ASSUME ScorecardInv, [Next]_vars PROVE ScorecardInv'
  OBVIOUS
<1>1. CASE Prepare
  BY <1>1, KeepImport, KeepExclusions, KeepSplit, KeepTreatment, KeepOthers DEF Prepare
<1>2. CASE InitialWoeIv
  <2>1. IsDue("initial-woe-iv") /\ \E p : CalculateWoeIv("initial-woe-iv", p)
    BY <1>2 DEF InitialWoeIv
  <2> QED
    BY <2>1, KeepWoeIv
<1>3. CASE FinalWoeIv
  <2>1. IsDue("final-woe-iv") /\ \E p : CalculateWoeIv("final-woe-iv", p)
    BY <1>3 DEF FinalWoeIv
  <2> QED
    BY <2>1, KeepWoeIv
<1>4. CASE Build /\ ~InitialWoeIv /\ ~FinalWoeIv
  BY <1>4, KeepBinning, KeepClustering, KeepSelection, KeepManual, KeepTransform,
     KeepModelFit, KeepOthers DEF Build
<1>5. CASE ScoringExportPython \/ ScoringExportSql
  <2>1. \E s \in Exporters : ScorerExport(s, ScorerKind(s))
    BY <1>5 DEF ScoringExportPython, ScoringExportSql, ScorerKind, Exporters
  <2> QED
    BY <2>1, KeepExport
<1>6. CASE Validate /\ ~(ScoringExportPython \/ ScoringExportSql)
  BY <1>6, KeepApplyWoe, KeepApplyModel, KeepMetrics, KeepSummary, KeepOthers DEF Validate
<1>7. CASE UNCHANGED vars
  BY <1>7 DEF vars, ScorecardInv, ContentsOK, StepsOK, ArtifactOK
<1> QED
  BY <1>1, <1>2, <1>3, <1>4, <1>5, <1>6, <1>7 DEF Next

LEMMA ExportedAgree ==
  ASSUME ScorecardInv, NEW s \in Exporters, s \in done, NEW value,
         NEW v \in DOMAIN Content(s, "report", ScorerKind(s))
  PROVE LET ir == Content(s, "report", ScorerKind(s))[v]
            weight == Applied(value, ScorecardBins[v], KindOf(v), ScorecardWeights[v])
        IN /\ ScoredByPython(value, ir, KindOf(v)) = weight
           /\ ScoredBySql(value, ir, KindOf(v)) = weight
<1> DEFINE bins == artifacts[BinsId].body
           table == artifacts[WeightsId].body
           body == artifacts[<<s, "report", ScorerKind(s)>>].body
<1>1. BinsId \in DOMAIN artifacts /\ Rendered(body, artifacts[ModelId].body, bins, table)
  BY DEF ScorecardInv, StepsOK
<1>2. \A u \in DOMAIN bins : Ordered(bins[u], KindOf(u))
  BY <1>1 DEF ScorecardInv, ContentsOK, ArtifactOK, BinsId
<1>3. /\ body = Content(s, "report", ScorerKind(s))
      /\ bins = ScorecardBins /\ table = ScorecardWeights
  BY DEF Content, ScorecardBins, ScorecardWeights, BinsId, WeightsId
<1> HIDE DEF bins, table, body
<1>4. v \in DOMAIN body
  BY <1>3
<1>5. /\ v \in DOMAIN bins /\ Compiles(bins[v], KindOf(v), table[v])
      /\ body[v] = Compiled(bins[v], table[v])
  BY <1>1, <1>4 DEF Rendered
<1>6. /\ ScoredByPython(value, body[v], KindOf(v)) = Applied(value, bins[v], KindOf(v), table[v])
      /\ ScoredBySql(value, body[v], KindOf(v)) = Applied(value, bins[v], KindOf(v), table[v])
  BY <1>2, <1>5, ScorersAgreeOnBins
<1> QED
  BY <1>3, <1>6

(* The applied frames, the Python function and the SQL expression give a   *)
(* value the same weight, or none of them gives it one: whatever the data, *)
(* the parameters and the overrides are, and for every value, whether it   *)
(* was seen in training or not.                                            *)
THEOREM ScorersStayInAgreement == Spec => []ScorersAgree
<1>1. ScorecardInv => ScorersAgree
  <2> DEFINE python == Content("scoring-export-python", "report", "SCORING_EXPORT_PYTHON")
             sql == Content("scoring-export-sql", "report", "SCORING_EXPORT_SQL")
  <2> SUFFICES ASSUME ScorecardInv, Exporters \subseteq done, NEW v \in DOMAIN python, NEW value
               PROVE LET weight == Applied(value, ScorecardBins[v], KindOf(v), ScorecardWeights[v])
                     IN /\ ScoredByPython(value, python[v], KindOf(v)) = weight
                        /\ ScoredBySql(value, sql[v], KindOf(v)) = weight
    BY DEF ScorersAgree, Exporters
  <2>1. /\ "scoring-export-python" \in Exporters /\ "scoring-export-sql" \in Exporters
        /\ python = Content("scoring-export-python", "report", ScorerKind("scoring-export-python"))
        /\ sql = Content("scoring-export-sql", "report", ScorerKind("scoring-export-sql"))
    BY DEF Exporters, ScorerKind
  <2>2. DOMAIN sql = DOMAIN python
    BY <2>1 DEF ScorecardInv, StepsOK, Rendered, Content
  <2> HIDE DEF python, sql
  <2> QED
    BY <2>1, <2>2, ExportedAgree
<1> QED
  BY <1>1, ScorecardInit, ScorecardStep, PTL DEF Spec

(* A selection keeps what its parameters promise, whatever the ranking,    *)
(* the clusters and the parameters are.                                    *)
THEOREM SelectionStaysSound == Spec => []SelectionIsSound
<1>1. ScorecardInv => SelectionIsSound
  <2> SUFFICES ASSUME ScorecardInv, "variable-selection" \in done
               PROVE KeepsItsRules(artifacts[SelectionId].body)
    BY DEF SelectionIsSound, Content, SelectionId, KeepsItsRules
  <2>1. SelectionId \in DOMAIN artifacts
    BY DEF ScorecardInv, StepsOK
  <2> QED
    BY <2>1 DEF ScorecardInv, ContentsOK, ArtifactOK, SelectionId
<1> QED
  BY <1>1, ScorecardInit, ScorecardStep, PTL DEF Spec

=============================================================================
