-------------------------------- MODULE Pathway --------------------------------
(***************************************************************************)
(* One run of the canonical scorecard pathway: the nodes, the artifacts    *)
(* that pass between them and how a node finds the ones it reads.          *)
(*                                                                         *)
(* A step is due when its parents have succeeded; of the steps that are    *)
(* due the one with the smallest name runs.  It sees the artifacts of its  *)
(* parents whose role its contract lists, and looks among them for the     *)
(* first of a role or for the only one of a kind.  A step that fails ends  *)
(* the run.  Commits, leases, cancellation and the publication of files    *)
(* are in RunLifecycle and Publication.                                    *)
(*                                                                         *)
(* An artifact is named <<step, role, kind>>.  Its record holds from, the  *)
(* sample roles whose rows have gone into it, and body, its content.  The  *)
(* kind of a data set is "FRAME": it has no schema version, so it is only  *)
(* found by its role.  A frame is a sequence of rows                       *)
(* [x, target, woe]: the values of the variables, the class, and the       *)
(* weights that a transformation has added.                                *)
(***************************************************************************)
EXTENDS Binning

CONSTANTS
  Variables,         \* the columns of a data set, the target aside
  NumericVariables,  \* the ones with a numeric type; the others have levels
  Datasets,          \* the frames that may be imported
  Indeterminates,    \* the sets of classes that may be declared indeterminate
  RuleLists,         \* lists of exclusion rules [column, op, values]
  ScoredValues,      \* for a variable, the values a scorer may be given
  Orders,            \* orders of the rows, one for each seed of the split
  TrainPercent, TestPercent,
  Treatments,        \* [fill, cap, floor], functions from some variables
  BinningParams,     \* [maxBins, levels, separate, exclude]
  SelectionParams,   \* what Binning!Selection needs, and demanding: min_iv > 0
  OverrideLists,     \* lists of manual overrides
  WoeParams          \* [purpose, smoothing, rationale, block] of the final WOE step

(* Data sets and lists are finite.  A numeric variable has integers for    *)
(* values, apart from Null.                                                *)
ASSUME DataAssumption ==
  /\ IsFiniteSet(Variables) /\ NumericVariables \subseteq Variables
  /\ \A frame \in Datasets :
       /\ frame \in Seq(ToSet(frame))
       /\ \A n \in DOMAIN frame :
            /\ DOMAIN frame[n] = {"x", "target", "woe"} /\ DOMAIN frame[n].x = Variables
            /\ \A v \in NumericVariables : frame[n].x[v] \in Int \cup {Null}

(* Sizes and limits are integers, and so is what a numeric value becomes.  *)
ASSUME ParameterAssumption ==
  /\ \A t \in Treatments : \A given \in {t.fill, t.cap, t.floor} :
       \A v \in NumericVariables \cap DOMAIN given : given[v] \in Int
  /\ \A p \in BinningParams : p.maxBins \in Int /\ p.levels \in Int
  /\ \A p \in SelectionParams :
       p.limit \in Nat /\ p.representatives \in Seq(ToSet(p.representatives))
  /\ \A os \in OverrideLists :
       /\ os \in Seq(ToSet(os))
       /\ \A n \in DOMAIN os : os[n].sources \in Seq(ToSet(os[n].sources))

VARIABLES state, done, artifacts

vars == <<state, done, artifacts>>

SampleRoles == {"train", "test", "oot"}

KindOf(v) == IF v \in NumericVariables THEN "numeric" ELSE "categorical"

-----------------------------------------------------------------------------
(* The plan.                                                               *)

(* The steps in the order of their names, which decides between steps that *)
(* are due.                                                                *)
ByName ==
  <<"apply-exclusions", "apply-model", "apply-woe", "automatic-binning",
    "build-summary-report", "calibration-diagnostics", "coefficient-sign-check",
    "cutoff-analysis", "define-metadata", "explicit-missing-outlier-treatment",
    "final-woe-iv", "freeze-scorecard-bundle", "import", "initial-woe-iv",
    "manual-binning", "model-fit", "profile", "sample-definition", "score-scaling",
    "scorecard-table-export", "scoring-export-python", "scoring-export-sql",
    "separation-diagnostics", "split", "technical-manifest", "validate-target",
    "validation-metrics", "variable-clustering", "variable-selection",
    "vif-diagnostics", "woe-transform-train">>

Steps == ToSet(ByName)

Treatment == "explicit-missing-outlier-treatment"
Bundle == "freeze-scorecard-bundle"

Parents(s) ==
  CASE s = "define-metadata" -> <<"import">>
    [] s = "apply-exclusions" -> <<"import", "define-metadata">>
    [] s = "profile" -> <<"apply-exclusions">>
    [] s \in {"validate-target", "sample-definition"} -> <<"apply-exclusions", "define-metadata">>
    [] s = "split" -> <<"apply-exclusions", "sample-definition">>
    [] s = Treatment -> <<"split">>
    [] s = "automatic-binning" -> <<Treatment, "define-metadata">>
    [] s = "initial-woe-iv" -> <<Treatment, "automatic-binning", "define-metadata">>
    [] s = "variable-clustering" -> <<Treatment, "initial-woe-iv">>
    [] s = "variable-selection" -> <<"initial-woe-iv", "variable-clustering">>
    [] s = "manual-binning" -> <<"automatic-binning", "variable-selection">>
    [] s = "final-woe-iv" -> <<Treatment, "manual-binning", "define-metadata">>
    [] s = "woe-transform-train" ->
         <<Treatment, "manual-binning", "final-woe-iv", "define-metadata", "variable-selection">>
    [] s = "model-fit" -> <<"woe-transform-train", "define-metadata", "variable-selection">>
    [] s = "coefficient-sign-check" -> <<"model-fit", "final-woe-iv">>
    [] s = "separation-diagnostics" -> <<"model-fit">>
    [] s = "vif-diagnostics" -> <<"woe-transform-train", "model-fit">>
    [] s = "score-scaling" ->
         <<"model-fit", "manual-binning", "final-woe-iv", "coefficient-sign-check",
           "separation-diagnostics", "vif-diagnostics">>
    [] s = "build-summary-report" -> <<"score-scaling", "model-fit", "final-woe-iv">>
    [] s = Bundle ->
         <<"score-scaling", "model-fit", "manual-binning", "final-woe-iv", "define-metadata",
           "variable-selection">>
    [] s = "apply-woe" ->
         <<Treatment, "manual-binning", "final-woe-iv", "variable-selection", Bundle>>
    [] s = "apply-model" -> <<"apply-woe", "model-fit", "score-scaling", Bundle>>
    [] s = "calibration-diagnostics" -> <<"apply-model", "model-fit", "define-metadata">>
    [] s \in {"validation-metrics", "cutoff-analysis"} -> <<"apply-model", "define-metadata">>
    [] s = "scorecard-table-export" ->
         <<"score-scaling", Bundle, "apply-model", "manual-binning", "final-woe-iv">>
    [] s \in {"scoring-export-python", "scoring-export-sql"} ->
         <<Bundle, "model-fit", "score-scaling", "apply-model", "manual-binning", "final-woe-iv">>
    [] s = "technical-manifest" ->
         <<"define-metadata", "sample-definition", "final-woe-iv", "build-summary-report",
           "validation-metrics", "cutoff-analysis">>
    [] OTHER -> <<>>

(* The roles a node must and may have among its inputs.                    *)
Required(s) ==
  CASE s \in {"define-metadata", "apply-exclusions", "profile", "validate-target",
              "sample-definition", "split"} -> {"input"}
    [] s = Treatment -> {"train"}
    [] s \in {"automatic-binning", "initial-woe-iv", "final-woe-iv", "model-fit"} ->
         {"train", "definition"}
    [] s = "variable-clustering" -> {"train", "report"}
    [] s = "variable-selection" -> {"report"}
    [] s \in {"manual-binning", "validation-metrics", "cutoff-analysis"} -> {"definition"}
    [] s = "woe-transform-train" -> {"train", "definition", "report"}
    [] s = "coefficient-sign-check" -> {"model", "report"}
    [] s = "separation-diagnostics" -> {"model"}
    [] s = "vif-diagnostics" -> {"train", "model"}
    [] s = "score-scaling" -> {"model", "definition", "report"}
    [] s = "build-summary-report" -> {"scorecard", "model", "report"}
    [] s \in {Bundle, "scoring-export-python", "scoring-export-sql"} ->
         {"definition", "report", "model", "scorecard"}
    [] s = "apply-woe" -> {"definition", "report"}
    [] s = "apply-model" -> {"model"}
    [] s = "calibration-diagnostics" -> {"train", "test", "oot", "model", "definition"}
    [] s = "scorecard-table-export" -> {"scorecard", "report"}
    [] s = "technical-manifest" -> {"manifest"}
    [] OTHER -> {}

Optional(s) ==
  CASE s \in {"apply-exclusions", "sample-definition"} -> {"train", "definition"}
    [] s = "split" -> {"definition"}
    [] s = Treatment -> {"test", "oot"}
    [] s \in {"apply-woe", "apply-model"} -> SampleRoles \cup {"scorecard"}
    [] s = "validation-metrics" -> SampleRoles \cup {"report"}
    [] s = "cutoff-analysis" -> SampleRoles
    [] OTHER -> {}

-----------------------------------------------------------------------------
(* What a step sees.                                                       *)

StepOf(id) == id[1]
Role(id) == id[2]
Kind(id) == id[3]

(* The parents in their order, then what the executor has added for it.    *)
Sources(s) == Append(Parents(s), s)
Resolved(s) == {id \in DOMAIN artifacts : StepOf(id) \in ToSet(Sources(s))}
Inputs(s) == {id \in Resolved(s) : Role(id) \in Required(s) \cup Optional(s)}

(* Mutant: any sample will do.                                             *)
OfAnySample(s, role) ==
  {id \in Inputs(s) : Role(id) = role \/ {role, Role(id)} \subseteq SampleRoles}

OfRole(s, role) == {id \in Inputs(s) : Role(id) = role}
OfKind(s, kind) == {id \in Inputs(s) : Kind(id) = kind}

(* The first of a role comes from the parent that is named first.          *)
ParentNo(s, id) == CHOOSE n \in DOMAIN Sources(s) : Sources(s)[n] = StepOf(id)

(* Mutant: the last of a role.                                             *)
LastOf(s, role) ==
  {id \in OfRole(s, role) : \A other \in OfRole(s, role) : ParentNo(s, id) >= ParentNo(s, other)}

FirstOf(s, role) ==
  {id \in OfRole(s, role) : \A other \in OfRole(s, role) : ParentNo(s, id) <= ParentNo(s, other)}

(* The sample frames (sample_bundle).                                      *)
Samples(s) == UNION {OfRole(s, role) : role \in SampleRoles}
RolesOf(ids) == {Role(id) : id \in ids}

(* Two artifacts of the kind that is asked for are an error.               *)
Has(s, kinds) == \A k \in kinds : Cardinality(OfKind(s, k)) = 1
Ambiguous(s, kinds) == \E k \in kinds : Cardinality(OfKind(s, k)) > 1

Body(ids) == artifacts[CHOOSE id \in ids : TRUE].body

From(ids) == UNION {artifacts[id].from : id \in ids}
Derived(ids, body) == [from |-> From(ids), body |-> body]

(* One artifact of a role and a kind, made from the artifacts in ids.      *)
Publish(role, kind, ids, body) == [k \in {<<role, kind>>} |-> Derived(ids, body)]

(* A frame for some roles, with its record, and a report.                  *)
PublishFrames(frames, kind, ids, body) ==
  [k \in {<<role, "FRAME">> : role \in DOMAIN frames} \cup {<<"report", kind>>} |->
     IF k[1] = "report" THEN Derived(ids, body) ELSE frames[k[1]]]

Published(s, outputs) ==
  LET new == {<<s, k[1], k[2]>> : k \in DOMAIN outputs} IN
  [id \in DOMAIN artifacts \cup new |->
     IF id \in new THEN outputs[<<id[2], id[3]>>] ELSE artifacts[id]]

-----------------------------------------------------------------------------
(* Running a step.                                                         *)

IsReady(s) == s \notin done /\ ToSet(Parents(s)) \subseteq done

Position(s) == CHOOSE n \in DOMAIN ByName : ByName[n] = s

(* Mutant: the other end of the queue.                                     *)
IsNextReversed(s) == IsReady(s) /\ \A t \in Steps : IsReady(t) => Position(s) >= Position(t)

IsNext(s) == IsReady(s) /\ \A t \in Steps : IsReady(t) => Position(s) <= Position(t)

IsDue(s) == state = "running" /\ IsNext(s)

HasRoles(s) ==
  /\ Resolved(s) # {} => Inputs(s) # {}
  /\ \A role \in Required(s) : OfRole(s, role) # {}

(* Mutant: the run is closed before its last step.                         *)
SucceedEarly(s, outputs) ==
  /\ artifacts' = Published(s, outputs)
  /\ done' = done \cup {s}
  /\ state' = IF Cardinality(done') >= Cardinality(Steps) - 1 THEN "succeeded" ELSE "running"

Succeed(s, outputs) ==
  /\ artifacts' = Published(s, outputs)
  /\ done' = done \cup {s}
  /\ state' = IF done' = Steps THEN "succeeded" ELSE "running"

Fail ==
  /\ state' = "failed"
  /\ UNCHANGED <<done, artifacts>>

(* The node of the step succeeds if ok, with these outputs.                *)
Run(s, ok, outputs) == IF HasRoles(s) /\ ok THEN Succeed(s, outputs) ELSE Fail

Column(frame, v) ==
  [n \in DOMAIN frame |-> [value |-> frame[n].x[v], bad |-> frame[n].target = "bad"]]
Classes(frame) == {frame[n].target : n \in DOMAIN frame}

-----------------------------------------------------------------------------
(* Preparation of the data.                                                *)

Import ==
  /\ IsDue("import")
  /\ \E frame \in Datasets :
       Run("import", frame # <<>>, Publish("input", "FRAME", {}, frame))

(* The classes good and bad must be observed, and no class that is not     *)
(* declared.                                                               *)
DefineMetadata ==
  LET s == "define-metadata"
      input == FirstOf(s, "input") IN
  /\ IsDue(s)
  /\ \E indeterminate \in Indeterminates :
       LET observed == Classes(Body(input)) \ {Null} IN
       Run(s, /\ {"good", "bad"} \subseteq observed
              /\ observed \subseteq {"good", "bad"} \cup indeterminate,
           Publish("definition", "MODELLING_METADATA", input, indeterminate))

(* A comparison with a null is null, and its row is dropped as well.       *)
IsExcluded(row, rule) ==
  LET value == IF rule.column = "target" THEN row.target ELSE row.x[rule.column] IN
  CASE rule.op = "in" -> value = Null \/ value \in rule.values
    [] rule.op = "not_in" -> value = Null \/ value \notin rule.values
    [] rule.op = "is_null" -> value = Null
    [] rule.op = "is_not_null" -> value # Null

ApplyExclusions ==
  LET s == "apply-exclusions"
      input == FirstOf(s, "input") IN
  /\ IsDue(s)
  /\ \E rules \in RuleLists :
       LET frame == Body(input)
           kept == At(frame, {m \in DOMAIN frame :
                                \A n \in DOMAIN rules : ~IsExcluded(frame[m], rules[n])}) IN
       Run(s, \A n \in DOMAIN rules : rules[n].column \in Variables \cup {"target"},
           PublishFrames([role \in {"input"} |-> Derived(input, kept)],
                         "EXCLUSION_SUMMARY", input, Len(kept)))

ProfileDataset ==
  LET s == "profile"
      input == FirstOf(s, "input") IN
  /\ IsDue(s)
  /\ Run(s, TRUE, Publish("report", "PROFILE_SUMMARY", input, Len(Body(input))))

(* A null counts as a class.                                               *)
ValidateTarget ==
  LET s == "validate-target"
      input == FirstOf(s, "input") IN
  /\ IsDue(s)
  /\ Run(s, Cardinality(Classes(Body(input))) = 2,
         Publish("report", "SPLIT_SUMMARY", input, Classes(Body(input))))

(* A column of weights, if one is given, must be there and be numeric.     *)
SampleDefinition ==
  LET s == "sample-definition"
      input == FirstOf(s, "input") IN
  /\ IsDue(s)
  /\ \E canWeigh \in BOOLEAN :
       Run(s, canWeigh, Publish("definition", "SAMPLE_DEFINITION", input, Len(Body(input))))

(* The role of each row: the rows of a class are shuffled and cut in three *)
(* (_stratified_split).                                                    *)
SplitRole(frame, order) ==
  LET Class(n) == {m \in DOMAIN frame : frame[m].target = frame[n].target}
      Rank(n) == Cardinality({m \in Class(n) : order[m] <= order[n]})
      Part(n, percent) == Max({1, (Cardinality(Class(n)) * percent) \div 100})
      Train(n) == Part(n, TrainPercent)
      Test(n) == Part(n, TestPercent)
  IN [n \in DOMAIN frame |->
        IF Rank(n) <= Train(n) THEN "train"
        ELSE IF Rank(n) <= Train(n) + Test(n) THEN "test" ELSE "oot"]

(* The rows of a sample have no sample role before the split, so what is   *)
(* made of all of them earlier is from none.                               *)
Split ==
  LET s == "split"
      input == FirstOf(s, "input") IN
  /\ IsDue(s)
  /\ \E order \in Orders :
       LET frame == Body(input)
           roles == SplitRole(frame, order)
           Sample(role) == At(frame, {n \in DOMAIN frame : roles[n] = role})
       IN Run(s, /\ \A role \in SampleRoles : Sample(role) # <<>>
                 /\ Cardinality(Classes(Sample("train")) \ {Null}) >= 2,
              PublishFrames([role \in SampleRoles |-> [from |-> {role}, body |-> Sample(role)]],
                            "SPLIT_SUMMARY", input, Len(frame)))

(* Nulls are filled, then high values are capped, then low ones raised,    *)
(* each with the values of the parameters, whatever the sample.            *)
Treated(value, v, t) ==
  LET filled == IF v \in DOMAIN t.fill /\ value = Null THEN t.fill[v] ELSE value
      capped == IF v \in DOMAIN t.cap /\ filled # Null
                THEN Min({filled, t.cap[v]}) ELSE filled
  IN IF v \in DOMAIN t.floor /\ capped # Null THEN Max({capped, t.floor[v]}) ELSE capped

TreatMissingAndOutliers ==
  LET s == Treatment IN
  /\ IsDue(s)
  /\ \E t \in Treatments :
       LET Treat(row) == [row EXCEPT !.x = [v \in Variables |-> Treated(@[v], v, t)]]
           Sample(role) ==
             LET frame == Body(OfRole(s, role)) IN
             Derived(OfRole(s, role), [n \in DOMAIN frame |-> Treat(frame[n])])
       IN Run(s, /\ DOMAIN t.fill \cup DOMAIN t.cap \cup DOMAIN t.floor \subseteq Variables
                 /\ DOMAIN t.cap \cup DOMAIN t.floor \subseteq NumericVariables,
              PublishFrames([role \in RolesOf(Samples(s)) |-> Sample(role)],
                            "EXCLUSION_SUMMARY", Samples(s), t))

-----------------------------------------------------------------------------
(* Binning, weights of evidence and selection, on the training sample.     *)

(* An order for the levels of each variable that has levels.               *)
OrdersOfLevels(frame) ==
  LET Of(v) == LevelOrders(Column(frame, v))
      levelled == Variables \ NumericVariables
  IN {f \in [levelled -> UNION {Of(v) : v \in levelled}] : \A v \in levelled : f[v] \in Of(v)}

AutomaticBinning ==
  LET s == "automatic-binning"
      train == FirstOf(s, "train")
      metadata == OfKind(s, "MODELLING_METADATA")
      frame == Body(train) IN
  /\ IsDue(s)
  /\ \E p \in BinningParams : \E orders \in OrdersOfLevels(frame) :
       LET BinsOf(v) ==
             IF v \in NumericVariables
             THEN NumericBins(Column(frame, v), p.maxBins, p.separate)
             ELSE CategoricalBins(Column(frame, v), orders[v], p.levels, p.separate)
       IN Run(s, /\ p.maxBins >= 2 /\ p.levels >= 1
                 /\ Has(s, {"MODELLING_METADATA"})
                 /\ {"good", "bad"} \subseteq Classes(frame),
              Publish("definition", "BIN_DEFINITION", train \cup metadata,
                      [v \in Variables \ p.exclude |-> BinsOf(v)]))

(* A bin without goods or without bads stops the final step, unless it is  *)
(* smoothed and the smoothing has a rationale, or the policy is to warn.   *)
MayPass(p, hasZeroCell) ==
  p.purpose = "final" /\ hasZeroCell =>
    IF p.smoothing THEN p.rationale ELSE ~p.block

CalculateWoeIv(s, p) ==
  LET train == FirstOf(s, "train")
      definition == OfKind(s, "BIN_DEFINITION")
      metadata == OfKind(s, "MODELLING_METADATA")
      frame == Body(train)
      bins == Body(definition)
      table == [v \in DOMAIN bins |->
                  WoeRows(Column(frame, v), bins[v], KindOf(v), p.smoothing)]
      BodyOf(kind) ==
        CASE kind = "WOE_TABLE" -> table
          [] kind = "IV_TABLE" -> [v \in DOMAIN bins |-> IsInformative(table[v])]
          [] OTHER -> p.purpose
      tables == {<<"report", kind>> : kind \in {"WOE_TABLE", "IV_TABLE", "SUMMARY", "WOE_IV_EVIDENCE"}}
  IN Run(s, /\ Has(s, {"BIN_DEFINITION", "MODELLING_METADATA"})
            /\ Classes(frame) = {"good", "bad"}
            /\ \A v \in DOMAIN bins : \A n \in DOMAIN bins[v] : HasMask(bins[v][n], KindOf(v))
            /\ MayPass(p, \E v \in DOMAIN bins : HasZeroCell(table[v])),
         [k \in tables |-> Derived(train \cup definition \cup metadata, BodyOf(k[2]))])

InitialWoeIv ==
  /\ IsDue("initial-woe-iv")
  /\ CalculateWoeIv("initial-woe-iv",
       [purpose |-> "initial", smoothing |-> FALSE, rationale |-> FALSE, block |-> TRUE])

FinalWoeIv ==
  /\ IsDue("final-woe-iv")
  /\ \E p \in WoeParams : CalculateWoeIv("final-woe-iv", p)

(* The clusters that correlations may connect: disjoint, of two or more.   *)
Clusterings(candidates) ==
  LET clusters == {c \in SUBSET candidates : Cardinality(c) >= 2} IN
  {SetToSeq(found) : found \in {found \in SUBSET clusters :
                                  \A c, d \in found : c = d \/ c \cap d = {}}}

VariableClustering ==
  LET s == "variable-clustering"
      train == FirstOf(s, "train")
      table == OfKind(s, "IV_TABLE") IN
  /\ IsDue(s)
  /\ \E clusters \in Clusterings(NumericVariables \cap DOMAIN Body(table)) :
       Run(s, ~Ambiguous(s, {"IV_TABLE"}),
           Publish("report", "VARIABLE_CLUSTERING", train \cup table,
             [clusters |-> clusters,
              nulls |-> [v \in Variables |->
                           Cardinality(RowsWith(Column(Body(train), v), Null))]]))

(* A ranking by information value puts those that have any first.          *)
Rankings(informative) ==
  {rank \in SetToSeqs(DOMAIN informative) :
     \A i, j \in DOMAIN rank : i < j /\ informative[rank[j]] => informative[rank[i]]}

(* The candidates that may reach min_iv: all of them if it is zero.        *)
Strongest(rank, informative, demanding) ==
  IF demanding
  THEN {ToSet(SubSeq(rank, 1, n)) : n \in 0 .. Cardinality({v \in ToSet(rank) : informative[v]})}
  ELSE {ToSet(rank)}

VariableSelection ==
  LET s == "variable-selection"
      table == OfKind(s, "IV_TABLE")
      clustering == OfKind(s, "VARIABLE_CLUSTERING")
      informative == Body(table)
      found == Body(clustering) IN
  /\ IsDue(s)
  /\ \E p \in SelectionParams : \E rank \in Rankings(informative) :
     \E strong \in Strongest(rank, informative, p.demanding) :
       LET result == Selection(rank, strong, found.clusters, found.nulls, p) IN
       Run(s, Has(s, {"IV_TABLE"}) /\ ~Ambiguous(s, {"VARIABLE_CLUSTERING"}),
           Publish("definition", "SELECTION_DEFINITION", table \cup clustering,
                   [p |-> p, clusters |-> found.clusters,
                    selected |-> result.selected, rejected |-> result.rejected]))

(* Overrides of a variable that was not selected are refused, and so are   *)
(* overrides with accept_automated.                                        *)
ManualBinning ==
  LET s == "manual-binning"
      definition == OfKind(s, "BIN_DEFINITION")
      selection == OfKind(s, "SELECTION_DEFINITION")
      bins == Body(definition)
      selected == ToSet(Body(selection).selected) IN
  /\ IsDue(s)
  /\ \E os \in OverrideLists : \E accepted \in BOOLEAN :
       LET Of(v) == At(os, {n \in DOMAIN os : os[n].variable = v})
           kept == {v \in DOMAIN bins \cap selected :
                      \A n \in DOMAIN Of(v) : Of(v)[n].action # "reject_variable"}
       IN Run(s, /\ ~(accepted /\ os # <<>>)
                 /\ Has(s, {"BIN_DEFINITION", "SELECTION_DEFINITION"})
                 /\ \A n \in DOMAIN os :
                      /\ os[n].variable \in DOMAIN bins \cap selected
                      /\ IsValidOverride(os[n], bins[os[n].variable], KindOf(os[n].variable))
                 /\ \A v \in DOMAIN bins : CanApply(bins[v], Of(v)),
              Publish("definition", "BIN_DEFINITION", definition \cup selection,
                      [v \in kept |-> AfterOverrides(bins[v], Of(v))]))

-----------------------------------------------------------------------------
(* The model and its scorecard.                                            *)

IsMappedAll(bins, table) ==
  \A v \in DOMAIN bins : \A n \in DOMAIN bins[v] :
     v \in DOMAIN table /\ IsMapped(bins[v][n].id, table[v])

(* Weights can be applied: each bin has a mask and a weight.               *)
IsWeighable(bins, table, chosen) ==
  \A v \in chosen :
     /\ bins[v] # <<>>
     /\ \A n \in DOMAIN bins[v] : /\ HasMask(bins[v][n], KindOf(v))
                                  /\ v \in DOMAIN table /\ IsMapped(bins[v][n].id, table[v])

(* The rows with the weights of the chosen variables, Null where no bin    *)
(* holds the value.                                                        *)
Weighted(frame, bins, table, chosen) ==
  [n \in DOMAIN frame |->
     [frame[n] EXCEPT !.woe =
        [v \in chosen |-> Applied(frame[n].x[v], bins[v], KindOf(v), table[v])]]]
IsMatched(frame) == \A n \in DOMAIN frame : Null \notin {frame[n].woe[v] : v \in DOMAIN frame[n].woe}

WoeTransformTrain ==
  LET s == "woe-transform-train"
      train == FirstOf(s, "train")
      definition == OfKind(s, "BIN_DEFINITION")
      weights == OfKind(s, "WOE_TABLE")
      selection == OfKind(s, "SELECTION_DEFINITION")
      fitted == definition \cup weights \cup selection
      bins == Body(definition)
      chosen == ToSet(Body(selection).selected) \cap DOMAIN bins
      frame == Weighted(Body(train), bins, Body(weights), chosen) IN
  /\ IsDue(s)
  /\ Run(s, /\ Has(s, {"BIN_DEFINITION", "WOE_TABLE", "SELECTION_DEFINITION"})
            /\ DOMAIN bins # {} /\ IsMappedAll(bins, Body(weights))
            /\ chosen # {} /\ IsWeighable(bins, Body(weights), chosen)
            /\ IsMatched(frame),
         PublishFrames([role \in {"train"} |-> Derived(train \cup fitted, frame)],
                       "WOE_TRANSFORM_EVIDENCE", train \cup fitted, chosen))

(* Whether the regression converges is not modelled; its features are the  *)
(* weights it finds, its source variables the ones that were selected.     *)
ModelFit ==
  LET s == "model-fit"
      train == FirstOf(s, "train")
      metadata == OfKind(s, "MODELLING_METADATA")
      selection == OfKind(s, "SELECTION_DEFINITION")
      frame == Body(train) IN
  /\ IsDue(s)
  /\ \E converged \in BOOLEAN :
       Run(s, /\ Has(s, {"MODELLING_METADATA", "SELECTION_DEFINITION"})
              /\ DOMAIN frame[1].woe # {}
              /\ Classes(frame) = {"good", "bad"}
              /\ converged,
           Publish("model", "MODEL_ARTIFACT", train \cup metadata \cup selection,
                   [features |-> DOMAIN frame[1].woe,
                    sources |-> ToSet(Body(selection).selected)]))

(* Among the weights reported it wants those of the final step.            *)
CoefficientSignCheck ==
  LET s == "coefficient-sign-check"
      final == {id \in OfKind(s, "WOE_IV_EVIDENCE") : artifacts[id].body = "final"}
      model == FirstOf(s, "model") IN
  /\ IsDue(s)
  /\ Run(s, final # {},
         Publish("report", "COEFFICIENT_SIGN_DIAGNOSTICS", final \cup model, Body(model).features))

SeparationDiagnostics ==
  LET s == "separation-diagnostics"
      model == FirstOf(s, "model") IN
  /\ IsDue(s)
  /\ Run(s, TRUE, Publish("report", "SEPARATION_DIAGNOSTICS", model, Body(model).features))

VifDiagnostics ==
  LET s == "vif-diagnostics"
      inputs == FirstOf(s, "train") \cup FirstOf(s, "model") IN
  /\ IsDue(s)
  /\ Run(s, TRUE, Publish("report", "VIF_DIAGNOSTICS", inputs, Body(FirstOf(s, "model")).features))

(* Every variable with bins needs a coefficient, and every bin a weight.   *)
ScoreScaling ==
  LET s == "score-scaling"
      model == FirstOf(s, "model")
      definition == OfKind(s, "BIN_DEFINITION")
      weights == OfKind(s, "WOE_TABLE")
      bins == Body(definition) IN
  /\ IsDue(s)
  /\ Run(s, /\ Has(s, {"BIN_DEFINITION", "WOE_TABLE"})
            /\ DOMAIN bins # {} /\ DOMAIN bins \subseteq Body(model).features
            /\ IsMappedAll(bins, Body(weights)),
         Publish("scorecard", "SCORE_SCALING", model \cup definition \cup weights,
                 UNION {{<<v, n>> : n \in DOMAIN bins[v]} : v \in DOMAIN bins}))

BuildSummary ==
  LET s == "build-summary-report"
      inputs == FirstOf(s, "scorecard") \cup FirstOf(s, "model") IN
  /\ IsDue(s)
  /\ Run(s, /\ \A id \in FirstOf(s, "scorecard") : Kind(id) = "SCORE_SCALING"
            /\ ~Ambiguous(s, {"IV_TABLE", "WOE_TABLE"}),
         Publish("report", "SUMMARY",
                 inputs \cup OfKind(s, "IV_TABLE") \cup OfKind(s, "WOE_TABLE"),
                 Body(FirstOf(s, "model")).features))

(* The bundle pins the artifacts it is made from.  A source variable       *)
(* without weights stops it, as does one that was selected and afterwards  *)
(* rejected by hand.                                                       *)
Freeze ==
  LET s == Bundle
      pins == [model |-> FirstOf(s, "model"), scorecard |-> OfKind(s, "SCORE_SCALING"),
               bins |-> OfKind(s, "BIN_DEFINITION"), woes |-> OfKind(s, "WOE_TABLE"),
               selection |-> OfKind(s, "SELECTION_DEFINITION")] IN
  /\ IsDue(s)
  /\ Run(s, /\ Has(s, {"MODELLING_METADATA", "BIN_DEFINITION", "WOE_TABLE", "MODEL_ARTIFACT",
                       "SCORE_SCALING"})
            /\ ~Ambiguous(s, {"SELECTION_DEFINITION"})
            /\ Body(pins.model).sources \subseteq DOMAIN Body(pins.woes),
         Publish("scorecard", "FROZEN_SCORECARD_BUNDLE",
                 UNION {pins[field] : field \in DOMAIN pins}, pins))

-----------------------------------------------------------------------------
(* Application of the bundle to all samples, and validation.               *)

ApplyWoe ==
  LET s == "apply-woe"
      bundle == OfKind(s, "FROZEN_SCORECARD_BUNDLE")
      definition == OfKind(s, "BIN_DEFINITION")
      weights == OfKind(s, "WOE_TABLE")
      selection == OfKind(s, "SELECTION_DEFINITION")
      fitted == definition \cup weights \cup selection
      bins == Body(definition)
      chosen == ToSet(Body(selection).selected) \cap DOMAIN bins
      Sample(role) == Weighted(Body(OfRole(s, role)), bins, Body(weights), chosen) IN
  /\ IsDue(s)
  /\ Run(s, /\ Has(s, {"BIN_DEFINITION", "WOE_TABLE", "SELECTION_DEFINITION"})
            /\ ~Ambiguous(s, {"FROZEN_SCORECARD_BUNDLE"})
            /\ bundle # {} =>
                 /\ Body(bundle).bins = definition
                 /\ Body(bundle).woes = weights
                 /\ Body(bundle).selection \in {{}, selection}
            /\ IsWeighable(bins, Body(weights), chosen)
            /\ \A role \in RolesOf(Samples(s)) : IsMatched(Sample(role)),
         PublishFrames([role \in RolesOf(Samples(s)) |->
                          Derived(OfRole(s, role) \cup fitted, Sample(role))],
                       "APPLY_WOE_EVIDENCE", Samples(s) \cup fitted \cup bundle, chosen))

(* A scorecard must be the scaling and not the bundle; of a scored row the *)
(* weights are kept that its score is computed from.                       *)
ApplyModel ==
  LET s == "apply-model"
      model == FirstOf(s, "model")
      scorecard == FirstOf(s, "scorecard")
      bundle == OfKind(s, "FROZEN_SCORECARD_BUNDLE")
      features == Body(model).features
      Scored(role) ==
        LET frame == Body(OfRole(s, role)) IN
        [n \in DOMAIN frame |-> [frame[n] EXCEPT !.woe = [v \in features |-> @[v]]]] IN
  /\ IsDue(s)
  /\ Run(s, /\ \A id \in scorecard : Kind(id) = "SCORE_SCALING"
            /\ ~Ambiguous(s, {"FROZEN_SCORECARD_BUNDLE"})
            /\ bundle # {} =>
                 /\ Body(bundle).model = model
                 /\ Body(bundle).scorecard \in {{}, scorecard}
            /\ \A id \in Samples(s) : features \subseteq DOMAIN artifacts[id].body[1].woe,
         PublishFrames([role \in RolesOf(Samples(s)) |->
                          Derived(OfRole(s, role) \cup model \cup scorecard, Scored(role))],
                       "APPLY_MODEL_EVIDENCE",
                       Samples(s) \cup model \cup scorecard \cup bundle, features))

CalibrationDiagnostics ==
  LET s == "calibration-diagnostics"
      inputs == Samples(s) \cup OfRole(s, "model") \cup OfRole(s, "definition") IN
  /\ IsDue(s)
  /\ Run(s, TRUE, Publish("report", "CALIBRATION_DIAGNOSTICS", inputs, SampleRoles))

(* The report is published even if one of its gates fails the step.        *)
ValidationMetrics ==
  LET s == "validation-metrics"
      inputs == OfKind(s, "MODELLING_METADATA") \cup OfKind(s, "APPLY_MODEL_EVIDENCE")
                \cup Samples(s) IN
  /\ IsDue(s)
  /\ IF ~HasRoles(s) \/ ~Has(s, {"MODELLING_METADATA"})
        \/ Ambiguous(s, {"FROZEN_SCORECARD_BUNDLE", "APPLY_MODEL_EVIDENCE"})
     THEN Fail
     ELSE \E passed \in BOOLEAN :
            LET report == Publish("report", "VALIDATION_METRICS", inputs, passed) IN
            IF passed THEN Succeed(s, report)
            ELSE /\ artifacts' = Published(s, report)
                 /\ state' = "failed"
                 /\ UNCHANGED done

(* A sample whose rows all have the same score is an error.  Rows with the *)
(* same weights have the same score, and others may have.                  *)
CutoffAnalysis ==
  LET s == "cutoff-analysis"
      Scores(id) == {artifacts[id].body[n].woe : n \in DOMAIN artifacts[id].body} IN
  /\ IsDue(s)
  /\ \E distinct \in BOOLEAN :
       Run(s, /\ Has(s, {"MODELLING_METADATA"})
              /\ distinct /\ \A id \in Samples(s) : Cardinality(Scores(id)) > 1,
           Publish("report", "CUTOFF_ANALYSIS", Samples(s) \cup OfKind(s, "MODELLING_METADATA"),
                   RolesOf(Samples(s))))

-----------------------------------------------------------------------------
(* Exports.                                                                *)

ScorecardTableExport ==
  LET s == "scorecard-table-export"
      scorecard == OfKind(s, "SCORE_SCALING") IN
  /\ IsDue(s)
  /\ Run(s, scorecard # {} /\ Body(scorecard) # {},
         Publish("report", "SCORE_TABLE", scorecard, Body(scorecard)))

(* What both scorers are generated from, for every feature of the model.   *)
ScorerExport(s, kind) ==
  LET bundle == OfKind(s, "FROZEN_SCORECARD_BUNDLE")
      model == FirstOf(s, "model")
      scorecard == OfKind(s, "SCORE_SCALING")
      definition == OfKind(s, "BIN_DEFINITION")
      weights == OfKind(s, "WOE_TABLE")
      bins == Body(definition)
      table == Body(weights)
      features == Body(model).features IN
  /\ IsDue(s)
  /\ Run(s, /\ Has(s, {"FROZEN_SCORECARD_BUNDLE", "BIN_DEFINITION", "WOE_TABLE", "SCORE_SCALING"})
            /\ Body(bundle).model = model /\ Body(bundle).scorecard = scorecard
            /\ Body(bundle).bins = definition /\ Body(bundle).woes = weights
            /\ features \subseteq DOMAIN bins
            /\ \A v \in features : /\ v \in DOMAIN table /\ table[v] # <<>>
                                   /\ Compiles(bins[v], KindOf(v), table[v]),
         Publish("report", kind, bundle \cup model \cup scorecard \cup definition \cup weights,
                 [v \in features |-> Compiled(bins[v], table[v])]))

ScoringExportPython == ScorerExport("scoring-export-python", "SCORING_EXPORT_PYTHON")
ScoringExportSql == ScorerExport("scoring-export-sql", "SCORING_EXPORT_SQL")

(* Before the step of the manifest the executor publishes a summary of the *)
(* run so far as an input of it.                                           *)
PublishRunSummary ==
  LET s == "technical-manifest" IN
  /\ IsDue(s) /\ OfKind(s, "RUN_SUMMARY") = {}
  /\ artifacts' = Published(s, Publish("manifest", "RUN_SUMMARY", {}, done))
  /\ UNCHANGED <<state, done>>

TechnicalManifest ==
  LET s == "technical-manifest"
      summary == FirstOf(s, "manifest") IN
  /\ IsDue(s) /\ summary # {}
  /\ Run(s, TRUE, Publish("manifest", "TECHNICAL_MANIFEST_INDEX", summary, Body(summary)))

-----------------------------------------------------------------------------
Init ==
  /\ state = "running"
  /\ done = {}
  /\ artifacts = [id \in {} |-> [from |-> {}, body |-> {}]]

Prepare ==
  \/ Import \/ DefineMetadata \/ ApplyExclusions \/ ProfileDataset \/ ValidateTarget
  \/ SampleDefinition \/ Split \/ TreatMissingAndOutliers

Build ==
  \/ AutomaticBinning \/ InitialWoeIv \/ VariableClustering \/ VariableSelection
  \/ ManualBinning \/ FinalWoeIv \/ WoeTransformTrain \/ ModelFit
  \/ CoefficientSignCheck \/ SeparationDiagnostics \/ VifDiagnostics
  \/ ScoreScaling \/ BuildSummary \/ Freeze

Validate ==
  \/ ApplyWoe \/ ApplyModel \/ CalibrationDiagnostics \/ ValidationMetrics
  \/ CutoffAnalysis \/ ScorecardTableExport \/ ScoringExportPython
  \/ ScoringExportSql \/ PublishRunSummary \/ TechnicalManifest

(* A run that has ended stays as it is.                                    *)
Next == Prepare \/ Build \/ Validate

Spec == Init /\ [][Next]_vars

-----------------------------------------------------------------------------
(* Properties.                                                             *)

FittedKinds ==
  {"MODELLING_METADATA", "BIN_DEFINITION", "WOE_TABLE", "IV_TABLE", "VARIABLE_CLUSTERING",
   "SELECTION_DEFINITION", "MODEL_ARTIFACT", "SCORE_SCALING", "FROZEN_SCORECARD_BUNDLE"}

(* What a finished step has published of a kind.                           *)
Content(s, role, kind) == artifacts[<<s, role, kind>>].body
ScorecardBins == Content("manual-binning", "definition", "BIN_DEFINITION")
ScorecardWeights == Content("final-woe-iv", "report", "WOE_TABLE")
TrainingSample == Content(Treatment, "train", "FRAME")

(* The goods or the bads of the rows of a table, after each row and in all. *)
Totals(rows, class) ==
  LET upTo[n \in 0 .. Len(rows)] == IF n = 0 THEN 0 ELSE upTo[n - 1] + rows[n][class]
  IN upTo
Total(rows, class) == Totals(rows, class)[Len(rows)]

(* Types.  A run that has succeeded has done every step, and an artifact   *)
(* is there only if its step is done, apart from the summary of the run    *)
(* and from the report of a validation that has failed.                    *)
TypeOK ==
  /\ state \in {"running", "succeeded", "failed"}
  /\ done \in SUBSET Steps
  /\ state = "succeeded" <=> done = Steps
  /\ \A id \in DOMAIN artifacts :
       /\ artifacts[id].from \in SUBSET SampleRoles
       /\ StepOf(id) \in done \/ Kind(id) \in {"RUN_SUMMARY", "VALIDATION_METRICS"}
  /\ \A s \in done : ToSet(Parents(s)) \subseteq done

(* Leakage (docs/adr/0007): nothing the scorecard consists of, from the    *)
(* modelling metadata to the frozen bundle, and no training frame has been *)
(* made of a row of the test or out-of-time sample.  Nodes find their      *)
(* inputs by role and kind among everything their parents have published,  *)
(* so one parent too many, or a wrong first one, would do it.              *)
NothingLeaks ==
  \A id \in DOMAIN artifacts :
     Kind(id) \in FittedKinds \/ Role(id) = "train" => artifacts[id].from \subseteq {"train"}

(* Every row of training counts once in the weights of each variable of    *)
(* the scorecard, whatever the analyst has merged, grouped or moved.  The  *)
(* node counts the rows of each bin by its mask and never compares the     *)
(* sum with the sample.  (Two groups of one variable share an id, yet each *)
(* has its own rows.)                                                      *)
WoeAccountsForTraining ==
  "woe-transform-train" \in done =>
    \A v \in DOMAIN ScorecardBins : \A class \in {"good", "bad"} :
       LET column == Column(TrainingSample, v) IN
       Total(ScorecardWeights[v], class) = Counts(column, DOMAIN column)[class]

(* The three scorers agree: on any value, seen in training or not, the     *)
(* weight of the applied frames, of the Python function and of the SQL     *)
(* expression are the same, or none of them has one.                       *)
ScorersAgree ==
  {"scoring-export-python", "scoring-export-sql"} \subseteq done =>
    LET python == Content("scoring-export-python", "report", "SCORING_EXPORT_PYTHON")
        sql == Content("scoring-export-sql", "report", "SCORING_EXPORT_SQL")
    IN \A v \in DOMAIN python : \A value \in ScoredValues[v] :
         LET weight == Applied(value, ScorecardBins[v], KindOf(v), ScorecardWeights[v]) IN
         /\ IsPython(python[v], KindOf(v)) =>
              ScoredByPython(value, python[v], KindOf(v)) = weight
         /\ ScoredBySql(value, sql[v], KindOf(v)) = weight

(* What a selection promises of its parameters: no variable twice, none    *)
(* both selected and excluded, at most limit, and at most one of a cluster *)
(* if a rule for clusters is set, unless the analyst has included more.    *)
SelectionIsSound ==
  "variable-selection" \in done =>
    LET found == Content("variable-selection", "definition", "SELECTION_DEFINITION")
        p == found.p
        selected == found.selected
    IN /\ IsInjective(selected)
       /\ ToSet(selected) \cap p.excludes = {}
       /\ p.includes = {} => Len(selected) <= p.limit
       /\ p.rule # "none" =>
            /\ Len(selected) <= p.limit
            /\ \A c \in DOMAIN found.clusters :
                 Cardinality((found.clusters[c] \cap ToSet(selected)) \ p.includes) <= 1

(* What may stop a run that has frozen a bundle: a gate of the validation, *)
(* scores that are all the same, a value of another sample that is in no   *)
(* bin, or a bin that the exporters cannot render.                         *)
MayStop ==
  \/ \E id \in DOMAIN artifacts : Kind(id) = "VALIDATION_METRICS" /\ ~artifacts[id].body
  \/ IsNext("cutoff-analysis")
  \/ /\ IsNext("apply-woe")
     /\ \E role \in {"test", "oot"} :
          LET frame == Content(Treatment, role, "FRAME") IN
          \E n \in DOMAIN frame : \E v \in DOMAIN ScorecardBins :
             Applied(frame[n].x[v], ScorecardBins[v], KindOf(v), ScorecardWeights[v]) = Null
  \/ /\ IsNext("scoring-export-python")
     /\ \E v \in DOMAIN ScorecardBins : ~Compiles(ScorecardBins[v], KindOf(v), ScorecardWeights[v])

(* A frozen bundle can be applied: a run that has frozen one fails only at *)
(* the application of the weights, where a value of another sample is in   *)
(* no bin, at an exporter that cannot render a bin, or at the validation   *)
(* of its scores, and never for the inputs a step has found.               *)
FrozenIsApplied == state = "failed" /\ Bundle \in done => MayStop

(* The manifest of a run that has succeeded lists every other step.  The   *)
(* executor makes the summary when it reaches the step, whose parents are  *)
(* a sixth of the plan: that the others are done is owed to its name.      *)
ManifestListsAll ==
  state = "succeeded" =>
    Content("technical-manifest", "manifest", "TECHNICAL_MANIFEST_INDEX")
      = Steps \ {"technical-manifest"}

(* A bin id names one bin of a scorecard that is applied, as the           *)
(* validation of a definition demands.                                     *)
BinIdsAreUnique ==
  "apply-woe" \in done =>
    \A v \in DOMAIN ScorecardBins : \A m, n \in DOMAIN ScorecardBins[v] :
       m # n => ScorecardBins[v][m].id # ScorecardBins[v][n].id

(* A missing value that has a bin of its own in a frozen scorecard is      *)
(* scored by what is exported: the exporters do not fail on that bin.      *)
MissingIsScored ==
  state = "failed" /\ IsNext("scoring-export-python") =>
    \A v \in DOMAIN ScorecardBins : \A n \in DOMAIN ScorecardBins[v] :
       ScorecardBins[v][n].missing => KindOf(v) = "numeric"

=============================================================================
