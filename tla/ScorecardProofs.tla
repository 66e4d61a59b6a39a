---------------------------- MODULE ScorecardProofs ----------------------------
(***************************************************************************)
(* What is proved of the scorecard of a run, for any data, parameters and  *)
(* overrides: the tables of weights account for every row of training, and *)
(* a run that has frozen a bundle is not refused what the bundle pins.     *)
(*                                                                         *)
(* RunInv is inductive.  Beside Inv and ScorecardInv it has TrailInv:      *)
(* Layout, what the finished steps have published and nobody else; InTime, *)
(* that steps which are not behind the bundle are done before it; Trail,   *)
(* how the samples, the bins, the tables, the model and the bundle fit     *)
(* each other; and FrozenIsApplied itself.                                 *)
(***************************************************************************)
EXTENDS PathwayProofs

-----------------------------------------------------------------------------
(* What the rows of a table add up to.                                     *)
LEMMA TotalsExist ==
  ASSUME NEW rows, NEW class, Len(rows) \in Nat
  PROVE Totals(rows, class)
          = [n \in 0 .. Len(rows) |->
               IF n = 0 THEN 0 ELSE Totals(rows, class)[n - 1] + rows[n][class]]
<1> DEFINE Solves(f, m) ==
             f = [n \in 0 .. m |-> IF n = 0 THEN 0 ELSE f[n - 1] + rows[n][class]]
           T == {m \in Nat : \E f : Solves(f, m)}
<1>1. 0 \in T
  <2>1. Solves([n \in 0 .. 0 |-> 0], 0)
    OBVIOUS
  <2> QED
    BY <2>1
<1>2. ASSUME NEW m \in Nat, m \in T PROVE m + 1 \in T
  <2>1. PICK f : Solves(f, m)
    BY <1>2
  <2> DEFINE g == [n \in 0 .. m + 1 |-> IF n = m + 1 THEN f[m] + rows[m + 1][class] ELSE f[n]]
  <2>2. ASSUME NEW n \in 0 .. m + 1
        PROVE g[n] = IF n = 0 THEN 0 ELSE g[n - 1] + rows[n][class]
    <3>1. CASE n = 0
      BY <2>1, <3>1
    <3>2. CASE n \in 1 .. m
      BY <2>1, <3>2
    <3>3. CASE n = m + 1
      BY <3>3
    <3> QED
      BY <3>1, <3>2, <3>3
  <2>3. Solves(g, m + 1)
    BY <2>2
  <2> HIDE DEF g, Solves
  <2>4. \E h : Solves(h, m + 1)
    BY <2>3
  <2> QED
    BY <2>4
<1>3. \E f : Solves(f, Len(rows))
  <2> HIDE DEF Solves
  <2> QED
    BY <1>1, <1>2, NaturalsInSet
<1>4. Totals(rows, class) = CHOOSE f : Solves(f, Len(rows))
  BY DEF Totals
<1> QED
  <2> HIDE DEF Solves
  <2>1. Solves(Totals(rows, class), Len(rows))
    BY <1>3, <1>4
  <2> QED
    BY <2>1 DEF Solves

(* Every row of a column is in one of the bins, and in no two.             *)
Partitions(bins, kind, column) ==
  \A i \in DOMAIN column :
    /\ \E k \in DOMAIN bins : InBin(column[i].value, bins[k], bins, kind)
    /\ \A j, k \in DOMAIN bins : j # k =>
         ~ (/\ InBin(column[i].value, bins[j], bins, kind)
            /\ InBin(column[i].value, bins[k], bins, kind))

LEMMA RowsAreCounted ==
  ASSUME NEW column, IsFiniteSet(DOMAIN column), NEW bins, NEW kind, NEW smoothing,
         Len(bins) \in Nat, DOMAIN bins = 1 .. Len(bins), Partitions(bins, kind, column),
         NEW class \in {"good", "bad"}
  PROVE Total(WoeRows(column, bins, kind, smoothing), class)
          = Counts(column, DOMAIN column)[class]
<1> DEFINE rows == WoeRows(column, bins, kind, smoothing)
           size == Len(bins)
           Is(i) == IF class = "good" THEN ~column[i].bad ELSE column[i].bad
           In(i, k) == InBin(column[i].value, bins[k], bins, kind)
           Of(k) == {i \in DOMAIN column : In(i, k) /\ Is(i)}
           UpTo(n) == {i \in DOMAIN column : Is(i) /\ \E k \in 1 .. n : In(i, k)}
           all == {i \in DOMAIN column : Is(i)}
           T == {n \in Nat : n <= size => Totals(rows, class)[n] = Cardinality(UpTo(n))}
<1>1. \A S : Counts(column, S)[class] = Cardinality({i \in S : Is(i)})
  <2>1. CASE class = "good"
    BY <2>1 DEF Counts
  <2>2. CASE class = "bad"
    BY <2>2 DEF Counts
  <2> QED
    BY <2>1, <2>2
<1>2. Counts(column, DOMAIN column)[class] = Cardinality(all)
  BY <1>1
<1>3. DOMAIN rows = 1 .. size
  BY DEF WoeRows
<1>4. ASSUME NEW k \in 1 .. size PROVE rows[k][class] = Cardinality(Of(k))
  <2> DEFINE matching == {i \in DOMAIN column : InBin(column[i].value, bins[k], bins, kind)}
             counts == Counts(column, matching)
             row == [id |-> bins[k].id, good |-> counts.good, bad |-> counts.bad,
                     woe |-> Odds(counts, Counts(column, DOMAIN column), Len(bins), smoothing)]
  <2>1. rows[k] = row
    BY DEF WoeRows
  <2>2. row[class] = counts[class]
    <3> HIDE DEF counts
    <3>1. CASE class = "good"
      BY <3>1
    <3>2. CASE class = "bad"
      BY <3>2
    <3> QED
      BY <3>1, <3>2
  <2>3. counts[class] = Cardinality({i \in matching : Is(i)})
    BY <1>1
  <2>4. {i \in matching : Is(i)} = Of(k)
    <3> HIDE DEF Is
    <3> QED
      OBVIOUS
  <2> QED
    BY <2>1, <2>2, <2>3, <2>4
<1>5. Len(rows) = size
  <2>1. rows = [k \in 1 .. size |-> rows[k]]
    BY DEF WoeRows
  <2> HIDE DEF rows, size
  <2> QED
    BY <1>3, <2>1, SequenceOfSet DEF size
<1>6. Partitions(bins, kind, column)
  OBVIOUS
<1>7. Totals(rows, class) = [n \in 0 .. size |->
        IF n = 0 THEN 0 ELSE Totals(rows, class)[n - 1] + rows[n][class]]
  <2> HIDE DEF rows
  <2>1. Len(rows) \in Nat
    BY <1>5
  <2> QED
    BY <1>5, <2>1, TotalsExist
<1> HIDE DEF rows, Is, In
<1>8. \A n : IsFiniteSet(UpTo(n)) /\ IsFiniteSet(Of(n))
  BY FS_Subset
<1>9. 0 \in T
  <2>1. UpTo(0) = {}
    OBVIOUS
  <2>2. Totals(rows, class)[0] = 0
    BY <1>7
  <2> HIDE DEF UpTo
  <2> QED
    BY <2>1, <2>2, FS_EmptySet
<1>10. ASSUME NEW n \in Nat, n \in T PROVE n + 1 \in T
  <2> SUFFICES ASSUME n + 1 <= size
               PROVE Totals(rows, class)[n + 1] = Cardinality(UpTo(n + 1))
    OBVIOUS
  <2>1. Totals(rows, class)[n + 1] = Cardinality(UpTo(n)) + Cardinality(Of(n + 1))
    <3>1. PICK k \in 1 .. size : k = n + 1 /\ k - 1 = n
      OBVIOUS
    <3>2. Totals(rows, class)[k] = Totals(rows, class)[k - 1] + rows[k][class]
      BY <1>7
    <3>3. Totals(rows, class)[n] = Cardinality(UpTo(n))
      BY <1>10
    <3> HIDE DEF UpTo, Of
    <3>4. rows[k][class] = Cardinality(Of(k))
      BY <1>4
    <3> QED
      BY <3>1, <3>2, <3>3, <3>4
  <2>2. UpTo(n + 1) = UpTo(n) \cup Of(n + 1)
    <3>1. \A k : k \in 1 .. n + 1 <=> k \in 1 .. n \/ k = n + 1
      OBVIOUS
    <3> QED
      BY <3>1
  <2>3. UpTo(n) \cap Of(n + 1) = {}
    <3> SUFFICES ASSUME NEW i \in DOMAIN column, In(i, n + 1), NEW k \in 1 .. n, In(i, k)
      PROVE FALSE
      OBVIOUS
    <3>1. k \in DOMAIN bins /\ n + 1 \in DOMAIN bins /\ k # n + 1
      OBVIOUS
    <3> QED
      BY <1>6, <3>1 DEF Partitions, In
  <2> HIDE DEF UpTo, Of
  <2>4. Cardinality(UpTo(n + 1))
          = Cardinality(UpTo(n)) + Cardinality(Of(n + 1)) - Cardinality(UpTo(n) \cap Of(n + 1))
    BY <1>8, <2>2, FS_Union
  <2>5. Cardinality(UpTo(n) \cap Of(n + 1)) = 0
    BY <2>3, FS_EmptySet
  <2>6. Cardinality(UpTo(n)) \in Nat /\ Cardinality(Of(n + 1)) \in Nat
    BY <1>8, FS_CardinalityType
  <2> QED
    BY <2>1, <2>4, <2>5, <2>6
<1>11. Totals(rows, class)[size] = Cardinality(UpTo(size))
  <2>1. size \in T
    BY <1>9, <1>10, NaturalsInSet
  <2> HIDE DEF UpTo
  <2> QED
    BY <2>1
<1>12. UpTo(size) = all
  BY <1>6 DEF Partitions, In
<1> QED
  BY <1>2, <1>5, <1>11, <1>12 DEF Total, rows

-----------------------------------------------------------------------------
(* What the finished steps of a run have published, and what holds of it.  *)

(* The outputs that a node looks for among its inputs.                     *)
Made(s) ==
  CASE s \in {"import", "apply-exclusions"} -> {<<"input", "FRAME">>}
    [] s \in {"split", Treatment, "apply-woe"} ->
         {<<"train", "FRAME">>, <<"test", "FRAME">>, <<"oot", "FRAME">>}
    [] s = "define-metadata" -> {<<"definition", "MODELLING_METADATA">>}
    [] s \in {"automatic-binning", "manual-binning"} -> {<<"definition", "BIN_DEFINITION">>}
    [] s \in {"initial-woe-iv", "final-woe-iv"} -> {<<"report", "WOE_TABLE">>}
    [] s = "variable-selection" -> {<<"definition", "SELECTION_DEFINITION">>}
    [] s = "woe-transform-train" -> {<<"train", "FRAME">>}
    [] s = "model-fit" -> {<<"model", "MODEL_ARTIFACT">>}
    [] s = "score-scaling" -> {<<"scorecard", "SCORE_SCALING">>}
    [] s = Bundle -> {<<"scorecard", "FROZEN_SCORECARD_BUNDLE">>}
    [] s = "apply-model" ->
         {<<"train", "FRAME">>, <<"test", "FRAME">>, <<"oot", "FRAME">>,
          <<"report", "APPLY_MODEL_EVIDENCE">>}
    [] OTHER -> {}

TrackedRoles == {"input", "train", "test", "oot", "model", "scorecard"}
TrackedKinds ==
  {"MODELLING_METADATA", "BIN_DEFINITION", "WOE_TABLE", "SELECTION_DEFINITION", "SCORE_SCALING",
   "FROZEN_SCORECARD_BUNDLE", "APPLY_MODEL_EVIDENCE"}

(* Of the roles and kinds by which nodes look, there is what has been made *)
(* and nothing else.                                                       *)
Layout ==
  /\ \A id \in DOMAIN artifacts :
       id[2] \in TrackedRoles \/ id[3] \in TrackedKinds => <<id[2], id[3]>> \in Made(id[1])
  /\ \A s \in done : \A k \in Made(s) : <<s, k[1], k[2]>> \in DOMAIN artifacts

(* A frame of rows with integers for the values of numeric variables.      *)
Tidy(frame) ==
  /\ \E n \in Nat : DOMAIN frame = 1 .. n
  /\ \A n \in DOMAIN frame :
       /\ DOMAIN frame[n] = {"x", "target", "woe"} /\ DOMAIN frame[n].x = Variables
       /\ \A v \in NumericVariables : frame[n].x[v] \in Int \cup {Null}

IsSample(frame) == Tidy(frame) /\ 1 \in DOMAIN frame

AutomaticBins == Content("automatic-binning", "definition", "BIN_DEFINITION")
Selected == ToSet(Content("variable-selection", "definition", "SELECTION_DEFINITION").selected)
WeightedTraining == Content("woe-transform-train", "train", "FRAME")

AreFresh(bins) ==
  DOMAIN bins \subseteq Variables /\ \A v \in DOMAIN bins : Fresh(bins[v], KindOf(v))

(* Every variable of the scorecard is selected, and its bins are made of   *)
(* the automatic ones.                                                     *)
ArePlaced(bins, automatic, selected) ==
  /\ DOMAIN bins \subseteq DOMAIN automatic \cap selected
  /\ \A v \in DOMAIN bins : Placed(bins[v], automatic[v], KindOf(v))

AreWeighed(table, bins, frame) ==
  /\ \E p \in WoeParams :
       table = [v \in DOMAIN bins |-> WoeRows(Column(frame, v), bins[v], KindOf(v), p.smoothing)]
  /\ \A v \in DOMAIN bins : \A n \in DOMAIN bins[v] : HasMask(bins[v][n], KindOf(v))

AreMatched(table, bins, frame) ==
  /\ DOMAIN bins # {} /\ IsWeighable(bins, table, DOMAIN bins)
  /\ IsMatched(Weighted(frame, bins, table, DOMAIN bins))

(* The first row of a frame has weights of these variables.                *)
HasWeights(frame, features) == 1 \in DOMAIN frame /\ DOMAIN frame[1].woe = features

ScalingId == <<"score-scaling", "scorecard", "SCORE_SCALING">>

Pins(bundle) ==
  /\ bundle.model = {ModelId} /\ bundle.scorecard = {ScalingId}
  /\ bundle.bins = {BinsId} /\ bundle.woes = {WeightsId} /\ bundle.selection = {SelectionId}

(* Steps that no later one waits for are done in the order of their names. *)
InTime ==
  /\ "sample-definition" \in done => "profile" \in done
  /\ Bundle \in done => "build-summary-report" \in done

Trail ==
  /\ \A s \in {"import", "apply-exclusions"} : s \in done => Tidy(Content(s, "input", "FRAME"))
  /\ \A s \in {"split", Treatment} : \A role \in SampleRoles :
       s \in done => IsSample(Content(s, role, "FRAME"))
  /\ "automatic-binning" \in done => AreFresh(AutomaticBins)
  /\ "manual-binning" \in done => ArePlaced(ScorecardBins, AutomaticBins, Selected)
  /\ "final-woe-iv" \in done => AreWeighed(ScorecardWeights, ScorecardBins, TrainingSample)
  /\ "woe-transform-train" \in done =>
       /\ AreMatched(ScorecardWeights, ScorecardBins, TrainingSample)
       /\ HasWeights(WeightedTraining, DOMAIN ScorecardBins)
  /\ "model-fit" \in done =>
       Content("model-fit", "model", "MODEL_ARTIFACT").features = DOMAIN ScorecardBins
  /\ "score-scaling" \in done => Content("score-scaling", "scorecard", "SCORE_SCALING") # {}
  /\ Bundle \in done => Pins(Content(Bundle, "scorecard", "FROZEN_SCORECARD_BUNDLE"))
  /\ "apply-woe" \in done =>
       \A role \in SampleRoles :
         HasWeights(Content("apply-woe", role, "FRAME"), DOMAIN ScorecardBins)

-----------------------------------------------------------------------------
(* What a step finds among what its parents have made.                     *)
LEMMA MadePairs ==
  ASSUME NEW s, NEW k \in Made(s)
  PROVE k = <<k[1], k[2]>> /\ k[2] \notin {"RUN_SUMMARY", "VALIDATION_METRICS"}
BY DEF Made

IsList(seq) == seq \in Seq(ToSet(seq))

LEMMA ParentsAreListed == ASSUME NEW s PROVE IsList(Parents(s))
<1>1. IsList(<<>>)
  BY DEF IsList, ToSet
<1>2. ASSUME NEW a PROVE IsList(<<a>>)
  BY DEF IsList, ToSet
<1>3. ASSUME NEW a, NEW b PROVE IsList(<<a, b>>)
  BY DEF IsList, ToSet
<1>4. ASSUME NEW a, NEW b, NEW c PROVE IsList(<<a, b, c>>)
  BY DEF IsList, ToSet
<1>5. ASSUME NEW a, NEW b, NEW c, NEW d, NEW e PROVE IsList(<<a, b, c, d, e>>)
  BY DEF IsList, ToSet
<1>6. ASSUME NEW a, NEW b, NEW c, NEW d, NEW e, NEW f PROVE IsList(<<a, b, c, d, e, f>>)
  BY DEF IsList, ToSet
<1>7. ASSUME NEW a, NEW b, NEW c, NEW d PROVE IsList(<<a, b, c, d>>)
  BY DEF IsList, ToSet
<1> QED
  BY <1>1, <1>2, <1>3, <1>4, <1>5, <1>6, <1>7 DEF Parents

LEMMA SourcesExist ==
  ASSUME NEW s
  PROVE /\ \E n \in Nat : DOMAIN Sources(s) = 1 .. n
        /\ ToSet(Parents(s)) \subseteq ToSet(Sources(s))
        /\ ToSet(Sources(s)) \subseteq ToSet(Parents(s)) \cup {s}
<1>1. Parents(s) \in Seq(ToSet(Parents(s)))
  BY ParentsAreListed DEF IsList
<1>2. Len(Parents(s)) \in Nat
  BY <1>1, LenProperties
<1>3. /\ DOMAIN Sources(s) = 1 .. Len(Parents(s)) + 1
      /\ ToSet(Parents(s)) \subseteq ToSet(Sources(s))
      /\ ToSet(Sources(s)) \subseteq ToSet(Parents(s)) \cup {s}
  BY <1>1, AppendOne DEF Sources
<1>4. \E n \in Nat : DOMAIN Sources(s) = 1 .. n
  BY <1>2, <1>3
<1> QED
  BY <1>3, <1>4

LEMMA MoreEdges ==
  /\ ToSet(Parents("define-metadata")) = {"import"}
  /\ ToSet(Parents("sample-definition")) = {"apply-exclusions", "define-metadata"}
  /\ ToSet(Parents("final-woe-iv")) = {Treatment, "manual-binning", "define-metadata"}
  /\ ToSet(Parents("woe-transform-train")) =
       {Treatment, "manual-binning", "final-woe-iv", "define-metadata", "variable-selection"}
  /\ ToSet(Parents(Bundle)) =
       {"score-scaling", "model-fit", "manual-binning", "final-woe-iv", "define-metadata",
        "variable-selection"}
  /\ ToSet(Parents("apply-woe")) =
       {Treatment, "manual-binning", "final-woe-iv", "variable-selection", Bundle}
  /\ ToSet(Parents("cutoff-analysis")) = {"apply-model", "define-metadata"}
  /\ ToSet(Parents("coefficient-sign-check")) = {"model-fit", "final-woe-iv"}
  /\ ToSet(Parents("separation-diagnostics")) = {"model-fit"}
  /\ ToSet(Parents("vif-diagnostics")) = {"woe-transform-train", "model-fit"}
<1>1. Parents("define-metadata") = <<"import">>
  BY DEF Parents, Treatment, Bundle
<1>2. Parents("sample-definition") = <<"apply-exclusions", "define-metadata">>
  BY DEF Parents, Treatment, Bundle
<1>3. Parents("final-woe-iv") = <<Treatment, "manual-binning", "define-metadata">>
  BY DEF Parents, Treatment, Bundle
<1>4. Parents("woe-transform-train") =
        <<Treatment, "manual-binning", "final-woe-iv", "define-metadata", "variable-selection">>
  BY DEF Parents, Treatment, Bundle
<1>5. Parents(Bundle) =
        <<"score-scaling", "model-fit", "manual-binning", "final-woe-iv", "define-metadata",
          "variable-selection">>
  BY DEF Parents, Treatment, Bundle
<1>6. Parents("apply-woe") =
        <<Treatment, "manual-binning", "final-woe-iv", "variable-selection", Bundle>>
  BY DEF Parents, Treatment, Bundle
<1>7. Parents("cutoff-analysis") = <<"apply-model", "define-metadata">>
  BY DEF Parents, Treatment, Bundle
<1>8. Parents("coefficient-sign-check") = <<"model-fit", "final-woe-iv">>
  BY DEF Parents, Treatment, Bundle
<1>9. Parents("separation-diagnostics") = <<"model-fit">>
  BY DEF Parents, Treatment, Bundle
<1>10. Parents("vif-diagnostics") = <<"woe-transform-train", "model-fit">>
  BY DEF Parents, Treatment, Bundle
<1> QED
  BY <1>1, <1>2, <1>3, <1>4, <1>5, <1>6, <1>7, <1>8, <1>9, <1>10 DEF ToSet

(* A run, as far as this module follows it.                                *)
TrailInv == Layout /\ InTime /\ Trail /\ FrozenIsApplied
RunInv == Inv /\ ScorecardInv /\ TrailInv

(* Everything a step may look for by role, of a role, or of a kind, if it  *)
(* is that of one output of one parent.                                    *)
OnlyRole(s, t, role) ==
  /\ t \in ToSet(Parents(s)) /\ role \in Required(s) \cup Optional(s) /\ role \in TrackedRoles
  /\ \A u \in ToSet(Parents(s)) : \A k \in Made(u) : k[1] = role => u = t

OneRole(s, t, role, kind) ==
  /\ OnlyRole(s, t, role)
  /\ <<role, kind>> \in Made(t) /\ \A k \in Made(t) : k[1] = role => k[2] = kind

OnlyKind(s, t, role, kind) ==
  /\ t \in ToSet(Parents(s)) /\ role \in Required(s) \cup Optional(s) /\ kind \in TrackedKinds
  /\ <<role, kind>> \in Made(t)
  /\ \A u \in ToSet(Parents(s)) : \A k \in Made(u) : k[2] = kind => u = t /\ k[1] = role

LEMMA InputIsMade ==
  ASSUME RunInv, NEW s, IsReady(s), NEW id \in Inputs(s),
         id[2] \in TrackedRoles \/ id[3] \in TrackedKinds
  PROVE /\ id = <<id[1], id[2], id[3]>> /\ id[1] \in ToSet(Parents(s))
        /\ <<id[2], id[3]>> \in Made(id[1]) /\ id \in DOMAIN artifacts
<1>1. id \in DOMAIN artifacts /\ id[1] \in ToSet(Sources(s))
  BY DEF Inputs, Resolved, StepOf
<1>2. id = <<id[1], id[2], id[3]>>
  BY <1>1 DEF RunInv, ScorecardInv, ContentsOK
<1>3. <<id[2], id[3]>> \in Made(id[1])
  BY <1>1 DEF RunInv, TrailInv, Layout
<1>4. id[3] \notin {"RUN_SUMMARY", "VALIDATION_METRICS"}
  <2> DEFINE k == <<id[2], id[3]>>
  <2>1. k[2] \notin {"RUN_SUMMARY", "VALIDATION_METRICS"}
    BY <1>3, MadePairs
  <2> QED
    BY <2>1
<1>5. id[1] \in done
  BY <1>1, <1>4 DEF RunInv, Inv, TypeOK, StepOf, Kind
<1>6. id[1] # s
  BY <1>5 DEF IsReady
<1> QED
  BY <1>1, <1>2, <1>3, <1>6, SourcesExist

LEMMA MadeIsInput ==
  ASSUME RunInv, NEW s, IsReady(s), NEW t \in ToSet(Parents(s)), NEW role, NEW kind,
         <<role, kind>> \in Made(t), role \in Required(s) \cup Optional(s)
  PROVE <<t, role, kind>> \in Inputs(s) /\ <<t, role, kind>> \in DOMAIN artifacts
<1>1. t \in done
  BY DEF IsReady
<1>2. <<t, role, kind>> \in DOMAIN artifacts
  <2> DEFINE k == <<role, kind>>
  <2>1. <<t, k[1], k[2]>> \in DOMAIN artifacts
    BY <1>1 DEF RunInv, TrailInv, Layout
  <2> QED
    BY <2>1
<1> QED
  BY <1>2, SourcesExist DEF Inputs, Resolved, StepOf, Role

LEMMA KindFound ==
  ASSUME RunInv, NEW s, IsReady(s), NEW t, NEW role, NEW kind, OnlyKind(s, t, role, kind)
  PROVE OfKind(s, kind) = {<<t, role, kind>>} /\ <<t, role, kind>> \in DOMAIN artifacts
<1>1. ASSUME NEW id \in OfKind(s, kind) PROVE id = <<t, role, kind>>
  <2>1. id \in Inputs(s) /\ id[3] = kind
    BY DEF OfKind, Kind
  <2>2. /\ id = <<id[1], id[2], id[3]>> /\ id[1] \in ToSet(Parents(s))
        /\ <<id[2], id[3]>> \in Made(id[1])
    BY <2>1, InputIsMade DEF OnlyKind
  <2>3. id[1] = t /\ id[2] = role
    <3> DEFINE k == <<id[2], id[3]>>
    <3>1. k[2] = kind /\ k \in Made(id[1]) /\ k[1] = id[2]
      BY <2>1, <2>2
    <3> HIDE DEF k
    <3> QED
      BY <2>2, <3>1 DEF OnlyKind
  <2> QED
    BY <2>1, <2>2, <2>3
<1>2. <<t, role, kind>> \in Inputs(s) /\ <<t, role, kind>> \in DOMAIN artifacts
  BY MadeIsInput DEF OnlyKind
<1>3. <<t, role, kind>> \in OfKind(s, kind)
  BY <1>2 DEF OfKind, Kind
<1> QED
  BY <1>1, <1>2, <1>3

LEMMA RoleFound ==
  ASSUME RunInv, NEW s, IsReady(s), NEW t, NEW role, NEW kind, OneRole(s, t, role, kind)
  PROVE /\ OfRole(s, role) = {<<t, role, kind>>} /\ FirstOf(s, role) = {<<t, role, kind>>}
        /\ <<t, role, kind>> \in DOMAIN artifacts
<1>1. ASSUME NEW id \in OfRole(s, role) PROVE id = <<t, role, kind>>
  <2>1. id \in Inputs(s) /\ id[2] = role
    BY DEF OfRole, Role
  <2>2. /\ id = <<id[1], id[2], id[3]>> /\ id[1] \in ToSet(Parents(s))
        /\ <<id[2], id[3]>> \in Made(id[1])
    BY <2>1, InputIsMade DEF OneRole, OnlyRole
  <2>3. id[1] = t /\ id[3] = kind
    <3> DEFINE k == <<id[2], id[3]>>
    <3>1. k[1] = role /\ k \in Made(id[1]) /\ k[2] = id[3]
      BY <2>1, <2>2
    <3> HIDE DEF k
    <3> QED
      BY <2>2, <3>1 DEF OneRole, OnlyRole
  <2> QED
    BY <2>1, <2>2, <2>3
<1>2. <<t, role, kind>> \in Inputs(s) /\ <<t, role, kind>> \in DOMAIN artifacts
  BY MadeIsInput DEF OneRole, OnlyRole
<1>3. <<t, role, kind>> \in OfRole(s, role)
  BY <1>2 DEF OfRole, Role
<1>4. FirstOf(s, role) # {}
  BY <1>3, SourcesExist, FirstIsFound
<1>5. FirstOf(s, role) \subseteq OfRole(s, role)
  BY DEF FirstOf
<1> QED
  BY <1>1, <1>2, <1>3, <1>4, <1>5

LEMMA OneIsThere ==
  ASSUME NEW s, NEW kind, NEW id, OfKind(s, kind) = {id}
  PROVE Cardinality(OfKind(s, kind)) = 1
BY FS_Singleton

-----------------------------------------------------------------------------
(* What a step has to publish to keep the trail.                           *)
Files(s, outputs) ==
  /\ \A k \in DOMAIN outputs :
       k[1] \in TrackedRoles \/ k[2] \in TrackedKinds => <<k[1], k[2]>> \in Made(s)
  /\ \A k \in Made(s) : <<k[1], k[2]>> \in DOMAIN outputs

Delivers(s, outputs) ==
  LET Of(role, kind) == outputs[<<role, kind>>].body IN
  /\ s \in {"import", "apply-exclusions"} => Tidy(Of("input", "FRAME"))
  /\ s \in {"split", Treatment} => \A role \in SampleRoles : IsSample(Of(role, "FRAME"))
  /\ s = "automatic-binning" => AreFresh(Of("definition", "BIN_DEFINITION"))
  /\ s = "manual-binning" => ArePlaced(Of("definition", "BIN_DEFINITION"), AutomaticBins, Selected)
  /\ s = "final-woe-iv" => AreWeighed(Of("report", "WOE_TABLE"), ScorecardBins, TrainingSample)
  /\ s = "woe-transform-train" =>
       /\ AreMatched(ScorecardWeights, ScorecardBins, TrainingSample)
       /\ HasWeights(Of("train", "FRAME"), DOMAIN ScorecardBins)
  /\ s = "model-fit" => Of("model", "MODEL_ARTIFACT").features = DOMAIN ScorecardBins
  /\ s = "score-scaling" => Of("scorecard", "SCORE_SCALING") # {}
  /\ s = Bundle => Pins(Of("scorecard", "FROZEN_SCORECARD_BUNDLE"))
  /\ s = "apply-woe" =>
       \A role \in SampleRoles : HasWeights(Of(role, "FRAME"), DOMAIN ScorecardBins)

(* What has been made stays as it is.                                      *)
LEMMA ContentKept ==
  ASSUME RunInv, NEW s, s \notin done, NEW outputs, artifacts' = Published(s, outputs),
         NEW t \in done, NEW role, NEW kind, <<role, kind>> \in Made(t)
  PROVE Content(t, role, kind)' = Content(t, role, kind)
<1> DEFINE k == <<role, kind>>
<1>1. <<t, k[1], k[2]>> \in DOMAIN artifacts
  BY DEF RunInv, TrailInv, Layout
<1>2. <<t, role, kind>> \in DOMAIN artifacts /\ t # s
  BY <1>1
<1> QED
  BY <1>2, KeptArtifacts DEF Content

LEMMA ContentMade ==
  ASSUME NEW s, NEW outputs, artifacts' = Published(s, outputs), Files(s, outputs),
         NEW role, NEW kind, <<role, kind>> \in Made(s)
  PROVE Content(s, role, kind)' = outputs[<<role, kind>>].body
<1> DEFINE k == <<role, kind>>
<1>1. <<k[1], k[2]>> \in DOMAIN outputs
  BY DEF Files
<1> QED
  BY <1>1, KeptArtifacts DEF Content

LEMMA LayoutOf ==
  ASSUME RunInv, NEW id \in DOMAIN artifacts, id[2] \in TrackedRoles \/ id[3] \in TrackedKinds
  PROVE <<id[2], id[3]>> \in Made(id[1])
BY DEF RunInv, TrailInv, Layout

LEMMA LayoutKept ==
  ASSUME RunInv, NEW s, NEW outputs, artifacts' = Published(s, outputs), Files(s, outputs),
         done' = done \cup {s}
  PROVE Layout'
<1>1. ASSUME NEW id \in DOMAIN artifacts', id[2] \in TrackedRoles \/ id[3] \in TrackedKinds
      PROVE <<id[2], id[3]>> \in Made(id[1])
  <2>1. CASE id \in DOMAIN artifacts
    BY <1>1, <2>1, LayoutOf
  <2>2. CASE \E k \in DOMAIN outputs : id = <<s, k[1], k[2]>>
    BY <1>1, <2>2 DEF Files
  <2>3. \/ id \in DOMAIN artifacts /\ artifacts'[id] = artifacts[id]
        \/ \E k \in DOMAIN outputs :
              id = <<s, k[1], k[2]>> /\ artifacts'[id] = outputs[<<k[1], k[2]>>]
    BY PublishedArtifacts
  <2> QED
    BY <2>1, <2>2, <2>3
<1>2. ASSUME NEW t \in done', NEW k \in Made(t) PROVE <<t, k[1], k[2]>> \in DOMAIN artifacts'
  <2>1. CASE t = s
    <3>1. <<k[1], k[2]>> \in DOMAIN outputs
      BY <2>1 DEF Files
    <3> QED
      BY <2>1, <3>1, KeptArtifacts
  <2>2. CASE t # s
    <3>1. <<t, k[1], k[2]>> \in DOMAIN artifacts
      BY <2>2 DEF RunInv, TrailInv, Layout
    <3> QED
      BY <3>1, KeptArtifacts
  <2> QED
    BY <2>1, <2>2
<1> QED
  BY <1>1, <1>2 DEF Layout

(* The same for what is published of a step that is not done.              *)
LEMMA LayoutAside ==
  ASSUME RunInv, NEW s, NEW outputs, artifacts' = Published(s, outputs), done' = done,
         \A k \in DOMAIN outputs : k[1] \notin TrackedRoles /\ k[2] \notin TrackedKinds
  PROVE Layout'
<1>1. ASSUME NEW id \in DOMAIN artifacts', id[2] \in TrackedRoles \/ id[3] \in TrackedKinds
      PROVE <<id[2], id[3]>> \in Made(id[1])
  <2>1. CASE id \in DOMAIN artifacts
    BY <1>1, <2>1, LayoutOf
  <2>2. CASE \E k \in DOMAIN outputs : id = <<s, k[1], k[2]>>
    BY <1>1, <2>2
  <2>3. \/ id \in DOMAIN artifacts /\ artifacts'[id] = artifacts[id]
        \/ \E k \in DOMAIN outputs :
              id = <<s, k[1], k[2]>> /\ artifacts'[id] = outputs[<<k[1], k[2]>>]
    BY PublishedArtifacts
  <2> QED
    BY <2>1, <2>2, <2>3
<1>2. DOMAIN artifacts \subseteq DOMAIN artifacts'
  BY KeptArtifacts
<1> QED
  BY <1>1, <1>2 DEF RunInv, TrailInv, Layout

(* The order of the steps behind which none waits.                         *)
LEMMA MorePlaces ==
  /\ Position("sample-definition") = 18 /\ Position("build-summary-report") = 5
  /\ Position(Bundle) = 12
<1>1. DOMAIN ByName = 1 .. 31
  BY DEF ByName
<1>2. /\ ByName[18] = "sample-definition"
      /\ \A n \in 1 .. 31 : ByName[n] = "sample-definition" => n = 18
  BY DEF ByName
<1>3. ByName[5] = "build-summary-report"
      /\ \A n \in 1 .. 31 : ByName[n] = "build-summary-report" => n = 5
  BY DEF ByName
<1>4. ByName[12] = Bundle /\ \A n \in 1 .. 31 : ByName[n] = Bundle => n = 12
  BY DEF ByName, Bundle
<1> QED
  BY <1>1, <1>2, <1>3, <1>4 DEF Position

LEMMA InTimeKept ==
  ASSUME RunInv, NEW s \in Steps, IsDue(s), done' = done \cup {s}
  PROVE InTime'
<1>1. IsReady(s) /\ ToSet(Parents(s)) \subseteq done
  BY DEF IsDue, IsNext, IsReady
<1>2. CASE s = "sample-definition"
  <2>1. ~IsReady("profile")
    BY <1>2, Places, MorePlaces, StepNames, NotReady
  <2>2. "profile" \in done
    BY <1>1, <1>2, <2>1, Edges, MoreEdges DEF IsReady
  <2> QED
    BY <1>2, <2>2 DEF RunInv, TrailInv, InTime, Bundle
<1>3. CASE s = Bundle
  <2>1. ~IsReady("build-summary-report")
    BY <1>3, MorePlaces, StepNames, NotReady
  <2>2. "build-summary-report" \in done
    BY <1>1, <1>3, <2>1, Edges, MoreEdges DEF IsReady
  <2> QED
    BY <1>3, <2>2 DEF RunInv, TrailInv, InTime, Bundle
<1>4. CASE s # "sample-definition" /\ s # Bundle
  BY <1>4 DEF RunInv, TrailInv, InTime
<1> QED
  BY <1>2, <1>3, <1>4

LEMMA ParentsDone ==
  ASSUME RunInv, NEW s, IsDue(s), NEW t \in done \cup {s}
  PROVE ToSet(Parents(t)) \subseteq done
BY Closed DEF RunInv, IsDue, IsNext, IsReady

LEMMA MadeNames ==
  /\ \A s \in {"import", "apply-exclusions"} : <<"input", "FRAME">> \in Made(s)
  /\ \A s \in {"split", Treatment, "apply-woe", "apply-model"} : \A role \in SampleRoles :
       <<role, "FRAME">> \in Made(s)
  /\ \A s \in {"automatic-binning", "manual-binning"} :
       <<"definition", "BIN_DEFINITION">> \in Made(s)
  /\ \A s \in {"initial-woe-iv", "final-woe-iv"} : <<"report", "WOE_TABLE">> \in Made(s)
  /\ <<"definition", "MODELLING_METADATA">> \in Made("define-metadata")
  /\ <<"definition", "SELECTION_DEFINITION">> \in Made("variable-selection")
  /\ <<"train", "FRAME">> \in Made("woe-transform-train")
  /\ <<"model", "MODEL_ARTIFACT">> \in Made("model-fit")
  /\ <<"scorecard", "SCORE_SCALING">> \in Made("score-scaling")
  /\ <<"scorecard", "FROZEN_SCORECARD_BUNDLE">> \in Made(Bundle)
BY DEF Made, SampleRoles, Treatment, Bundle

LEMMA TrailKept ==
  ASSUME RunInv, NEW s, IsDue(s), NEW outputs, Files(s, outputs), Delivers(s, outputs),
         artifacts' = Published(s, outputs), done' = done \cup {s}
  PROVE Trail'
<1>1. s \notin done
  BY DEF IsDue, IsNext, IsReady
<1>2. \A t \in done' : ToSet(Parents(t)) \subseteq done
  BY ParentsDone
<1>3. \A t \in done : \A role, kind : <<role, kind>> \in Made(t) =>
        Content(t, role, kind)' = Content(t, role, kind)
  BY <1>1, ContentKept
<1>4. \A role, kind : <<role, kind>> \in Made(s) =>
        Content(s, role, kind)' = outputs[<<role, kind>>].body
  BY ContentMade
<1>5. "manual-binning" \in done => ScorecardBins' = ScorecardBins
  BY <1>3, MadeNames DEF ScorecardBins
<1>6. "final-woe-iv" \in done => ScorecardWeights' = ScorecardWeights
  BY <1>3, MadeNames DEF ScorecardWeights
<1>7. Treatment \in done => TrainingSample' = TrainingSample
  BY <1>3, MadeNames DEF TrainingSample, SampleRoles
<1>8. "automatic-binning" \in done => AutomaticBins' = AutomaticBins
  BY <1>3, MadeNames DEF AutomaticBins
<1>9. "variable-selection" \in done => Selected' = Selected
  BY <1>3, MadeNames DEF Selected
<1>10. "woe-transform-train" \in done => WeightedTraining' = WeightedTraining
  BY <1>3, MadeNames DEF WeightedTraining
<1>11. ASSUME NEW t \in {"import", "apply-exclusions"}, t \in done'
       PROVE Tidy(Content(t, "input", "FRAME")')
  <2>1. CASE t = s
    BY <1>4, <1>11, <2>1, MadeNames DEF Delivers
  <2>2. CASE t # s
    BY <1>3, <1>11, <2>2, MadeNames DEF RunInv, TrailInv, Trail
  <2> QED
    BY <2>1, <2>2
<1>12. ASSUME NEW t \in {"split", Treatment}, NEW role \in SampleRoles, t \in done'
       PROVE IsSample(Content(t, role, "FRAME")')
  <2>1. CASE t = s
    BY <1>4, <1>12, <2>1, MadeNames DEF Delivers
  <2>2. CASE t # s
    BY <1>3, <1>12, <2>2, MadeNames DEF RunInv, TrailInv, Trail
  <2> QED
    BY <2>1, <2>2
<1>13. ASSUME "automatic-binning" \in done' PROVE AreFresh(AutomaticBins')
  <2>1. CASE s = "automatic-binning"
    <3>1. AutomaticBins' = outputs[<<"definition", "BIN_DEFINITION">>].body
      BY <1>4, <2>1, MadeNames DEF AutomaticBins
    <3> QED
      BY <2>1, <3>1 DEF Delivers
  <2>2. CASE s # "automatic-binning"
    BY <1>8, <1>13, <2>2 DEF RunInv, TrailInv, Trail
  <2> QED
    BY <2>1, <2>2
<1>14. ASSUME "manual-binning" \in done' PROVE ArePlaced(ScorecardBins', AutomaticBins', Selected')
  <2>1. AutomaticBins' = AutomaticBins /\ Selected' = Selected
    BY <1>2, <1>8, <1>9, <1>14, Edges
  <2>2. CASE s = "manual-binning"
    <3>1. ScorecardBins' = outputs[<<"definition", "BIN_DEFINITION">>].body
      BY <1>4, <2>2, MadeNames DEF ScorecardBins
    <3> QED
      BY <2>1, <2>2, <3>1 DEF Delivers
  <2>3. CASE s # "manual-binning"
    BY <1>5, <1>14, <2>1, <2>3 DEF RunInv, TrailInv, Trail
  <2> QED
    BY <2>2, <2>3
<1>15. ASSUME "final-woe-iv" \in done'
       PROVE AreWeighed(ScorecardWeights', ScorecardBins', TrainingSample')
  <2>1. ScorecardBins' = ScorecardBins /\ TrainingSample' = TrainingSample
    BY <1>2, <1>5, <1>7, <1>15, MoreEdges
  <2>2. CASE s = "final-woe-iv"
    <3>1. ScorecardWeights' = outputs[<<"report", "WOE_TABLE">>].body
      BY <1>4, <2>2, MadeNames DEF ScorecardWeights
    <3> QED
      BY <2>1, <2>2, <3>1 DEF Delivers
  <2>3. CASE s # "final-woe-iv"
    BY <1>6, <1>15, <2>1, <2>3 DEF RunInv, TrailInv, Trail
  <2> QED
    BY <2>2, <2>3
<1>16. ASSUME "woe-transform-train" \in done'
       PROVE /\ AreMatched(ScorecardWeights', ScorecardBins', TrainingSample')
             /\ HasWeights(WeightedTraining', DOMAIN ScorecardBins')
  <2>1. /\ ScorecardBins' = ScorecardBins /\ TrainingSample' = TrainingSample
        /\ ScorecardWeights' = ScorecardWeights
    BY <1>2, <1>5, <1>6, <1>7, <1>16, MoreEdges
  <2>2. CASE s = "woe-transform-train"
    <3>1. WeightedTraining' = outputs[<<"train", "FRAME">>].body
      BY <1>4, <2>2, MadeNames DEF WeightedTraining
    <3> QED
      BY <2>1, <2>2, <3>1 DEF Delivers
  <2>3. CASE s # "woe-transform-train"
    BY <1>10, <1>16, <2>1, <2>3 DEF RunInv, TrailInv, Trail
  <2> QED
    BY <2>2, <2>3
<1>17. ASSUME "model-fit" \in done'
       PROVE (Content("model-fit", "model", "MODEL_ARTIFACT").features)' = DOMAIN ScorecardBins'
  <2>1. ScorecardBins' = ScorecardBins
    <3>1. "woe-transform-train" \in done
      BY <1>2, <1>17, Edges
    <3>2. "manual-binning" \in done
      BY <3>1, Closed, MoreEdges DEF RunInv
    <3> QED
      BY <1>5, <3>2
  <2>2. CASE s = "model-fit"
    BY <1>4, <2>1, <2>2, MadeNames DEF Delivers
  <2>3. CASE s # "model-fit"
    BY <1>3, <1>17, <2>1, <2>3, MadeNames DEF RunInv, TrailInv, Trail
  <2> QED
    BY <2>2, <2>3
<1>18. ASSUME "score-scaling" \in done'
       PROVE Content("score-scaling", "scorecard", "SCORE_SCALING")' # {}
  <2>1. CASE s = "score-scaling"
    BY <1>4, <2>1, MadeNames DEF Delivers
  <2>2. CASE s # "score-scaling"
    BY <1>3, <1>18, <2>2, MadeNames DEF RunInv, TrailInv, Trail
  <2> QED
    BY <2>1, <2>2
<1>19. ASSUME Bundle \in done'
       PROVE Pins(Content(Bundle, "scorecard", "FROZEN_SCORECARD_BUNDLE")')
  <2>1. CASE s = Bundle
    BY <1>4, <2>1, MadeNames DEF Delivers
  <2>2. CASE s # Bundle
    BY <1>3, <1>19, <2>2, MadeNames DEF RunInv, TrailInv, Trail
  <2> QED
    BY <2>1, <2>2
<1>20. ASSUME "apply-woe" \in done', NEW role \in SampleRoles
       PROVE HasWeights(Content("apply-woe", role, "FRAME")', DOMAIN ScorecardBins')
  <2>1. ScorecardBins' = ScorecardBins
    BY <1>2, <1>5, <1>20, MoreEdges
  <2>2. CASE s = "apply-woe"
    BY <1>4, <2>1, <2>2, MadeNames DEF Delivers
  <2>3. CASE s # "apply-woe"
    BY <1>3, <1>20, <2>1, <2>3, MadeNames DEF RunInv, TrailInv, Trail
  <2> QED
    BY <2>2, <2>3
<1> QED
  BY <1>11, <1>12, <1>13, <1>14, <1>15, <1>16, <1>17, <1>18, <1>19, <1>20
     DEF Trail, Content

LEMMA TrailUnchanged ==
  ASSUME RunInv, done' = done,
         \A t \in done : \A role, kind : <<role, kind>> \in Made(t) =>
           Content(t, role, kind)' = Content(t, role, kind)
  PROVE Trail'
<1>1. "manual-binning" \in done => ScorecardBins' = ScorecardBins
  BY MadeNames DEF ScorecardBins
<1>2. "final-woe-iv" \in done => ScorecardWeights' = ScorecardWeights
  BY MadeNames DEF ScorecardWeights
<1>3. Treatment \in done => TrainingSample' = TrainingSample
  BY MadeNames DEF TrainingSample, SampleRoles
<1>4. "automatic-binning" \in done => AutomaticBins' = AutomaticBins
  BY MadeNames DEF AutomaticBins
<1>5. "variable-selection" \in done => Selected' = Selected
  BY MadeNames DEF Selected
<1>6. "woe-transform-train" \in done => WeightedTraining' = WeightedTraining
  BY MadeNames DEF WeightedTraining
<1>7. /\ "manual-binning" \in done => {"automatic-binning", "variable-selection"} \subseteq done
      /\ "final-woe-iv" \in done => {Treatment, "manual-binning"} \subseteq done
      /\ "woe-transform-train" \in done =>
           {Treatment, "manual-binning", "final-woe-iv"} \subseteq done
      /\ "model-fit" \in done => "woe-transform-train" \in done
      /\ "apply-woe" \in done => "manual-binning" \in done
  BY Closed, Edges, MoreEdges DEF RunInv
<1>8. /\ \A t \in {"import", "apply-exclusions"} : t \in done =>
           Content(t, "input", "FRAME")' = Content(t, "input", "FRAME")
      /\ \A t \in {"split", Treatment, "apply-woe"} : \A role \in SampleRoles : t \in done =>
           Content(t, role, "FRAME")' = Content(t, role, "FRAME")
      /\ "model-fit" \in done =>
           Content("model-fit", "model", "MODEL_ARTIFACT")'
             = Content("model-fit", "model", "MODEL_ARTIFACT")
      /\ "score-scaling" \in done =>
           Content("score-scaling", "scorecard", "SCORE_SCALING")'
             = Content("score-scaling", "scorecard", "SCORE_SCALING")
      /\ Bundle \in done =>
           Content(Bundle, "scorecard", "FROZEN_SCORECARD_BUNDLE")'
             = Content(Bundle, "scorecard", "FROZEN_SCORECARD_BUNDLE")
  BY MadeNames
<1>9. Trail
  BY DEF RunInv, TrailInv
<1>10. /\ \A t \in {"import", "apply-exclusions"} :
            t \in done' => Tidy(Content(t, "input", "FRAME")')
       /\ \A t \in {"split", Treatment} : \A role \in SampleRoles :
            t \in done' => IsSample(Content(t, role, "FRAME")')
  BY <1>8, <1>9 DEF Trail
<1>11. /\ "automatic-binning" \in done' => AreFresh(AutomaticBins')
       /\ "manual-binning" \in done' => ArePlaced(ScorecardBins', AutomaticBins', Selected')
       /\ "final-woe-iv" \in done' => AreWeighed(ScorecardWeights', ScorecardBins', TrainingSample')
  BY <1>1, <1>2, <1>3, <1>4, <1>5, <1>7, <1>9 DEF Trail
<1>12. "woe-transform-train" \in done' =>
         /\ AreMatched(ScorecardWeights', ScorecardBins', TrainingSample')
         /\ HasWeights(WeightedTraining', DOMAIN ScorecardBins')
  BY <1>1, <1>2, <1>3, <1>6, <1>7, <1>9 DEF Trail
<1>13. /\ "model-fit" \in done' =>
            (Content("model-fit", "model", "MODEL_ARTIFACT").features)' = DOMAIN ScorecardBins'
       /\ "score-scaling" \in done' => Content("score-scaling", "scorecard", "SCORE_SCALING")' # {}
       /\ Bundle \in done' => Pins(Content(Bundle, "scorecard", "FROZEN_SCORECARD_BUNDLE")')
  BY <1>1, <1>7, <1>8, <1>9 DEF Trail
<1>14. "apply-woe" \in done' =>
         \A role \in SampleRoles :
           HasWeights(Content("apply-woe", role, "FRAME")', DOMAIN ScorecardBins')
  BY <1>1, <1>7, <1>8, <1>9 DEF Trail
<1> QED
  BY <1>10, <1>11, <1>12, <1>13, <1>14 DEF Trail, Content

LEMMA TrailAside ==
  ASSUME RunInv, NEW s, IsDue(s), NEW outputs, artifacts' = Published(s, outputs), done' = done,
         \A k \in DOMAIN outputs : k[1] \notin TrackedRoles /\ k[2] \notin TrackedKinds,
         state' = "failed" /\ Bundle \in done => MayStop'
  PROVE TrailInv'
<1>1. s \notin done
  BY DEF IsDue, IsNext, IsReady
<1>2. Trail'
  BY <1>1, ContentKept, TrailUnchanged
<1>3. Layout'
  BY LayoutAside
<1>4. InTime'
  BY DEF RunInv, TrailInv, InTime
<1> QED
  BY <1>2, <1>3, <1>4 DEF TrailInv, FrozenIsApplied

LEMMA TrailFailed ==
  ASSUME RunInv, Fail, Bundle \in done => MayStop
  PROVE TrailInv'
<1>1. done' = done /\ artifacts' = artifacts
  BY DEF Fail
<1>2. Trail'
  BY <1>1, TrailUnchanged DEF Content
<1>3. Layout' /\ InTime'
  BY <1>1 DEF RunInv, TrailInv, Layout, InTime
<1>4. Bundle \in done => MayStop'
  BY <1>1 DEF MayStop, IsNext, IsReady, Content, ScorecardBins, ScorecardWeights
<1> QED
  BY <1>1, <1>2, <1>3, <1>4 DEF TrailInv, FrozenIsApplied

LEMMA KeepTrail ==
  ASSUME RunInv, NEW s \in Steps, IsDue(s), NEW ok, NEW outputs, Run(s, ok, outputs),
         HasRoles(s) /\ ok => Files(s, outputs) /\ Delivers(s, outputs),
         Bundle \in done => (HasRoles(s) /\ ok) \/ MayStop
  PROVE TrailInv'
<1>1. CASE HasRoles(s) /\ ok /\ Succeed(s, outputs)
  <2>1. artifacts' = Published(s, outputs) /\ done' = done \cup {s} /\ state' # "failed"
    BY <1>1 DEF Succeed
  <2>2. Files(s, outputs) /\ Delivers(s, outputs)
    BY <1>1
  <2>3. Layout' /\ Trail' /\ InTime'
    BY <2>1, <2>2, LayoutKept, TrailKept, InTimeKept
  <2> QED
    BY <2>1, <2>3 DEF TrailInv, FrozenIsApplied
<1>2. CASE ~(HasRoles(s) /\ ok) /\ Fail
  BY <1>2, TrailFailed
<1> QED
  BY <1>1, <1>2 DEF Run

LEMMA TrailStutters == ASSUME RunInv, UNCHANGED vars PROVE TrailInv'
<1>1. state' = state /\ done' = done /\ artifacts' = artifacts
  BY DEF vars
<1>2. Trail'
  BY <1>1, TrailUnchanged DEF Content
<1>3. Layout' /\ InTime'
  BY <1>1 DEF RunInv, TrailInv, Layout, InTime
<1>4. FrozenIsApplied'
  BY <1>1 DEF RunInv, TrailInv, FrozenIsApplied, MayStop, IsNext, IsReady, Content, ScorecardBins,
              ScorecardWeights
<1> QED
  BY <1>2, <1>3, <1>4 DEF TrailInv

LEMMA TrailInit == Init => TrailInv
BY DEF Init, TrailInv, Layout, InTime, Trail, FrozenIsApplied, Bundle, Treatment

(* Whatever is not behind the bundle is done before it.                    *)
Earlier ==
  {"import", "define-metadata", "apply-exclusions", "profile", "validate-target",
   "sample-definition", "split", Treatment, "automatic-binning", "initial-woe-iv",
   "variable-clustering", "variable-selection", "manual-binning", "final-woe-iv",
   "woe-transform-train", "model-fit", "coefficient-sign-check", "separation-diagnostics",
   "vif-diagnostics", "score-scaling", "build-summary-report", Bundle}

LEMMA EarlierDone == ASSUME RunInv, Bundle \in done PROVE Earlier \subseteq done
<1>1. {"score-scaling", "model-fit", "manual-binning", "final-woe-iv", "define-metadata",
       "variable-selection"} \subseteq done
  BY Closed, MoreEdges DEF RunInv
<1>2. {"coefficient-sign-check", "separation-diagnostics", "vif-diagnostics",
       "woe-transform-train", "automatic-binning", "initial-woe-iv", "variable-clustering"}
        \subseteq done
  BY <1>1, Closed, Edges DEF RunInv
<1>3. Treatment \in done /\ "validate-target" \in done /\ "import" \in done
  BY <1>1, <1>2, Closed, Edges, MoreEdges DEF RunInv, Inv, Listed
<1>4. "split" \in done
  BY <1>3, Closed, Edges DEF RunInv
<1>5. "apply-exclusions" \in done /\ "sample-definition" \in done
  BY <1>4, Closed, Edges DEF RunInv
<1>6. "profile" \in done /\ "build-summary-report" \in done
  BY <1>5 DEF RunInv, TrailInv, InTime
<1> QED
  BY <1>1, <1>2, <1>3, <1>4, <1>5, <1>6 DEF Earlier

LEMMA NotAfterBundle == ASSUME RunInv, NEW s \in Earlier, IsDue(s) PROVE Bundle \notin done
BY EarlierDone DEF IsDue, IsNext, IsReady

LEMMA EarlierSteps == Earlier \subseteq Steps
BY StepNames DEF Earlier

(* The steps of which the trail says something.                            *)
Deliverers ==
  {"import", "apply-exclusions", "split", Treatment, "automatic-binning", "manual-binning",
   "final-woe-iv", "woe-transform-train", "model-fit", "score-scaling", Bundle, "apply-woe"}

LEMMA NothingToDeliver == ASSUME NEW s, s \notin Deliverers, NEW outputs PROVE Delivers(s, outputs)
BY DEF Deliverers, Delivers

LEMMA OneFile ==
  ASSUME NEW s, NEW role, NEW kind, NEW ids, NEW body,
         \/ Made(s) = {<<role, kind>>}
         \/ Made(s) = {} /\ role \notin TrackedRoles /\ kind \notin TrackedKinds
  PROVE /\ Files(s, Publish(role, kind, ids, body))
        /\ Publish(role, kind, ids, body)[<<role, kind>>].body = body
BY DEF Files, Publish, Derived

LEMMA TrailOne ==
  ASSUME RunInv, NEW s \in Earlier, IsDue(s), s \notin Deliverers, NEW role, NEW kind,
         \/ Made(s) = {<<role, kind>>}
         \/ Made(s) = {} /\ role \notin TrackedRoles /\ kind \notin TrackedKinds,
         \E ok, ids, body : Run(s, ok, Publish(role, kind, ids, body))
  PROVE TrailInv'
<1>1. PICK ok, ids, body : Run(s, ok, Publish(role, kind, ids, body))
  OBVIOUS
<1>2. Files(s, Publish(role, kind, ids, body)) /\ Delivers(s, Publish(role, kind, ids, body))
  BY OneFile, NothingToDeliver
<1> QED
  BY <1>1, <1>2, NotAfterBundle, EarlierSteps, KeepTrail

(* The steps before the bundle that only report, or whose outputs are used *)
(* as they are.                                                            *)
LEMMA TrailOfReports ==
  ASSUME RunInv,
         \/ DefineMetadata \/ ProfileDataset \/ ValidateTarget \/ SampleDefinition
         \/ CoefficientSignCheck \/ SeparationDiagnostics \/ VifDiagnostics \/ BuildSummary
         \/ VariableClustering \/ VariableSelection
  PROVE TrailInv'
<1>1. CASE DefineMetadata
  <2>1. /\ IsDue("define-metadata")
        /\ \E ok, ids, body :
             Run("define-metadata", ok, Publish("definition", "MODELLING_METADATA", ids, body))
    BY <1>1 DEF DefineMetadata
  <2>2. "define-metadata" \in Earlier \ Deliverers
        /\ Made("define-metadata") = {<<"definition", "MODELLING_METADATA">>}
    BY DEF Earlier, Deliverers, Made, Treatment, Bundle
  <2> QED
    BY <2>1, <2>2, TrailOne
<1>2. CASE ProfileDataset
  <2>1. /\ IsDue("profile")
        /\ \E ok, ids, body : Run("profile", ok, Publish("report", "PROFILE_SUMMARY", ids, body))
    BY <1>2 DEF ProfileDataset
  <2>2. "profile" \in Earlier \ Deliverers /\ Made("profile") = {}
    BY DEF Earlier, Deliverers, Made, Treatment, Bundle
  <2> QED
    BY <2>1, <2>2, TrailOne DEF TrackedRoles, TrackedKinds
<1>3. CASE ValidateTarget
  <2>1. /\ IsDue("validate-target")
        /\ \E ok, ids, body :
             Run("validate-target", ok, Publish("report", "SPLIT_SUMMARY", ids, body))
    BY <1>3 DEF ValidateTarget
  <2>2. "validate-target" \in Earlier \ Deliverers /\ Made("validate-target") = {}
    BY DEF Earlier, Deliverers, Made, Treatment, Bundle
  <2> QED
    BY <2>1, <2>2, TrailOne DEF TrackedRoles, TrackedKinds
<1>4. CASE SampleDefinition
  <2>1. /\ IsDue("sample-definition")
        /\ \E ok, ids, body :
             Run("sample-definition", ok, Publish("definition", "SAMPLE_DEFINITION", ids, body))
    BY <1>4 DEF SampleDefinition
  <2>2. "sample-definition" \in Earlier \ Deliverers /\ Made("sample-definition") = {}
    BY DEF Earlier, Deliverers, Made, Treatment, Bundle
  <2> QED
    BY <2>1, <2>2, TrailOne DEF TrackedRoles, TrackedKinds
<1>5. CASE CoefficientSignCheck
  <2>1. /\ IsDue("coefficient-sign-check")
        /\ \E ok, ids, body :
             Run("coefficient-sign-check", ok,
                 Publish("report", "COEFFICIENT_SIGN_DIAGNOSTICS", ids, body))
    BY <1>5 DEF CoefficientSignCheck
  <2>2. "coefficient-sign-check" \in Earlier \ Deliverers /\ Made("coefficient-sign-check") = {}
    BY DEF Earlier, Deliverers, Made, Treatment, Bundle
  <2> QED
    BY <2>1, <2>2, TrailOne DEF TrackedRoles, TrackedKinds
<1>6. CASE SeparationDiagnostics
  <2>1. /\ IsDue("separation-diagnostics")
        /\ \E ok, ids, body :
             Run("separation-diagnostics", ok,
                 Publish("report", "SEPARATION_DIAGNOSTICS", ids, body))
    BY <1>6 DEF SeparationDiagnostics
  <2>2. "separation-diagnostics" \in Earlier \ Deliverers /\ Made("separation-diagnostics") = {}
    BY DEF Earlier, Deliverers, Made, Treatment, Bundle
  <2> QED
    BY <2>1, <2>2, TrailOne DEF TrackedRoles, TrackedKinds
<1>7. CASE VifDiagnostics
  <2>1. /\ IsDue("vif-diagnostics")
        /\ \E ok, ids, body :
             Run("vif-diagnostics", ok, Publish("report", "VIF_DIAGNOSTICS", ids, body))
    BY <1>7 DEF VifDiagnostics
  <2>2. "vif-diagnostics" \in Earlier \ Deliverers /\ Made("vif-diagnostics") = {}
    BY DEF Earlier, Deliverers, Made, Treatment, Bundle
  <2> QED
    BY <2>1, <2>2, TrailOne DEF TrackedRoles, TrackedKinds
<1>8. CASE BuildSummary
  <2>1. /\ IsDue("build-summary-report")
        /\ \E ok, ids, body :
             Run("build-summary-report", ok, Publish("report", "SUMMARY", ids, body))
    BY <1>8 DEF BuildSummary
  <2>2. "build-summary-report" \in Earlier \ Deliverers /\ Made("build-summary-report") = {}
    BY DEF Earlier, Deliverers, Made, Treatment, Bundle
  <2> QED
    BY <2>1, <2>2, TrailOne DEF TrackedRoles, TrackedKinds
<1>9. CASE VariableClustering
  <2>1. /\ IsDue("variable-clustering")
        /\ \E ok, ids, body :
             Run("variable-clustering", ok, Publish("report", "VARIABLE_CLUSTERING", ids, body))
    BY <1>9 DEF VariableClustering
  <2>2. "variable-clustering" \in Earlier \ Deliverers /\ Made("variable-clustering") = {}
    BY DEF Earlier, Deliverers, Made, Treatment, Bundle
  <2> QED
    BY <2>1, <2>2, TrailOne DEF TrackedRoles, TrackedKinds
<1>10. CASE VariableSelection
  <2>1. /\ IsDue("variable-selection")
        /\ \E ok, ids, body :
             Run("variable-selection", ok, Publish("definition", "SELECTION_DEFINITION", ids, body))
    BY <1>10 DEF VariableSelection
  <2>2. "variable-selection" \in Earlier \ Deliverers
        /\ Made("variable-selection") = {<<"definition", "SELECTION_DEFINITION">>}
    BY DEF Earlier, Deliverers, Made, Treatment, Bundle
  <2> QED
    BY <2>1, <2>2, TrailOne
<1> QED
  BY <1>1, <1>2, <1>3, <1>4, <1>5, <1>6, <1>7, <1>8, <1>9, <1>10

(* Who makes what.                                                         *)
LEMMA Makers ==
  ASSUME NEW u, NEW k \in Made(u)
  PROVE /\ k[1] = "input" => u \in {"import", "apply-exclusions"} /\ k[2] = "FRAME"
        /\ k[1] \in SampleRoles =>
             /\ u \in {"split", Treatment, "apply-woe", "apply-model", "woe-transform-train"}
             /\ k[2] = "FRAME"
        /\ k[1] = "model" => u = "model-fit" /\ k[2] = "MODEL_ARTIFACT"
        /\ k[1] = "scorecard" => u \in {"score-scaling", Bundle}
        /\ k[2] = "MODELLING_METADATA" => u = "define-metadata" /\ k[1] = "definition"
        /\ k[2] = "BIN_DEFINITION" =>
             u \in {"automatic-binning", "manual-binning"} /\ k[1] = "definition"
        /\ k[2] = "WOE_TABLE" => u \in {"initial-woe-iv", "final-woe-iv"} /\ k[1] = "report"
        /\ k[2] = "SELECTION_DEFINITION" => u = "variable-selection" /\ k[1] = "definition"
        /\ k[2] = "SCORE_SCALING" => u = "score-scaling" /\ k[1] = "scorecard"
        /\ k[2] = "FROZEN_SCORECARD_BUNDLE" => u = Bundle /\ k[1] = "scorecard"
        /\ k[2] = "APPLY_MODEL_EVIDENCE" => u = "apply-model" /\ k[1] = "report"
BY DEF Made, SampleRoles, Treatment, Bundle

LEMMA FramesMade ==
  /\ \A t \in {"import", "apply-exclusions"} : <<"input", "FRAME">> \in Made(t)
  /\ \A t \in {"split", Treatment, "apply-woe", "apply-model"} : \A role \in SampleRoles :
       <<role, "FRAME">> \in Made(t)
  /\ <<"train", "FRAME">> \in Made("woe-transform-train")
BY DEF Made, SampleRoles, Treatment, Bundle

(* The one parent that has frames.                                         *)
InputFrom(s, t) ==
  /\ t \in {"import", "apply-exclusions"} /\ "input" \in Required(s) \cup Optional(s)
  /\ ToSet(Parents(s)) \cap {"import", "apply-exclusions"} = {t}

SampleFrom(s, t, role) ==
  /\ role \in SampleRoles /\ role \in Required(s) \cup Optional(s) /\ <<role, "FRAME">> \in Made(t)
  /\ ToSet(Parents(s)) \cap
       {"split", Treatment, "apply-woe", "apply-model", "woe-transform-train"} = {t}

LEMMA InputFound ==
  ASSUME RunInv, NEW s, IsDue(s), NEW t, InputFrom(s, t)
  PROVE FirstOf(s, "input") = {<<t, "input", "FRAME">>} /\ t \in done
<1>1. t \in ToSet(Parents(s))
  BY DEF InputFrom
<1>2. ASSUME NEW u \in ToSet(Parents(s)), NEW k \in Made(u), k[1] = "input" PROVE u = t
  BY <1>2, Makers DEF InputFrom
<1>3. ASSUME NEW k \in Made(t), k[1] = "input" PROVE k[2] = "FRAME"
  BY <1>3, Makers
<1>4. <<"input", "FRAME">> \in Made(t)
  BY FramesMade DEF InputFrom
<1>5. OneRole(s, t, "input", "FRAME")
  BY <1>1, <1>2, <1>3, <1>4 DEF OneRole, OnlyRole, InputFrom, TrackedRoles
<1>6. IsReady(s) /\ t \in done
  BY <1>1 DEF IsDue, IsNext, IsReady
<1>7. /\ OfRole(s, "input") = {<<t, "input", "FRAME">>}
      /\ FirstOf(s, "input") = {<<t, "input", "FRAME">>}
      /\ <<t, "input", "FRAME">> \in DOMAIN artifacts
  BY <1>5, <1>6, RoleFound
<1> QED
  BY <1>6, <1>7

LEMMA SampleFound ==
  ASSUME RunInv, NEW s, IsDue(s), NEW t, NEW role, SampleFrom(s, t, role)
  PROVE /\ OfRole(s, role) = {<<t, role, "FRAME">>} /\ FirstOf(s, role) = {<<t, role, "FRAME">>}
        /\ t \in done
<1>1. t \in ToSet(Parents(s)) /\ role \in SampleRoles /\ role \in TrackedRoles
  BY DEF SampleFrom, SampleRoles, TrackedRoles
<1>2. ASSUME NEW u \in ToSet(Parents(s)), NEW k \in Made(u), k[1] = role PROVE u = t
  BY <1>1, <1>2, Makers DEF SampleFrom
<1>3. ASSUME NEW k \in Made(t), k[1] = role PROVE k[2] = "FRAME"
  BY <1>1, <1>3, Makers
<1>4. OneRole(s, t, role, "FRAME")
  BY <1>1, <1>2, <1>3 DEF OneRole, OnlyRole, SampleFrom
<1>5. IsReady(s) /\ t \in done
  BY <1>1 DEF IsDue, IsNext, IsReady
<1>6. /\ OfRole(s, role) = {<<t, role, "FRAME">>} /\ FirstOf(s, role) = {<<t, role, "FRAME">>}
      /\ <<t, role, "FRAME">> \in DOMAIN artifacts
  BY <1>4, <1>5, RoleFound
<1> QED
  BY <1>5, <1>6

(* The steps that make an output of a kind, and its role.                  *)
MakersOf(kind) ==
  CASE kind = "MODELLING_METADATA" -> {"define-metadata"}
    [] kind = "BIN_DEFINITION" -> {"automatic-binning", "manual-binning"}
    [] kind = "WOE_TABLE" -> {"initial-woe-iv", "final-woe-iv"}
    [] kind = "SELECTION_DEFINITION" -> {"variable-selection"}
    [] kind = "SCORE_SCALING" -> {"score-scaling"}
    [] kind = "FROZEN_SCORECARD_BUNDLE" -> {Bundle}
    [] OTHER -> {"apply-model"}

RoleOf(kind) ==
  IF kind \in {"WOE_TABLE", "APPLY_MODEL_EVIDENCE"} THEN "report"
  ELSE IF kind \in {"SCORE_SCALING", "FROZEN_SCORECARD_BUNDLE"} THEN "scorecard" ELSE "definition"

OutputFrom(s, t, role, kind) ==
  /\ kind \in TrackedKinds /\ role = RoleOf(kind) /\ role \in Required(s) \cup Optional(s)
  /\ ToSet(Parents(s)) \cap MakersOf(kind) = {t}

LEMMA OutputFound ==
  ASSUME RunInv, NEW s, IsDue(s), NEW t, NEW role, NEW kind, OutputFrom(s, t, role, kind)
  PROVE OfKind(s, kind) = {<<t, role, kind>>} /\ t \in done
<1>1. /\ t \in ToSet(Parents(s)) /\ t \in MakersOf(kind) /\ kind \in TrackedKinds
      /\ role = RoleOf(kind)
  BY DEF OutputFrom
<1>2. <<role, kind>> \in Made(t)
  BY <1>1 DEF Made, MakersOf, RoleOf, TrackedKinds, Treatment, Bundle
<1>3. ASSUME NEW u \in ToSet(Parents(s)), NEW k \in Made(u), k[2] = kind
      PROVE u = t /\ k[1] = role
  <2>1. u \in MakersOf(kind) /\ k[1] = role
    BY <1>1, <1>3, Makers DEF MakersOf, RoleOf, TrackedKinds
  <2> QED
    BY <2>1 DEF OutputFrom
<1>4. OnlyKind(s, t, role, kind)
  BY <1>1, <1>2, <1>3 DEF OnlyKind, OutputFrom
<1>5. IsReady(s) /\ t \in done
  BY <1>1 DEF IsDue, IsNext, IsReady
<1>6. OfKind(s, kind) = {<<t, role, kind>>} /\ <<t, role, kind>> \in DOMAIN artifacts
  BY <1>4, <1>5, KindFound
<1> QED
  BY <1>5, <1>6

(* The model and the scaling.                                              *)
LEMMA ModelFound ==
  ASSUME RunInv, NEW s, IsDue(s), "model" \in Required(s) \cup Optional(s),
         "model-fit" \in ToSet(Parents(s))
  PROVE OfRole(s, "model") = {ModelId} /\ FirstOf(s, "model") = {ModelId} /\ "model-fit" \in done
<1>1. OnlyRole(s, "model-fit", "model")
  BY Makers DEF OnlyRole, TrackedRoles
<1>2. OneRole(s, "model-fit", "model", "MODEL_ARTIFACT")
  BY <1>1, MadeNames, Makers DEF OneRole
<1>3. IsReady(s) /\ "model-fit" \in done
  BY DEF IsDue, IsNext, IsReady
<1>4. /\ OfRole(s, "model") = {<<"model-fit", "model", "MODEL_ARTIFACT">>}
      /\ FirstOf(s, "model") = {<<"model-fit", "model", "MODEL_ARTIFACT">>}
      /\ <<"model-fit", "model", "MODEL_ARTIFACT">> \in DOMAIN artifacts
  BY <1>2, <1>3, RoleFound
<1> QED
  BY <1>3, <1>4 DEF ModelId

LEMMA BodyOfOne == \A t, role, kind : Body({<<t, role, kind>>}) = Content(t, role, kind)
BY DEF Body, Content

LEMMA ExclusionsFind ==
  ASSUME RunInv, IsDue("apply-exclusions")
  PROVE /\ FirstOf("apply-exclusions", "input") = {<<"import", "input", "FRAME">>}
        /\ {"import"} \subseteq done
<1> DEFINE s == "apply-exclusions"
<1>1. InputFrom(s, "import")
  BY Edges DEF InputFrom, Required, Optional, SampleRoles, Treatment, Bundle
<1>2. FirstOf(s, "input") = {<<"import", "input", "FRAME">>} /\ "import" \in done
  BY <1>1, InputFound
<1> QED
  BY <1>2

LEMMA SplitFinds ==
  ASSUME RunInv, IsDue("split")
  PROVE /\ FirstOf("split", "input") = {<<"apply-exclusions", "input", "FRAME">>}
        /\ {"apply-exclusions"} \subseteq done
<1> DEFINE s == "split"
<1>1. InputFrom(s, "apply-exclusions")
  BY Edges DEF InputFrom, Required, Optional, SampleRoles, Treatment, Bundle
<1>2. FirstOf(s, "input") = {<<"apply-exclusions", "input", "FRAME">>}
        /\ "apply-exclusions" \in done
  BY <1>1, InputFound
<1> QED
  BY <1>2

LEMMA TreatmentFinds ==
  ASSUME RunInv, IsDue(Treatment)
  PROVE /\ \A role \in SampleRoles : OfRole(Treatment, role) = {<<"split", role, "FRAME">>}
        /\ {"split"} \subseteq done
<1> DEFINE s == Treatment
<1>1. \A role \in SampleRoles : SampleFrom(s, "split", role)
  BY Edges, FramesMade DEF SampleFrom, Required, Optional, SampleRoles, Treatment, Bundle
<1>2. /\ \A role \in SampleRoles : OfRole(s, role) = {<<"split", role, "FRAME">>}
      /\ "split" \in done
  BY <1>1, SampleFound DEF SampleRoles
<1> QED
  BY <1>2

LEMMA BinningFinds ==
  ASSUME RunInv, IsDue("automatic-binning")
  PROVE /\ FirstOf("automatic-binning", "train") = {<<Treatment, "train", "FRAME">>}
        /\ {Treatment} \subseteq done
<1> DEFINE s == "automatic-binning"
<1>1. SampleFrom(s, Treatment, "train")
  BY Edges, FramesMade DEF SampleFrom, Required, Optional, SampleRoles, Treatment, Bundle
<1>2. FirstOf(s, "train") = {<<Treatment, "train", "FRAME">>} /\ Treatment \in done
  BY <1>1, SampleFound
<1> QED
  BY <1>2

LEMMA FinalWoeFinds ==
  ASSUME RunInv, IsDue("final-woe-iv")
  PROVE /\ FirstOf("final-woe-iv", "train") = {<<Treatment, "train", "FRAME">>}
        /\ OfKind("final-woe-iv", "BIN_DEFINITION") = {BinsId}
        /\ {Treatment, "manual-binning"} \subseteq done
<1> DEFINE s == "final-woe-iv"
<1>1. SampleFrom(s, Treatment, "train")
  BY MoreEdges, FramesMade DEF SampleFrom, Required, Optional, SampleRoles, Treatment, Bundle
<1>2. FirstOf(s, "train") = {<<Treatment, "train", "FRAME">>} /\ Treatment \in done
  BY <1>1, SampleFound
<1>3. OutputFrom(s, "manual-binning", "definition", "BIN_DEFINITION")
  BY MoreEdges DEF OutputFrom, TrackedKinds, RoleOf, MakersOf, Required, Optional, SampleRoles,
       Treatment, Bundle
<1>4. OfKind(s, "BIN_DEFINITION") = {BinsId} /\ "manual-binning" \in done
  BY <1>3, OutputFound DEF BinsId
<1> QED
  BY <1>2, <1>4

LEMMA ManualFinds ==
  ASSUME RunInv, IsDue("manual-binning")
  PROVE /\ OfKind("manual-binning", "BIN_DEFINITION")
             = {<<"automatic-binning", "definition", "BIN_DEFINITION">>}
        /\ OfKind("manual-binning", "SELECTION_DEFINITION") = {SelectionId}
        /\ {"automatic-binning", "variable-selection"} \subseteq done
<1> DEFINE s == "manual-binning"
<1>1. OutputFrom(s, "automatic-binning", "definition", "BIN_DEFINITION")
  BY Edges DEF OutputFrom, TrackedKinds, RoleOf, MakersOf, Required, Optional, SampleRoles,
       Treatment, Bundle
<1>2. /\ OfKind(s, "BIN_DEFINITION") = {<<"automatic-binning", "definition", "BIN_DEFINITION">>}
      /\ "automatic-binning" \in done
  BY <1>1, OutputFound
<1>3. OutputFrom(s, "variable-selection", "definition", "SELECTION_DEFINITION")
  BY Edges DEF OutputFrom, TrackedKinds, RoleOf, MakersOf, Required, Optional, SampleRoles,
       Treatment, Bundle
<1>4. OfKind(s, "SELECTION_DEFINITION") = {SelectionId} /\ "variable-selection" \in done
  BY <1>3, OutputFound DEF SelectionId
<1> QED
  BY <1>2, <1>4

LEMMA TransformFinds ==
  ASSUME RunInv, IsDue("woe-transform-train")
  PROVE /\ FirstOf("woe-transform-train", "train") = {<<Treatment, "train", "FRAME">>}
        /\ OfKind("woe-transform-train", "BIN_DEFINITION") = {BinsId}
        /\ OfKind("woe-transform-train", "WOE_TABLE") = {WeightsId}
        /\ OfKind("woe-transform-train", "SELECTION_DEFINITION") = {SelectionId}
        /\ {Treatment, "manual-binning", "final-woe-iv", "variable-selection"} \subseteq done
<1> DEFINE s == "woe-transform-train"
<1>1. SampleFrom(s, Treatment, "train")
  BY MoreEdges, FramesMade DEF SampleFrom, Required, Optional, SampleRoles, Treatment, Bundle
<1>2. FirstOf(s, "train") = {<<Treatment, "train", "FRAME">>} /\ Treatment \in done
  BY <1>1, SampleFound
<1>3. OutputFrom(s, "manual-binning", "definition", "BIN_DEFINITION")
  BY MoreEdges DEF OutputFrom, TrackedKinds, RoleOf, MakersOf, Required, Optional, SampleRoles,
       Treatment, Bundle
<1>4. OfKind(s, "BIN_DEFINITION") = {BinsId} /\ "manual-binning" \in done
  BY <1>3, OutputFound DEF BinsId
<1>5. OutputFrom(s, "final-woe-iv", "report", "WOE_TABLE")
  BY MoreEdges DEF OutputFrom, TrackedKinds, RoleOf, MakersOf, Required, Optional, SampleRoles,
       Treatment, Bundle
<1>6. OfKind(s, "WOE_TABLE") = {WeightsId} /\ "final-woe-iv" \in done
  BY <1>5, OutputFound DEF WeightsId
<1>7. OutputFrom(s, "variable-selection", "definition", "SELECTION_DEFINITION")
  BY MoreEdges DEF OutputFrom, TrackedKinds, RoleOf, MakersOf, Required, Optional, SampleRoles,
       Treatment, Bundle
<1>8. OfKind(s, "SELECTION_DEFINITION") = {SelectionId} /\ "variable-selection" \in done
  BY <1>7, OutputFound DEF SelectionId
<1> QED
  BY <1>2, <1>4, <1>6, <1>8

LEMMA ModelFitFinds ==
  ASSUME RunInv, IsDue("model-fit")
  PROVE /\ FirstOf("model-fit", "train") = {<<"woe-transform-train", "train", "FRAME">>}
        /\ {"woe-transform-train"} \subseteq done
<1> DEFINE s == "model-fit"
<1>1. SampleFrom(s, "woe-transform-train", "train")
  BY Edges, FramesMade DEF SampleFrom, Required, Optional, SampleRoles, Treatment, Bundle
<1>2. FirstOf(s, "train") = {<<"woe-transform-train", "train", "FRAME">>}
        /\ "woe-transform-train" \in done
  BY <1>1, SampleFound
<1> QED
  BY <1>2

LEMMA ScalingFinds ==
  ASSUME RunInv, IsDue("score-scaling")
  PROVE /\ OfKind("score-scaling", "BIN_DEFINITION") = {BinsId}
        /\ FirstOf("score-scaling", "model") = {ModelId}
        /\ OfRole("score-scaling", "model") = {ModelId}
        /\ {"manual-binning", "model-fit"} \subseteq done
<1> DEFINE s == "score-scaling"
<1>1. OutputFrom(s, "manual-binning", "definition", "BIN_DEFINITION")
  BY Edges DEF OutputFrom, TrackedKinds, RoleOf, MakersOf, Required, Optional, SampleRoles,
       Treatment, Bundle
<1>2. OfKind(s, "BIN_DEFINITION") = {BinsId} /\ "manual-binning" \in done
  BY <1>1, OutputFound DEF BinsId
<1>3. "model" \in Required(s) \cup Optional(s) /\ "model-fit" \in ToSet(Parents(s))
  BY Edges DEF Required, Optional, SampleRoles, Treatment, Bundle
<1>4. /\ OfRole(s, "model") = {ModelId} /\ FirstOf(s, "model") = {ModelId}
      /\ "model-fit" \in done
  BY <1>3, ModelFound
<1> QED
  BY <1>2, <1>4

LEMMA FreezeFinds ==
  ASSUME RunInv, IsDue(Bundle)
  PROVE /\ OfKind(Bundle, "SCORE_SCALING") = {ScalingId}
        /\ OfKind(Bundle, "BIN_DEFINITION") = {BinsId}
        /\ OfKind(Bundle, "WOE_TABLE") = {WeightsId}
        /\ OfKind(Bundle, "SELECTION_DEFINITION") = {SelectionId}
        /\ FirstOf(Bundle, "model") = {ModelId}
        /\ OfRole(Bundle, "model") = {ModelId}
        /\ {"score-scaling", "manual-binning", "final-woe-iv", "variable-selection", "model-fit"}
             \subseteq done
<1> DEFINE s == Bundle
<1>1. OutputFrom(s, "score-scaling", "scorecard", "SCORE_SCALING")
  BY MoreEdges DEF OutputFrom, TrackedKinds, RoleOf, MakersOf, Required, Optional, SampleRoles,
       Treatment, Bundle
<1>2. OfKind(s, "SCORE_SCALING") = {ScalingId} /\ "score-scaling" \in done
  BY <1>1, OutputFound DEF ScalingId
<1>3. OutputFrom(s, "manual-binning", "definition", "BIN_DEFINITION")
  BY MoreEdges DEF OutputFrom, TrackedKinds, RoleOf, MakersOf, Required, Optional, SampleRoles,
       Treatment, Bundle
<1>4. OfKind(s, "BIN_DEFINITION") = {BinsId} /\ "manual-binning" \in done
  BY <1>3, OutputFound DEF BinsId
<1>5. OutputFrom(s, "final-woe-iv", "report", "WOE_TABLE")
  BY MoreEdges DEF OutputFrom, TrackedKinds, RoleOf, MakersOf, Required, Optional, SampleRoles,
       Treatment, Bundle
<1>6. OfKind(s, "WOE_TABLE") = {WeightsId} /\ "final-woe-iv" \in done
  BY <1>5, OutputFound DEF WeightsId
<1>7. OutputFrom(s, "variable-selection", "definition", "SELECTION_DEFINITION")
  BY MoreEdges DEF OutputFrom, TrackedKinds, RoleOf, MakersOf, Required, Optional, SampleRoles,
       Treatment, Bundle
<1>8. OfKind(s, "SELECTION_DEFINITION") = {SelectionId} /\ "variable-selection" \in done
  BY <1>7, OutputFound DEF SelectionId
<1>9. "model" \in Required(s) \cup Optional(s) /\ "model-fit" \in ToSet(Parents(s))
  BY MoreEdges DEF Required, Optional, SampleRoles, Treatment, Bundle
<1>10. /\ OfRole(s, "model") = {ModelId} /\ FirstOf(s, "model") = {ModelId}
      /\ "model-fit" \in done
  BY <1>9, ModelFound
<1> QED
  BY <1>2, <1>4, <1>6, <1>8, <1>10

LEMMA ApplyWoeFinds ==
  ASSUME RunInv, IsDue("apply-woe")
  PROVE /\ \A role \in SampleRoles : OfRole("apply-woe", role) = {<<Treatment, role, "FRAME">>}
        /\ OfKind("apply-woe", "BIN_DEFINITION") = {BinsId}
        /\ OfKind("apply-woe", "WOE_TABLE") = {WeightsId}
        /\ OfKind("apply-woe", "SELECTION_DEFINITION") = {SelectionId}
        /\ OfKind("apply-woe", "FROZEN_SCORECARD_BUNDLE")
             = {<<Bundle, "scorecard", "FROZEN_SCORECARD_BUNDLE">>}
        /\ {Treatment, "manual-binning", "final-woe-iv", "variable-selection", Bundle}
             \subseteq done
<1> DEFINE s == "apply-woe"
<1>1. \A role \in SampleRoles : SampleFrom(s, Treatment, role)
  BY MoreEdges, FramesMade DEF SampleFrom, Required, Optional, SampleRoles, Treatment, Bundle
<1>2. /\ \A role \in SampleRoles : OfRole(s, role) = {<<Treatment, role, "FRAME">>}
      /\ Treatment \in done
  BY <1>1, SampleFound DEF SampleRoles
<1>3. OutputFrom(s, "manual-binning", "definition", "BIN_DEFINITION")
  BY MoreEdges DEF OutputFrom, TrackedKinds, RoleOf, MakersOf, Required, Optional, SampleRoles,
       Treatment, Bundle
<1>4. OfKind(s, "BIN_DEFINITION") = {BinsId} /\ "manual-binning" \in done
  BY <1>3, OutputFound DEF BinsId
<1>5. OutputFrom(s, "final-woe-iv", "report", "WOE_TABLE")
  BY MoreEdges DEF OutputFrom, TrackedKinds, RoleOf, MakersOf, Required, Optional, SampleRoles,
       Treatment, Bundle
<1>6. OfKind(s, "WOE_TABLE") = {WeightsId} /\ "final-woe-iv" \in done
  BY <1>5, OutputFound DEF WeightsId
<1>7. OutputFrom(s, "variable-selection", "definition", "SELECTION_DEFINITION")
  BY MoreEdges DEF OutputFrom, TrackedKinds, RoleOf, MakersOf, Required, Optional, SampleRoles,
       Treatment, Bundle
<1>8. OfKind(s, "SELECTION_DEFINITION") = {SelectionId} /\ "variable-selection" \in done
  BY <1>7, OutputFound DEF SelectionId
<1>9. OutputFrom(s, Bundle, "scorecard", "FROZEN_SCORECARD_BUNDLE")
  BY MoreEdges DEF OutputFrom, TrackedKinds, RoleOf, MakersOf, Required, Optional, SampleRoles,
       Treatment, Bundle
<1>10. /\ OfKind(s, "FROZEN_SCORECARD_BUNDLE")
            = {<<Bundle, "scorecard", "FROZEN_SCORECARD_BUNDLE">>}
      /\ Bundle \in done
  BY <1>9, OutputFound
<1> QED
  BY <1>2, <1>4, <1>6, <1>8, <1>10

LEMMA ApplyModelFinds ==
  ASSUME RunInv, IsDue("apply-model")
  PROVE /\ \A role \in SampleRoles : OfRole("apply-model", role) = {<<"apply-woe", role, "FRAME">>}
        /\ OfKind("apply-model", "SCORE_SCALING") = {ScalingId}
        /\ OfKind("apply-model", "FROZEN_SCORECARD_BUNDLE")
             = {<<Bundle, "scorecard", "FROZEN_SCORECARD_BUNDLE">>}
        /\ FirstOf("apply-model", "model") = {ModelId}
        /\ OfRole("apply-model", "model") = {ModelId}
        /\ {"apply-woe", "score-scaling", Bundle, "model-fit"} \subseteq done
<1> DEFINE s == "apply-model"
<1>1. \A role \in SampleRoles : SampleFrom(s, "apply-woe", role)
  BY Edges, FramesMade DEF SampleFrom, Required, Optional, SampleRoles, Treatment, Bundle
<1>2. /\ \A role \in SampleRoles : OfRole(s, role) = {<<"apply-woe", role, "FRAME">>}
      /\ "apply-woe" \in done
  BY <1>1, SampleFound DEF SampleRoles
<1>3. OutputFrom(s, "score-scaling", "scorecard", "SCORE_SCALING")
  BY Edges DEF OutputFrom, TrackedKinds, RoleOf, MakersOf, Required, Optional, SampleRoles,
       Treatment, Bundle
<1>4. OfKind(s, "SCORE_SCALING") = {ScalingId} /\ "score-scaling" \in done
  BY <1>3, OutputFound DEF ScalingId
<1>5. OutputFrom(s, Bundle, "scorecard", "FROZEN_SCORECARD_BUNDLE")
  BY Edges DEF OutputFrom, TrackedKinds, RoleOf, MakersOf, Required, Optional, SampleRoles,
       Treatment, Bundle
<1>6. /\ OfKind(s, "FROZEN_SCORECARD_BUNDLE") = {<<Bundle, "scorecard", "FROZEN_SCORECARD_BUNDLE">>}
      /\ Bundle \in done
  BY <1>5, OutputFound
<1>7. "model" \in Required(s) \cup Optional(s) /\ "model-fit" \in ToSet(Parents(s))
  BY Edges DEF Required, Optional, SampleRoles, Treatment, Bundle
<1>8. /\ OfRole(s, "model") = {ModelId} /\ FirstOf(s, "model") = {ModelId}
      /\ "model-fit" \in done
  BY <1>7, ModelFound
<1> QED
  BY <1>2, <1>4, <1>6, <1>8

LEMMA CalibrationFinds ==
  ASSUME RunInv, IsDue("calibration-diagnostics")
  PROVE /\ \A role \in SampleRoles :
             OfRole("calibration-diagnostics", role) = {<<"apply-model", role, "FRAME">>}
        /\ OfKind("calibration-diagnostics", "MODELLING_METADATA")
             = {<<"define-metadata", "definition", "MODELLING_METADATA">>}
        /\ FirstOf("calibration-diagnostics", "model") = {ModelId}
        /\ OfRole("calibration-diagnostics", "model") = {ModelId}
        /\ {"apply-model", "define-metadata", "model-fit"} \subseteq done
<1> DEFINE s == "calibration-diagnostics"
<1>1. \A role \in SampleRoles : SampleFrom(s, "apply-model", role)
  BY Edges, FramesMade DEF SampleFrom, Required, Optional, SampleRoles, Treatment, Bundle
<1>2. /\ \A role \in SampleRoles : OfRole(s, role) = {<<"apply-model", role, "FRAME">>}
      /\ "apply-model" \in done
  BY <1>1, SampleFound DEF SampleRoles
<1>3. OutputFrom(s, "define-metadata", "definition", "MODELLING_METADATA")
  BY Edges DEF OutputFrom, TrackedKinds, RoleOf, MakersOf, Required, Optional, SampleRoles,
       Treatment, Bundle
<1>4. /\ OfKind(s, "MODELLING_METADATA")
           = {<<"define-metadata", "definition", "MODELLING_METADATA">>}
      /\ "define-metadata" \in done
  BY <1>3, OutputFound
<1>5. "model" \in Required(s) \cup Optional(s) /\ "model-fit" \in ToSet(Parents(s))
  BY Edges DEF Required, Optional, SampleRoles, Treatment, Bundle
<1>6. /\ OfRole(s, "model") = {ModelId} /\ FirstOf(s, "model") = {ModelId}
      /\ "model-fit" \in done
  BY <1>5, ModelFound
<1> QED
  BY <1>2, <1>4, <1>6

LEMMA ValidationFinds ==
  ASSUME RunInv, IsDue("validation-metrics")
  PROVE /\ \A role \in SampleRoles :
             OfRole("validation-metrics", role) = {<<"apply-model", role, "FRAME">>}
        /\ OfKind("validation-metrics", "MODELLING_METADATA")
             = {<<"define-metadata", "definition", "MODELLING_METADATA">>}
        /\ OfKind("validation-metrics", "APPLY_MODEL_EVIDENCE")
             = {<<"apply-model", "report", "APPLY_MODEL_EVIDENCE">>}
        /\ {"apply-model", "define-metadata"} \subseteq done
<1> DEFINE s == "validation-metrics"
<1>1. \A role \in SampleRoles : SampleFrom(s, "apply-model", role)
  BY Edges, FramesMade DEF SampleFrom, Required, Optional, SampleRoles, Treatment, Bundle
<1>2. /\ \A role \in SampleRoles : OfRole(s, role) = {<<"apply-model", role, "FRAME">>}
      /\ "apply-model" \in done
  BY <1>1, SampleFound DEF SampleRoles
<1>3. OutputFrom(s, "define-metadata", "definition", "MODELLING_METADATA")
  BY Edges DEF OutputFrom, TrackedKinds, RoleOf, MakersOf, Required, Optional, SampleRoles,
       Treatment, Bundle
<1>4. /\ OfKind(s, "MODELLING_METADATA")
           = {<<"define-metadata", "definition", "MODELLING_METADATA">>}
      /\ "define-metadata" \in done
  BY <1>3, OutputFound
<1>5. OutputFrom(s, "apply-model", "report", "APPLY_MODEL_EVIDENCE")
  BY Edges DEF OutputFrom, TrackedKinds, RoleOf, MakersOf, Required, Optional, SampleRoles,
       Treatment, Bundle
<1>6. /\ OfKind(s, "APPLY_MODEL_EVIDENCE") = {<<"apply-model", "report", "APPLY_MODEL_EVIDENCE">>}
      /\ "apply-model" \in done
  BY <1>5, OutputFound
<1> QED
  BY <1>2, <1>4, <1>6

LEMMA CutoffFinds ==
  ASSUME RunInv, IsDue("cutoff-analysis")
  PROVE /\ \A role \in SampleRoles :
             OfRole("cutoff-analysis", role) = {<<"apply-model", role, "FRAME">>}
        /\ OfKind("cutoff-analysis", "MODELLING_METADATA")
             = {<<"define-metadata", "definition", "MODELLING_METADATA">>}
        /\ {"apply-model", "define-metadata"} \subseteq done
<1> DEFINE s == "cutoff-analysis"
<1>1. \A role \in SampleRoles : SampleFrom(s, "apply-model", role)
  BY MoreEdges, FramesMade DEF SampleFrom, Required, Optional, SampleRoles, Treatment, Bundle
<1>2. /\ \A role \in SampleRoles : OfRole(s, role) = {<<"apply-model", role, "FRAME">>}
      /\ "apply-model" \in done
  BY <1>1, SampleFound DEF SampleRoles
<1>3. OutputFrom(s, "define-metadata", "definition", "MODELLING_METADATA")
  BY MoreEdges DEF OutputFrom, TrackedKinds, RoleOf, MakersOf, Required, Optional, SampleRoles,
       Treatment, Bundle
<1>4. /\ OfKind(s, "MODELLING_METADATA")
           = {<<"define-metadata", "definition", "MODELLING_METADATA">>}
      /\ "define-metadata" \in done
  BY <1>3, OutputFound
<1> QED
  BY <1>2, <1>4

LEMMA TableFinds ==
  ASSUME RunInv, IsDue("scorecard-table-export")
  PROVE /\ OfKind("scorecard-table-export", "SCORE_SCALING") = {ScalingId}
        /\ OfKind("scorecard-table-export", "WOE_TABLE") = {WeightsId}
        /\ {"score-scaling", "final-woe-iv"} \subseteq done
<1> DEFINE s == "scorecard-table-export"
<1>1. OutputFrom(s, "score-scaling", "scorecard", "SCORE_SCALING")
  BY Edges DEF OutputFrom, TrackedKinds, RoleOf, MakersOf, Required, Optional, SampleRoles,
       Treatment, Bundle
<1>2. OfKind(s, "SCORE_SCALING") = {ScalingId} /\ "score-scaling" \in done
  BY <1>1, OutputFound DEF ScalingId
<1>3. OutputFrom(s, "final-woe-iv", "report", "WOE_TABLE")
  BY Edges DEF OutputFrom, TrackedKinds, RoleOf, MakersOf, Required, Optional, SampleRoles,
       Treatment, Bundle
<1>4. OfKind(s, "WOE_TABLE") = {WeightsId} /\ "final-woe-iv" \in done
  BY <1>3, OutputFound DEF WeightsId
<1> QED
  BY <1>2, <1>4

LEMMA PythonFinds ==
  ASSUME RunInv, IsDue("scoring-export-python")
  PROVE /\ OfKind("scoring-export-python", "FROZEN_SCORECARD_BUNDLE")
             = {<<Bundle, "scorecard", "FROZEN_SCORECARD_BUNDLE">>}
        /\ OfKind("scoring-export-python", "BIN_DEFINITION") = {BinsId}
        /\ OfKind("scoring-export-python", "WOE_TABLE") = {WeightsId}
        /\ OfKind("scoring-export-python", "SCORE_SCALING") = {ScalingId}
        /\ FirstOf("scoring-export-python", "model") = {ModelId}
        /\ OfRole("scoring-export-python", "model") = {ModelId}
        /\ {Bundle, "manual-binning", "final-woe-iv", "score-scaling", "model-fit"} \subseteq done
<1> DEFINE s == "scoring-export-python"
<1>1. OutputFrom(s, Bundle, "scorecard", "FROZEN_SCORECARD_BUNDLE")
  BY Edges DEF OutputFrom, TrackedKinds, RoleOf, MakersOf, Required, Optional, SampleRoles,
       Treatment, Bundle
<1>2. /\ OfKind(s, "FROZEN_SCORECARD_BUNDLE") = {<<Bundle, "scorecard", "FROZEN_SCORECARD_BUNDLE">>}
      /\ Bundle \in done
  BY <1>1, OutputFound
<1>3. OutputFrom(s, "manual-binning", "definition", "BIN_DEFINITION")
  BY Edges DEF OutputFrom, TrackedKinds, RoleOf, MakersOf, Required, Optional, SampleRoles,
       Treatment, Bundle
<1>4. OfKind(s, "BIN_DEFINITION") = {BinsId} /\ "manual-binning" \in done
  BY <1>3, OutputFound DEF BinsId
<1>5. OutputFrom(s, "final-woe-iv", "report", "WOE_TABLE")
  BY Edges DEF OutputFrom, TrackedKinds, RoleOf, MakersOf, Required, Optional, SampleRoles,
       Treatment, Bundle
<1>6. OfKind(s, "WOE_TABLE") = {WeightsId} /\ "final-woe-iv" \in done
  BY <1>5, OutputFound DEF WeightsId
<1>7. OutputFrom(s, "score-scaling", "scorecard", "SCORE_SCALING")
  BY Edges DEF OutputFrom, TrackedKinds, RoleOf, MakersOf, Required, Optional, SampleRoles,
       Treatment, Bundle
<1>8. OfKind(s, "SCORE_SCALING") = {ScalingId} /\ "score-scaling" \in done
  BY <1>7, OutputFound DEF ScalingId
<1>9. "model" \in Required(s) \cup Optional(s) /\ "model-fit" \in ToSet(Parents(s))
  BY Edges DEF Required, Optional, SampleRoles, Treatment, Bundle
<1>10. /\ OfRole(s, "model") = {ModelId} /\ FirstOf(s, "model") = {ModelId}
      /\ "model-fit" \in done
  BY <1>9, ModelFound
<1> QED
  BY <1>2, <1>4, <1>6, <1>8, <1>10

LEMMA SqlFinds ==
  ASSUME RunInv, IsDue("scoring-export-sql")
  PROVE /\ OfKind("scoring-export-sql", "FROZEN_SCORECARD_BUNDLE")
             = {<<Bundle, "scorecard", "FROZEN_SCORECARD_BUNDLE">>}
        /\ OfKind("scoring-export-sql", "BIN_DEFINITION") = {BinsId}
        /\ OfKind("scoring-export-sql", "WOE_TABLE") = {WeightsId}
        /\ OfKind("scoring-export-sql", "SCORE_SCALING") = {ScalingId}
        /\ FirstOf("scoring-export-sql", "model") = {ModelId}
        /\ OfRole("scoring-export-sql", "model") = {ModelId}
        /\ {Bundle, "manual-binning", "final-woe-iv", "score-scaling", "model-fit"} \subseteq done
<1> DEFINE s == "scoring-export-sql"
<1>1. OutputFrom(s, Bundle, "scorecard", "FROZEN_SCORECARD_BUNDLE")
  BY Edges DEF OutputFrom, TrackedKinds, RoleOf, MakersOf, Required, Optional, SampleRoles,
       Treatment, Bundle
<1>2. /\ OfKind(s, "FROZEN_SCORECARD_BUNDLE") = {<<Bundle, "scorecard", "FROZEN_SCORECARD_BUNDLE">>}
      /\ Bundle \in done
  BY <1>1, OutputFound
<1>3. OutputFrom(s, "manual-binning", "definition", "BIN_DEFINITION")
  BY Edges DEF OutputFrom, TrackedKinds, RoleOf, MakersOf, Required, Optional, SampleRoles,
       Treatment, Bundle
<1>4. OfKind(s, "BIN_DEFINITION") = {BinsId} /\ "manual-binning" \in done
  BY <1>3, OutputFound DEF BinsId
<1>5. OutputFrom(s, "final-woe-iv", "report", "WOE_TABLE")
  BY Edges DEF OutputFrom, TrackedKinds, RoleOf, MakersOf, Required, Optional, SampleRoles,
       Treatment, Bundle
<1>6. OfKind(s, "WOE_TABLE") = {WeightsId} /\ "final-woe-iv" \in done
  BY <1>5, OutputFound DEF WeightsId
<1>7. OutputFrom(s, "score-scaling", "scorecard", "SCORE_SCALING")
  BY Edges DEF OutputFrom, TrackedKinds, RoleOf, MakersOf, Required, Optional, SampleRoles,
       Treatment, Bundle
<1>8. OfKind(s, "SCORE_SCALING") = {ScalingId} /\ "score-scaling" \in done
  BY <1>7, OutputFound DEF ScalingId
<1>9. "model" \in Required(s) \cup Optional(s) /\ "model-fit" \in ToSet(Parents(s))
  BY Edges DEF Required, Optional, SampleRoles, Treatment, Bundle
<1>10. /\ OfRole(s, "model") = {ModelId} /\ FirstOf(s, "model") = {ModelId}
      /\ "model-fit" \in done
  BY <1>9, ModelFound
<1> QED
  BY <1>2, <1>4, <1>6, <1>8, <1>10

-----------------------------------------------------------------------------
(* What the steps publish.                                                 *)
FramesFit(s, frames, kind) ==
  /\ "report" \notin DOMAIN frames
  /\ \A role \in DOMAIN frames : <<role, "FRAME">> \in Made(s)
  /\ \A k \in Made(s) :
       k = <<"report", kind>> \/ \E role \in DOMAIN frames : k = <<role, "FRAME">>
  /\ <<"report", kind>> \in Made(s) \/ kind \notin TrackedKinds

FramesFiled(s, frames, outputs) ==
  Files(s, outputs) /\ \A role \in DOMAIN frames : outputs[<<role, "FRAME">>] = frames[role]

LEMMA FrameFiles ==
  ASSUME NEW s, NEW frames, NEW kind, NEW ids, NEW body, FramesFit(s, frames, kind)
  PROVE FramesFiled(s, frames, PublishFrames(frames, kind, ids, body))
<1> DEFINE outputs == PublishFrames(frames, kind, ids, body)
           names == {<<role, "FRAME">> : role \in DOMAIN frames} \cup {<<"report", kind>>}
<1>1. DOMAIN outputs = names
  BY DEF PublishFrames
<1>2. \A role \in DOMAIN frames : outputs[<<role, "FRAME">>] = frames[role]
  BY DEF PublishFrames, FramesFit
<1> HIDE DEF outputs
<1>3. ASSUME NEW k \in DOMAIN outputs, k[1] \in TrackedRoles \/ k[2] \in TrackedKinds
      PROVE <<k[1], k[2]>> \in Made(s)
  <2>1. CASE k = <<"report", kind>>
    BY <1>3, <2>1 DEF TrackedRoles, FramesFit
  <2>2. CASE \E role \in DOMAIN frames : k = <<role, "FRAME">>
    BY <2>2 DEF FramesFit
  <2> QED
    BY <1>1, <2>1, <2>2
<1>4. ASSUME NEW k \in Made(s) PROVE <<k[1], k[2]>> \in DOMAIN outputs
  BY <1>1 DEF FramesFit
<1>5. Files(s, outputs)
  BY <1>3, <1>4 DEF Files
<1> QED
  BY <1>2, <1>5 DEF outputs, FramesFiled

LEMMA InputFiles ==
  /\ Made("import") = {<<"input", "FRAME">>}
  /\ Made("apply-exclusions") = {<<"input", "FRAME">>}
<1>1. Made("import") = {<<"input", "FRAME">>}
  BY DEF Made, Treatment, Bundle
<1>2. Made("apply-exclusions") = {<<"input", "FRAME">>}
  BY DEF Made, Treatment, Bundle
<1> QED
  BY <1>1, <1>2

LEMMA SampleFiles ==
  ASSUME NEW s \in {"split", Treatment, "apply-woe"}
  PROVE /\ \A role \in SampleRoles : <<role, "FRAME">> \in Made(s)
        /\ \A k \in Made(s) : \E role \in SampleRoles : k = <<role, "FRAME">>
<1> DEFINE names == {<<"train", "FRAME">>, <<"test", "FRAME">>, <<"oot", "FRAME">>}
<1>1. Made("split") = names
  BY DEF Made, Treatment, Bundle
<1>2. Made(Treatment) = names
  BY DEF Made, Treatment, Bundle
<1>3. Made("apply-woe") = names
  BY DEF Made, Treatment, Bundle
<1>4. Made(s) = names
  BY <1>1, <1>2, <1>3
<1> QED
  BY <1>4 DEF SampleRoles

(* Some rows of a tidy frame.                                              *)
LEMMA TidyAt ==
  ASSUME NEW frame, Tidy(frame), NEW S \in SUBSET DOMAIN frame
  PROVE Tidy(At(frame, S)) /\ (At(frame, S) # <<>> => 1 \in DOMAIN At(frame, S))
<1>1. PICK n \in Nat : DOMAIN frame = 1 .. n
  BY DEF Tidy
<1>2. /\ Len(At(frame, S)) \in Nat /\ DOMAIN At(frame, S) = 1 .. Len(At(frame, S))
      /\ \A k \in DOMAIN At(frame, S) : \E m \in S : At(frame, S)[k] = frame[m]
  BY <1>1, AtSequence
<1>3. Tidy(At(frame, S))
  BY <1>2 DEF Tidy
<1>4. ASSUME 1 \notin DOMAIN At(frame, S) PROVE At(frame, S) = <<>>
  <2>1. DOMAIN At(frame, S) = {}
    BY <1>2, <1>4
  <2>2. At(frame, S) = [k \in DOMAIN InOrder(S) |-> frame[InOrder(S)[k]]]
    BY DEF At
  <2>3. DOMAIN InOrder(S) = {}
    BY <2>1, <2>2
  <2>4. \A f : f = [k \in {} |-> f[k]] => f = <<>>
    OBVIOUS
  <2> QED
    BY <2>2, <2>3, <2>4
<1> QED
  BY <1>3, <1>4

LEMMA TrailImport == ASSUME RunInv, Import PROVE TrailInv'
<1>1. IsDue("import")
  BY DEF Import
<1>2. PICK frame \in Datasets : Run("import", frame # <<>>, Publish("input", "FRAME", {}, frame))
  BY DEF Import
<1>3. Tidy(frame)
  <2>1. DOMAIN frame = 1 .. Len(frame) /\ Len(frame) \in Nat
    BY DataAssumption, LenProperties
  <2> QED
    BY <2>1, DataAssumption DEF Tidy
<1> DEFINE outputs == Publish("input", "FRAME", {}, frame)
<1>4. Files("import", outputs) /\ outputs[<<"input", "FRAME">>].body = frame
  BY InputFiles, OneFile
<1> HIDE DEF outputs
<1>5. Delivers("import", outputs)
  BY <1>3, <1>4 DEF Delivers, Treatment, Bundle
<1>6. Run("import", frame # <<>>, outputs)
  BY <1>2 DEF outputs
<1>7. "import" \in Earlier /\ "import" \in Steps
  BY EarlierSteps DEF Earlier
<1> QED
  BY <1>1, <1>4, <1>5, <1>6, <1>7, NotAfterBundle, KeepTrail

LEMMA TrailExclusions == ASSUME RunInv, ApplyExclusions PROVE TrailInv'
<1> DEFINE s == "apply-exclusions"
           input == FirstOf(s, "input")
           frame == Body(input)
           Rows(rules) ==
             {m \in DOMAIN frame : \A n \in DOMAIN rules : ~IsExcluded(frame[m], rules[n])}
           Frames(rules) == [role \in {"input"} |-> Derived(input, At(frame, Rows(rules)))]
<1>1. IsDue(s)
  BY DEF ApplyExclusions
<1>2. PICK rules, ok, body :
             Run(s, ok, PublishFrames(Frames(rules), "EXCLUSION_SUMMARY", input, body))
  BY DEF ApplyExclusions
<1>3. Tidy(frame)
  <2>1. input = {<<"import", "input", "FRAME">>} /\ "import" \in done
    BY <1>1, ExclusionsFind
  <2>2. frame = Content("import", "input", "FRAME")
    BY <2>1, BodyOfOne
  <2> QED
    BY <2>1, <2>2 DEF RunInv, TrailInv, Trail
<1>4. DOMAIN Frames(rules) = {"input"} /\ Frames(rules)["input"].body = At(frame, Rows(rules))
  BY DEF Derived
<1>5. Rows(rules) \in SUBSET DOMAIN frame
  OBVIOUS
<1> HIDE DEF Rows, frame
<1>6. Tidy(At(frame, Rows(rules)))
  BY <1>3, <1>5, TidyAt
<1> HIDE DEF Frames, input
<1> DEFINE outputs == PublishFrames(Frames(rules), "EXCLUSION_SUMMARY", input, body)
<1>7. FramesFiled(s, Frames(rules), outputs)
  <2>1. Made(s) = {<<"input", "FRAME">>}
    BY InputFiles
  <2>2. FramesFit(s, Frames(rules), "EXCLUSION_SUMMARY")
    BY <1>4, <2>1 DEF FramesFit, TrackedKinds
  <2> HIDE DEF s
  <2> QED
    BY <2>2, FrameFiles
<1> HIDE DEF outputs
<1>8. Delivers(s, outputs)
  BY <1>4, <1>6, <1>7 DEF Delivers, FramesFiled, Treatment, Bundle
<1>9. s \in Earlier /\ s \in Steps
  BY EarlierSteps DEF Earlier
<1>10. Run(s, ok, outputs)
  BY <1>2 DEF outputs
<1> HIDE DEF s
<1> QED
  BY <1>1, <1>7, <1>8, <1>9, <1>10, NotAfterBundle, KeepTrail DEF FramesFiled

LEMMA SamplesFit ==
  ASSUME NEW s \in {"split", Treatment, "apply-woe"}, NEW frames, DOMAIN frames = SampleRoles,
         NEW kind, kind \notin TrackedKinds
  PROVE FramesFit(s, frames, kind)
<1>1. "report" \notin SampleRoles
  BY DEF SampleRoles
<1>2. /\ \A role \in SampleRoles : <<role, "FRAME">> \in Made(s)
      /\ \A k \in Made(s) : \E role \in SampleRoles : k = <<role, "FRAME">>
  BY SampleFiles
<1> QED
  BY <1>1, <1>2 DEF FramesFit

LEMMA TrailSplit == ASSUME RunInv, Split PROVE TrailInv'
<1> DEFINE s == "split"
           input == FirstOf(s, "input")
           frame == Body(input)
           Rows(order, role) == {n \in DOMAIN frame : SplitRole(frame, order)[n] = role}
           Sample(order, role) == At(frame, Rows(order, role))
           Frames(order) ==
             [role \in SampleRoles |-> [from |-> {role}, body |-> Sample(order, role)]]
           OK(order) == /\ \A role \in SampleRoles : Sample(order, role) # <<>>
                        /\ Cardinality(Classes(Sample(order, "train")) \ {Null}) >= 2
<1>1. IsDue(s)
  BY DEF Split
<1>2. PICK order, body :
             Run(s, OK(order), PublishFrames(Frames(order), "SPLIT_SUMMARY", input, body))
  BY DEF Split
<1>3. Tidy(frame)
  <2>1. input = {<<"apply-exclusions", "input", "FRAME">>} /\ "apply-exclusions" \in done
    BY <1>1, SplitFinds
  <2>2. frame = Content("apply-exclusions", "input", "FRAME")
    BY <2>1, BodyOfOne
  <2> QED
    BY <2>1, <2>2 DEF RunInv, TrailInv, Trail
<1>4. DOMAIN Frames(order) = SampleRoles
      /\ \A role \in SampleRoles : Frames(order)[role].body = Sample(order, role)
  OBVIOUS
<1>5. \A role : Rows(order, role) \in SUBSET DOMAIN frame
  OBVIOUS
<1> HIDE DEF Rows, frame
<1>6. ASSUME OK(order), NEW role \in SampleRoles PROVE IsSample(Sample(order, role))
  <2>1. Tidy(Sample(order, role))
          /\ (Sample(order, role) # <<>> => 1 \in DOMAIN Sample(order, role))
    BY <1>3, <1>5, TidyAt
  <2>2. Sample(order, role) # <<>>
    BY <1>6
  <2> HIDE DEF Sample
  <2> QED
    BY <2>1, <2>2 DEF IsSample
<1> HIDE DEF Frames, input, Sample, OK
<1> DEFINE outputs == PublishFrames(Frames(order), "SPLIT_SUMMARY", input, body)
<1>7. FramesFiled(s, Frames(order), outputs)
  <2>1. FramesFit(s, Frames(order), "SPLIT_SUMMARY")
    BY <1>4, SamplesFit DEF TrackedKinds
  <2> HIDE DEF s
  <2> QED
    BY <2>1, FrameFiles
<1> HIDE DEF outputs
<1>8. OK(order) => Delivers(s, outputs)
  BY <1>4, <1>6, <1>7 DEF Delivers, FramesFiled, Treatment, Bundle
<1>9. s \in Earlier /\ s \in Steps
  BY EarlierSteps DEF Earlier
<1>10. Run(s, OK(order), outputs)
  BY <1>2 DEF outputs
<1> HIDE DEF s
<1> QED
  BY <1>1, <1>7, <1>8, <1>9, <1>10, NotAfterBundle, KeepTrail DEF FramesFiled

LEMMA TreatedIsNumeric ==
  ASSUME NEW t \in Treatments, NEW v \in NumericVariables, NEW value \in Int \cup {Null}
  PROVE Treated(value, v, t) \in Int \cup {Null}
<1>1. /\ v \in DOMAIN t.fill => t.fill[v] \in Int
      /\ v \in DOMAIN t.cap => t.cap[v] \in Int
      /\ v \in DOMAIN t.floor => t.floor[v] \in Int
  BY ParameterAssumption
<1> DEFINE filled == IF v \in DOMAIN t.fill /\ value = Null THEN t.fill[v] ELSE value
           capped == IF v \in DOMAIN t.cap /\ filled # Null THEN Min({filled, t.cap[v]}) ELSE filled
<1>2. filled \in Int \cup {Null}
  BY <1>1
<1>3. Treated(value, v, t)
        = IF v \in DOMAIN t.floor /\ capped # Null THEN Max({capped, t.floor[v]}) ELSE capped
  BY DEF Treated
<1> HIDE DEF filled
<1>4. capped \in Int \cup {Null}
  BY <1>1, <1>2, MinIsInteger
<1> HIDE DEF capped
<1> QED
  BY <1>1, <1>3, <1>4, MaxIsInteger

LEMMA SamplesFound ==
  ASSUME NEW s, NEW t, \A role \in SampleRoles : OfRole(s, role) = {<<t, role, "FRAME">>}
  PROVE /\ Samples(s) = {<<t, role, "FRAME">> : role \in SampleRoles}
        /\ RolesOf(Samples(s)) = SampleRoles
<1>1. Samples(s) = {<<t, role, "FRAME">> : role \in SampleRoles}
  BY DEF Samples
<1>2. ASSUME NEW id \in Samples(s) PROVE Role(id) \in SampleRoles
  <2>1. PICK role \in SampleRoles : id = <<t, role, "FRAME">>
    BY <1>1
  <2> QED
    BY <2>1 DEF Role
<1>3. ASSUME NEW role \in SampleRoles PROVE \E id \in Samples(s) : Role(id) = role
  <2>1. <<t, role, "FRAME">> \in Samples(s)
    BY <1>1
  <2> QED
    BY <2>1 DEF Role
<1>4. RolesOf(Samples(s)) = SampleRoles
  BY <1>2, <1>3 DEF RolesOf
<1> QED
  BY <1>1, <1>4

LEMMA TrailTreatment == ASSUME RunInv, TreatMissingAndOutliers PROVE TrailInv'
<1> DEFINE s == Treatment
           Treat(row, t) == [row EXCEPT !.x = [v \in Variables |-> Treated(@[v], v, t)]]
           Rows(role, t) == LET frame == Body(OfRole(s, role)) IN
                            [n \in DOMAIN frame |-> Treat(frame[n], t)]
           Frames(t) == [role \in RolesOf(Samples(s)) |-> Derived(OfRole(s, role), Rows(role, t))]
<1>1. IsDue(s)
  BY DEF TreatMissingAndOutliers
<1>2. PICK t \in Treatments :
        \E ok : Run(s, ok, PublishFrames(Frames(t), "EXCLUSION_SUMMARY", Samples(s), t))
  BY DEF TreatMissingAndOutliers
<1>3. (\A role \in SampleRoles : OfRole(s, role) = {<<"split", role, "FRAME">>}) /\ "split" \in done
  BY <1>1, TreatmentFinds
<1>4. DOMAIN Frames(t) = SampleRoles
      /\ \A role \in SampleRoles : Frames(t)[role].body = Rows(role, t)
  <2>1. RolesOf(Samples(s)) = SampleRoles
    BY <1>3, SamplesFound
  <2> HIDE DEF Rows
  <2> QED
    BY <2>1 DEF Derived
<1>5. ASSUME NEW role \in SampleRoles PROVE IsSample(Rows(role, t))
  <2> DEFINE frame == Body(OfRole(s, role))
  <2>1. IsSample(frame)
    <3>1. frame = Content("split", role, "FRAME")
      BY <1>3, BodyOfOne
    <3> QED
      BY <1>3, <3>1 DEF RunInv, TrailInv, Trail
  <2>2. Rows(role, t) = [n \in DOMAIN frame |-> Treat(frame[n], t)]
    OBVIOUS
  <2> HIDE DEF frame
  <2>3. ASSUME NEW n \in DOMAIN frame
        PROVE /\ DOMAIN Treat(frame[n], t) = {"x", "target", "woe"}
              /\ DOMAIN Treat(frame[n], t).x = Variables
              /\ \A v \in NumericVariables : Treat(frame[n], t).x[v] \in Int \cup {Null}
    <3>1. /\ DOMAIN frame[n] = {"x", "target", "woe"}
          /\ \A v \in NumericVariables : frame[n].x[v] \in Int \cup {Null}
      BY <2>1 DEF IsSample, Tidy
    <3>2. Treat(frame[n], t).x = [v \in Variables |-> Treated(frame[n].x[v], v, t)]
      BY <3>1
    <3>3. NumericVariables \subseteq Variables
      BY DataAssumption
    <3> QED
      BY <3>1, <3>2, <3>3, TreatedIsNumeric
  <2>4. DOMAIN Rows(role, t) = DOMAIN frame
        /\ \A n \in DOMAIN frame : Rows(role, t)[n] = Treat(frame[n], t)
    BY <2>2
  <2> HIDE DEF Rows, Treat
  <2>5. (\E n \in Nat : DOMAIN frame = 1 .. n) /\ 1 \in DOMAIN frame
    BY <2>1 DEF IsSample, Tidy
  <2>6. Tidy(Rows(role, t))
    BY <2>3, <2>4, <2>5 DEF Tidy
  <2> QED
    BY <2>4, <2>5, <2>6 DEF IsSample
<1> HIDE DEF Frames, Rows
<1> DEFINE outputs == PublishFrames(Frames(t), "EXCLUSION_SUMMARY", Samples(s), t)
<1>6. FramesFiled(s, Frames(t), outputs)
  <2>1. FramesFit(s, Frames(t), "EXCLUSION_SUMMARY")
    BY <1>4, SamplesFit DEF TrackedKinds
  <2> HIDE DEF s
  <2> QED
    BY <2>1, FrameFiles
<1> HIDE DEF outputs
<1>7. Delivers(s, outputs)
  BY <1>4, <1>5, <1>6 DEF Delivers, FramesFiled, Treatment, Bundle
<1>8. s \in Earlier /\ s \in Steps
  BY EarlierSteps DEF Earlier
<1>9. PICK ok : Run(s, ok, outputs)
  BY <1>2 DEF outputs
<1> HIDE DEF s
<1> QED
  BY <1>1, <1>6, <1>7, <1>8, <1>9, NotAfterBundle, KeepTrail DEF FramesFiled

LEMMA Bodies ==
  /\ Body({BinsId}) = ScorecardBins /\ Body({WeightsId}) = ScorecardWeights
  /\ ToSet(Body({SelectionId}).selected) = Selected
  /\ Body({<<Treatment, "train", "FRAME">>}) = TrainingSample
  /\ Body({<<"automatic-binning", "definition", "BIN_DEFINITION">>}) = AutomaticBins
BY DEF Body, BinsId, WeightsId, SelectionId, ScorecardBins, ScorecardWeights, Selected,
       TrainingSample, AutomaticBins, Content

LEMMA SampleIsTidy == ASSUME RunInv, Treatment \in done PROVE IsSample(TrainingSample)
BY DEF RunInv, TrailInv, Trail, TrainingSample, SampleRoles

LEMMA ColumnOfTidy ==
  ASSUME NEW frame, Tidy(frame), NEW v
  PROVE /\ DOMAIN Column(frame, v) = DOMAIN frame /\ IsFiniteSet(DOMAIN frame)
        /\ \A n \in DOMAIN frame : Column(frame, v)[n].value = frame[n].x[v]
        /\ v \in NumericVariables => IsNumeric(Column(frame, v))
<1>1. IsFiniteSet(DOMAIN frame)
  BY FS_Interval DEF Tidy
<1>2. DOMAIN Column(frame, v) = DOMAIN frame
      /\ \A n \in DOMAIN frame : Column(frame, v)[n].value = frame[n].x[v]
  BY DEF Column
<1>3. v \in NumericVariables => IsNumeric(Column(frame, v))
  BY <1>1, <1>2 DEF Tidy, IsNumeric
<1> QED
  BY <1>1, <1>2, <1>3

LEMMA TrailBinning == ASSUME RunInv, AutomaticBinning PROVE TrailInv'
<1> DEFINE s == "automatic-binning"
           train == FirstOf(s, "train")
           ids == train \cup OfKind(s, "MODELLING_METADATA")
           frame == Body(train)
           BinsOf(v, p, orders) ==
             IF v \in NumericVariables
             THEN NumericBins(Column(frame, v), p.maxBins, p.separate)
             ELSE CategoricalBins(Column(frame, v), orders[v], p.levels, p.separate)
           Bins(p, orders) == [v \in Variables \ p.exclude |-> BinsOf(v, p, orders)]
           OK(p) == /\ p.maxBins >= 2 /\ p.levels >= 1
                    /\ Has(s, {"MODELLING_METADATA"})
                    /\ {"good", "bad"} \subseteq Classes(frame)
<1>1. IsDue(s)
  BY DEF AutomaticBinning
<1>2. PICK p \in BinningParams, orders \in OrdersOfLevels(frame) :
        Run(s, OK(p), Publish("definition", "BIN_DEFINITION", ids, Bins(p, orders)))
  BY DEF AutomaticBinning
<1>3. Tidy(frame)
  <2>1. train = {<<Treatment, "train", "FRAME">>} /\ Treatment \in done
    BY <1>1, BinningFinds
  <2> QED
    BY <2>1, Bodies, SampleIsTidy DEF IsSample
<1>4. ASSUME OK(p) PROVE AreFresh(Bins(p, orders))
  <2> HIDE DEF frame
  <2>1. p.maxBins \in Int /\ p.levels \in Nat
    BY <1>4, ParameterAssumption
  <2>2. ASSUME NEW v \in Variables PROVE Fresh(BinsOf(v, p, orders), KindOf(v))
    <3>1. CASE v \in NumericVariables
      <4>1. IsNumeric(Column(frame, v))
        BY <1>3, <3>1, ColumnOfTidy
      <4>2. Fresh(NumericBins(Column(frame, v), p.maxBins, p.separate), "numeric")
        BY <2>1, <4>1, NumericBinsFresh
      <4> QED
        BY <3>1, <4>2 DEF KindOf
    <3>2. CASE v \notin NumericVariables
      <4>1. orders[v] \in LevelOrders(Column(frame, v))
        BY <3>2 DEF OrdersOfLevels
      <4>2. KindOf(v) # "numeric"
        BY <3>2 DEF KindOf
      <4>3. IsFiniteSet(DOMAIN Column(frame, v))
        BY <1>3, ColumnOfTidy
      <4>4. Fresh(CategoricalBins(Column(frame, v), orders[v], p.levels, p.separate), KindOf(v))
        BY <2>1, <4>1, <4>2, <4>3, CategoricalBinsFresh
      <4> QED
        BY <3>2, <4>4
    <3> QED
      BY <3>1, <3>2
  <2>3. DOMAIN Bins(p, orders) = Variables \ p.exclude
        /\ \A v \in Variables \ p.exclude : Bins(p, orders)[v] = BinsOf(v, p, orders)
    OBVIOUS
  <2> HIDE DEF Bins, BinsOf
  <2> QED
    BY <2>2, <2>3 DEF AreFresh
<1> HIDE DEF OK, Bins, ids
<1> DEFINE outputs == Publish("definition", "BIN_DEFINITION", ids, Bins(p, orders))
<1>5. Files(s, outputs) /\ outputs[<<"definition", "BIN_DEFINITION">>].body = Bins(p, orders)
  <2>1. Made(s) = {<<"definition", "BIN_DEFINITION">>}
    BY DEF Made, Treatment, Bundle
  <2> QED
    BY <2>1, OneFile
<1> HIDE DEF outputs
<1>6. OK(p) => Delivers(s, outputs)
  BY <1>4, <1>5 DEF Delivers, Treatment, Bundle
<1>7. s \in Earlier /\ s \in Steps
  BY EarlierSteps DEF Earlier
<1>8. Run(s, OK(p), outputs)
  BY <1>2 DEF outputs
<1> HIDE DEF s
<1> QED
  BY <1>1, <1>5, <1>6, <1>7, <1>8, NotAfterBundle, KeepTrail

LEMMA WoeIvPublishes ==
  ASSUME NEW s \in {"initial-woe-iv", "final-woe-iv"}, NEW p, CalculateWoeIv(s, p)
  PROVE LET frame == Body(FirstOf(s, "train"))
            bins == Body(OfKind(s, "BIN_DEFINITION"))
            table == [v \in DOMAIN bins |->
                        WoeRows(Column(frame, v), bins[v], KindOf(v), p.smoothing)]
        IN \E ok, outputs :
             /\ Run(s, ok, outputs) /\ Files(s, outputs)
             /\ outputs[<<"report", "WOE_TABLE">>].body = table
             /\ ok =>
                  \A v \in DOMAIN bins : \A n \in DOMAIN bins[v] : HasMask(bins[v][n], KindOf(v))
<1> DEFINE definition == OfKind(s, "BIN_DEFINITION")
           ids == FirstOf(s, "train") \cup definition \cup OfKind(s, "MODELLING_METADATA")
           frame == Body(FirstOf(s, "train"))
           bins == Body(definition)
           table == [v \in DOMAIN bins |->
                       WoeRows(Column(frame, v), bins[v], KindOf(v), p.smoothing)]
           BodyOf(kind) ==
             CASE kind = "WOE_TABLE" -> table
               [] kind = "IV_TABLE" -> [v \in DOMAIN bins |-> IsInformative(table[v])]
               [] OTHER -> p.purpose
           kinds == {"WOE_TABLE", "IV_TABLE", "SUMMARY", "WOE_IV_EVIDENCE"}
           tables == {<<"report", kind>> : kind \in kinds}
           outputs == [k \in tables |-> Derived(ids, BodyOf(k[2]))]
           Masked == \A v \in DOMAIN bins : \A n \in DOMAIN bins[v] : HasMask(bins[v][n], KindOf(v))
           OK == /\ Has(s, {"BIN_DEFINITION", "MODELLING_METADATA"})
                 /\ Classes(frame) = {"good", "bad"}
                 /\ Masked
                 /\ MayPass(p, \E v \in DOMAIN bins : HasZeroCell(table[v]))
<1>1. Run(s, OK, outputs)
  BY DEF CalculateWoeIv
<1>2. Made(s) = {<<"report", "WOE_TABLE">>}
  <2>1. Made("initial-woe-iv") = {<<"report", "WOE_TABLE">>}
    BY DEF Made, Treatment, Bundle
  <2>2. Made("final-woe-iv") = {<<"report", "WOE_TABLE">>}
    BY DEF Made, Treatment, Bundle
  <2> QED
    BY <2>1, <2>2
<1>3. BodyOf("WOE_TABLE") = table
  OBVIOUS
<1>4. OK => Masked
  OBVIOUS
<1> HIDE DEF BodyOf, table, bins, frame, ids, OK, Masked
<1>5. DOMAIN outputs = tables /\ outputs[<<"report", "WOE_TABLE">>].body = BodyOf("WOE_TABLE")
  BY DEF Derived
<1> HIDE DEF outputs
<1>6. Files(s, outputs)
  BY <1>2, <1>5 DEF Files, TrackedRoles, TrackedKinds
<1>7. /\ Run(s, OK, outputs) /\ Files(s, outputs)
      /\ outputs[<<"report", "WOE_TABLE">>].body = table
      /\ OK => Masked
  BY <1>1, <1>3, <1>4, <1>5, <1>6
<1> QED
  BY <1>7 DEF table, bins, frame, Masked

LEMMA TrailInitialWoe == ASSUME RunInv, InitialWoeIv PROVE TrailInv'
<1>1. IsDue("initial-woe-iv") /\ \E p : CalculateWoeIv("initial-woe-iv", p)
  BY DEF InitialWoeIv
<1>2. \E ok, outputs : Run("initial-woe-iv", ok, outputs) /\ Files("initial-woe-iv", outputs)
  BY <1>1, WoeIvPublishes
<1>3. "initial-woe-iv" \in Earlier /\ "initial-woe-iv" \in Steps
        /\ "initial-woe-iv" \notin Deliverers
  BY EarlierSteps DEF Earlier, Deliverers, Treatment, Bundle
<1> QED
  BY <1>1, <1>2, <1>3, NothingToDeliver, NotAfterBundle, KeepTrail

LEMMA TrailFinalWoe == ASSUME RunInv, FinalWoeIv PROVE TrailInv'
<1> DEFINE s == "final-woe-iv"
           Table(p) == [v \in DOMAIN ScorecardBins |->
                          WoeRows(Column(TrainingSample, v), ScorecardBins[v], KindOf(v),
                                  p.smoothing)]
           Masked == \A v \in DOMAIN ScorecardBins : \A n \in DOMAIN ScorecardBins[v] :
                       HasMask(ScorecardBins[v][n], KindOf(v))
<1>1. IsDue(s)
  BY DEF FinalWoeIv
<1>2. PICK p \in WoeParams : CalculateWoeIv(s, p)
  BY DEF FinalWoeIv
<1>3. Body(FirstOf(s, "train")) = TrainingSample
        /\ Body(OfKind(s, "BIN_DEFINITION")) = ScorecardBins
  BY <1>1, FinalWoeFinds, Bodies
<1>4. PICK ok, outputs :
        /\ Run(s, ok, outputs) /\ Files(s, outputs)
        /\ outputs[<<"report", "WOE_TABLE">>].body = Table(p)
        /\ ok => Masked
  BY <1>2, <1>3, WoeIvPublishes
<1>5. ok => AreWeighed(Table(p), ScorecardBins, TrainingSample)
  BY <1>4 DEF AreWeighed
<1> HIDE DEF Table
<1>6. ok => Delivers(s, outputs)
  BY <1>4, <1>5 DEF Delivers, Treatment, Bundle
<1>7. s \in Earlier /\ s \in Steps
  BY EarlierSteps DEF Earlier
<1> HIDE DEF s
<1> QED
  BY <1>1, <1>4, <1>6, <1>7, NotAfterBundle, KeepTrail

LEMMA BinsAreOrdered ==
  ASSUME RunInv, NEW s \in {"automatic-binning", "manual-binning"}, s \in done
  PROVE LET bins == Content(s, "definition", "BIN_DEFINITION") IN
        IsFiniteSet(DOMAIN bins) /\ \A v \in DOMAIN bins : Ordered(bins[v], KindOf(v))
<1> DEFINE k == <<"definition", "BIN_DEFINITION">>
           id == <<s, k[1], k[2]>>
<1>1. k \in Made(s)
  BY MadeNames
<1>2. id \in DOMAIN artifacts
  BY <1>1 DEF RunInv, TrailInv, Layout
<1>3. ArtifactOK(id[1], id[2], id[3], artifacts[id].body)
  BY <1>2 DEF RunInv, ScorecardInv, ContentsOK
<1> QED
  BY <1>3 DEF ArtifactOK, Content

LEMMA TrailManual == ASSUME RunInv, ManualBinning PROVE TrailInv'
<1> DEFINE s == "manual-binning"
           definition == OfKind(s, "BIN_DEFINITION")
           selection == OfKind(s, "SELECTION_DEFINITION")
           bins == Body(definition)
           selected == ToSet(Body(selection).selected)
           ids == definition \cup selection
           Of(v, os) == At(os, {n \in DOMAIN os : os[n].variable = v})
           Kept(os) == {v \in DOMAIN bins \cap selected :
                          \A n \in DOMAIN Of(v, os) : Of(v, os)[n].action # "reject_variable"}
           After(os) == [v \in Kept(os) |-> AfterOverrides(bins[v], Of(v, os))]
           OK(os, accepted) ==
             /\ ~(accepted /\ os # <<>>)
             /\ Has(s, {"BIN_DEFINITION", "SELECTION_DEFINITION"})
             /\ \A n \in DOMAIN os :
                  /\ os[n].variable \in DOMAIN bins \cap selected
                  /\ IsValidOverride(os[n], bins[os[n].variable], KindOf(os[n].variable))
             /\ \A v \in DOMAIN bins : CanApply(bins[v], Of(v, os))
<1>1. IsDue(s)
  BY DEF ManualBinning
<1>2. PICK os \in OverrideLists, accepted \in BOOLEAN :
        Run(s, OK(os, accepted), Publish("definition", "BIN_DEFINITION", ids, After(os)))
  BY DEF ManualBinning
<1>3. /\ bins = AutomaticBins /\ selected = Selected
      /\ AreFresh(bins) /\ \A v \in DOMAIN bins : Ordered(bins[v], KindOf(v))
  <2>1. /\ definition = {<<"automatic-binning", "definition", "BIN_DEFINITION">>}
        /\ selection = {SelectionId} /\ "automatic-binning" \in done
    BY <1>1, ManualFinds
  <2>2. bins = AutomaticBins /\ selected = Selected
    BY <2>1, Bodies
  <2>3. AreFresh(AutomaticBins)
    BY <2>1 DEF RunInv, TrailInv, Trail
  <2>4. \A v \in DOMAIN AutomaticBins : Ordered(AutomaticBins[v], KindOf(v))
    BY <2>1, BinsAreOrdered DEF AutomaticBins
  <2> QED
    BY <2>2, <2>3, <2>4
<1>4. ASSUME OK(os, accepted) PROVE ArePlaced(After(os), AutomaticBins, Selected)
  <2>1. \A v \in DOMAIN bins : CanApply(bins[v], Of(v, os))
    BY <1>4
  <2>2. \A n \in DOMAIN os : IsValidOverride(os[n], bins[os[n].variable], KindOf(os[n].variable))
    BY <1>4
  <2> HIDE DEF bins, selected
  <2>3. /\ DOMAIN os = 1 .. Len(os) /\ Len(os) \in Nat
        /\ \A n \in DOMAIN os : os[n].sources \in Seq(ToSet(os[n].sources))
    BY ParameterAssumption, LenProperties
  <2>4. ASSUME NEW v \in DOMAIN bins
        PROVE Placed(AfterOverrides(bins[v], Of(v, os)), bins[v], KindOf(v))
    <3> DEFINE mine == {n \in DOMAIN os : os[n].variable = v}
    <3>1. mine \in SUBSET DOMAIN os /\ \A n \in mine : os[n].variable = v
      OBVIOUS
    <3> HIDE DEF mine
    <3>2. /\ Len(At(os, mine)) \in Nat /\ DOMAIN At(os, mine) = 1 .. Len(At(os, mine))
          /\ \A k \in DOMAIN At(os, mine) : \E n \in mine : At(os, mine)[k] = os[n]
      BY <2>3, <3>1, AtSequence
    <3>3. \A k \in DOMAIN At(os, mine) :
            /\ At(os, mine)[k].sources \in Seq(ToSet(At(os, mine)[k].sources))
            /\ IsValidOverride(At(os, mine)[k], bins[v], KindOf(v))
      <4> TAKE k \in DOMAIN At(os, mine)
      <4>1. PICK n \in mine : At(os, mine)[k] = os[n]
        BY <3>2
      <4>2. os[n].sources \in Seq(ToSet(os[n].sources))
        BY <2>3, <3>1
      <4>3. IsValidOverride(os[n], bins[v], KindOf(v))
        BY <2>2, <3>1
      <4> QED
        BY <4>1, <4>2, <4>3
    <3>4. Of(v, os) = At(os, mine)
      BY DEF mine
    <3>5. CanApply(bins[v], At(os, mine))
      BY <2>1, <3>4
    <3>6. Fresh(bins[v], KindOf(v)) /\ Ordered(bins[v], KindOf(v))
      BY <1>3 DEF AreFresh
    <3>7. Placed(AfterOverrides(bins[v], At(os, mine)), bins[v], KindOf(v))
      BY <3>2, <3>3, <3>5, <3>6, PlacedStages
    <3> QED
      BY <3>4, <3>7
  <2>5. Kept(os) \subseteq DOMAIN bins \cap selected
    OBVIOUS
  <2> HIDE DEF Kept, Of
  <2>6. DOMAIN After(os) = Kept(os)
        /\ \A v \in Kept(os) : After(os)[v] = AfterOverrides(bins[v], Of(v, os))
    OBVIOUS
  <2> HIDE DEF After
  <2> QED
    BY <1>3, <2>4, <2>5, <2>6 DEF ArePlaced
<1> HIDE DEF OK, After, ids
<1> DEFINE outputs == Publish("definition", "BIN_DEFINITION", ids, After(os))
<1>5. Files(s, outputs) /\ outputs[<<"definition", "BIN_DEFINITION">>].body = After(os)
  <2>1. Made(s) = {<<"definition", "BIN_DEFINITION">>}
    BY DEF Made, Treatment, Bundle
  <2> QED
    BY <2>1, OneFile
<1> HIDE DEF outputs
<1>6. OK(os, accepted) => Delivers(s, outputs)
  BY <1>4, <1>5 DEF Delivers, Treatment, Bundle
<1>7. s \in Earlier /\ s \in Steps
  BY EarlierSteps DEF Earlier
<1>8. Run(s, OK(os, accepted), outputs)
  BY <1>2 DEF outputs
<1> HIDE DEF s
<1> QED
  BY <1>1, <1>5, <1>6, <1>7, <1>8, NotAfterBundle, KeepTrail

LEMMA WeightedRows ==
  ASSUME NEW frame, IsSample(frame), NEW bins, NEW table, NEW chosen
  PROVE HasWeights(Weighted(frame, bins, table, chosen), chosen)
<1>1. 1 \in DOMAIN frame /\ DOMAIN frame[1] = {"x", "target", "woe"}
  BY DEF IsSample, Tidy
<1>2. Weighted(frame, bins, table, chosen)[1].woe
        = [v \in chosen |-> Applied(frame[1].x[v], bins[v], KindOf(v), table[v])]
  BY <1>1 DEF Weighted
<1>3. 1 \in DOMAIN Weighted(frame, bins, table, chosen)
  BY <1>1 DEF Weighted
<1> QED
  BY <1>2, <1>3 DEF HasWeights

LEMMA BinsAreSelected ==
  ASSUME RunInv, "manual-binning" \in done
  PROVE Selected \cap DOMAIN ScorecardBins = DOMAIN ScorecardBins
BY DEF RunInv, TrailInv, Trail, ArePlaced

LEMMA TrailTransform == ASSUME RunInv, WoeTransformTrain PROVE TrailInv'
<1> DEFINE s == "woe-transform-train"
           train == FirstOf(s, "train")
           definition == OfKind(s, "BIN_DEFINITION")
           weights == OfKind(s, "WOE_TABLE")
           selection == OfKind(s, "SELECTION_DEFINITION")
           fitted == definition \cup weights \cup selection
           bins == Body(definition)
           chosen == ToSet(Body(selection).selected) \cap DOMAIN bins
           frame == Weighted(Body(train), bins, Body(weights), chosen)
           frames == [role \in {"train"} |-> Derived(train \cup fitted, frame)]
           OK == /\ Has(s, {"BIN_DEFINITION", "WOE_TABLE", "SELECTION_DEFINITION"})
                 /\ DOMAIN bins # {} /\ IsMappedAll(bins, Body(weights))
                 /\ chosen # {} /\ IsWeighable(bins, Body(weights), chosen)
                 /\ IsMatched(frame)
           ids == train \cup fitted
<1>1. IsDue(s) /\ Run(s, OK, PublishFrames(frames, "WOE_TRANSFORM_EVIDENCE", ids, chosen))
  BY DEF WoeTransformTrain
<1>2. /\ Body(train) = TrainingSample /\ bins = ScorecardBins /\ Body(weights) = ScorecardWeights
      /\ chosen = DOMAIN ScorecardBins /\ IsSample(TrainingSample)
  <2>1. /\ train = {<<Treatment, "train", "FRAME">>} /\ definition = {BinsId}
        /\ weights = {WeightsId} /\ selection = {SelectionId}
        /\ Treatment \in done /\ "manual-binning" \in done
    BY <1>1, TransformFinds
  <2>2. /\ Body(train) = TrainingSample /\ bins = ScorecardBins /\ Body(weights) = ScorecardWeights
        /\ ToSet(Body(selection).selected) = Selected
    BY <2>1, Bodies
  <2>3. chosen = DOMAIN ScorecardBins
    BY <2>1, <2>2, BinsAreSelected
  <2> QED
    BY <2>1, <2>2, <2>3, SampleIsTidy
<1>3. OK => AreMatched(ScorecardWeights, ScorecardBins, TrainingSample)
  <2>1. frame = Weighted(TrainingSample, ScorecardBins, ScorecardWeights, DOMAIN ScorecardBins)
    BY <1>2
  <2> HIDE DEF chosen, bins, frame, train, weights
  <2> QED
    BY <1>2, <2>1 DEF AreMatched
<1>4. HasWeights(frame, DOMAIN ScorecardBins)
  BY <1>2, WeightedRows
<1>5. DOMAIN frames = {"train"} /\ frames["train"].body = frame
  BY DEF Derived
<1> HIDE DEF OK, frames, ids, frame, chosen
<1> DEFINE outputs == PublishFrames(frames, "WOE_TRANSFORM_EVIDENCE", ids, chosen)
<1>6. FramesFiled(s, frames, outputs)
  <2>1. Made(s) = {<<"train", "FRAME">>}
    BY DEF Made, Treatment, Bundle
  <2>2. FramesFit(s, frames, "WOE_TRANSFORM_EVIDENCE")
    BY <1>5, <2>1 DEF FramesFit, TrackedKinds
  <2> HIDE DEF s
  <2> QED
    BY <2>2, FrameFiles
<1> HIDE DEF outputs
<1>7. OK => Delivers(s, outputs)
  BY <1>3, <1>4, <1>5, <1>6 DEF Delivers, FramesFiled, Treatment, Bundle
<1>8. s \in Earlier /\ s \in Steps
  BY EarlierSteps DEF Earlier
<1>9. Run(s, OK, outputs) /\ IsDue(s)
  BY <1>1 DEF outputs
<1> HIDE DEF s
<1> QED
  BY <1>6, <1>7, <1>8, <1>9, NotAfterBundle, KeepTrail DEF FramesFiled

LEMMA TrailModelFit == ASSUME RunInv, ModelFit PROVE TrailInv'
<1> DEFINE s == "model-fit"
           train == FirstOf(s, "train")
           selection == OfKind(s, "SELECTION_DEFINITION")
           frame == Body(train)
           ids == train \cup OfKind(s, "MODELLING_METADATA") \cup selection
           model == [features |-> DOMAIN frame[1].woe, sources |-> ToSet(Body(selection).selected)]
<1>1. IsDue(s)
  BY DEF ModelFit
<1>2. PICK ok : Run(s, ok, Publish("model", "MODEL_ARTIFACT", ids, model))
  BY DEF ModelFit
<1>3. DOMAIN frame[1].woe = DOMAIN ScorecardBins
  <2>1. train = {<<"woe-transform-train", "train", "FRAME">>} /\ "woe-transform-train" \in done
    BY <1>1, ModelFitFinds
  <2>2. frame = WeightedTraining
    BY <2>1, BodyOfOne DEF WeightedTraining
  <2> QED
    BY <2>1, <2>2 DEF RunInv, TrailInv, Trail, HasWeights
<1>4. model.features = DOMAIN ScorecardBins
  BY <1>3
<1> HIDE DEF model, ids
<1> DEFINE outputs == Publish("model", "MODEL_ARTIFACT", ids, model)
<1>5. Files(s, outputs) /\ outputs[<<"model", "MODEL_ARTIFACT">>].body = model
  <2>1. Made(s) = {<<"model", "MODEL_ARTIFACT">>}
    BY DEF Made, Treatment, Bundle
  <2> QED
    BY <2>1, OneFile
<1> HIDE DEF outputs
<1>6. Delivers(s, outputs)
  BY <1>4, <1>5 DEF Delivers, Treatment, Bundle
<1>7. s \in Earlier /\ s \in Steps
  BY EarlierSteps DEF Earlier
<1>8. Run(s, ok, outputs)
  BY <1>2 DEF outputs
<1> HIDE DEF s
<1> QED
  BY <1>1, <1>5, <1>6, <1>7, <1>8, NotAfterBundle, KeepTrail

LEMMA TrailScaling == ASSUME RunInv, ScoreScaling PROVE TrailInv'
<1> DEFINE s == "score-scaling"
           definition == OfKind(s, "BIN_DEFINITION")
           bins == Body(definition)
           ids == FirstOf(s, "model") \cup definition \cup OfKind(s, "WOE_TABLE")
           entries == UNION {{<<v, n>> : n \in DOMAIN bins[v]} : v \in DOMAIN bins}
<1>1. IsDue(s) /\ \E ok : Run(s, ok, Publish("scorecard", "SCORE_SCALING", ids, entries))
  BY DEF ScoreScaling
<1>2. PICK ok : Run(s, ok, Publish("scorecard", "SCORE_SCALING", ids, entries))
  BY <1>1
<1>3. entries # {}
  <2>1. definition = {BinsId} /\ "manual-binning" \in done /\ "woe-transform-train" \in done
    BY <1>1, ScalingFinds, Closed, Edges DEF RunInv
  <2>2. bins = ScorecardBins
    BY <2>1, Bodies
  <2>3. DOMAIN ScorecardBins # {} /\ \A v \in DOMAIN ScorecardBins : ScorecardBins[v] # <<>>
    BY <2>1 DEF RunInv, TrailInv, Trail, AreMatched, IsWeighable
  <2>4. \A v \in DOMAIN ScorecardBins : Ordered(ScorecardBins[v], KindOf(v))
    BY <2>1, BinsAreOrdered DEF ScorecardBins
  <2> HIDE DEF bins
  <2>5. PICK v \in DOMAIN bins : bins[v] # <<>> /\ bins[v] \in Seq(ToSet(bins[v]))
    BY <2>2, <2>3, <2>4 DEF Ordered
  <2>6. 1 \in DOMAIN bins[v]
    BY <2>5, EmptySeq, LenProperties
  <2>7. <<v, 1>> \in entries
    BY <2>6
  <2> QED
    BY <2>7
<1> HIDE DEF entries, ids
<1> DEFINE outputs == Publish("scorecard", "SCORE_SCALING", ids, entries)
<1>4. Files(s, outputs) /\ outputs[<<"scorecard", "SCORE_SCALING">>].body = entries
  <2>1. Made(s) = {<<"scorecard", "SCORE_SCALING">>}
    BY DEF Made, Treatment, Bundle
  <2> QED
    BY <2>1, OneFile
<1> HIDE DEF outputs
<1>5. Delivers(s, outputs)
  BY <1>3, <1>4 DEF Delivers, Treatment, Bundle
<1>6. s \in Earlier /\ s \in Steps
  BY EarlierSteps DEF Earlier
<1>7. Run(s, ok, outputs)
  BY <1>2 DEF outputs
<1> HIDE DEF s
<1> QED
  BY <1>1, <1>4, <1>5, <1>6, <1>7, NotAfterBundle, KeepTrail

LEMMA TrailFreeze == ASSUME RunInv, Freeze PROVE TrailInv'
<1> DEFINE s == Bundle
           pins == [model |-> FirstOf(s, "model"), scorecard |-> OfKind(s, "SCORE_SCALING"),
                    bins |-> OfKind(s, "BIN_DEFINITION"), woes |-> OfKind(s, "WOE_TABLE"),
                    selection |-> OfKind(s, "SELECTION_DEFINITION")]
           ids == UNION {pins[field] : field \in DOMAIN pins}
<1>1. IsDue(s)
  BY DEF Freeze
<1>2. PICK ok : Run(s, ok, Publish("scorecard", "FROZEN_SCORECARD_BUNDLE", ids, pins))
  BY DEF Freeze
<1>3. Pins(pins)
  BY <1>1, FreezeFinds DEF Pins
<1> HIDE DEF pins, ids
<1> DEFINE outputs == Publish("scorecard", "FROZEN_SCORECARD_BUNDLE", ids, pins)
<1>4. Files(s, outputs) /\ outputs[<<"scorecard", "FROZEN_SCORECARD_BUNDLE">>].body = pins
  <2>1. Made(s) = {<<"scorecard", "FROZEN_SCORECARD_BUNDLE">>}
    BY DEF Made, Treatment, Bundle
  <2> QED
    BY <2>1, OneFile
<1> HIDE DEF outputs
<1>5. Delivers(s, outputs)
  BY <1>3, <1>4 DEF Delivers, Treatment, Bundle
<1>6. s \in Earlier /\ s \in Steps
  BY EarlierSteps DEF Earlier
<1>7. Run(s, ok, outputs)
  BY <1>2 DEF outputs
<1> HIDE DEF s
<1> QED
  BY <1>1, <1>4, <1>5, <1>6, <1>7, NotAfterBundle, KeepTrail

-----------------------------------------------------------------------------
(* Behind the bundle: a step has what it needs.                            *)
LEMMA RolesPresent ==
  ASSUME NEW s, NEW some \in Required(s), \A role \in Required(s) : OfRole(s, role) # {}
  PROVE HasRoles(s)
<1>1. Inputs(s) # {}
  BY DEF OfRole
<1> QED
  BY <1>1 DEF HasRoles

LEMMA RoleOfOne ==
  ASSUME NEW s, NEW kind, NEW t, NEW role, OfKind(s, kind) = {<<t, role, kind>>}
  PROVE OfRole(s, role) # {}
<1>1. <<t, role, kind>> \in OfKind(s, kind)
  OBVIOUS
<1>2. <<t, role, kind>> \in Inputs(s)
  BY <1>1 DEF OfKind
<1> QED
  BY <1>2 DEF OfRole, Role

LEMMA OneIsOne == \A id : Cardinality({id}) = 1
BY FS_Singleton

(* Outside of what is tracked, one report.                                 *)
LEMMA ReportFiles ==
  ASSUME NEW s, Made(s) = {}, s \notin Deliverers, NEW kind, kind \notin TrackedKinds, NEW role,
         role \notin TrackedRoles, NEW ids, NEW body
  PROVE Files(s, Publish(role, kind, ids, body)) /\ Delivers(s, Publish(role, kind, ids, body))
BY OneFile, NothingToDeliver

LEMMA ScorecardIsReady ==
  ASSUME RunInv, "woe-transform-train" \in done
  PROVE /\ AreMatched(ScorecardWeights, ScorecardBins, TrainingSample)
        /\ AreWeighed(ScorecardWeights, ScorecardBins, TrainingSample)
        /\ {"manual-binning", "final-woe-iv", "variable-selection", Treatment} \subseteq done
<1>1. {"manual-binning", "final-woe-iv", "variable-selection", Treatment} \subseteq done
  BY Closed, MoreEdges DEF RunInv
<1> QED
  BY <1>1 DEF RunInv, TrailInv, Trail

LEMMA BundlePins ==
  ASSUME RunInv, Bundle \in done
  PROVE /\ Pins(Body({<<Bundle, "scorecard", "FROZEN_SCORECARD_BUNDLE">>}))
        /\ {"woe-transform-train", "score-scaling", "model-fit", "manual-binning", "final-woe-iv"}
             \subseteq done
<1>1. Earlier \subseteq done
  BY EarlierDone
<1> QED
  BY <1>1, BodyOfOne DEF RunInv, TrailInv, Trail, Earlier

LEMMA TrailApplyWoe == ASSUME RunInv, ApplyWoe PROVE TrailInv'
<1> DEFINE s == "apply-woe"
           bundle == OfKind(s, "FROZEN_SCORECARD_BUNDLE")
           definition == OfKind(s, "BIN_DEFINITION")
           weights == OfKind(s, "WOE_TABLE")
           selection == OfKind(s, "SELECTION_DEFINITION")
           fitted == definition \cup weights \cup selection
           bins == Body(definition)
           chosen == ToSet(Body(selection).selected) \cap DOMAIN bins
           Sample(role) == Weighted(Body(OfRole(s, role)), bins, Body(weights), chosen)
           frames == [role \in RolesOf(Samples(s)) |->
                        Derived(OfRole(s, role) \cup fitted, Sample(role))]
           ids == Samples(s) \cup fitted \cup bundle
           OK == /\ Has(s, {"BIN_DEFINITION", "WOE_TABLE", "SELECTION_DEFINITION"})
                 /\ ~Ambiguous(s, {"FROZEN_SCORECARD_BUNDLE"})
                 /\ bundle # {} =>
                      /\ Body(bundle).bins = definition
                      /\ Body(bundle).woes = weights
                      /\ Body(bundle).selection \in {{}, selection}
                 /\ IsWeighable(bins, Body(weights), chosen)
                 /\ \A role \in RolesOf(Samples(s)) : IsMatched(Sample(role))
<1>1. IsDue(s) /\ Run(s, OK, PublishFrames(frames, "APPLY_WOE_EVIDENCE", ids, chosen))
  BY DEF ApplyWoe
<1>2. /\ \A role \in SampleRoles : OfRole(s, role) = {<<Treatment, role, "FRAME">>}
      /\ definition = {BinsId} /\ weights = {WeightsId} /\ selection = {SelectionId}
      /\ bundle = {<<Bundle, "scorecard", "FROZEN_SCORECARD_BUNDLE">>}
      /\ Treatment \in done /\ "manual-binning" \in done /\ Bundle \in done
  BY <1>1, ApplyWoeFinds
<1>3. RolesOf(Samples(s)) = SampleRoles
  BY <1>2, SamplesFound
<1>4. bins = ScorecardBins /\ Body(weights) = ScorecardWeights /\ chosen = DOMAIN ScorecardBins
  <2>1. bins = ScorecardBins /\ Body(weights) = ScorecardWeights
        /\ ToSet(Body(selection).selected) = Selected
    BY <1>2, Bodies
  <2> QED
    BY <1>2, <2>1, BinsAreSelected

<1>6. ASSUME NEW role \in SampleRoles
      PROVE /\ Sample(role) = Weighted(Content(Treatment, role, "FRAME"), ScorecardBins,
                                       ScorecardWeights, DOMAIN ScorecardBins)
            /\ IsSample(Content(Treatment, role, "FRAME"))
  <2>1. Body(OfRole(s, role)) = Content(Treatment, role, "FRAME")
    BY <1>2, BodyOfOne
  <2>2. IsSample(Content(Treatment, role, "FRAME"))
    BY <1>2 DEF RunInv, TrailInv, Trail
  <2> HIDE DEF bins, chosen, weights
  <2> QED
    BY <1>4, <2>1, <2>2
<1>7. /\ DOMAIN frames = SampleRoles
      /\ \A role \in SampleRoles : frames[role].body = Sample(role)
  <2> HIDE DEF Sample, fitted
  <2> QED
    BY <1>3 DEF Derived
<1>8. ASSUME NEW role \in SampleRoles PROVE HasWeights(Sample(role), DOMAIN ScorecardBins)
  <2> DEFINE frame == Content(Treatment, role, "FRAME")
  <2>1. Sample(role) = Weighted(frame, ScorecardBins, ScorecardWeights, DOMAIN ScorecardBins)
        /\ IsSample(frame)
    BY <1>6
  <2> HIDE DEF Sample, frame
  <2>2. HasWeights(Weighted(frame, ScorecardBins, ScorecardWeights, DOMAIN ScorecardBins),
                   DOMAIN ScorecardBins)
    BY <2>1, WeightedRows
  <2> QED
    BY <2>1, <2>2
<1>9. AreMatched(ScorecardWeights, ScorecardBins, TrainingSample)
      /\ Pins(Body({<<Bundle, "scorecard", "FROZEN_SCORECARD_BUNDLE">>}))
  BY <1>2, ScorecardIsReady, BundlePins
<1>10. HasRoles(s)
  <2>1. Required(s) = {"definition", "report"}
    BY DEF Required, Treatment, Bundle
  <2>2. OfRole(s, "definition") # {} /\ OfRole(s, "report") # {}
    BY <1>2, RoleOfOne DEF BinsId, WeightsId
  <2> QED
    BY <2>1, <2>2, RolesPresent
<1>11. ASSUME \A role \in SampleRoles : IsMatched(Sample(role)) PROVE OK
  <2>1. Has(s, {"BIN_DEFINITION", "WOE_TABLE", "SELECTION_DEFINITION"})
    BY <1>2, OneIsOne DEF Has
  <2>2. ~Ambiguous(s, {"FROZEN_SCORECARD_BUNDLE"})
    <3>1. Cardinality(OfKind(s, "FROZEN_SCORECARD_BUNDLE")) = 1
      BY <1>2, OneIsOne
    <3> QED
      BY <3>1 DEF Ambiguous
  <2>3. /\ Body(bundle).bins = definition /\ Body(bundle).woes = weights
        /\ Body(bundle).selection = selection
    BY <1>2, <1>9 DEF Pins
  <2>4. IsWeighable(bins, Body(weights), chosen)
    BY <1>4, <1>9 DEF AreMatched
  <2>5. \A role \in RolesOf(Samples(s)) : IsMatched(Sample(role))
    BY <1>3, <1>11
  <2> HIDE DEF bundle, bins, chosen, definition, weights, selection, Sample
  <2> QED
    BY <2>1, <2>2, <2>3, <2>4, <2>5
<1>12. ASSUME NEW role \in SampleRoles, ~IsMatched(Sample(role)) PROVE MayStop
  <2> DEFINE frame == Content(Treatment, role, "FRAME")
  <2>1. Sample(role) = Weighted(frame, ScorecardBins, ScorecardWeights, DOMAIN ScorecardBins)
        /\ IsSample(frame)
    BY <1>6
  <2>2. role # "train"
    BY <1>9, <1>12, <2>1 DEF AreMatched, TrainingSample
  <2> HIDE DEF Sample
  <2>3. PICK n \in DOMAIN Sample(role) :
          Null \in {Sample(role)[n].woe[v] : v \in DOMAIN Sample(role)[n].woe}
    BY <1>12 DEF IsMatched
  <2>4. n \in DOMAIN frame
    BY <2>1, <2>3 DEF Weighted
  <2>5. Sample(role)[n].woe
          = [v \in DOMAIN ScorecardBins |->
               Applied(frame[n].x[v], ScorecardBins[v], KindOf(v), ScorecardWeights[v])]
    <3>1. DOMAIN frame[n] = {"x", "target", "woe"}
      BY <2>1, <2>4 DEF IsSample, Tidy
    <3> HIDE DEF frame
    <3> QED
      BY <2>1, <2>4, <3>1 DEF Weighted
  <2>6. \E v \in DOMAIN ScorecardBins :
          Applied(frame[n].x[v], ScorecardBins[v], KindOf(v), ScorecardWeights[v]) = Null
    BY <2>3, <2>5
  <2>7. role \in {"test", "oot"}
    BY <2>2 DEF SampleRoles
  <2>8. IsNext("apply-woe")
    BY <1>1 DEF IsDue
  <2> QED
    BY <2>4, <2>6, <2>7, <2>8 DEF MayStop
<1>13. (HasRoles(s) /\ OK) \/ MayStop
  <2> HIDE DEF OK, Sample
  <2> QED
    BY <1>10, <1>11, <1>12
<1> HIDE DEF OK, frames, ids, Sample, chosen
<1> DEFINE outputs == PublishFrames(frames, "APPLY_WOE_EVIDENCE", ids, chosen)
<1>14. FramesFiled(s, frames, outputs)
  <2>1. FramesFit(s, frames, "APPLY_WOE_EVIDENCE")
    BY <1>7, SamplesFit DEF TrackedKinds
  <2> HIDE DEF s
  <2> QED
    BY <2>1, FrameFiles
<1> HIDE DEF outputs
<1>15. Delivers(s, outputs)
  BY <1>7, <1>8, <1>14 DEF Delivers, FramesFiled, Treatment, Bundle
<1>16. s \in Steps
  BY StepNames
<1>17. Run(s, OK, outputs) /\ IsDue(s)
  BY <1>1 DEF outputs
<1> HIDE DEF s
<1> QED
  BY <1>13, <1>14, <1>15, <1>16, <1>17, KeepTrail DEF FramesFiled

(* Of the two scorecards that the model is applied with, the scaling comes *)
(* first.                                                                  *)
LEMMA ApplyModelOrder ==
  /\ DOMAIN Sources("apply-model") = 1 .. 5
  /\ Sources("apply-model")[3] = "score-scaling" /\ Sources("apply-model")[4] = Bundle
  /\ \A n \in 1 .. 5 : /\ Sources("apply-model")[n] = "score-scaling" => n = 3
                       /\ Sources("apply-model")[n] = Bundle => n = 4
<1>1. Parents("apply-model") = <<"apply-woe", "model-fit", "score-scaling", Bundle>>
  BY DEF Parents, Treatment, Bundle
<1>2. Sources("apply-model") = <<"apply-woe", "model-fit", "score-scaling", Bundle, "apply-model">>
  <2>1. ASSUME NEW a, NEW b, NEW c, NEW d, NEW e
        PROVE Append(<<a, b, c, d>>, e) = <<a, b, c, d, e>>
    <3> DEFINE all == Append(<<a, b, c, d>>, e)
               five == <<a, b, c, d, e>>
    <3>1. <<a, b, c, d>> \in Seq({a, b, c, d, e}) /\ Len(<<a, b, c, d>>) = 4
          /\ <<a, b, c, d, e>> \in Seq({a, b, c, d, e}) /\ Len(<<a, b, c, d, e>>) = 5
      OBVIOUS
    <3>2. /\ all \in Seq({a, b, c, d, e}) /\ Len(all) = 5
          /\ \A n \in 1 .. 4 : all[n] = <<a, b, c, d>>[n]
          /\ all[5] = e
      BY <3>1, AppendProperties
    <3>3. all[1] = a /\ all[2] = b /\ all[3] = c /\ all[4] = d
      BY <3>2
    <3>4. ASSUME NEW n \in 1 .. 5 PROVE all[n] = <<a, b, c, d, e>>[n]
      <4>1. n = 1 \/ n = 2 \/ n = 3 \/ n = 4 \/ n = 5
        OBVIOUS
      <4> HIDE DEF all
      <4> QED
        BY <3>2, <3>3, <4>1
    <3>5. DOMAIN all = 1 .. 5 /\ DOMAIN <<a, b, c, d, e>> = 1 .. 5
      BY <3>1, <3>2, LenProperties
    <3>6. all = [n \in 1 .. 5 |-> all[n]] /\ five = [n \in 1 .. 5 |-> five[n]]
      BY <3>1, <3>2, <3>5, LenProperties
    <3>7. \A n \in 1 .. 5 : all[n] = five[n]
      BY <3>4
    <3> HIDE DEF all, five
    <3>8. all = five
      BY <3>6, <3>7
    <3> QED
      BY <3>8 DEF all, five
  <2>2. Sources("apply-model") = Append(Parents("apply-model"), "apply-model")
    BY DEF Sources
  <2> QED
    BY <1>1, <2>1, <2>2
<1>3. DOMAIN Sources("apply-model") = 1 .. 5
  BY <1>2
<1>4. /\ Sources("apply-model")[1] = "apply-woe" /\ Sources("apply-model")[2] = "model-fit"
      /\ Sources("apply-model")[3] = "score-scaling" /\ Sources("apply-model")[4] = Bundle
      /\ Sources("apply-model")[5] = "apply-model"
  BY <1>2
<1>5. ASSUME NEW n \in 1 .. 5
      PROVE /\ Sources("apply-model")[n] = "score-scaling" => n = 3
            /\ Sources("apply-model")[n] = Bundle => n = 4
  <2>1. n = 1 \/ n = 2 \/ n = 3 \/ n = 4 \/ n = 5
    OBVIOUS
  <2> QED
    BY <1>4, <2>1 DEF Bundle
<1> QED
  BY <1>3, <1>4, <1>5

LEMMA ScalingIsFirst ==
  ASSUME RunInv, IsDue("apply-model")
  PROVE FirstOf("apply-model", "scorecard") = {ScalingId}
<1> DEFINE s == "apply-model"
<1>1. IsReady(s) /\ OfKind(s, "SCORE_SCALING") = {ScalingId}
  BY ApplyModelFinds DEF IsDue, IsNext
<1>2. ScalingId \in OfRole(s, "scorecard")
  BY <1>1 DEF OfKind, OfRole, Role, ScalingId
<1>3. ParentNo(s, ScalingId) = 3
  BY ApplyModelOrder DEF ParentNo, StepOf, ScalingId
<1>4. ASSUME NEW id \in OfRole(s, "scorecard")
      PROVE id = ScalingId \/ ParentNo(s, id) = 4
  <2>1. id \in Inputs(s) /\ id[2] = "scorecard" /\ "scorecard" \in TrackedRoles
    BY DEF OfRole, Role, TrackedRoles
  <2>2. /\ id = <<id[1], id[2], id[3]>> /\ id[1] \in ToSet(Parents(s))
        /\ <<id[2], id[3]>> \in Made(id[1]) /\ id \in DOMAIN artifacts
    BY <1>1, <2>1, InputIsMade
  <2> DEFINE k == <<id[2], id[3]>>
  <2>3. k \in Made(id[1]) /\ k[1] = "scorecard" /\ k[2] = id[3]
    BY <2>1, <2>2
  <2> HIDE DEF k
  <2>4. id[1] \in {"score-scaling", Bundle}
    BY <2>3, Makers
  <2>5. CASE id[1] = "score-scaling"
    <3>1. Made("score-scaling") = {<<"scorecard", "SCORE_SCALING">>}
      BY DEF Made, Treatment, Bundle
    <3>2. id[3] = "SCORE_SCALING"
      BY <2>3, <2>5, <3>1
    <3> QED
      BY <2>1, <2>2, <2>5, <3>2 DEF ScalingId
  <2>6. CASE id[1] = Bundle
    BY <2>6, ApplyModelOrder DEF ParentNo, StepOf
  <2> QED
    BY <2>4, <2>5, <2>6
<1>5. ASSUME NEW id \in FirstOf(s, "scorecard") PROVE id = ScalingId
  <2>1. id \in OfRole(s, "scorecard") /\ ParentNo(s, id) <= ParentNo(s, ScalingId)
    BY <1>2 DEF FirstOf
  <2> QED
    BY <1>3, <1>4, <2>1
<1>6. ScalingId \in FirstOf(s, "scorecard")
  <2>1. \A other \in OfRole(s, "scorecard") : ParentNo(s, ScalingId) <= ParentNo(s, other)
    BY <1>3, <1>4
  <2> QED
    BY <1>2, <2>1 DEF FirstOf
<1> QED
  BY <1>5, <1>6

LEMMA TrailApplyModel == ASSUME RunInv, ApplyModel PROVE TrailInv'
<1> DEFINE s == "apply-model"
           model == FirstOf(s, "model")
           scorecard == FirstOf(s, "scorecard")
           bundle == OfKind(s, "FROZEN_SCORECARD_BUNDLE")
           features == Body(model).features
           Scored(role) ==
             LET frame == Body(OfRole(s, role)) IN
             [n \in DOMAIN frame |-> [frame[n] EXCEPT !.woe = [v \in features |-> @[v]]]]
           ids == Samples(s) \cup model \cup scorecard \cup bundle
           frames == [role \in RolesOf(Samples(s)) |->
                        Derived(OfRole(s, role) \cup model \cup scorecard, Scored(role))]
           OK == /\ \A id \in scorecard : Kind(id) = "SCORE_SCALING"
                 /\ ~Ambiguous(s, {"FROZEN_SCORECARD_BUNDLE"})
                 /\ bundle # {} =>
                      /\ Body(bundle).model = model
                      /\ Body(bundle).scorecard \in {{}, scorecard}
                 /\ \A id \in Samples(s) : features \subseteq DOMAIN artifacts[id].body[1].woe
<1>1. IsDue(s) /\ Run(s, OK, PublishFrames(frames, "APPLY_MODEL_EVIDENCE", ids, features))
  BY DEF ApplyModel
<1>2. /\ \A role \in SampleRoles : OfRole(s, role) = {<<"apply-woe", role, "FRAME">>}
      /\ bundle = {<<Bundle, "scorecard", "FROZEN_SCORECARD_BUNDLE">>}
      /\ model = {ModelId} /\ OfRole(s, "model") = {ModelId}
      /\ {"apply-woe", "score-scaling", Bundle, "model-fit"} \subseteq done
  BY <1>1, ApplyModelFinds
<1>3. scorecard = {ScalingId}
  BY <1>1, ScalingIsFirst
<1>4. /\ Samples(s) = {<<"apply-woe", role, "FRAME">> : role \in SampleRoles}
      /\ RolesOf(Samples(s)) = SampleRoles
  <2>1. \A role \in SampleRoles : OfRole(s, role) = {<<"apply-woe", role, "FRAME">>}
    BY <1>2
  <2> QED
    BY <2>1, SamplesFound
<1>5. features = DOMAIN ScorecardBins
  <2>1. Body(model) = Content("model-fit", "model", "MODEL_ARTIFACT")
    BY <1>2, BodyOfOne DEF ModelId
  <2>2. Content("model-fit", "model", "MODEL_ARTIFACT").features = DOMAIN ScorecardBins
    BY <1>2 DEF RunInv, TrailInv, Trail
  <2> QED
    BY <2>1, <2>2
<1>6. HasRoles(s)
  <2>1. Required(s) = {"model"}
    BY DEF Required, Treatment, Bundle
  <2> QED
    BY <1>2, <2>1, RolesPresent
<1>7. OK
  <2>1. \A id \in scorecard : Kind(id) = "SCORE_SCALING"
    BY <1>3 DEF Kind, ScalingId
  <2>2. ~Ambiguous(s, {"FROZEN_SCORECARD_BUNDLE"})
    <3>1. Cardinality(OfKind(s, "FROZEN_SCORECARD_BUNDLE")) = 1
      BY <1>2, OneIsOne
    <3> QED
      BY <3>1 DEF Ambiguous
  <2>3. Body(bundle).model = model /\ Body(bundle).scorecard = scorecard
    <3>1. Pins(Body({<<Bundle, "scorecard", "FROZEN_SCORECARD_BUNDLE">>}))
      BY <1>2, BundlePins
    <3> QED
      BY <1>2, <1>3, <3>1 DEF Pins
  <2>4. ASSUME NEW id \in Samples(s) PROVE features \subseteq DOMAIN artifacts[id].body[1].woe
    <3>1. PICK role \in SampleRoles : id = <<"apply-woe", role, "FRAME">>
      BY <1>4
    <3>2. HasWeights(Content("apply-woe", role, "FRAME"), DOMAIN ScorecardBins)
      BY <1>2 DEF RunInv, TrailInv, Trail
    <3> QED
      BY <1>5, <3>1, <3>2 DEF HasWeights, Content
  <2> HIDE DEF scorecard, bundle, model, features
  <2> QED
    BY <2>1, <2>2, <2>3, <2>4
<1>8. DOMAIN frames = SampleRoles
  <2> HIDE DEF Scored
  <2> QED
    BY <1>4
<1> HIDE DEF OK, frames, ids, features
<1> DEFINE outputs == PublishFrames(frames, "APPLY_MODEL_EVIDENCE", ids, features)
<1>9. FramesFiled(s, frames, outputs)
  <2>1. Made(s) = {<<"train", "FRAME">>, <<"test", "FRAME">>, <<"oot", "FRAME">>,
                   <<"report", "APPLY_MODEL_EVIDENCE">>}
    BY DEF Made, Treatment, Bundle
  <2>2. FramesFit(s, frames, "APPLY_MODEL_EVIDENCE")
    BY <1>8, <2>1 DEF FramesFit, SampleRoles
  <2> HIDE DEF s
  <2> QED
    BY <2>2, FrameFiles
<1> HIDE DEF outputs
<1>10. Files(s, outputs) /\ Delivers(s, outputs)
  BY <1>9, NothingToDeliver DEF FramesFiled, Deliverers, Treatment, Bundle
<1>11. s \in Steps
  BY StepNames
<1>12. Run(s, OK, outputs) /\ IsDue(s)
  BY <1>1 DEF outputs
<1> HIDE DEF s
<1> QED
  BY <1>6, <1>7, <1>10, <1>11, <1>12, KeepTrail

LEMMA TrailCalibration == ASSUME RunInv, CalibrationDiagnostics PROVE TrailInv'
<1> DEFINE s == "calibration-diagnostics"
           kind == "CALIBRATION_DIAGNOSTICS"
<1>1. IsDue(s)
  BY DEF CalibrationDiagnostics
<1>2. PICK ids, body : Run(s, TRUE, Publish("report", kind, ids, body))
  BY DEF CalibrationDiagnostics
<1>3. HasRoles(s)
  <2>1. Required(s) = {"train", "test", "oot", "model", "definition"}
    BY DEF Required, Treatment, Bundle
  <2>2. /\ \A role \in SampleRoles : OfRole(s, role) # {}
        /\ OfRole(s, "model") # {} /\ OfRole(s, "definition") # {}
    BY <1>1, CalibrationFinds, RoleOfOne
  <2> QED
    BY <2>1, <2>2, RolesPresent DEF SampleRoles
<1> DEFINE outputs == Publish("report", kind, ids, body)
<1>4. Made(s) = {} /\ s \notin Deliverers /\ kind \notin TrackedKinds
        /\ "report" \notin TrackedRoles
  BY DEF Made, Deliverers, TrackedKinds, TrackedRoles, Treatment, Bundle
<1>5. Files(s, outputs) /\ Delivers(s, outputs)
  BY <1>4, ReportFiles
<1>6. s \in Steps
  BY StepNames
<1> HIDE DEF outputs, s
<1>7. Run(s, TRUE, outputs)
  BY <1>2 DEF outputs
<1> QED
  BY <1>1, <1>3, <1>5, <1>6, <1>7, KeepTrail

LEMMA TrailMetrics == ASSUME RunInv, ValidationMetrics PROVE TrailInv'
<1> DEFINE s == "validation-metrics"
           kind == "VALIDATION_METRICS"
           ids == OfKind(s, "MODELLING_METADATA") \cup OfKind(s, "APPLY_MODEL_EVIDENCE")
                  \cup Samples(s)
           Report(passed) == Publish("report", kind, ids, passed)
           Stops == \/ ~HasRoles(s) \/ ~Has(s, {"MODELLING_METADATA"})
                    \/ Ambiguous(s, {"FROZEN_SCORECARD_BUNDLE", "APPLY_MODEL_EVIDENCE"})
<1>1. IsDue(s)
  BY DEF ValidationMetrics
<1>2. /\ OfKind(s, "MODELLING_METADATA")
           = {<<"define-metadata", "definition", "MODELLING_METADATA">>}
      /\ OfKind(s, "APPLY_MODEL_EVIDENCE") = {<<"apply-model", "report", "APPLY_MODEL_EVIDENCE">>}
  BY <1>1, ValidationFinds
<1>3. HasRoles(s)
  <2>1. Required(s) = {"definition"}
    BY DEF Required, Treatment, Bundle
  <2>2. OfRole(s, "definition") # {}
    BY <1>2, RoleOfOne
  <2> QED
    BY <2>1, <2>2, RolesPresent
<1>4. Has(s, {"MODELLING_METADATA"})
  BY <1>2, OneIsOne DEF Has
<1>5. OfKind(s, "FROZEN_SCORECARD_BUNDLE") = {}
  <2> SUFFICES ASSUME NEW id \in OfKind(s, "FROZEN_SCORECARD_BUNDLE") PROVE FALSE
    OBVIOUS
  <2>1. id \in Inputs(s) /\ id[3] = "FROZEN_SCORECARD_BUNDLE"
          /\ "FROZEN_SCORECARD_BUNDLE" \in TrackedKinds
    BY DEF OfKind, Kind, TrackedKinds
  <2>2. IsReady(s)
    BY <1>1 DEF IsDue, IsNext
  <2>3. /\ id = <<id[1], id[2], id[3]>> /\ id[1] \in ToSet(Parents(s))
        /\ <<id[2], id[3]>> \in Made(id[1]) /\ id \in DOMAIN artifacts
    BY <2>1, <2>2, InputIsMade
  <2> DEFINE k == <<id[2], id[3]>>
  <2>4. k \in Made(id[1]) /\ k[2] = "FROZEN_SCORECARD_BUNDLE"
    BY <2>1, <2>3
  <2> HIDE DEF k
  <2>5. id[1] = Bundle
    BY <2>4, Makers
  <2> QED
    BY <2>3, <2>5, Edges DEF Bundle
<1>6. ~Ambiguous(s, {"FROZEN_SCORECARD_BUNDLE", "APPLY_MODEL_EVIDENCE"})
  <2>1. Cardinality(OfKind(s, "FROZEN_SCORECARD_BUNDLE")) = 0
    BY <1>5, FS_EmptySet
  <2>2. Cardinality(OfKind(s, "APPLY_MODEL_EVIDENCE")) = 1
    BY <1>2, OneIsOne
  <2> QED
    BY <2>1, <2>2 DEF Ambiguous
<1>7. PICK passed \in BOOLEAN :
        IF passed THEN Succeed(s, Report(passed))
        ELSE /\ artifacts' = Published(s, Report(passed))
             /\ state' = "failed"
             /\ UNCHANGED done
  <2>1. ~Stops
    BY <1>3, <1>4, <1>6
  <2>2. IF Stops THEN Fail
        ELSE \E passed \in BOOLEAN :
               IF passed THEN Succeed(s, Report(passed))
               ELSE /\ artifacts' = Published(s, Report(passed))
                    /\ state' = "failed"
                    /\ UNCHANGED done
    BY DEF ValidationMetrics
  <2> HIDE DEF Stops, Report
  <2> QED
    BY <2>1, <2>2
<1>8. Made(s) = {} /\ s \notin Deliverers /\ kind \notin TrackedKinds
        /\ "report" \notin TrackedRoles
  BY DEF Made, Deliverers, TrackedKinds, TrackedRoles, Treatment, Bundle
<1>9. Files(s, Report(passed)) /\ Delivers(s, Report(passed))
  BY <1>8, ReportFiles
<1>10. s \in Steps
  BY StepNames
<1>11. DOMAIN Report(passed) = {<<"report", kind>>}
         /\ Report(passed)[<<"report", kind>>].body = passed
  BY DEF Publish, Derived
<1> HIDE DEF Report
<1>12. CASE passed
  <2>1. Run(s, TRUE, Report(passed))
    BY <1>3, <1>7, <1>12 DEF Run
  <2> HIDE DEF s
  <2> QED
    BY <1>1, <1>3, <1>9, <1>10, <2>1, KeepTrail
<1>13. CASE ~passed
  <2>1. artifacts' = Published(s, Report(passed)) /\ done' = done
    BY <1>7, <1>13
  <2>2. \A k \in DOMAIN Report(passed) : k[1] \notin TrackedRoles /\ k[2] \notin TrackedKinds
    BY <1>8, <1>11
  <2>3. MayStop'
    <3> DEFINE id == <<s, "report", kind>>
    <3>1. id \in DOMAIN artifacts' /\ artifacts'[id] = Report(passed)[<<"report", kind>>]
      BY <1>11, <2>1, KeptArtifacts
    <3>2. id[3] = "VALIDATION_METRICS" /\ ~artifacts'[id].body
      BY <1>11, <1>13, <3>1
    <3> HIDE DEF id
    <3> QED
      BY <3>1, <3>2 DEF MayStop, Kind
  <2> HIDE DEF s
  <2> QED
    BY <1>1, <2>1, <2>2, <2>3, TrailAside
<1> QED
  BY <1>12, <1>13

LEMMA TrailCutoff == ASSUME RunInv, CutoffAnalysis PROVE TrailInv'
<1> DEFINE s == "cutoff-analysis"
           kind == "CUTOFF_ANALYSIS"
<1>1. IsDue(s)
  BY DEF CutoffAnalysis
<1>2. PICK ok, ids, body : Run(s, ok, Publish("report", kind, ids, body))
  BY DEF CutoffAnalysis
<1>3. MayStop
  BY <1>1 DEF MayStop, IsDue
<1> DEFINE outputs == Publish("report", kind, ids, body)
<1>4. Made(s) = {} /\ s \notin Deliverers /\ kind \notin TrackedKinds
        /\ "report" \notin TrackedRoles
  BY DEF Made, Deliverers, TrackedKinds, TrackedRoles, Treatment, Bundle
<1>5. Files(s, outputs) /\ Delivers(s, outputs)
  BY <1>4, ReportFiles
<1>6. s \in Steps
  BY StepNames
<1> HIDE DEF outputs, s
<1>7. Run(s, ok, outputs)
  BY <1>2 DEF outputs
<1> QED
  BY <1>1, <1>3, <1>5, <1>6, <1>7, KeepTrail

LEMMA TrailTable == ASSUME RunInv, ScorecardTableExport PROVE TrailInv'
<1> DEFINE s == "scorecard-table-export"
           kind == "SCORE_TABLE"
           scorecard == OfKind(s, "SCORE_SCALING")
           OK == scorecard # {} /\ Body(scorecard) # {}
           outputs == Publish("report", kind, scorecard, Body(scorecard))
<1>1. IsDue(s) /\ Run(s, OK, outputs)
  BY DEF ScorecardTableExport
<1>2. /\ scorecard = {ScalingId} /\ OfKind(s, "WOE_TABLE") = {WeightsId}
      /\ "score-scaling" \in done
  BY <1>1, TableFinds
<1>3. HasRoles(s)
  <2>1. Required(s) = {"scorecard", "report"}
    BY DEF Required, Treatment, Bundle
  <2>2. OfRole(s, "scorecard") # {} /\ OfRole(s, "report") # {}
    BY <1>2, RoleOfOne DEF ScalingId, WeightsId
  <2> QED
    BY <2>1, <2>2, RolesPresent
<1>4. OK
  <2>1. Body(scorecard) = Content("score-scaling", "scorecard", "SCORE_SCALING")
    BY <1>2, BodyOfOne DEF ScalingId
  <2>2. Content("score-scaling", "scorecard", "SCORE_SCALING") # {}
    BY <1>2 DEF RunInv, TrailInv, Trail
  <2> QED
    BY <1>2, <2>1, <2>2
<1>5. Made(s) = {} /\ s \notin Deliverers /\ kind \notin TrackedKinds
        /\ "report" \notin TrackedRoles
  BY DEF Made, Deliverers, TrackedKinds, TrackedRoles, Treatment, Bundle
<1>6. Files(s, outputs) /\ Delivers(s, outputs)
  BY <1>5, ReportFiles
<1>7. s \in Steps
  BY StepNames
<1> HIDE DEF outputs, OK, s
<1> QED
  BY <1>1, <1>3, <1>4, <1>6, <1>7, KeepTrail

(* The exporters: what they look for is there, and only a bin that cannot  *)
(* be rendered stops them.                                                 *)
WeightsOfFeatures ==
  /\ \A v \in DOMAIN ScorecardBins : /\ v \in DOMAIN ScorecardWeights
                                     /\ ScorecardWeights[v] # <<>>

LEMMA FeaturesAreWeighed == ASSUME RunInv, Bundle \in done PROVE WeightsOfFeatures
<1> SUFFICES ASSUME NEW v \in DOMAIN ScorecardBins
             PROVE v \in DOMAIN ScorecardWeights /\ ScorecardWeights[v] # <<>>
  BY DEF WeightsOfFeatures
<1>1. {"woe-transform-train", "manual-binning"} \subseteq done
  BY BundlePins
<1>2. AreMatched(ScorecardWeights, ScorecardBins, TrainingSample)
  BY <1>1, ScorecardIsReady
<1>3. IsWeighable(ScorecardBins, ScorecardWeights, DOMAIN ScorecardBins)
  BY <1>2 DEF AreMatched
<1>4. /\ ScorecardBins[v] # <<>>
      /\ \A n \in DOMAIN ScorecardBins[v] :
           v \in DOMAIN ScorecardWeights /\ IsMapped(ScorecardBins[v][n].id, ScorecardWeights[v])
  BY <1>3 DEF IsWeighable
<1>5. Ordered(ScorecardBins[v], KindOf(v))
  BY <1>1, BinsAreOrdered DEF ScorecardBins
<1>6. 1 \in DOMAIN ScorecardBins[v]
  <2>1. ScorecardBins[v] \in Seq(ToSet(ScorecardBins[v]))
    BY <1>5 DEF Ordered
  <2>2. Len(ScorecardBins[v]) \in Nat /\ DOMAIN ScorecardBins[v] = 1 .. Len(ScorecardBins[v])
    BY <2>1, LenProperties
  <2>3. Len(ScorecardBins[v]) # 0
    BY <1>4, <2>1, EmptySeq
  <2> QED
    BY <2>2, <2>3
<1>7. v \in DOMAIN ScorecardWeights /\ IsMapped(ScorecardBins[v][1].id, ScorecardWeights[v])
  BY <1>4, <1>6
<1>8. PICK k \in DOMAIN ScorecardWeights[v] : TRUE
  BY <1>7 DEF IsMapped
<1>9. DOMAIN <<>> = {}
  OBVIOUS
<1> QED
  BY <1>7, <1>8, <1>9

LEMMA TrailExport ==
  ASSUME RunInv, NEW s \in Exporters, ScorerExport(s, ScorerKind(s)),
         s = "scoring-export-sql" =>
           \A v \in DOMAIN ScorecardBins :
              Compiles(ScorecardBins[v], KindOf(v), ScorecardWeights[v])
  PROVE TrailInv'
<1> DEFINE bundle == OfKind(s, "FROZEN_SCORECARD_BUNDLE")
           model == FirstOf(s, "model")
           scorecard == OfKind(s, "SCORE_SCALING")
           definition == OfKind(s, "BIN_DEFINITION")
           weights == OfKind(s, "WOE_TABLE")
           bins == Body(definition)
           table == Body(weights)
           features == Body(model).features
           ids == bundle \cup model \cup scorecard \cup definition \cup weights
           body == [v \in features |-> Compiled(bins[v], table[v])]
           kind == ScorerKind(s)
           OK == /\ Has(s, {"FROZEN_SCORECARD_BUNDLE", "BIN_DEFINITION", "WOE_TABLE",
                            "SCORE_SCALING"})
                 /\ Body(bundle).model = model /\ Body(bundle).scorecard = scorecard
                 /\ Body(bundle).bins = definition /\ Body(bundle).woes = weights
                 /\ features \subseteq DOMAIN bins
                 /\ \A v \in features : /\ v \in DOMAIN table /\ table[v] # <<>>
                                        /\ Compiles(bins[v], KindOf(v), table[v])
           outputs == Publish("report", kind, ids, body)
<1>1. IsDue(s) /\ Run(s, OK, outputs)
  BY DEF ScorerExport
<1>2. /\ bundle = {<<Bundle, "scorecard", "FROZEN_SCORECARD_BUNDLE">>}
      /\ definition = {BinsId} /\ weights = {WeightsId} /\ scorecard = {ScalingId}
      /\ model = {ModelId} /\ OfRole(s, "model") = {ModelId}
      /\ Bundle \in done /\ "model-fit" \in done
  <2>1. s = "scoring-export-python" \/ s = "scoring-export-sql"
    BY DEF Exporters
  <2>2. CASE s = "scoring-export-python"
    BY <1>1, <2>2, PythonFinds
  <2>3. CASE s = "scoring-export-sql"
    BY <1>1, <2>3, SqlFinds
  <2> QED
    BY <2>1, <2>2, <2>3
<1>3. bins = ScorecardBins /\ table = ScorecardWeights /\ features = DOMAIN ScorecardBins
  <2>1. bins = ScorecardBins /\ table = ScorecardWeights
    BY <1>2, BodyOfOne DEF BinsId, WeightsId, ScorecardBins, ScorecardWeights
  <2>2. Body(model) = Content("model-fit", "model", "MODEL_ARTIFACT")
    BY <1>2, BodyOfOne DEF ModelId
  <2>3. Content("model-fit", "model", "MODEL_ARTIFACT").features = DOMAIN ScorecardBins
    BY <1>2 DEF RunInv, TrailInv, Trail
  <2> QED
    BY <2>1, <2>2, <2>3
<1>4. HasRoles(s)
  <2>1. Required(s) = {"definition", "report", "model", "scorecard"}
    BY DEF Required, Treatment, Bundle, Exporters
  <2>2. OfRole(s, "definition") # {} /\ OfRole(s, "report") # {} /\ OfRole(s, "scorecard") # {}
    BY <1>2, RoleOfOne DEF BinsId, WeightsId, ScalingId
  <2> QED
    BY <1>2, <2>1, <2>2, RolesPresent
<1>5. ASSUME \A v \in DOMAIN ScorecardBins :
               Compiles(ScorecardBins[v], KindOf(v), ScorecardWeights[v])
      PROVE OK
  <2>1. Has(s, {"FROZEN_SCORECARD_BUNDLE", "BIN_DEFINITION", "WOE_TABLE", "SCORE_SCALING"})
    BY <1>2, OneIsOne DEF Has
  <2>2. /\ Body(bundle).model = model /\ Body(bundle).scorecard = scorecard
        /\ Body(bundle).bins = definition /\ Body(bundle).woes = weights
    <3>1. Pins(Body({<<Bundle, "scorecard", "FROZEN_SCORECARD_BUNDLE">>}))
      BY <1>2, BundlePins
    <3> QED
      BY <1>2, <3>1 DEF Pins
  <2>3. features \subseteq DOMAIN bins
    BY <1>3
  <2>4. \A v \in features : v \in DOMAIN table /\ table[v] # <<>>
    BY <1>2, <1>3, FeaturesAreWeighed DEF WeightsOfFeatures
  <2>5. \A v \in features : Compiles(bins[v], KindOf(v), table[v])
    BY <1>3, <1>5
  <2> HIDE DEF bundle, bins, table, features, model, scorecard, definition, weights
  <2> QED
    BY <2>1, <2>2, <2>3, <2>4, <2>5
<1>6. ASSUME NEW v \in DOMAIN ScorecardBins,
             ~Compiles(ScorecardBins[v], KindOf(v), ScorecardWeights[v])
      PROVE MayStop
  <2>1. s = "scoring-export-python"
    BY <1>6 DEF Exporters
  <2>2. IsNext("scoring-export-python")
    BY <1>1, <2>1 DEF IsDue
  <2> QED
    BY <1>6, <2>2 DEF MayStop
<1>7. OK \/ MayStop
  <2> HIDE DEF OK
  <2> QED
    BY <1>5, <1>6
<1>8. Made(s) = {} /\ s \notin Deliverers /\ kind \notin TrackedKinds
        /\ "report" \notin TrackedRoles
  BY DEF Made, Deliverers, TrackedKinds, TrackedRoles, Treatment, Bundle, Exporters, ScorerKind
<1>9. Files(s, outputs) /\ Delivers(s, outputs)
  <2> HIDE DEF kind, ids, body
  <2> QED
    BY <1>8, ReportFiles
<1>10. s \in Steps
  BY StepNames DEF Exporters
<1> HIDE DEF outputs, OK
<1> QED
  BY <1>1, <1>4, <1>7, <1>9, <1>10, KeepTrail

LEMMA TrailPython == ASSUME RunInv, ScoringExportPython PROVE TrailInv'
<1>1. "scoring-export-python" \in Exporters
      /\ ScorerKind("scoring-export-python") = "SCORING_EXPORT_PYTHON"
  BY DEF Exporters, ScorerKind
<1>2. ScorerExport("scoring-export-python", ScorerKind("scoring-export-python"))
  BY <1>1 DEF ScoringExportPython
<1> QED
  BY <1>1, <1>2, TrailExport

(* The exporter of SQL runs after that of Python, and on the same bins.    *)
LEMMA TrailSql == ASSUME RunInv, ScoringExportSql PROVE TrailInv'
<1> DEFINE p == "scoring-export-python"
           s == "scoring-export-sql"
<1>1. s \in Exporters /\ p \in Exporters
      /\ ScorerKind(s) = "SCORING_EXPORT_SQL" /\ ScorerKind(p) = "SCORING_EXPORT_PYTHON"
  BY DEF Exporters, ScorerKind
<1>2. ScorerExport(s, ScorerKind(s)) /\ IsDue(s)
  BY <1>1 DEF ScoringExportSql, ScorerExport
<1>3. p \in done
  <2> SUFFICES ASSUME p \notin done PROVE FALSE
    OBVIOUS
  <2>1. IsNext(s) /\ IsReady(s)
    BY <1>2 DEF IsDue, IsNext
  <2>2. ToSet(Parents(p)) = ToSet(Parents(s))
    BY DEF Parents, Treatment, Bundle
  <2>3. IsReady(p)
    BY <2>1, <2>2 DEF IsReady
  <2>4. Position(s) <= Position(p)
    BY <2>1, <2>3, StepNames DEF IsNext
  <2> QED
    BY <2>4, Places
<1>4. Rendered(artifacts[<<p, "report", "SCORING_EXPORT_PYTHON">>].body,
               artifacts[ModelId].body, artifacts[BinsId].body, artifacts[WeightsId].body)
  BY <1>1, <1>3 DEF RunInv, ScorecardInv, StepsOK
<1>5. "model-fit" \in done
  BY <1>1, <1>3 DEF RunInv, ScorecardInv, StepsOK
<1>6. /\ artifacts[BinsId].body = ScorecardBins /\ artifacts[WeightsId].body = ScorecardWeights
      /\ artifacts[ModelId].body = Content("model-fit", "model", "MODEL_ARTIFACT")
  BY DEF BinsId, WeightsId, ModelId, Content, ScorecardBins, ScorecardWeights
<1>7. Content("model-fit", "model", "MODEL_ARTIFACT").features = DOMAIN ScorecardBins
  BY <1>5 DEF RunInv, TrailInv, Trail
<1>8. \A v \in DOMAIN ScorecardBins : Compiles(ScorecardBins[v], KindOf(v), ScorecardWeights[v])
  BY <1>4, <1>6, <1>7 DEF Rendered
<1> QED
  BY <1>1, <1>2, <1>8, TrailExport

LEMMA TrailSummary == ASSUME RunInv, PublishRunSummary PROVE TrailInv'
<1> DEFINE s == "technical-manifest"
           outputs == Publish("manifest", "RUN_SUMMARY", {}, done)
<1>1. IsDue(s) /\ artifacts' = Published(s, outputs) /\ done' = done /\ state' = state
  BY DEF PublishRunSummary
<1>2. state' # "failed"
  BY <1>1 DEF IsDue
<1>3. \A k \in DOMAIN outputs : k[1] \notin TrackedRoles /\ k[2] \notin TrackedKinds
  BY DEF Publish, TrackedRoles, TrackedKinds
<1> HIDE DEF s, outputs
<1> QED
  BY <1>1, <1>2, <1>3, TrailAside

LEMMA TrailManifest == ASSUME RunInv, TechnicalManifest PROVE TrailInv'
<1> DEFINE s == "technical-manifest"
           kind == "TECHNICAL_MANIFEST_INDEX"
           summary == FirstOf(s, "manifest")
           outputs == Publish("manifest", kind, summary, Body(summary))
<1>1. IsDue(s) /\ summary # {} /\ Run(s, TRUE, outputs)
  BY DEF TechnicalManifest
<1>2. HasRoles(s)
  <2>1. Required(s) = {"manifest"}
    BY DEF Required, Treatment, Bundle
  <2>2. OfRole(s, "manifest") # {}
    BY <1>1 DEF FirstOf
  <2> QED
    BY <2>1, <2>2, RolesPresent
<1>3. /\ Made(s) = {} /\ s \notin Deliverers /\ kind \notin TrackedKinds
      /\ "manifest" \notin TrackedRoles
  BY DEF Made, Deliverers, TrackedKinds, TrackedRoles, Treatment, Bundle
<1>4. Files(s, outputs) /\ Delivers(s, outputs)
  BY <1>3, ReportFiles
<1>5. s \in Steps
  BY StepNames
<1> HIDE DEF outputs, s
<1> QED
  BY <1>1, <1>2, <1>4, <1>5, KeepTrail

-----------------------------------------------------------------------------
(* The whole run.                                                          *)
LEMMA RunInit == Init => RunInv
BY InvInit, ScorecardInit, TrailInit DEF RunInv

LEMMA TrailStep == ASSUME RunInv, [Next]_vars PROVE TrailInv'
<1>1. CASE Prepare
  BY <1>1, TrailImport, TrailExclusions, TrailSplit, TrailTreatment, TrailOfReports DEF Prepare
<1>2. CASE Build
  BY <1>2, TrailBinning, TrailInitialWoe, TrailFinalWoe, TrailManual, TrailTransform, TrailModelFit,
     TrailScaling, TrailFreeze, TrailOfReports DEF Build
<1>3. CASE Validate
  BY <1>3, TrailApplyWoe, TrailApplyModel, TrailCalibration, TrailMetrics, TrailCutoff, TrailTable,
     TrailPython, TrailSql, TrailSummary, TrailManifest DEF Validate
<1> QED
  BY <1>1, <1>2, <1>3, TrailStutters DEF Next

LEMMA RunStep == RunInv /\ [Next]_vars => RunInv'
<1> SUFFICES ASSUME RunInv, [Next]_vars PROVE RunInv'
  OBVIOUS
<1>1. Inv' /\ ScorecardInv'
  BY InvStep, ScorecardStep DEF RunInv
<1>2. TrailInv'
  BY TrailStep
<1> QED
  BY <1>1, <1>2 DEF RunInv

(* A run that has frozen a scorecard stops only where the code says so: no *)
(* step behind the bundle fails for the inputs it finds, whatever the plan *)
(* has published, since each finds the artifact the bundle was made from.  *)
THEOREM FrozenStaysApplicable == Spec => []FrozenIsApplied
<1>1. RunInv => FrozenIsApplied
  BY DEF RunInv, TrailInv
<1> QED
  BY <1>1, RunInit, RunStep, PTL DEF Spec

(* The bins of a scorecard divide the rows of training: the transformation *)
(* has found a bin for each, and bins that overrides have left of the      *)
(* automatic ones share no value.                                          *)
LEMMA TrainingIsDivided ==
  ASSUME RunInv, "woe-transform-train" \in done, NEW v \in DOMAIN ScorecardBins
  PROVE /\ Partitions(ScorecardBins[v], KindOf(v), Column(TrainingSample, v))
        /\ Len(ScorecardBins[v]) \in Nat
        /\ DOMAIN ScorecardBins[v] = 1 .. Len(ScorecardBins[v])
<1> DEFINE bins == ScorecardBins
           frame == TrainingSample
           column == Column(frame, v)
           kind == KindOf(v)
<1>1. /\ AreMatched(ScorecardWeights, bins, frame) /\ AreWeighed(ScorecardWeights, bins, frame)
      /\ {"manual-binning", "final-woe-iv", "variable-selection", Treatment} \subseteq done
  BY ScorecardIsReady
<1>2. "automatic-binning" \in done
  BY <1>1, Closed, Edges DEF RunInv
<1>3. Ordered(bins[v], kind)
  BY <1>1, BinsAreOrdered DEF ScorecardBins
<1>4. Len(bins[v]) \in Nat /\ DOMAIN bins[v] = 1 .. Len(bins[v])
  BY <1>3, OrderedDomain
<1>5. v \in DOMAIN AutomaticBins /\ Placed(bins[v], AutomaticBins[v], kind)
  BY <1>1 DEF RunInv, TrailInv, Trail, ArePlaced
<1>6. Fresh(AutomaticBins[v], kind) /\ v \in Variables
  BY <1>2, <1>5 DEF RunInv, TrailInv, Trail, AreFresh
<1>7. DOMAIN AutomaticBins[v] \subseteq Nat \ {0}
  <2>1. Ordered(AutomaticBins[v], kind)
    BY <1>2, <1>5, BinsAreOrdered DEF AutomaticBins
  <2> QED
    BY <2>1, OrderedDomain
<1>8. \A n \in DOMAIN bins[v] : HasMask(bins[v][n], kind)
  BY <1>1 DEF AreWeighed
<1>9. Tidy(frame)
  BY <1>1 DEF RunInv, TrailInv, Trail, IsSample, TrainingSample, SampleRoles
<1>10. /\ DOMAIN column = DOMAIN frame
       /\ \A i \in DOMAIN frame : column[i].value = frame[i].x[v]
  BY <1>9, ColumnOfTidy
<1>11. ASSUME NEW i \in DOMAIN column
       PROVE \E k \in DOMAIN bins[v] : InBin(column[i].value, bins[v][k], bins[v], kind)
  <2> DEFINE weighted == Weighted(frame, bins, ScorecardWeights, DOMAIN bins)
             weight == Applied(frame[i].x[v], bins[v], kind, ScorecardWeights[v])
  <2>1. i \in DOMAIN frame /\ DOMAIN frame[i] = {"x", "target", "woe"}
    BY <1>9, <1>10 DEF Tidy
  <2>2. i \in DOMAIN weighted
        /\ weighted[i].woe = [w \in DOMAIN bins |->
             Applied(frame[i].x[w], bins[w], KindOf(w), ScorecardWeights[w])]
    BY <2>1 DEF Weighted
  <2>3. IsMatched(weighted)
    BY <1>1 DEF AreMatched
  <2>4. weight # Null
    <3>1. v \in DOMAIN weighted[i].woe /\ weighted[i].woe[v] = weight
      BY <2>2
    <3> HIDE DEF weighted, weight
    <3> QED
      BY <2>2, <2>3, <3>1 DEF IsMatched
  <2>5. {k \in DOMAIN bins[v] : InBin(frame[i].x[v], bins[v][k], bins[v], kind)} # {}
    BY <2>4 DEF Applied
  <2> QED
    BY <1>10, <2>1, <2>5
<1>12. ASSUME NEW i \in DOMAIN column, NEW j \in DOMAIN bins[v], NEW k \in DOMAIN bins[v], j # k
       PROVE ~ (/\ InBin(column[i].value, bins[v][j], bins[v], kind)
                /\ InBin(column[i].value, bins[v][k], bins[v], kind))
  <2> DEFINE value == column[i].value
  <2>1. kind = "numeric" => value \in Int \cup {Null}
    BY <1>9, <1>10 DEF Tidy, KindOf
  <2> HIDE DEF value, kind, bins
  <2>2. ~ (InBin(value, bins[v][j], bins[v], kind) /\ InBin(value, bins[v][k], bins[v], kind))
    BY <1>3, <1>5, <1>6, <1>7, <1>8, <1>12, <2>1, ApartPlaced
  <2> QED
    BY <2>2 DEF value
<1> HIDE DEF column, kind, bins
<1>13. Partitions(bins[v], kind, column)
  BY <1>11, <1>12 DEF Partitions
<1> QED
  BY <1>4, <1>13 DEF bins, column, kind

(* However the analyst has merged, grouped or moved the bins, the rows of  *)
(* a weights table add up to the training sample.                          *)
THEOREM WoeStaysAccountable == Spec => []WoeAccountsForTraining
<1>1. RunInv => WoeAccountsForTraining
  <2> SUFFICES ASSUME RunInv, "woe-transform-train" \in done, NEW v \in DOMAIN ScorecardBins,
                      NEW class \in {"good", "bad"}
               PROVE LET column == Column(TrainingSample, v) IN
                     Total(ScorecardWeights[v], class) = Counts(column, DOMAIN column)[class]
    BY DEF WoeAccountsForTraining
  <2> DEFINE column == Column(TrainingSample, v)
  <2>1. AreWeighed(ScorecardWeights, ScorecardBins, TrainingSample) /\ Treatment \in done
    BY ScorecardIsReady
  <2>2. PICK p \in WoeParams :
          ScorecardWeights[v] = WoeRows(column, ScorecardBins[v], KindOf(v), p.smoothing)
    BY <2>1 DEF AreWeighed
  <2>3. Tidy(TrainingSample)
    BY <2>1 DEF RunInv, TrailInv, Trail, IsSample, TrainingSample, SampleRoles
  <2>4. IsFiniteSet(DOMAIN column)
    BY <2>3, ColumnOfTidy
  <2>5. /\ Partitions(ScorecardBins[v], KindOf(v), column)
        /\ Len(ScorecardBins[v]) \in Nat /\ DOMAIN ScorecardBins[v] = 1 .. Len(ScorecardBins[v])
    BY TrainingIsDivided
  <2> HIDE DEF column
  <2>6. Total(WoeRows(column, ScorecardBins[v], KindOf(v), p.smoothing), class)
          = Counts(column, DOMAIN column)[class]
    BY <2>4, <2>5, RowsAreCounted
  <2> QED
    BY <2>2, <2>6 DEF column
<1> QED
  BY <1>1, RunInit, RunStep, PTL DEF Spec

=============================================================================
