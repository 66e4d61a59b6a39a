------------------------------- MODULE MCPathway -------------------------------
(* An instance of Pathway: two numeric variables, of which one may be null, *)
(* and one with levels; samples of eight, two and two rows.                 *)
EXTENDS Pathway

MCVariables == {"age", "debt", "home"}
MCNumericVariables == {"age", "debt"}

Row(target, age, debt, home) ==
  [x |-> [age |-> age, debt |-> debt, home |-> home], target |-> target, woe |-> <<>>]

(* With the order of the rows the first four of a class are for training;  *)
(* with the order reversed the last four.                                  *)
Applicants ==
  <<Row("good", 1, 1, "own"), Row("good", 2, 2, "own"), Row("good", Null, 2, "rent"),
    Row("good", 4, 4, "rent"), Row("good", 5, 5, "own"), Row("good", 3, 3, "own"),
    Row("bad", 2, 3, "rent"), Row("bad", 4, 4, "own"), Row("bad", 5, 4, "rent"),
    Row("bad", Null, 1, "rent"), Row("bad", 1, 1, "rent"), Row("bad", 6, 6, Null)>>
MCDatasets ==
  {Applicants,
   [Applicants EXCEPT ![6].x.home = "park", ![12].x.home = "own"],
   Append([Applicants EXCEPT ![7].x.home = "park"], Row("open", 9, 9, "own")),
   SubSeq(Applicants, 1, 6)}

MCIndeterminates == {{"open"}}
MCRuleLists ==
  {<<>>,
   <<[column |-> "target", op |-> "in", values |-> {"open"}]>>,
   <<[column |-> "income", op |-> "is_null", values |-> {}]>>}
MCOrders == {[n \in 1 .. 13 |-> n], [n \in 1 .. 13 |-> 0 - n]}

MCTreatments ==
  {[fill |-> <<>>, cap |-> <<>>, floor |-> <<>>],
   [fill |-> [v \in {"age"} |-> 7], cap |-> [v \in {"age"} |-> 5], floor |-> [v \in {"debt"} |-> 2]]}

MCBinningParams ==
  {[maxBins |-> 4, levels |-> 1, separate |-> TRUE, exclude |-> {}],
   [maxBins |-> 3, levels |-> 2, separate |-> TRUE, exclude |-> {"debt"}],
   [maxBins |-> 2, levels |-> 2, separate |-> FALSE, exclude |-> {}]}

SelectBy(rule, limit, includes, excludes, representatives, demanding) ==
  [rule |-> rule, limit |-> limit, includes |-> includes, excludes |-> excludes,
   representatives |-> representatives, demanding |-> demanding]
MCSelectionParams ==
  {SelectBy("none", 2, {}, {}, <<>>, FALSE),
   SelectBy("one_per_cluster_highest_iv", 2, {"debt"}, {}, <<>>, TRUE),
   SelectBy("one_per_cluster_lowest_missing", 1, {}, {"home"}, <<"debt">>, FALSE)}

Override(variable, action, sources, label) ==
  [variable |-> variable, action |-> action, label |-> label,
   sources |-> [n \in DOMAIN sources |-> <<"bin", sources[n]>>]]
MCOverrideLists ==
  {<<>>,
   <<Override("age", "merge_bins", <<2, 3>>, 1)>>,
   <<Override("debt", "merge_bins", <<1, 3>>, 1)>>,
   <<Override("age", "reorder_missing_bin", <<>>, 0)>>,
   <<Override("home", "group_categories", <<1>>, 0), Override("home", "group_categories", <<2>>, 0)>>,
   <<Override("home", "merge_bins", <<1, 2>>, 1)>>,
   <<Override("debt", "merge_bins", <<1, 2>>, 1), Override("age", "reject_variable", <<>>, 0)>>}

FinalBy(purpose, smoothing, rationale, block) ==
  [purpose |-> purpose, smoothing |-> smoothing, rationale |-> rationale, block |-> block]
MCWoeParams ==
  {FinalBy("final", TRUE, TRUE, TRUE), FinalBy("final", FALSE, FALSE, FALSE),
   FinalBy("final", FALSE, FALSE, TRUE), FinalBy("initial", TRUE, FALSE, TRUE)}

MCScoredValues ==
  [v \in MCVariables |->
     IF v = "home" THEN {"own", "rent", "park", "boat", Null} ELSE (0 .. 10) \cup {Null}]

=============================================================================
