------------------------------- MODULE Binning -------------------------------
(***************************************************************************)
(* The arithmetic of a scorecard, as operators: how a training column is   *)
(* cut into bins, how an analyst's overrides change them, which bin a      *)
(* value falls in, the weight of evidence of a bin, which variables a      *)
(* selection keeps, and how the three scorers (the node that applies the   *)
(* weights to a data frame, the exported Python function and the exported  *)
(* SQL) find the weight of a value.                                        *)
(*                                                                         *)
(* A column is a sequence of records [value, bad].  A weight is kept as    *)
(* the odds its logarithm is taken of, a pair <<numerator, denominator>>;  *)
(* <<1, 1>> is the weight 0.                                               *)
(***************************************************************************)
EXTENDS Integers, Sequences, FiniteSets, FiniteSetsExt, SequencesExt

CONSTANT Null

ASSUME NullAssumption == Null \notin Int

Values(column) == {column[i].value : i \in DOMAIN column} \ {Null}
RowsWith(column, value) == {i \in DOMAIN column : column[i].value = value}
NotNull(column) == DOMAIN column \ RowsWith(column, Null)

(* A finite set of integers as an increasing sequence, and the elements of *)
(* a sequence at some positions (SetToSortSeq and SelectSeq, as functions  *)
(* that a proof can open).                                                 *)
InOrder(S) ==
  [k \in 1 .. Cardinality(S) |-> CHOOSE n \in S : Cardinality({m \in S : m < n}) = k - 1]
At(seq, positions) ==
  LET order == InOrder(positions) IN [k \in DOMAIN order |-> seq[order[k]]]

(* The goods and bads of some rows of a column.                            *)
Counts(column, rows) == [good |-> Cardinality({i \in rows : ~column[i].bad}),
                         bad |-> Cardinality({i \in rows : column[i].bad})]

-----------------------------------------------------------------------------
(* Bins.  Only the upper bound of a bin is ever inclusive.                 *)

NewBin(id, counts) ==
  [id |-> id, lower |-> Null, upper |-> Null, closed |-> FALSE, cats |-> Null,
   missing |-> FALSE, other |-> FALSE, good |-> counts.good, bad |-> counts.bad]

MissingBins(column, separate) ==
  LET nulls == RowsWith(column, Null) IN
  IF separate /\ nulls # {}
  THEN <<[NewBin(<<"bin", 1>>, Counts(column, nulls)) EXCEPT !.missing = TRUE]>>
  ELSE <<>>

(* The k-th value from below: the least with k rows that are not above it. *)
Nth(column, k) ==
  Min({value \in Values(column) :
         Cardinality({i \in NotNull(column) : column[i].value <= value}) >= k})

(* The n-quantiles of a column by linear interpolation, rounded down,      *)
(* which changes no comparison of integers.                                *)
Quantile(column, n, i) ==
  LET h == (Cardinality(NotNull(column)) - 1) * i
      low == Nth(column, h \div n + 1)
      high == IF h % n = 0 THEN low ELSE Nth(column, h \div n + 2)
  IN low + ((h % n) * (high - low)) \div n

(* The breaks of polars' qcut into n groups.                               *)
Breaks(column, n) == {Quantile(column, n, i) : i \in 1 .. n - 1}

(* The break a value is grouped under, Null for infinity.                  *)
BreakOf(value, breaks) ==
  LET above == {b \in breaks : value <= b} IN IF above = {} THEN Null ELSE Min(above)

(* One bin for each break that some row is grouped under, from the break   *)
(* before it to its own.  The last one is open above, whatever its break.  *)
NumericBins(column, maxBins, separate) ==
  LET missing == MissingBins(column, separate)
      rows == NotNull(column)
      n == Min({maxBins, Cardinality(rows), maxBins - Len(missing)})
      breaks == Breaks(column, n)
      Group(b) == {i \in rows : BreakOf(column[i].value, breaks) = b}
      present == InOrder({b \in breaks : Group(b) # {}})
                 \o IF Group(Null) = {} THEN <<>> ELSE <<Null>>
      BinAt(k) ==
        [NewBin(<<"bin", Len(missing) + k>>, Counts(column, Group(present[k])))
           EXCEPT !.lower = IF k = 1 THEN Null ELSE present[k - 1],
                  !.upper = present[k],
                  !.closed = k # Len(present)]
  IN IF rows = {} \/ maxBins <= Len(missing) THEN missing
     ELSE missing \o [k \in 1 .. Len(present) |-> BinAt(k)]

(* The orders in which value_counts may return the levels of a column:     *)
(* the most frequent first, equally frequent ones in any order.            *)
LevelOrders(column) ==
  {order \in SetToSeqs(Values(column)) :
     \A i, j \in DOMAIN order : i < j =>
        Cardinality(RowsWith(column, order[i])) >= Cardinality(RowsWith(column, order[j]))}

(* A bin for each of the first levels, and one for the others.             *)
CategoricalBins(column, order, maxLevels, separate) ==
  LET missing == MissingBins(column, separate)
      kept == Min({maxLevels, Len(order)})
      rest == {order[k] : k \in kept + 1 .. Len(order)}
      RowsIn(levels) == {i \in DOMAIN column : column[i].value \in levels}
      LevelBin(k, levels) ==
        [NewBin(<<"bin", Len(missing) + k>>, Counts(column, RowsIn(levels))) EXCEPT !.cats = levels]
  IN missing \o [k \in 1 .. kept |-> LevelBin(k, {order[k]})]
             \o IF rest = {} THEN <<>>
                ELSE <<[LevelBin(kept + 1, rest) EXCEPT !.other = TRUE]>>

-----------------------------------------------------------------------------
(* Membership of a bin.                                                    *)

(* A numeric bin without bounds has no mask: asking for it is an error.    *)
HasMask(bin, kind) ==
  kind = "numeric" => bin.missing \/ bin.lower # Null \/ bin.upper # Null

WithinBounds(value, bin) ==
  /\ bin.lower # Null => value > bin.lower
  /\ bin.upper # Null => IF bin.closed THEN value <= bin.upper ELSE value < bin.upper

(* The levels that the bins of a variable name, the other bin aside.       *)
NamedLevels(bins) ==
  UNION {bins[k].cats : k \in {k \in DOMAIN bins :
           ~bins[k].missing /\ ~bins[k].other /\ bins[k].cats # Null}}

InBin(value, bin, bins, kind) ==
  CASE bin.missing -> value = Null
    [] ~bin.missing /\ kind = "numeric" -> value # Null /\ WithinBounds(value, bin)
    [] ~bin.missing /\ kind # "numeric" /\ bin.other -> value # Null /\ value \notin NamedLevels(bins)
    [] OTHER -> value # Null /\ bin.cats # Null /\ value \in bin.cats

-----------------------------------------------------------------------------
(* Overrides of an analyst: [variable, action, sources, label], where      *)
(* sources lists bin ids.                                                  *)

Ids(bins) == {bins[k].id : k \in DOMAIN bins}
PositionOf(id, bins) == CHOOSE k \in DOMAIN bins : bins[k].id = id
BinOf(id, bins) == bins[PositionOf(id, bins)]

(* Numeric bins are merged in their order and without a gap.               *)
Adjacent(sources, bins) ==
  \A k \in 2 .. Len(sources) :
     PositionOf(sources[k], bins) = PositionOf(sources[k - 1], bins) + 1

(* Mutant: a merge may leave a gap.                                        *)
IsKnownOverride(o, bins, kind) ==
  /\ ToSet(o.sources) \subseteq Ids(bins)
  /\ o.action = "merge_bins" => Len(o.sources) >= 2

(* An override is judged against the bins before any override.             *)
IsValidOverride(o, bins, kind) ==
  /\ ToSet(o.sources) \subseteq Ids(bins)
  /\ o.action = "merge_bins" =>
       /\ Len(o.sources) >= 2
       /\ kind = "numeric" => Adjacent(o.sources, bins)

(* The bin of an override takes the place of the first of its sources.     *)
Substitute(bins, sources, new) ==
  LET position == Min({PositionOf(id, bins) : id \in ToSet(sources)})
      others == {k \in DOMAIN bins : bins[k].id \notin ToSet(sources)}
  IN At([bins EXCEPT ![position] = new], others \cup {position})

SourceCounts(bins, sources) ==
  [good |-> FoldLeft(LAMBDA n, id : n + BinOf(id, bins).good, 0, sources),
   bad |-> FoldLeft(LAMBDA n, id : n + BinOf(id, bins).bad, 0, sources)]

MergedBin(bins, o) ==
  LET last == BinOf(o.sources[Len(o.sources)], bins) IN
  [NewBin(<<"merged", o.label>>, SourceCounts(bins, o.sources))
     EXCEPT !.lower = BinOf(o.sources[1], bins).lower,
            !.upper = last.upper, !.closed = last.closed]

(* The id of a group does not depend on what is grouped.                   *)
GroupedBin(bins, o) ==
  [NewBin(<<"grouped", 0>>, SourceCounts(bins, o.sources))
     EXCEPT !.cats = UNION {BinOf(id, bins).cats :
                              id \in {id \in ToSet(o.sources) : BinOf(id, bins).cats # Null}}]

(* The bins of a variable after one override of it.  No bin is special, so *)
(* reorder_special_bin changes nothing, and reject_variable no bin either. *)
Overridden(bins, o) ==
  CASE o.action = "merge_bins" -> Substitute(bins, o.sources, MergedBin(bins, o))
    [] o.action = "group_categories" -> Substitute(bins, o.sources, GroupedBin(bins, o))
    [] o.action = "reorder_missing_bin" ->
         LET missing == {k \in DOMAIN bins : bins[k].missing}
         IN At(bins, DOMAIN bins \ missing) \o At(bins, missing)
    [] OTHER -> bins

UsesBins(o) == o.action \in {"merge_bins", "group_categories"}

(* The overrides are applied in turn, each to what the ones before it have *)
(* left; one that names a bin they have used up is an error.               *)
Stages(bins, os) ==
  LET after[n \in 0 .. Len(os)] == IF n = 0 THEN bins ELSE Overridden(after[n - 1], os[n])
  IN after
AfterOverrides(bins, os) == Stages(bins, os)[Len(os)]
CanApply(bins, os) ==
  \A n \in DOMAIN os : UsesBins(os[n]) =>
     os[n].sources # <<>> /\ ToSet(os[n].sources) \subseteq Ids(Stages(bins, os)[n - 1])

-----------------------------------------------------------------------------
(* Weights of evidence.                                                    *)

(* Of the odds (good / goods) / (bad / bads).  In a bin without goods or   *)
(* without bads half a row is added to every count if there is smoothing,  *)
(* and the weight is 0 if there is none.                                   *)
Odds(counts, totals, numBins, smoothing) ==
  CASE counts.good # 0 /\ counts.bad # 0 -> <<counts.good * totals.bad, counts.bad * totals.good>>
    [] (counts.good = 0 \/ counts.bad = 0) /\ smoothing ->
         <<(2 * counts.good + 1) * (2 * totals.bad + numBins),
           (2 * counts.bad + 1) * (2 * totals.good + numBins)>>
    [] OTHER -> <<1, 1>>

SameOdds(p, q) == p[1] * q[2] = q[1] * p[2]

(* One row for each bin; the rows are counted again with its mask.         *)
WoeRows(column, bins, kind, smoothing) ==
  LET Matching(k) == {i \in DOMAIN column : InBin(column[i].value, bins[k], bins, kind)}
      RowOf(k) ==
        LET counts == Counts(column, Matching(k)) IN
        [id |-> bins[k].id, good |-> counts.good, bad |-> counts.bad,
         woe |-> Odds(counts, Counts(column, DOMAIN column), Len(bins), smoothing)]
  IN [k \in DOMAIN bins |-> RowOf(k)]

HasZeroCell(rows) == \E k \in DOMAIN rows : rows[k].good = 0 \/ rows[k].bad = 0
IsInformative(rows) == \E k \in DOMAIN rows : ~SameOdds(rows[k].woe, <<1, 1>>)

(* A table read back is a mapping by bin id: of two rows the later counts. *)
IsMapped(id, rows) == \E k \in DOMAIN rows : rows[k].id = id
WeightOf(id, rows) == rows[Max({k \in DOMAIN rows : rows[k].id = id})].woe

-----------------------------------------------------------------------------
(* Selection of variables, ranked by information value.                    *)

ClusterOf(v, clusters) ==
  IF \E c \in DOMAIN clusters : v \in clusters[c]
  THEN CHOOSE c \in DOMAIN clusters : v \in clusters[c] ELSE 0

(* What is chosen of a cluster before the candidates are gone through: a   *)
(* sequence of at most one variable.  p has the parameters of the step.    *)
Representative(cluster, rank, nulls, p) ==
  LET eligible == {n \in DOMAIN rank : rank[n] \in cluster \ p.excludes}
      override == {n \in DOMAIN p.representatives :
                     \E m \in eligible : rank[m] = p.representatives[n]}
      fewest == {n \in eligible : \A m \in eligible : nulls[rank[n]] <= nulls[rank[m]]}
      ruled == CASE p.rule = "one_per_cluster_highest_iv" -> eligible
                 [] p.rule = "one_per_cluster_lowest_missing" -> fewest
                 [] OTHER -> {}
  IN CASE p.rule # "none" /\ override # {} -> <<p.representatives[Min(override)]>>
       [] p.rule # "none" /\ override = {} /\ ruled # {} -> <<rank[Min(ruled)]>>
       [] OTHER -> <<>>

(* One candidate, after the better ones.                                   *)
Consider(done, v, strong, clusters, p) ==
  LET cluster == ClusterOf(v, clusters)
      full == Len(done.selected) >= p.limit
      Reject == [done EXCEPT !.rejected = Append(@, v)]
      Choose == [done EXCEPT !.selected = Append(@, v)]
  IN IF p.rule = "none" /\ full THEN Reject
     ELSE IF v \in p.excludes THEN done
     ELSE IF v \in p.includes /\ v \notin ToSet(done.selected) THEN Choose
     ELSE IF p.rule # "none" /\ cluster \in done.seen THEN done
     ELSE IF v \in ToSet(done.selected) \/ v \in ToSet(done.rejected) THEN done
     ELSE IF v \notin strong \/ full THEN Reject
     ELSE [Choose EXCEPT !.seen = IF cluster = 0 THEN @ ELSE @ \cup {cluster}]

(* Mutant: nothing is taken back.                                          *)
NotTruncated(done, p) == done

(* With a rule for clusters the limit is enforced at the end.              *)
Truncated(done, p) ==
  IF p.rule = "none" \/ Len(done.selected) <= p.limit THEN done
  ELSE [done EXCEPT !.selected = SubSeq(@, 1, p.limit),
                    !.rejected = @ \o SubSeq(done.selected, p.limit + 1, Len(done.selected))]

(* Variables enter a selection in two passes: what each cluster is         *)
(* represented by, then the candidates.  The result after each of them.    *)
Represent(done, cluster, c, rank, nulls, p) ==
  LET chosen == Representative(cluster, rank, nulls, p) IN
  [done EXCEPT !.selected = @ \o chosen, !.seen = IF chosen = <<>> THEN @ ELSE @ \cup {c}]

Represented(rank, clusters, nulls, p) ==
  LET start == [selected |-> <<>>, seen |-> {},
                rejected |-> At(rank, {n \in DOMAIN rank : rank[n] \in p.excludes})]
      after[c \in 0 .. Len(clusters)] ==
        IF c = 0 THEN start ELSE Represent(after[c - 1], clusters[c], c, rank, nulls, p)
  IN after

Considered(rank, strong, clusters, nulls, p) ==
  LET after[n \in 0 .. Len(rank)] ==
        IF n = 0 THEN Represented(rank, clusters, nulls, p)[Len(clusters)]
        ELSE Consider(after[n - 1], rank[n], strong, clusters, p)
  IN after

Selection(rank, strong, clusters, nulls, p) ==
  Truncated(Considered(rank, strong, clusters, nulls, p)[Len(rank)], p)

-----------------------------------------------------------------------------
(* The scorers.  Null stands for: no weight (a null in the frame, an       *)
(* exception of the Python function, NULL of the SQL expression).          *)

(* apply_woe_columns: the first bin whose mask holds.                      *)
Applied(value, bins, kind, rows) ==
  LET hits == {k \in DOMAIN bins : InBin(value, bins[k], bins, kind)} IN
  IF hits = {} THEN Null ELSE WeightOf(bins[Min(hits)].id, rows)

(* The bins with their weights that both exports are rendered from; a      *)
(* categorical bin must have a list of levels, even an empty one.          *)
Compiles(bins, kind, rows) ==
  \A k \in DOMAIN bins : IsMapped(bins[k].id, rows) /\ (kind # "numeric" => bins[k].cats # Null)

Compiled(bins, rows) ==
  [k \in DOMAIN bins |-> [bin |-> bins[k], woe |-> WeightOf(bins[k].id, rows)]]

(* A condition of the generated code, and the entries that get one.        *)
Holds(value, bin, kind) == IF kind = "numeric" THEN WithinBounds(value, bin) ELSE value \in bin.cats

(* Mutant: a missing bin is one like the others.                           *)
HasAnyCondition(e, kind) == ~e.bin.other /\ (kind # "numeric" => e.bin.cats # {})

HasCondition(e, kind) == ~e.bin.missing /\ ~e.bin.other /\ (kind # "numeric" => e.bin.cats # {})

(* The weight of the first of some entries.                                *)
First(ir, entries) == IF entries = {} THEN Null ELSE ir[Min(entries)].woe

(* The conditions in front of the other bin are an if-chain, and that bin  *)
(* is its else.                                                            *)
OtherBins(ir) == {k \in DOMAIN ir : ir[k].bin.other /\ ~ir[k].bin.missing}
Branches(ir, kind) ==
  {k \in DOMAIN ir : HasCondition(ir[k], kind) /\ \A other \in OtherBins(ir) : k < other}

(* Without a condition there is an else without an if before it, or a      *)
(* block without a statement.                                              *)
IsPython(ir, kind) == ir = <<>> \/ Branches(ir, kind) # {}

ScoredByPython(value, ir, kind) ==
  LET hits == {k \in Branches(ir, kind) : Holds(value, ir[k].bin, kind)} IN
  CASE value = Null -> First(ir, {k \in DOMAIN ir : ir[k].bin.missing})
    [] value # Null /\ hits # {} -> First(ir, hits)
    [] OTHER -> First(ir, OtherBins(ir))

(* CASE WHEN ... END with a WHEN for each condition and the other bin as   *)
(* its ELSE.                                                               *)
ScoredBySql(value, ir, kind) ==
  LET hits == {k \in DOMAIN ir : HasCondition(ir[k], kind) /\ Holds(value, ir[k].bin, kind)} IN
  CASE value = Null -> First(ir, {k \in DOMAIN ir : ir[k].bin.missing})
    [] value # Null /\ hits # {} -> First(ir, hits)
    [] OTHER -> First(ir, {k \in DOMAIN ir : ir[k].bin.other})

=============================================================================
