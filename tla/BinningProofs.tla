----------------------------- MODULE BinningProofs -----------------------------
(***************************************************************************)
(* What is proved of the operators of Binning, for every column, list of   *)
(* overrides, ranking and clustering:                                      *)
(*                                                                         *)
(*  - bins that are Ordered are scored alike by the three scorers, and     *)
(*    whatever makes bins keeps them so: a binning, and each kind of       *)
(*    override, one after the other;                                       *)
(*  - a selection is sound after every candidate of both its passes        *)
(*    (SoundSoFar);                                                        *)
(*  - the bins of a binning are Fresh, and overrides leave each bin in the *)
(*    place of some of them (Placed), no two in the same; so no value is   *)
(*    in two bins that have masks (BinsStayApart).                         *)
(*                                                                         *)
(* What is computed one element after the other is a function on an        *)
(* interval; what is proved of it is proved with a set of naturals that    *)
(* holds 0 and the successor of each of its elements (NaturalsInSet).      *)
(***************************************************************************)
EXTENDS Binning, FiniteSetTheorems, SequenceTheorems, WellFoundedInduction, TLAPS

-----------------------------------------------------------------------------
(* Naturals.  A set replaces the predicate of an induction.                *)

LEMMA LeastNatural ==
  ASSUME NEW T \in SUBSET Nat, T # {}
  PROVE \E n \in T : \A m \in T : n <= m
<1>1. PICK n \in T : \A m \in T : ~ (<<m, n>> \in OpToRel(<, Nat))
  BY NatLessThanWellFounded, WFMin
<1>2. \A m \in T : ~ (m < n)
  BY <1>1 DEF OpToRel
<1> QED
  BY <1>2

LEMMA NaturalsInSet ==
  ASSUME NEW T, 0 \in T, \A n \in Nat : n \in T => n + 1 \in T
  PROVE Nat \subseteq T
<1> SUFFICES ASSUME Nat \ T # {} PROVE FALSE
  OBVIOUS
<1>1. PICK n \in Nat \ T : \A m \in Nat \ T : n <= m
  BY LeastNatural
<1>2. n # 0 /\ n - 1 \in Nat
  BY <1>1
<1>3. n - 1 \in T
  BY <1>1, <1>2
<1> QED
  BY <1>1, <1>2, <1>3

(* The least of some naturals.                                             *)
LEMMA MinOfNaturals ==
  ASSUME NEW T \in SUBSET Nat, T # {}
  PROVE Min(T) \in T /\ \A m \in T : Min(T) <= m
BY LeastNatural DEF Min

(* The k-th element in order has k - 1 elements below it.                  *)
LEMMA InOrderRanks ==
  ASSUME NEW S, S \subseteq Int, IsFiniteSet(S)
  PROVE  /\ DOMAIN InOrder(S) = 1 .. Cardinality(S) /\ Cardinality(S) \in Nat
         /\ \A k \in DOMAIN InOrder(S) :
              InOrder(S)[k] \in S /\ Cardinality({m \in S : m < InOrder(S)[k]}) = k - 1
<1> DEFINE Below(n) == {m \in S : m < n}
           size == Cardinality(S)
           rank == [n \in S |-> Cardinality(Below(n))]
<1>1. size \in Nat
  BY FS_CardinalityType
<1>2. ASSUME NEW n \in S
      PROVE  IsFiniteSet(Below(n)) /\ rank[n] \in 0 .. size - 1
  <2>1. Below(n) \in SUBSET S /\ Below(n) # S
    OBVIOUS
  <2>2. IsFiniteSet(Below(n)) /\ Cardinality(Below(n)) <= size /\ Cardinality(Below(n)) # size
    <3> HIDE DEF Below
    <3> QED BY <2>1, FS_Subset
  <2>3. Cardinality(Below(n)) \in Nat
    BY <2>2, FS_CardinalityType
  <2> QED
    BY <1>1, <2>2, <2>3
<1>3. ASSUME NEW m \in S, NEW n \in S, m < n
      PROVE rank[m] < rank[n]
  <2>1. Below(m) \in SUBSET Below(n) /\ m \in Below(n) /\ m \notin Below(m)
    <3>1. m \in Int /\ n \in Int /\ \A i \in S : i \in Int
      OBVIOUS
    <3>2. \A i \in Below(m) : i \in S /\ i < n
      BY <1>3, <3>1
    <3>3. \A i \in Below(m) : i \in Below(n)
      BY <3>2
    <3> QED
      <4>1. Below(m) \in SUBSET Below(n)
        BY <3>3
      <4>2. m \in Below(n)
        BY <1>3
      <4>3. ~ (m < m)
        BY <3>1
      <4> QED
        BY <4>1, <4>2, <4>3
  <2>2. Cardinality(Below(m)) <= Cardinality(Below(n))
          /\ Cardinality(Below(m)) # Cardinality(Below(n))
    <3>1. IsFiniteSet(Below(n))
      BY <1>2
    <3> HIDE DEF Below
    <3> QED BY <2>1, <3>1, FS_Subset
  <2>3. rank[m] \in Nat /\ rank[n] \in Nat
    BY <1>1, <1>2
  <2> QED
    BY <2>2, <2>3
<1>4. rank \in Injection(S, 0 .. size - 1)
  <2>1. \A m, n \in S : rank[m] = rank[n] => m = n
    <3>1. \A m, n \in S : m < n => rank[m] < rank[n]
      BY <1>3
    <3>2. \A n \in S : rank[n] \in Int
      BY <1>1, <1>2
    <3> HIDE DEF rank
    <3> QED
      BY <3>1, <3>2
  <2>2. rank \in [S -> 0 .. size - 1]
    BY <1>2
  <2> QED
    BY <2>1, <2>2 DEF Injection, IsInjective
<1>5. rank \in Surjection(S, 0 .. size - 1)
  <2>1. IsFiniteSet(0 .. size - 1) /\ Cardinality(0 .. size - 1) = size
    BY <1>1, FS_Interval
  <2> HIDE DEF rank, size
  <2> QED
    BY <1>4, <2>1, FS_Injection DEF size
<1>6. \A k \in 1 .. size : \E n \in S : Cardinality(Below(n)) = k - 1
  <2> SUFFICES ASSUME NEW k \in 1 .. size PROVE \E n \in S : rank[n] = k - 1
    OBVIOUS
  <2>1. k - 1 \in 0 .. size - 1
    BY <1>1
  <2> HIDE DEF rank
  <2> QED
    BY <1>5, <2>1 DEF Surjection
<1> HIDE DEF size
<1>7. InOrder(S) = [k \in 1 .. size |-> CHOOSE n \in S : Cardinality(Below(n)) = k - 1]
  BY DEF InOrder, size
<1>8. \A k \in 1 .. size :
        InOrder(S)[k] \in S /\ Cardinality(Below(InOrder(S)[k])) = k - 1
  <2> HIDE DEF Below
  <2> QED BY <1>6, <1>7
<1> QED
  BY <1>1, <1>7, <1>8 DEF size

LEMMA InOrderIncreases ==
  ASSUME NEW S, S \subseteq Int, IsFiniteSet(S)
  PROVE \A j, k \in DOMAIN InOrder(S) : j < k => InOrder(S)[j] < InOrder(S)[k]
<1> SUFFICES ASSUME NEW j \in DOMAIN InOrder(S), NEW k \in DOMAIN InOrder(S), j < k,
                    ~ (InOrder(S)[j] < InOrder(S)[k])
             PROVE FALSE
  OBVIOUS
<1> DEFINE m == InOrder(S)[j]
           n == InOrder(S)[k]
           BelowM == {i \in S : i < m}
           BelowN == {i \in S : i < n}
<1>1. DOMAIN InOrder(S) = 1 .. Cardinality(S) /\ Cardinality(S) \in Nat
  BY InOrderRanks
<1>2. j \in Nat /\ k \in Nat
  BY <1>1
<1>3. m \in S /\ n \in S /\ Cardinality(BelowM) = j - 1 /\ Cardinality(BelowN) = k - 1
  BY InOrderRanks
<1>4. ~ (m < n)
  OBVIOUS
<1> HIDE DEF m, n
<1>5. \A i \in S : i < n => i < m
  BY <1>3, <1>4
<1>6. BelowN \in SUBSET BelowM /\ BelowM \in SUBSET S
  BY <1>5
<1> HIDE DEF BelowM, BelowN
<1>7. Cardinality(BelowN) <= Cardinality(BelowM)
  BY <1>6, FS_Subset
<1> QED
  BY <1>2, <1>3, <1>7

(* The order reaches every element.                                        *)
LEMMA InOrderReaches ==
  ASSUME NEW S, S \subseteq Int, IsFiniteSet(S)
  PROVE \A n \in S : \E k \in DOMAIN InOrder(S) : InOrder(S)[k] = n
<1> DEFINE f == InOrder(S)
           size == Cardinality(S)
<1>1. f \in [1 .. size -> S] /\ size \in Nat
  <2> DEFINE ranked(k) == CHOOSE n \in S : Cardinality({m \in S : m < n}) = k - 1
  <2>1. f = [k \in 1 .. size |-> ranked(k)]
    BY DEF InOrder
  <2> HIDE DEF ranked, f
  <2>2. f = [k \in 1 .. size |-> f[k]]
    BY <2>1
  <2>3. size \in Nat /\ \A k \in 1 .. size : f[k] \in S
    BY InOrderRanks DEF f
  <2> QED
    BY <2>2, <2>3
<1>2. \A j, k \in 1 .. size : f[j] = f[k] => j = k
  <2>1. \A j, k \in 1 .. size : j < k => f[j] < f[k]
    BY InOrderIncreases, InOrderRanks
  <2> HIDE DEF f, size
  <2>2. \A k \in 1 .. size : f[k] \in S
    BY <1>1
  <2>3. ASSUME NEW k \in 1 .. size PROVE f[k] \in Int /\ k \in Int
    <3>1. f[k] \in S
      BY <2>2
    <3>2. f[k] \in Int
      BY <3>1
    <3> QED
      BY <3>2
  <2> QED
    BY <2>1, <2>3
<1>3. f \in Surjection(1 .. size, S)
  <2>1. f \in Injection(1 .. size, S)
    BY <1>1, <1>2 DEF Injection, IsInjective
  <2>2. Cardinality(1 .. size) = size
    BY <1>1, FS_Interval
  <2> HIDE DEF f
  <2> QED
    BY <2>1, <2>2, FS_Injection
<1> QED
  BY <1>1, <1>3 DEF Surjection

LEMMA AtElements ==
  ASSUME NEW seq, NEW S, S \subseteq Int, IsFiniteSet(S)
  PROVE  /\ DOMAIN At(seq, S) = 1 .. Cardinality(S) /\ Cardinality(S) \in Nat
         /\ \A k \in 1 .. Cardinality(S) : InOrder(S)[k] \in S /\ At(seq, S)[k] = seq[InOrder(S)[k]]
<1> DEFINE order == InOrder(S)
<1>1. /\ DOMAIN order = 1 .. Cardinality(S) /\ Cardinality(S) \in Nat
      /\ \A k \in DOMAIN order : order[k] \in S
  BY InOrderRanks
<1>2. At(seq, S) = [k \in 1 .. Cardinality(S) |-> seq[order[k]]]
  BY <1>1 DEF At
<1> QED
  BY <1>1, <1>2

LEMMA AtPositions ==
  ASSUME NEW seq, NEW S, S \subseteq Int, IsFiniteSet(S)
  PROVE  /\ At(seq, S) \in Seq({seq[k] : k \in S})
         /\ Len(At(seq, S)) = Cardinality(S)
<1> DEFINE size == Cardinality(S)
           T == {seq[k] : k \in S}
           order == InOrder(S)
<1>1. /\ size \in Nat /\ DOMAIN order = 1 .. size
      /\ \A k \in 1 .. size : order[k] \in S
  BY InOrderRanks
<1> HIDE DEF order, size
<1>2. At(seq, S) = [k \in 1 .. size |-> seq[order[k]]]
  BY <1>1 DEF At, order
<1>3. \A k \in 1 .. size : seq[order[k]] \in T
  BY <1>1
<1> HIDE DEF T
<1>4. At(seq, S) \in [1 .. size -> T]
  BY <1>2, <1>3
<1>5. At(seq, S) \in Seq(T) /\ Len(At(seq, S)) = size
  BY <1>1, <1>4
<1> QED
  BY <1>5 DEF T, size

-----------------------------------------------------------------------------
(* The scorers agree on bins that are in order: only bins without levels   *)
(* follow the other bin, and a missing bin has no levels.                  *)

Ordered(bins, kind) ==
  /\ bins \in Seq(ToSet(bins))
  /\ \A k \in DOMAIN bins :
       /\ bins[k].missing \in BOOLEAN /\ bins[k].other \in BOOLEAN
       /\ bins[k].missing => bins[k].cats = Null
       /\ bins[k].other =>
            /\ kind # "numeric"
            /\ \A j \in DOMAIN bins : k < j => bins[j].cats \in {Null, {}}

LEMMA OrderedDomain ==
  ASSUME NEW bins, NEW kind, Ordered(bins, kind)
  PROVE /\ Len(bins) \in Nat /\ DOMAIN bins = 1 .. Len(bins)
        /\ DOMAIN bins \subseteq Nat /\ IsFiniteSet(DOMAIN bins)
<1>1. Len(bins) \in Nat /\ DOMAIN bins = 1 .. Len(bins)
  BY LenProperties DEF Ordered
<1> QED
  BY <1>1, FS_Interval

LEMMA FirstWeight ==
  ASSUME NEW bins, NEW kind, NEW rows, Ordered(bins, kind), NEW hits \in SUBSET DOMAIN bins
  PROVE First(Compiled(bins, rows), hits)
          = IF hits = {} THEN Null ELSE WeightOf(bins[Min(hits)].id, rows)
<1>1. hits # {} => Min(hits) \in DOMAIN bins
  BY OrderedDomain, MinOfNaturals
<1> QED
  BY <1>1 DEF First, Compiled

LEMMA ScorersAgreeOnBins ==
  ASSUME NEW bins, NEW kind, NEW rows, NEW value, Ordered(bins, kind), Compiles(bins, kind, rows)
  PROVE /\ ScoredByPython(value, Compiled(bins, rows), kind) = Applied(value, bins, kind, rows)
        /\ ScoredBySql(value, Compiled(bins, rows), kind) = Applied(value, bins, kind, rows)
<1> DEFINE ir == Compiled(bins, rows)
           hits == {k \in DOMAIN bins : InBin(value, bins[k], bins, kind)}
           missing == {k \in DOMAIN ir : ir[k].bin.missing}
           others == {k \in DOMAIN ir : ir[k].bin.other}
           taken == {k \in Branches(ir, kind) : Holds(value, ir[k].bin, kind)}
           chosen == {k \in DOMAIN ir : HasCondition(ir[k], kind) /\ Holds(value, ir[k].bin, kind)}
<1>1. DOMAIN ir = DOMAIN bins /\ \A k \in DOMAIN bins : ir[k].bin = bins[k]
  BY DEF Compiled
<1>2. \A E \in SUBSET DOMAIN bins :
        First(ir, E) = IF E = {} THEN Null ELSE WeightOf(bins[Min(E)].id, rows)
  BY FirstWeight
<1>3. Applied(value, bins, kind, rows) = First(ir, hits)
  BY <1>2 DEF Applied
<1>4. /\ taken \subseteq DOMAIN bins /\ chosen \subseteq DOMAIN bins /\ others \subseteq DOMAIN bins
      /\ missing \subseteq DOMAIN bins /\ OtherBins(ir) \subseteq DOMAIN bins
  BY <1>1 DEF Branches, OtherBins
<1>5. \A k \in DOMAIN bins :
        /\ bins[k].missing \in BOOLEAN /\ bins[k].other \in BOOLEAN
        /\ bins[k].missing => bins[k].cats = Null
        /\ bins[k].other =>
             /\ kind # "numeric"
             /\ \A j \in DOMAIN bins : k < j => bins[j].cats \in {Null, {}}
  BY DEF Ordered
<1>6. \A k \in DOMAIN bins : kind # "numeric" => bins[k].cats # Null
  BY DEF Compiles
<1> HIDE DEF ir
<1>7. CASE value = Null
  <2>1. hits = missing
    BY <1>1, <1>5, <1>7 DEF InBin
  <2> HIDE DEF hits, missing
  <2>2. ScoredByPython(value, ir, kind) = First(ir, missing)
        /\ ScoredBySql(value, ir, kind) = First(ir, missing)
    BY <1>7 DEF ScoredByPython, ScoredBySql, missing
  <2> QED
    BY <1>3, <2>1, <2>2 DEF ir
<1>8. CASE value # Null /\ kind = "numeric"
  <2>1. others = {} /\ OtherBins(ir) = {}
    BY <1>1, <1>5, <1>8 DEF OtherBins
  <2>2. hits = taken /\ hits = chosen
    BY <1>1, <1>5, <1>8, <2>1 DEF InBin, Branches, HasCondition, Holds
  <2> HIDE DEF hits, others
  <2>3. ScoredByPython(value, ir, kind) = First(ir, taken)
    BY <1>8, <2>1 DEF ScoredByPython
  <2>4. ScoredBySql(value, ir, kind) = First(ir, chosen)
    BY <1>8, <2>1 DEF ScoredBySql, others
  <2> HIDE DEF taken, chosen
  <2> QED
    BY <1>3, <2>2, <2>3, <2>4 DEF ir
<1>9. CASE value # Null /\ kind # "numeric"
  <2>1. \A k \in DOMAIN bins : ~bins[k].missing
    BY <1>5, <1>6, <1>9
  <2>2. OtherBins(ir) = others
    BY <1>1, <2>1 DEF OtherBins
  <2> DEFINE named == {k \in DOMAIN bins : ~bins[k].other /\ value \in bins[k].cats}
  <2>3. value \in NamedLevels(bins) <=> named # {}
    BY <1>6, <1>9, <2>1 DEF NamedLevels
  <2>4. chosen = named
    BY <1>1, <1>5, <1>9, <2>1 DEF HasCondition, Holds
  <2>5. taken = named
    <3>1. \A k \in named : \A j \in others : k < j
      <4> SUFFICES ASSUME NEW k \in named, NEW j \in others, ~ (k < j) PROVE FALSE
        OBVIOUS
      <4>1. k \in DOMAIN bins /\ j \in DOMAIN bins /\ k # j /\ bins[j].other
        BY <1>1, <1>4
      <4>2. k \in Nat /\ j \in Nat
        BY <4>1, OrderedDomain
      <4>3. bins[k].cats \in {Null, {}}
        BY <1>5, <4>1, <4>2
      <4> QED
        BY <1>6, <1>9, <4>1, <4>3
    <3>2. taken = {k \in chosen : \A j \in OtherBins(ir) : k < j}
      BY DEF Branches
    <3> HIDE DEF taken, chosen, others, named
    <3> QED
      BY <2>2, <2>4, <3>1, <3>2
  <2>6. CASE named # {}
    <3>1. hits = named
      BY <1>5, <1>6, <1>9, <2>1, <2>3, <2>6 DEF InBin
    <3> HIDE DEF hits, others, named
    <3> QED
      BY <1>3, <1>9, <2>4, <2>5, <2>6, <3>1 DEF ScoredByPython, ScoredBySql, ir
  <2>7. CASE named = {}
    <3>1. hits = others
      BY <1>1, <1>5, <1>6, <1>9, <2>1, <2>3, <2>7 DEF InBin
    <3>2. ScoredByPython(value, ir, kind) = First(ir, OtherBins(ir))
      BY <1>9, <2>5, <2>7 DEF ScoredByPython
    <3>3. ScoredBySql(value, ir, kind) = First(ir, others)
      BY <1>9, <2>4, <2>7 DEF ScoredBySql
    <3> HIDE DEF hits, others, named
    <3> QED
      BY <1>3, <2>2, <3>1, <3>2, <3>3 DEF ir
  <2> QED
    BY <2>6, <2>7
<1> QED
  BY <1>7, <1>8, <1>9

(* Bins stay in order: a part of them, two parts, and after an override.   *)
InOrderOn(S, bins, kind) ==
  \A k \in S :
    /\ bins[k].missing \in BOOLEAN /\ bins[k].other \in BOOLEAN
    /\ bins[k].missing => bins[k].cats = Null
    /\ bins[k].other =>
         /\ kind # "numeric"
         /\ \A j \in S : k < j => bins[j].cats \in {Null, {}}

LEMMA OrderedPart ==
  ASSUME NEW bins, NEW kind, NEW S \in SUBSET DOMAIN bins, S \subseteq Int, IsFiniteSet(S),
         InOrderOn(S, bins, kind)
  PROVE /\ Ordered(At(bins, S), kind)
        /\ \A k \in DOMAIN At(bins, S) : \E n \in S : At(bins, S)[k] = bins[n]
<1> DEFINE part == At(bins, S)
           order == InOrder(S)
<1>1. S \subseteq Int /\ IsFiniteSet(S)
  OBVIOUS
<1>2. /\ part \in Seq({bins[k] : k \in S}) /\ DOMAIN part = DOMAIN order
      /\ \A k \in DOMAIN part : order[k] \in S /\ part[k] = bins[order[k]]
  <2>1. DOMAIN order = 1 .. Cardinality(S)
    BY <1>1, InOrderRanks
  <2>2. part \in Seq({bins[k] : k \in S})
    BY <1>1, AtPositions
  <2>3. DOMAIN part = 1 .. Cardinality(S)
    BY <1>1, AtElements
  <2>4. \A k \in 1 .. Cardinality(S) : order[k] \in S /\ part[k] = bins[order[k]]
    BY <1>1, AtElements
  <2> QED
    BY <2>1, <2>2, <2>3, <2>4
<1>3. \A j, k \in DOMAIN part : j < k => order[j] < order[k]
  BY <1>1, <1>2, InOrderIncreases
<1> HIDE DEF part, order
<1>4. part \in Seq(ToSet(part))
  <2>1. part \in [1 .. Len(part) -> {bins[k] : k \in S}] /\ Len(part) \in Nat
    BY <1>2, LenProperties
  <2>2. part \in [1 .. Len(part) -> ToSet(part)]
    BY <2>1 DEF ToSet
  <2> QED
    BY <2>1, <2>2
<1>5. \A k \in DOMAIN part :
        /\ part[k].missing \in BOOLEAN /\ part[k].other \in BOOLEAN
        /\ part[k].missing => part[k].cats = Null
        /\ part[k].other => kind # "numeric"
  BY <1>2 DEF InOrderOn
<1>6. ASSUME NEW k \in DOMAIN part, NEW j \in DOMAIN part, part[k].other, k < j
      PROVE part[j].cats \in {Null, {}}
  <2>1. order[k] \in S /\ order[j] \in S /\ order[k] < order[j]
    BY <1>2, <1>3, <1>6
  <2> QED
    BY <1>2, <1>6, <2>1 DEF InOrderOn
<1> QED
  BY <1>2, <1>4, <1>5, <1>6 DEF Ordered, part

LEMMA OrderedAt ==
  ASSUME NEW bins, NEW kind, Ordered(bins, kind), NEW S \in SUBSET DOMAIN bins
  PROVE /\ Ordered(At(bins, S), kind)
        /\ \A k \in DOMAIN At(bins, S) : \E n \in S : At(bins, S)[k] = bins[n]
<1>1. S \subseteq Int /\ IsFiniteSet(S)
  BY OrderedDomain, FS_Subset
<1>2. InOrderOn(S, bins, kind)
  BY DEF InOrderOn, Ordered
<1> QED
  BY <1>1, <1>2, OrderedPart

LEMMA OrderedConcat ==
  ASSUME NEW a, NEW b, NEW kind, Ordered(a, kind), Ordered(b, kind),
         \/ \A k \in DOMAIN a : ~a[k].other
         \/ \A k \in DOMAIN b : b[k].cats \in {Null, {}}
  PROVE Ordered(a \o b, kind)
<1> DEFINE T == ToSet(a) \cup ToSet(b)
           c == a \o b
<1>1. a \in Seq(T) /\ b \in Seq(T)
  BY SeqMonotonic DEF Ordered
<1>2. /\ c \in Seq(T) /\ Len(c) = Len(a) + Len(b)
      /\ \A k \in 1 .. Len(a) + Len(b) : c[k] = IF k <= Len(a) THEN a[k] ELSE b[k - Len(a)]
  <2> HIDE DEF T
  <2> QED BY <1>1, ConcatProperties
<1>3. /\ Len(a) \in Nat /\ DOMAIN a = 1 .. Len(a) /\ Len(b) \in Nat /\ DOMAIN b = 1 .. Len(b)
      /\ DOMAIN c = 1 .. Len(a) + Len(b)
  <2>1. DOMAIN c = 1 .. Len(c)
    <3> HIDE DEF T, c
    <3> QED BY <1>2, LenProperties
  <2> QED
    BY <1>2, <2>1, OrderedDomain
<1> HIDE DEF T, c
<1>4. c \in Seq(ToSet(c))
  <2>1. c \in [1 .. Len(c) -> T] /\ Len(c) \in Nat
    BY <1>2, LenProperties
  <2>2. c \in [1 .. Len(c) -> ToSet(c)]
    BY <2>1 DEF ToSet
  <2> QED
    BY <2>1, <2>2
<1>5. ASSUME NEW k \in DOMAIN c
      PROVE \/ k \in DOMAIN a /\ k <= Len(a) /\ c[k] = a[k]
            \/ k - Len(a) \in DOMAIN b /\ k > Len(a) /\ c[k] = b[k - Len(a)]
  BY <1>2, <1>3
<1>6. \A k \in DOMAIN c :
        /\ c[k].missing \in BOOLEAN /\ c[k].other \in BOOLEAN
        /\ c[k].missing => c[k].cats = Null
        /\ c[k].other => kind # "numeric"
  BY <1>5 DEF Ordered
<1>7. ASSUME NEW k \in DOMAIN c, NEW j \in DOMAIN c, c[k].other, k < j
      PROVE c[j].cats \in {Null, {}}
  <2>1. k \in Int /\ j \in Int /\ Len(a) \in Int
    BY <1>3
  <2>2. CASE j \in DOMAIN a /\ j <= Len(a) /\ c[j] = a[j]
    <3>1. k \in DOMAIN a /\ c[k] = a[k]
      BY <1>5, <1>7, <2>1, <2>2
    <3> QED
      BY <1>7, <2>2, <3>1 DEF Ordered
  <2>3. CASE j - Len(a) \in DOMAIN b /\ j > Len(a) /\ c[j] = b[j - Len(a)]
    <3>1. CASE k \in DOMAIN a /\ c[k] = a[k]
      BY <1>7, <2>3, <3>1
    <3>2. CASE k - Len(a) \in DOMAIN b /\ c[k] = b[k - Len(a)]
      <4>1. k - Len(a) < j - Len(a)
        BY <1>7, <2>1
      <4> QED
        BY <1>7, <2>3, <3>2, <4>1 DEF Ordered
    <3> QED
      BY <1>5, <3>1, <3>2
  <2> QED
    BY <1>5, <2>2, <2>3
<1> QED
  BY <1>4, <1>6, <1>7 DEF Ordered, c

(* The bin of an override, in the place of the first of its sources: its   *)
(* levels are those of its sources, or none.                               *)
LEMMA OrderedSubstitute ==
  ASSUME NEW bins, NEW kind, Ordered(bins, kind), NEW sources, NEW new,
         ToSet(sources) # {}, ToSet(sources) \subseteq Ids(bins),
         new.missing = FALSE, new.other = FALSE,
         \/ new.cats = Null
         \/ new.cats = UNION {BinOf(id, bins).cats :
                              id \in {id \in ToSet(sources) : BinOf(id, bins).cats # Null}}
  PROVE Ordered(Substitute(bins, sources, new), kind)
<1> DEFINE places == {PositionOf(id, bins) : id \in ToSet(sources)}
           position == Min(places)
           others == {k \in DOMAIN bins : bins[k].id \notin ToSet(sources)}
           changed == [bins EXCEPT ![position] = new]
           kept == others \cup {position}
<1>1. \A id \in ToSet(sources) : PositionOf(id, bins) \in DOMAIN bins
  BY DEF Ids, PositionOf
<1>2. position \in DOMAIN bins /\ \A id \in ToSet(sources) : position <= PositionOf(id, bins)
  <2>1. places \in SUBSET DOMAIN bins /\ places # {}
    BY <1>1
  <2>2. DOMAIN bins \subseteq Nat
    BY OrderedDomain
  <2>3. \A id \in ToSet(sources) : PositionOf(id, bins) \in places
    OBVIOUS
  <2> HIDE DEF places
  <2> QED
    BY <2>1, <2>2, <2>3, MinOfNaturals
<1> HIDE DEF position
<1>3. kept \in SUBSET DOMAIN changed /\ DOMAIN changed = DOMAIN bins
  BY <1>2
<1>4. /\ changed[position] = new
      /\ \A k \in others : k \in DOMAIN bins /\ (k # position => changed[k] = bins[k])
  BY <1>2
<1>5. Substitute(bins, sources, new) = At(changed, kept)
  BY DEF Substitute, position
<1> HIDE DEF changed, kept
<1>6. kept \subseteq Int /\ IsFiniteSet(kept)
  BY <1>3, OrderedDomain, FS_Subset
<1>7. ASSUME NEW k \in kept
      PROVE \/ k = position /\ changed[k] = new
            \/ /\ k # position /\ k \in DOMAIN bins /\ changed[k] = bins[k]
               /\ bins[k].id \notin ToSet(sources)
  BY <1>4 DEF kept
<1>8. ASSUME NEW k \in DOMAIN bins, bins[k].other, k < position
      PROVE new.cats \in {Null, {}}
  <2>1. ASSUME NEW id \in ToSet(sources)
        PROVE BinOf(id, bins).cats \in {Null, {}}
    <3>1. PositionOf(id, bins) \in DOMAIN bins /\ position <= PositionOf(id, bins)
      BY <1>1, <1>2
    <3>2. k \in Nat /\ position \in Nat /\ PositionOf(id, bins) \in Nat
      BY <1>2, <3>1, OrderedDomain
    <3>3. k < PositionOf(id, bins)
      BY <1>8, <3>1, <3>2
    <3> QED
      BY <1>8, <3>1, <3>3 DEF Ordered, BinOf
  <2>2. \A id \in ToSet(sources) : BinOf(id, bins).cats = Null \/ BinOf(id, bins).cats = {}
    BY <2>1
  <2> QED
    BY <2>2
<1>9. ASSUME NEW k \in kept
      PROVE /\ changed[k].missing \in BOOLEAN /\ changed[k].other \in BOOLEAN
            /\ changed[k].missing => changed[k].cats = Null
            /\ changed[k].other => kind # "numeric"
  BY <1>7 DEF Ordered
<1>10. ASSUME NEW k \in kept, NEW j \in kept, changed[k].other, k < j
       PROVE changed[j].cats \in {Null, {}}
  <2>1. k \in DOMAIN bins /\ bins[k].other
    BY <1>7, <1>10
  <2>2. CASE j = position /\ changed[j] = new
    BY <1>8, <1>10, <2>1, <2>2
  <2>3. CASE j \in DOMAIN bins /\ changed[j] = bins[j]
    BY <1>10, <2>1, <2>3 DEF Ordered
  <2> QED
    BY <1>7, <2>2, <2>3
<1>11. InOrderOn(kept, changed, kind)
  BY <1>9, <1>10 DEF InOrderOn
<1> QED
  BY <1>3, <1>5, <1>6, <1>11, OrderedPart

LEMMA OrderedOverridden ==
  ASSUME NEW bins, NEW kind, Ordered(bins, kind), NEW o,
         UsesBins(o) => ToSet(o.sources) # {} /\ ToSet(o.sources) \subseteq Ids(bins)
  PROVE Ordered(Overridden(bins, o), kind)
<1>1. CASE o.action = "merge_bins"
  <2> DEFINE new == MergedBin(bins, o)
  <2>1. new.missing = FALSE /\ new.other = FALSE /\ new.cats = Null
    BY DEF MergedBin, NewBin
  <2>2. Overridden(bins, o) = Substitute(bins, o.sources, new)
    BY <1>1 DEF Overridden
  <2>3. ToSet(o.sources) # {} /\ ToSet(o.sources) \subseteq Ids(bins)
    BY <1>1 DEF UsesBins
  <2> HIDE DEF new
  <2>4. Ordered(Substitute(bins, o.sources, new), kind)
    BY <2>1, <2>3, OrderedSubstitute
  <2> QED
    BY <2>2, <2>4
<1>2. CASE o.action = "group_categories"
  <2> DEFINE new == GroupedBin(bins, o)
  <2>1. new.missing = FALSE /\ new.other = FALSE
    BY DEF GroupedBin, NewBin
  <2>2. new.cats = UNION {BinOf(id, bins).cats :
                            id \in {id \in ToSet(o.sources) : BinOf(id, bins).cats # Null}}
    BY DEF GroupedBin, NewBin
  <2>3. Overridden(bins, o) = Substitute(bins, o.sources, new)
    BY <1>2 DEF Overridden
  <2>4. ToSet(o.sources) # {} /\ ToSet(o.sources) \subseteq Ids(bins)
    BY <1>2 DEF UsesBins
  <2> HIDE DEF new
  <2>5. Ordered(Substitute(bins, o.sources, new), kind)
    BY <2>1, <2>2, <2>4, OrderedSubstitute
  <2> QED
    BY <2>3, <2>5
<1>3. CASE o.action = "reorder_missing_bin"
  <2> DEFINE missing == {k \in DOMAIN bins : bins[k].missing}
             a == At(bins, DOMAIN bins \ missing)
             b == At(bins, missing)
  <2>1. Ordered(a, kind) /\ Ordered(b, kind)
    BY OrderedAt
  <2>2. \A k \in DOMAIN b : \E n \in missing : b[k] = bins[n]
    BY OrderedAt
  <2>3. \A k \in DOMAIN b : b[k].cats \in {Null, {}}
    BY <2>2 DEF Ordered
  <2>4. Overridden(bins, o) = a \o b
    BY <1>3 DEF Overridden
  <2> HIDE DEF a, b
  <2> QED
    BY <2>1, <2>3, <2>4, OrderedConcat
<1>4. CASE o.action \notin {"merge_bins", "group_categories", "reorder_missing_bin"}
  <2>1. Overridden(bins, o) = bins
    BY <1>4 DEF Overridden
  <2> QED
    BY <2>1
<1> QED
  BY <1>1, <1>2, <1>3, <1>4
-----------------------------------------------------------------------------
(* The stages of the overrides: the recursion has a solution, since it has *)
(* one up to every position.                                               *)
LEMMA StagesExist ==
  ASSUME NEW bins, NEW os, Len(os) \in Nat
  PROVE Stages(bins, os)
          = [n \in 0 .. Len(os) |->
               IF n = 0 THEN bins ELSE Overridden(Stages(bins, os)[n - 1], os[n])]
<1> DEFINE Solves(f, m) ==
             f = [n \in 0 .. m |-> IF n = 0 THEN bins ELSE Overridden(f[n - 1], os[n])]
           T == {m \in Nat : \E f : Solves(f, m)}
<1>1. 0 \in T
  <2>1. Solves([n \in 0 .. 0 |-> bins], 0)
    OBVIOUS
  <2> QED
    BY <2>1
<1>2. ASSUME NEW m \in Nat, m \in T PROVE m + 1 \in T
  <2>1. PICK f : Solves(f, m)
    BY <1>2
  <2> DEFINE g == [n \in 0 .. m + 1 |-> IF n = m + 1 THEN Overridden(f[m], os[m + 1]) ELSE f[n]]
  <2>2. ASSUME NEW n \in 0 .. m + 1
        PROVE g[n] = IF n = 0 THEN bins ELSE Overridden(g[n - 1], os[n])
    <3>1. CASE n = 0
      BY <2>1, <3>1
    <3>2. CASE n \in 1 .. m
      BY <2>1, <3>2
    <3>3. CASE n = m + 1
      BY <3>3
    <3> QED
      BY <3>1, <3>2, <3>3
  <2>3. Solves(g, m + 1)
    BY <2>2
  <2> HIDE DEF g, Solves
  <2>4. \E h : Solves(h, m + 1)
    BY <2>3
  <2> QED
    BY <2>4
<1>3. \E f : Solves(f, Len(os))
  <2> HIDE DEF Solves
  <2> QED
    BY <1>1, <1>2, NaturalsInSet
<1>4. Stages(bins, os) = CHOOSE f : Solves(f, Len(os))
  BY DEF Stages
<1> QED
  <2> HIDE DEF Solves
  <2>1. Solves(Stages(bins, os), Len(os))
    BY <1>3, <1>4
  <2> QED
    BY <2>1 DEF Solves

LEMMA OrderedStages ==
  ASSUME NEW bins, NEW kind, Ordered(bins, kind), NEW os, Len(os) \in Nat, DOMAIN os = 1 .. Len(os),
         \A n \in DOMAIN os : UsesBins(os[n]) => os[n].sources \in Seq(ToSet(os[n].sources)),
         CanApply(bins, os)
  PROVE Ordered(AfterOverrides(bins, os), kind)
<1> DEFINE after == Stages(bins, os)
           T == {n \in Nat : n <= Len(os) => Ordered(after[n], kind)}
<1>1. after = [n \in 0 .. Len(os) |-> IF n = 0 THEN bins ELSE Overridden(after[n - 1], os[n])]
  BY StagesExist
<1>2. \A n \in DOMAIN os : UsesBins(os[n]) =>
        os[n].sources # <<>> /\ ToSet(os[n].sources) \subseteq Ids(after[n - 1])
  BY DEF CanApply
<1> HIDE DEF after
<1>3. 0 \in T
  <2>1. after[0] = bins
    BY <1>1
  <2> QED
    BY <2>1
<1>4. ASSUME NEW n \in Nat, n \in T PROVE n + 1 \in T
  <2> SUFFICES ASSUME n + 1 <= Len(os) PROVE Ordered(after[n + 1], kind)
    OBVIOUS
  <2>1. after[n + 1] = Overridden(after[n], os[n + 1])
    BY <1>1
  <2>2. Ordered(after[n], kind)
    BY <1>4
  <2>3. ASSUME UsesBins(os[n + 1])
        PROVE ToSet(os[n + 1].sources) # {} /\ ToSet(os[n + 1].sources) \subseteq Ids(after[n])
    <3>1. PICK k \in DOMAIN os : k = n + 1 /\ k - 1 = n
      OBVIOUS
    <3> DEFINE sources == os[k].sources
    <3>2. UsesBins(os[k])
      BY <2>3, <3>1
    <3>3. sources # <<>> /\ ToSet(sources) \subseteq Ids(after[k - 1])
      BY <1>2, <3>2
    <3>4. sources \in Seq(ToSet(sources))
      BY <3>2
    <3> HIDE DEF sources
    <3>5. 1 \in DOMAIN sources
      BY <3>3, <3>4, EmptySeq, LenProperties
    <3>6. ToSet(sources) # {} /\ ToSet(sources) \subseteq Ids(after[n])
      BY <3>1, <3>3, <3>5 DEF ToSet
    <3> QED
      BY <3>1, <3>6 DEF sources
  <2> QED
    BY <2>1, <2>2, <2>3, OrderedOverridden
<1>5. Len(os) \in T
  BY <1>3, <1>4, NaturalsInSet
<1> QED
  BY <1>5 DEF AfterOverrides, after

-----------------------------------------------------------------------------
(* The bins of a column of finitely many rows are in order.                *)
LEMMA MinIsInteger ==
  /\ \A a, b \in Int : Min({a, b}) \in {a, b} /\ Min({a, b}) <= a /\ Min({a, b}) <= b
  /\ \A a, b, c \in Int : Min({a, b, c}) \in {a, b, c}
<1>1. ASSUME NEW a \in Int, NEW b \in Int
      PROVE Min({a, b}) \in {a, b} /\ Min({a, b}) <= a /\ Min({a, b}) <= b
  <2>1. \E x \in {a, b} : \A y \in {a, b} : x <= y
    OBVIOUS
  <2>2. Min({a, b}) \in {a, b} /\ \A y \in {a, b} : Min({a, b}) <= y
    BY <2>1 DEF Min
  <2> QED
    BY <2>2
<1>2. ASSUME NEW a \in Int, NEW b \in Int, NEW c \in Int
      PROVE Min({a, b, c}) \in {a, b, c}
  <2>1. \E x \in {a, b, c} : \A y \in {a, b, c} : x <= y
    OBVIOUS
  <2> QED
    BY <2>1 DEF Min
<1> QED
  BY <1>1, <1>2

LEMMA SequenceOfSet ==
  ASSUME NEW n \in Nat, NEW seq, DOMAIN seq = 1 .. n, seq = [k \in 1 .. n |-> seq[k]]
  PROVE seq \in Seq(ToSet(seq)) /\ Len(seq) = n
<1>1. seq \in [1 .. n -> ToSet(seq)]
  BY DEF ToSet
<1> HIDE DEF ToSet
<1> QED
  BY <1>1

LEMMA OneElement ==
  ASSUME NEW e
  PROVE <<e>> \in Seq(ToSet(<<e>>)) /\ DOMAIN <<e>> = {1} /\ <<e>>[1] = e /\ Len(<<e>>) \in Nat
<1>1. DOMAIN <<e>> = 1 .. 1 /\ <<e>>[1] = e /\ Len(<<e>>) = 1 /\ 1 .. 1 = {1}
  OBVIOUS
<1>2. e \in ToSet(<<e>>)
  BY <1>1 DEF ToSet
<1> HIDE DEF ToSet
<1>3. <<e>> \in Seq(ToSet(<<e>>))
  BY <1>2
<1> QED
  BY <1>1, <1>3

(* Bins without an other bin among them.                                   *)
Plain(bins) ==
  /\ bins \in Seq(ToSet(bins))
  /\ \A k \in DOMAIN bins :
       /\ bins[k].missing \in BOOLEAN /\ bins[k].other = FALSE
       /\ bins[k].missing => bins[k].cats = Null

LEMMA PlainIsOrdered == \A bins, kind : Plain(bins) => Ordered(bins, kind)
BY DEF Plain, Ordered

LEMMA PlainConcat ==
  ASSUME NEW a, NEW b, Plain(a), Plain(b)
  PROVE Plain(a \o b)
<1>1. Ordered(a, "any") /\ Ordered(b, "any")
  BY PlainIsOrdered
<1>2. \A k \in DOMAIN a : ~a[k].other
  BY DEF Plain
<1> DEFINE c == a \o b
<1>3. Ordered(c, "any")
  BY <1>1, <1>2, OrderedConcat
<1>4. \A k \in DOMAIN c : (\E n \in DOMAIN a : c[k] = a[n]) \/ (\E n \in DOMAIN b : c[k] = b[n])
  <2> DEFINE T == ToSet(a) \cup ToSet(b)
  <2>1. a \in Seq(T) /\ b \in Seq(T)
    BY SeqMonotonic DEF Plain
  <2> HIDE DEF T
  <2>2. /\ c \in Seq(T) /\ Len(c) = Len(a) + Len(b)
        /\ \A k \in 1 .. Len(a) + Len(b) : c[k] = IF k <= Len(a) THEN a[k] ELSE b[k - Len(a)]
    BY <2>1, ConcatProperties
  <2>3. DOMAIN a = 1 .. Len(a) /\ DOMAIN b = 1 .. Len(b) /\ DOMAIN c = 1 .. Len(c)
        /\ Len(a) \in Nat /\ Len(b) \in Nat
    BY <2>1, <2>2, LenProperties
  <2> HIDE DEF c
  <2> QED
    BY <2>2, <2>3
<1> HIDE DEF c
<1>5. \A k \in DOMAIN c : c[k].other = FALSE
  BY <1>4 DEF Plain
<1> QED
  BY <1>3, <1>5 DEF Plain, Ordered, c

LEMMA MissingBinsPlain ==
  ASSUME NEW column, NEW separate
  PROVE Plain(MissingBins(column, separate)) /\ Len(MissingBins(column, separate)) \in Nat
<1> DEFINE counts == Counts(column, RowsWith(column, Null))
           bin == [NewBin(<<"bin", 1>>, counts) EXCEPT !.missing = TRUE]
<1>1. MissingBins(column, separate) = <<bin>> \/ MissingBins(column, separate) = <<>>
  BY DEF MissingBins
<1>2. bin.missing = TRUE /\ bin.other = FALSE /\ bin.cats = Null
  BY DEF NewBin
<1> HIDE DEF bin
<1>3. Plain(<<bin>>) /\ Len(<<bin>>) \in Nat
  BY <1>2, OneElement DEF Plain
<1>4. Plain(<<>>) /\ Len(<<>>) \in Nat
  BY DEF Plain, ToSet
<1> QED
  BY <1>1, <1>3, <1>4

LEMMA NumericBinsPlain ==
  ASSUME NEW column, IsFiniteSet(DOMAIN column), NEW maxBins \in Int, NEW separate
  PROVE Plain(NumericBins(column, maxBins, separate))
<1> DEFINE missing == MissingBins(column, separate)
           rows == NotNull(column)
           n == Min({maxBins, Cardinality(rows), maxBins - Len(missing)})
           breaks == Breaks(column, n)
           Group(b) == {i \in rows : BreakOf(column[i].value, breaks) = b}
           inside == {b \in breaks : Group(b) # {}}
           tail == IF Group(Null) = {} THEN <<>> ELSE <<Null>>
           present == InOrder(inside) \o tail
           BinAt(k) ==
             [NewBin(<<"bin", Len(missing) + k>>, Counts(column, Group(present[k])))
                EXCEPT !.lower = IF k = 1 THEN Null ELSE present[k - 1],
                       !.upper = present[k],
                       !.closed = k # Len(present)]
           found == [k \in 1 .. Len(present) |-> BinAt(k)]
<1>1. Plain(missing) /\ Len(missing) \in Nat
  BY MissingBinsPlain
<1>2. NumericBins(column, maxBins, separate) \in {missing, missing \o found}
  BY DEF NumericBins
<1>3. n \in Int
  <2>1. IsFiniteSet(rows)
    BY FS_Subset DEF NotNull
  <2>2. Cardinality(rows) \in Nat
    BY <2>1, FS_CardinalityType
  <2> HIDE DEF missing, rows
  <2> QED
    BY <1>1, <2>2, MinIsInteger
<1> HIDE DEF n
<1>4. IsFiniteSet(breaks)
  <2> DEFINE f == [i \in 1 .. n - 1 |-> Quantile(column, n, i)]
  <2>1. f \in Surjection(1 .. n - 1, breaks)
    BY DEF Surjection, Breaks
  <2>2. IsFiniteSet(1 .. n - 1)
    BY <1>3, FS_Interval
  <2> HIDE DEF f
  <2> QED
    BY <2>1, <2>2, FS_Surjection
<1> HIDE DEF breaks
<1>5. Len(present) \in Nat
  <2>1. IsFiniteSet(inside)
    BY <1>4, FS_Subset
  <2>2. Cardinality(inside) \in Nat
    BY <2>1, FS_CardinalityType
  <2> DEFINE order == InOrder(inside)
             T == ToSet(order) \cup {Null}
  <2> HIDE DEF inside
  <2>3. order \in Seq(ToSet(order))
    <3> DEFINE size == Cardinality(inside)
    <3>1. order = [k \in 1 .. size |-> order[k]] /\ DOMAIN order = 1 .. size
      BY DEF InOrder
    <3> HIDE DEF order, size
    <3> QED
      BY <2>2, <3>1, SequenceOfSet DEF size
  <2>4. tail \in Seq(T)
    <3> DEFINE one == <<Null>>
    <3>1. one \in Seq(ToSet(one)) /\ DOMAIN one = {1} /\ one[1] = Null
      BY OneElement
    <3> HIDE DEF one, T
    <3>2. one \in Seq({Null})
      BY <3>1 DEF ToSet
    <3>3. one \in Seq(T)
      BY <3>2, SeqMonotonic DEF T
    <3> QED
      BY <3>3, EmptySeq DEF one
  <2> HIDE DEF order, tail
  <2>5. order \in Seq(T)
    BY <2>3, SeqMonotonic
  <2>6. order \o tail \in Seq(T)
    BY <2>4, <2>5, ConcatProperties
  <2> QED
    BY <2>6, LenProperties DEF order
<1> HIDE DEF present
<1>6. \A k : (BinAt(k)).missing = FALSE /\ (BinAt(k)).other = FALSE
  BY DEF NewBin
<1>7. Plain(found)
  <2> HIDE DEF BinAt
  <2>1. found \in Seq(ToSet(found))
    BY <1>5, SequenceOfSet
  <2>2. \A k \in DOMAIN found : found[k].missing = FALSE /\ found[k].other = FALSE
    BY <1>6
  <2> QED
    BY <2>1, <2>2 DEF Plain
<1> HIDE DEF found, missing
<1> QED
  BY <1>1, <1>2, <1>7, PlainConcat

LEMMA CategoricalBinsOrdered ==
  ASSUME NEW column, IsFiniteSet(DOMAIN column), NEW order \in LevelOrders(column),
         NEW maxLevels \in Nat, NEW separate, NEW kind, kind # "numeric"
  PROVE Ordered(CategoricalBins(column, order, maxLevels, separate), kind)
<1> DEFINE missing == MissingBins(column, separate)
           kept == Min({maxLevels, Len(order)})
           rest == {order[k] : k \in kept + 1 .. Len(order)}
           RowsIn(levels) == {i \in DOMAIN column : column[i].value \in levels}
           LevelBin(k, levels) ==
             [NewBin(<<"bin", Len(missing) + k>>, Counts(column, RowsIn(levels)))
                EXCEPT !.cats = levels]
           levelled == [k \in 1 .. kept |-> LevelBin(k, {order[k]})]
           other == [LevelBin(kept + 1, rest) EXCEPT !.other = TRUE]
           tail == IF rest = {} THEN <<>> ELSE <<other>>
<1>1. Plain(missing)
  BY MissingBinsPlain
<1>2. CategoricalBins(column, order, maxLevels, separate) = missing \o levelled \o tail
  BY DEF CategoricalBins
<1>3. kept \in Nat
  <2>1. Cardinality(Values(column)) \in Nat
    <3> DEFINE f == [i \in DOMAIN column |-> column[i].value]
               all == {column[i].value : i \in DOMAIN column}
    <3>1. f \in Surjection(DOMAIN column, all)
      BY DEF Surjection
    <3> HIDE DEF f, all
    <3>2. IsFiniteSet(all)
      BY <3>1, FS_Surjection
    <3>3. IsFiniteSet(all \ {Null})
      BY <3>2, FS_Difference
    <3> QED
      BY <3>3, FS_CardinalityType DEF Values, all
  <2>2. Len(order) \in Nat
    BY <2>1 DEF LevelOrders, SetToSeqs
  <2> QED
    BY <2>2, MinIsInteger
<1> HIDE DEF kept
<1>4. \A k, levels : /\ LevelBin(k, levels).missing = FALSE /\ LevelBin(k, levels).other = FALSE
  BY DEF NewBin
<1>5. other.missing = FALSE /\ other.other = TRUE
  BY DEF NewBin
<1> HIDE DEF LevelBin
<1>6. Plain(levelled)
  <2>1. levelled \in Seq(ToSet(levelled))
    BY <1>3, SequenceOfSet
  <2>2. \A k \in DOMAIN levelled : levelled[k].missing = FALSE /\ levelled[k].other = FALSE
    BY <1>4
  <2> QED
    BY <2>1, <2>2 DEF Plain
<1> HIDE DEF missing, levelled, other, rest
<1>7. Plain(missing \o levelled)
  BY <1>1, <1>6, PlainConcat
<1>8. Ordered(tail, kind)
  <2>1. Ordered(<<other>>, kind)
    <3> DEFINE one == <<other>>
    <3>1. one \in Seq(ToSet(one)) /\ DOMAIN one = {1} /\ one[1] = other
      BY OneElement
    <3> HIDE DEF one
    <3>2. \A j, k \in DOMAIN one : ~(k < j)
      BY <3>1
    <3>3. \A k \in DOMAIN one : one[k].missing = FALSE
      BY <1>5, <3>1
    <3>4. \A k \in DOMAIN one : one[k].other = TRUE
      BY <1>5, <3>1
    <3>5. Ordered(one, kind)
      BY <3>1, <3>2, <3>3, <3>4 DEF Ordered
    <3> QED
      BY <3>5 DEF one
  <2>2. Ordered(<<>>, kind)
    BY DEF Ordered, ToSet
  <2> QED
    BY <2>1, <2>2
<1> HIDE DEF tail
<1> DEFINE front == missing \o levelled
<1>9. Ordered(front, kind) /\ \A k \in DOMAIN front : ~front[k].other
  BY <1>7, PlainIsOrdered DEF Plain
<1> HIDE DEF front
<1>10. Ordered(front \o tail, kind)
  BY <1>8, <1>9, OrderedConcat
<1> QED
  BY <1>2, <1>10 DEF front

-----------------------------------------------------------------------------
(* Elements of a sequence.                                                *)
LEMMA AppendOne ==
  ASSUME NEW S, NEW seq \in Seq(S), NEW e
  PROVE /\ DOMAIN Append(seq, e) = 1 .. Len(seq) + 1
        /\ ToSet(Append(seq, e)) \subseteq S \cup {e}
        /\ ToSet(seq) \subseteq ToSet(Append(seq, e))
<1> DEFINE all == Append(seq, e)
           T == S \cup {e}
<1>1. seq \in Seq(T) /\ e \in T
  BY SeqMonotonic
<1> HIDE DEF T
<1>2. /\ all \in Seq(T) /\ Len(all) = Len(seq) + 1
      /\ \A i \in 1 .. Len(seq) : all[i] = seq[i]
  BY <1>1, AppendProperties
<1> HIDE DEF all
<1>3. DOMAIN all = 1 .. Len(seq) + 1 /\ ToSet(all) \subseteq T
  BY <1>2, LenProperties DEF ToSet
<1>4. DOMAIN seq = 1 .. Len(seq) /\ Len(seq) \in Nat
  BY LenProperties
<1>5. ASSUME NEW i \in 1 .. Len(seq) PROVE seq[i] \in ToSet(all)
  BY <1>2, <1>3, <1>4 DEF ToSet
<1>6. ToSet(seq) \subseteq ToSet(all)
  BY <1>4, <1>5 DEF ToSet
<1> QED
  BY <1>3, <1>6 DEF all, T

(* The elements at some positions of a sequence.                           *)
LEMMA AtSequence ==
  ASSUME NEW seq, NEW n \in Nat, DOMAIN seq = 1 .. n, NEW S \in SUBSET DOMAIN seq
  PROVE /\ Len(At(seq, S)) \in Nat /\ DOMAIN At(seq, S) = 1 .. Len(At(seq, S))
        /\ \A k \in DOMAIN At(seq, S) : \E m \in S : At(seq, S)[k] = seq[m]
<1>1. S \subseteq Int /\ IsFiniteSet(S)
  BY FS_Interval, FS_Subset
<1>2. DOMAIN At(seq, S) = 1 .. Cardinality(S) /\ Cardinality(S) \in Nat
  BY <1>1, AtElements
<1>3. \A k \in 1 .. Cardinality(S) : InOrder(S)[k] \in S /\ At(seq, S)[k] = seq[InOrder(S)[k]]
  BY <1>1, AtElements
<1>4. Len(At(seq, S)) = Cardinality(S)
  BY <1>1, AtPositions
<1> QED
  BY <1>2, <1>3, <1>4

-----------------------------------------------------------------------------
(* Clusters that share no variable, and what a selection promises.         *)
Disjoint(clusters) ==
  /\ Len(clusters) \in Nat /\ DOMAIN clusters = 1 .. Len(clusters)
  /\ \A c, d \in DOMAIN clusters : c # d => clusters[c] \cap clusters[d] = {}

KeepsItsRules(found) ==
  LET p == found.p
      selected == found.selected
  IN /\ IsInjective(selected)
     /\ ToSet(selected) \cap p.excludes = {}
     /\ p.includes = {} => Len(selected) <= p.limit
     /\ p.rule # "none" =>
          /\ Len(selected) <= p.limit
          /\ \A c \in DOMAIN found.clusters :
               Cardinality((found.clusters[c] \cap ToSet(selected)) \ p.includes) <= 1

(* The selection.  What holds of the variables chosen so far, in both      *)
(* passes: no variable twice, none excluded, and beside the included ones  *)
(* one of a cluster at most, whose cluster has then been seen.             *)
Chosen(found) == ToSet(found.selected)
Voluntary(found, p) == Chosen(found) \ p.includes

SoundSoFar(found, clusters, p) ==
  /\ {"selected", "rejected", "seen"} \subseteq DOMAIN found
  /\ found.selected \in Seq(Chosen(found))
  /\ IsInjective(found.selected)
  /\ Chosen(found) \cap p.excludes = {}
  /\ p.rule = "none" => Len(found.selected) <= p.limit
  /\ \A c \in DOMAIN clusters : p.rule # "none" =>
       /\ \A v, w \in clusters[c] \cap Voluntary(found, p) : v = w
       /\ c \notin found.seen => clusters[c] \cap Voluntary(found, p) = {}

LEMMA OneMore ==
  ASSUME NEW seq, seq \in Seq(ToSet(seq)), IsInjective(seq), NEW v, v \notin ToSet(seq)
  PROVE /\ Append(seq, v) \in Seq(ToSet(Append(seq, v))) /\ IsInjective(Append(seq, v))
        /\ ToSet(Append(seq, v)) = ToSet(seq) \cup {v}
        /\ Len(Append(seq, v)) = Len(seq) + 1 /\ Len(seq) \in Nat
        /\ Append(seq, v) = seq \o <<v>>
<1> DEFINE T == ToSet(seq) \cup {v}
           all == Append(seq, v)
<1>1. seq \in Seq(T)
  BY SeqMonotonic
<1>2. v \in T
  OBVIOUS
<1> HIDE DEF T
<1>3. /\ all \in Seq(T) /\ Len(all) = Len(seq) + 1 /\ all[Len(seq) + 1] = v
      /\ \A i \in 1 .. Len(seq) : all[i] = seq[i]
  BY <1>1, <1>2, AppendProperties
<1>4. all = seq \o <<v>>
  BY <1>1, <1>2, AppendIsConcat
<1>5. Len(seq) \in Nat /\ DOMAIN seq = 1 .. Len(seq)
  BY LenProperties
<1> HIDE DEF all
<1>6. DOMAIN all = 1 .. Len(seq) + 1 /\ all \in [1 .. Len(seq) + 1 -> T]
  BY <1>3, LenProperties
<1>7. ToSet(all) = T
  <2>1. ASSUME NEW w \in ToSet(seq) PROVE w \in ToSet(all)
    <3>1. PICK i \in 1 .. Len(seq) : seq[i] = w
      BY <1>5 DEF ToSet
    <3>2. i \in 1 .. Len(seq) + 1 /\ all[i] = w
      BY <1>3, <1>5, <3>1
    <3> QED
      BY <1>6, <3>2 DEF ToSet
  <2>2. v \in ToSet(all)
    <3>1. Len(seq) + 1 \in DOMAIN all
      BY <1>5, <1>6
    <3> QED
      BY <1>3, <3>1 DEF ToSet
  <2>3. ToSet(all) \subseteq T
    BY <1>6 DEF ToSet
  <2> QED
    BY <2>1, <2>2, <2>3 DEF T
<1>8. ASSUME NEW i \in DOMAIN all, NEW j \in DOMAIN all, all[i] = all[j] PROVE i = j
  <2>1. \A k \in 1 .. Len(seq) : all[k] = seq[k] /\ seq[k] # v
    BY <1>3, <1>5 DEF ToSet
  <2>2. CASE i \in 1 .. Len(seq) /\ j \in 1 .. Len(seq)
    BY <1>5, <1>8, <2>1, <2>2 DEF IsInjective
  <2>3. CASE i = Len(seq) + 1 /\ j \in 1 .. Len(seq)
    BY <1>3, <1>8, <2>1, <2>3
  <2>4. CASE i \in 1 .. Len(seq) /\ j = Len(seq) + 1
    BY <1>3, <1>8, <2>1, <2>4
  <2> QED
    BY <1>5, <1>6, <2>2, <2>3, <2>4
<1>9. all \in Seq(ToSet(all)) /\ IsInjective(all)
  BY <1>3, <1>7, <1>8 DEF IsInjective
<1> QED
  BY <1>3, <1>4, <1>5, <1>7, <1>9 DEF T, all

(* The variable that represents a cluster is one of it.                    *)
LEMMA RepresentativeOf ==
  ASSUME NEW cluster, NEW rank, NEW nulls, NEW p, rank \in Seq(ToSet(rank)),
         p.representatives \in Seq(ToSet(p.representatives))
  PROVE LET chosen == Representative(cluster, rank, nulls, p) IN
        \/ chosen = <<>>
        \/ p.rule # "none" /\ \E v \in cluster \ p.excludes : chosen = <<v>>
<1> DEFINE eligible == {n \in DOMAIN rank : rank[n] \in cluster \ p.excludes}
           override == {n \in DOMAIN p.representatives :
                          \E m \in eligible : rank[m] = p.representatives[n]}
           fewest == {n \in eligible : \A m \in eligible : nulls[rank[n]] <= nulls[rank[m]]}
           ruled == CASE p.rule = "one_per_cluster_highest_iv" -> eligible
                      [] p.rule = "one_per_cluster_lowest_missing" -> fewest
                      [] OTHER -> {}
           chosen == Representative(cluster, rank, nulls, p)
<1>1. ruled \subseteq eligible
  OBVIOUS
<1>2. eligible \in SUBSET Nat /\ override \in SUBSET Nat
  <2>1. DOMAIN rank \subseteq Nat /\ DOMAIN p.representatives \subseteq Nat
    BY LenProperties
  <2> QED
    BY <2>1
<1>3. \/ chosen = <<>>
      \/ p.rule # "none" /\ override # {} /\ chosen = <<p.representatives[Min(override)]>>
      \/ p.rule # "none" /\ ruled # {} /\ chosen = <<rank[Min(ruled)]>>
  BY DEF Representative
<1>4. ASSUME override # {} PROVE p.representatives[Min(override)] \in cluster \ p.excludes
  <2>1. Min(override) \in override
    <3> HIDE DEF override
    <3> QED
      BY <1>2, <1>4, MinOfNaturals
  <2> QED
    BY <2>1
<1>5. ASSUME ruled # {} PROVE rank[Min(ruled)] \in cluster \ p.excludes
  <2>1. Min(ruled) \in ruled
    <3> HIDE DEF ruled, eligible
    <3> QED
      BY <1>1, <1>2, <1>5, MinOfNaturals
  <2> HIDE DEF ruled
  <2> QED
    BY <1>1, <2>1
<1> HIDE DEF override, ruled, chosen
<1> QED
  BY <1>3, <1>4, <1>5 DEF chosen

(* One variable more: an included one, or the first of its clusters.       *)
IsAdded(v, found, next, clusters, p) ==
  /\ v \notin Chosen(found) /\ v \notin p.excludes
  /\ DOMAIN next = DOMAIN found
  /\ next.selected = Append(found.selected, v) /\ found.seen \subseteq next.seen
  /\ p.rule = "none" => Len(found.selected) < p.limit
  /\ \/ p.rule = "none"
     \/ v \in p.includes
     \/ \A c \in DOMAIN clusters : v \in clusters[c] => c \notin found.seen /\ c \in next.seen

LEMMA SoundWithOne ==
  ASSUME NEW found, NEW clusters, NEW p, SoundSoFar(found, clusters, p), p.limit \in Nat,
         NEW v, NEW next, IsAdded(v, found, next, clusters, p)
  PROVE SoundSoFar(next, clusters, p) /\ Chosen(next) = Chosen(found) \cup {v}
<1>0. /\ v \notin Chosen(found) /\ v \notin p.excludes
      /\ DOMAIN next = DOMAIN found
      /\ next.selected = Append(found.selected, v) /\ found.seen \subseteq next.seen
      /\ p.rule = "none" => Len(found.selected) < p.limit
      /\ \/ p.rule = "none"
         \/ v \in p.includes
         \/ \A c \in DOMAIN clusters : v \in clusters[c] => c \notin found.seen /\ c \in next.seen
  BY DEF IsAdded
<1> DEFINE all == next.selected
<1>1. /\ all \in Seq(ToSet(all)) /\ IsInjective(all)
      /\ ToSet(all) = Chosen(found) \cup {v}
      /\ Len(all) = Len(found.selected) + 1 /\ Len(found.selected) \in Nat
  <2> DEFINE seq == found.selected
  <2>1. seq \in Seq(ToSet(seq)) /\ IsInjective(seq) /\ v \notin ToSet(seq) /\ all = Append(seq, v)
    BY <1>0 DEF SoundSoFar, Chosen
  <2> HIDE DEF seq
  <2>2. /\ Append(seq, v) \in Seq(ToSet(Append(seq, v))) /\ IsInjective(Append(seq, v))
        /\ ToSet(Append(seq, v)) = ToSet(seq) \cup {v}
        /\ Len(Append(seq, v)) = Len(seq) + 1 /\ Len(seq) \in Nat
    BY <2>1, OneMore
  <2> QED
    BY <2>1, <2>2 DEF Chosen, seq
<1>2. Chosen(next) = Chosen(found) \cup {v}
  BY <1>1 DEF Chosen
<1>3. p.rule = "none" => Len(all) <= p.limit
  BY <1>0, <1>1
<1>4. Chosen(next) \cap p.excludes = {}
  BY <1>0, <1>2 DEF SoundSoFar
<1>5. ASSUME NEW c \in DOMAIN clusters, p.rule # "none"
      PROVE /\ \A w, u \in clusters[c] \cap Voluntary(next, p) : w = u
            /\ c \notin next.seen => clusters[c] \cap Voluntary(next, p) = {}
  <2>1. /\ \A w, u \in clusters[c] \cap Voluntary(found, p) : w = u
        /\ c \notin found.seen => clusters[c] \cap Voluntary(found, p) = {}
    BY <1>5 DEF SoundSoFar
  <2>2. CASE v \in p.includes \/ v \notin clusters[c]
    <3>1. clusters[c] \cap Voluntary(next, p) = clusters[c] \cap Voluntary(found, p)
      BY <1>2, <2>2 DEF Voluntary
    <3> QED
      BY <1>0, <2>1, <3>1
  <2>3. CASE v \notin p.includes /\ v \in clusters[c]
    <3>1. c \notin found.seen /\ c \in next.seen
      BY <1>0, <1>5, <2>3
    <3>2. clusters[c] \cap Voluntary(next, p) = {v}
      BY <1>2, <2>1, <2>3, <3>1 DEF Voluntary
    <3> QED
      BY <3>1, <3>2
  <2> QED
    BY <2>2, <2>3
<1> QED
  BY <1>0, <1>1, <1>2, <1>3, <1>4, <1>5 DEF SoundSoFar, Chosen

(* Of none chosen it is true.                                              *)
LEMMA SoundStart ==
  ASSUME NEW found, NEW clusters, NEW p, found.selected = <<>>, p.limit \in Nat,
         {"selected", "rejected", "seen"} \subseteq DOMAIN found
  PROVE SoundSoFar(found, clusters, p) /\ Chosen(found) = {}
<1>1. Chosen(found) = {} /\ <<>> \in Seq(Chosen(found)) /\ Len(<<>>) = 0
  BY EmptySeq DEF Chosen, ToSet
<1>2. IsInjective(<<>>)
  BY DEF IsInjective
<1> QED
  BY <1>1, <1>2 DEF SoundSoFar, Voluntary

(* The first pass.                                                         *)
LEMMA RepresentedExists ==
  ASSUME NEW rank, NEW clusters, NEW nulls, NEW p, Len(clusters) \in Nat
  PROVE LET after == Represented(rank, clusters, nulls, p) IN
        /\ after[0] = [selected |-> <<>>, seen |-> {},
                       rejected |-> At(rank, {n \in DOMAIN rank : rank[n] \in p.excludes})]
        /\ \A c \in 1 .. Len(clusters) :
             after[c] = Represent(after[c - 1], clusters[c], c, rank, nulls, p)
<1> DEFINE start == [selected |-> <<>>, seen |-> {},
                     rejected |-> At(rank, {n \in DOMAIN rank : rank[n] \in p.excludes})]
           Next1(found, c) == Represent(found, clusters[c], c, rank, nulls, p)
           Solves(f, m) == f = [c \in 0 .. m |-> IF c = 0 THEN start ELSE Next1(f[c - 1], c)]
           T == {m \in Nat : \E f : Solves(f, m)}
<1>4. Represented(rank, clusters, nulls, p) = CHOOSE f : Solves(f, Len(clusters))
  BY DEF Represented
<1> HIDE DEF start, Next1
<1>1. 0 \in T
  <2>1. Solves([c \in 0 .. 0 |-> start], 0)
    OBVIOUS
  <2> QED
    BY <2>1
<1>2. ASSUME NEW m \in Nat, m \in T PROVE m + 1 \in T
  <2>1. PICK f : Solves(f, m)
    BY <1>2
  <2> DEFINE g == [c \in 0 .. m + 1 |-> IF c = m + 1 THEN Next1(f[m], m + 1) ELSE f[c]]
  <2>2. ASSUME NEW c \in 0 .. m + 1
        PROVE g[c] = IF c = 0 THEN start ELSE Next1(g[c - 1], c)
    <3>1. CASE c = 0
      BY <2>1, <3>1
    <3>2. CASE c \in 1 .. m
      BY <2>1, <3>2
    <3>3. CASE c = m + 1
      BY <3>3
    <3> QED
      BY <3>1, <3>2, <3>3
  <2>3. Solves(g, m + 1)
    BY <2>2
  <2> HIDE DEF g, Solves
  <2>4. \E h : Solves(h, m + 1)
    BY <2>3
  <2> QED
    BY <2>4
<1>3. \E f : Solves(f, Len(clusters))
  <2> HIDE DEF Solves
  <2> QED
    BY <1>1, <1>2, NaturalsInSet
<1> QED
  <2> HIDE DEF Solves
  <2> DEFINE after == Represented(rank, clusters, nulls, p)
  <2>1. Solves(after, Len(clusters))
    BY <1>3, <1>4
  <2> HIDE DEF after
  <2>2. after[0] = start /\ \A c \in 1 .. Len(clusters) : after[c] = Next1(after[c - 1], c)
    BY <2>1 DEF Solves
  <2> QED
    BY <2>2 DEF after, start, Next1

LEMMA SoundRepresented ==
  ASSUME NEW rank, NEW clusters, NEW nulls, NEW p, Disjoint(clusters), p.limit \in Nat,
         rank \in Seq(ToSet(rank)), p.representatives \in Seq(ToSet(p.representatives))
  PROVE SoundSoFar(Represented(rank, clusters, nulls, p)[Len(clusters)], clusters, p)
<1> DEFINE after == Represented(rank, clusters, nulls, p)
           Behind(c) == UNION {clusters[d] : d \in 1 .. c}
           T == {c \in Nat : c <= Len(clusters) =>
                   /\ SoundSoFar(after[c], clusters, p)
                   /\ Chosen(after[c]) \subseteq Behind(c)
                   /\ after[c].seen \subseteq 1 .. c}
<1>1. /\ Len(clusters) \in Nat /\ DOMAIN clusters = 1 .. Len(clusters)
      /\ \A c, d \in DOMAIN clusters : c # d => clusters[c] \cap clusters[d] = {}
  BY DEF Disjoint
<1> DEFINE start == [selected |-> <<>>, seen |-> {},
                     rejected |-> At(rank, {n \in DOMAIN rank : rank[n] \in p.excludes})]
<1>2. /\ after[0] = start
      /\ \A c \in 1 .. Len(clusters) :
           after[c] = Represent(after[c - 1], clusters[c], c, rank, nulls, p)
  BY <1>1, RepresentedExists
<1> HIDE DEF after
<1>3. 0 \in T
  <2>1. /\ after[0].selected = <<>> /\ after[0].seen = {}
        /\ {"selected", "rejected", "seen"} \subseteq DOMAIN after[0]
    BY <1>2
  <2> HIDE DEF start
  <2> QED
    BY <2>1, SoundStart
<1> HIDE DEF start
<1>4. ASSUME NEW n \in Nat, n \in T PROVE n + 1 \in T
  <2> SUFFICES ASSUME n + 1 <= Len(clusters)
               PROVE /\ SoundSoFar(after[n + 1], clusters, p)
                     /\ Chosen(after[n + 1]) \subseteq Behind(n + 1)
                     /\ after[n + 1].seen \subseteq 1 .. n + 1
    OBVIOUS
  <2>1. PICK c \in 1 .. Len(clusters) : c = n + 1 /\ c - 1 = n
    BY <1>1
  <2> DEFINE old == after[n]
             new == after[c]
             chosen == Representative(clusters[c], rank, nulls, p)
  <2>2. /\ SoundSoFar(old, clusters, p) /\ Chosen(old) \subseteq Behind(n)
        /\ old.seen \subseteq 1 .. n
    BY <1>1, <1>4
  <2>3. new = [old EXCEPT !.selected = @ \o chosen,
                          !.seen = IF chosen = <<>> THEN @ ELSE @ \cup {c}]
    BY <1>2, <2>1 DEF Represent
  <2>4. \/ chosen = <<>>
        \/ p.rule # "none" /\ \E v \in clusters[c] \ p.excludes : chosen = <<v>>
    BY RepresentativeOf
  <2> HIDE DEF chosen
  <2>5. Behind(c) = Behind(n) \cup clusters[c]
    <3>1. 1 .. c = (1 .. n) \cup {c}
      BY <2>1
    <3> QED
      BY <3>1
  <2>6. old.selected \in Seq(Chosen(old)) /\ {"selected", "rejected", "seen"} \subseteq DOMAIN old
    BY <2>2 DEF SoundSoFar
  <2>7. ASSUME chosen = <<>>
        PROVE /\ SoundSoFar(new, clusters, p)
              /\ Chosen(new) \subseteq Behind(c)
              /\ new.seen \subseteq 1 .. c
    <3>1. /\ DOMAIN new = DOMAIN old /\ new.seen = old.seen
          /\ new.selected = old.selected \o <<>>
      BY <2>3, <2>6, <2>7
    <3>2. new.selected = old.selected
      BY <2>6, <3>1, ConcatEmptySeq
    <3>3. SoundSoFar(new, clusters, p) /\ Chosen(new) = Chosen(old)
      <4> HIDE DEF old, new
      <4> QED
        BY <2>2, <3>1, <3>2 DEF SoundSoFar, Chosen, Voluntary
    <3> HIDE DEF old, new, Behind
    <3> QED
      BY <2>1, <2>2, <2>5, <3>1, <3>3
  <2>8. ASSUME p.rule # "none", NEW v \in clusters[c] \ p.excludes, chosen = <<v>>
        PROVE /\ SoundSoFar(new, clusters, p)
              /\ Chosen(new) \subseteq Behind(c)
              /\ new.seen \subseteq 1 .. c
    <3>1. <<v>> # <<>>
      OBVIOUS
    <3>2. /\ DOMAIN new = DOMAIN old /\ new.seen = old.seen \cup {c}
          /\ new.selected = old.selected \o <<v>>
      BY <2>3, <2>6, <2>8, <3>1
    <3>3. \A d \in DOMAIN clusters : v \in clusters[d] => d = c
      BY <1>1
    <3>4. v \notin Chosen(old)
      <4>1. \A d \in 1 .. n : d \in DOMAIN clusters /\ d # c
        BY <1>1, <2>1
      <4>2. v \notin Behind(n)
        BY <3>3, <4>1
      <4> QED
        BY <2>2, <4>2
    <3>5. c \notin old.seen
      BY <2>1, <2>2
    <3>6. new.selected = Append(old.selected, v)
      <4>1. old.selected \in Seq(Chosen(old) \cup {v})
        BY <2>6, SeqMonotonic
      <4> HIDE DEF old
      <4> QED
        BY <3>2, <4>1, AppendIsConcat
    <3> HIDE DEF old, new, Behind
    <3>7. SoundSoFar(new, clusters, p) /\ Chosen(new) = Chosen(old) \cup {v}
      <4>1. \A d \in DOMAIN clusters : v \in clusters[d] => d \notin old.seen /\ d \in new.seen
        BY <3>2, <3>3, <3>5
      <4>2. IsAdded(v, old, new, clusters, p)
        BY <2>8, <3>2, <3>4, <3>6, <4>1 DEF IsAdded
      <4> QED
        BY <2>2, <4>2, SoundWithOne
    <3>8. Chosen(new) \subseteq Behind(c)
      BY <2>2, <2>5, <3>7
    <3>9. new.seen \subseteq 1 .. c
      BY <2>1, <2>2, <3>2
    <3> QED
      BY <3>7, <3>8, <3>9
  <2> HIDE DEF old
  <2>9. /\ SoundSoFar(new, clusters, p)
        /\ Chosen(new) \subseteq Behind(c)
        /\ new.seen \subseteq 1 .. c
    <3> HIDE DEF new, Behind
    <3> QED BY <2>1, <2>2, <2>4, <2>7, <2>8
  <2> QED
    BY <2>1, <2>9
<1>5. Len(clusters) \in T
  BY <1>1, <1>3, <1>4, NaturalsInSet
<1> QED
  BY <1>1, <1>5 DEF after

(* The second pass.                                                        *)
LEMMA SoundUnchanged ==
  ASSUME NEW found, NEW clusters, NEW p, SoundSoFar(found, clusters, p), NEW next,
         DOMAIN next = DOMAIN found, next.selected = found.selected, next.seen = found.seen
  PROVE SoundSoFar(next, clusters, p)
BY DEF SoundSoFar, Chosen, Voluntary

LEMMA SoundConsider ==
  ASSUME NEW found, NEW clusters, NEW p, SoundSoFar(found, clusters, p), p.limit \in Nat,
         Disjoint(clusters), NEW v, NEW strong
  PROVE SoundSoFar(Consider(found, v, strong, clusters, p), clusters, p)
<1> DEFINE next == Consider(found, v, strong, clusters, p)
           cluster == ClusterOf(v, clusters)
           full == Len(found.selected) >= p.limit
           Reject == [found EXCEPT !.rejected = Append(@, v)]
           Choose == [found EXCEPT !.selected = Append(@, v)]
           First1 == [Choose EXCEPT !.seen = IF cluster = 0 THEN @ ELSE @ \cup {cluster}]
<1>1. \/ next = found
      \/ next = Reject
      \/ /\ next = Choose /\ ~(p.rule = "none" /\ full) /\ v \notin p.excludes
         /\ v \in p.includes /\ v \notin Chosen(found)
      \/ /\ next = First1 /\ ~(p.rule = "none" /\ full) /\ v \notin p.excludes
         /\ v \notin Chosen(found) /\ (p.rule # "none" => cluster \notin found.seen)
  BY DEF Consider, Chosen
<1>2. {"selected", "rejected", "seen"} \subseteq DOMAIN found /\ Len(found.selected) \in Nat
  BY LenProperties DEF SoundSoFar
<1> HIDE DEF next, cluster
<1>3. /\ DOMAIN Reject = DOMAIN found /\ Reject.selected = found.selected
      /\ Reject.seen = found.seen
      /\ DOMAIN Choose = DOMAIN found /\ Choose.selected = Append(found.selected, v)
      /\ Choose.seen = found.seen
      /\ DOMAIN First1 = DOMAIN found /\ First1.selected = Append(found.selected, v)
      /\ First1.seen = IF cluster = 0 THEN found.seen ELSE found.seen \cup {cluster}
  BY <1>2
<1>4. ~(p.rule = "none" /\ full) => (p.rule = "none" => Len(found.selected) < p.limit)
  BY <1>2
<1> HIDE DEF Reject, Choose, First1, full
<1>5. next = found => SoundSoFar(next, clusters, p)
  OBVIOUS
<1>6. next = Reject => SoundSoFar(next, clusters, p)
  BY <1>3, SoundUnchanged
<1>7. ASSUME next = Choose, ~(p.rule = "none" /\ full), v \notin p.excludes, v \in p.includes,
             v \notin Chosen(found)
      PROVE SoundSoFar(next, clusters, p)
  <2>1. IsAdded(v, found, next, clusters, p)
    BY <1>3, <1>4, <1>7 DEF IsAdded
  <2> QED
    BY <2>1, SoundWithOne
<1>8. ASSUME next = First1, ~(p.rule = "none" /\ full), v \notin p.excludes,
             v \notin Chosen(found), p.rule # "none" => cluster \notin found.seen
      PROVE SoundSoFar(next, clusters, p)
  <2>1. ASSUME NEW c \in DOMAIN clusters, v \in clusters[c] PROVE cluster = c /\ c # 0
    <3>1. cluster \in DOMAIN clusters /\ v \in clusters[cluster]
      BY <2>1 DEF cluster, ClusterOf
    <3> QED
      BY <2>1, <3>1 DEF Disjoint
  <2>2. p.rule # "none" =>
          \A c \in DOMAIN clusters : v \in clusters[c] => c \notin found.seen /\ c \in next.seen
    BY <1>3, <1>8, <2>1
  <2>3. found.seen \subseteq next.seen
    BY <1>3, <1>8
  <2>4. IsAdded(v, found, next, clusters, p)
    BY <1>3, <1>4, <1>8, <2>2, <2>3 DEF IsAdded
  <2> QED
    BY <2>4, SoundWithOne
<1>9. SoundSoFar(next, clusters, p)
  BY <1>1, <1>5, <1>6, <1>7, <1>8
<1> QED
  BY <1>9 DEF next

LEMMA ConsideredExists ==
  ASSUME NEW rank, NEW strong, NEW clusters, NEW nulls, NEW p, Len(rank) \in Nat
  PROVE LET after == Considered(rank, strong, clusters, nulls, p) IN
        /\ after[0] = Represented(rank, clusters, nulls, p)[Len(clusters)]
        /\ \A n \in 1 .. Len(rank) : after[n] = Consider(after[n - 1], rank[n], strong, clusters, p)
<1> DEFINE start == Represented(rank, clusters, nulls, p)[Len(clusters)]
           Next2(found, n) == Consider(found, rank[n], strong, clusters, p)
           Solves(f, m) == f = [n \in 0 .. m |-> IF n = 0 THEN start ELSE Next2(f[n - 1], n)]
           T == {m \in Nat : \E f : Solves(f, m)}
<1>4. Considered(rank, strong, clusters, nulls, p) = CHOOSE f : Solves(f, Len(rank))
  BY DEF Considered
<1> HIDE DEF start, Next2
<1>1. 0 \in T
  <2>1. Solves([n \in 0 .. 0 |-> start], 0)
    OBVIOUS
  <2> QED
    BY <2>1
<1>2. ASSUME NEW m \in Nat, m \in T PROVE m + 1 \in T
  <2>1. PICK f : Solves(f, m)
    BY <1>2
  <2> DEFINE g == [n \in 0 .. m + 1 |-> IF n = m + 1 THEN Next2(f[m], m + 1) ELSE f[n]]
  <2>2. ASSUME NEW n \in 0 .. m + 1
        PROVE g[n] = IF n = 0 THEN start ELSE Next2(g[n - 1], n)
    <3>1. CASE n = 0
      BY <2>1, <3>1
    <3>2. CASE n \in 1 .. m
      BY <2>1, <3>2
    <3>3. CASE n = m + 1
      BY <3>3
    <3> QED
      BY <3>1, <3>2, <3>3
  <2>3. Solves(g, m + 1)
    BY <2>2
  <2> HIDE DEF g, Solves
  <2>4. \E h : Solves(h, m + 1)
    BY <2>3
  <2> QED
    BY <2>4
<1>3. \E f : Solves(f, Len(rank))
  <2> HIDE DEF Solves
  <2> QED
    BY <1>1, <1>2, NaturalsInSet
<1> QED
  <2> DEFINE after == Considered(rank, strong, clusters, nulls, p)
  <2>1. Solves(after, Len(rank))
    BY <1>3, <1>4
  <2> HIDE DEF after
  <2>2. after[0] = start /\ \A n \in 1 .. Len(rank) : after[n] = Next2(after[n - 1], n)
    BY <2>1 DEF Solves
  <2> QED
    BY <2>2 DEF after, start, Next2

LEMMA SoundConsidered ==
  ASSUME NEW rank, NEW strong, NEW clusters, NEW nulls, NEW p, Disjoint(clusters), p.limit \in Nat,
         rank \in Seq(ToSet(rank)), p.representatives \in Seq(ToSet(p.representatives))
  PROVE SoundSoFar(Considered(rank, strong, clusters, nulls, p)[Len(rank)], clusters, p)
<1> DEFINE after == Considered(rank, strong, clusters, nulls, p)
           T == {n \in Nat : n <= Len(rank) => SoundSoFar(after[n], clusters, p)}
<1>1. Len(rank) \in Nat
  BY LenProperties
<1>2. /\ after[0] = Represented(rank, clusters, nulls, p)[Len(clusters)]
      /\ \A n \in 1 .. Len(rank) : after[n] = Consider(after[n - 1], rank[n], strong, clusters, p)
  BY <1>1, ConsideredExists
<1> HIDE DEF after
<1>3. 0 \in T
  BY <1>2, SoundRepresented
<1>4. ASSUME NEW m \in Nat, m \in T PROVE m + 1 \in T
  <2> SUFFICES ASSUME m + 1 <= Len(rank) PROVE SoundSoFar(after[m + 1], clusters, p)
    OBVIOUS
  <2>1. PICK n \in 1 .. Len(rank) : n = m + 1 /\ n - 1 = m
    BY <1>1
  <2>2. SoundSoFar(after[n - 1], clusters, p)
    BY <1>1, <1>4, <2>1
  <2>3. SoundSoFar(after[n], clusters, p)
    BY <1>2, <2>2, SoundConsider
  <2> QED
    BY <2>1, <2>3
<1>5. Len(rank) \in T
  BY <1>1, <1>3, <1>4, NaturalsInSet
<1> QED
  BY <1>1, <1>5 DEF after

(* A part of the variables chosen, from the first on.                      *)
LEMMA SoundPart ==
  ASSUME NEW seq, seq \in Seq(ToSet(seq)), IsInjective(seq), NEW n \in Nat, n <= Len(seq)
  PROVE /\ IsInjective(SubSeq(seq, 1, n)) /\ Len(SubSeq(seq, 1, n)) = n
        /\ ToSet(SubSeq(seq, 1, n)) \subseteq ToSet(seq)
<1> DEFINE part == SubSeq(seq, 1, n)
           T == ToSet(seq)
<1>1. DOMAIN seq = 1 .. Len(seq) /\ Len(seq) \in Nat /\ \A i \in 1 .. n : seq[i] \in T
  BY LenProperties DEF ToSet
<1> HIDE DEF T
<1>2. /\ part \in Seq(T) /\ Len(part) = (IF 1 <= n THEN n - 1 + 1 ELSE 0)
      /\ \A i \in 1 .. n - 1 + 1 : part[i] = seq[1 + i - 1]
  BY <1>1, SubSeqProperties
<1>3. Len(part) = n /\ \A i \in 1 .. n : part[i] = seq[i]
  BY <1>2
<1> HIDE DEF part
<1>4. DOMAIN part = 1 .. n
  BY <1>2, <1>3, LenProperties
<1>5. IsInjective(part)
  BY <1>1, <1>3, <1>4 DEF IsInjective
<1>6. ToSet(part) \subseteq T
  BY <1>1, <1>3, <1>4 DEF ToSet
<1> QED
  BY <1>3, <1>5, <1>6 DEF part, T

LEMMA SelectionKeepsRules ==
  ASSUME NEW rank, NEW strong, NEW clusters, NEW nulls, NEW p, Disjoint(clusters), p.limit \in Nat,
         rank \in Seq(ToSet(rank)), p.representatives \in Seq(ToSet(p.representatives)),
         NEW rejected
  PROVE KeepsItsRules([p |-> p, clusters |-> clusters,
                       selected |-> Selection(rank, strong, clusters, nulls, p).selected,
                       rejected |-> rejected])
<1> DEFINE last == Considered(rank, strong, clusters, nulls, p)[Len(rank)]
           selected == Truncated(last, p).selected
           found == [p |-> p, clusters |-> clusters, selected |-> selected, rejected |-> rejected]
<1>1. SoundSoFar(last, clusters, p)
  BY SoundConsidered
<1>2. selected = Selection(rank, strong, clusters, nulls, p).selected
  BY DEF Selection
<1> HIDE DEF last
<1> DEFINE seq == last.selected
<1>3. /\ {"selected", "rejected", "seen"} \subseteq DOMAIN last
      /\ seq \in Seq(ToSet(seq)) /\ IsInjective(seq)
      /\ ToSet(seq) \cap p.excludes = {}
      /\ p.rule = "none" => Len(seq) <= p.limit
      /\ \A c \in DOMAIN clusters : p.rule # "none" =>
           \A v, w \in clusters[c] \cap (ToSet(seq) \ p.includes) : v = w
  BY <1>1 DEF SoundSoFar, Chosen, Voluntary
<1>4. \/ selected = seq /\ (p.rule = "none" \/ Len(seq) <= p.limit)
      \/ ~(Len(seq) <= p.limit) /\ selected = SubSeq(seq, 1, p.limit)
  BY <1>3 DEF Truncated
<1> HIDE DEF seq, selected
<1>5. IsInjective(selected) /\ Len(selected) <= p.limit /\ ToSet(selected) \subseteq ToSet(seq)
  <2>1. CASE selected = seq /\ (p.rule = "none" \/ Len(seq) <= p.limit)
    BY <1>3, <2>1
  <2>2. CASE ~(Len(seq) <= p.limit) /\ selected = SubSeq(seq, 1, p.limit)
    <3>1. Len(seq) \in Nat
      BY <1>3, LenProperties
    <3>2. p.limit <= Len(seq)
      BY <2>2, <3>1
    <3> QED
      BY <1>3, <2>2, <3>2, SoundPart
  <2> QED
    BY <1>4, <2>1, <2>2
<1>6. ASSUME p.rule # "none", NEW c \in DOMAIN clusters
      PROVE Cardinality((clusters[c] \cap ToSet(selected)) \ p.includes) <= 1
  <2> DEFINE S == (clusters[c] \cap ToSet(selected)) \ p.includes
  <2>1. \A v, w \in S : v = w
    BY <1>3, <1>5, <1>6
  <2>2. S = {} \/ \E v : S = {v}
    <3> HIDE DEF S
    <3> QED
      BY <2>1
  <2>3. Cardinality(S) = 0 \/ Cardinality(S) = 1
    <3> HIDE DEF S
    <3> QED
      BY <2>2, FS_EmptySet, FS_Singleton
  <2> QED
    BY <2>3
<1>7. ToSet(selected) \cap p.excludes = {}
  BY <1>3, <1>5
<1>8. found.p = p /\ found.selected = selected /\ found.clusters = clusters
  OBVIOUS
<1> HIDE DEF found
<1>9. KeepsItsRules(found)
  BY <1>5, <1>6, <1>7, <1>8 DEF KeepsItsRules
<1> QED
  BY <1>2, <1>9 DEF found

-----------------------------------------------------------------------------
(* Where the bins of a binning lie.                                        *)
(* A finite set of integers has a least and a greatest element.            *)
LEMMA EndsOfIntegers ==
  ASSUME NEW S, S \subseteq Int, IsFiniteSet(S), S # {}
  PROVE /\ \E n \in S : \A m \in S : n <= m
        /\ \E n \in S : \A m \in S : m <= n
<1> DEFINE order == InOrder(S)
           size == Cardinality(S)
<1>1. /\ DOMAIN order = 1 .. size /\ size \in Nat
      /\ \A k \in 1 .. size : order[k] \in S
  BY InOrderRanks
<1>2. \A j, k \in 1 .. size : j < k => order[j] < order[k]
  BY <1>1, InOrderIncreases
<1>3. \A n \in S : \E k \in 1 .. size : order[k] = n
  BY <1>1, InOrderReaches
<1> HIDE DEF order, size
<1>4. PICK n \in S : TRUE
  OBVIOUS
<1>5. 1 \in 1 .. size /\ size \in 1 .. size
  BY <1>1, <1>3, <1>4
<1>6. \A k \in 1 .. size : order[k] \in Int
  BY <1>1
<1>7. \A k \in 1 .. size : order[1] <= order[k] /\ order[k] <= order[size]
  BY <1>1, <1>2, <1>5, <1>6
<1>8. \A m \in S : order[1] <= m /\ m <= order[size]
  BY <1>3, <1>7
<1> QED
  BY <1>1, <1>5, <1>8

LEMMA MaxIsInteger ==
  \A a, b \in Int : Max({a, b}) \in {a, b}
<1> SUFFICES ASSUME NEW a \in Int, NEW b \in Int PROVE Max({a, b}) \in {a, b}
  OBVIOUS
<1>1. \E x \in {a, b} : \A y \in {a, b} : x >= y
  OBVIOUS
<1> QED
  BY <1>1 DEF Max

(* The values of a numeric column.                                         *)
IsNumeric(column) ==
  /\ IsFiniteSet(DOMAIN column)
  /\ \A i \in DOMAIN column : column[i].value \in Int \cup {Null}

LEMMA NthIsInteger ==
  ASSUME NEW column, IsNumeric(column), NEW k \in Nat, 1 <= k, k <= Cardinality(NotNull(column))
  PROVE Nth(column, k) \in Int
<1> DEFINE rows == NotNull(column)
           upTo(value) == {i \in rows : column[i].value <= value}
           values == Values(column)
           enough == {value \in values : Cardinality(upTo(value)) >= k}
<1>1. IsFiniteSet(rows) /\ \A i \in rows : column[i].value \in values
  <2>1. IsFiniteSet(rows)
    BY FS_Subset DEF NotNull, IsNumeric
  <2>2. \A i \in rows : i \in DOMAIN column /\ column[i].value # Null
    BY DEF NotNull, RowsWith
  <2> QED
    BY <2>1, <2>2 DEF Values
<1>2. values \subseteq Int
  BY DEF Values, IsNumeric
<1>3. IsFiniteSet(values)
  <2> DEFINE f == [i \in DOMAIN column |-> column[i].value]
             all == {column[i].value : i \in DOMAIN column}
  <2>1. f \in Surjection(DOMAIN column, all)
    BY DEF Surjection
  <2> HIDE DEF f, all
  <2>2. IsFiniteSet(all)
    BY <2>1, FS_Surjection DEF IsNumeric
  <2> QED
    BY <2>2, FS_Difference DEF Values, all
<1>4. rows # {}
  <2>1. Cardinality({}) = 0
    BY FS_EmptySet
  <2> QED
    BY <2>1
<1> HIDE DEF rows, values
<1>5. PICK most \in values : \A value \in values : value <= most
  BY <1>1, <1>2, <1>3, <1>4, EndsOfIntegers
<1>6. upTo(most) = rows
  BY <1>1, <1>5
<1>7. most \in enough
  <2>1. Cardinality(rows) \in Nat
    BY <1>1, FS_CardinalityType
  <2>2. Cardinality(rows) >= k
    BY <2>1 DEF rows
  <2> HIDE DEF upTo
  <2> QED
    BY <1>6, <2>2
<1>8. IsFiniteSet(enough) /\ enough \subseteq Int
  <2>1. enough \subseteq values
    OBVIOUS
  <2> HIDE DEF enough
  <2> QED
    BY <1>2, <1>3, <2>1, FS_Subset
<1>9. Nth(column, k) = Min(enough)
  BY DEF Nth, rows, values
<1> HIDE DEF enough
<1>10. \E n \in enough : \A m \in enough : n <= m
  BY <1>7, <1>8, EndsOfIntegers
<1>11. Min(enough) \in enough
  BY <1>10 DEF Min
<1> QED
  BY <1>8, <1>9, <1>11

LEMMA QuantileIsInteger ==
  ASSUME NEW column, IsNumeric(column), NEW n \in Nat, NEW i \in 1 .. n - 1,
         n <= Cardinality(NotNull(column))
  PROVE Quantile(column, n, i) \in Int
<1> DEFINE c == Cardinality(NotNull(column))
           h == (c - 1) * i
           low == Nth(column, h \div n + 1)
           high == IF h % n = 0 THEN low ELSE Nth(column, h \div n + 2)
<1>1. c \in Nat
  <2>1. IsFiniteSet(NotNull(column))
    BY FS_Subset DEF NotNull, IsNumeric
  <2> QED
    BY <2>1, FS_CardinalityType
<1> HIDE DEF c
<1>2. n >= 2 /\ c >= 2 /\ i \in Nat /\ c - 1 \in Nat /\ i < n
  BY <1>1 DEF c
<1>3. h \in Nat /\ h < (c - 1) * n
  <2>1. ASSUME NEW a \in Nat, a > 0 PROVE a * i \in Nat /\ a * i < a * n
    BY <1>2, <2>1
  <2>2. c - 1 \in Nat /\ c - 1 > 0
    BY <1>1, <1>2
  <2> QED
    BY <2>1, <2>2
<1>4. h \div n \in Nat /\ h \div n < c - 1 /\ h % n \in Nat
  <2>1. \A a, b, d \in Nat : b > 0 /\ a < d * b => a \div b < d
    OBVIOUS
  <2>2. \A a, b \in Nat : b > 0 => a \div b \in Nat
    OBVIOUS
  <2>3. \A a, b \in Nat : b > 0 => a % b \in Nat
    OBVIOUS
  <2> HIDE DEF h
  <2> QED
    BY <1>2, <1>3, <2>1, <2>2, <2>3
<1> HIDE DEF h
<1>5. low \in Int
  <2>1. h \div n + 1 \in Nat /\ 1 <= h \div n + 1 /\ h \div n + 1 <= c
    BY <1>1, <1>4
  <2> QED
    BY <2>1, NthIsInteger DEF c
<1>6. high \in Int
  <2>1. h \div n + 2 \in Nat /\ 1 <= h \div n + 2 /\ h \div n + 2 <= c
    BY <1>1, <1>4
  <2>2. Nth(column, h \div n + 2) \in Int
    BY <2>1, NthIsInteger DEF c
  <2> QED
    BY <1>5, <2>2
<1>7. Quantile(column, n, i) = low + ((h % n) * (high - low)) \div n
  BY DEF Quantile, h, c
<1> HIDE DEF low, high
<1>8. \A a, b, d \in Int : a + ((b) * (d - a)) \div n \in Int
  <2>1. \A e \in Int : e \div n \in Int
    BY <1>2
  <2>2. \A a, b, d \in Int : (b) * (d - a) \in Int
    OBVIOUS
  <2> QED
    BY <2>1, <2>2
<1> QED
  BY <1>4, <1>5, <1>6, <1>7, <1>8

-----------------------------------------------------------------------------
(* Fresh bins are those of a binning: a missing bin comes first, numeric   *)
(* bins are bounded by each other, and a level is in one of the others.    *)
FreshPair(a, b, kind) ==
  IF kind = "numeric"
  THEN ~a.missing /\ ~b.missing => a.upper \in Int /\ b.lower \in Int /\ a.upper <= b.lower
  ELSE /\ a.cats # Null /\ b.cats # Null => a.cats \cap b.cats = {}
       /\ ~(a.other /\ b.other)

Fresh(bins, kind) ==
  /\ \A k \in DOMAIN bins : /\ bins[k].id = <<"bin", k>>
                            /\ bins[k].missing => k = 1
  /\ \A j, k \in DOMAIN bins : j < k => FreshPair(bins[j], bins[k], kind)

LEMMA MissingFirst ==
  ASSUME NEW column, NEW separate
  PROVE LET missing == MissingBins(column, separate) IN
        /\ missing \in Seq(ToSet(missing)) /\ Len(missing) \in {0, 1}
        /\ \A k \in DOMAIN missing :
             /\ missing[k].id = <<"bin", k>> /\ missing[k].missing = TRUE
             /\ missing[k].other = FALSE /\ missing[k].cats = Null
<1> DEFINE counts == Counts(column, RowsWith(column, Null))
           bin == [NewBin(<<"bin", 1>>, counts) EXCEPT !.missing = TRUE]
           one == <<bin>>
<1>1. MissingBins(column, separate) = one \/ MissingBins(column, separate) = <<>>
  BY DEF MissingBins
<1>2. bin.id = <<"bin", 1>> /\ bin.missing = TRUE /\ bin.other = FALSE /\ bin.cats = Null
  BY DEF NewBin
<1> HIDE DEF bin
<1>3. DOMAIN one = {1} /\ one[1] = bin /\ Len(one) = 1
  OBVIOUS
<1>4. DOMAIN << >> = {} /\ Len(<< >>) = 0
  OBVIOUS
<1>5. MissingBins(column, separate) \in Seq(ToSet(MissingBins(column, separate)))
  BY MissingBinsPlain DEF Plain
<1> HIDE DEF one
<1> QED
  BY <1>1, <1>2, <1>3, <1>4, <1>5

(* What follows the missing bin.                                           *)
Follows(found, missing, kind) ==
  /\ found \in Seq(ToSet(found))
  /\ \A k \in DOMAIN found :
       /\ found[k].id = <<"bin", Len(missing) + k>> /\ found[k].missing = FALSE
  /\ \A j, k \in DOMAIN found : j < k => FreshPair(found[j], found[k], kind)

LEMMA FreshConcat ==
  ASSUME NEW column, NEW separate, NEW kind, NEW found,
         Follows(found, MissingBins(column, separate), kind)
  PROVE /\ Fresh(MissingBins(column, separate) \o found, kind)
        /\ Fresh(MissingBins(column, separate), kind)
<1> DEFINE missing == MissingBins(column, separate)
           T == ToSet(missing) \cup ToSet(found)
           c == missing \o found
<1>1. /\ missing \in Seq(ToSet(missing)) /\ Len(missing) \in {0, 1}
      /\ \A k \in DOMAIN missing :
             /\ missing[k].id = <<"bin", k>> /\ missing[k].missing = TRUE
             /\ missing[k].other = FALSE /\ missing[k].cats = Null
  BY MissingFirst
<1> HIDE DEF missing
<1>2. missing \in Seq(T) /\ found \in Seq(T)
  BY <1>1, SeqMonotonic DEF Follows, missing
<1>3. /\ c \in Seq(T) /\ Len(c) = Len(missing) + Len(found)
      /\ \A k \in 1 .. Len(missing) + Len(found) :
           c[k] = IF k <= Len(missing) THEN missing[k] ELSE found[k - Len(missing)]
  <2> HIDE DEF T
  <2> QED BY <1>2, ConcatProperties
<1>4. /\ Len(missing) \in Nat /\ DOMAIN missing = 1 .. Len(missing)
      /\ Len(found) \in Nat /\ DOMAIN found = 1 .. Len(found)
      /\ DOMAIN c = 1 .. Len(missing) + Len(found)
  BY <1>2, <1>3, LenProperties
<1> HIDE DEF c, T
<1>5. \A k \in DOMAIN found :
           /\ found[k].id = <<"bin", Len(missing) + k>> /\ found[k].missing = FALSE
  BY DEF Follows, missing
<1>6. \A j, k \in DOMAIN found : j < k => FreshPair(found[j], found[k], kind)
  BY DEF Follows
<1>7. ASSUME NEW k \in DOMAIN c
      PROVE \/ k = 1 /\ Len(missing) = 1 /\ k \in DOMAIN missing /\ c[k] = missing[k]
            \/ /\ k - Len(missing) \in DOMAIN found /\ c[k] = found[k - Len(missing)]
               /\ Len(missing) + (k - Len(missing)) = k
  <2>1. k \in Nat /\ 1 <= k /\ k <= Len(missing) + Len(found)
    BY <1>4
  <2>2. CASE k <= Len(missing)
    <3>1. k = 1 /\ Len(missing) = 1
      BY <1>1, <2>1, <2>2
    <3> QED
      BY <1>3, <1>4, <2>1, <2>2, <3>1
  <2>3. CASE ~(k <= Len(missing))
    <3>1. k - Len(missing) \in DOMAIN found
      BY <1>4, <2>1, <2>3
    <3>2. c[k] = found[k - Len(missing)]
      BY <1>3, <2>1, <2>3
    <3> QED
      BY <1>4, <2>1, <3>1, <3>2
  <2> QED
    BY <2>2, <2>3
<1>8. ASSUME NEW k \in DOMAIN c
      PROVE c[k].id = <<"bin", k>> /\ (c[k].missing => k = 1)
  BY <1>1, <1>5, <1>7
<1>9. ASSUME NEW j \in DOMAIN c, NEW k \in DOMAIN c, j < k
      PROVE FreshPair(c[j], c[k], kind)
  <2>1. j \in Nat /\ k \in Nat
    BY <1>4
  <2>2. CASE j - Len(missing) \in DOMAIN found /\ c[j] = found[j - Len(missing)]
    <3>1. k - Len(missing) \in DOMAIN found /\ c[k] = found[k - Len(missing)]
      BY <1>3, <1>4, <1>9, <2>1, <2>2
    <3>2. j - Len(missing) < k - Len(missing)
      BY <1>4, <1>9, <2>1
    <3> QED
      BY <1>6, <2>2, <3>1, <3>2
  <2>3. CASE j \in DOMAIN missing /\ c[j] = missing[j]
    BY <1>1, <2>3 DEF FreshPair
  <2> QED
    BY <1>7, <2>2, <2>3
<1>10. Fresh(c, kind)
  BY <1>8, <1>9 DEF Fresh
<1>11. Fresh(missing, kind)
  <2>1. \A j, k \in DOMAIN missing : ~(j < k)
    BY <1>1, <1>4
  <2>2. \A k \in DOMAIN missing : k = 1
    BY <1>1, <1>4
  <2> QED
    BY <1>1, <2>1, <2>2 DEF Fresh
<1> QED
  BY <1>10, <1>11 DEF c, missing

(* The breaks, in order, and infinity behind them if a row is above all.   *)
LEMMA BreaksInOrder ==
  ASSUME NEW inside, inside \subseteq Int, IsFiniteSet(inside), NEW open \in BOOLEAN
  PROVE LET present == InOrder(inside) \o IF open THEN <<>> ELSE <<Null>> IN
        /\ Len(present) \in Nat
        /\ \A j, k \in 1 .. Len(present) : j < k =>
              present[j] \in Int /\ present[k - 1] \in Int /\ present[j] <= present[k - 1]
<1> DEFINE order == InOrder(inside)
           size == Cardinality(inside)
           one == <<Null>>
           tail == IF open THEN <<>> ELSE one
           present == order \o tail
           T == ToSet(order) \cup {Null}
<1>1. /\ DOMAIN order = 1 .. size /\ size \in Nat
      /\ \A k \in 1 .. size : order[k] \in inside
  BY InOrderRanks
<1>2. \A j, k \in 1 .. size : j < k => order[j] < order[k]
  BY <1>1, InOrderIncreases
<1>3. order \in Seq(ToSet(order)) /\ Len(order) = size
  <2>1. order = [k \in 1 .. size |-> order[k]]
    BY DEF InOrder
  <2> HIDE DEF order, size
  <2> QED
    BY <1>1, <2>1, SequenceOfSet
<1>4. tail \in Seq(T) /\ Len(tail) \in {0, 1}
  <2>1. one \in Seq(ToSet(one)) /\ DOMAIN one = {1} /\ one[1] = Null
    BY OneElement
  <2>2. Len(one) = 1 /\ Len(<<>>) = 0
    OBVIOUS
  <2> HIDE DEF one, T
  <2>3. one \in Seq({Null})
    BY <2>1 DEF ToSet
  <2>4. one \in Seq(T)
    BY <2>3, SeqMonotonic DEF T
  <2> QED
    BY <2>2, <2>4, EmptySeq
<1> HIDE DEF order, size, tail
<1>5. order \in Seq(T)
  BY <1>3, SeqMonotonic
<1> HIDE DEF T
<1>6. /\ Len(present) = size + Len(tail)
      /\ \A k \in 1 .. size : present[k] = order[k]
  <2>1. /\ Len(present) = Len(order) + Len(tail)
        /\ \A k \in 1 .. Len(order) + Len(tail) :
              present[k] = IF k <= Len(order) THEN order[k] ELSE tail[k - Len(order)]
    BY <1>4, <1>5, ConcatProperties
  <2> HIDE DEF present
  <2> QED
    BY <1>1, <1>3, <1>4, <2>1
<1> HIDE DEF present
<1>7. ASSUME NEW j \in 1 .. Len(present), NEW k \in 1 .. Len(present), j < k
      PROVE present[j] \in Int /\ present[k - 1] \in Int /\ present[j] <= present[k - 1]
  <2>0. Len(present) \in Nat /\ Len(present) <= size + 1
    <3>1. PICK last : last = Len(tail) /\ last \in {0, 1}
      BY <1>4
    <3>2. PICK all : all = Len(present) /\ all = size + last /\ size \in Nat
      BY <1>1, <1>6, <3>1
    <3>3. all \in Nat /\ all <= size + 1
      BY <3>1, <3>2
    <3> QED
      BY <3>2, <3>3
  <2>1. j \in Nat /\ k \in Nat /\ 1 <= j /\ j < k /\ k <= size + 1 /\ size \in Nat
    BY <1>1, <1>7, <2>0
  <2>2. j \in 1 .. size /\ k - 1 \in 1 .. size /\ (j = k - 1 \/ j < k - 1)
    BY <2>1
  <2>3. order[j] \in Int /\ order[k - 1] \in Int
    BY <1>1, <2>2
  <2>4. order[j] <= order[k - 1]
    BY <1>2, <2>2, <2>3
  <2> QED
    BY <1>6, <2>2, <2>3, <2>4
<1>8. Len(present) \in Nat
  BY <1>1, <1>4, <1>6
<1> QED
  BY <1>7, <1>8 DEF present, order, tail, one

LEMMA NumericBinsFresh ==
  ASSUME NEW column, IsNumeric(column), NEW maxBins \in Int, NEW separate
  PROVE Fresh(NumericBins(column, maxBins, separate), "numeric")
<1> DEFINE missing == MissingBins(column, separate)
           rows == NotNull(column)
           n == Min({maxBins, Cardinality(rows), maxBins - Len(missing)})
           breaks == Breaks(column, n)
           Group(b) == {i \in rows : BreakOf(column[i].value, breaks) = b}
           inside == {b \in breaks : Group(b) # {}}
           open == (Group(Null) = {})
           present == InOrder(inside) \o IF open THEN <<>> ELSE <<Null>>
           BinAt(k) ==
             [NewBin(<<"bin", Len(missing) + k>>, Counts(column, Group(present[k])))
                EXCEPT !.lower = IF k = 1 THEN Null ELSE present[k - 1],
                       !.upper = present[k],
                       !.closed = k # Len(present)]
           found == [k \in 1 .. Len(present) |-> BinAt(k)]
<1>1. NumericBins(column, maxBins, separate) \in {missing, missing \o found}
  BY DEF NumericBins
<1>2. n \in Int /\ n <= Cardinality(rows)
  <2>1. IsFiniteSet(rows)
    BY FS_Subset DEF NotNull, IsNumeric
  <2>2. Cardinality(rows) \in Nat
    BY <2>1, FS_CardinalityType
  <2>3. Len(missing) \in Int
    BY MissingFirst
  <2> HIDE DEF missing, rows
  <2>4. \A a, b, c \in Int : Min({a, b, c}) \in Int /\ Min({a, b, c}) <= b
    <3> SUFFICES ASSUME NEW a \in Int, NEW b \in Int, NEW c \in Int
                 PROVE Min({a, b, c}) \in Int /\ Min({a, b, c}) <= b
      OBVIOUS
    <3>1. \E x \in {a, b, c} : \A y \in {a, b, c} : x <= y
      OBVIOUS
    <3>2. Min({a, b, c}) \in {a, b, c} /\ \A y \in {a, b, c} : Min({a, b, c}) <= y
      BY <3>1 DEF Min
    <3> QED
      BY <3>2
  <2> QED
    BY <2>2, <2>3, <2>4
<1> HIDE DEF n
<1>3. breaks \subseteq Int
  <2> SUFFICES ASSUME NEW i \in 1 .. n - 1 PROVE Quantile(column, n, i) \in Int
    BY DEF Breaks
  <2>1. n \in Nat
    BY <1>2
  <2> QED
    BY <1>2, <2>1, QuantileIsInteger
<1>4. IsFiniteSet(breaks)
  <2> DEFINE f == [i \in 1 .. n - 1 |-> Quantile(column, n, i)]
  <2>1. f \in Surjection(1 .. n - 1, breaks)
    BY DEF Surjection, Breaks
  <2>2. IsFiniteSet(1 .. n - 1)
    BY <1>2, FS_Interval
  <2> HIDE DEF f
  <2> QED
    BY <2>1, <2>2, FS_Surjection
<1> HIDE DEF breaks
<1>5. inside \subseteq Int /\ IsFiniteSet(inside)
  BY <1>3, <1>4, FS_Subset
<1> HIDE DEF inside, open
<1>6. /\ Len(present) \in Nat
      /\ \A j, k \in 1 .. Len(present) : j < k =>
            present[j] \in Int /\ present[k - 1] \in Int /\ present[j] <= present[k - 1]
  BY <1>5, BreaksInOrder DEF open
<1> HIDE DEF present
<1>7. \A k \in 1 .. Len(present) :
        /\ (BinAt(k)).id = <<"bin", Len(missing) + k>> /\ (BinAt(k)).missing = FALSE
        /\ (BinAt(k)).lower = (IF k = 1 THEN Null ELSE present[k - 1])
        /\ (BinAt(k)).upper = present[k]
  BY DEF NewBin
<1> HIDE DEF BinAt
<1>8. DOMAIN found = 1 .. Len(present) /\ \A k \in 1 .. Len(present) : found[k] = BinAt(k)
  OBVIOUS
<1>9. found \in Seq(ToSet(found))
  BY <1>6, SequenceOfSet
<1> HIDE DEF found
<1>10. ASSUME NEW j \in DOMAIN found, NEW k \in DOMAIN found, j < k
       PROVE FreshPair(found[j], found[k], "numeric")
  <2>1. found[j].upper = present[j] /\ found[k].lower = present[k - 1]
    BY <1>6, <1>7, <1>8, <1>10
  <2> QED
    BY <1>6, <1>8, <1>10, <2>1 DEF FreshPair
<1>11. Follows(found, missing, "numeric")
  BY <1>7, <1>8, <1>9, <1>10 DEF Follows
<1>12. Fresh(missing \o found, "numeric") /\ Fresh(missing, "numeric")
  <2>1. Follows(found, MissingBins(column, separate), "numeric")
    BY <1>11
  <2> QED
    BY <2>1, FreshConcat
<1> QED
  BY <1>1, <1>12

LEMMA CategoricalBinsFresh ==
  ASSUME NEW column, IsFiniteSet(DOMAIN column), NEW order \in LevelOrders(column),
         NEW maxLevels \in Nat, NEW separate, NEW kind, kind # "numeric"
  PROVE Fresh(CategoricalBins(column, order, maxLevels, separate), kind)
<1> DEFINE missing == MissingBins(column, separate)
           kept == Min({maxLevels, Len(order)})
           rest == {order[k] : k \in kept + 1 .. Len(order)}
           RowsIn(levels) == {i \in DOMAIN column : column[i].value \in levels}
           LevelBin(k, levels) ==
             [NewBin(<<"bin", Len(missing) + k>>, Counts(column, RowsIn(levels)))
                EXCEPT !.cats = levels]
           levelled == [k \in 1 .. kept |-> LevelBin(k, {order[k]})]
           other == [LevelBin(kept + 1, rest) EXCEPT !.other = TRUE]
           tail == IF rest = {} THEN <<>> ELSE <<other>>
           found == levelled \o tail
<1>1. CategoricalBins(column, order, maxLevels, separate) = missing \o levelled \o tail
  BY DEF CategoricalBins
<1>2. Len(order) \in Nat /\ \A i, j \in 1 .. Len(order) : i # j => order[i] # order[j]
  <2>1. Cardinality(Values(column)) \in Nat
    <3> DEFINE f == [i \in DOMAIN column |-> column[i].value]
               all == {column[i].value : i \in DOMAIN column}
    <3>1. f \in Surjection(DOMAIN column, all)
      BY DEF Surjection
    <3> HIDE DEF f, all
    <3>2. IsFiniteSet(all)
      BY <3>1, FS_Surjection
    <3>3. IsFiniteSet(all \ {Null})
      BY <3>2, FS_Difference
    <3> QED
      BY <3>3, FS_CardinalityType DEF Values, all
  <2>2. /\ order \in [1 .. Cardinality(Values(column)) -> Values(column)]
        /\ \A i, j \in 1 .. Cardinality(Values(column)) : i # j => order[i] # order[j]
    BY DEF LevelOrders, SetToSeqs
  <2>3. Len(order) = Cardinality(Values(column))
    BY <2>1, <2>2
  <2> QED
    BY <2>1, <2>2, <2>3
<1>3. kept \in Nat /\ kept <= Len(order)
  <2>1. \A a, b \in Nat : Min({a, b}) \in Nat /\ Min({a, b}) <= b
    <3> SUFFICES ASSUME NEW a \in Nat, NEW b \in Nat
                 PROVE Min({a, b}) \in Nat /\ Min({a, b}) <= b
      OBVIOUS
    <3>1. \E x \in {a, b} : \A y \in {a, b} : x <= y
      OBVIOUS
    <3>2. Min({a, b}) \in {a, b} /\ \A y \in {a, b} : Min({a, b}) <= y
      BY <3>1 DEF Min
    <3> QED
      BY <3>2
  <2> QED
    BY <1>2, <2>1
<1> HIDE DEF kept
<1>4. \A k, levels : /\ LevelBin(k, levels).missing = FALSE /\ LevelBin(k, levels).other = FALSE
                     /\ LevelBin(k, levels).id = <<"bin", Len(missing) + k>>
                     /\ LevelBin(k, levels).cats = levels
  BY DEF NewBin
<1>5. /\ other.missing = FALSE /\ other.id = <<"bin", Len(missing) + (kept + 1)>>
      /\ other.cats = rest
  BY DEF NewBin
<1> HIDE DEF LevelBin, missing, other
<1>6. /\ DOMAIN levelled = 1 .. kept /\ levelled \in Seq(ToSet(levelled)) /\ Len(levelled) = kept
      /\ \A k \in 1 .. kept :
            /\ levelled[k].id = <<"bin", Len(missing) + k>> /\ levelled[k].missing = FALSE
            /\ levelled[k].other = FALSE /\ levelled[k].cats = {order[k]}
  <2>1. DOMAIN levelled = 1 .. kept /\ \A k \in 1 .. kept : levelled[k] = LevelBin(k, {order[k]})
    OBVIOUS
  <2>2. levelled \in Seq(ToSet(levelled)) /\ Len(levelled) = kept
    BY <1>3, SequenceOfSet
  <2> QED
    BY <1>4, <2>1, <2>2
<1> DEFINE one == <<other>>
           T == ToSet(levelled) \cup ToSet(one)
<1>7. one \in Seq(ToSet(one)) /\ Len(one) = 1 /\ one[1] = other
  BY OneElement
<1>8. tail \in Seq(T) /\ Len(tail) \in {0, 1} /\ (Len(tail) = 1 => tail[1] = other)
  <2>1. one \in Seq(T)
    BY <1>7, SeqMonotonic
  <2>2. Len(<<>>) = 0
    OBVIOUS
  <2> HIDE DEF one, T, rest
  <2>3. tail = one \/ tail = <<>>
    BY DEF one
  <2> HIDE DEF tail
  <2> QED
    BY <1>7, <2>1, <2>2, <2>3, EmptySeq
<1> HIDE DEF levelled, tail, one
<1>9. /\ found \in Seq(T) /\ Len(found) = kept + Len(tail)
      /\ \A k \in 1 .. kept + Len(tail) :
            found[k] = IF k <= kept THEN levelled[k] ELSE tail[k - kept]
  <2>1. levelled \in Seq(T)
    BY <1>6, SeqMonotonic
  <2> HIDE DEF T, found
  <2>2. /\ found \in Seq(T) /\ Len(found) = Len(levelled) + Len(tail)
        /\ \A k \in 1 .. Len(levelled) + Len(tail) :
              found[k] = IF k <= Len(levelled) THEN levelled[k] ELSE tail[k - Len(levelled)]
    BY <1>8, <2>1, ConcatProperties DEF found
  <2>3. Len(levelled) = kept
    BY <1>6
  <2> QED
    BY <2>2, <2>3
<1>10. DOMAIN found = 1 .. kept + Len(tail) /\ found \in Seq(ToSet(found))
  <2>1. DOMAIN found = 1 .. Len(found) /\ Len(found) \in Nat
    BY <1>9, LenProperties
  <2>2. found \in [1 .. Len(found) -> T]
    BY <1>9, LenProperties
  <2>3. found = [k \in 1 .. Len(found) |-> found[k]]
    BY <2>2
  <2>4. found \in Seq(ToSet(found))
    <3> HIDE DEF found
    <3> QED BY <2>1, <2>3, SequenceOfSet
  <2> QED
    BY <1>9, <2>1, <2>4
<1> HIDE DEF found, T
<1>11. ASSUME NEW k \in DOMAIN found
       PROVE \/ k \in 1 .. kept /\ found[k] = levelled[k]
             \/ k = kept + 1 /\ found[k] = other
  <2>1. k \in Nat /\ 1 <= k /\ k <= kept + Len(tail)
    BY <1>3, <1>8, <1>10
  <2>2. CASE k <= kept
    BY <1>3, <1>9, <1>10, <2>1, <2>2
  <2>3. CASE ~(k <= kept)
    <3>1. PICK last : last = Len(tail) /\ last \in {0, 1}
      BY <1>8
    <3>2. k \in Nat /\ k <= kept + last /\ kept \in Nat
      BY <1>3, <2>1, <3>1
    <3>3. k = kept + 1 /\ last = 1
      <4>1. k > kept
        BY <2>3, <3>2
      <4>2. last # 0
        BY <3>2, <4>1
      <4>3. last = 1
        BY <3>1, <4>2
      <4> QED
        BY <3>2, <4>1, <4>3
    <3>4. k = kept + 1 /\ Len(tail) = 1
      BY <3>1, <3>3
    <3>5. found[k] = tail[k - kept] /\ k - kept = 1
      BY <1>3, <1>9, <1>10, <2>3, <3>4
    <3> QED
      BY <1>8, <3>4, <3>5
  <2> QED
    BY <2>2, <2>3
<1>12. ASSUME NEW j \in DOMAIN found, NEW k \in DOMAIN found, j < k
       PROVE FreshPair(found[j], found[k], kind)
  <2>1. j \in 1 .. kept /\ found[j] = levelled[j]
    BY <1>3, <1>11, <1>12
  <2>2. found[j].other = FALSE /\ found[j].cats = {order[j]}
    BY <1>6, <2>1
  <2>3. order[j] \notin found[k].cats
    <3>1. CASE k \in 1 .. kept /\ found[k] = levelled[k]
      <4>1. found[k].cats = {order[k]} /\ j # k
        BY <1>3, <1>6, <1>12, <2>1, <3>1
      <4>2. j \in 1 .. Len(order) /\ k \in 1 .. Len(order)
        BY <1>2, <1>3, <2>1, <3>1
      <4> QED
        BY <1>2, <4>1, <4>2
    <3>2. CASE k = kept + 1 /\ found[k] = other
      <4> SUFFICES ASSUME NEW m \in kept + 1 .. Len(order), order[j] = order[m] PROVE FALSE
        BY <1>5, <3>2
      <4>1. j \in 1 .. Len(order) /\ m \in 1 .. Len(order) /\ j # m
        BY <1>2, <1>3, <2>1
      <4> QED
        BY <1>2, <4>1
    <3> QED
      BY <1>11, <3>1, <3>2
  <2> QED
    BY <2>2, <2>3 DEF FreshPair
<1>13. Follows(found, MissingBins(column, separate), kind)
  BY <1>5, <1>6, <1>10, <1>11, <1>12 DEF Follows, missing
<1>14. Fresh(missing \o found, kind)
  BY <1>13, FreshConcat DEF missing
<1>15. missing \o levelled \o tail = missing \o found
  <2> DEFINE U == ToSet(missing) \cup T
  <2>1. missing \in Seq(ToSet(missing))
    BY MissingFirst DEF missing
  <2>2. missing \in Seq(U) /\ levelled \in Seq(U) /\ tail \in Seq(U)
    BY <1>6, <1>8, <2>1, SeqMonotonic DEF T
  <2> HIDE DEF U
  <2> QED
    BY <2>2, ConcatAssociative DEF found
<1> QED
  BY <1>1, <1>14, <1>15

-----------------------------------------------------------------------------
(* Bins that overrides have left of fresh ones: each takes the place of    *)
(* some of them, its span.                                                 *)
Covers(b, span, bins, kind) ==
  \/ \E k \in DOMAIN bins : span = {k} /\ b = bins[k]
  \/ /\ b.id \notin Ids(bins) /\ b.missing = FALSE /\ b.other = FALSE
     /\ IF kind = "numeric"
        THEN \/ b.lower = Null /\ b.upper = Null
             \/ \E i, j \in DOMAIN bins :
                  i < j /\ span = i .. j /\ b.lower = bins[i].lower /\ b.upper = bins[j].upper
        ELSE b.cats # Null =>
               \A value \in b.cats : \E k \in span : bins[k].cats # Null /\ value \in bins[k].cats

PlacedOn(S, seq, span, bins, kind) ==
  /\ \A m \in S : span[m] \subseteq DOMAIN bins /\ Covers(seq[m], span[m], bins, kind)
  /\ \A m, n \in S : m # n => span[m] \cap span[n] = {}

Placed(now, bins, kind) ==
  \E span \in [DOMAIN now -> SUBSET DOMAIN bins] : PlacedOn(DOMAIN now, now, span, bins, kind)

(* What is taken from placed bins is placed.                               *)
LEMMA PlacedAgain ==
  ASSUME NEW S, NEW seq, NEW span, NEW bins, NEW kind, PlacedOn(S, seq, span, bins, kind),
         NEW now, NEW f,
         \A k \in DOMAIN now : f[k] \in S /\ now[k] = seq[f[k]],
         \A j, k \in DOMAIN now : j # k => f[j] # f[k]
  PROVE Placed(now, bins, kind)
<1> DEFINE again == [k \in DOMAIN now |-> span[f[k]]]
<1>1. \A k \in DOMAIN now : again[k] = span[f[k]]
  OBVIOUS
<1>2. \A k \in DOMAIN now : again[k] \subseteq DOMAIN bins /\ Covers(now[k], again[k], bins, kind)
  BY DEF PlacedOn
<1>3. \A j, k \in DOMAIN now : j # k => again[j] \cap again[k] = {}
  BY DEF PlacedOn
<1>4. again \in [DOMAIN now -> SUBSET DOMAIN bins]
  BY <1>2
<1> HIDE DEF again
<1> QED
  BY <1>2, <1>3, <1>4 DEF PlacedOn, Placed

LEMMA PlacedAt ==
  ASSUME NEW S, NEW seq, NEW span, NEW bins, NEW kind, PlacedOn(S, seq, span, bins, kind),
         S \subseteq Int, IsFiniteSet(S)
  PROVE Placed(At(seq, S), bins, kind)
<1> DEFINE now == At(seq, S)
           order == InOrder(S)
<1>1. /\ DOMAIN now = 1 .. Cardinality(S)
      /\ \A k \in 1 .. Cardinality(S) : order[k] \in S /\ now[k] = seq[order[k]]
  <2>1. DOMAIN order = 1 .. Cardinality(S) /\ \A k \in DOMAIN order : order[k] \in S
    BY InOrderRanks
  <2>2. now = [k \in DOMAIN order |-> seq[order[k]]]
    BY DEF At
  <2> HIDE DEF now, order
  <2> QED
    BY <2>1, <2>2
<1>2. DOMAIN order = 1 .. Cardinality(S) /\ Cardinality(S) \in Nat
  BY InOrderRanks
<1>3. \A j, k \in DOMAIN order : j < k => order[j] < order[k]
  BY InOrderIncreases
<1> HIDE DEF now, order
<1>4. ASSUME NEW j \in DOMAIN now, NEW k \in DOMAIN now, j # k
      PROVE order[j] # order[k]
  <2>1. order[j] \in Int /\ order[k] \in Int /\ j \in Int /\ k \in Int
    <3>1. order[j] \in S /\ order[k] \in S
      BY <1>1
    <3>2. order[j] \in Int /\ order[k] \in Int
      BY <3>1
    <3> QED
      BY <1>1, <3>2
  <2>2. j < k \/ k < j
    BY <1>4, <2>1
  <2> QED
    BY <1>1, <1>2, <1>3, <2>1, <2>2
<1>5. \A k \in DOMAIN now : order[k] \in S /\ now[k] = seq[order[k]]
  BY <1>1
<1>6. Placed(now, bins, kind)
  BY <1>4, <1>5, PlacedAgain
<1> QED
  BY <1>6 DEF now

LEMMA FreshIds ==
  ASSUME NEW bins, NEW kind, Fresh(bins, kind)
  PROVE /\ \A id \in Ids(bins) : PositionOf(id, bins) \in DOMAIN bins
                                 /\ bins[PositionOf(id, bins)].id = id
        /\ \A k \in DOMAIN bins : PositionOf(bins[k].id, bins) = k
        /\ \A label : <<"merged", label>> \notin Ids(bins)
        /\ <<"grouped", 0>> \notin Ids(bins)
<1>1. \A k \in DOMAIN bins : bins[k].id = <<"bin", k>>
  BY DEF Fresh
<1>2. \A id \in Ids(bins) : PositionOf(id, bins) \in DOMAIN bins
                            /\ bins[PositionOf(id, bins)].id = id
  BY DEF Ids, PositionOf
<1>3. \A j, k \in DOMAIN bins : bins[j].id = bins[k].id => j = k
  BY <1>1
<1>4. \A k \in DOMAIN bins : PositionOf(bins[k].id, bins) = k
  BY <1>3 DEF PositionOf
<1>5. \A label : <<"merged", label>> \notin Ids(bins)
  BY <1>1 DEF Ids
<1>6. <<"grouped", 0>> \notin Ids(bins)
  BY <1>1 DEF Ids
<1> QED
  BY <1>2, <1>4, <1>5, <1>6

(* Fresh bins are in their own place.                                      *)
LEMMA PlacedAtFirst ==
  ASSUME NEW bins, NEW kind
  PROVE Placed(bins, bins, kind)
<1> DEFINE span == [k \in DOMAIN bins |-> {k}]
<1>1. \A k \in DOMAIN bins : span[k] = {k} /\ span[k] \subseteq DOMAIN bins
  OBVIOUS
<1>2. span \in [DOMAIN bins -> SUBSET DOMAIN bins]
  OBVIOUS
<1> HIDE DEF span
<1>3. \A k \in DOMAIN bins : Covers(bins[k], span[k], bins, kind)
  BY <1>1 DEF Covers
<1>4. PlacedOn(DOMAIN bins, bins, span, bins, kind)
  BY <1>1, <1>3 DEF PlacedOn
<1> QED
  BY <1>2, <1>4 DEF Placed

(* An id of a fresh bin still names that bin.                              *)
LEMMA IdsRemain ==
  ASSUME NEW bins, NEW kind, Fresh(bins, kind), NEW now, NEW span,
         PlacedOn(DOMAIN now, now, span, bins, kind)
  PROVE /\ \A m \in DOMAIN now : now[m].id \in Ids(bins) =>
              now[m] = BinOf(now[m].id, bins) /\ span[m] = {PositionOf(now[m].id, bins)}
        /\ \A id \in Ids(bins) \cap Ids(now) : BinOf(id, now) = BinOf(id, bins)
<1>1. ASSUME NEW m \in DOMAIN now, now[m].id \in Ids(bins)
      PROVE now[m] = BinOf(now[m].id, bins) /\ span[m] = {PositionOf(now[m].id, bins)}
  <2>1. PICK k \in DOMAIN bins : span[m] = {k} /\ now[m] = bins[k]
    BY <1>1 DEF PlacedOn, Covers
  <2>2. PositionOf(now[m].id, bins) = k
    BY <2>1, FreshIds
  <2> QED
    BY <2>1, <2>2 DEF BinOf
<1>2. ASSUME NEW id \in Ids(bins) \cap Ids(now)
      PROVE BinOf(id, now) = BinOf(id, bins)
  <2>1. PositionOf(id, now) \in DOMAIN now /\ now[PositionOf(id, now)].id = id
    BY DEF Ids, PositionOf
  <2> QED
    BY <1>1, <2>1 DEF BinOf
<1> QED
  BY <1>1, <1>2

LEMMA PlacedSubstitute ==
  ASSUME NEW bins, NEW kind, Fresh(bins, kind), NEW now, Placed(now, bins, kind),
         DOMAIN now \subseteq Nat, IsFiniteSet(DOMAIN now),
         NEW sources, ToSet(sources) # {}, ToSet(sources) \subseteq Ids(bins) \cap Ids(now),
         NEW new, Covers(new, {PositionOf(id, bins) : id \in ToSet(sources)}, bins, kind)
  PROVE Placed(Substitute(now, sources, new), bins, kind)
<1> DEFINE places == {PositionOf(id, now) : id \in ToSet(sources)}
           position == Min(places)
           others == {k \in DOMAIN now : now[k].id \notin ToSet(sources)}
           changed == [now EXCEPT ![position] = new]
           kept == others \cup {position}
           taken == {PositionOf(id, bins) : id \in ToSet(sources)}
<1>1. PICK span \in [DOMAIN now -> SUBSET DOMAIN bins] : PlacedOn(DOMAIN now, now, span, bins, kind)
  BY DEF Placed
<1>2. \A id \in ToSet(sources) :
        PositionOf(id, now) \in DOMAIN now /\ now[PositionOf(id, now)].id = id
  BY DEF Ids, PositionOf
<1>3. position \in DOMAIN now
  <2>1. places \in SUBSET Nat /\ places # {} /\ places \subseteq DOMAIN now
    BY <1>2
  <2> HIDE DEF places
  <2> QED
    BY <2>1, MinOfNaturals
<1> HIDE DEF position
<1>4. /\ changed[position] = new
      /\ \A k \in others : k # position => k \in DOMAIN now /\ changed[k] = now[k]
  BY <1>3
<1>5. Substitute(now, sources, new) = At(changed, kept)
  BY DEF Substitute, position
<1>6. kept \subseteq Int /\ IsFiniteSet(kept) /\ kept \subseteq DOMAIN now
  <2>1. kept \subseteq DOMAIN now
    BY <1>3
  <2> HIDE DEF kept
  <2> QED
    BY <2>1, FS_Subset
<1> DEFINE spans == [k \in kept |-> IF k = position THEN taken ELSE span[k]]
<1>7. \A k \in kept : k # position =>
        spans[k] = span[k] /\ changed[k] = now[k] /\ k \in DOMAIN now
          /\ now[k].id \notin ToSet(sources)
  BY <1>4
<1>8. spans[position] = taken
  OBVIOUS
<1>9. taken \subseteq DOMAIN bins
  BY FreshIds
<1>10. ASSUME NEW k \in kept, k # position PROVE span[k] \cap taken = {}
  <2> SUFFICES ASSUME NEW id \in ToSet(sources), PositionOf(id, bins) \in span[k] PROVE FALSE
    OBVIOUS
  <2> DEFINE m == PositionOf(id, now)
  <2>1. m \in DOMAIN now /\ now[m].id = id
    BY <1>2
  <2>2. span[m] = {PositionOf(id, bins)}
    BY <1>1, <2>1, IdsRemain
  <2>3. m # k /\ k \in DOMAIN now
    BY <1>7, <1>10, <2>1
  <2> HIDE DEF m
  <2> QED
    BY <1>1, <2>1, <2>2, <2>3 DEF PlacedOn
<1> HIDE DEF changed, kept, taken, spans
<1>11. \A k \in kept : spans[k] \subseteq DOMAIN bins /\ Covers(changed[k], spans[k], bins, kind)
  <2>1. Covers(new, taken, bins, kind)
    BY DEF taken
  <2> QED
    BY <1>1, <1>4, <1>7, <1>8, <1>9, <2>1 DEF PlacedOn
<1>12. \A j, k \in kept : j # k => spans[j] \cap spans[k] = {}
  BY <1>1, <1>7, <1>8, <1>10 DEF PlacedOn
<1>13. PlacedOn(kept, changed, spans, bins, kind)
  BY <1>11, <1>12 DEF PlacedOn
<1>14. Placed(At(changed, kept), bins, kind)
  BY <1>6, <1>13, PlacedAt
<1> QED
  BY <1>5, <1>14

(* Adjacent sources are all there is between the first and the last.       *)
LEMMA AdjacentSpan ==
  ASSUME NEW bins, DOMAIN bins \subseteq Nat, NEW sources, sources \in Seq(ToSet(sources)),
         Len(sources) >= 2, Adjacent(sources, bins), ToSet(sources) \subseteq Ids(bins)
  PROVE LET i == PositionOf(sources[1], bins)
            j == PositionOf(sources[Len(sources)], bins)
        IN /\ i \in DOMAIN bins /\ j \in DOMAIN bins /\ i < j
           /\ {PositionOf(id, bins) : id \in ToSet(sources)} = i .. j
<1> DEFINE at == [k \in DOMAIN sources |-> PositionOf(sources[k], bins)]
           size == Len(sources)
           T == {n \in Nat : n + 1 <= size => at[n + 1] = at[1] + n}
<1>1. size \in Nat /\ DOMAIN sources = 1 .. size /\ size >= 2
  BY LenProperties
<1>2. \A id \in Ids(bins) : PositionOf(id, bins) \in DOMAIN bins
  BY DEF Ids, PositionOf
<1>3. \A k \in DOMAIN sources : sources[k] \in ToSet(sources)
  BY DEF ToSet
<1>4. \A k \in 1 .. size :
        at[k] = PositionOf(sources[k], bins) /\ at[k] \in DOMAIN bins /\ at[k] \in Nat
  BY <1>1, <1>2, <1>3
<1>5. \A k \in 2 .. size : at[k] = at[k - 1] + 1
  <2> SUFFICES ASSUME NEW k \in 2 .. size PROVE at[k] = at[k - 1] + 1
    OBVIOUS
  <2>1. PositionOf(sources[k], bins) = PositionOf(sources[k - 1], bins) + 1
    BY DEF Adjacent
  <2>2. k \in 1 .. size /\ k - 1 \in 1 .. size
    BY <1>1
  <2> HIDE DEF at
  <2> QED
    BY <1>4, <2>1, <2>2
<1>6. {PositionOf(id, bins) : id \in ToSet(sources)} = {at[k] : k \in 1 .. size}
  BY <1>1, <1>3 DEF ToSet
<1> HIDE DEF at, size
<1>7. 0 \in T
  BY <1>1, <1>4
<1>8. ASSUME NEW n \in Nat, n \in T PROVE n + 1 \in T
  <2> SUFFICES ASSUME n + 1 + 1 <= size PROVE at[n + 1 + 1] = at[1] + (n + 1)
    OBVIOUS
  <2>1. PICK k \in 2 .. size : k = n + 1 + 1 /\ k - 1 = n + 1
    BY <1>1
  <2>2. at[k] = at[k - 1] + 1
    BY <1>5
  <2>3. at[n + 1] = at[1] + n /\ at[1] \in Nat
    BY <1>1, <1>4, <1>8
  <2> QED
    BY <2>1, <2>2, <2>3
<1>9. Nat \subseteq T
  BY <1>7, <1>8, NaturalsInSet
<1>10. ASSUME NEW k \in 1 .. size PROVE at[k] = at[1] + (k - 1)
  <2>1. k - 1 \in T /\ k - 1 + 1 = k /\ k <= size
    BY <1>1, <1>9
  <2> QED
    BY <2>1
<1> HIDE DEF T
<1>11. 1 \in 1 .. size /\ size \in 1 .. size
  BY <1>1
<1>12. at[1] \in Nat /\ at[size] = at[1] + (size - 1)
  BY <1>4, <1>10, <1>11
<1>13. {at[k] : k \in 1 .. size} = at[1] .. at[size]
  <2>1. \A k \in 1 .. size : at[k] \in at[1] .. at[size]
    BY <1>1, <1>10, <1>12
  <2>2. ASSUME NEW m \in at[1] .. at[size] PROVE \E k \in 1 .. size : at[k] = m
    <3>1. PICK k \in 1 .. size : k = m - at[1] + 1
      BY <1>1, <1>12
    <3>2. at[k] = at[1] + (k - 1)
      BY <1>10
    <3> QED
      BY <1>12, <3>1, <3>2
  <2> QED
    BY <2>1, <2>2
<1>14. at[1] = PositionOf(sources[1], bins) /\ at[size] = PositionOf(sources[size], bins)
  BY <1>4, <1>11
<1>15. at[1] < at[size]
  BY <1>1, <1>12
<1> QED
  BY <1>4, <1>6, <1>11, <1>13, <1>14, <1>15 DEF size

LEMMA PlacedMerged ==
  ASSUME NEW bins, NEW kind, Fresh(bins, kind), DOMAIN bins \subseteq Nat,
         NEW now, Placed(now, bins, kind), DOMAIN now \subseteq Nat, IsFiniteSet(DOMAIN now),
         NEW o, o.sources \in Seq(ToSet(o.sources)), o.action = "merge_bins",
         IsValidOverride(o, bins, kind), ToSet(o.sources) \subseteq Ids(now), ToSet(o.sources) # {}
  PROVE Placed(Substitute(now, o.sources, MergedBin(now, o)), bins, kind)
<1> DEFINE new == MergedBin(now, o)
           sources == o.sources
           taken == {PositionOf(id, bins) : id \in ToSet(sources)}
           i == PositionOf(sources[1], bins)
           j == PositionOf(sources[Len(sources)], bins)
<1>1. ToSet(sources) \subseteq Ids(bins) /\ Len(sources) >= 2
        /\ (kind = "numeric" => Adjacent(sources, bins))
  BY DEF IsValidOverride
<1>2. /\ new.id = <<"merged", o.label>> /\ new.missing = FALSE /\ new.other = FALSE
      /\ new.cats = Null /\ new.lower = BinOf(sources[1], now).lower
      /\ new.upper = BinOf(sources[Len(sources)], now).upper
  BY DEF MergedBin, NewBin
<1>3. sources[1] \in ToSet(sources) /\ sources[Len(sources)] \in ToSet(sources)
  <2>1. Len(sources) \in Nat /\ DOMAIN sources = 1 .. Len(sources)
    BY LenProperties
  <2>2. 1 \in DOMAIN sources /\ Len(sources) \in DOMAIN sources
    BY <1>1, <2>1
  <2> QED
    BY <2>2 DEF ToSet
<1> HIDE DEF new, sources
<1>4. new.lower = bins[i].lower /\ new.upper = bins[j].upper
  <2>1. PICK span \in [DOMAIN now -> SUBSET DOMAIN bins] :
               PlacedOn(DOMAIN now, now, span, bins, kind)
    BY DEF Placed
  <2>2. ToSet(sources) \subseteq Ids(now) \cap Ids(bins)
    BY <1>1 DEF sources
  <2>3. BinOf(sources[1], now) = BinOf(sources[1], bins)
    BY <1>3, <2>1, <2>2, IdsRemain
  <2>4. BinOf(sources[Len(sources)], now) = BinOf(sources[Len(sources)], bins)
    BY <1>3, <2>1, <2>2, IdsRemain
  <2> QED
    BY <1>2, <2>3, <2>4 DEF BinOf
<1>5. new.id \notin Ids(bins)
  BY <1>2, FreshIds
<1>6. Covers(new, taken, bins, kind)
  <2>1. CASE kind = "numeric"
    <3>1. sources \in Seq(ToSet(sources))
      BY DEF sources
    <3>2. i \in DOMAIN bins /\ j \in DOMAIN bins /\ i < j /\ taken = i .. j
      BY <1>1, <2>1, <3>1, AdjacentSpan
    <3> HIDE DEF i, j, taken
    <3> QED
      BY <1>2, <1>4, <1>5, <2>1, <3>2 DEF Covers
  <2>2. CASE kind # "numeric"
    BY <1>2, <1>5, <2>2 DEF Covers
  <2> QED
    BY <2>1, <2>2
<1>7. ToSet(sources) # {} /\ ToSet(sources) \subseteq Ids(bins) \cap Ids(now)
  BY <1>1 DEF sources
<1>8. Placed(Substitute(now, sources, new), bins, kind)
  BY <1>6, <1>7, PlacedSubstitute
<1> QED
  BY <1>8 DEF sources, new

LEMMA PlacedGrouped ==
  ASSUME NEW bins, NEW kind, Fresh(bins, kind), DOMAIN bins \subseteq Nat,
         NEW now, Placed(now, bins, kind), DOMAIN now \subseteq Nat, IsFiniteSet(DOMAIN now),
         NEW o, IsValidOverride(o, bins, kind), ToSet(o.sources) # {},
         ToSet(o.sources) \subseteq Ids(now)
  PROVE Placed(Substitute(now, o.sources, GroupedBin(now, o)), bins, kind)
<1> DEFINE new == GroupedBin(now, o)
           sources == o.sources
           taken == {PositionOf(id, bins) : id \in ToSet(sources)}
<1>1. ToSet(sources) \subseteq Ids(bins)
  BY DEF IsValidOverride
<1>2. /\ new.id = <<"grouped", 0>> /\ new.missing = FALSE /\ new.other = FALSE
      /\ new.lower = Null /\ new.upper = Null
      /\ new.cats = UNION {BinOf(id, now).cats :
                          id \in {id \in ToSet(sources) : BinOf(id, now).cats # Null}}
  BY DEF GroupedBin, NewBin
<1> HIDE DEF new, sources
<1>3. \A id \in ToSet(sources) : BinOf(id, now) = bins[PositionOf(id, bins)]
  <2>1. PICK span \in [DOMAIN now -> SUBSET DOMAIN bins] :
               PlacedOn(DOMAIN now, now, span, bins, kind)
    BY DEF Placed
  <2>2. ToSet(sources) \subseteq Ids(now) \cap Ids(bins)
    BY <1>1 DEF sources
  <2>3. \A id \in ToSet(sources) : BinOf(id, now) = BinOf(id, bins)
    BY <2>1, <2>2, IdsRemain
  <2> QED
    BY <2>3 DEF BinOf
<1>4. new.id \notin Ids(bins)
  BY <1>2, FreshIds
<1>5. \A value \in new.cats : \E k \in taken : bins[k].cats # Null /\ value \in bins[k].cats
  <2> SUFFICES ASSUME NEW value \in new.cats
               PROVE \E k \in taken : bins[k].cats # Null /\ value \in bins[k].cats
    OBVIOUS
  <2>1. PICK id \in ToSet(sources) : BinOf(id, now).cats # Null /\ value \in BinOf(id, now).cats
    BY <1>2
  <2> QED
    BY <1>3, <2>1
<1>6. Covers(new, taken, bins, kind)
  <2> HIDE DEF taken
  <2> QED
    BY <1>2, <1>4, <1>5 DEF Covers
<1>7. ToSet(sources) # {} /\ ToSet(sources) \subseteq Ids(bins) \cap Ids(now)
  BY <1>1 DEF sources
<1>8. Placed(Substitute(now, sources, new), bins, kind)
  BY <1>6, <1>7, PlacedSubstitute
<1> QED
  BY <1>8 DEF sources, new

(* Where the elements of a part come from.                                 *)
IsPart(part, seq, S) ==
  /\ part \in Seq({seq[k] : k \in S})
  /\ \A k \in DOMAIN part : InOrder(S)[k] \in S /\ part[k] = seq[InOrder(S)[k]]
  /\ \A j, k \in DOMAIN part : j # k => InOrder(S)[j] # InOrder(S)[k]

LEMMA PartOf ==
  ASSUME NEW seq, NEW S, S \subseteq Int, IsFiniteSet(S)
  PROVE IsPart(At(seq, S), seq, S)
<1> DEFINE part == At(seq, S)
           order == InOrder(S)
<1>1. /\ DOMAIN order = 1 .. Cardinality(S) /\ Cardinality(S) \in Nat
      /\ \A k \in DOMAIN order : order[k] \in S
  BY InOrderRanks
<1>2. part = [k \in DOMAIN order |-> seq[order[k]]]
  BY DEF At
<1>3. part \in Seq({seq[k] : k \in S})
  BY AtPositions
<1>4. \A j, k \in DOMAIN order : j < k => order[j] < order[k]
  BY InOrderIncreases
<1> HIDE DEF part, order
<1>5. ASSUME NEW j \in DOMAIN part, NEW k \in DOMAIN part, j # k
      PROVE order[j] # order[k]
  <2>1. order[j] \in S /\ order[k] \in S
    BY <1>1, <1>2
  <2>2. order[j] \in Int /\ order[k] \in Int
    BY <2>1
  <2>3. j \in Int /\ k \in Int
    BY <1>1, <1>2
  <2>4. j < k \/ k < j
    BY <1>5, <2>3
  <2> QED
    BY <1>1, <1>2, <1>4, <2>2, <2>4
<1>6. \A k \in DOMAIN part : order[k] \in S /\ part[k] = seq[order[k]]
  BY <1>1, <1>2
<1> QED
  BY <1>3, <1>5, <1>6 DEF IsPart, part, order

(* Two parts that have nothing in common, one behind the other.            *)
LEMMA PlacedParts ==
  ASSUME NEW bins, NEW kind, NEW now, Placed(now, bins, kind), NEW S, NEW M,
         S \subseteq DOMAIN now, M \subseteq DOMAIN now, S \cap M = {},
         DOMAIN now \subseteq Nat, IsFiniteSet(DOMAIN now)
  PROVE Placed(At(now, S) \o At(now, M), bins, kind)
<1> DEFINE a == At(now, S)
           b == At(now, M)
           c == a \o b
           T == {now[k] : k \in S} \cup {now[k] : k \in M}
           f == [k \in DOMAIN c |-> IF k <= Len(a) THEN InOrder(S)[k] ELSE InOrder(M)[k - Len(a)]]
<1>1. PICK span \in [DOMAIN now -> SUBSET DOMAIN bins] : PlacedOn(DOMAIN now, now, span, bins, kind)
  BY DEF Placed
<1>2. S \subseteq Int /\ IsFiniteSet(S) /\ M \subseteq Int /\ IsFiniteSet(M)
  BY FS_Subset
<1>3. IsPart(a, now, S) /\ IsPart(b, now, M)
  BY <1>2, PartOf
<1> HIDE DEF a, b
<1>4. /\ a \in Seq({now[k] : k \in S})
      /\ \A k \in DOMAIN a : InOrder(S)[k] \in S /\ a[k] = now[InOrder(S)[k]]
      /\ \A j, k \in DOMAIN a : j # k => InOrder(S)[j] # InOrder(S)[k]
  BY <1>3 DEF IsPart
<1>5. /\ b \in Seq({now[k] : k \in M})
      /\ \A k \in DOMAIN b : InOrder(M)[k] \in M /\ b[k] = now[InOrder(M)[k]]
      /\ \A j, k \in DOMAIN b : j # k => InOrder(M)[j] # InOrder(M)[k]
  BY <1>3 DEF IsPart
<1>6. a \in Seq(T) /\ b \in Seq(T)
  BY <1>4, <1>5, SeqMonotonic
<1> HIDE DEF T
<1>7. /\ c \in Seq(T) /\ Len(c) = Len(a) + Len(b)
      /\ \A k \in 1 .. Len(a) + Len(b) : c[k] = IF k <= Len(a) THEN a[k] ELSE b[k - Len(a)]
  BY <1>6, ConcatProperties
<1>8. /\ Len(a) \in Nat /\ DOMAIN a = 1 .. Len(a) /\ Len(b) \in Nat /\ DOMAIN b = 1 .. Len(b)
      /\ DOMAIN c = 1 .. Len(a) + Len(b)
  BY <1>6, <1>7, LenProperties
<1> HIDE DEF c
<1>9. ASSUME NEW k \in DOMAIN c
      PROVE \/ k \in DOMAIN a /\ c[k] = a[k] /\ f[k] = InOrder(S)[k]
            \/ k - Len(a) \in DOMAIN b /\ c[k] = b[k - Len(a)] /\ f[k] = InOrder(M)[k - Len(a)]
  <2>1. k \in Nat /\ 1 <= k /\ k <= Len(a) + Len(b)
    BY <1>8
  <2>2. CASE k <= Len(a)
    BY <1>7, <1>8, <2>1, <2>2
  <2>3. CASE ~(k <= Len(a))
    <3>1. k - Len(a) \in DOMAIN b
      BY <1>8, <2>1, <2>3
    <3>2. c[k] = b[k - Len(a)]
      BY <1>7, <2>1, <2>3
    <3> QED
      BY <2>3, <3>1, <3>2
  <2> QED
    BY <2>2, <2>3
<1> HIDE DEF f
<1>10. \A k \in DOMAIN c : f[k] \in DOMAIN now /\ c[k] = now[f[k]]
  <2> SUFFICES ASSUME NEW k \in DOMAIN c PROVE f[k] \in DOMAIN now /\ c[k] = now[f[k]]
    OBVIOUS
  <2>1. CASE k \in DOMAIN a /\ c[k] = a[k] /\ f[k] = InOrder(S)[k]
    BY <1>4, <2>1
  <2>2. CASE k - Len(a) \in DOMAIN b /\ c[k] = b[k - Len(a)] /\ f[k] = InOrder(M)[k - Len(a)]
    BY <1>5, <2>2
  <2> QED
    BY <1>9, <2>1, <2>2
<1>11. ASSUME NEW j \in DOMAIN c, NEW k \in DOMAIN c, j # k PROVE f[j] # f[k]
  <2>1. j \in Int /\ k \in Int /\ Len(a) \in Int /\ j - Len(a) # k - Len(a)
    BY <1>8, <1>11
  <2>2. CASE j \in DOMAIN a /\ f[j] = InOrder(S)[j]
    <3>1. CASE k \in DOMAIN a /\ f[k] = InOrder(S)[k]
      BY <1>4, <1>11, <2>2, <3>1
    <3>2. CASE k - Len(a) \in DOMAIN b /\ f[k] = InOrder(M)[k - Len(a)]
      BY <1>4, <1>5, <2>2, <3>2
    <3> QED
      BY <1>9, <3>1, <3>2
  <2>3. CASE j - Len(a) \in DOMAIN b /\ f[j] = InOrder(M)[j - Len(a)]
    <3>1. CASE k \in DOMAIN a /\ f[k] = InOrder(S)[k]
      BY <1>4, <1>5, <2>3, <3>1
    <3>2. CASE k - Len(a) \in DOMAIN b /\ f[k] = InOrder(M)[k - Len(a)]
      BY <1>5, <2>1, <2>3, <3>2
    <3> QED
      BY <1>9, <3>1, <3>2
  <2> QED
    BY <1>9, <2>2, <2>3
<1>12. Placed(c, bins, kind)
  BY <1>1, <1>10, <1>11, PlacedAgain
<1> QED
  BY <1>12 DEF a, b, c

LEMMA PlacedOverridden ==
  ASSUME NEW bins, NEW kind, Fresh(bins, kind), DOMAIN bins \subseteq Nat,
         NEW now, Placed(now, bins, kind), DOMAIN now \subseteq Nat, IsFiniteSet(DOMAIN now),
         NEW o, o.sources \in Seq(ToSet(o.sources)), IsValidOverride(o, bins, kind),
         UsesBins(o) => ToSet(o.sources) # {} /\ ToSet(o.sources) \subseteq Ids(now)
  PROVE Placed(Overridden(now, o), bins, kind)
<1>1. CASE o.action = "merge_bins"
  <2>1. Overridden(now, o) = Substitute(now, o.sources, MergedBin(now, o))
    BY <1>1 DEF Overridden
  <2>2. ToSet(o.sources) # {} /\ ToSet(o.sources) \subseteq Ids(now)
    BY <1>1 DEF UsesBins
  <2> QED
    BY <1>1, <2>1, <2>2, PlacedMerged
<1>2. CASE o.action = "group_categories"
  <2>1. Overridden(now, o) = Substitute(now, o.sources, GroupedBin(now, o))
    BY <1>2 DEF Overridden
  <2>2. ToSet(o.sources) # {} /\ ToSet(o.sources) \subseteq Ids(now)
    BY <1>2 DEF UsesBins
  <2> QED
    BY <2>1, <2>2, PlacedGrouped
<1>3. CASE o.action = "reorder_missing_bin"
  <2> DEFINE missing == {k \in DOMAIN now : now[k].missing}
             rest == DOMAIN now \ missing
  <2>1. Overridden(now, o) = At(now, rest) \o At(now, missing)
    BY <1>3 DEF Overridden
  <2>2. rest \subseteq DOMAIN now /\ missing \subseteq DOMAIN now /\ rest \cap missing = {}
    OBVIOUS
  <2> HIDE DEF rest, missing
  <2> QED
    BY <2>1, <2>2, PlacedParts
<1>4. CASE o.action \notin {"merge_bins", "group_categories", "reorder_missing_bin"}
  <2>1. Overridden(now, o) = now
    BY <1>4 DEF Overridden
  <2> QED
    BY <2>1
<1> QED
  BY <1>1, <1>2, <1>3, <1>4

LEMMA PlacedStages ==
  ASSUME NEW bins, NEW kind, Fresh(bins, kind), Ordered(bins, kind),
         NEW os, Len(os) \in Nat, DOMAIN os = 1 .. Len(os),
         \A n \in DOMAIN os : /\ os[n].sources \in Seq(ToSet(os[n].sources))
                              /\ IsValidOverride(os[n], bins, kind),
         CanApply(bins, os)
  PROVE Placed(AfterOverrides(bins, os), bins, kind)
<1> DEFINE after == Stages(bins, os)
           T == {n \in Nat : n <= Len(os) =>
                  Ordered(after[n], kind) /\ Placed(after[n], bins, kind)}
<1>1. after = [n \in 0 .. Len(os) |-> IF n = 0 THEN bins ELSE Overridden(after[n - 1], os[n])]
  BY StagesExist
<1>2. \A n \in DOMAIN os : UsesBins(os[n]) =>
        os[n].sources # <<>> /\ ToSet(os[n].sources) \subseteq Ids(after[n - 1])
  BY DEF CanApply
<1> HIDE DEF after
<1>3. 0 \in T
  <2>1. after[0] = bins
    BY <1>1
  <2> QED
    BY <2>1, PlacedAtFirst
<1>4. ASSUME NEW n \in Nat, n \in T PROVE n + 1 \in T
  <2> SUFFICES ASSUME n + 1 <= Len(os)
               PROVE Ordered(after[n + 1], kind) /\ Placed(after[n + 1], bins, kind)
    OBVIOUS
  <2>1. PICK k \in DOMAIN os : k = n + 1 /\ k - 1 = n
    OBVIOUS
  <2> DEFINE o == os[k]
  <2>2. after[n + 1] = Overridden(after[n], o)
    BY <1>1, <2>1
  <2>3. Ordered(after[n], kind) /\ Placed(after[n], bins, kind)
    BY <1>4
  <2>4. o.sources \in Seq(ToSet(o.sources)) /\ IsValidOverride(o, bins, kind)
    OBVIOUS
  <2>5. UsesBins(o) => ToSet(o.sources) # {} /\ ToSet(o.sources) \subseteq Ids(after[n])
    <3> SUFFICES ASSUME UsesBins(o)
                 PROVE ToSet(o.sources) # {} /\ ToSet(o.sources) \subseteq Ids(after[n])
      OBVIOUS
    <3>1. o.sources # <<>> /\ ToSet(o.sources) \subseteq Ids(after[k - 1])
      BY <1>2
    <3> HIDE DEF o
    <3>2. 1 \in DOMAIN o.sources
      BY <2>4, <3>1, EmptySeq, LenProperties
    <3>3. ToSet(o.sources) # {}
      BY <3>2 DEF ToSet
    <3> QED
      BY <2>1, <3>1, <3>3
  <2> HIDE DEF o
  <2>6. DOMAIN bins \subseteq Nat /\ DOMAIN after[n] \subseteq Nat /\ IsFiniteSet(DOMAIN after[n])
    BY <2>3, OrderedDomain
  <2>7. Ordered(Overridden(after[n], o), kind)
    BY <2>3, <2>5, OrderedOverridden
  <2>8. Placed(Overridden(after[n], o), bins, kind)
    BY <2>3, <2>4, <2>5, <2>6, PlacedOverridden
  <2> QED
    BY <2>2, <2>7, <2>8
<1>5. Len(os) \in T
  BY <1>3, <1>4, NaturalsInSet
<1> QED
  BY <1>5 DEF AfterOverrides, after

-----------------------------------------------------------------------------
(* No value is in two of the bins that are left.                           *)

(* A numeric bin with a mask reaches from one of the first bins to another.*)
Reaches(b, span, bins) ==
  \E i, j \in DOMAIN bins :
    /\ i <= j /\ span = i .. j /\ ~bins[j].missing
    /\ b.lower = bins[i].lower /\ b.upper = bins[j].upper

LEMMA Reach ==
  ASSUME NEW bins, NEW b, NEW span, Fresh(bins, "numeric"), DOMAIN bins \subseteq Nat \ {0},
         Covers(b, span, bins, "numeric"), HasMask(b, "numeric"), b.missing = FALSE
  PROVE Reaches(b, span, bins)
<1>1. CASE \E k \in DOMAIN bins : span = {k} /\ b = bins[k]
  <2>1. PICK k \in DOMAIN bins : span = {k} /\ b = bins[k]
    BY <1>1
  <2>2. k \in Nat /\ k .. k = {k}
    OBVIOUS
  <2> QED
    BY <2>1, <2>2 DEF Reaches
<1>2. CASE \E i, j \in DOMAIN bins :
             i < j /\ span = i .. j /\ b.lower = bins[i].lower /\ b.upper = bins[j].upper
  <2>1. PICK i, j \in DOMAIN bins :
          i < j /\ span = i .. j /\ b.lower = bins[i].lower /\ b.upper = bins[j].upper
    BY <1>2
  <2>2. i \in Nat /\ j \in Nat /\ j # 1 /\ i <= j
    BY <2>1
  <2>3. ~bins[j].missing
    BY <2>2 DEF Fresh
  <2> QED
    BY <2>1, <2>2, <2>3 DEF Reaches
<1>3. b.lower # Null \/ b.upper # Null
  BY DEF HasMask
<1> QED
  BY <1>1, <1>2, <1>3 DEF Covers

LEMMA ApartNumbers ==
  ASSUME NEW bins, Fresh(bins, "numeric"), DOMAIN bins \subseteq Nat \ {0},
         NEW a, NEW b, NEW spanA, NEW spanB, spanA \cap spanB = {},
         Covers(a, spanA, bins, "numeric"), HasMask(a, "numeric"), a.missing = FALSE,
         Covers(b, spanB, bins, "numeric"), HasMask(b, "numeric"), b.missing = FALSE,
         NEW value \in Int
  PROVE ~ (WithinBounds(value, a) /\ WithinBounds(value, b))
<1>1. PICK i, j \in DOMAIN bins :
        /\ i <= j /\ spanA = i .. j /\ ~bins[j].missing
        /\ a.lower = bins[i].lower /\ a.upper = bins[j].upper
  <2>1. Reaches(a, spanA, bins)
    BY Reach
  <2> QED
    BY <2>1 DEF Reaches
<1>2. PICK k, m \in DOMAIN bins :
        /\ k <= m /\ spanB = k .. m /\ ~bins[m].missing
        /\ b.lower = bins[k].lower /\ b.upper = bins[m].upper
  <2>1. Reaches(b, spanB, bins)
    BY Reach
  <2> QED
    BY <2>1 DEF Reaches
<1>3. i \in Nat \ {0} /\ j \in Nat \ {0} /\ k \in Nat \ {0} /\ m \in Nat \ {0}
  OBVIOUS
<1>4. j < k \/ m < i
  <2> SUFFICES ASSUME ~ (j < k), ~ (m < i) PROVE FALSE
    OBVIOUS
  <2>1. k <= j /\ i <= m
    BY <1>3
  <2>2. CASE i <= k
    <3>1. k \in i .. j /\ k \in k .. m
      BY <1>1, <1>2, <1>3, <2>1, <2>2
    <3> QED
      BY <1>1, <1>2, <3>1
  <2>3. CASE k <= i
    <3>1. i \in i .. j /\ i \in k .. m
      BY <1>1, <1>2, <1>3, <2>1, <2>3
    <3> QED
      BY <1>1, <1>2, <3>1
  <2> QED
    BY <1>3, <2>2, <2>3
<1>5. CASE j < k
  <2>1. k # 1 /\ ~bins[k].missing
    BY <1>3, <1>5 DEF Fresh
  <2>2. FreshPair(bins[j], bins[k], "numeric")
    BY <1>5 DEF Fresh
  <2>3. bins[j].upper \in Int /\ bins[k].lower \in Int /\ bins[j].upper <= bins[k].lower
    BY <1>1, <2>1, <2>2 DEF FreshPair
  <2>4. a.upper \in Int /\ b.lower \in Int /\ a.upper <= b.lower /\ a.upper # Null /\ b.lower # Null
    BY <1>1, <1>2, <2>3, NullAssumption
  <2> QED
    BY <2>4 DEF WithinBounds
<1>6. CASE m < i
  <2>1. i # 1 /\ ~bins[i].missing
    BY <1>3, <1>6 DEF Fresh
  <2>2. FreshPair(bins[m], bins[i], "numeric")
    BY <1>6 DEF Fresh
  <2>3. bins[m].upper \in Int /\ bins[i].lower \in Int /\ bins[m].upper <= bins[i].lower
    BY <1>2, <2>1, <2>2 DEF FreshPair
  <2>4. b.upper \in Int /\ a.lower \in Int /\ b.upper <= a.lower /\ b.upper # Null /\ a.lower # Null
    BY <1>1, <1>2, <2>3, NullAssumption
  <2> QED
    BY <2>4 DEF WithinBounds
<1> QED
  BY <1>4, <1>5, <1>6

(* A bin with levels has only levels of its span.                          *)
LEMMA ApartLevels ==
  ASSUME NEW bins, NEW kind, kind # "numeric", Fresh(bins, kind), DOMAIN bins \subseteq Nat \ {0},
         NEW a, NEW b, NEW spanA, NEW spanB, spanA \cap spanB = {},
         spanA \subseteq DOMAIN bins, spanB \subseteq DOMAIN bins,
         Covers(a, spanA, bins, kind), Covers(b, spanB, bins, kind),
         a.cats # Null, b.cats # Null
  PROVE a.cats \cap b.cats = {}
<1>1. ASSUME NEW c, NEW span, Covers(c, span, bins, kind), c.cats # Null, NEW value \in c.cats
      PROVE \E k \in span : bins[k].cats # Null /\ value \in bins[k].cats
  BY <1>1 DEF Covers
<1> SUFFICES ASSUME NEW value \in a.cats, value \in b.cats PROVE FALSE
  OBVIOUS
<1>2. PICK j \in spanA : bins[j].cats # Null /\ value \in bins[j].cats
  BY <1>1
<1>3. PICK k \in spanB : bins[k].cats # Null /\ value \in bins[k].cats
  BY <1>1
<1>4. j \in DOMAIN bins /\ k \in DOMAIN bins /\ j \in Nat /\ k \in Nat /\ (j < k \/ k < j)
  BY <1>2, <1>3
<1>5. FreshPair(bins[j], bins[k], kind) \/ FreshPair(bins[k], bins[j], kind)
  BY <1>4 DEF Fresh
<1> QED
  BY <1>2, <1>3, <1>5 DEF FreshPair

LEMMA ApartPlaced ==
  ASSUME NEW bins, NEW kind, Fresh(bins, kind), DOMAIN bins \subseteq Nat \ {0},
         NEW now, Placed(now, bins, kind), Ordered(now, kind),
         \A m \in DOMAIN now : HasMask(now[m], kind),
         NEW value, kind = "numeric" => value \in Int \cup {Null},
         NEW m \in DOMAIN now, NEW n \in DOMAIN now, m # n
  PROVE ~ (InBin(value, now[m], now, kind) /\ InBin(value, now[n], now, kind))
<1> DEFINE a == now[m]
           b == now[n]
<1>1. PICK span \in [DOMAIN now -> SUBSET DOMAIN bins] : PlacedOn(DOMAIN now, now, span, bins, kind)
  BY DEF Placed
<1>2. /\ Covers(a, span[m], bins, kind) /\ Covers(b, span[n], bins, kind)
      /\ span[m] \cap span[n] = {} /\ span[m] \subseteq DOMAIN bins /\ span[n] \subseteq DOMAIN bins
  BY <1>1 DEF PlacedOn
<1>3. /\ a.missing \in BOOLEAN /\ a.other \in BOOLEAN /\ b.missing \in BOOLEAN
      /\ b.other \in BOOLEAN
      /\ HasMask(a, kind) /\ HasMask(b, kind)
  BY DEF Ordered
<1>4. ~ (a.missing /\ b.missing)
  <2> SUFFICES ASSUME a.missing, b.missing PROVE FALSE
    OBVIOUS
  <2>1. PICK j \in DOMAIN bins : span[m] = {j} /\ a = bins[j]
    BY <1>2 DEF Covers
  <2>2. PICK k \in DOMAIN bins : span[n] = {k} /\ b = bins[k]
    BY <1>2 DEF Covers
  <2>3. j = 1 /\ k = 1
    BY <2>1, <2>2 DEF Fresh
  <2> QED
    BY <1>2, <2>1, <2>2, <2>3
<1>5. ~ (a.other /\ b.other /\ kind # "numeric")
  <2> SUFFICES ASSUME a.other, b.other, kind # "numeric" PROVE FALSE
    OBVIOUS
  <2>1. PICK j \in DOMAIN bins : span[m] = {j} /\ a = bins[j]
    BY <1>2 DEF Covers
  <2>2. PICK k \in DOMAIN bins : span[n] = {k} /\ b = bins[k]
    BY <1>2 DEF Covers
  <2>3. j # k /\ j \in Nat /\ k \in Nat
    BY <1>2, <2>1, <2>2
  <2>4. FreshPair(bins[j], bins[k], kind) \/ FreshPair(bins[k], bins[j], kind)
    BY <2>3 DEF Fresh
  <2> QED
    BY <2>1, <2>2, <2>4 DEF FreshPair
<1>6. ASSUME NEW k \in DOMAIN now, ~now[k].missing, ~now[k].other, now[k].cats # Null
      PROVE now[k].cats \subseteq NamedLevels(now)
  <2> DEFINE named == {i \in DOMAIN now : ~now[i].missing /\ ~now[i].other /\ now[i].cats # Null}
  <2>1. k \in named
    BY <1>6
  <2>2. NamedLevels(now) = UNION {now[i].cats : i \in named}
    BY DEF NamedLevels
  <2> HIDE DEF named
  <2> QED
    BY <2>1, <2>2
<1>7. /\ ~a.missing /\ ~a.other /\ a.cats # Null => a.cats \subseteq NamedLevels(now)
      /\ ~b.missing /\ ~b.other /\ b.cats # Null => b.cats \subseteq NamedLevels(now)
  <2>1. ~a.missing /\ ~a.other /\ a.cats # Null => a.cats \subseteq NamedLevels(now)
    BY <1>6
  <2>2. ~b.missing /\ ~b.other /\ b.cats # Null => b.cats \subseteq NamedLevels(now)
    BY <1>6
  <2> QED
    BY <2>1, <2>2
<1> HIDE DEF a, b
<1> SUFFICES ASSUME InBin(value, a, now, kind), InBin(value, b, now, kind) PROVE FALSE
  BY DEF a, b
<1>8. CASE kind = "numeric"
  <2>1. a.missing = FALSE /\ b.missing = FALSE /\ WithinBounds(value, a) /\ WithinBounds(value, b)
        /\ value # Null
    BY <1>3, <1>4, <1>8 DEF InBin
  <2> QED
    BY <1>2, <1>3, <1>8, <2>1, ApartNumbers
<1>9. CASE kind # "numeric"
  <2>1. /\ a.missing => value = Null
        /\ ~a.missing /\ a.other => value # Null /\ value \notin NamedLevels(now)
        /\ ~a.missing /\ ~a.other => value # Null /\ a.cats # Null /\ value \in a.cats
    BY <1>3, <1>9 DEF InBin
  <2>2. /\ b.missing => value = Null
        /\ ~b.missing /\ b.other => value # Null /\ value \notin NamedLevels(now)
        /\ ~b.missing /\ ~b.other => value # Null /\ b.cats # Null /\ value \in b.cats
    BY <1>3, <1>9 DEF InBin
  <2>3. a.cats # Null /\ b.cats # Null => a.cats \cap b.cats = {}
    BY <1>2, <1>9, ApartLevels
  <2> QED
    BY <1>3, <1>4, <1>5, <1>7, <1>9, <2>1, <2>2, <2>3
<1> QED
  BY <1>8, <1>9

-----------------------------------------------------------------------------
(* The bins that a binning makes of a column.                              *)
IsBinning(bins, kind) ==
  \/ /\ kind = "numeric"
     /\ \E column : \E maxBins \in Int, separate \in BOOLEAN :
          IsNumeric(column) /\ bins = NumericBins(column, maxBins, separate)
  \/ /\ kind # "numeric"
     /\ \E column : \E order \in LevelOrders(column) : \E maxLevels \in Nat, separate \in BOOLEAN :
          /\ IsFiniteSet(DOMAIN column)
          /\ bins = CategoricalBins(column, order, maxLevels, separate)

(* However the overrides of an analyst merge, group and move the bins of a *)
(* binning, one after the other, no value is in two of those that are left *)
(* if each has a mask: though an override is validated against the first   *)
(* bins only, and what earlier ones have left of them is not looked at.    *)
THEOREM BinsStayApart ==
  ASSUME NEW bins, NEW kind, IsBinning(bins, kind),
         NEW os, Len(os) \in Nat, DOMAIN os = 1 .. Len(os),
         \A n \in DOMAIN os : /\ os[n].sources \in Seq(ToSet(os[n].sources))
                              /\ IsValidOverride(os[n], bins, kind),
         CanApply(bins, os),
         NEW now, now = AfterOverrides(bins, os), \A m \in DOMAIN now : HasMask(now[m], kind),
         NEW value, kind = "numeric" => value \in Int \cup {Null},
         NEW m \in DOMAIN now, NEW n \in DOMAIN now, m # n
  PROVE ~ (InBin(value, now[m], now, kind) /\ InBin(value, now[n], now, kind))
<1>1. Fresh(bins, kind) /\ Ordered(bins, kind)
  <2>1. CASE kind = "numeric"
    <3>1. PICK column : \E maxBins \in Int, separate \in BOOLEAN :
            IsNumeric(column) /\ bins = NumericBins(column, maxBins, separate)
      BY <2>1 DEF IsBinning
    <3>2. PICK maxBins \in Int, separate \in BOOLEAN :
            IsNumeric(column) /\ bins = NumericBins(column, maxBins, separate)
      BY <3>1
    <3>3. Fresh(bins, kind)
      BY <2>1, <3>2, NumericBinsFresh
    <3>4. Plain(bins)
      BY <3>2, NumericBinsPlain DEF IsNumeric
    <3> QED
      BY <3>3, <3>4, PlainIsOrdered
  <2>2. CASE kind # "numeric"
    <3>1. PICK column : \E order \in LevelOrders(column) :
            \E maxLevels \in Nat, separate \in BOOLEAN :
              /\ IsFiniteSet(DOMAIN column)
              /\ bins = CategoricalBins(column, order, maxLevels, separate)
      BY <2>2 DEF IsBinning
    <3>2. PICK order \in LevelOrders(column), maxLevels \in Nat, separate \in BOOLEAN :
            /\ IsFiniteSet(DOMAIN column)
            /\ bins = CategoricalBins(column, order, maxLevels, separate)
      BY <3>1
    <3> QED
      BY <2>2, <3>2, CategoricalBinsFresh, CategoricalBinsOrdered
  <2> QED
    BY <2>1, <2>2
<1>2. Ordered(now, kind) /\ Placed(now, bins, kind)
  BY <1>1, OrderedStages, PlacedStages
<1>3. DOMAIN bins \subseteq Nat \ {0}
  BY <1>1, OrderedDomain
<1> QED
  BY <1>1, <1>2, <1>3, ApartPlaced

=============================================================================
