-------------------------- MODULE TargetForecasts_proofs --------------------------
(* Proofs about the engines that TargetForecasts uses, for any numbers, and    *)
(* about the loop over the targets, for any lists.                             *)
EXTENDS TargetForecasts, Folds_proofs

\* What the heuristic is given: numbers or nothing, and flags.
HeuristicInput(v) ==
    /\ v.rank \in Int \cup {Null} /\ v.seats \in Int \cup {Null}
    /\ v.score \in Int \cup {Null} /\ v.priority \in Int \cup {Null}
    /\ v.bvi \in BOOLEAN /\ v.complete \in BOOLEAN

-----------------------------------------------------------------------------
(* Arithmetic.                                                                 *)

LEMMA ClampBounds ==
    ASSUME NEW x \in Int, NEW low \in Int, NEW high \in Int, low <= high
    PROVE  Clamp(x, low, high) \in low..high
BY DEF Clamp, Larger, Smaller

LEMMA ClampMonotone ==
    ASSUME NEW x \in Int, NEW y \in Int, NEW low \in Int, NEW high \in Int, x <= y
    PROVE  Clamp(x, low, high) <= Clamp(y, low, high)
BY DEF Clamp, Larger, Smaller

LEMMA QuotientBounds ==
    ASSUME NEW a \in Int, NEW b \in Nat \ {0}
    PROVE  /\ a \div b \in Int
           /\ b * (a \div b) <= a
           /\ a < b * (a \div b) + b
OBVIOUS

LEMMA QuotientUnique ==
    ASSUME NEW a \in Int, NEW b \in Nat \ {0}, NEW q \in Int,
           b * q <= a, a < b * q + b
    PROVE  a \div b = q
<1> DEFINE p == a \div b
<1>1. p \in Int /\ b * p <= a /\ a < b * p + b
  BY QuotientBounds
<1> HIDE DEF p
<1>2. b * p < b * (q + 1) /\ b * q < b * (p + 1)
  BY <1>1
<1>3. p < q + 1 /\ q < p + 1
  BY <1>1, <1>2
<1> QED
  BY <1>1, <1>3 DEF p

LEMMA RoundedInt ==
    ASSUME NEW a \in Int, NEW b \in Nat \ {0}
    PROVE  Rounded(a, b) \in Int
BY DEF Rounded

LEMMA RoundedMonotone ==
    ASSUME NEW a \in Int, NEW c \in Int, NEW b \in Nat \ {0}, a <= c
    PROVE  Rounded(a, b) <= Rounded(c, b)
<1> DEFINE d == 2 * b
           p == (2 * a + b) \div d
           q == (2 * c + b) \div d
<1>1. d \in Nat \ {0} /\ 2 * a + b \in Int /\ 2 * c + b \in Int
  OBVIOUS
<1>2. p \in Int /\ q \in Int /\ d * p <= 2 * a + b /\ 2 * c + b < d * q + d
  BY <1>1, QuotientBounds
<1>3. d * p < d * (q + 1)
  BY <1>1, <1>2
<1>4. p < q + 1
  BY <1>1, <1>2, <1>3
<1> QED
  BY <1>2, <1>4 DEF Rounded

\* A share of k out of n, in ten-thousandths.
LEMMA ShareBounds ==
    ASSUME NEW n \in Nat \ {0}, NEW k \in 0..n
    PROVE  /\ Rounded(One * k, n) \in 0..One
           /\ Rounded(One * n, n) = One
<1>1. Rounded(0, n) = 0
  <2>1. (2 * n) * 0 <= n /\ n < (2 * n) * 0 + 2 * n
    OBVIOUS
  <2>2. n \div (2 * n) = 0
    BY <2>1, QuotientUnique
  <2> QED
    BY <2>2 DEF Rounded
<1>2. Rounded(One * n, n) = One
  <2> DEFINE a == 2 * (One * n) + n
  <2>1. /\ a \in Int /\ One \in Int
        /\ (2 * n) * One <= a /\ a < (2 * n) * One + 2 * n
    BY DEF One
  <2> HIDE DEF a
  <2>2. a \div (2 * n) = One
    BY <2>1, QuotientUnique
  <2> QED
    BY <2>2 DEF Rounded, a
<1>3. 0 <= One * k /\ One * k <= One * n /\ One * k \in Int /\ One * n \in Int
  BY DEF One
<1>4. Rounded(One * k, n) \in Int
  BY <1>3, RoundedInt
<1>5. Rounded(0, n) <= Rounded(One * k, n) /\ Rounded(One * k, n) <= Rounded(One * n, n)
  BY <1>3, RoundedMonotone
<1>6. One \in Int
  BY DEF One
<1> QED
  BY <1>1, <1>2, <1>4, <1>5, <1>6

-----------------------------------------------------------------------------
(* The heuristic engine.                                                       *)

LEMMA PlaceInt ==
    ASSUME NEW v, HeuristicInput(v)
    PROVE  Place(v) \in Int
<1>1. CASE v.rank = Null \/ ~SeatsKnown(v)
  BY <1>1 DEF Place
<1>2. CASE v.rank # Null /\ SeatsKnown(v)
  <2>1. v.rank \in Int /\ v.seats \in Nat \ {0}
    BY <1>2 DEF HeuristicInput, SeatsKnown
  <2>2. Rounded(8000 * (v.seats - v.rank), v.seats) \in Int
    BY <2>1, RoundedInt
  <2> QED
    BY <1>2, <2>2, ClampBounds DEF Place
<1> QED
  BY <1>1, <1>2

LEMMA ModifiersInt ==
    ASSUME NEW v, HeuristicInput(v)
    PROVE  Modifiers(v) \in Int
<1> DEFINE score == IF v.score \in {Null, 0} THEN 200 ELSE v.score
           priority == IF v.priority \in {Null, 0} THEN 10 ELSE v.priority
<1>1. 10 * (score - 200) \in Int /\ 10 * (10 - priority) \in Int
  BY DEF HeuristicInput
<1>2. /\ Clamp(10 * (score - 200), -300, 300) \in Int
      /\ Clamp(10 * (10 - priority), -100, 100) \in Int
  BY <1>1 DEF Clamp, Larger, Smaller
<1> QED
  BY <1>2 DEF Modifiers

LEMMA BaseInt ==
    ASSUME NEW v, HeuristicInput(v)
    PROVE  Base(v) \in Int
BY PlaceInt, ModifiersInt DEF Base

LEMMA WidthNat ==
    ASSUME NEW v, HeuristicInput(v)
    PROVE  Width(v) \in Nat
BY DEF Width, HeuristicInput

\* AdmissionProbabilityEngine.calculate gives an interval of probabilities
\* whatever numbers it is given: the checks probability_low_range,
\* probability_high_range and probability_order of forecast_runs hold of it.
THEOREM HeuristicIsProbability ==
    ASSUME NEW v, HeuristicInput(v)
    PROVE  RowAllowed(Heuristic(v))
<1>1. Base(v) \in Int /\ Width(v) \in Nat /\ One \in Int /\ 0 <= One
  BY BaseInt, WidthNat DEF One
<1>2. /\ Clamp(Base(v) - Width(v), 0, One) \in 0..One
      /\ Clamp(Base(v) + Width(v), 0, One) \in 0..One
  BY <1>1 DEF Clamp, Larger, Smaller
<1>3. Clamp(Base(v) - Width(v), 0, One) <= Clamp(Base(v) + Width(v), 0, One)
  BY <1>1, ClampMonotone
<1> QED
  BY <1>1, <1>2, <1>3 DEF RowAllowed, Heuristic

\* Of two inputs that differ in the rank only the better one gets no less: the
\* clamps and roundings keep the order.
LEMMA HeuristicMonotone ==
    ASSUME NEW v, NEW w, HeuristicInput(v), HeuristicInput(w),
           v.rank \in Int, w.rank \in Int, v.rank <= w.rank,
           v.seats = w.seats, v.condition = w.condition, v.score = w.score,
           v.priority = w.priority, v.consent = w.consent, v.bvi = w.bvi,
           v.complete = w.complete
    PROVE  /\ Heuristic(v).low >= Heuristic(w).low
           /\ Heuristic(v).high >= Heuristic(w).high
<1>0. Null \notin Int
  BY ForecastAssumption
<1>1. Place(w) <= Place(v)
  <2>1. CASE ~SeatsKnown(v)
    BY <1>0, <2>1 DEF Place, SeatsKnown
  <2>2. CASE SeatsKnown(v)
    <3>1. SeatsKnown(w) /\ v.seats \in Nat \ {0} /\ v.rank # Null /\ w.rank # Null
      BY <1>0, <2>2 DEF SeatsKnown, HeuristicInput
    <3>2. 8000 * (w.seats - w.rank) <= 8000 * (v.seats - v.rank)
      BY <3>1
    <3>3. Rounded(8000 * (w.seats - w.rank), w.seats)
            <= Rounded(8000 * (v.seats - v.rank), v.seats)
      BY <3>1, <3>2, RoundedMonotone
    <3>4. /\ Rounded(8000 * (w.seats - w.rank), w.seats) \in Int
          /\ Rounded(8000 * (v.seats - v.rank), v.seats) \in Int
      BY <3>1, RoundedInt
    <3> QED
      BY <2>2, <3>1, <3>3, <3>4, ClampMonotone DEF Place
  <2> QED
    BY <2>1, <2>2
<1>2. Modifiers(v) = Modifiers(w)
  BY DEF Modifiers
<1>3. Width(v) = Width(w)
  BY <1>0 DEF Width, SeatsKnown
<1>4. Base(w) <= Base(v)
  BY <1>1, <1>2, PlaceInt, ModifiersInt DEF Base
<1>5. Base(v) \in Int /\ Base(w) \in Int /\ Width(v) \in Nat /\ One \in Int
  BY BaseInt, WidthNat DEF One
<1>6. /\ Clamp(Base(w) - Width(w), 0, One) <= Clamp(Base(v) - Width(v), 0, One)
      /\ Clamp(Base(w) + Width(w), 0, One) <= Clamp(Base(v) + Width(v), 0, One)
  BY <1>3, <1>4, <1>5, ClampMonotone
<1>7. /\ Clamp(Base(w) - Width(w), 0, One) \in Int /\ Clamp(Base(v) - Width(v), 0, One) \in Int
      /\ Clamp(Base(w) + Width(w), 0, One) \in Int /\ Clamp(Base(v) + Width(v), 0, One) \in Int
  BY <1>3, <1>5 DEF Clamp, Larger, Smaller
<1> QED
  BY <1>6, <1>7 DEF Heuristic

-----------------------------------------------------------------------------
(* The probabilistic engine.                                                   *)

LEMMA AdmittedShare ==
    ASSUME NEW ahead \in Nat, NEW s \in Simulations(ahead), NEW seats \in Int
    PROVE  /\ Admitted(s, seats) \in 0..One
           /\ ahead < seats => Admitted(s, seats) = One
<1> DEFINE runs == {i \in DOMAIN s : s[i] + 1 <= seats}
<1>1. SimulationRuns \in Nat \ {0} /\ DOMAIN s = 1..SimulationRuns
  BY ForecastAssumption DEF Simulations
<1>2. IsFiniteSet(1..SimulationRuns) /\ Cardinality(1..SimulationRuns) = SimulationRuns
  BY <1>1, FS_Interval
<1>3. runs \subseteq 1..SimulationRuns
  BY <1>1
<1>4. Cardinality(runs) \in 0..SimulationRuns
  BY <1>1, <1>2, <1>3, FS_Subset, FS_CardinalityType
<1>5. Admitted(s, seats) \in 0..One
  BY <1>1, <1>4, ShareBounds DEF Admitted
<1>6. ASSUME ahead < seats PROVE runs = 1..SimulationRuns
  BY <1>1, <1>6 DEF Simulations
<1>7. ASSUME ahead < seats PROVE Admitted(s, seats) = One
  <2>1. Cardinality(runs) = SimulationRuns
    BY <1>2, <1>6, <1>7
  <2> QED
    BY <1>1, <2>1, ShareBounds DEF Admitted
<1> QED
  BY <1>5, <1>7

LEMMA QuantilePlace ==
    ASSUME NEW q \in {1, 9}
    PROVE  1 + Rounded((SimulationRuns - 1) * q, 10) \in 1..SimulationRuns
<1> DEFINE m == SimulationRuns - 1
           p == (2 * (m * q) + 10) \div 20
<1>1. m \in Nat /\ SimulationRuns = m + 1
  BY ForecastAssumption
<1>2. m * q \in Nat /\ m * q <= 9 * m
  BY <1>1
<1> HIDE DEF m
<1>3. p \in Int /\ 20 * p <= 2 * (m * q) + 10 /\ 2 * (m * q) + 10 < 20 * p + 20
  BY <1>2, QuotientBounds
<1>4. p \in 0..m
  BY <1>1, <1>2, <1>3
<1>5. Rounded((SimulationRuns - 1) * q, 10) = p
  BY DEF Rounded, m
<1> HIDE DEF p
<1> QED
  BY <1>1, <1>4, <1>5

LEMMA QuantileBounds ==
    ASSUME NEW ahead \in Nat, NEW s \in Simulations(ahead)
    PROVE  /\ Quantile(s, 1) \in 1..(ahead + 1) /\ Quantile(s, 9) \in 1..(ahead + 1)
           /\ Quantile(s, 1) <= Quantile(s, 9)
<1> DEFINE i == 1 + Rounded((SimulationRuns - 1) * 1, 10)
           j == 1 + Rounded((SimulationRuns - 1) * 9, 10)
<1>1. i \in 1..SimulationRuns /\ j \in 1..SimulationRuns
  BY QuantilePlace
<1>2. i <= j
  <2>1. SimulationRuns - 1 \in Nat
    BY ForecastAssumption
  <2>2. Rounded((SimulationRuns - 1) * 1, 10) <= Rounded((SimulationRuns - 1) * 9, 10)
    BY <2>1, RoundedMonotone
  <2>3. /\ Rounded((SimulationRuns - 1) * 1, 10) \in Int
        /\ Rounded((SimulationRuns - 1) * 9, 10) \in Int
    BY <2>1, RoundedInt
  <2> QED
    BY <2>2, <2>3
<1> HIDE DEF i, j
<1>3. s[i] \in 0..ahead /\ s[j] \in 0..ahead /\ s[i] <= s[j]
  BY <1>1, <1>2 DEF Simulations
<1>4. Quantile(s, 1) = s[i] + 1 /\ Quantile(s, 9) = s[j] + 1
  BY DEF Quantile, i, j
<1> QED
  BY <1>3, <1>4

\* ProbabilisticAdmissionEngine.calculate, whatever its random draws are: the
\* checks of forecast_runs hold of what it returns, the ranks lie between the
\* first place and the last of the candidates', and who has fewer candidates
\* ahead than there are seats is admitted for certain.
THEOREM EveryDrawIsAdmissible ==
    ASSUME NEW v, v.seats \in Int, NEW ahead \in Nat, NEW f \in ProbabilisticOutputs(v, ahead)
    PROVE  /\ RowAllowed(f)
           /\ f.rankMin \in 1..f.rankMax /\ f.rankMax \in 1..(ahead + 1)
           /\ ahead < v.seats => f.low = One /\ f.high = One
<1>1. PICK c \in Simulations(ahead), stay \in Simulations(ahead), leave \in Simulations(ahead) :
         f = Probabilistic(v, c, stay, leave)
  BY DEF ProbabilisticOutputs
<1>2. /\ f.low = Smaller(Admitted(stay, v.seats), Admitted(leave, v.seats))
      /\ f.high = Larger(Admitted(stay, v.seats), Admitted(leave, v.seats))
      /\ f.rankMin = Quantile(c, 1) /\ f.rankMax = Quantile(c, 9)
  BY <1>1 DEF Probabilistic
<1>3. /\ Admitted(stay, v.seats) \in 0..One /\ Admitted(leave, v.seats) \in 0..One
      /\ ahead < v.seats => Admitted(stay, v.seats) = One /\ Admitted(leave, v.seats) = One
  BY AdmittedShare
<1>4. RowAllowed(f)
  <2> DEFINE x == Admitted(stay, v.seats)
             y == Admitted(leave, v.seats)
  <2>1. x \in 0..One /\ y \in 0..One
    BY <1>3
  <2>2. f.low = Smaller(x, y) /\ f.high = Larger(x, y)
    BY <1>2
  <2>3. One \in Int
    BY DEF One
  <2> HIDE DEF x, y
  <2> QED
    BY <2>1, <2>2, <2>3 DEF RowAllowed, Smaller, Larger
<1>5. f.rankMin \in 1..f.rankMax /\ f.rankMax \in 1..(ahead + 1)
  BY <1>2, QuantileBounds
<1>6. ahead < v.seats => f.low = One /\ f.high = One
  BY <1>2, <1>3 DEF Smaller, Larger
<1> QED
  BY <1>4, <1>5, <1>6

-----------------------------------------------------------------------------
(* Lists of finitely many applications.                                        *)

\* What the model reads of a page is a sequence.
LEMMA ApplicationsType ==
    ASSUME NEW p \in Pages \cup EarlierPages
    PROVE  \E U : Applications(p) \in Seq(U)
<1> DEFINE Part(i) == [k \in DOMAIN p.records[Conditions[i]] |->
                         Application(p.records[Conditions[i]][k], Conditions[i])]
           U == UNION {ToSet(Part(i)) : i \in DOMAIN Conditions}
           parts == [i \in DOMAIN Conditions |-> Part(i)]
<1>1. DOMAIN Conditions = 1..5 /\ \A i \in 1..5 : Conditions[i] \in Condition
  BY DEF Conditions, Condition, ToSet
<1>2. \A i \in 1..5 : Part(i) \in Seq(U)
  <2> SUFFICES ASSUME NEW i \in 1..5 PROVE Part(i) \in Seq(U)
    OBVIOUS
  <2>1. p.records[Conditions[i]] \in Seq(ToSet(p.records[Conditions[i]]))
    BY <1>1, RecordsAssumption
  <2> DEFINE n == Len(p.records[Conditions[i]])
  <2>2. n \in Nat /\ DOMAIN p.records[Conditions[i]] = 1..n
    BY <2>1
  <2>3. \A k \in 1..n : Part(i)[k] \in U
    <3> TAKE k \in 1..n
    <3>1. Part(i)[k] \in ToSet(Part(i))
      BY <2>2 DEF ToSet
    <3>2. i \in DOMAIN Conditions
      BY <1>1
    <3> QED
      BY <3>1, <3>2, Zenon
  <2> HIDE DEF n, U
  <2> QED
    BY <2>2, <2>3
<1>3. parts \in Seq(Seq(U))
  <2> HIDE DEF Part, U
  <2>1. parts \in [1..5 -> Seq(U)]
    BY <1>1, <1>2
  <2> DEFINE V == Seq(U)
  <2> HIDE DEF parts, V
  <2>2. parts \in [1..5 -> V]
    BY <2>1 DEF V
  <2>3. parts \in Seq(V)
    BY <2>2, FunctionIsSeq
  <2> QED
    BY <2>3 DEF V
<1>4. Applications(p) = FlattenSeq(parts)
  BY DEF Applications
<1> HIDE DEF parts, U
<1> QED
  BY <1>3, <1>4, FlattenSeqType

LEMMA ListIsFinite ==
    ASSUME NEW p \in Pages \cup EarlierPages
    PROVE  IsFiniteSet(ToSet(Applications(p)))
BY ApplicationsType, FiniteToSet

LEMMA UidsFinite ==
    ASSUME NEW apps, IsFiniteSet(ToSet(apps)), NEW c
    PROVE  IsFiniteSet(UidsWith(apps, c))
<1> DEFINE S == {b \in ToSet(apps) : b.condition = c}
           f == [b \in S |-> b.uid]
<1>1. IsFiniteSet(S)
  BY FS_Subset
<1>2. f \in Surjection(S, UidsWith(apps, c))
  BY DEF Surjection, UidsWith
<1> HIDE DEF S, f
<1> QED
  BY <1>1, <1>2, FS_Surjection

\* Everybody ahead has a place of their own above that of the applicant.
LEMMA FewerAheadThanRank ==
    ASSUME NEW U, Current \in Seq(U), InOrder(Current), Storable(Current),
           \A b \in ToSet(Current) : b.rank \in Int,
           NEW a \in ToSet(Current)
    PROVE  /\ IsFiniteSet(Ahead(a))
           /\ Cardinality(Ahead(a)) <= a.rank - 1
<1> DEFINE f == [b \in Ahead(a) |-> b.rank]
<1>1. IsFiniteSet(Ahead(a))
  BY FiniteToSet, FS_Subset DEF Ahead
<1>2. a.rank \in Int /\ a.rank > 0
  BY DEF Storable, ToSet
<1>3. f \in Injection(Ahead(a), 1..(a.rank - 1))
  <2>1. \A b \in Ahead(a) : b.rank \in 1..(a.rank - 1)
    BY <1>2 DEF Ahead, Storable, ToSet
  <2>2. ASSUME NEW b \in Ahead(a), NEW c \in Ahead(a), b.rank = c.rank
        PROVE  b = c
    <3>1. PICK i \in DOMAIN Current : b = Current[i]
      BY DEF Ahead, ToSet
    <3>2. PICK j \in DOMAIN Current : c = Current[j]
      BY DEF Ahead, ToSet
    <3>3. Current[i].condition = Current[j].condition
      BY <3>1, <3>2 DEF Ahead
    <3>4. ~(i < j) /\ ~(j < i)
      BY <2>2, <3>1, <3>2, <3>3 DEF InOrder, Ahead
    <3> QED
      BY <3>1, <3>2, <3>4
  <2> QED
    BY <2>1, <2>2 DEF Injection, IsInjective
<1>4. IsFiniteSet(1..(a.rank - 1)) /\ Cardinality(1..(a.rank - 1)) = a.rank - 1
  <2> DEFINE m == a.rank - 1
  <2>1. m \in Nat
    BY <1>2
  <2> HIDE DEF m
  <2>2. IsFiniteSet(1..m) /\ Cardinality(1..m) = m
    BY <2>1, FS_Interval
  <2> QED
    BY <2>2 DEF m
<1>5. Cardinality(Ahead(a)) <= Cardinality(1..(a.rank - 1))
  BY <1>3, <1>4, FS_Injection
<1> QED
  BY <1>1, <1>4, <1>5

-----------------------------------------------------------------------------
(* The input of the engines.                                                   *)

LEMMA StayAdjustmentBounds ==
    ASSUME NEW a, a.priority \in Int \cup {Null}
    PROVE  StayAdjustment(a) \in -2000..1600
<1> DEFINE x == CASE a.consent = TRUE -> 1200 [] a.consent = FALSE -> -1800 [] OTHER -> 0
           y == CASE a.priority = 1 -> 400
                  [] a.priority # 1 /\ a.priority # Null /\ a.priority > 3 -> -200
                  [] OTHER -> 0
<1>1. x \in {1200, -1800, 0}
  <2>1. CASE a.consent = TRUE
    BY <2>1
  <2>2. CASE a.consent = FALSE
    BY <2>2
  <2>3. CASE a.consent # TRUE /\ a.consent # FALSE
    BY <2>3
  <2> QED
    BY <2>1, <2>2, <2>3
<1>2. y \in {400, -200, 0}
  <2>1. CASE a.priority = 1
    BY <2>1
  <2>2. CASE a.priority # 1 /\ a.priority # Null /\ a.priority > 3
    BY <2>2
  <2>3. CASE ~(a.priority = 1) /\ ~(a.priority # 1 /\ a.priority # Null /\ a.priority > 3)
    BY <2>3
  <2> QED
    BY <2>1, <2>2, <2>3
<1>3. StayAdjustment(a) = x + y
  BY DEF StayAdjustment
<1> HIDE DEF x, y
<1> QED
  BY <1>1, <1>2, <1>3

\* The cohorts are the candidates ahead that are not expected elsewhere, each
\* counted once, and none of them is empty.
LEMMA CohortsPartition ==
    ASSUME NEW a, IsFiniteSet(Ahead(a))
    PROVE  /\ \A c \in Cohorts(a) :
                /\ c.count \in Nat \ {0}
                /\ \E b \in Ahead(a) : c.adjustment = StayAdjustment(b)
           /\ CandidatesAhead(Input(a)) = Cardinality(Ahead(a) \ Excluded(a))
<1> DEFINE counted == Ahead(a) \ Excluded(a)
           With(s) == {b \in counted : StayAdjustment(b) = s}
           cohort == [b \in counted |-> [count      |-> Cardinality(With(StayAdjustment(b))),
                                         adjustment |-> StayAdjustment(b)]]
           S == Cohorts(a)
           F == [c \in S |-> c.count]
           P == [c \in S |-> With(c.adjustment)]
<1>1. IsFiniteSet(counted) /\ \A s : IsFiniteSet(With(s))
  <2>1. IsFiniteSet(counted)
    BY FS_Subset
  <2> HIDE DEF counted
  <2> QED
    BY <2>1, FS_Subset
<1>2. S = {cohort[b] : b \in counted}
  <2>1. S = {[count |-> Cardinality(With(s)), adjustment |-> s] :
                s \in {StayAdjustment(b) : b \in counted}}
    BY DEF Cohorts
  <2> HIDE DEF S, With, counted
  <2> QED
    BY <2>1
<1>3. IsFiniteSet(S)
  <2>1. cohort \in Surjection(counted, S)
    <3> HIDE DEF S, With, counted
    <3> QED
      BY <1>2 DEF Surjection
  <2> HIDE DEF cohort, S, counted
  <2> QED
    BY <1>1, <2>1, FS_Surjection
<1>4. ASSUME NEW c \in S
      PROVE  /\ c.count = Cardinality(With(c.adjustment))
             /\ c.count \in Nat \ {0}
             /\ \E b \in Ahead(a) : c.adjustment = StayAdjustment(b)
             /\ c = [count |-> Cardinality(With(c.adjustment)), adjustment |-> c.adjustment]
  <2>1. PICK b \in counted : c = cohort[b]
    BY <1>2
  <2>2. b \in With(StayAdjustment(b))
    OBVIOUS
  <2> DEFINE W == With(StayAdjustment(b))
  <2>3. IsFiniteSet(W) /\ W # {}
    BY <1>1, <2>2
  <2> HIDE DEF W
  <2>4. Cardinality(W) \in Nat /\ Cardinality(W) # 0
    BY <2>3, FS_EmptySet, FS_CardinalityType
  <2>5. c = [count |-> Cardinality(W), adjustment |-> StayAdjustment(b)]
    <3> HIDE DEF With, counted
    <3> QED
      BY <2>1 DEF W
  <2>6. c.adjustment = StayAdjustment(b)
    BY <2>5
  <2>7. b \in Ahead(a)
    OBVIOUS
  <2> HIDE DEF With
  <2> QED
    BY <2>4, <2>5, <2>6, <2>7 DEF W
<1>5. F \in [S -> Nat]
  <2> HIDE DEF S
  <2> QED
    BY <1>4
<1>6. \A c \in S : IsFiniteSet(P[c]) /\ Cardinality(P[c]) = F[c]
  <2> HIDE DEF S, With
  <2> QED
    BY <1>1, <1>4
<1>7. \A c, d \in S : c # d => P[c] \cap P[d] = {}
  <2> SUFFICES ASSUME NEW c \in S, NEW d \in S, c # d PROVE P[c] \cap P[d] = {}
    OBVIOUS
  <2>1. c.adjustment # d.adjustment
    <3> HIDE DEF S, With
    <3> QED
      BY <1>4
  <2>2. With(c.adjustment) \cap With(d.adjustment) = {}
    BY <2>1
  <2> HIDE DEF S, With
  <2> QED
    BY <2>2
<1>8. UNION {P[c] : c \in S} = counted
  <2>1. \A c \in S : P[c] \subseteq counted
    <3> HIDE DEF S
    <3> QED
      OBVIOUS
  <2>2. ASSUME NEW b \in counted PROVE \E c \in S : b \in P[c]
    <3>1. cohort[b] \in S
      BY <1>2
    <3>2. cohort[b].adjustment = StayAdjustment(b)
      <4> HIDE DEF With, counted
      <4> QED
        OBVIOUS
    <3>3. b \in With(StayAdjustment(b))
      OBVIOUS
    <3> HIDE DEF S, With, cohort, counted
    <3> QED
      BY <3>1, <3>2, <3>3
  <2> HIDE DEF S, P, counted
  <2> QED
    BY <2>1, <2>2
<1>9. SumFunction(F) = Cardinality(counted)
  <2> HIDE DEF F, P, S, counted
  <2>1. SumFunction(F) = Cardinality(UNION {P[c] : c \in S})
    BY <1>3, <1>5, <1>6, <1>7, SumOfParts
  <2> QED
    BY <1>8, <2>1
<1>10. CandidatesAhead(Input(a)) = SumFunction(F)
  <2>1. Input(a).cohorts = S
    BY DEF Input
  <2> HIDE DEF S
  <2> QED
    BY <2>1, Zenon DEF CandidatesAhead
<1> HIDE DEF F
<1> QED
  BY <1>4, <1>9, <1>10

\* The candidates that are counted and those that are not are ahead of the
\* applicant, and that there are fewer of them than the place says.
LEMMA CandidatesFitRank ==
    ASSUME NEW U, Current \in Seq(U), InOrder(Current), Storable(Current),
           \A b \in ToSet(Current) : b.rank \in Int,
           NEW a \in ToSet(Current)
    PROVE  /\ CandidatesAhead(Input(a)) \in Nat
           /\ Input(a).excluded \in Nat
           /\ CandidatesAhead(Input(a)) + Input(a).excluded <= Input(a).rank - 1
<1> DEFINE all == Ahead(a)
           out == Excluded(a)
<1>1. IsFiniteSet(all) /\ Cardinality(all) <= a.rank - 1
  BY FewerAheadThanRank
<1>2. CandidatesAhead(Input(a)) = Cardinality(all \ out)
  BY <1>1, CohortsPartition
<1>3. Input(a).excluded = Cardinality(out) /\ Input(a).rank = a.rank
  BY DEF Input
<1>4. out \subseteq all
  BY DEF Excluded
<1> HIDE DEF all, out
<1>5. all \cap out = out
  BY <1>4
<1>6. IsFiniteSet(out) /\ IsFiniteSet(all \ out)
  BY <1>1, <1>4, FS_Subset
<1>7. Cardinality(all \ out) = Cardinality(all) - Cardinality(all \cap out)
  BY <1>1, FS_Difference, Zenon
<1>8. Cardinality(all) \in Nat /\ Cardinality(out) \in Nat /\ Cardinality(all \ out) \in Nat
  BY <1>1, <1>6, FS_CardinalityType
<1>9. a.rank \in Int
  OBVIOUS
<1> DEFINE x == Cardinality(all)
           y == Cardinality(out)
           z == Cardinality(all \ out)
<1>10. x \in Nat /\ y \in Nat /\ z \in Nat /\ z = x - y /\ x <= a.rank - 1
  BY <1>1, <1>5, <1>7, <1>8
<1>11. CandidatesAhead(Input(a)) = z /\ Input(a).excluded = y /\ Input(a).rank = a.rank
  BY <1>2, <1>3
<1> HIDE DEF x, y, z
<1> QED
  BY <1>9, <1>10, <1>11

\* A calibration has observations and never more retained than observed.
LEMMA CalibrationBounds ==
    ASSUME NEW c, Calibrated(c), Len(history) \in Nat \ {0},
           \A i \in 1..Len(history) : IsFiniteSet(ToSet(history[i]))
    PROVE  /\ Calibration(c).observations \in Nat \ {0}
           /\ Calibration(c).retained \in 0..Calibration(c).observations
           /\ Calibration(c).snapshots = Len(history)
<1> DEFINE pairs == 1..(Len(history) - 1)
           Left(i) == UidsWith(history[i], c)
           observed == [i \in pairs |-> Cardinality(Left(i))]
           kept == [i \in pairs |-> Cardinality(Left(i) \cap Left(i + 1))]
<1>1. IsFiniteSet(pairs)
  BY FS_Interval
<1>2. \A i \in 1..Len(history) : IsFiniteSet(Left(i))
  BY UidsFinite
<1>3. \A i \in pairs : /\ Cardinality(Left(i)) \in Nat
                       /\ Cardinality(Left(i) \cap Left(i + 1)) \in Nat
                       /\ Cardinality(Left(i) \cap Left(i + 1)) <= Cardinality(Left(i))
  <2> TAKE i \in pairs
  <2> DEFINE L == Left(i)
             M == Left(i) \cap Left(i + 1)
  <2>1. IsFiniteSet(L) /\ M \in SUBSET L
    BY <1>2
  <2> HIDE DEF L, M
  <2>2. Cardinality(L) \in Nat /\ Cardinality(M) \in Nat /\ Cardinality(M) <= Cardinality(L)
    BY <2>1, FS_Subset, FS_CardinalityType
  <2> QED
    BY <2>2 DEF L, M
<1>0. \A i \in pairs : i \in 1..Len(history)
  OBVIOUS
<1> HIDE DEF Left, pairs
<1>4. /\ observed \in [pairs -> Nat] /\ observed \in [pairs -> Int]
      /\ kept \in [pairs -> Nat] /\ kept \in [pairs -> Int]
      /\ \A i \in pairs : kept[i] <= observed[i]
  <2>1. observed \in [pairs -> Nat]
    BY <1>3
  <2>2. kept \in [pairs -> Nat]
    BY <1>3
  <2>3. \A i \in pairs : kept[i] <= observed[i]
    <3> TAKE i \in pairs
    <3>1. kept[i] = Cardinality(Left(i) \cap Left(i + 1))
      OBVIOUS
    <3>2. observed[i] = Cardinality(Left(i))
      OBVIOUS
    <3> QED
      BY <1>3, <3>1, <3>2
  <2> HIDE DEF observed, kept
  <2> QED
    BY <2>1, <2>2, <2>3
<1>5. PICK i \in pairs : Left(i) # {}
  BY DEF Calibrated, Left, pairs
<1>6. observed[i] \in Nat \ {0}
  <2>1. IsFiniteSet(Left(i)) /\ Cardinality(Left(i)) \in Nat
    BY <1>0, <1>2, <1>3
  <2>2. Cardinality(Left(i)) # 0
    BY <1>5, <2>1, FS_EmptySet
  <2> QED
    BY <2>1, <2>2
<1>7. /\ Calibration(c).observations = SumFunction(observed)
      /\ Calibration(c).retained = SumFunction(kept)
      /\ Calibration(c).snapshots = Len(history)
  BY DEF Calibration, Left, pairs
<1> HIDE DEF observed, kept
<1>8. SumFunction(kept) <= SumFunction(observed)
  BY <1>1, <1>4, SumMonotone
<1>9. SumFunction(kept) \in Nat /\ SumFunction(observed) \in Nat
  BY <1>1, <1>4, SumOfNaturals
<1>10. observed[i] <= SumFunction(observed)
  BY <1>1, <1>4, SumOfNaturals
<1> QED
  BY <1>6, <1>7, <1>8, <1>9, <1>10

-----------------------------------------------------------------------------
(* The loop over the targets.                                                  *)

\* The history of the group ends with the list of the new page, every list of
\* it is one the site published, and the loop starts with enough of them.
Lists ==
    /\ page \in Pages /\ Stored(page) /\ Current = Applications(page)
    /\ Len(history) \in Nat \ {0}
    /\ \A i \in 1..Len(history) :
          \E p \in Pages \cup EarlierPages : history[i] = Applications(p)
    /\ pc = "targets" => Len(history) >= MinHistory

LEMMA AppendedLists ==
    ASSUME NEW n \in Nat, NEW S, NEW s \in [1..n -> S], NEW last \in S
    PROVE  /\ Append(s, last)[Len(Append(s, last))] = last
           /\ Len(Append(s, last)) \in Nat \ {0}
           /\ \A i \in 1..Len(Append(s, last)) : Append(s, last)[i] \in S
<1>1. s \in Seq(S)
  OBVIOUS
<1> QED
  BY <1>1

LEMMA ListsInvariant == Spec => []Lists
<1>1. Init => Lists
  <2> SUFFICES ASSUME Init PROVE Lists
    OBVIOUS
  <2>0. PICK n \in Snapshots :
           \E earlier \in [1..(n - 1) -> {p \in EarlierPages : Stored(p)}] :
              history = Append([i \in 1..(n - 1) |-> Applications(earlier[i])],
                               Applications(page))
    BY DEF Init
  <2>1. PICK earlier \in [1..(n - 1) -> {p \in EarlierPages : Stored(p)}] :
           history = Append([i \in 1..(n - 1) |-> Applications(earlier[i])],
                            Applications(page))
    BY <2>0
  <2>2. n - 1 \in Nat
    BY ForecastAssumption
  <2> DEFINE S == {Applications(p) : p \in Pages \cup EarlierPages}
             before == [i \in 1..(n - 1) |-> Applications(earlier[i])]
  <2>3. page \in Pages /\ Stored(page) /\ pc = "history"
    BY DEF Init
  <2>4. before \in [1..(n - 1) -> S] /\ Applications(page) \in S
    BY <2>3
  <2>5. /\ Current = Applications(page) /\ Len(history) \in Nat \ {0}
        /\ \A i \in 1..Len(history) : history[i] \in S
    <3> HIDE DEF S, before
    <3> DEFINE h == Append(before, Applications(page))
    <3>1. h[Len(h)] = Applications(page) /\ Len(h) \in Nat \ {0} /\ \A i \in 1..Len(h) : h[i] \in S
      BY <2>2, <2>4, AppendedLists
    <3>2. history = h
      BY <2>1 DEF before
    <3> HIDE DEF h
    <3> QED
      BY <3>1, <3>2 DEF Current
  <2> QED
    BY <2>3, <2>5 DEF Lists
<1>2. Lists /\ [Next]_vars => Lists'
  <2> SUFFICES ASSUME Lists, [Next]_vars PROVE Lists'
    OBVIOUS
  <2>1. UNCHANGED <<history, page>>
    BY DEF Next, CheckHistory, Skip, ForecastTarget, Finish, vars
  <2>2. pc' = "targets" => pc = "targets" \/ Len(history) >= MinHistory
    <3>1. CASE CheckHistory
      BY <3>1, ForecastAssumption DEF CheckHistory, Lists
    <3>2. CASE \E t \in Tracked : ForecastTarget(t)
      BY <3>2 DEF ForecastTarget
    <3>3. CASE Finish \/ (\E t \in Tracked : Skip(t)) \/ UNCHANGED vars
      BY <3>3 DEF Finish, Skip, vars
    <3> QED
      BY <3>1, <3>2, <3>3 DEF Next
  <2> QED
    BY <2>1, <2>2 DEF Lists, Current
<1> QED
  BY <1>1, <1>2, PTL DEF Spec

\* The applications of the new list, as the parser and the tables leave them.
LEMMA CurrentIsValid ==
    ASSUME Lists
    PROVE  /\ \E U : Current \in Seq(U)
           /\ InOrder(Current) /\ Storable(Current)
           /\ \A a \in ToSet(Current) :
                /\ a.rank \in Int /\ a.rank > 0
                /\ a.score \in 0..400 \cup {Null} /\ a.priority \in Int \cup {Null}
                /\ SeatCount(a.condition) \in (Nat \ {0}) \cup {Null}
<1>1. \E U : Current \in Seq(U)
  BY ApplicationsType DEF Lists
<1>2. InOrder(Current) /\ Storable(Current)
  BY DEF Lists, Stored, Accepted, Valid
<1>3. ASSUME NEW a \in ToSet(Current)
      PROVE  /\ a.rank \in Int /\ a.rank > 0
             /\ a.score \in 0..400 \cup {Null} /\ a.priority \in Int \cup {Null}
             /\ SeatCount(a.condition) \in (Nat \ {0}) \cup {Null}
  <2>1. PICK i \in DOMAIN Applications(page) : a = Applications(page)[i]
    BY DEF Lists, ToSet
  <2>2. /\ a.rank \in Int
        /\ a.priority \in Int \cup {Null}
        /\ SeatCounts(page)[a.condition] \in Int \cup {Null}
    BY <2>1, NumbersAssumption DEF Lists, Stored
  <2>3. a.rank > 0 /\ a.score \in 0..400 \cup {Null}
    BY <2>1 DEF Lists, Stored, Storable, Accepted, Valid
  <2>4. SeatCount(a.condition) \in (Nat \ {0}) \cup {Null}
    BY <2>2 DEF SeatCount
  <2> QED
    BY <2>2, <2>3, <2>4
<1> QED
  BY <1>1, <1>2, <1>3

LEMMA HistoryIsFinite ==
    ASSUME Lists
    PROVE  \A i \in 1..Len(history) : IsFiniteSet(ToSet(history[i]))
BY ListIsFinite DEF Lists

\* No engine refuses what the loop gives it, and the table takes what they say.
LEMMA EnginesAccept ==
    ASSUME Lists, pc = "targets", NEW a \in ToSet(Current),
           SeatCount(a.condition) # Null, Calibrated(a.condition)
    PROVE  /\ ~HeuristicRefuses(Input(a)) /\ ~ProbabilisticRefuses(Input(a))
           /\ RowAllowed(Heuristic(Input(a)))
           /\ \A p \in ProbabilisticOutputs(Input(a), CandidatesAhead(Input(a))) : RowAllowed(p)
<1> DEFINE v == Input(a)
<1>0. Null \notin Int
  BY ForecastAssumption
<1>1. /\ v.rank = a.rank /\ v.seats = SeatCount(a.condition) /\ v.score = a.score
      /\ v.priority = a.priority /\ v.bvi = FALSE /\ v.complete = TRUE
      /\ v.calibration = Calibration(a.condition) /\ v.cohorts = Cohorts(a)
  BY DEF Input
<1>2. /\ v.rank \in Nat \ {0} /\ v.seats \in Nat \ {0}
      /\ v.score \in 0..400 \cup {Null} /\ v.priority \in Int \cup {Null}
  BY <1>1, CurrentIsValid
<1>3. PICK U : Current \in Seq(U)
  BY CurrentIsValid
<1>4. CandidatesAhead(v) \in Nat
  BY <1>3, CurrentIsValid, CandidatesFitRank
<1>5. /\ v.calibration.observations \in Nat \ {0}
      /\ v.calibration.retained \in 0..v.calibration.observations
      /\ v.calibration.snapshots \in Nat /\ v.calibration.snapshots >= 3
  <2>1. Len(history) \in Nat \ {0} /\ Len(history) >= 3
    BY ForecastAssumption DEF Lists
  <2>2. /\ Calibration(a.condition).observations \in Nat \ {0}
        /\ Calibration(a.condition).retained \in 0..Calibration(a.condition).observations
        /\ Calibration(a.condition).snapshots = Len(history)
    BY <2>1, HistoryIsFinite, CalibrationBounds
  <2> HIDE DEF v
  <2> QED
    BY <1>1, <2>1, <2>2
<1>6. ASSUME NEW c \in v.cohorts
      PROVE  c.count \in Nat \ {0} /\ c.adjustment \in -One..One
  <2>1. c \in Cohorts(a)
    BY <1>1, Zenon
  <2>2. IsFiniteSet(Ahead(a))
    BY <1>3, CurrentIsValid, FewerAheadThanRank
  <2>3. c.count \in Nat \ {0} /\ \E b \in Ahead(a) : c.adjustment = StayAdjustment(b)
    BY <2>1, <2>2, CohortsPartition
  <2>4. PICK b \in Ahead(a) : c.adjustment = StayAdjustment(b)
    BY <2>3
  <2>5. b.priority \in Int \cup {Null}
    BY CurrentIsValid DEF Ahead
  <2>6. StayAdjustment(b) \in -2000..1600
    BY <2>5, StayAdjustmentBounds
  <2> QED
    BY <2>3, <2>4, <2>6 DEF One
<1> HIDE DEF v
<1>7. ~HeuristicRefuses(v)
  BY <1>0, <1>2 DEF HeuristicRefuses
<1>8. ~ProbabilisticRefuses(v)
  <2>1. v.rank # Null /\ SeatsKnown(v)
    BY <1>0, <1>2 DEF SeatsKnown
  <2>2. /\ ~(v.calibration.snapshots < 3) /\ ~(v.calibration.observations <= 0)
        /\ ~(v.calibration.retained \notin 0..v.calibration.observations)
    BY <1>5
  <2>3. \A c \in v.cohorts : ~(c.count <= 0) /\ ~(c.adjustment \notin -One..One)
    BY <1>6
  <2> QED
    BY <2>1, <2>2, <2>3, Zenon DEF ProbabilisticRefuses
<1>9. RowAllowed(Heuristic(v))
  <2>1. HeuristicInput(v)
    <3>1. /\ v.rank \in Int \cup {Null} /\ v.seats \in Int \cup {Null}
          /\ v.score \in Int \cup {Null} /\ v.priority \in Int \cup {Null}
      BY <1>2
    <3> QED
      BY <1>1, <3>1, Zenon DEF HeuristicInput
  <2> QED
    BY <2>1, HeuristicIsProbability
<1>10. \A p \in ProbabilisticOutputs(v, CandidatesAhead(v)) : RowAllowed(p)
  BY <1>2, <1>4, EveryDrawIsAdmissible
<1> QED
  BY <1>7, <1>8, <1>9, <1>10 DEF v

\* f is what the engines gave for the application a, for some draws.
Made(f, a) ==
    /\ f.input = Input(a) /\ SeatCount(a.condition) # Null
    /\ f.heuristic = Heuristic(Input(a))
    /\ f.probabilistic \in ProbabilisticOutputs(Input(a), CandidatesAhead(Input(a)))

\* Nothing failed, and every forecast was made of an application of the list.
Forecasts ==
    /\ pc # "failed"
    /\ \A t \in DOMAIN forecasts : \E a \in ToSet(Current) : Made(forecasts[t], a)

LEMMA InputStays ==
    ASSUME UNCHANGED <<history, other, page>>
    PROVE  \A f, a : Made(f, a)' <=> Made(f, a)
<1>1. UNCHANGED <<history, other, page>> /\ Current' = Current
  BY DEF Current
<1>2. \A c : SeatCount(c)' = SeatCount(c) /\ Calibration(c)' = Calibration(c)
  BY DEF SeatCount, Calibration
<1>3. \A a : Excluded(a)' = Excluded(a) /\ Ahead(a)' = Ahead(a)
  BY <1>1 DEF Excluded, Ahead, HasHigherPriority
<1>4. \A a : Cohorts(a)' = Cohorts(a)
  BY <1>3 DEF Cohorts
<1>5. \A a : Input(a)' = Input(a)
  BY <1>2, <1>3, <1>4 DEF Input
<1> QED
  BY <1>2, <1>5 DEF Made

LEMMA ForecastsInvariant == Spec => []Forecasts
<1>1. Init => Forecasts
  BY DEF Init, Forecasts
<1>2. Lists /\ Forecasts /\ [Next]_vars => Forecasts'
  <2> SUFFICES ASSUME Lists, Forecasts, [Next]_vars PROVE Forecasts'
    OBVIOUS
  <2>0. UNCHANGED <<history, other, page>> /\ Current' = Current
    BY DEF Next, CheckHistory, Skip, ForecastTarget, Finish, vars, Current
  <2>1. \A f, a : Made(f, a)' <=> Made(f, a)
    BY <2>0, InputStays
  <2>2. CASE forecasts' = forecasts /\ pc' # "failed"
    BY <2>0, <2>1, <2>2 DEF Forecasts
  <2>3. ASSUME NEW t \in Tracked, ForecastTarget(t)
        PROVE  Forecasts'
    <3>1. PICK a \in TargetApplications(t) :
            /\ Input(a).seats # Null /\ Calibrated(a.condition)
            /\ IF HeuristicRefuses(Input(a)) \/ ProbabilisticRefuses(Input(a))
               THEN pc' = "failed" /\ forecasts' = << >> /\ UNCHANGED waiting
               ELSE \E p \in ProbabilisticOutputs(Input(a), CandidatesAhead(Input(a))) :
                    LET f == [input |-> Input(a), heuristic |-> Heuristic(Input(a)),
                              probabilistic |-> p]
                    IN  IF RowAllowed(f.heuristic) /\ RowAllowed(p)
                        THEN /\ forecasts' = [u \in DOMAIN forecasts \cup {t} |->
                                              IF u = t THEN f ELSE forecasts[u]]
                             /\ waiting' = waiting \ {t}
                             /\ UNCHANGED pc
                        ELSE pc' = "failed" /\ forecasts' = << >> /\ UNCHANGED waiting
      BY <2>3, Zenon DEF ForecastTarget
    <3>2. a \in ToSet(Current) /\ pc = "targets" /\ SeatCount(a.condition) # Null
      <4>1. Input(a).seats = SeatCount(a.condition)
        BY DEF Input
      <4> QED
        BY <2>3, <3>1, <4>1 DEF ForecastTarget, TargetApplications
    <3>3. /\ ~HeuristicRefuses(Input(a)) /\ ~ProbabilisticRefuses(Input(a))
          /\ RowAllowed(Heuristic(Input(a)))
          /\ \A p \in ProbabilisticOutputs(Input(a), CandidatesAhead(Input(a))) : RowAllowed(p)
      BY <3>1, <3>2, EnginesAccept
    <3>4. PICK p \in ProbabilisticOutputs(Input(a), CandidatesAhead(Input(a))) :
            LET f == [input |-> Input(a), heuristic |-> Heuristic(Input(a)),
                      probabilistic |-> p]
            IN  IF RowAllowed(f.heuristic) /\ RowAllowed(p)
                THEN /\ forecasts' = [u \in DOMAIN forecasts \cup {t} |->
                                      IF u = t THEN f ELSE forecasts[u]]
                     /\ waiting' = waiting \ {t}
                     /\ UNCHANGED pc
                ELSE pc' = "failed" /\ forecasts' = << >> /\ UNCHANGED waiting
      BY <3>1, <3>3, Zenon
    <3> DEFINE f == [input |-> Input(a), heuristic |-> Heuristic(Input(a)),
                     probabilistic |-> p]
    <3>5. /\ f.input = Input(a) /\ f.heuristic = Heuristic(Input(a)) /\ f.probabilistic = p
      OBVIOUS
    <3> HIDE DEF f
    <3>6. /\ forecasts' = [u \in DOMAIN forecasts \cup {t} |->
                             IF u = t THEN f ELSE forecasts[u]]
          /\ UNCHANGED pc
      BY <3>3, <3>4, <3>5, Zenon DEF f
    <3>7. Made(f, a)
      BY <3>2, <3>5, Zenon DEF Made
    <3>8. \A u \in DOMAIN forecasts' : \E b \in ToSet(Current) : Made(forecasts'[u], b)
      BY <3>2, <3>6, <3>7 DEF Forecasts
    <3>9. pc' # "failed"
      BY <3>6 DEF Forecasts
    <3> QED
      BY <2>0, <2>1, <3>8, <3>9 DEF Forecasts
  <2>4. CASE CheckHistory \/ Finish \/ (\E t \in Tracked : Skip(t)) \/ UNCHANGED vars
    <3>1. forecasts' = forecasts /\ pc' # "failed"
      BY <2>4 DEF CheckHistory, Skip, Finish, vars, Forecasts
    <3> QED
      BY <2>2, <3>1
  <2> QED
    BY <2>3, <2>4, Zenon DEF Next
<1> QED
  BY <1>1, <1>2, ListsInvariant, PTL DEF Spec

\* One applicant never takes the forecasts of the whole group away: whatever
\* the parser accepts and the tables take, every engine and every check of
\* forecast_runs takes.
THEOREM EveryListIsForecastable == Spec => []AcceptedListsAreForecastable
<1>1. Forecasts => AcceptedListsAreForecastable
  BY DEF Forecasts, AcceptedListsAreForecastable
<1> QED
  BY <1>1, ForecastsInvariant, PTL

\* What the other properties read of a forecast.
LEMMA ForecastOf ==
    ASSUME Lists, Forecasts, NEW t \in DOMAIN forecasts
    PROVE  LET v == forecasts[t].input
               p == forecasts[t].probabilistic
           IN  /\ HeuristicInput(v) /\ v.rank \in Nat \ {0} /\ v.seats \in Nat \ {0}
               /\ forecasts[t].heuristic = Heuristic(v)
               /\ v.seats = SeatCount(v.condition) /\ v.bvi = FALSE /\ v.complete = TRUE
               /\ CandidatesAhead(v) \in Nat /\ v.excluded \in Nat
               /\ CandidatesAhead(v) + v.excluded <= v.rank - 1
               /\ p \in ProbabilisticOutputs(v, CandidatesAhead(v))
<1> DEFINE f == forecasts[t]
<1>1. PICK a \in ToSet(Current) : Made(f, a)
  BY DEF Forecasts
<1> DEFINE v == Input(a)
<1>2. /\ f.input = v /\ f.heuristic = Heuristic(v)
      /\ f.probabilistic \in ProbabilisticOutputs(v, CandidatesAhead(v))
      /\ SeatCount(a.condition) # Null
  BY <1>1 DEF Made
<1>3. /\ v.rank = a.rank /\ v.seats = SeatCount(a.condition) /\ v.score = a.score
      /\ v.priority = a.priority /\ v.condition = a.condition
      /\ v.bvi = FALSE /\ v.complete = TRUE
  BY DEF Input
<1>4. /\ v.rank \in Nat \ {0} /\ v.seats \in Nat \ {0}
      /\ v.score \in Int \cup {Null} /\ v.priority \in Int \cup {Null}
  <2>1. /\ a.rank \in Int /\ a.rank > 0
        /\ a.score \in 0..400 \cup {Null} /\ a.priority \in Int \cup {Null}
        /\ SeatCount(a.condition) \in (Nat \ {0}) \cup {Null}
    BY CurrentIsValid
  <2> HIDE DEF v
  <2> QED
    BY <1>2, <1>3, <2>1
<1>5. PICK U : Current \in Seq(U)
  BY CurrentIsValid
<1>6. /\ CandidatesAhead(v) \in Nat /\ v.excluded \in Nat
      /\ CandidatesAhead(v) + v.excluded <= v.rank - 1
  BY <1>5, CurrentIsValid, CandidatesFitRank
<1> HIDE DEF v
<1>7. HeuristicInput(v)
  <2>1. v.rank \in Int \cup {Null} /\ v.seats \in Int \cup {Null}
    BY <1>4
  <2> QED
    BY <1>3, <1>4, <2>1, Zenon DEF HeuristicInput
<1> HIDE DEF f
<1>8. /\ f.input = v /\ v.seats = SeatCount(v.condition)
  BY <1>2, <1>3
<1> QED
  BY <1>2, <1>3, <1>4, <1>6, <1>7, <1>8, Zenon DEF f

\* Who has fewer candidates ahead than there are seats is admitted for certain,
\* and only those below the last seat are not.
THEOREM CertainAhead == Spec => []CertainWhenNobodyAhead
<1>1. Lists /\ Forecasts => CertainWhenNobodyAhead
  <2> SUFFICES ASSUME Lists, Forecasts, NEW t \in DOMAIN forecasts
               PROVE  LET f == forecasts[t]
                      IN  /\ CandidatesAhead(f.input) < f.input.seats
                                => f.probabilistic.low = One /\ f.probabilistic.high = One
                          /\ f.probabilistic.low # One
                                => f.input.rank > f.input.seats
    BY DEF CertainWhenNobodyAhead
  <2> DEFINE v == forecasts[t].input
             p == forecasts[t].probabilistic
  <2>1. /\ v.rank \in Nat \ {0} /\ v.seats \in Nat \ {0}
        /\ CandidatesAhead(v) \in Nat /\ v.excluded \in Nat
        /\ CandidatesAhead(v) + v.excluded <= v.rank - 1
        /\ p \in ProbabilisticOutputs(v, CandidatesAhead(v))
    BY ForecastOf
  <2> HIDE DEF v, p
  <2>2. CandidatesAhead(v) < v.seats => p.low = One /\ p.high = One
    BY <2>1, EveryDrawIsAdmissible
  <2>3. p.low # One => v.rank > v.seats
    BY <2>1, <2>2
  <2> QED
    BY <2>2, <2>3 DEF v, p
<1> QED
  BY <1>1, ListsInvariant, ForecastsInvariant, PTL

\* The estimated ranks lie between the first place and the one the list gives,
\* less the candidates that are expected elsewhere.
THEOREM RanksAreInReach == Spec => []NeverWorseThanRank
<1>1. Lists /\ Forecasts => NeverWorseThanRank
  <2> SUFFICES ASSUME Lists, Forecasts, NEW t \in DOMAIN forecasts
               PROVE  LET f == forecasts[t]
                      IN  /\ 1 <= f.probabilistic.rankMin
                          /\ f.probabilistic.rankMin <= f.probabilistic.rankMax
                          /\ f.probabilistic.rankMax + f.input.excluded <= f.input.rank
    BY DEF NeverWorseThanRank
  <2> DEFINE v == forecasts[t].input
             p == forecasts[t].probabilistic
  <2>1. /\ v.rank \in Nat \ {0} /\ v.seats \in Nat \ {0}
        /\ CandidatesAhead(v) \in Nat /\ v.excluded \in Nat
        /\ CandidatesAhead(v) + v.excluded <= v.rank - 1
        /\ p \in ProbabilisticOutputs(v, CandidatesAhead(v))
    BY ForecastOf
  <2> HIDE DEF v, p
  <2>2. /\ p.rankMin \in Int /\ p.rankMax \in Int
        /\ 1 <= p.rankMin /\ p.rankMin <= p.rankMax /\ p.rankMax <= CandidatesAhead(v) + 1
    <3>1. p.rankMin \in 1..p.rankMax /\ p.rankMax \in 1..(CandidatesAhead(v) + 1)
      BY <2>1, EveryDrawIsAdmissible
    <3>2. CandidatesAhead(v) \in Nat
      BY <2>1
    <3> QED
      BY <3>1, <3>2
  <2>3. p.rankMax + v.excluded <= v.rank
    BY <2>1, <2>2
  <2> QED
    BY <2>2, <2>3 DEF v, p
<1> QED
  BY <1>1, ListsInvariant, ForecastsInvariant, PTL

\* Whoever is further up in the same condition with the same data gets no less.
THEOREM PlaceCounts == Spec => []BetterPlacedNotWorse
<1>1. Lists /\ Forecasts => BetterPlacedNotWorse
  <2> SUFFICES ASSUME Lists, Forecasts,
                      NEW t \in DOMAIN forecasts, NEW u \in DOMAIN forecasts,
                      forecasts[t].input.rank <= forecasts[u].input.rank,
                      forecasts[t].input.condition = forecasts[u].input.condition,
                      forecasts[t].input.score = forecasts[u].input.score,
                      forecasts[t].input.priority = forecasts[u].input.priority,
                      forecasts[t].input.consent = forecasts[u].input.consent
               PROVE  /\ forecasts[t].heuristic.low >= forecasts[u].heuristic.low
                      /\ forecasts[t].heuristic.high >= forecasts[u].heuristic.high
    BY DEF BetterPlacedNotWorse
  <2> DEFINE v == forecasts[t].input
             w == forecasts[u].input
  <2>1. /\ HeuristicInput(v) /\ v.rank \in Nat \ {0}
        /\ forecasts[t].heuristic = Heuristic(v)
        /\ v.seats = SeatCount(v.condition) /\ v.bvi = FALSE /\ v.complete = TRUE
    BY ForecastOf, Zenon
  <2>2. /\ HeuristicInput(w) /\ w.rank \in Nat \ {0}
        /\ forecasts[u].heuristic = Heuristic(w)
        /\ w.seats = SeatCount(w.condition) /\ w.bvi = FALSE /\ w.complete = TRUE
    BY ForecastOf, Zenon
  <2>3. v.seats = w.seats
    BY <2>1, <2>2, Zenon
  <2>4. v.bvi = w.bvi /\ v.complete = w.complete
    BY <2>1, <2>2, Zenon
  <2> HIDE DEF v, w
  <2> QED
    BY <2>1, <2>2, <2>3, <2>4, HeuristicMonotone DEF v, w
<1> QED
  BY <1>1, ListsInvariant, ForecastsInvariant, PTL
=============================================================================
