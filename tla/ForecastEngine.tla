----------------------------- MODULE ForecastEngine -----------------------------
(* The two engines of packages/forecasting/engine.py.  Probabilities are in    *)
(* ten-thousandths, the precision the engines round to.  The draws of the      *)
(* simulation are a choice: any number of the candidates ahead may stay, since *)
(* the chance of each is clamped between 0.02 and 0.995.  Event signals are    *)
(* left out: the recomputation passes empty ones.                              *)
EXTENDS Integers, Sequences, FiniteSets

CONSTANTS
    SimulationRuns,  \* simulation_runs (4000 in the code)
    None             \* an unknown number or flag

One == 10000

Larger(x, y) == IF x > y THEN x ELSE y
Smaller(x, y) == IF x < y THEN x ELSE y

\* _clamp
Clamp(x, low, high) == Larger(low, Smaller(high, x))

\* a / b rounded to the nearest integer, for b > 0
Rounded(a, b) == (2 * a + b) \div (2 * b)

-----------------------------------------------------------------------------
\* AdmissionProbabilityEngine._validate
HeuristicRefuses(v) ==
    \/ v.rank # None /\ v.rank <= 0
    \/ v.seats # None /\ v.seats < 0
    \/ v.score # None /\ v.score \notin 0..400

SeatsKnown(v) == v.seats # None /\ v.seats > 0

\* Mutant: the margin has the wrong sign.
PlaceReversed(v) ==
    IF v.rank = None \/ ~SeatsKnown(v) THEN 5000
    ELSE Clamp(5000 + Rounded(8000 * (v.rank - v.seats), v.seats), 500, 9500)
\* what the rank alone says
Place(v) ==
    IF v.rank = None \/ ~SeatsKnown(v) THEN 5000
    ELSE Clamp(5000 + Rounded(8000 * (v.seats - v.rank), v.seats), 500, 9500)

\* A score of 0 and a priority of 0 count as unknown.
Modifiers(v) ==
    LET score == IF v.score \in {None, 0} THEN 200 ELSE v.score
        priority == IF v.priority \in {None, 0} THEN 10 ELSE v.priority
    IN  Clamp(10 * (score - 200), -300, 300) + Clamp(10 * (10 - priority), -100, 100)

Base(v) ==
    Place(v) + Modifiers(v) + (IF v.bvi THEN 400 ELSE 0)
        + (CASE v.consent = TRUE -> 800 [] v.consent = FALSE -> -800 [] OTHER -> 0)

Width(v) ==
    (CASE v.rank = None -> 4500 [] v.rank # None /\ ~SeatsKnown(v) -> 4000 [] OTHER -> 1200)
        + (IF v.consent = None THEN 600 ELSE 0)
        + (IF v.condition # "general_competition" THEN 300 ELSE 0)
        + (IF v.complete THEN 0 ELSE 1000)

HeuristicConfidence(v) ==
    CASE v.rank = None /\ v.seats = None -> "unknown"
      [] Width(v) > 3500 /\ ~(v.rank = None /\ v.seats = None) -> "low"
      [] Width(v) <= 1800 /\ v.complete -> "high"
      [] OTHER -> "medium"

\* AdmissionProbabilityEngine.calculate
Heuristic(v) ==
    [low        |-> Clamp(Base(v) - Width(v), 0, One),
     high       |-> Clamp(Base(v) + Width(v), 0, One),
     rankMin    |-> v.rank,
     rankMax    |-> v.rank,
     confidence |-> HeuristicConfidence(v)]

-----------------------------------------------------------------------------
\* ProbabilisticAdmissionEngine._validate; a cohort is [count, adjustment]
ProbabilisticRefuses(v) ==
    \/ v.rank = None \/ ~SeatsKnown(v)
    \/ v.calibration.snapshots < 3 \/ v.calibration.observations <= 0
    \/ v.calibration.retained \notin 0..v.calibration.observations
    \/ \E c \in v.cohorts : c.count <= 0 \/ c.adjustment \notin -One..One

\* The candidates still ahead after each run of the simulation, in the order in
\* which _quantile reads them.
Simulations(ahead) ==
    {s \in [1..SimulationRuns -> 0..ahead] :
        \A i, j \in 1..SimulationRuns : i <= j => s[i] <= s[j]}

\* Mutant: the place before the last seat is not admitted.
AdmittedOneLess(s, seats) ==
    Rounded(One * Cardinality({i \in DOMAIN s : s[i] + 1 < seats}), SimulationRuns)
\* the share of runs in which the effective rank is within the seats
Admitted(s, seats) ==
    Rounded(One * Cardinality({i \in DOMAIN s : s[i] + 1 <= seats}), SimulationRuns)

\* _quantile of the effective ranks, q in tenths
Quantile(s, q) == s[1 + Rounded((SimulationRuns - 1) * q, 10)] + 1

\* ProbabilisticAdmissionEngine.calculate, given the three simulations
Probabilistic(v, central, stay, leave) ==
    [low        |-> Smaller(Admitted(stay, v.seats), Admitted(leave, v.seats)),
     high       |-> Larger(Admitted(stay, v.seats), Admitted(leave, v.seats)),
     rankMin    |-> Quantile(central, 1),
     rankMax    |-> Quantile(central, 9),
     confidence |-> IF v.calibration.observations >= 200 THEN "medium" ELSE "low"]

ProbabilisticOutputs(v, ahead) ==
    {Probabilistic(v, c, s, l) : c, s, l \in Simulations(ahead)}
=============================================================================
