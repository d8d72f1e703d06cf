---------------------------- MODULE TargetForecasts ----------------------------
(* The loop over the targets of a group in recompute_probabilistic_forecasts   *)
(* (packages/forecasting/recompute.py), with the helpers that prepare the      *)
(* input of the two engines, over lists that ItmoParser accepted and the       *)
(* database stored.  How the lists of a whole batch come to be read is the     *)
(* subject of ForecastPipeline; here they have been read.                      *)
EXTENDS ItmoList

CONSTANTS
    Group,           \* the group of the new snapshot
    Pages,           \* what the site may have published for the group last
    EarlierPages,    \* and before that
    OtherPages,      \* what the site may have published for another group
    Tracked,         \* user targets of the group, by UID
    Snapshots,       \* how many snapshots of the group there are
    MinHistory,      \* valid snapshots a forecast needs (3 in the code)
    SimulationRuns   \* runs of the simulation (4000 in the code)

ASSUME ForecastAssumption ==
    /\ Tracked \subseteq Uids
    /\ Snapshots \subseteq Nat \ {0}
    /\ MinHistory \in Nat /\ MinHistory >= 3  \* what the engine asks for
    /\ SimulationRuns \in Nat \ {0}
    /\ Null \notin Int

\* What ItmoParser reads of a page it accepts are numbers where it asks for them.
ASSUME NumbersAssumption ==
    \A p \in Pages : Accepted(p, Group) =>
        \A i \in DOMAIN Applications(p) :
            LET a == Applications(p)[i]
            IN  /\ a.rank \in Int
                /\ a.score \in Int \cup {Null} /\ a.priority \in Int \cup {Null}
                /\ SeatCounts(p)[a.condition] \in Int \cup {Null}

\* The records of a condition are a JSON array.
ASSUME RecordsAssumption ==
    \A p \in Pages \cup EarlierPages : \A c \in Condition :
        p.records[c] \in Seq(ToSet(p.records[c]))

INSTANCE ForecastEngine WITH None <- Null

VARIABLES
    history,    \* applications of the group's snapshots up to the new one
    other,      \* applications of the other group's snapshot of the batch
    page,       \* the page behind the new snapshot, for its seat fields
    waiting,    \* targets the loop has not come to
    forecasts,  \* for each target the inputs and outputs it got
    pc

vars == <<history, other, page, waiting, forecasts, pc>>

Current == history[Len(history)]

-----------------------------------------------------------------------------
\* _uids_by_condition
UidsWith(apps, condition) ==
    {a.uid : a \in {b \in ToSet(apps) : b.condition = condition}}

\* _calibrations: pairs of neighbours, and who of the first is in the second
Calibration(condition) ==
    LET pairs == 1..(Len(history) - 1)
        Left(i) == UidsWith(history[i], condition)
    IN  [observations |-> SumFunction([i \in pairs |-> Cardinality(Left(i))]),
         retained     |-> SumFunction([i \in pairs |-> Cardinality(Left(i) \cap Left(i + 1))]),
         snapshots    |-> Len(history)]
Calibrated(condition) ==
    \E i \in 1..(Len(history) - 1) : UidsWith(history[i], condition) # {}

\* _target_application: general competition first, then the best rank; between
\* equal ones the order of the rows decides, which nothing fixes
Before(a, b) ==
    \/ a.condition = "general_competition" /\ b.condition # "general_competition"
    \/ /\ a.condition = "general_competition" <=> b.condition = "general_competition"
       /\ a.rank < b.rank
TargetApplications(uid) ==
    {a \in ToSet(Current) :
        a.uid = uid /\ \A b \in ToSet(Current) : b.uid = uid => ~Before(b, a)}

\* _seat_count; a known number of 0 is none either
SeatCount(condition) ==
    LET seats == SeatCounts(page)[condition]
    IN  IF seats = Null \/ seats <= 0 THEN Null ELSE seats

\* _has_higher_priority_application, over _applications_by_uid of the batch
HasHigherPriority(a) ==
    \E b \in ToSet(other) : b.uid = a.uid /\ b.consent = TRUE /\ b.top /\ b.passage

\* _stay_adjustment
StayAdjustment(a) ==
    (CASE a.consent = TRUE -> 1200 [] a.consent = FALSE -> -1800 [] OTHER -> 0)
        + (CASE a.priority = 1 -> 400
             [] a.priority # 1 /\ a.priority # Null /\ a.priority > 3 -> -200
             [] OTHER -> 0)

\* Mutant: the applicant is ahead of itself.
AheadOrEqual(a) ==
    {b \in ToSet(Current) : b.condition = a.condition /\ b.rank <= a.rank}
Ahead(a) == {b \in ToSet(Current) : b.condition = a.condition /\ b.rank < a.rank}
\* _candidate_cohorts
Excluded(a) == {b \in Ahead(a) : HasHigherPriority(b)}
Cohorts(a) ==
    LET counted == Ahead(a) \ Excluded(a)
    IN  {[count |-> Cardinality({b \in counted : StayAdjustment(b) = s}), adjustment |-> s] :
            s \in {StayAdjustment(b) : b \in counted}}

\* The ForecastInput; raw_payload has no "bvi", whatever the condition.
Input(a) ==
    [rank        |-> a.rank,
     seats       |-> SeatCount(a.condition),
     score       |-> a.score,
     priority    |-> a.priority,
     consent     |-> a.consent,
     condition   |-> a.condition,
     bvi         |-> FALSE,
     complete    |-> TRUE,
     calibration |-> Calibration(a.condition),
     cohorts     |-> Cohorts(a),
     excluded    |-> Cardinality(Excluded(a))]

CandidatesAhead(v) == SumFunction([c \in v.cohorts |-> c.count])

-----------------------------------------------------------------------------
Stored(p) == Accepted(p, Group) /\ Storable(Applications(p))

Init ==
    /\ page \in {p \in Pages : Stored(p)}
    /\ \E n \in Snapshots : \E earlier \in [1..(n - 1) -> {p \in EarlierPages : Stored(p)}] :
           history = Append([i \in 1..(n - 1) |-> Applications(earlier[i])],
                            Applications(page))
    /\ other \in {Applications(p) : p \in {q \in OtherPages : Stored(q)}}
    /\ waiting = Tracked
    /\ forecasts = << >>
    /\ pc = "history"

CheckHistory ==
    /\ pc = "history"
    /\ pc' = IF Len(history) < MinHistory THEN "insufficient_snapshots" ELSE "targets"
    /\ UNCHANGED <<history, other, page, waiting, forecasts>>

\* The applicant is gone from the list, or the seats or the history of the
\* condition are not known.
Skippable(t) ==
    \/ TargetApplications(t) = {}
    \/ \E a \in TargetApplications(t) :
           SeatCount(a.condition) = Null \/ ~Calibrated(a.condition)

Skip(t) ==
    /\ pc = "targets" /\ t \in waiting
    /\ Skippable(t)
    /\ waiting' = waiting \ {t}
    /\ UNCHANGED <<history, other, page, forecasts, pc>>

\* probability_low_range, probability_high_range, probability_order
RowAllowed(f) == 0 <= f.low /\ f.low <= f.high /\ f.high <= One

\* Both engines for one target; whatever raises takes the transaction with it.
ForecastTarget(t) ==
    /\ pc = "targets" /\ t \in waiting
    /\ \E a \in TargetApplications(t) :
        LET v == Input(a) IN
        /\ v.seats # Null /\ Calibrated(a.condition)
        /\ IF HeuristicRefuses(v) \/ ProbabilisticRefuses(v)
           THEN pc' = "failed" /\ forecasts' = << >> /\ UNCHANGED waiting
           ELSE \E p \in ProbabilisticOutputs(v, CandidatesAhead(v)) :
                LET f == [input |-> v, heuristic |-> Heuristic(v), probabilistic |-> p]
                IN  IF RowAllowed(f.heuristic) /\ RowAllowed(p)
                    THEN /\ forecasts' = [u \in DOMAIN forecasts \cup {t} |->
                                          IF u = t THEN f ELSE forecasts[u]]
                         /\ waiting' = waiting \ {t}
                         /\ UNCHANGED pc
                    ELSE pc' = "failed" /\ forecasts' = << >> /\ UNCHANGED waiting
    /\ UNCHANGED <<history, other, page>>

Finish ==
    /\ pc = "targets" /\ waiting = {}
    /\ pc' = "committed"
    /\ UNCHANGED <<history, other, page, waiting, forecasts>>

Next ==
    \/ CheckHistory
    \/ \E t \in Tracked : Skip(t) \/ ForecastTarget(t)
    \/ Finish

Spec == Init /\ [][Next]_vars
-----------------------------------------------------------------------------
\* Every list that ItmoParser accepts and the tables take can be forecast: no
\* target makes an engine refuse its input or the table refuse its output, so
\* that one applicant never takes the forecasts of the whole group away.
AcceptedListsAreForecastable == pc # "failed"

\* Who has fewer candidates ahead than there are seats is admitted in every run
\* of every scenario, whatever is known of the others.
CertainWhenNobodyAhead ==
    \A t \in DOMAIN forecasts :
        LET f == forecasts[t]
        IN  /\ CandidatesAhead(f.input) < f.input.seats
                   => f.probabilistic.low = One /\ f.probabilistic.high = One
            /\ f.probabilistic.low # One
                   => f.input.rank > f.input.seats

\* The estimated ranks are places between the first and the one the applicant
\* has now, less the candidates that are expected elsewhere.
NeverWorseThanRank ==
    \A t \in DOMAIN forecasts :
        LET f == forecasts[t]
        IN  /\ 1 <= f.probabilistic.rankMin
            /\ f.probabilistic.rankMin <= f.probabilistic.rankMax
            /\ f.probabilistic.rankMax + f.input.excluded <= f.input.rank

\* Of two tracked applicants in the same condition who differ in nothing but
\* their place, the heuristic never gives the one further down more.
BetterPlacedNotWorse ==
    \A t, u \in DOMAIN forecasts :
        LET v == forecasts[t].input
            w == forecasts[u].input
        IN  (/\ v.rank <= w.rank /\ v.condition = w.condition
             /\ v.score = w.score /\ v.priority = w.priority /\ v.consent = w.consent)
            => /\ forecasts[t].heuristic.low >= forecasts[u].heuristic.low
               /\ forecasts[t].heuristic.high >= forecasts[u].heuristic.high
=============================================================================
