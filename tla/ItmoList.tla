------------------------------- MODULE ItmoList -------------------------------
(* What ItmoParser (packages/parsers/itmo.py) accepts of a page.  A page is    *)
(* the JSON embedded in it: the group it says it is about, the seat fields of  *)
(* "direction", and a sequence of records for each admission condition.        *)
EXTENDS ApplicationRows, FiniteSets, SequencesExt

CONSTANTS
    Uids,   \* sspvo_id of the applicants
    Null    \* null in JSON, None in Python

Conditions == <<"general_competition", "by_special_quota", "by_target_quota",
                "by_unusual_quota", "without_entry_tests">>
Condition == ToSet(Conditions)

\* the seat field of "direction" for a condition; the others have none
SeatField == [general_competition |-> "budget_min",
              by_special_quota    |-> "special_quota",
              by_target_quota     |-> "target_reception"]

\* _extract_next_data and _validate_metadata
ReadsPage(page, group) == page.embedded /\ page.query = group /\ page.group = group

\* _seat_counts: unknown is allowed, negative is not
ReadsSeats(page) ==
    \A f \in DOMAIN page.seats : page.seats[f] = Null \/ page.seats[f] >= 0
SeatCounts(page) ==
    [c \in Condition |-> IF c \in DOMAIN SeatField THEN page.seats[SeatField[c]] ELSE Null]

\* _application: the exact set of fields, a UID, numbers where numbers belong
ReadsRecord(record) == record.schema /\ record.uid # Null
Application(record, condition) ==
    [uid       |-> record.uid,
     condition |-> condition,
     rank      |-> record.position,
     priority  |-> record.priority,
     score     |-> record.total_scores,
     consent   |-> record.is_send_agreement,
     top       |-> record.main_top_priority,
     passage   |-> record.highest_passageway_priority]

Applications(page) ==
    FlattenSeq([i \in DOMAIN Conditions |->
        LET records == page.records[Conditions[i]]
        IN  [k \in DOMAIN records |-> Application(records[k], Conditions[i])]])

InOrder(apps) ==
    \A i, j \in DOMAIN apps :
        i < j /\ apps[i].condition = apps[j].condition => apps[i].rank < apps[j].rank

\* Mutant: the range of the score is not checked.
ValidUnscored(apps) == InOrder(apps)
\* _validate_applications
Valid(apps) ==
    /\ \A i \in DOMAIN apps : apps[i].score = Null \/ apps[i].score \in 0..400
    /\ InOrder(apps)

\* ItmoParser.parse gives a valid snapshot.  A text field that repeats a UID
\* makes _validate_no_raw_uids refuse the page.
Accepted(page, group) ==
    /\ ReadsPage(page, group)
    /\ \A c \in Condition : \A k \in DOMAIN page.records[c] :
           ReadsRecord(page.records[c][k]) /\ page.records[c][k].text \notin Uids
    /\ Valid(Applications(page))
    /\ ReadsSeats(page)
=============================================================================
