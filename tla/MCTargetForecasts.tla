--------------------------- MODULE MCTargetForecasts ---------------------------
(* Instances of TargetForecasts for TLC: small pages, the broken ones included. *)
EXTENDS TargetForecasts

Record(uid, position, profile) ==
    profile @@ [uid |-> uid, position |-> position, schema |-> TRUE, text |-> Null,
                main_top_priority |-> FALSE, highest_passageway_priority |-> FALSE]

Eager == [priority |-> 1, total_scores |-> 250, is_send_agreement |-> TRUE]
Unsure == [priority |-> 5, total_scores |-> Null, is_send_agreement |-> Null]
Away == [priority |-> 0, total_scores |-> 0, is_send_agreement |-> FALSE]
Overscored == [priority |-> 1, total_scores |-> 401, is_send_agreement |-> TRUE]

Page(general, special, budget) ==
    [embedded |-> TRUE, query |-> Group, group |-> Group,
     seats    |-> [budget_min |-> budget, special_quota |-> 1, target_reception |-> Null],
     records  |-> [c \in Condition |->
                     IF c = "general_competition" THEN general
                     ELSE IF c = "by_special_quota" THEN special ELSE << >>]]

\* two quotas, in which applicant 1 has the same place behind different people
Tied(first, seats) ==
    LET both == Page(<< >>, <<Record(2, 1, first), Record(1, 2, Eager)>>, 1)
    IN  [both EXCEPT !.seats["target_reception"] = seats,
                     !.records["by_target_quota"] = <<Record(3, 1, Away), Record(1, 2, Eager)>>]

\* lists of the general competition: any order of applicants, some of them
\* twice, places with gaps, shared or out of order
Orders == {<<1, 2, 3>>, <<2, 1, 3>>, <<3, 1, 2>>, <<3, 2, 1>>, <<1, 1, 2>>}
Places == {<<1, 2, 4>>, <<1, 2, 2>>, <<0, 1, 2>>, <<2, 1, 3>>}
Generals ==
    {[k \in 1..3 |-> Record(o[k], p[k], f[k])] :
        o \in Orders, p \in Places, f \in [1..3 -> {Eager, Unsure}]}
        \cup {[k \in 1..3 |-> Record(o[k], k, f)] : o \in Orders, f \in {Away, Overscored}}
        \cup {<<Record(2, 1, Away), Record(1, 2, Eager)>>}

Broken ==
    LET good == Page(<<Record(1, 1, Eager)>>, << >>, 1)
    IN  {[good EXCEPT !.embedded = FALSE], [good EXCEPT !.query = Group + 1],
         [good EXCEPT !.seats = [@ EXCEPT !.budget_min = -1]],
         [good EXCEPT !.records = [@ EXCEPT !["general_competition"] =
             <<[@[1] EXCEPT !.text = 1]>>]],
         [good EXCEPT !.records = [@ EXCEPT !["general_competition"] =
             <<[@[1] EXCEPT !.schema = FALSE]>>]]}
NewPages ==
    {Page(g, << >>, b) : g \in Generals, b \in {1, 2}}
        \cup {Page(g, <<Record(1, 1, Eager)>>, b) :
                 g \in {<<Record(2, 1, Unsure)>>, << >>}, b \in {Null, 0}}
        \cup {Tied(f, n) : f \in {Eager, Unsure}, n \in {1, 2}}
        \cup Broken
OldPages ==
    {Page(<<Record(1, 1, Eager), Record(2, 2, Unsure), Record(3, 3, Away)>>, << >>, 1),
     [Page(<<Record(1, 1, Eager)>>, <<Record(1, 1, Eager)>>, 1)
        EXCEPT !.records["by_target_quota"] = <<Record(1, 1, Eager), Record(3, 2, Unsure)>>]}
ElsewherePages ==
    {Page(<<[Record(3, 1, Eager) EXCEPT !.main_top_priority = b,
                                        !.highest_passageway_priority = TRUE]>>, << >>, 1) :
        b \in BOOLEAN}
=============================================================================
