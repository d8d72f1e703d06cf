------------------------------- MODULE ListDiff -------------------------------
(* The events between two snapshots of one list, as diff_snapshots of          *)
(* packages/diff.py derives them.  A list maps each application, identified by *)
(* the hash of the applicant and the admission condition, to its _state.       *)
EXTENDS Integers, FiniteSets

CONSTANTS
    Uids,        \* applicant_uid_hmac
    Conditions,  \* admission_condition
    Fields,      \* keys of _STATE_FIELDS
    Tracked,     \* the fields with an event type, by its name; the priority flags
                 \* main_top_priority and highest_passageway_priority have none
    Values,      \* what a field can be
    None         \* no condition

FieldLoop == <<"rank_changed", "score_changed", "priority_changed", "consent_changed",
               "status_changed", "bvi_changed", "advantages_changed">>

ASSUME DiffAssumption ==
    /\ Tracked \subseteq Fields \cap {FieldLoop[i] : i \in DOMAIN FieldLoop}
    /\ None \notin Conditions

Keys == Uids \X Conditions
States == [Fields -> Values]
Snapshots == UNION {[K -> States] : K \in SUBSET Keys}

Event(u, type, from, to, before, after) ==
    [uid |-> u, type |-> type, from |-> from, to |-> to,
     before |-> before, after |-> after]

\* _condition_changes: every condition an applicant has left, with every
\* condition the applicant is new in
ConditionChanges(old, new) ==
    {x \in Uids \X Conditions \X Conditions :
        /\ <<x[1], x[2]>> \in DOMAIN old \ DOMAIN new
        /\ <<x[1], x[3]>> \in DOMAIN new \ DOMAIN old}

\* Mutant: an applicant with a condition change has no other events.
ChangedApplicants(old, new) ==
    {k \in Keys : \E x \in ConditionChanges(old, new) : x[1] = k[1]}

ChangedKeys(old, new) ==
    {k \in Keys : \E x \in ConditionChanges(old, new) :
                      k = <<x[1], x[2]>> \/ k = <<x[1], x[3]>>}

ConditionEvents(old, new) ==
    {Event(x[1], "condition_changed", x[2], x[3],
           old[<<x[1], x[2]>>], new[<<x[1], x[3]>>]) : x \in ConditionChanges(old, new)}

Appeared(old, new) ==
    {Event(k[1], "appeared", None, k[2], <<>>, new[k]) :
        k \in (DOMAIN new \ DOMAIN old) \ ChangedKeys(old, new)}

Disappeared(old, new) ==
    {Event(k[1], "disappeared", k[2], None, old[k], <<>>) :
        k \in (DOMAIN old \ DOMAIN new) \ ChangedKeys(old, new)}

\* rank_changed, score_changed, ...: an event for each field that differs
FieldEvents(old, new) ==
    {Event(x[1][1], x[2], x[1][2], x[1][2], old[x[1]], new[x[1]]) :
        x \in {y \in ((DOMAIN old \cap DOMAIN new) \ ChangedKeys(old, new)) \X Tracked :
                  old[y[1]][y[2]] # new[y[1]][y[2]]}}

Events(old, new) ==
    ConditionEvents(old, new) \cup Appeared(old, new)
        \cup Disappeared(old, new) \cup FieldEvents(old, new)
-----------------------------------------------------------------------------
\* What the events are for: whoever has the old list and reads the events knows
\* the new one.
Ends(es) == {<<e.uid, e.to>> : e \in {f \in es : f.to # None}}
Starts(es) == {<<e.uid, e.from>> : e \in {f \in es : f.from # None /\ f.from # f.to}}

Replay(old, es) ==
    [k \in (DOMAIN old \ Starts(es)) \cup Ends(es) |->
        IF k \in Ends(es)
        THEN (CHOOSE e \in es : e.to # None /\ <<e.uid, e.to>> = k).after
        ELSE old[k]]

\* The list l is the list m as far as events can tell.
SameTracked(l, m) ==
    /\ DOMAIN l = DOMAIN m
    /\ \A k \in DOMAIN m : \A f \in Tracked : l[k][f] = m[k][f]
=============================================================================
