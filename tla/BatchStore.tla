----------------------------- MODULE BatchStore ------------------------------
(* What the ITMO refreshes promise the rest of the system: the store of list   *)
(* snapshots changes only by whole batches, each published at most once and    *)
(* in one step.  ItmoIngestion implements this specification.                  *)
EXTENDS AdmissionRows

CONSTANT AppendOnly  \* TRUE: a batch consists of new snapshots only

VARIABLES
    rows,      \* university, groups and snapshots that readers see
    stamp,     \* the batch each snapshot belongs to
    published  \* batches whose snapshots readers can see

vars == <<rows, stamp, published>>

Init ==
    /\ rows = {}
    /\ stamp = [l \in Lists |-> NoBatch]
    /\ published = {}

\* Batch b lists the groups in listing and has an accepted page for those in
\* accepted, whose contents are content.
Publish(b) ==
    /\ b \notin published
    /\ \E listing \in SUBSET Groups : \E accepted \in SUBSET listing :
       \E content \in [accepted -> Contents] :
          LET new == {List(g, content[g]) : g \in accepted} IN
          /\ listing # {}
          /\ AppendOnly => new \cap rows = {}
          /\ rows' = rows \cup new \cup {Group(g) : g \in accepted}
                          \cup {University : g \in accepted}
          /\ stamp' = [l \in Lists |->
                          IF l \in new
                          THEN [id |-> b, expected |-> Cardinality(listing)]
                          ELSE stamp[l]]
    /\ published' = published \cup {b}

Next == \E b \in Runs : Publish(b)

Spec == Init /\ [][Next]_vars
=============================================================================
