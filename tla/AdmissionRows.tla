---------------------------- MODULE AdmissionRows ----------------------------
(* The rows one ITMO refresh writes, named by their unique keys                *)
(* (packages/persistence/models.py): the university, its competition groups    *)
(* and the list snapshots.  source_url is a function of the group, so a        *)
(* snapshot is identified by its group and the hash of its content.            *)
EXTENDS Integers, FiniteSets

CONSTANTS
    Groups,    \* competitive_group_id of the discovery API, in sorted() order
    Contents,  \* page bodies the parser accepts, up to their SHA-256
    Runs,      \* executions of ingest_itmo_batch; batch_id is a fresh uuid4
    NoBatch    \* raw_payload without "ingestion_batch"

ASSUME GroupsAssumption == Groups \subseteq Int /\ IsFiniteSet(Groups)
University == <<"university">>
Group(g) == <<"group", g>>
List(g, c) == <<"list", g, c>>

GroupRows == {Group(g) : g \in Groups}
Lists == {List(g, c) : g \in Groups, c \in Contents}
Rows == {University} \cup GroupRows \cup Lists

\* raw_payload["ingestion_batch"]
Stamps == [id : Runs, expected : Nat]

ASSUME NoBatchAssumption == NoBatch \notin Stamps
=============================================================================
