------------------------- MODULE UniversityCoverage --------------------------
(* _university_coverage of packages/forecasting/recompute.py over the store    *)
(* the refreshes of ItmoIngestion fill.                                        *)
EXTENDS ItmoIngestion

\* competition_groups of the university, campaign year and namespace
RegisteredGroups == {g \in Groups : Group(g) \in rows}

\* _batch_id
InBatch(l, id) == stamp[l] # NoBatch /\ stamp[l].id = id

\* Groups among gs that have a snapshot in the batch with this id.
CoveredGroups(gs, id) ==
    {g \in gs : \E c \in Contents :
                    List(g, c) \in rows /\ InBatch(List(g, c), id)}

\* Mutant: every known group has a snapshot, whatever the batch expected.
CompleteByCoverage(l) ==
    /\ stamp[l] # NoBatch
    /\ RegisteredGroups # {}
    /\ Cardinality(CoveredGroups(RegisteredGroups, stamp[l].id))
          = Cardinality(RegisteredGroups)

\* UniversityCoverage.complete for the batch snapshot l belongs to
Complete(l) ==
    /\ stamp[l] # NoBatch
    /\ stamp[l].expected = Cardinality(RegisteredGroups)
    /\ RegisteredGroups # {}
    /\ Cardinality(CoveredGroups(RegisteredGroups, stamp[l].id))
          = Cardinality(RegisteredGroups)

\* "one complete, timestamped public batch covers every tracked ITMO bachelor
\* budget group" (README.md:55): counting snapshots is enough.  When coverage
\* is complete, the batch has a page for every group its index listed, and
\* those groups are all the groups the database knows.
CompleteMeansWholeBatch ==
    \A l \in Lists : Complete(l) =>
        LET b == stamp[l].id IN
        /\ RegisteredGroups = Listed(b)
        /\ Parsed(b) = Listed(b)
        /\ CoveredGroups(Groups, b) = Listed(b)

\* In the migrated schema coverage is also never denied to such a batch.
WholeBatchIsComplete ==
    ImmutableTrigger =>
        \A b \in Published : \A l \in PageLists(b) :
            Parsed(b) = Listed(b) /\ RegisteredGroups = Listed(b) => Complete(l)
=============================================================================
