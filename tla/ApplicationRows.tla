---------------------------- MODULE ApplicationRows ----------------------------
(* What the table applications takes of one list: the check rank_positive and  *)
(* the key uq_applications_snapshot_condition_uid of the migrated schema.      *)
EXTENDS Integers

Storable(apps) ==
    /\ \A i \in DOMAIN apps : apps[i].rank > 0
    /\ \A i, j \in DOMAIN apps :
           i # j => <<apps[i].condition, apps[i].uid>> # <<apps[j].condition, apps[j].uid>>
=============================================================================
