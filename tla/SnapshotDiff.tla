----------------------------- MODULE SnapshotDiff -----------------------------
(* Runs of diff_snapshots (packages/diff.py) over one pair of snapshots, each  *)
(* in a transaction of its own, with EventRepository.add_ignore_duplicate      *)
(* (packages/persistence/event_repository.py): a SELECT for the event, then an *)
(* INSERT ... ON CONFLICT DO NOTHING, which waits for an uncommitted row with  *)
(* its key.  Snapshots do not change, so all runs derive the same events.      *)
EXTENDS ListDiff

CONSTANTS
    Diffs,      \* executions of diff_snapshots for the pair
    MaxCrashes  \* bound on the transactions that fail

\* sorted() orders applicants and conditions.
ASSUME OrderAssumption == MaxCrashes \in Nat /\ Uids \cup Conditions \subseteq Nat
ASSUME FiniteAssumption ==
    IsFiniteSet(Uids) /\ IsFiniteSet(Conditions) /\ IsFiniteSet(Diffs)

VARIABLES
    previous, current,  \* the two lists
    events,             \* committed rows of application_events
    pc,                 \* where each run is
    todo,               \* events a run has still to save
    added,              \* events a run has inserted; uncommitted until "done"
    crashes             \* transactions that failed

vars == <<previous, current, events, pc, todo, added, crashes>>

\* The loops of diff_snapshots: condition changes by applicant, then the other
\* keys, within a key the fields.
Place(e) ==
    IF e.type = "condition_changed" THEN <<0, e.uid, e.from, e.to>>
    ELSE <<1, e.uid, IF e.to = None THEN e.from ELSE e.to,
           Cardinality({i \in DOMAIN FieldLoop : e.type \notin {FieldLoop[j] : j \in 1..i}})>>

Before(p, q) == \E i \in 1..4 : p[i] < q[i] /\ \A j \in 1..(i - 1) : p[j] = q[j]

\* Mutant: the condition an applicant moved to is not part of the key.
IdentityByStart(e) == <<e.uid, e.from, e.type>>

\* uq_application_events_diff_identity and its index for absent conditions
Identity(e) == <<e.uid, e.from, e.to, e.type>>
Known(es, e) == \E f \in es : Identity(f) = Identity(e)

\* Mutant: the loops run over sets as they come.
IsSome(r, e) == e \in todo[r]

IsNext(r, e) ==
    /\ e \in todo[r]
    /\ \A f \in todo[r] \ {e} : Before(Place(e), Place(f))

Init ==
    /\ previous \in Snapshots
    /\ current \in Snapshots
    /\ events = {}
    /\ pc = [r \in Diffs |-> "idle"]
    /\ todo = [r \in Diffs |-> {}]
    /\ added = [r \in Diffs |-> {}]
    /\ crashes = 0

\* Equal content hashes are skipped without an event.
Diff(r) ==
    /\ pc[r] = "idle"
    /\ todo' = [todo EXCEPT ![r] = IF previous = current THEN {}
                                   ELSE Events(previous, current)]
    /\ pc' = [pc EXCEPT ![r] = "select"]
    /\ UNCHANGED <<previous, current, events, added, crashes>>

\* The SELECT sees committed rows and the run's own.
SelectDuplicate(r) ==
    /\ pc[r] = "select"
    /\ \E e \in todo[r] :
          /\ IsNext(r, e)
          /\ IF Known(events \cup added[r], e)
             THEN todo' = [todo EXCEPT ![r] = @ \ {e}] /\ UNCHANGED pc
             ELSE pc' = [pc EXCEPT ![r] = "insert"] /\ UNCHANGED todo
    /\ UNCHANGED <<previous, current, events, added, crashes>>

Held(r, e) == \E q \in Diffs \ {r} : pc[q] # "done" /\ Known(added[q], e)

\* Mutant: a key another run holds counts as a conflict at once.
InsertWithoutWaiting(r) ==
    /\ pc[r] = "insert"
    /\ \E e \in todo[r] :
          /\ IsNext(r, e)
          /\ added' = [added EXCEPT ![r] = IF Known(events, e) \/ Held(r, e)
                                           THEN @ ELSE @ \cup {e}]
          /\ todo' = [todo EXCEPT ![r] = @ \ {e}]
    /\ pc' = [pc EXCEPT ![r] = "select"]
    /\ UNCHANGED <<previous, current, events, crashes>>

\* Mutant: a conflict is reported like a new row.
InsertCountsAll(r) ==
    /\ pc[r] = "insert"
    /\ \E e \in todo[r] :
          /\ IsNext(r, e)
          /\ ~Held(r, e)
          /\ added' = [added EXCEPT ![r] = @ \cup {e}]
          /\ todo' = [todo EXCEPT ![r] = @ \ {e}]
    /\ pc' = [pc EXCEPT ![r] = "select"]
    /\ UNCHANGED <<previous, current, events, crashes>>

\* ON CONFLICT DO NOTHING RETURNING id
Insert(r) ==
    /\ pc[r] = "insert"
    /\ \E e \in todo[r] :
          /\ IsNext(r, e)
          /\ ~Held(r, e)
          /\ added' = [added EXCEPT ![r] = IF Known(events, e) THEN @ ELSE @ \cup {e}]
          /\ todo' = [todo EXCEPT ![r] = @ \ {e}]
    /\ pc' = [pc EXCEPT ![r] = "select"]
    /\ UNCHANGED <<previous, current, events, crashes>>

\* The caller's UnitOfWork commits; event_counts counts what the run added.
Commit(r) ==
    /\ pc[r] = "select"
    /\ todo[r] = {}
    /\ events' = events \cup added[r]
    /\ pc' = [pc EXCEPT ![r] = "done"]
    /\ UNCHANGED <<previous, current, todo, added, crashes>>

Crash(r) ==
    /\ pc[r] \in {"select", "insert"}
    /\ crashes < MaxCrashes
    /\ crashes' = crashes + 1
    /\ pc' = [pc EXCEPT ![r] = "failed"]
    /\ todo' = [todo EXCEPT ![r] = {}]
    /\ added' = [added EXCEPT ![r] = {}]
    /\ UNCHANGED <<previous, current, events>>

Step(r) == Diff(r) \/ SelectDuplicate(r) \/ Insert(r) \/ Commit(r)

Next == \E r \in Diffs : Step(r) \/ Crash(r)

Spec == Init /\ [][Next]_vars

\* A run that has begun is a coroutine the event loop keeps resuming.
FairSpec == Spec /\ \A r \in Diffs : WF_vars(Step(r) /\ pc[r] # "idle")
-----------------------------------------------------------------------------
\* No event is lost to a duplicate that never was: when a run of the diff has
\* committed, the table holds every event of the pair, even if runs it waited
\* for or found rows of have failed.
EventsComplete ==
    \A r \in Diffs : pc[r] = "done" =>
        Events(previous, current) \subseteq events

\* event_counts of all runs add up: each event in the table was counted by
\* exactly one committed run, so a retry reports only what is new
\* ("idempotent_retry", tests/integration/test_diff.py:62).
CountedOnce ==
    \A e \in events :
        Cardinality({r \in Diffs : pc[r] = "done" /\ e \in added[r]}) = 1

\* The table tells the new list: replaying its events on the previous list
\* gives the current one in every field that has an event type.
ReplayGivesCurrent ==
    (\E r \in Diffs : pc[r] = "done") =>
        SameTracked(Replay(previous, events), current)

\* Overlapping runs do not wait for each other in a circle.
DiffEnds == \A r \in Diffs : pc[r] = "select" ~> pc[r] \in {"done", "failed"}
=============================================================================
