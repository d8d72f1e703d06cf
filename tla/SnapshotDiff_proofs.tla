-------------------------- MODULE SnapshotDiff_proofs --------------------------
(* Proofs about ListDiff and SnapshotDiff, for any lists, fields and runs.     *)
EXTENDS SnapshotDiff, Folds_proofs

-----------------------------------------------------------------------------
(* The events of a pair, as facts about one event or one key at a time.        *)

LeftKey(old, new, u, c) == <<u, c>> \in DOMAIN old /\ <<u, c>> \notin DOMAIN new
NewKey(old, new, u, c) == <<u, c>> \notin DOMAIN old /\ <<u, c>> \in DOMAIN new
KeptKey(old, new, u, c) == <<u, c>> \in DOMAIN old /\ <<u, c>> \in DOMAIN new

IsChange(e, old, new) ==
    /\ e.from \in Conditions /\ e.to \in Conditions
    /\ LeftKey(old, new, e.uid, e.from) /\ NewKey(old, new, e.uid, e.to)
    /\ e = Event(e.uid, "condition_changed", e.from, e.to,
                 old[<<e.uid, e.from>>], new[<<e.uid, e.to>>])

IsAppeared(e, old, new) ==
    /\ e.from = None /\ e.to \in Conditions
    /\ NewKey(old, new, e.uid, e.to)
    /\ e = Event(e.uid, "appeared", None, e.to, <<>>, new[<<e.uid, e.to>>])

IsDisappeared(e, old, new) ==
    /\ e.from \in Conditions /\ e.to = None
    /\ LeftKey(old, new, e.uid, e.from)
    /\ e = Event(e.uid, "disappeared", e.from, None, old[<<e.uid, e.from>>], <<>>)

IsField(e, old, new) ==
    /\ e.from \in Conditions /\ e.to = e.from
    /\ KeptKey(old, new, e.uid, e.to)
    /\ e = Event(e.uid, e.type, e.to, e.to, old[<<e.uid, e.to>>], new[<<e.uid, e.to>>])

\* A list holds keys only.
LEMMA SnapshotKeys ==
    ASSUME NEW s \in Snapshots
    PROVE  DOMAIN s \subseteq Keys
BY DEF Snapshots

\* Every event of diff_snapshots is of one of its four kinds.
LEMMA EventShape ==
    ASSUME NEW old \in Snapshots, NEW new \in Snapshots, NEW e \in Events(old, new)
    PROVE  /\ e.uid \in Uids
           /\ \/ IsChange(e, old, new)
              \/ IsAppeared(e, old, new)
              \/ IsDisappeared(e, old, new)
              \/ IsField(e, old, new)
<1>0. DOMAIN old \subseteq Keys /\ DOMAIN new \subseteq Keys
  BY SnapshotKeys
<1>1. CASE e \in ConditionEvents(old, new)
  <2>1. PICK x \in ConditionChanges(old, new) :
           e = Event(x[1], "condition_changed", x[2], x[3],
                     old[<<x[1], x[2]>>], new[<<x[1], x[3]>>])
    BY <1>1 DEF ConditionEvents
  <2>2. /\ x[1] \in Uids /\ x[2] \in Conditions /\ x[3] \in Conditions
        /\ <<x[1], x[2]>> \in DOMAIN old \ DOMAIN new
        /\ <<x[1], x[3]>> \in DOMAIN new \ DOMAIN old
    BY <2>1 DEF ConditionChanges
  <2> QED
    BY <2>1, <2>2 DEF IsChange, LeftKey, NewKey, Event
<1>2. CASE e \in Appeared(old, new)
  <2>1. PICK k \in DOMAIN new \ DOMAIN old :
           e = Event(k[1], "appeared", None, k[2], <<>>, new[k])
    BY <1>2 DEF Appeared
  <2>2. k[1] \in Uids /\ k[2] \in Conditions /\ k = <<k[1], k[2]>>
    BY <1>0, <2>1 DEF Keys
  <2> QED
    BY <2>1, <2>2 DEF IsAppeared, NewKey, Event
<1>3. CASE e \in Disappeared(old, new)
  <2>1. PICK k \in DOMAIN old \ DOMAIN new :
           e = Event(k[1], "disappeared", k[2], None, old[k], <<>>)
    BY <1>3 DEF Disappeared
  <2>2. k[1] \in Uids /\ k[2] \in Conditions /\ k = <<k[1], k[2]>>
    BY <1>0, <2>1 DEF Keys
  <2> QED
    BY <2>1, <2>2 DEF IsDisappeared, LeftKey, Event
<1>4. CASE e \in FieldEvents(old, new)
  <2>1. PICK x \in (DOMAIN old \cap DOMAIN new) \X Tracked :
           e = Event(x[1][1], x[2], x[1][2], x[1][2], old[x[1]], new[x[1]])
    BY <1>4 DEF FieldEvents
  <2>2. x[1] \in DOMAIN old /\ x[1] \in DOMAIN new
    BY <2>1
  <2>3. x[1][1] \in Uids /\ x[1][2] \in Conditions /\ x[1] = <<x[1][1], x[1][2]>>
    BY <1>0, <2>2 DEF Keys
  <2> QED
    BY <2>1, <2>2, <2>3 DEF IsField, KeptKey, Event
<1> QED
  BY <1>1, <1>2, <1>3, <1>4 DEF Events

\* An event of no other kind is of a field.
LEMMA EventsByKind ==
    ASSUME NEW old \in Snapshots, NEW new \in Snapshots, NEW e \in Events(old, new),
           ~IsChange(e, old, new), ~IsAppeared(e, old, new), ~IsDisappeared(e, old, new)
    PROVE  e \in FieldEvents(old, new)
<1>0. DOMAIN old \subseteq Keys /\ DOMAIN new \subseteq Keys
  BY SnapshotKeys
<1>1. e \notin ConditionEvents(old, new)
  <2> SUFFICES ASSUME NEW x \in ConditionChanges(old, new),
                      e = Event(x[1], "condition_changed", x[2], x[3],
                                old[<<x[1], x[2]>>], new[<<x[1], x[3]>>])
               PROVE  FALSE
    BY DEF ConditionEvents
  <2>1. /\ x[1] \in Uids /\ x[2] \in Conditions /\ x[3] \in Conditions
        /\ <<x[1], x[2]>> \in DOMAIN old \ DOMAIN new
        /\ <<x[1], x[3]>> \in DOMAIN new \ DOMAIN old
    BY DEF ConditionChanges
  <2> QED
    BY <2>1 DEF IsChange, LeftKey, NewKey, Event
<1>2. e \notin Appeared(old, new)
  <2> SUFFICES ASSUME NEW k \in DOMAIN new \ DOMAIN old,
                      e = Event(k[1], "appeared", None, k[2], <<>>, new[k])
               PROVE  FALSE
    BY DEF Appeared
  <2>1. k[1] \in Uids /\ k[2] \in Conditions /\ k = <<k[1], k[2]>>
    BY <1>0 DEF Keys
  <2> QED
    BY <2>1 DEF IsAppeared, NewKey, Event
<1>3. e \notin Disappeared(old, new)
  <2> SUFFICES ASSUME NEW k \in DOMAIN old \ DOMAIN new,
                      e = Event(k[1], "disappeared", k[2], None, old[k], <<>>)
               PROVE  FALSE
    BY DEF Disappeared
  <2>1. k[1] \in Uids /\ k[2] \in Conditions /\ k = <<k[1], k[2]>>
    BY <1>0 DEF Keys
  <2> QED
    BY <2>1 DEF IsDisappeared, LeftKey, Event
<1> QED
  BY <1>1, <1>2, <1>3 DEF Events

\* The unique key of application_events tells the events of a pair apart: none
\* of them can be dropped as a duplicate of another one.
THEOREM IdentitiesDiffer ==
    ASSUME NEW old \in Snapshots, NEW new \in Snapshots,
           NEW e \in Events(old, new), NEW f \in Events(old, new),
           Identity(e) = Identity(f)
    PROVE  e = f
<1>1. e.uid = f.uid /\ e.from = f.from /\ e.to = f.to /\ e.type = f.type
  BY DEF Identity
<1>2. None \notin Conditions
  BY DiffAssumption
<1>3. \/ IsChange(e, old, new) \/ IsAppeared(e, old, new)
      \/ IsDisappeared(e, old, new) \/ IsField(e, old, new)
  BY EventShape
<1>4. \/ IsChange(f, old, new) \/ IsAppeared(f, old, new)
      \/ IsDisappeared(f, old, new) \/ IsField(f, old, new)
  BY EventShape
<1>5. CASE IsChange(e, old, new)
  <2>1. e.from # e.to
    BY <1>5 DEF IsChange, LeftKey, NewKey
  <2>2. IsChange(f, old, new)
    BY <1>1, <1>2, <1>4, <1>5, <2>1 DEF IsChange, IsAppeared, IsDisappeared, IsField
  <2> QED
    BY <1>1, <1>5, <2>2 DEF IsChange
<1>6. CASE IsAppeared(e, old, new)
  <2>1. IsAppeared(f, old, new)
    BY <1>1, <1>2, <1>4, <1>6 DEF IsChange, IsAppeared, IsDisappeared, IsField
  <2> QED
    BY <1>1, <1>6, <2>1 DEF IsAppeared
<1>7. CASE IsDisappeared(e, old, new)
  <2>1. IsDisappeared(f, old, new)
    BY <1>1, <1>2, <1>4, <1>7 DEF IsChange, IsAppeared, IsDisappeared, IsField
  <2> QED
    BY <1>1, <1>7, <2>1 DEF IsDisappeared
<1>8. CASE IsField(e, old, new)
  <2>1. ~IsChange(f, old, new)
    BY <1>1, <1>8 DEF IsChange, IsField, LeftKey, NewKey
  <2>2. IsField(f, old, new)
    BY <1>1, <1>2, <1>4, <1>8, <2>1 DEF IsAppeared, IsDisappeared, IsField
  <2> QED
    BY <1>1, <1>8, <2>2 DEF IsField
<1> QED
  BY <1>3, <1>5, <1>6, <1>7, <1>8

\* A key that is only in the new list is where some event ends.
LEMMA NewKeyIsEnd ==
    ASSUME NEW old \in Snapshots, NEW new \in Snapshots,
           NEW k \in DOMAIN new, k \notin DOMAIN old
    PROVE  k \in Ends(Events(old, new))
<1>0. k \in Keys /\ k[1] \in Uids /\ k[2] \in Conditions /\ k = <<k[1], k[2]>>
  BY SnapshotKeys DEF Keys
<1>1. None \notin Conditions
  BY DiffAssumption
<1>2. \E e \in Events(old, new) : e.to # None /\ <<e.uid, e.to>> = k
  <2>1. CASE k \in ChangedKeys(old, new)
    <3>1. PICK x \in ConditionChanges(old, new) :
             k = <<x[1], x[2]>> \/ k = <<x[1], x[3]>>
      BY <2>1 DEF ChangedKeys
    <3>2. k = <<x[1], x[3]>> /\ x[3] \in Conditions
      BY <3>1 DEF ConditionChanges
    <3>3. Event(x[1], "condition_changed", x[2], x[3],
                old[<<x[1], x[2]>>], new[<<x[1], x[3]>>]) \in Events(old, new)
      BY DEF Events, ConditionEvents
    <3> QED
      BY <1>1, <3>2, <3>3 DEF Event
  <2>2. CASE k \notin ChangedKeys(old, new)
    <3>1. Event(k[1], "appeared", None, k[2], <<>>, new[k]) \in Events(old, new)
      BY <2>2 DEF Events, Appeared
    <3> QED
      BY <1>0, <1>1, <3>1 DEF Event
  <2> QED
    BY <2>1, <2>2
<1> QED
  BY <1>2 DEF Ends

\* A key that is only in the old list is where some event starts.
LEMMA LeftKeyIsStart ==
    ASSUME NEW old \in Snapshots, NEW new \in Snapshots,
           NEW k \in DOMAIN old, k \notin DOMAIN new
    PROVE  k \in Starts(Events(old, new))
<1>0. k \in Keys /\ k[1] \in Uids /\ k[2] \in Conditions /\ k = <<k[1], k[2]>>
  BY SnapshotKeys DEF Keys
<1>1. None \notin Conditions
  BY DiffAssumption
<1>2. \E e \in Events(old, new) :
         e.from # None /\ e.from # e.to /\ <<e.uid, e.from>> = k
  <2>1. CASE k \in ChangedKeys(old, new)
    <3>1. PICK x \in ConditionChanges(old, new) :
             k = <<x[1], x[2]>> \/ k = <<x[1], x[3]>>
      BY <2>1 DEF ChangedKeys
    <3>2. /\ k = <<x[1], x[2]>> /\ x[2] \in Conditions
          /\ x[2] # x[3]
      BY <3>1 DEF ConditionChanges
    <3>3. Event(x[1], "condition_changed", x[2], x[3],
                old[<<x[1], x[2]>>], new[<<x[1], x[3]>>]) \in Events(old, new)
      BY DEF Events, ConditionEvents
    <3> QED
      BY <1>1, <3>2, <3>3 DEF Event
  <2>2. CASE k \notin ChangedKeys(old, new)
    <3>1. Event(k[1], "disappeared", k[2], None, old[k], <<>>) \in Events(old, new)
      BY <2>2 DEF Events, Disappeared
    <3> QED
      BY <1>0, <1>1, <3>1 DEF Event
  <2> QED
    BY <2>1, <2>2
<1> QED
  BY <1>2 DEF Starts

\* No event starts at a key that stays.
LEMMA StartsLeave ==
    ASSUME NEW old \in Snapshots, NEW new \in Snapshots,
           NEW k \in Starts(Events(old, new))
    PROVE  k \in DOMAIN old /\ k \notin DOMAIN new
<1>1. PICK e \in Events(old, new) :
         e.from # None /\ e.from # e.to /\ <<e.uid, e.from>> = k
  BY DEF Starts
<1>2. IsChange(e, old, new) \/ IsDisappeared(e, old, new)
  BY <1>1, EventShape DEF IsAppeared, IsField
<1> QED
  BY <1>1, <1>2 DEF IsChange, IsDisappeared, LeftKey

\* An event that ends at a key brings the key's state in the new list.
LEMMA EndsBringNew ==
    ASSUME NEW old \in Snapshots, NEW new \in Snapshots,
           NEW e \in Events(old, new), e.to # None
    PROVE  <<e.uid, e.to>> \in DOMAIN new /\ e.after = new[<<e.uid, e.to>>]
<1>1. IsChange(e, old, new) \/ IsAppeared(e, old, new) \/ IsField(e, old, new)
  BY EventShape DEF IsDisappeared
<1>2. e = Event(e.uid, e.type, e.from, e.to, e.before, new[<<e.uid, e.to>>])
      /\ <<e.uid, e.to>> \in DOMAIN new
  BY <1>1 DEF IsChange, IsAppeared, IsField, Event, NewKey, KeptKey
<1> QED
  BY <1>2 DEF Event

\* A key without events keeps its tracked fields.
LEMMA QuietKeyKeepsFields ==
    ASSUME NEW old \in Snapshots, NEW new \in Snapshots,
           NEW k \in DOMAIN old, k \in DOMAIN new,
           k \notin Ends(Events(old, new)),
           NEW f \in Tracked
    PROVE  old[k][f] = new[k][f]
<1>0. k[1] \in Uids /\ k[2] \in Conditions /\ k = <<k[1], k[2]>>
  BY SnapshotKeys DEF Keys
<1>1. None \notin Conditions
  BY DiffAssumption
<1>2. k \notin ChangedKeys(old, new)
  BY DEF ChangedKeys, ConditionChanges
<1>3. ASSUME old[k][f] # new[k][f]
      PROVE  FALSE
  <2>1. <<k, f>> \in ((DOMAIN old \cap DOMAIN new) \ ChangedKeys(old, new)) \X Tracked
    BY <1>2
  <2>2. Event(k[1], f, k[2], k[2], old[k], new[k]) \in FieldEvents(old, new)
    BY <1>3, <2>1 DEF FieldEvents
  <2>3. Event(k[1], f, k[2], k[2], old[k], new[k]) \in Events(old, new)
    BY <2>2 DEF Events
  <2> QED
    BY <1>0, <1>1, <2>3 DEF Ends, Event
<1> QED
  BY <1>3

\* Soundness of the diff: for any two lists, replaying the events of
\* diff_snapshots on the first gives the second in every field with an event.
THEOREM ReplayIsFaithful ==
    ASSUME NEW old \in Snapshots, NEW new \in Snapshots
    PROVE  SameTracked(Replay(old, Events(old, new)), new)
<1> DEFINE es == Events(old, new)
           l == Replay(old, es)
<1>1. DOMAIN l = (DOMAIN old \ Starts(es)) \cup Ends(es)
  BY DEF Replay
<1>2. \A k \in Ends(es) : k \in DOMAIN new
  BY EndsBringNew DEF Ends
<1>3. DOMAIN l = DOMAIN new
  <2>1. \A k \in DOMAIN l : k \in DOMAIN new
    BY <1>1, <1>2, LeftKeyIsStart
  <2>2. \A k \in DOMAIN new : k \in DOMAIN l
    BY <1>1, NewKeyIsEnd, StartsLeave
  <2> QED
    BY <2>1, <2>2
<1>4. ASSUME NEW k \in DOMAIN new, NEW f \in Tracked
      PROVE  l[k][f] = new[k][f]
  <2>1. CASE k \in Ends(es)
    <3>1. \E e \in es : e.to # None /\ <<e.uid, e.to>> = k
      BY <2>1 DEF Ends
    <3> DEFINE c == CHOOSE e \in es : e.to # None /\ <<e.uid, e.to>> = k
    <3>2. c \in es /\ c.to # None /\ <<c.uid, c.to>> = k
      BY <3>1
    <3>3. c.after = new[k]
      BY <3>2, EndsBringNew
    <3>4. l[k] = c.after
      BY <1>3, <1>1, <2>1 DEF Replay
    <3> QED
      BY <3>3, <3>4
  <2>2. CASE k \notin Ends(es)
    <3>1. k \in DOMAIN old
      BY <2>2, NewKeyIsEnd
    <3>2. l[k] = old[k]
      BY <1>3, <1>1, <2>2 DEF Replay
    <3> QED
      BY <2>2, <3>1, <3>2, QuietKeyKeepsFields
  <2> QED
    BY <2>1, <2>2
<1> QED
  BY <1>3, <1>4 DEF SameTracked

-----------------------------------------------------------------------------
(* Overlapping runs.  EventsComplete and CountedOnce speak of committed runs;  *)
(* the inductive invariant says what a run under way has settled.              *)

Derived == Events(previous, current)
Open == {"select", "insert"}

TypeInv ==
    /\ previous \in Snapshots /\ current \in Snapshots
    /\ events \subseteq Derived
    /\ pc \in [Diffs -> {"idle", "select", "insert", "done", "failed"}]
    /\ todo \in [Diffs -> SUBSET Derived]
    /\ added \in [Diffs -> SUBSET Derived]
    /\ crashes \in 0..MaxCrashes

\* An event a run has behind it is in the table or in the run's transaction.
Settled ==
    \A r \in Diffs : pc[r] \in Open \cup {"done"} =>
        Derived \subseteq todo[r] \cup added[r] \cup events

\* A transaction holds its rows until it ends.
Holds ==
    \A r \in Diffs :
        /\ pc[r] \in {"idle", "failed"} => added[r] = {}
        /\ pc[r] \in Open => added[r] \cap events = {}
        /\ pc[r] = "done" => added[r] \subseteq events /\ todo[r] = {}

\* A row has one writer, and a committed row a committed one.
OneWriter ==
    /\ \A r, q \in Diffs : r # q => added[r] \cap added[q] = {}
    /\ \A e \in events : \E r \in Diffs : pc[r] = "done" /\ e \in added[r]

DiffInv == TypeInv /\ Settled /\ Holds /\ OneWriter

\* Equal lists have no events.
LEMMA NoEvents ==
    ASSUME NEW s \in Snapshots
    PROVE  Events(s, s) = {}
<1> SUFFICES ASSUME NEW e \in Events(s, s) PROVE FALSE
  OBVIOUS
<1>1. e \in FieldEvents(s, s)
  BY EventShape DEF IsChange, IsAppeared, IsDisappeared, IsField, LeftKey, NewKey,
     Events, ConditionEvents, ConditionChanges, Appeared, Disappeared
<1> QED
  BY <1>1 DEF FieldEvents

\* A run starts with nothing settled and nothing held.
LEMMA InitInv == Init => DiffInv
BY OrderAssumption DEF Init, DiffInv, TypeInv, Settled, Holds, OneWriter, Open, Derived

\* Diff leaves every event to be saved.
LEMMA DiffKeepsInv ==
    ASSUME DiffInv, NEW r \in Diffs, Diff(r)
    PROVE  DiffInv'
<1> USE DEF DiffInv
<1>1. todo'[r] = Derived
  BY NoEvents DEF Diff, Derived, TypeInv
<1>2. Derived' = Derived
  BY DEF Diff, Derived
<1>3. TypeInv'
  BY <1>1, <1>2 DEF Diff, TypeInv
<1>4. Settled'
  BY <1>1, <1>2 DEF Diff, TypeInv, Settled, Open
<1>5. Holds'
  BY DEF Diff, TypeInv, Holds, Open
<1>6. OneWriter'
  BY DEF Diff, TypeInv, OneWriter
<1> QED
  BY <1>3, <1>4, <1>5, <1>6

\* An event the SELECT finds is that very event, in the table or the transaction.
LEMMA SelectKeepsInv ==
    ASSUME DiffInv, NEW r \in Diffs, SelectDuplicate(r)
    PROVE  DiffInv'
<1> USE DEF DiffInv
<1>1. Derived' = Derived
  BY DEF SelectDuplicate, Derived
<1>2. PICK e \in todo[r] :
         IF Known(events \cup added[r], e)
         THEN todo' = [todo EXCEPT ![r] = @ \ {e}] /\ UNCHANGED pc
         ELSE pc' = [pc EXCEPT ![r] = "insert"] /\ UNCHANGED todo
  BY DEF SelectDuplicate
<1>3. pc[r] = "select" /\ UNCHANGED <<previous, current, events, added, crashes>>
  BY DEF SelectDuplicate
<1>4. CASE Known(events \cup added[r], e)
  <2>1. PICK f \in events \cup added[r] : Identity(f) = Identity(e)
    BY <1>4 DEF Known
  <2>2. e \in events \cup added[r]
    BY <2>1, IdentitiesDiffer DEF TypeInv, Derived
  <2>3. todo' = [todo EXCEPT ![r] = @ \ {e}] /\ UNCHANGED pc
    BY <1>2, <1>4
  <2>4. TypeInv'
    BY <1>1, <1>3, <2>3 DEF TypeInv
  <2>5. Settled'
    BY <1>1, <1>3, <2>2, <2>3 DEF TypeInv, Settled
  <2>6. Holds' /\ OneWriter'
    BY <1>3, <2>3 DEF TypeInv, Holds, OneWriter, Open
  <2> QED
    BY <2>4, <2>5, <2>6
<1>5. CASE ~Known(events \cup added[r], e)
  <2>1. pc' = [pc EXCEPT ![r] = "insert"] /\ UNCHANGED todo
    BY <1>2, <1>5
  <2> QED
    BY <1>1, <1>3, <2>1 DEF TypeInv, Settled, Holds, OneWriter, Open
<1> QED
  BY <1>4, <1>5

\* An INSERT adds a row nobody has, or meets the committed row of its event.
LEMMA InsertKeepsInv ==
    ASSUME DiffInv, NEW r \in Diffs, Insert(r)
    PROVE  DiffInv'
<1> USE DEF DiffInv
<1>1. Derived' = Derived
  BY DEF Insert, Derived
<1>2. PICK e \in todo[r] :
         /\ ~Held(r, e)
         /\ added' = [added EXCEPT ![r] = IF Known(events, e) THEN @ ELSE @ \cup {e}]
         /\ todo' = [todo EXCEPT ![r] = @ \ {e}]
  BY DEF Insert
<1>3. /\ pc[r] = "insert" /\ pc' = [pc EXCEPT ![r] = "select"]
      /\ UNCHANGED <<previous, current, events, crashes>>
  BY DEF Insert
<1>4. TypeInv'
  BY <1>1, <1>2, <1>3 DEF TypeInv
<1>5. CASE Known(events, e)
  <2>1. e \in events
    BY <1>5, IdentitiesDiffer DEF Known, TypeInv, Derived
  <2>2. added' = added
    BY <1>2, <1>5 DEF TypeInv
  <2>3. Settled'
    BY <1>1, <1>2, <1>3, <2>1, <2>2 DEF TypeInv, Settled, Open
  <2>4. Holds' /\ OneWriter'
    BY <1>2, <1>3, <2>2 DEF TypeInv, Holds, OneWriter, Open
  <2> QED
    BY <1>4, <2>3, <2>4
<1>6. CASE ~Known(events, e)
  <2>1. e \notin events
    BY <1>6 DEF Known
  <2>2. added' = [added EXCEPT ![r] = @ \cup {e}]
    BY <1>2, <1>6
  <2>3. \A q \in Diffs \ {r} : e \notin added[q]
    BY <1>2, <2>1 DEF Held, Known, Holds
  <2>4. Settled'
    BY <1>1, <1>2, <1>3, <2>2 DEF TypeInv, Settled, Open
  <2>5. Holds'
    BY <1>2, <1>3, <2>1, <2>2 DEF TypeInv, Holds, Open
  <2>6. OneWriter'
    BY <1>3, <2>2, <2>3 DEF TypeInv, OneWriter
  <2> QED
    BY <1>4, <2>4, <2>5, <2>6
<1> QED
  BY <1>5, <1>6

\* A commit publishes what only this run has.
LEMMA CommitKeepsInv ==
    ASSUME DiffInv, NEW r \in Diffs, Commit(r)
    PROVE  DiffInv'
<1> USE DEF DiffInv
<1>1. Derived' = Derived
  BY DEF Commit, Derived
<1>2. TypeInv'
  BY <1>1 DEF Commit, TypeInv
<1>3. Settled'
  BY <1>1 DEF Commit, TypeInv, Settled, Open
<1>4. Holds'
  BY DEF Commit, TypeInv, Holds, OneWriter, Open
<1>5. OneWriter'
  BY DEF Commit, TypeInv, OneWriter
<1> QED
  BY <1>2, <1>3, <1>4, <1>5

\* A failed run takes its rows with it.
LEMMA CrashKeepsInv ==
    ASSUME DiffInv, NEW r \in Diffs, Crash(r)
    PROVE  DiffInv'
<1> USE DEF DiffInv
<1>1. Derived' = Derived
  BY DEF Crash, Derived
<1>2. TypeInv'
  BY <1>1, OrderAssumption DEF Crash, TypeInv
<1>3. Settled'
  BY <1>1 DEF Crash, TypeInv, Settled, Open
<1>4. Holds'
  BY DEF Crash, TypeInv, Holds, Open
<1>5. OneWriter'
  BY DEF Crash, TypeInv, OneWriter
<1> QED
  BY <1>2, <1>3, <1>4, <1>5

\* The inductive invariant holds in every reachable state.
THEOREM DiffInvariance == Spec => []DiffInv
<1>1. Init => DiffInv
  BY InitInv
<1>2. DiffInv /\ [Next]_vars => DiffInv'
  <2> SUFFICES ASSUME DiffInv, [Next]_vars PROVE DiffInv'
    OBVIOUS
  <2>1. CASE UNCHANGED vars
    BY <2>1 DEF vars, DiffInv, TypeInv, Settled, Holds, OneWriter, Derived
  <2>2. CASE Next
    BY <2>2, DiffKeepsInv, SelectKeepsInv, InsertKeepsInv, CommitKeepsInv, CrashKeepsInv
       DEF Next, Step
  <2> QED
    BY <2>1, <2>2
<1> QED
  BY <1>1, <1>2, PTL DEF Spec

\* No event is lost: a committed run leaves all events of the pair in the table,
\* whatever rows it found, waited for, or saw rolled back.
THEOREM NoEventLost == Spec => []EventsComplete
<1>1. DiffInv => EventsComplete
  BY DEF DiffInv, Settled, Holds, Derived, Open, EventsComplete
<1> QED
  BY <1>1, DiffInvariance, PTL

\* Each committed event was counted by exactly one committed run.
THEOREM NoEventCountedTwice == Spec => []CountedOnce
<1>1. DiffInv => CountedOnce
  <2> SUFFICES ASSUME DiffInv, NEW e \in events
               PROVE  Cardinality({r \in Diffs : pc[r] = "done" /\ e \in added[r]}) = 1
    BY DEF CountedOnce
  <2>1. PICK r \in Diffs : pc[r] = "done" /\ e \in added[r]
    BY DEF DiffInv, OneWriter
  <2>2. {q \in Diffs : pc[q] = "done" /\ e \in added[q]} = {r}
    BY <2>1 DEF DiffInv, OneWriter
  <2> QED
    BY <2>2, FS_Singleton
<1> QED
  BY <1>1, DiffInvariance, PTL

\* Once a run has committed, the table alone leads from the previous list to
\* the current one.
THEOREM TableTellsTheNewList == Spec => []ReplayGivesCurrent
<1>1. DiffInv => ReplayGivesCurrent
  <2> SUFFICES ASSUME DiffInv, NEW r \in Diffs, pc[r] = "done"
               PROVE  SameTracked(Replay(previous, events), current)
    BY DEF ReplayGivesCurrent
  <2>1. events = Events(previous, current)
    BY DEF DiffInv, TypeInv, Settled, Holds, Derived, Open
  <2>2. previous \in Snapshots /\ current \in Snapshots
    BY DEF DiffInv, TypeInv
  <2> QED
    BY <2>1, <2>2, ReplayIsFaithful
<1> QED
  BY <1>1, DiffInvariance, PTL

\* Readers of the table never see half a diff: it has no event of the pair or
\* all of them, and once it has them no step takes one away or adds one, however
\* many runs overlap, fail or are made again.
THEOREM DiffIsAtomic ==
    Spec => /\ [](events = {} \/ events = Events(previous, current))
            /\ [][events # {} => UNCHANGED events]_vars
<1>1. DiffInv => (events = {} \/ events = Events(previous, current))
  BY DEF DiffInv, TypeInv, OneWriter, Settled, Holds, Derived, Open
<1>2. DiffInv /\ DiffInv' /\ [Next]_vars => [events # {} => UNCHANGED events]_vars
  <2> SUFFICES ASSUME DiffInv, DiffInv', [Next]_vars, events # {}
               PROVE  UNCHANGED events
    OBVIOUS
  <2>1. events \subseteq events'
    BY DEF Next, Step, Diff, SelectDuplicate, Insert, Commit, Crash, vars
  <2>2. UNCHANGED <<previous, current>>
    BY DEF Next, Step, Diff, SelectDuplicate, Insert, Commit, Crash, vars
  <2>3. events = Events(previous, current)
    BY <1>1
  <2>4. events' \subseteq Events(previous, current)
    BY <2>2 DEF DiffInv, TypeInv, Derived
  <2> QED
    BY <2>1, <2>3, <2>4
<1> QED
  BY <1>1, <1>2, DiffInvariance, PTL DEF Spec

-----------------------------------------------------------------------------
(* No deadlock.  The loops put the events of a pair in one order, the same for *)
(* every run; so who waits for a row waits for a run that is further on.       *)

\* The INSERT of r waits for the transaction of q, which has inserted its key.
WaitsFor(r, q) ==
    /\ pc[r] = "insert" /\ pc[q] # "done"
    /\ \E e \in todo[r] : IsNext(r, e) /\ Known(added[q], e)

\* Among any runs one waits for none of the others.
NoCircularWait ==
    \A rs \in (SUBSET Diffs) \ {{}} : \E r \in rs : \A q \in rs \ {r} : ~WaitsFor(r, q)

\* The guards of SelectDuplicate and Commit, and of Insert.
CanGoOn(r) ==
    \/ pc[r] = "select" /\ (todo[r] = {} \/ \E e \in todo[r] : IsNext(r, e))
    \/ pc[r] = "insert" /\ \E e \in todo[r] : IsNext(r, e) /\ ~Held(r, e)

\* What a run has inserted comes before what it has still to save.
InLoopOrder ==
    \A r \in Diffs :
        /\ pc[r] = "insert" => todo[r] # {}
        /\ \A e \in added[r], f \in todo[r] : Before(Place(e), Place(f))

\* Before compares places component by component.
LEMMA BeforeIs ==
    ASSUME NEW p, NEW q
    PROVE  Before(p, q) <=>
              \/ p[1] < q[1]
              \/ p[1] = q[1] /\ p[2] < q[2]
              \/ p[1] = q[1] /\ p[2] = q[2] /\ p[3] < q[3]
              \/ p[1] = q[1] /\ p[2] = q[2] /\ p[3] = q[3] /\ p[4] < q[4]
<1>1. 1..4 = {1, 2, 3, 4}
  OBVIOUS
<1>2. 1..(1 - 1) = {} /\ 1..(2 - 1) = {1} /\ 1..(3 - 1) = {1, 2} /\ 1..(4 - 1) = {1, 2, 3}
  OBVIOUS
<1> QED
  BY <1>1, <1>2, Zenon DEF Before

Places == [1..4 -> Nat]

\* Places are in a strict total order.
LEMMA BeforeIsOrder ==
    ASSUME NEW p \in Places, NEW q \in Places, NEW s \in Places
    PROVE  /\ ~Before(p, p)
           /\ Before(p, q) /\ Before(q, s) => Before(p, s)
           /\ p # q => Before(p, q) \/ Before(q, p)
<1>1. \A x \in Places : x[1] \in Nat /\ x[2] \in Nat /\ x[3] \in Nat /\ x[4] \in Nat
  BY DEF Places
<1>2. ~Before(p, p)
  BY <1>1, BeforeIs
<1>3. Before(p, q) /\ Before(q, s) => Before(p, s)
  BY <1>1, BeforeIs
<1>4. ASSUME p # q PROVE Before(p, q) \/ Before(q, p)
  <2>1. p[1] # q[1] \/ p[2] # q[2] \/ p[3] # q[3] \/ p[4] # q[4]
    BY <1>4 DEF Places
  <2> QED
    BY <1>1, <2>1, BeforeIs
<1> QED
  BY <1>2, <1>3, <1>4

FieldPlace(t) ==
    Cardinality({i \in DOMAIN FieldLoop : t \notin {FieldLoop[j] : j \in 1..i}})

\* The place of a field is where it stands in the loop.
LEMMA FieldPlaceIs ==
    /\ \A t : FieldPlace(t) \in Nat
    /\ \A k \in 1..7 : FieldPlace(FieldLoop[k]) = k - 1
<1>1. DOMAIN FieldLoop = 1..7
  BY DEF FieldLoop
<1>2. \A i, j \in 1..7 : FieldLoop[i] = FieldLoop[j] => i = j
  BY DEF FieldLoop
<1>3. IsFiniteSet(1..7)
  <2>1. 1 \in Int /\ 7 \in Int
    OBVIOUS
  <2> QED
    BY <2>1, FS_Interval, Zenon
<1> HIDE DEF FieldLoop
<1>4. ASSUME NEW t PROVE FieldPlace(t) \in Nat
  <2> DEFINE S == {i \in DOMAIN FieldLoop : t \notin {FieldLoop[j] : j \in 1..i}}
  <2>1. IsFiniteSet(S)
    BY <1>1, <1>3, FS_Subset
  <2> QED
    BY <2>1, FS_CardinalityType DEF FieldPlace
<1>5. ASSUME NEW k \in 1..7 PROVE FieldPlace(FieldLoop[k]) = k - 1
  <2>1. {i \in DOMAIN FieldLoop : FieldLoop[k] \notin {FieldLoop[j] : j \in 1..i}} = 1..(k - 1)
    BY <1>1, <1>2
  <2>2. Cardinality(1..(k - 1)) = k - 1
    BY FS_Interval
  <2> QED
    BY <2>1, <2>2 DEF FieldPlace
<1> QED
  BY <1>4, <1>5

\* Where the loops have an event, kind by kind.
LEMMA PlaceIs ==
    ASSUME NEW old \in Snapshots, NEW new \in Snapshots, NEW e \in Events(old, new)
    PROVE  /\ Place(e) \in Places
           /\ IsChange(e, old, new) => Place(e) = <<0, e.uid, e.from, e.to>>
           /\ IsAppeared(e, old, new) =>
                 Place(e) = <<1, e.uid, e.to, FieldPlace(e.type)>>
           /\ IsDisappeared(e, old, new) =>
                 Place(e) = <<1, e.uid, e.from, FieldPlace(e.type)>>
           /\ IsField(e, old, new) =>
                 /\ Place(e) = <<1, e.uid, e.to, FieldPlace(e.type)>>
                 /\ \E k \in 1..7 : e.type = FieldLoop[k]
<1>1. /\ e.uid \in Uids
      /\ \/ IsChange(e, old, new) \/ IsAppeared(e, old, new)
         \/ IsDisappeared(e, old, new) \/ IsField(e, old, new)
  BY EventShape
<1>2. None \notin Conditions /\ Uids \subseteq Nat /\ Conditions \subseteq Nat
  BY DiffAssumption, OrderAssumption
<1>3. FieldPlace(e.type) \in Nat
  BY FieldPlaceIs
<1>4. Place(e) = IF e.type = "condition_changed" THEN <<0, e.uid, e.from, e.to>>
                 ELSE <<1, e.uid, IF e.to = None THEN e.from ELSE e.to, FieldPlace(e.type)>>
  BY Zenon DEF Place, FieldPlace
<1>5. \A a, b, c, d \in Nat : <<a, b, c, d>> \in Places
  BY DEF Places
<1>6. ASSUME IsChange(e, old, new)
      PROVE  /\ Place(e) = <<0, e.uid, e.from, e.to>> /\ Place(e) \in Places
  <2>1. e.type = "condition_changed" /\ e.from \in Nat /\ e.to \in Nat /\ e.uid \in Nat
    BY <1>1, <1>2, <1>6 DEF IsChange, Event
  <2> QED
    BY <1>4, <1>5, <2>1
<1>7. ASSUME IsAppeared(e, old, new)
      PROVE  Place(e) = <<1, e.uid, e.to, FieldPlace(e.type)>> /\ Place(e) \in Places
  <2>1. e.type = "appeared" /\ e.to \in Nat /\ e.uid \in Nat /\ e.to # None
    BY <1>1, <1>2, <1>7 DEF IsAppeared, Event
  <2> QED
    BY <1>3, <1>4, <1>5, <2>1
<1>8. ASSUME IsDisappeared(e, old, new)
      PROVE  Place(e) = <<1, e.uid, e.from, FieldPlace(e.type)>> /\ Place(e) \in Places
  <2>1. e.type = "disappeared" /\ e.from \in Nat /\ e.uid \in Nat /\ e.to = None
    BY <1>1, <1>2, <1>8 DEF IsDisappeared, Event
  <2> QED
    BY <1>3, <1>4, <1>5, <2>1
<1>9. ASSUME IsField(e, old, new)
      PROVE  /\ Place(e) = <<1, e.uid, e.to, FieldPlace(e.type)>> /\ Place(e) \in Places
             /\ \E k \in 1..7 : e.type = FieldLoop[k]
  <2>1. e.to \in Nat /\ e.uid \in Nat /\ e.to # None /\ e.to = e.from
    BY <1>1, <1>2, <1>9 DEF IsField
  <2>2. e.type \in Tracked
    <3>1. e.to \in Conditions /\ e.from # None /\ KeptKey(old, new, e.uid, e.to)
      BY <1>2, <1>9 DEF IsField
    <3>2. ~IsChange(e, old, new) /\ ~IsAppeared(e, old, new) /\ ~IsDisappeared(e, old, new)
      BY <2>1, <3>1 DEF IsChange, IsAppeared, IsDisappeared, LeftKey, NewKey, KeptKey
    <3>3. e \in FieldEvents(old, new)
      BY <3>2, EventsByKind
    <3> QED
      BY <3>3 DEF FieldEvents, Event
  <2>3. \E k \in DOMAIN FieldLoop : e.type = FieldLoop[k]
    BY <2>2, DiffAssumption
  <2>4. DOMAIN FieldLoop = 1..7
    BY DEF FieldLoop
  <2>5. e.type # "condition_changed"
    BY <2>3, <2>4 DEF FieldLoop
  <2>6. Place(e) = <<1, e.uid, e.to, FieldPlace(e.type)>>
    BY <1>4, <2>1, <2>5
  <2> QED
    BY <1>3, <1>5, <2>1, <2>3, <2>4, <2>6
<1> QED
  BY <1>1, <1>6, <1>7, <1>8, <1>9

\* The loops of diff_snapshots put the events of a pair in one order, whatever
\* the lists: no two events have the same place, so every run takes the unique
\* keys of application_events in the same order.
THEOREM LoopsOrderEvents ==
    ASSUME NEW old \in Snapshots, NEW new \in Snapshots,
           NEW e \in Events(old, new), NEW f \in Events(old, new), e # f
    PROVE  Before(Place(e), Place(f)) \/ Before(Place(f), Place(e))
<1>1. SUFFICES ASSUME Place(e) = Place(f) PROVE FALSE
  BY PlaceIs, BeforeIsOrder
<1>2. \/ IsChange(e, old, new) \/ IsAppeared(e, old, new)
      \/ IsDisappeared(e, old, new) \/ IsField(e, old, new)
  BY EventShape
<1>3. \/ IsChange(f, old, new) \/ IsAppeared(f, old, new)
      \/ IsDisappeared(f, old, new) \/ IsField(f, old, new)
  BY EventShape
<1>4. ASSUME NEW x \in Events(old, new), NEW y \in Events(old, new),
             Place(x) = Place(y), IsChange(x, old, new),
             \/ IsChange(y, old, new) \/ IsAppeared(y, old, new)
             \/ IsDisappeared(y, old, new) \/ IsField(y, old, new)
      PROVE  x = y
  <2>1. Place(x) = <<0, x.uid, x.from, x.to>>
    BY <1>4, PlaceIs
  <2>2. IsChange(y, old, new) /\ Place(y) = <<0, y.uid, y.from, y.to>>
    <3>1. Place(y)[1] = 0
      BY <1>4, <2>1
    <3>2. ~IsChange(y, old, new) => Place(y)[1] = 1
      BY <1>4, PlaceIs
    <3> QED
      BY <1>4, <3>1, <3>2, PlaceIs
  <2>3. x.uid = y.uid /\ x.from = y.from /\ x.to = y.to
    <3>1. /\ Place(x)[2] = x.uid /\ Place(x)[3] = x.from /\ Place(x)[4] = x.to
          /\ Place(y)[2] = y.uid /\ Place(y)[3] = y.from /\ Place(y)[4] = y.to
      BY <2>1, <2>2
    <3> QED
      BY <1>4, <3>1
  <2> QED
    BY <1>4, <2>2, <2>3 DEF IsChange
<1>5. ~IsChange(e, old, new) /\ ~IsChange(f, old, new)
  BY <1>1, <1>2, <1>3, <1>4
<1> DEFINE Other(x) == IF IsDisappeared(x, old, new) THEN x.from ELSE x.to
<1>6. ASSUME NEW x \in Events(old, new), ~IsChange(x, old, new),
             \/ IsAppeared(x, old, new) \/ IsDisappeared(x, old, new)
             \/ IsField(x, old, new)
      PROVE  /\ Place(x)[2] = x.uid /\ Place(x)[3] = Other(x)
             /\ Place(x)[4] = FieldPlace(x.type)
  <2>1. IsDisappeared(x, old, new) => ~IsAppeared(x, old, new) /\ ~IsField(x, old, new)
    BY DiffAssumption DEF IsAppeared, IsDisappeared, IsField
  <2> QED
    BY <1>6, <2>1, PlaceIs
<1>7. e.uid = f.uid /\ Other(e) = Other(f) /\ FieldPlace(e.type) = FieldPlace(f.type)
  BY <1>1, <1>2, <1>3, <1>5, <1>6
<1>8. CASE IsDisappeared(e, old, new)
  <2>1. LeftKey(old, new, f.uid, Other(f))
    BY <1>7, <1>8 DEF IsDisappeared
  <2>2. IsDisappeared(f, old, new)
    BY <1>3, <1>5, <2>1 DEF IsAppeared, IsField, LeftKey, NewKey, KeptKey
  <2> QED
    BY <1>7, <1>8, <2>2 DEF IsDisappeared
<1>9. CASE IsDisappeared(f, old, new)
  <2>1. LeftKey(old, new, e.uid, Other(e))
    BY <1>7, <1>9 DEF IsDisappeared
  <2>2. IsDisappeared(e, old, new)
    BY <1>2, <1>5, <2>1 DEF IsAppeared, IsField, LeftKey, NewKey, KeptKey
  <2> QED
    BY <1>8, <2>2
<1>10. CASE ~IsDisappeared(e, old, new) /\ ~IsDisappeared(f, old, new)
  <2>1. e.to = f.to
    BY <1>7, <1>10
  <2>2. CASE IsAppeared(e, old, new)
    <3>1. IsAppeared(f, old, new)
      BY <1>3, <1>5, <1>7, <1>10, <2>1, <2>2 DEF IsAppeared, IsField, NewKey, KeptKey
    <3> QED
      BY <1>7, <2>1, <2>2, <3>1 DEF IsAppeared
  <2>3. CASE IsField(e, old, new)
    <3>1. IsField(f, old, new)
      BY <1>3, <1>5, <1>7, <1>10, <2>1, <2>3 DEF IsAppeared, IsField, NewKey, KeptKey
    <3>2. PICK j \in 1..7 : e.type = FieldLoop[j]
      BY <2>3, PlaceIs
    <3>3. PICK k \in 1..7 : f.type = FieldLoop[k]
      BY <3>1, PlaceIs
    <3>4. j = k
      <4>1. FieldPlace(FieldLoop[j]) = j - 1 /\ FieldPlace(FieldLoop[k]) = k - 1
        BY FieldPlaceIs
      <4>2. j - 1 = k - 1
        BY <1>7, <3>2, <3>3, <4>1
      <4> QED
        BY <4>2
    <3> QED
      BY <1>7, <2>1, <2>3, <3>1, <3>2, <3>3, <3>4 DEF IsField
  <2> QED
    BY <1>2, <1>5, <1>10, <2>2, <2>3
<1> QED
  BY <1>8, <1>9, <1>10

\* A pair has finitely many events.
LEMMA FinitelyManyEvents ==
    ASSUME NEW old \in Snapshots, NEW new \in Snapshots
    PROVE  IsFiniteSet(Events(old, new))
<1> DEFINE Types == {"condition_changed", "appeared", "disappeared"}
                        \cup {FieldLoop[i] : i \in DOMAIN FieldLoop}
           Conds == Conditions \cup {None}
           Codes == (Uids \X Conds) \X (Conds \X Types)
           code == [e \in Events(old, new) |-> <<<<e.uid, e.from>>, <<e.to, e.type>>>>]
<1>1. IsFiniteSet(Types)
  <2>1. DOMAIN FieldLoop = 1..7
    BY DEF FieldLoop
  <2>2. IsFiniteSet(1..7)
    <3>1. 1 \in Int /\ 7 \in Int
      OBVIOUS
    <3> QED
      BY <3>1, FS_Interval, Zenon
  <2>3. IsFiniteSet({FieldLoop[i] : i \in DOMAIN FieldLoop})
    BY <2>1, <2>2, FiniteRange
  <2>4. /\ IsFiniteSet({"condition_changed"}) /\ IsFiniteSet({"appeared"})
        /\ IsFiniteSet({"disappeared"})
    BY FS_Singleton
  <2>5. IsFiniteSet(({"condition_changed"} \cup {"appeared"}) \cup {"disappeared"})
    BY <2>4, FS_Union, Zenon
  <2>6. {"condition_changed", "appeared", "disappeared"}
          = ({"condition_changed"} \cup {"appeared"}) \cup {"disappeared"}
    OBVIOUS
  <2> QED
    BY <2>3, <2>5, <2>6, FS_Union, Zenon
<1>2. IsFiniteSet(Conds)
  BY FiniteAssumption, FS_AddElement
<1>3. IsFiniteSet(Codes)
  BY <1>1, <1>2, FiniteAssumption, FS_Product
<1>4. ASSUME NEW e \in Events(old, new)
      PROVE  <<<<e.uid, e.from>>, <<e.to, e.type>>>> \in Codes
  <2>1. /\ e.uid \in Uids
        /\ \/ IsChange(e, old, new) \/ IsAppeared(e, old, new)
           \/ IsDisappeared(e, old, new) \/ IsField(e, old, new)
    BY EventShape
  <2>2. e.from \in Conds /\ e.to \in Conds
    BY <2>1 DEF IsChange, IsAppeared, IsDisappeared, IsField
  <2>3. e.type \in Types
    <3>1. IsField(e, old, new) => e.type \in Types
      <4>1. IsField(e, old, new) => \E k \in 1..7 : e.type = FieldLoop[k]
        BY PlaceIs
      <4>2. DOMAIN FieldLoop = 1..7
        BY DEF FieldLoop
      <4> QED
        BY <4>1, <4>2
    <3>2. ~IsField(e, old, new) =>
             e.type \in {"condition_changed", "appeared", "disappeared"}
      BY <2>1 DEF IsChange, IsAppeared, IsDisappeared, Event
    <3> QED
      BY <3>1, <3>2
  <2> QED
    BY <2>1, <2>2, <2>3
<1>5. \A e, f \in Events(old, new) : code[e] = code[f] => e = f
  <2> SUFFICES ASSUME NEW e \in Events(old, new), NEW f \in Events(old, new),
                      code[e] = code[f]
               PROVE  e = f
    OBVIOUS
  <2>1. e.uid = f.uid /\ e.from = f.from /\ e.to = f.to /\ e.type = f.type
    OBVIOUS
  <2> QED
    BY <2>1, IdentitiesDiffer DEF Identity
<1>6. code \in Injection(Events(old, new), Codes)
  <2>1. code \in [Events(old, new) -> Codes]
    BY <1>4
  <2> HIDE DEF code, Codes
  <2> QED
    BY <1>5, <2>1 DEF Injection, IsInjective
<1> HIDE DEF code, Codes
<1> QED
  BY <1>3, <1>6, FS_Injection

\* Of two events one is next before the other.
LEMMA NextIsUnique ==
    ASSUME DiffInv, NEW r \in Diffs, NEW e, NEW f, IsNext(r, e), IsNext(r, f)
    PROVE  e = f
<1> SUFFICES ASSUME e # f PROVE FALSE
  OBVIOUS
<1>1. Before(Place(e), Place(f)) /\ Before(Place(f), Place(e))
  BY DEF IsNext
<1>2. Place(e) \in Places /\ Place(f) \in Places
  BY PlaceIs DEF DiffInv, TypeInv, Derived, IsNext
<1> QED
  BY <1>1, <1>2, BeforeIsOrder

\* While events are left, one of them is next.
LEMMA NextExists ==
    ASSUME DiffInv, NEW r \in Diffs, todo[r] # {}
    PROVE  \E e \in todo[r] : IsNext(r, e)
<1>1. /\ todo[r] \subseteq Events(previous, current)
      /\ previous \in Snapshots /\ current \in Snapshots
  BY DEF DiffInv, TypeInv, Derived
<1>2. IsFiniteSet(todo[r])
  BY <1>1, FinitelyManyEvents, FS_Subset
<1> DEFINE R == {p \in todo[r] \X todo[r] : Before(Place(p[2]), Place(p[1]))}
<1>3. \A e, f \in todo[r] : <<e, f>> \in R <=> Before(Place(f), Place(e))
  OBVIOUS
<1>4. \A e \in todo[r] : Place(e) \in Places
  BY <1>1, PlaceIs
<1> HIDE DEF R
<1>5. PICK e \in todo[r] : \A f \in todo[r] : <<e, f>> \notin R
  <2>1. \A e \in todo[r] : <<e, e>> \notin R
    BY <1>3, <1>4, BeforeIsOrder
  <2>2. \A e, f, g \in todo[r] : <<e, f>> \in R /\ <<f, g>> \in R => <<e, g>> \in R
    BY <1>3, <1>4, BeforeIsOrder
  <2> QED
    BY <1>2, <2>1, <2>2, MaximalElement
<1>6. \A f \in todo[r] \ {e} : Before(Place(e), Place(f))
  BY <1>1, <1>3, <1>5, LoopsOrderEvents
<1> QED
  BY <1>6 DEF IsNext

\* Every step keeps the order of the loops.
LEMMA NextInLoopOrder == DiffInv /\ InLoopOrder /\ [Next]_vars => InLoopOrder'
<1> SUFFICES ASSUME DiffInv, InLoopOrder, [Next]_vars PROVE InLoopOrder'
  OBVIOUS
<1> USE DEF DiffInv, TypeInv
<1>1. CASE UNCHANGED vars
  BY <1>1 DEF vars, InLoopOrder
<1>2. ASSUME NEW r \in Diffs, Diff(r) PROVE InLoopOrder'
  <2>1. added[r] = {} /\ pc'[r] = "select"
    BY <1>2 DEF Diff, Holds
  <2>2. \A q \in Diffs \ {r} : pc'[q] = pc[q] /\ todo'[q] = todo[q]
    BY <1>2 DEF Diff
  <2>3. added' = added
    BY <1>2 DEF Diff
  <2> QED
    BY <2>1, <2>2, <2>3 DEF InLoopOrder
<1>3. ASSUME NEW r \in Diffs, SelectDuplicate(r) PROVE InLoopOrder'
  <2>1. PICK e \in todo[r] :
           \/ todo' = [todo EXCEPT ![r] = @ \ {e}] /\ UNCHANGED pc
           \/ pc' = [pc EXCEPT ![r] = "insert"] /\ UNCHANGED todo
    BY <1>3 DEF SelectDuplicate
  <2>2. pc[r] = "select" /\ added' = added
    BY <1>3 DEF SelectDuplicate
  <2>3. CASE todo' = [todo EXCEPT ![r] = @ \ {e}] /\ UNCHANGED pc
    <3>1. /\ todo'[r] = todo[r] \ {e}
          /\ \A q \in Diffs \ {r} : todo'[q] = todo[q]
      BY <2>3
    <3> QED
      BY <2>2, <2>3, <3>1 DEF InLoopOrder
  <2>4. CASE pc' = [pc EXCEPT ![r] = "insert"] /\ UNCHANGED todo
    <3>1. \A q \in Diffs \ {r} : pc'[q] = pc[q]
      BY <2>4
    <3> QED
      BY <2>2, <2>4, <3>1 DEF InLoopOrder
  <2> QED
    BY <2>1, <2>3, <2>4
<1>4. ASSUME NEW r \in Diffs, Insert(r) PROVE InLoopOrder'
  <2>1. PICK e \in todo[r] :
           /\ IsNext(r, e)
           /\ added' = [added EXCEPT ![r] = IF Known(events, e) THEN @ ELSE @ \cup {e}]
           /\ todo' = [todo EXCEPT ![r] = @ \ {e}]
    BY <1>4 DEF Insert
  <2>2. pc' = [pc EXCEPT ![r] = "select"]
    BY <1>4 DEF Insert
  <2>3. /\ todo'[r] = todo[r] \ {e} /\ added'[r] \subseteq added[r] \cup {e}
        /\ pc'[r] = "select"
        /\ \A q \in Diffs \ {r} : /\ todo'[q] = todo[q] /\ added'[q] = added[q]
                                /\ pc'[q] = pc[q]
    BY <2>1, <2>2
  <2>4. \A f \in todo[r] \ {e} : Before(Place(e), Place(f))
    BY <2>1 DEF IsNext
  <2>5. ASSUME NEW x \in added'[r], NEW f \in todo'[r]
        PROVE  Before(Place(x), Place(f))
    BY <2>3, <2>4, <2>5 DEF InLoopOrder
  <2> QED
    BY <2>3, <2>5 DEF InLoopOrder
<1>5. ASSUME NEW r \in Diffs, Commit(r) PROVE InLoopOrder'
  <2>1. pc'[r] = "done" /\ \A q \in Diffs \ {r} : pc'[q] = pc[q]
    BY <1>5 DEF Commit
  <2> QED
    BY <1>5, <2>1 DEF Commit, InLoopOrder
<1>6. ASSUME NEW r \in Diffs, Crash(r) PROVE InLoopOrder'
  <2>1. /\ pc'[r] = "failed" /\ added'[r] = {}
        /\ \A q \in Diffs \ {r} : /\ todo'[q] = todo[q] /\ added'[q] = added[q]
                                /\ pc'[q] = pc[q]
    BY <1>6 DEF Crash
  <2> QED
    BY <2>1 DEF InLoopOrder
<1> QED
  BY <1>1, <1>2, <1>3, <1>4, <1>5, <1>6 DEF Next, Step

\* Every run of a pair adds its events, and with them its locks, in the order of
\* the loops: what it still has to add comes after all it has added.
THEOREM RowsInLoopOrder == Spec => []InLoopOrder
<1>1. Init => InLoopOrder
  BY DEF Init, InLoopOrder
<1> QED
  BY <1>1, NextInLoopOrder, DiffInvariance, PTL DEF Spec

\* Among waiting runs, the one whose next event is last waits for no other.
LEMMA LoopOrderNoCircle == DiffInv /\ InLoopOrder => NoCircularWait
<1> SUFFICES ASSUME DiffInv, InLoopOrder, NEW rs \in (SUBSET Diffs) \ {{}},
                    \A r \in rs : \E q \in rs \ {r} : WaitsFor(r, q)
             PROVE  FALSE
  BY DEF NoCircularWait
<1>1. previous \in Snapshots /\ current \in Snapshots
      /\ \A r \in Diffs : /\ todo[r] \subseteq Events(previous, current)
                          /\ added[r] \subseteq Events(previous, current)
  BY DEF DiffInv, TypeInv, Derived
<1> DEFINE next == [r \in rs |-> CHOOSE e \in todo[r] : IsNext(r, e)]
           R == {p \in rs \X rs : Before(Place(next[p[1]]), Place(next[p[2]]))}
<1>2. ASSUME NEW r \in rs
      PROVE  /\ next[r] \in todo[r] /\ IsNext(r, next[r])
             /\ \A e : IsNext(r, e) => e = next[r]
             /\ Place(next[r]) \in Places
  <2>1. \E e \in todo[r] : IsNext(r, e)
    BY DEF WaitsFor
  <2>2. next[r] \in todo[r] /\ IsNext(r, next[r])
    BY <2>1
  <2>3. Place(next[r]) \in Places
    BY <1>1, <2>2, PlaceIs
  <2> HIDE DEF next
  <2> QED
    BY <2>2, <2>3, NextIsUnique
<1>3. \A r, q \in rs : <<r, q>> \in R <=> Before(Place(next[r]), Place(next[q]))
  OBVIOUS
<1>4. IsFiniteSet(rs)
  BY FiniteAssumption, FS_Subset
<1> HIDE DEF next, R
<1>5. PICK m \in rs : \A q \in rs : <<m, q>> \notin R
  <2>1. \A r \in rs : <<r, r>> \notin R
    BY <1>2, <1>3, BeforeIsOrder
  <2>2. \A r, q, p \in rs : <<r, q>> \in R /\ <<q, p>> \in R => <<r, p>> \in R
    BY <1>2, <1>3, BeforeIsOrder
  <2> QED
    BY <1>4, <2>1, <2>2, MaximalElement
<1>6. PICK q \in rs \ {m} : WaitsFor(m, q)
  OBVIOUS
<1>7. Known(added[q], next[m])
  BY <1>2, <1>6 DEF WaitsFor
<1>8. next[m] \in added[q]
  <2>1. PICK f \in added[q] : Identity(f) = Identity(next[m])
    BY <1>7 DEF Known
  <2>2. next[m] \in Events(previous, current) /\ f \in Events(previous, current)
    BY <1>1, <1>2, <2>1
  <2> QED
    BY <1>1, <2>1, <2>2, IdentitiesDiffer
<1>9. Before(Place(next[m]), Place(next[q]))
  BY <1>2, <1>8 DEF InLoopOrder
<1> QED
  BY <1>3, <1>5, <1>9

\* Overlapping runs of a pair do not block each other for good: whenever some
\* have begun and not ended, one of them can go on, and waits for nobody.
THEOREM NoDeadlock ==
    Spec => [](/\ NoCircularWait
               /\ (\E r \in Diffs : pc[r] \in Open) =>
                     \E r \in Diffs : pc[r] \in Open /\ CanGoOn(r))
<1>1. ASSUME DiffInv, InLoopOrder, NEW o \in Diffs, pc[o] \in Open
      PROVE  \E r \in Diffs : pc[r] \in Open /\ CanGoOn(r)
  <2> DEFINE open == {r \in Diffs : pc[r] \in Open}
  <2>1. open \in (SUBSET Diffs) \ {{}}
    BY <1>1
  <2>2. PICK r \in open : \A q \in open \ {r} : ~WaitsFor(r, q)
    BY <1>1, <2>1, LoopOrderNoCircle DEF NoCircularWait
  <2>3. CASE pc[r] = "select"
    BY <1>1, <2>2, <2>3, NextExists DEF CanGoOn
  <2>4. CASE pc[r] = "insert"
    <3>1. PICK e \in todo[r] : IsNext(r, e)
      BY <1>1, <2>2, <2>4, NextExists DEF InLoopOrder
    <3>2. ASSUME NEW q \in Diffs \ {r}, pc[q] # "done", Known(added[q], e) PROVE FALSE
      <4>1. pc[q] \in Open
        BY <1>1, <3>2 DEF DiffInv, TypeInv, Holds, Known, Open
      <4> QED
        BY <2>2, <2>4, <3>1, <3>2, <4>1 DEF WaitsFor
    <3> QED
      BY <2>2, <2>4, <3>1, <3>2 DEF CanGoOn, Held
  <2> QED
    BY <2>2, <2>3, <2>4 DEF Open
<1>2. DiffInv /\ InLoopOrder =>
          ((\E r \in Diffs : pc[r] \in Open) =>
              \E r \in Diffs : pc[r] \in Open /\ CanGoOn(r))
  BY <1>1
<1> QED
  BY <1>2, LoopOrderNoCircle, DiffInvariance, RowsInLoopOrder, PTL

-----------------------------------------------------------------------------
(* No run goes round for ever: two statements for each event, and the commit.  *)

Work(r) == IF pc[r] \notin Open THEN 0
           ELSE 2 * Cardinality(todo[r]) + (IF pc[r] = "select" THEN 1 ELSE 0)

StepsLessenWork ==
    [][\A r \in Diffs : pc[r] \in Open =>
          /\ Work(r) \in 0..(2 * Cardinality(Events(previous, current)) + 1)
          /\ Work(r)' <= Work(r)
          /\ Step(r) \/ Crash(r) => Work(r)' < Work(r)]_vars

LEMMA TodoIsFinite ==
    ASSUME DiffInv, NEW r \in Diffs
    PROVE  /\ Cardinality(todo[r]) \in Nat
           /\ Cardinality(Events(previous, current)) \in Nat
           /\ Cardinality(todo[r]) <= Cardinality(Events(previous, current))
           /\ todo[r] # {} => Cardinality(todo[r]) # 0
           /\ \A e \in todo[r] : Cardinality(todo[r] \ {e}) = Cardinality(todo[r]) - 1
<1>1. todo[r] \subseteq Events(previous, current)
  BY DEF DiffInv, TypeInv, Derived
<1>2. IsFiniteSet(Events(previous, current))
  BY FinitelyManyEvents DEF DiffInv, TypeInv
<1>3. IsFiniteSet(todo[r])
  BY <1>1, <1>2, FS_Subset
<1> QED
  BY <1>1, <1>2, <1>3, FS_Subset, FS_CardinalityType, FS_EmptySet, FS_RemoveElement

LEMMA WorkLessened ==
    ASSUME DiffInv, InLoopOrder, NEW r \in Diffs, pc[r] \in Open, Step(r) \/ Crash(r)
    PROVE  Work(r)' < Work(r)
<1>1. /\ pc \in [Diffs -> {"idle", "select", "insert", "done", "failed"}]
      /\ todo \in [Diffs -> SUBSET Derived]
      /\ pc[r] \in {"select", "insert"}
      /\ pc[r] = "insert" => todo[r] # {}
  BY DEF DiffInv, TypeInv, InLoopOrder, Open
<1> DEFINE n == Cardinality(todo[r])
<1>2. /\ n \in Nat /\ (pc[r] = "insert" => n # 0)
      /\ \A e \in todo[r] : Cardinality(todo[r] \ {e}) = n - 1
  BY <1>1, TodoIsFinite
<1> HIDE DEF n
<1>3. Work(r) = 2 * n + (IF pc[r] = "select" THEN 1 ELSE 0)
  BY DEF Work, n
<1>4. CASE pc'[r] \notin Open
  <2>1. Work(r)' = 0
    BY <1>4 DEF Work
  <2> QED
    BY <1>1, <1>2, <1>3, <2>1
<1>5. ASSUME NEW e \in todo[r], todo'[r] = todo[r] \ {e}, pc'[r] = "select"
      PROVE  Work(r)' < Work(r)
  <2>1. Work(r)' = 2 * (n - 1) + 1
    BY <1>2, <1>5 DEF Work, Open
  <2> QED
    BY <1>2, <1>3, <2>1
<1>6. CASE SelectDuplicate(r)
  <2>1. PICK e \in todo[r] :
           IF Known(events \cup added[r], e)
           THEN todo' = [todo EXCEPT ![r] = @ \ {e}] /\ UNCHANGED pc
           ELSE pc' = [pc EXCEPT ![r] = "insert"] /\ UNCHANGED todo
    BY <1>6 DEF SelectDuplicate
  <2>2. pc[r] = "select"
    BY <1>6 DEF SelectDuplicate
  <2>3. CASE Known(events \cup added[r], e)
    BY <1>1, <1>5, <2>1, <2>2, <2>3
  <2>4. CASE ~Known(events \cup added[r], e)
    <3>1. pc'[r] = "insert" /\ todo'[r] = todo[r]
      BY <1>1, <2>1, <2>4
    <3>2. Work(r)' = 2 * n
      BY <1>2, <3>1 DEF Work, Open, n
    <3> QED
      BY <1>2, <1>3, <2>2, <3>2
  <2> QED
    BY <2>3, <2>4
<1>7. CASE Insert(r)
  BY <1>1, <1>5, <1>7 DEF Insert
<1>8. CASE Commit(r) \/ Crash(r)
  <2>1. pc'[r] \notin Open
    BY <1>1, <1>8 DEF Commit, Crash, Open
  <2> QED
    BY <1>4, <2>1
<1>9. ~Diff(r)
  BY <1>1 DEF Diff
<1> QED
  BY <1>6, <1>7, <1>8, <1>9 DEF Step

\* A run of the diff ends after at most two statements for each event of the
\* pair and the commit, whatever other runs do meanwhile, unless it waits.
THEOREM DiffIsBounded == Spec => StepsLessenWork
<1>1. ASSUME DiffInv, InLoopOrder, DiffInv', [Next]_vars, NEW r \in Diffs, pc[r] \in Open
      PROVE  /\ Work(r) \in 0..(2 * Cardinality(Events(previous, current)) + 1)
             /\ Work(r)' <= Work(r)
             /\ Step(r) \/ Crash(r) => Work(r)' < Work(r)
  <2>1. Work(r) \in 0..(2 * Cardinality(Events(previous, current)) + 1)
    BY <1>1, TodoIsFinite DEF Work
  <2>2. Work(r) \in Int
    BY <1>1, TodoIsFinite DEF Work
  <2>3. CASE Step(r) \/ Crash(r)
    <3>1. Cardinality(todo[r])' \in Nat
      <4>1. todo'[r] \subseteq Events(previous, current)' /\ IsFiniteSet(Events(previous, current)')
        BY <1>1, FinitelyManyEvents DEF DiffInv, TypeInv, Derived
      <4> QED
        BY <4>1, FS_Subset, FS_CardinalityType
    <3>2. Work(r)' \in Int
      BY <3>1 DEF Work
    <3>3. Work(r)' < Work(r)
      BY <1>1, <2>3, WorkLessened
    <3> QED
      BY <2>1, <2>2, <3>2, <3>3
  <2>4. CASE ~(Step(r) \/ Crash(r))
    <3>1. pc'[r] = pc[r] /\ todo'[r] = todo[r]
      <4>1. CASE UNCHANGED vars
        BY <4>1 DEF vars
      <4>2. CASE Next
        <5>1. PICK q \in Diffs \ {r} : Step(q) \/ Crash(q)
          BY <2>4, <4>2 DEF Next
        <5> QED
          BY <1>1, <5>1 DEF Step, Diff, SelectDuplicate, Insert, Commit, Crash, DiffInv,
                            TypeInv
      <4> QED
        BY <1>1, <4>1, <4>2
    <3>2. Work(r)' = Work(r)
      BY <3>1 DEF Work
    <3> QED
      BY <2>1, <2>2, <2>4, <3>2
  <2> QED
    BY <2>3, <2>4
<1>2. DiffInv /\ InLoopOrder /\ DiffInv' /\ [Next]_vars =>
        [\A r \in Diffs : pc[r] \in Open =>
           /\ Work(r) \in 0..(2 * Cardinality(Events(previous, current)) + 1)
           /\ Work(r)' <= Work(r)
           /\ Step(r) \/ Crash(r) => Work(r)' < Work(r)]_vars
  BY <1>1
<1> QED
  BY <1>2, DiffInvariance, RowsInLoopOrder, PTL DEF Spec, StepsLessenWork
=============================================================================
