------------------------ MODULE ItmoIngestion_proofs -------------------------
(* Proofs about ItmoIngestion and UniversityCoverage, for any groups, page     *)
(* contents and runs, with and without the trigger.                            *)
EXTENDS UniversityCoverage, Folds_proofs

-----------------------------------------------------------------------------
(* The inductive invariant.  AllOrNothing and StampsHonest speak of committed  *)
(* rows only; what makes them inductive is what a run's open transaction holds *)
(* at each point of persist_snapshot.                                          *)

\* Outside a session a run holds nothing back.
NothingHeld ==
    \A r \in Runs : pc[r] \notin InSession => inserted[r] = {} /\ restamped[r] = {}

\* Rows a transaction has inserted belong to its batch; a list only after the
\* run is done with its group.
InsertedBelong ==
    \A r \in Runs : \A k \in inserted[r] :
        \/ k = University /\ Parsed(r) # {}
        \/ \E g \in Parsed(r) : k = Group(g)
        \/ \E g \in Parsed(r) \ pending[r] : k = List(g, pages[r][g])

\* Lists it has re-stamped are committed and belong to its batch.
RestampedBelong ==
    \A r \in Runs : \A k \in restamped[r] :
        /\ ~ImmutableTrigger
        /\ k \in rows
        /\ \E g \in Parsed(r) \ pending[r] : k = List(g, pages[r][g])

\* No row is inserted twice.
InsertedOnce ==
    \A r \in Runs : /\ inserted[r] \cap rows = {}
                    /\ \A q \in Runs \ {r} : inserted[r] \cap inserted[q] = {}

\* Where the run stands in persist_snapshot.
Standing ==
    \A r \in Runs :
        /\ pc[r] = "idle" => table[r] = "university"
        /\ pc[r] \in InSession => Listed(r) # {}
        /\ pending[r] \subseteq Parsed(r)
        /\ pc[r] \in InSession /\ table[r] # "university" =>
              University \in rows \cup inserted[r]
        /\ pc[r] \in InSession /\ table[r] = "list" =>
              \A g \in Groups : IsCurrent(r, g) => Group(g) \in rows \cup inserted[r]
        /\ pc[r] = "restamp" =>
              /\ table[r] = "list"
              /\ \A g \in Groups : IsCurrent(r, g) => List(g, pages[r][g]) \in rows

\* The pages a session is done with are in the database or in its transaction.
Persisted ==
    \A r \in Runs : pc[r] \in InSession =>
        \A g \in Parsed(r) \ pending[r] :
            /\ University \in rows \cup inserted[r]
            /\ Group(g) \in rows \cup inserted[r]
            /\ List(g, pages[r][g]) \in inserted[r] \cup restamped[r]

IInv ==
    /\ TypeOK
    /\ NothingHeld /\ InsertedBelong /\ RestampedBelong /\ InsertedOnce
    /\ Standing /\ Persisted
    /\ AllOrNothing /\ StampsHonest

-----------------------------------------------------------------------------
\* Keys of different tables differ, and a key determines its parts.
LEMMA RowKeys ==
    /\ \A g : University # Group(g)
    /\ \A g, c : University # List(g, c)
    /\ \A g, h, c : Group(g) # List(h, c)
    /\ \A g, h : Group(g) = Group(h) => g = h
    /\ \A g, h, c, d : List(g, c) = List(h, d) => g = h /\ c = d
  <1>1. \A g : University # Group(g)  BY DEF University, Group
  <1>2. \A g, c : University # List(g, c) BY DEF University, List
  <1>3. \A g, h, c : Group(g) # List(h, c) BY DEF List, Group
  <1>4. \A g, h : Group(g) = Group(h) => g = h BY DEF Group
  <1>5. \A g, h, c, d : List(g, c) = List(h, d) => g = h /\ c = d BY DEF List
  <1>6. QED BY <1>1, <1>2, <1>3, <1>4, <1>5

\* A run has at most one current group.
LEMMA CurrentUnique ==
    ASSUME NEW r \in Runs, NEW g, NEW h, TypeOK,
           IsCurrent(r, g), IsCurrent(r, h)
    PROVE  g = h /\ g \in Groups
  <1>1. g \in Groups /\ h \in Groups BY DEF IsCurrent, TypeOK
  <1>2. g \in Int /\ h \in Int BY <1>1, GroupsAssumption
  <1>3. g <= h /\ h <= g BY DEF IsCurrent
  <1>4. QED BY <1>1, <1>2, <1>3

\* A batch stamp is a stamp.
LEMMA BatchStampType ==
    ASSUME NEW r \in Runs
    PROVE  BatchStamp(r) \in Stamps /\ BatchStamp(r) # NoBatch
           /\ BatchStamp(r).id = r
           /\ BatchStamp(r).expected = Cardinality(Listed(r))
  <1>1. Listed(r) \subseteq Groups BY DEF Listed
  <1>2. Cardinality(Listed(r)) \in Nat
    BY <1>1, GroupsAssumption, FS_Subset, FS_CardinalityType
  <1>3. BatchStamp(r) \in Stamps BY <1>2 DEF BatchStamp, Stamps
  <1>4. QED BY <1>3, NoBatchAssumption DEF BatchStamp

\* The row a run is working on, one table at a time.
LEMMA KeyOf ==
    ASSUME NEW r \in Runs, NEW g
    PROVE  /\ table[r] = "university" => Key(r, g) = University
           /\ table[r] = "group" => Key(r, g) = Group(g)
           /\ table[r] = "list" => Key(r, g) = List(g, pages[r][g])
  BY DEF Key

\* Before any refresh there is nothing to hold, publish or stamp.
LEMMA InitIInv == Init => IInv
  <1> SUFFICES ASSUME Init PROVE IInv OBVIOUS
  <1> USE DEF Init
  <1>1. TypeOK BY DEF TypeOK
  <1>2. \A r \in Runs : pc[r] = "idle" /\ inserted[r] = {} /\ restamped[r] = {}
        /\ pending[r] = {} /\ table[r] = "university"
    OBVIOUS
  <1>3. NothingHeld /\ InsertedBelong /\ RestampedBelong /\ InsertedOnce
    BY <1>2 DEF NothingHeld, InsertedBelong, RestampedBelong, InsertedOnce
  <1>4. Standing /\ Persisted
    BY <1>2 DEF Standing, Persisted, InSession
  <1>5. \A l \in Lists : stamp[l] = NoBatch OBVIOUS
  <1>6. AllOrNothing /\ StampsHonest
    BY <1>2, <1>5 DEF AllOrNothing, StampsHonest
  <1>7. QED BY <1>1, <1>3, <1>4, <1>6 DEF IInv

-----------------------------------------------------------------------------
\* Entering the session: all accepted pages are pending and nothing is held.
LEMMA FetchBatchIInv ==
    ASSUME IInv, NEW r \in Runs, FetchBatch(r)
    PROVE  IInv'
  <1> USE DEF FetchBatch
  <1>1. PICK p \in [Groups -> Contents \cup {Rejected, Unlisted}] :
            /\ \E g \in Groups : p[g] # Unlisted
            /\ pages' = [pages EXCEPT ![r] = p]
            /\ pending' = [pending EXCEPT ![r] = {g \in Groups : p[g] \in Contents}]
    OBVIOUS
  <1>2. TypeOK'
    BY <1>1 DEF IInv, TypeOK, InSession
  <1>3. /\ pages'[r] = p /\ pending'[r] = Parsed(r)'
        /\ inserted[r] = {} /\ restamped[r] = {} /\ pc'[r] = "read" /\ pc[r] = "idle"
    BY <1>1 DEF IInv, TypeOK, Parsed, NothingHeld, InSession
  <1>4. \A q \in Runs \ {r} : /\ pages'[q] = pages[q] /\ pending'[q] = pending[q]
                             /\ pc'[q] = pc[q] /\ Parsed(q)' = Parsed(q)
                             /\ Listed(q)' = Listed(q)
    BY <1>1 DEF IInv, TypeOK, Parsed, Listed
  <1>5. NothingHeld' /\ InsertedBelong' /\ RestampedBelong' /\ InsertedOnce'
    BY <1>3, <1>4 DEF IInv, NothingHeld, InsertedBelong, RestampedBelong,
                      InsertedOnce
  <1>6. Standing'
    <2>1. Listed(r)' # {} BY <1>1, <1>3 DEF Listed
    <2>2. QED BY <1>3, <1>4, <2>1 DEF IInv, Standing, IsCurrent, InSession, TypeOK
  <1>7. Persisted'
    BY <1>3, <1>4 DEF IInv, Persisted
  <1>8. AllOrNothing' /\ StampsHonest'
    BY <1>3, <1>4 DEF IInv, AllOrNothing, StampsHonest, PageLists
  <1>9. QED BY <1>2, <1>5, <1>6, <1>7, <1>8 DEF IInv

\* A refresh the site does not answer opens no session.
LEMMA FetchFailsIInv ==
    ASSUME IInv, NEW r \in Runs, FetchFails(r)
    PROVE  IInv'
  <1> USE DEF FetchFails
  <1>1. TypeOK'
    BY DEF IInv, TypeOK, Failures
  <1>2. /\ pc'[r] = "unavailable" /\ pc[r] = "idle"
        /\ \A q \in Runs \ {r} : pc'[q] = pc[q]
    BY DEF IInv, TypeOK
  <1>3. /\ InsertedBelong' /\ RestampedBelong' /\ InsertedOnce' /\ NothingHeld'
        /\ Persisted'
    BY <1>2 DEF IInv, NothingHeld, InsertedBelong, RestampedBelong, InsertedOnce,
                Persisted, Parsed, InSession
  <1>4. Standing'
    BY <1>2 DEF IInv, Standing, Parsed, Listed, IsCurrent, InSession, Failures
  <1>5. AllOrNothing' /\ StampsHonest'
    BY <1>2 DEF IInv, AllOrNothing, StampsHonest, PageLists, Parsed, Listed
  <1>6. QED BY <1>1, <1>3, <1>4, <1>5 DEF IInv

\* A rollback drops exactly what the run held; no other row changes.
LEMMA RollbackIInv ==
    ASSUME IInv, NEW r \in Runs, NEW why \in Failures, pc[r] \in InSession,
           Rollback(r, why)
    PROVE  IInv'
  <1> USE DEF Rollback
  <1>1. TypeOK'
    BY DEF IInv, TypeOK
  <1>2. /\ pc'[r] = why /\ pc'[r] \notin InSession /\ pc'[r] # "done" /\ pc[r] # "done"
        /\ inserted'[r] = {} /\ restamped'[r] = {} /\ pending'[r] = {}
        /\ table'[r] = "university"
        /\ \A q \in Runs \ {r} : /\ pc'[q] = pc[q] /\ inserted'[q] = inserted[q]
                               /\ restamped'[q] = restamped[q]
                               /\ pending'[q] = pending[q] /\ table'[q] = table[q]
    BY DEF IInv, TypeOK, Failures, InSession
  <1>3. /\ InsertedBelong' /\ RestampedBelong' /\ InsertedOnce' /\ NothingHeld'
        /\ Persisted'
    BY <1>2 DEF IInv, NothingHeld, InsertedBelong, RestampedBelong, InsertedOnce,
                Persisted, Parsed
  <1>4. Standing'
    BY <1>2 DEF IInv, Standing, Parsed, Listed, IsCurrent, InSession, Failures
  <1>5. AllOrNothing' /\ StampsHonest'
    BY <1>2 DEF IInv, AllOrNothing, StampsHonest, PageLists, Parsed, Listed
  <1>6. QED BY <1>1, <1>3, <1>4, <1>5 DEF IInv

-----------------------------------------------------------------------------
\* What Advance leaves alone, and where it leads.
LEMMA AdvanceStep ==
    ASSUME TypeOK, NEW r \in Runs, NEW g, Advance(r, g)
    PROVE  /\ pc'[r] = "read"
           /\ table[r] = "university" => table'[r] = "group" /\ pending'[r] = pending[r]
           /\ table[r] = "group" => table'[r] = "list" /\ pending'[r] = pending[r]
           /\ table[r] = "list" => /\ table'[r] = "university"
                                   /\ pending'[r] = pending[r] \ {g}
           /\ pending'[r] \subseteq pending[r]
           /\ pc' \in [Runs -> {"idle", "done"} \cup InSession \cup Failures]
           /\ pending' \in [Runs -> SUBSET Groups]
           /\ table' \in [Runs -> {"university", "group", "list"}]
           /\ \A q \in Runs \ {r} : /\ pc'[q] = pc[q] /\ table'[q] = table[q]
                                  /\ pending'[q] = pending[q]
  <1>1. pc'[r] = "read" /\ \A q \in Runs \ {r} : pc'[q] = pc[q]
    BY DEF Advance, TypeOK
  <1>2. pc' \in [Runs -> {"idle", "done"} \cup InSession \cup Failures]
    BY DEF Advance, TypeOK, InSession
  <1>3. \A q \in Runs \ {r} : table'[q] = table[q] /\ pending'[q] = pending[q]
    BY DEF Advance, TypeOK
  <1>4. /\ pending'[r] = IF table[r] = "list" THEN pending[r] \ {g} ELSE pending[r]
        /\ pending' \in [Runs -> SUBSET Groups]
    BY DEF Advance, TypeOK
  <1>5. table[r] \in {"university", "group", "list"}
    BY DEF TypeOK
  <1>6. CASE table[r] = "university"
    <2>1. table' = [table EXCEPT ![r] = "group"]
      BY <1>6 DEF Advance, TypeOK
    <2>2. QED BY <1>1, <1>2, <1>3, <1>4, <1>6, <2>1 DEF TypeOK
  <1>7. CASE table[r] = "group"
    <2>1. table' = [table EXCEPT ![r] = "list"]
      BY <1>7 DEF Advance, TypeOK
    <2>2. QED BY <1>1, <1>2, <1>3, <1>4, <1>7, <2>1 DEF TypeOK
  <1>8. CASE table[r] = "list"
    <2>1. table' = [table EXCEPT ![r] = "university"]
      BY <1>8 DEF Advance, TypeOK
    <2>2. QED BY <1>1, <1>2, <1>3, <1>4, <1>8, <2>1 DEF TypeOK
  <1>9. QED BY <1>5, <1>6, <1>7, <1>8

\* A run leaves its current row behind, having inserted it, updated it or
\* found it: what Lookup, Insert and Restamp have in common.
LEMMA AdvanceIInv ==
    ASSUME IInv, NEW r \in Runs, NEW g, pc[r] \in InSession, IsCurrent(r, g),
           Advance(r, g), UNCHANGED <<rows, stamp, pages>>,
           inserted' = [q \in Runs |-> inserted'[q]],
           restamped' = [q \in Runs |-> restamped'[q]],
           \A q \in Runs \ {r} : inserted'[q] = inserted[q] /\ restamped'[q] = restamped[q],
           inserted[r] \subseteq inserted'[r],
           restamped[r] \subseteq restamped'[r],
           \A k \in inserted'[r] \ inserted[r] :
               k = Key(r, g) /\ k \notin rows /\ \A q \in Runs \ {r} : k \notin inserted[q],
           \A k \in restamped'[r] \ restamped[r] :
               k = Key(r, g) /\ k \in rows /\ table[r] = "list" /\ ~ImmutableTrigger,
           table[r] = "list" => Key(r, g) \in inserted'[r] \cup restamped'[r],
           table[r] # "list" => Key(r, g) \in rows \cup inserted'[r]
    PROVE  IInv'
  <1>1. TypeOK /\ pc[r] # "done" BY DEF IInv, InSession
  <1>2. /\ pc'[r] = "read"
        /\ table[r] = "university" => table'[r] = "group" /\ pending'[r] = pending[r]
        /\ table[r] = "group" => table'[r] = "list" /\ pending'[r] = pending[r]
        /\ table[r] = "list" => /\ table'[r] = "university"
                                /\ pending'[r] = pending[r] \ {g}
        /\ pending'[r] \subseteq pending[r]
        /\ \A q \in Runs \ {r} : /\ pc'[q] = pc[q] /\ table'[q] = table[q]
                               /\ pending'[q] = pending[q]
    BY <1>1, AdvanceStep
  <1>3. table[r] \in {"university", "group", "list"} BY <1>1 DEF TypeOK
  <1>4. g \in Parsed(r) /\ g \in Groups /\ g \in pending[r] /\ pages[r][g] \in Contents
    BY <1>1 DEF IInv, Standing, IsCurrent, Parsed
  <1>5. /\ table[r] = "university" => Key(r, g) = University
        /\ table[r] = "group" => Key(r, g) = Group(g)
        /\ table[r] = "list" => Key(r, g) = List(g, pages[r][g])
    BY KeyOf
  <1>6. \A q \in Runs : Parsed(q)' = Parsed(q) /\ Listed(q)' = Listed(q)
    BY DEF Parsed, Listed
  <1>7. TypeOK'
    <2>1. Key(r, g) \in Rows
      BY <1>3, <1>4, <1>5 DEF Rows, GroupRows, Lists
    <2>2. table[r] = "list" => Key(r, g) \in Lists
      BY <1>4, <1>5 DEF Lists
    <2>3. inserted' \in [Runs -> SUBSET Rows]
      BY <1>1, <2>1 DEF TypeOK
    <2>4. restamped' \in [Runs -> SUBSET Lists]
      BY <1>1, <2>2 DEF TypeOK
    <2>5. /\ pc' \in [Runs -> {"idle", "done"} \cup InSession \cup Failures]
          /\ pending' \in [Runs -> SUBSET Groups]
          /\ table' \in [Runs -> {"university", "group", "list"}]
      BY <1>1, AdvanceStep
    <2>6. QED BY <1>1, <2>3, <2>4, <2>5 DEF TypeOK
  <1>8. NothingHeld'
    BY <1>2 DEF IInv, NothingHeld, InSession
  <1>9. InsertedBelong'
    <2> SUFFICES ASSUME NEW q \in Runs, NEW k \in inserted'[q]
                 PROVE  \/ k = University /\ Parsed(q) # {}
                        \/ \E h \in Parsed(q) : k = Group(h)
                        \/ \E h \in Parsed(q) \ pending'[q] : k = List(h, pages[q][h])
      BY <1>6 DEF InsertedBelong
    <2>1. CASE q # r
      BY <2>1, <1>2 DEF IInv, InsertedBelong
    <2>2. CASE q = r /\ k \in inserted[r]
      BY <2>2, <1>2 DEF IInv, InsertedBelong
    <2>3. CASE q = r /\ k \in inserted'[r] \ inserted[r]
      BY <2>3, <1>2, <1>3, <1>4, <1>5
    <2>4. QED BY <2>1, <2>2, <2>3
  <1>10. RestampedBelong'
    <2> SUFFICES ASSUME NEW q \in Runs, NEW k \in restamped'[q]
                 PROVE  /\ ~ImmutableTrigger /\ k \in rows
                        /\ \E h \in Parsed(q) \ pending'[q] : k = List(h, pages[q][h])
      BY <1>6 DEF RestampedBelong
    <2>1. CASE q # r
      BY <2>1, <1>2 DEF IInv, RestampedBelong
    <2>2. CASE q = r /\ k \in restamped[r]
      BY <2>2, <1>2 DEF IInv, RestampedBelong
    <2>3. CASE q = r /\ k \in restamped'[r] \ restamped[r]
      BY <2>3, <1>2, <1>4, <1>5
    <2>4. QED BY <2>1, <2>2, <2>3
  <1>11. InsertedOnce'
    BY DEF IInv, InsertedOnce
  <1>12. Standing'
    <2>1. \A q \in Runs \ {r} : \A h : IsCurrent(q, h)' = IsCurrent(q, h)
      BY <1>2 DEF IsCurrent
    <2>2. table[r] # "list" => \A h : IsCurrent(r, h)' => h = g
      <3> SUFFICES ASSUME table[r] # "list", NEW h, IsCurrent(r, h)' PROVE h = g
        OBVIOUS
      <3>1. IsCurrent(r, h) BY <1>2, <1>3 DEF IsCurrent
      <3>2. QED BY <1>1, <3>1, CurrentUnique
    <2>3. pending'[r] \subseteq Parsed(r)
      BY <1>2 DEF IInv, Standing
    <2>4. table'[r] = "group" => University \in rows \cup inserted'[r]
      BY <1>2, <1>3, <1>5
    <2>5. table'[r] = "list" =>
              /\ University \in rows \cup inserted'[r]
              /\ \A h \in Groups : IsCurrent(r, h)' => Group(h) \in rows \cup inserted'[r]
      BY <1>2, <1>3, <1>5, <2>2 DEF IInv, Standing
    <2>6. table'[r] \in {"university", "group", "list"}
      BY <1>7 DEF TypeOK
    <2>7. QED BY <1>2, <1>6, <2>1, <2>3, <2>4, <2>5, <2>6 DEF IInv, Standing
  <1>13. Persisted'
    <2> SUFFICES ASSUME NEW q \in Runs, pc'[q] \in InSession,
                        NEW h \in Parsed(q) \ pending'[q]
                 PROVE  /\ University \in rows \cup inserted'[q]
                        /\ Group(h) \in rows \cup inserted'[q]
                        /\ List(h, pages[q][h]) \in inserted'[q] \cup restamped'[q]
      BY <1>6 DEF Persisted, InSession
    <2>1. CASE q # r
      BY <2>1, <1>2 DEF IInv, Persisted
    <2>2. CASE q = r /\ h \notin pending[r]
      BY <2>2 DEF IInv, Persisted
    <2>3. CASE q = r /\ h \in pending[r]
      <3>1. h = g /\ table[r] = "list" BY <2>3, <1>2, <1>3
      <3>2. University \in rows \cup inserted[r] /\ Group(g) \in rows \cup inserted[r]
        BY <3>1, <1>4 DEF IInv, Standing
      <3>3. QED BY <2>3, <3>1, <3>2, <1>5
    <2>4. QED BY <2>1, <2>2, <2>3
  <1>14. AllOrNothing' /\ StampsHonest'
    BY <1>1, <1>2, <1>6 DEF IInv, AllOrNothing, StampsHonest, PageLists
  <1>15. QED BY <1>7, <1>8, <1>9, <1>10, <1>11, <1>12, <1>13, <1>14 DEF IInv

\* A SELECT finds a row of this transaction or a committed one, or neither: what
\* it finds stands where the next table needs it.
LEMMA LookupIInv ==
    ASSUME IInv, NEW r \in Runs, Lookup(r)
    PROVE  IInv'
  <1> USE DEF Lookup
  <1>1. TypeOK /\ pc[r] = "read" /\ pc[r] \in InSession BY DEF IInv, InSession
  <1>2. PICK g \in pending[r] :
          /\ IsCurrent(r, g)
          /\ \/ /\ Key(r, g) \notin rows \cup inserted[r]
                /\ pc' = [pc EXCEPT ![r] = "insert"]
                /\ UNCHANGED <<table, pending>>
             \/ /\ Key(r, g) \in rows \cup inserted[r]
                /\ table[r] # "list"
                /\ Advance(r, g)
             \/ /\ Key(r, g) \in rows \cup inserted[r]
                /\ table[r] = "list"
                /\ pc' = [pc EXCEPT ![r] = "restamp"]
                /\ UNCHANGED <<table, pending>>
    OBVIOUS
  <1>3. CASE Advance(r, g) /\ table[r] # "list" /\ Key(r, g) \in rows \cup inserted[r]
    <2>1. inserted' = [q \in Runs |-> inserted'[q]] /\ restamped' = [q \in Runs |-> restamped'[q]]
      BY <1>1 DEF TypeOK
    <2>2. /\ inserted'[r] = inserted[r] /\ restamped'[r] = restamped[r]
          /\ \A q \in Runs \ {r} : inserted'[q] = inserted[q] /\ restamped'[q] = restamped[q]
      OBVIOUS
    <2>3. QED BY <1>1, <1>2, <1>3, <2>1, <2>2, AdvanceIInv
  <1>4. ASSUME NEW s \in {"insert", "restamp"}, pc' = [pc EXCEPT ![r] = s],
               UNCHANGED <<table, pending>>,
               s = "restamp" => table[r] = "list" /\ Key(r, g) \in rows
        PROVE  IInv'
    <2>1. /\ pc'[r] = s /\ pc'[r] \in InSession /\ pc'[r] # "done"
          /\ \A q \in Runs \ {r} : pc'[q] = pc[q]
      BY <1>1, <1>4 DEF TypeOK, InSession
    <2>2. TypeOK' BY <1>1, <1>4 DEF TypeOK, InSession
    <2>3. \A q \in Runs : Parsed(q)' = Parsed(q) /\ Listed(q)' = Listed(q)
      BY DEF Parsed, Listed
    <2>4. \A q \in Runs : \A h : IsCurrent(q, h)' = IsCurrent(q, h)
      BY <1>4 DEF IsCurrent
    <2>5. NothingHeld' /\ InsertedBelong' /\ RestampedBelong' /\ InsertedOnce' /\ Persisted'
      BY <1>1, <1>4, <2>1, <2>3 DEF IInv, NothingHeld, InsertedBelong, RestampedBelong,
                                    InsertedOnce, Persisted
    <2>6. s = "restamp" => \A h \in Groups : IsCurrent(r, h) => List(h, pages[r][h]) \in rows
      BY <1>1, <1>2, <1>4, CurrentUnique, KeyOf
    <2>7. Standing'
      BY <1>1, <1>4, <2>1, <2>3, <2>4, <2>6 DEF IInv, Standing
    <2>8. AllOrNothing' /\ StampsHonest'
      BY <1>1, <2>1, <2>3 DEF IInv, AllOrNothing, StampsHonest, PageLists
    <2>9. QED BY <2>2, <2>5, <2>7, <2>8 DEF IInv
  <1>5. CASE Key(r, g) \notin rows \cup inserted[r] /\ pc' = [pc EXCEPT ![r] = "insert"]
             /\ UNCHANGED <<table, pending>>
    BY <1>4, <1>5
  <1>6. CASE Key(r, g) \in rows \cup inserted[r] /\ table[r] = "list"
             /\ pc' = [pc EXCEPT ![r] = "restamp"] /\ UNCHANGED <<table, pending>>
    \* The list is not this run's own: it has not come to this group before.
    <2>1. Key(r, g) = List(g, pages[r][g]) BY <1>6, KeyOf
    <2>2. Key(r, g) \notin inserted[r]
      BY <1>2, <2>1, RowKeys DEF IInv, InsertedBelong
    <2>3. QED BY <1>4, <1>6, <2>2
  <1>7. QED BY <1>2, <1>3, <1>5, <1>6

\* An INSERT succeeds only for a key that neither a committed row nor another
\* transaction has.
LEMMA InsertIInv ==
    ASSUME IInv, NEW r \in Runs, Insert(r)
    PROVE  IInv'
  <1> USE DEF Insert
  <1>1. TypeOK /\ pc[r] \in InSession BY DEF IInv, InSession
  <1>2. PICK g \in pending[r] :
          /\ IsCurrent(r, g)
          /\ \A q \in Runs \ {r} : Key(r, g) \notin inserted[q]
          /\ Key(r, g) \notin rows
          /\ inserted' = [inserted EXCEPT ![r] = @ \cup {Key(r, g)}]
          /\ Advance(r, g)
    OBVIOUS
  <1>3. inserted' = [q \in Runs |-> inserted'[q]] /\ restamped' = [q \in Runs |-> restamped'[q]]
    BY <1>1, <1>2 DEF TypeOK
  <1>4. /\ inserted'[r] = inserted[r] \cup {Key(r, g)} /\ restamped'[r] = restamped[r]
        /\ \A q \in Runs \ {r} : inserted'[q] = inserted[q] /\ restamped'[q] = restamped[q]
    BY <1>1, <1>2 DEF TypeOK
  <1>5. UNCHANGED <<rows, stamp, pages>>
    OBVIOUS
  <1>6. /\ inserted[r] \subseteq inserted'[r] /\ restamped[r] \subseteq restamped'[r]
        /\ \A k \in inserted'[r] \ inserted[r] :
              k = Key(r, g) /\ k \notin rows /\ \A q \in Runs \ {r} : k \notin inserted[q]
        /\ Key(r, g) \in inserted'[r]
    BY <1>2, <1>4
  <1> HIDE DEF Insert
  <1>7. QED BY <1>1, <1>2, <1>3, <1>4, <1>5, <1>6, AdvanceIInv

\* Moving an existing snapshot to the run's batch, where the trigger is absent.
LEMMA RestampIInv ==
    ASSUME IInv, NEW r \in Runs, Restamp(r)
    PROVE  IInv'
  <1> USE DEF Restamp
  <1>1. TypeOK /\ pc[r] \in InSession BY DEF IInv, InSession
  <1>2. PICK g \in pending[r] :
          /\ IsCurrent(r, g)
          /\ restamped' = [restamped EXCEPT ![r] = @ \cup {Key(r, g)}]
          /\ Advance(r, g)
    OBVIOUS
  <1>3. inserted' = [q \in Runs |-> inserted'[q]] /\ restamped' = [q \in Runs |-> restamped'[q]]
    BY <1>1, <1>2 DEF TypeOK
  <1>4. /\ inserted'[r] = inserted[r] /\ restamped'[r] = restamped[r] \cup {Key(r, g)}
        /\ \A q \in Runs \ {r} : inserted'[q] = inserted[q] /\ restamped'[q] = restamped[q]
    BY <1>1, <1>2 DEF TypeOK
  <1>5. table[r] = "list" /\ Key(r, g) \in rows
    BY <1>1, <1>2, CurrentUnique, KeyOf DEF IInv, Standing
  <1>6. UNCHANGED <<rows, stamp, pages>> /\ ~ImmutableTrigger
    OBVIOUS
  <1>7. /\ inserted[r] \subseteq inserted'[r] /\ restamped[r] \subseteq restamped'[r]
        /\ \A k \in inserted'[r] \ inserted[r] :
              k = Key(r, g) /\ k \notin rows /\ \A q \in Runs \ {r} : k \notin inserted[q]
        /\ \A k \in restamped'[r] \ restamped[r] :
              k = Key(r, g) /\ k \in rows /\ table[r] = "list" /\ ~ImmutableTrigger
        /\ Key(r, g) \in inserted'[r] \cup restamped'[r]
    BY <1>4, <1>5, <1>6
  <1> HIDE DEF Restamp
  <1>8. QED BY <1>1, <1>2, <1>3, <1>4, <1>5, <1>6, <1>7, AdvanceIInv

\* What a run has in its transaction when it has no page left is its batch.
LEMMA CommitContents ==
    ASSUME IInv, NEW r \in Runs, pc[r] \in InSession, pending[r] = {}
    PROVE  /\ PageLists(r) \subseteq inserted[r] \cup restamped[r]
           /\ \A l \in Lists : l \in inserted[r] \cup restamped[r] => l \in PageLists(r)
           /\ restamped[r] \subseteq rows
           /\ \A g \in Parsed(r) : {University, Group(g)} \subseteq rows \cup inserted[r]
  <1>1. PageLists(r) \subseteq inserted[r] \cup restamped[r]
    BY DEF PageLists, IInv, Persisted
  <1>2. ASSUME NEW l \in Lists, l \in inserted[r] \cup restamped[r]
        PROVE  l \in PageLists(r)
    <2>1. (\A g : l # Group(g)) /\ l # University
      BY RowKeys DEF Lists
    <2>2. \E g \in Parsed(r) : l = List(g, pages[r][g])
      BY <1>2, <2>1 DEF IInv, InsertedBelong, RestampedBelong
    <2>3. QED BY <2>2 DEF PageLists
  <1>3. restamped[r] \subseteq rows
    BY DEF IInv, RestampedBelong
  <1>4. \A g \in Parsed(r) : {University, Group(g)} \subseteq rows \cup inserted[r]
    BY DEF IInv, Persisted
  <1>5. QED BY <1>1, <1>2, <1>3, <1>4

\* A commit publishes the batch and its stamps as a whole; batches committed
\* before lose only what it re-stamps.
LEMMA CommitIInv ==
    ASSUME IInv, NEW r \in Runs, Commit(r)
    PROVE  IInv'
  <1> USE DEF Commit
  <1>1. TypeOK /\ pc[r] = "read" /\ pc[r] \in InSession BY DEF IInv, InSession
  <1>2. /\ pc'[r] = "done" /\ pc'[r] \notin InSession
        /\ inserted'[r] = {} /\ restamped'[r] = {}
        /\ \A q \in Runs \ {r} : /\ pc'[q] = pc[q] /\ inserted'[q] = inserted[q]
                               /\ restamped'[q] = restamped[q]
    BY <1>1 DEF TypeOK, InSession
  <1>3. \A q \in Runs : /\ Parsed(q)' = Parsed(q) /\ Listed(q)' = Listed(q)
                        /\ PageLists(q)' = PageLists(q)
                        /\ \A h : IsCurrent(q, h)' = IsCurrent(q, h)
    BY DEF Parsed, Listed, PageLists, IsCurrent
  <1>4. \A l \in Lists : stamp'[l] = IF l \in inserted[r] \cup restamped[r]
                                    THEN BatchStamp(r) ELSE stamp[l]
    OBVIOUS
  <1>5. TypeOK'
    <2>1. rows' \subseteq Rows /\ stamp' \in [Lists -> Stamps \cup {NoBatch}]
      BY <1>1, <1>4, BatchStampType DEF TypeOK
    <2>2. QED BY <1>1, <2>1 DEF TypeOK
  <1>6. NothingHeld' /\ InsertedBelong' /\ RestampedBelong'
    BY <1>2, <1>3 DEF IInv, NothingHeld, InsertedBelong, RestampedBelong
  <1>7. InsertedOnce'
    BY <1>2 DEF IInv, InsertedOnce
  <1>8. Standing' /\ Persisted'
    BY <1>2, <1>3 DEF IInv, Standing, Persisted
  <1>9. AllOrNothing'
    <2> SUFFICES ASSUME NEW q \in Runs
                 PROVE  IF pc'[q] = "done"
                        THEN /\ PageLists(q) \subseteq rows'
                             /\ \A l \in PageLists(q) : stamp'[l] # NoBatch
                        ELSE \A l \in Lists : stamp'[l] = NoBatch \/ stamp'[l].id # q
      BY <1>3 DEF AllOrNothing
    <2>1. PageLists(q) \subseteq Lists
      BY DEF PageLists, Lists, Parsed
    <2>2. CASE q = r
      BY <2>2, <1>1, <1>2, <1>4, <2>1, CommitContents, BatchStampType
    <2>3. CASE q # r
      BY <2>3, <1>2, <1>4, <2>1, BatchStampType DEF IInv, AllOrNothing
    <2>4. QED BY <2>2, <2>3
  <1>10. StampsHonest'
    <2> SUFFICES ASSUME NEW q \in Runs, NEW l \in Lists,
                        stamp'[l] # NoBatch, stamp'[l].id = q
                 PROVE  /\ pc'[q] = "done" /\ l \in rows' /\ l \in PageLists(q)
                        /\ stamp'[l].expected = Cardinality(Listed(q))
      BY <1>3 DEF StampsHonest
    <2>1. CASE l \in inserted[r] \cup restamped[r]
      BY <2>1, <1>1, <1>2, <1>4, CommitContents, BatchStampType
    <2>2. CASE l \notin inserted[r] \cup restamped[r]
      BY <2>2, <1>2, <1>4 DEF IInv, StampsHonest
    <2>3. QED BY <2>1, <2>2
  <1>11. QED BY <1>5, <1>6, <1>7, <1>8, <1>9, <1>10 DEF IInv

-----------------------------------------------------------------------------
\* Every step of the system keeps the inductive invariant.
LEMMA NextIInv == IInv /\ [Next]_vars => IInv'
  <1> SUFFICES ASSUME IInv, [Next]_vars PROVE IInv' OBVIOUS
  <1>1. CASE UNCHANGED vars
    <2>1. \A r \in Runs : /\ Parsed(r)' = Parsed(r) /\ Listed(r)' = Listed(r)
                          /\ PageLists(r)' = PageLists(r)
                          /\ \A g : IsCurrent(r, g)' = IsCurrent(r, g)
      BY <1>1 DEF vars, Parsed, Listed, PageLists, IsCurrent
    <2>2. TypeOK' /\ NothingHeld' /\ InsertedOnce'
      BY <1>1 DEF vars, IInv, TypeOK, NothingHeld, InsertedOnce
    <2>3. InsertedBelong' /\ RestampedBelong'
      BY <1>1, <2>1 DEF vars, IInv, InsertedBelong, RestampedBelong
    <2>4. Standing' /\ Persisted'
      BY <1>1, <2>1 DEF vars, IInv, Standing, Persisted
    <2>5. AllOrNothing' /\ StampsHonest'
      BY <1>1, <2>1 DEF vars, IInv, AllOrNothing, StampsHonest
    <2>6. QED BY <2>2, <2>3, <2>4, <2>5 DEF IInv
  <1>2. ASSUME NEW r \in Runs, Step(r) \/ Crash(r) PROVE IInv'
    <2>1. CASE FetchBatch(r) BY <2>1, FetchBatchIInv
    <2>2. CASE FetchFails(r) BY <2>2, FetchFailsIInv
    <2>3. CASE Lookup(r) BY <2>3, LookupIInv
    <2>4. CASE Insert(r) BY <2>4, InsertIInv
    <2>5. CASE InsertConflict(r)
      BY <2>5, RollbackIInv DEF InsertConflict, InSession, Failures
    <2>6. CASE Restamp(r) BY <2>6, RestampIInv
    <2>7. CASE RestampRefused(r)
      BY <2>7, RollbackIInv DEF RestampRefused, InSession, Failures
    <2>8. CASE Commit(r) BY <2>8, CommitIInv
    <2>9. CASE Crash(r)
      BY <2>9, RollbackIInv DEF Crash, Failures
    <2>10. QED
      BY <1>2, <2>1, <2>2, <2>3, <2>4, <2>5, <2>6, <2>7, <2>8, <2>9 DEF Step
  <1>3. QED BY <1>1, <1>2 DEF Next

\* The inductive invariant holds of every reachable state.
THEOREM Invariance == Spec => []IInv
  <1>1. QED BY InitIInv, NextIInv, PTL DEF Spec

\* The variables keep their types.
THEOREM TypeCorrectness == Spec => []TypeOK
  <1>1. IInv => TypeOK BY DEF IInv
  <1>2. QED BY <1>1, Invariance, PTL

\* A batch is visible as a whole or not at all, whatever runs overlap, fail or
\* crash in the middle of their transaction.
THEOREM BatchesAreAtomic == Spec => []AllOrNothing
  <1>1. IInv => AllOrNothing BY DEF IInv
  <1>2. QED BY <1>1, Invariance, PTL

\* The batch stamp of a committed snapshot names a committed run that fetched
\* exactly this page, and the number of groups it listed.
THEOREM StampsAreHonest == Spec => []StampsHonest
  <1>1. IInv => StampsHonest BY DEF IInv
  <1>2. QED BY <1>1, Invariance, PTL

-----------------------------------------------------------------------------
\* Coverage counts snapshots and group rows; because stamps are honest, equal
\* counts mean equal sets.
LEMMA CountsSuffice == IInv => CompleteMeansWholeBatch
  <1> SUFFICES ASSUME IInv, NEW l \in Lists, Complete(l)
               PROVE  /\ RegisteredGroups = Listed(stamp[l].id)
                      /\ Parsed(stamp[l].id) = Listed(stamp[l].id)
                      /\ CoveredGroups(Groups, stamp[l].id) = Listed(stamp[l].id)
    BY DEF CompleteMeansWholeBatch
  <1> DEFINE b == stamp[l].id
             Covered == CoveredGroups(RegisteredGroups, b)
  <1>1. stamp[l] \in Stamps /\ b \in Runs
    BY DEF IInv, TypeOK, Complete, Stamps
  <1>2. stamp[l].expected = Cardinality(Listed(b))
    BY <1>1 DEF IInv, StampsHonest, Complete
  <1>3. \A gs : CoveredGroups(gs, b) \subseteq gs
    BY DEF CoveredGroups
  <1>4. \A gs \in SUBSET Groups : CoveredGroups(gs, b) \subseteq Parsed(b)
    <2> SUFFICES ASSUME NEW gs \in SUBSET Groups, NEW g \in CoveredGroups(gs, b)
                 PROVE  g \in Parsed(b)
      OBVIOUS
    <2>1. PICK c \in Contents : List(g, c) \in rows /\ InBatch(List(g, c), b)
      BY DEF CoveredGroups
    <2>2. g \in Groups BY DEF CoveredGroups
    <2>3. List(g, c) \in PageLists(b)
      BY <1>1, <2>1, <2>2 DEF IInv, StampsHonest, InBatch, Lists
    <2>4. QED BY <2>3, RowKeys DEF PageLists
  <1>5. Parsed(b) \subseteq Listed(b) /\ Listed(b) \subseteq Groups
    BY PagesAssumption DEF Parsed, Listed
  <1>6. RegisteredGroups \subseteq Groups BY DEF RegisteredGroups
  <1>7. IsFiniteSet(RegisteredGroups) /\ IsFiniteSet(Listed(b))
    BY <1>5, <1>6, GroupsAssumption, FS_Subset
  <1>8. Cardinality(Covered) = Cardinality(RegisteredGroups)
        /\ Cardinality(Listed(b)) = Cardinality(RegisteredGroups)
    BY <1>2 DEF Complete
  <1>9. Covered = RegisteredGroups
    BY <1>3, <1>7, <1>8, FS_Subset
  <1>10. RegisteredGroups = Listed(b)
    BY <1>4, <1>5, <1>6, <1>7, <1>8, <1>9, FS_Subset
  <1>11. Parsed(b) = Listed(b)
    BY <1>4, <1>5, <1>6, <1>9, <1>10
  <1>12. CoveredGroups(Groups, b) = Listed(b)
    <2>1. Covered \subseteq CoveredGroups(Groups, b)
      BY <1>6 DEF CoveredGroups
    <2>2. CoveredGroups(Groups, b) \subseteq Parsed(b)
      BY <1>4
    <2>3. QED BY <2>1, <2>2, <1>9, <1>10, <1>11
  <1>13. QED BY <1>10, <1>11, <1>12

\* When _university_coverage reports complete coverage, the batch has an
\* accepted page for every group its index listed, and the database knows no
\* other group.
THEOREM CoverageIsSound == Spec => []CompleteMeansWholeBatch
  <1>1. QED BY CountsSuffice, Invariance, PTL

-----------------------------------------------------------------------------
(* No deadlock.  A run takes its locks in the order University, then group by  *)
(* group the group's row and its list; so who waits for a row at one place of  *)
(* this order waits for a run that is, or waits, further on.                   *)

\* A statement of r waits for the transaction of q: it inserts a row whose key q
\* has inserted, or updates a snapshot q has updated, and q has not committed.
WaitsFor(r, q) ==
    \E g \in pending[r] :
        /\ IsCurrent(r, g)
        /\ \/ pc[r] = "insert" /\ Key(r, g) \in inserted[q] \ rows
           \/ pc[r] = "restamp" /\ ~ImmutableTrigger /\ Key(r, g) \in restamped[q]

\* Among any refreshes one waits for none of the others.
NoCircularWait ==
    \A rs \in (SUBSET Runs) \ {{}} : \E r \in rs : \A q \in rs \ {r} : ~WaitsFor(r, q)

\* The guards of Lookup and Commit, Insert and InsertConflict, Restamp and
\* RestampRefused.
CanGoOn(r) ==
    \/ pc[r] = "read" /\ (pending[r] = {} \/ \E g \in pending[r] : IsCurrent(r, g))
    \/ /\ pc[r] = "insert"
       /\ \E g \in pending[r] :
             /\ IsCurrent(r, g)
             /\ Key(r, g) \in rows \/ \A q \in Runs \ {r} : Key(r, g) \notin inserted[q]
    \/ /\ pc[r] = "restamp"
       /\ \/ ImmutableTrigger
          \/ \E g \in pending[r] :
                /\ IsCurrent(r, g)
                /\ \A q \in Runs \ {r} : Key(r, g) \notin restamped[q]

\* The groups a run is done with come before those it has still to persist; the
\* row of such a group is its own only once it is at the group's list; and what
\* it inserts next it does not have.
InOrder ==
    \A r \in Runs :
        /\ pc[r] \in {"insert", "restamp"} => pending[r] # {}
        /\ pc[r] \in InSession =>
              \A g \in Parsed(r) \ pending[r], h \in pending[r] : g < h
        /\ \A g \in pending[r] :
              /\ Group(g) \in inserted[r] => table[r] = "list" /\ IsCurrent(r, g)
              /\ pc[r] = "insert" /\ IsCurrent(r, g) => Key(r, g) \notin inserted[r]

\* Advance goes on in this order.
LEMMA AdvanceInOrder ==
    ASSUME IInv, InOrder, NEW r \in Runs, NEW g, pc[r] \in InSession, IsCurrent(r, g),
           Advance(r, g), UNCHANGED pages,
           inserted'[r] \subseteq inserted[r] \cup {Key(r, g)},
           \A q \in Runs \ {r} : inserted'[q] = inserted[q]
    PROVE  InOrder'
  <1>1. TypeOK BY DEF IInv
  <1>2. /\ pc'[r] = "read"
        /\ table[r] = "university" => table'[r] = "group" /\ pending'[r] = pending[r]
        /\ table[r] = "group" => table'[r] = "list" /\ pending'[r] = pending[r]
        /\ table[r] = "list" => /\ table'[r] = "university"
                                /\ pending'[r] = pending[r] \ {g}
        /\ pending'[r] \subseteq pending[r]
        /\ \A q \in Runs \ {r} : /\ pc'[q] = pc[q] /\ table'[q] = table[q]
                               /\ pending'[q] = pending[q]
    BY <1>1, AdvanceStep
  <1>3. table[r] \in {"university", "group", "list"} /\ pending[r] \subseteq Groups
    BY <1>1 DEF TypeOK
  <1>4. \A q \in Runs : Parsed(q)' = Parsed(q)
    BY DEF Parsed
  <1>5. \A q \in Runs \ {r} : \A h : IsCurrent(q, h)' = IsCurrent(q, h) /\ Key(q, h)' = Key(q, h)
    BY <1>2 DEF IsCurrent, Key
  <1>6. ASSUME NEW x \in Parsed(r) \ pending'[r], NEW h \in pending'[r]
        PROVE  x < h
    <2>1. CASE x \notin pending[r]
      BY <1>2, <1>6, <2>1 DEF InOrder
    <2>2. CASE x \in pending[r]
      <3>1. x = g /\ h # g
        BY <1>2, <1>3, <1>6, <2>2
      <3>2. h \in Int /\ g \in Int /\ g <= h
        BY <1>2, <1>3, <1>6, <2>2, <3>1, GroupsAssumption DEF IsCurrent
      <3>3. QED BY <3>1, <3>2
    <2>3. QED BY <2>1, <2>2
  <1>7. ASSUME NEW x \in pending'[r], Group(x) \in inserted'[r]
        PROVE  table'[r] = "list" /\ IsCurrent(r, x)'
    <2>1. CASE Group(x) \in inserted[r]
      <3>1. table[r] = "list" /\ IsCurrent(r, x)
        BY <1>2, <1>7, <2>1 DEF InOrder
      <3>2. x = g
        BY <1>1, <3>1, CurrentUnique
      <3>3. QED BY <1>2, <1>7, <3>1, <3>2
    <2>2. CASE Group(x) = Key(r, g)
      <3>1. table[r] = "group" /\ x = g
        BY <1>3, <2>2, KeyOf, RowKeys
      <3>2. QED BY <1>2, <3>1 DEF IsCurrent
    <2>3. QED BY <1>7, <2>1, <2>2
  <1>8. QED BY <1>2, <1>4, <1>5, <1>6, <1>7 DEF InOrder

\* A step that leaves a run with nothing pending and nothing inserted.
LEMMA EndInOrder ==
    ASSUME InOrder, TypeOK, NEW r \in Runs, UNCHANGED pages,
           pending'[r] = {}, pc'[r] \notin {"insert", "restamp"},
           \A q \in Runs \ {r} : /\ inserted'[q] = inserted[q] /\ pc'[q] = pc[q]
                               /\ table'[q] = table[q] /\ pending'[q] = pending[q]
    PROVE  InOrder'
  <1>1. \A q \in Runs : Parsed(q)' = Parsed(q)
    BY DEF Parsed
  <1>2. \A q \in Runs \ {r} : \A h : IsCurrent(q, h)' = IsCurrent(q, h) /\ Key(q, h)' = Key(q, h)
    BY DEF IsCurrent, Key
  <1>3. QED BY <1>1, <1>2 DEF InOrder

\* Every step keeps the order.
LEMMA NextInOrder == IInv /\ InOrder /\ [Next]_vars => InOrder'
  <1> SUFFICES ASSUME IInv, InOrder, [Next]_vars PROVE InOrder' OBVIOUS
  <1>0. TypeOK BY DEF IInv
  <1>1. CASE UNCHANGED vars
    <2>1. \A r \in Runs : /\ Parsed(r)' = Parsed(r)
                          /\ \A g : IsCurrent(r, g)' = IsCurrent(r, g) /\ Key(r, g)' = Key(r, g)
      BY <1>1 DEF vars, Parsed, IsCurrent, Key
    <2>2. QED BY <1>1, <2>1 DEF vars, InOrder
  <1>2. ASSUME NEW r \in Runs, NEW why \in Failures, Rollback(r, why) PROVE InOrder'
    BY <1>0, <1>2, EndInOrder DEF Rollback, TypeOK, Failures
  <1>3. ASSUME NEW r \in Runs, FetchBatch(r) PROVE InOrder'
    <2>1. PICK p \in [Groups -> Contents \cup {Rejected, Unlisted}] :
              /\ pages' = [pages EXCEPT ![r] = p]
              /\ pending' = [pending EXCEPT ![r] = {g \in Groups : p[g] \in Contents}]
      BY <1>3 DEF FetchBatch
    <2>2. /\ pages'[r] = p /\ pending'[r] = Parsed(r)' /\ pc'[r] = "read"
          /\ inserted'[r] = {}
      BY <1>0, <1>3, <2>1 DEF FetchBatch, TypeOK, Parsed, IInv, NothingHeld, InSession
    <2>3. \A q \in Runs \ {r} : /\ pages'[q] = pages[q] /\ pending'[q] = pending[q]
                               /\ pc'[q] = pc[q] /\ table'[q] = table[q]
                               /\ inserted'[q] = inserted[q]
      BY <1>0, <1>3, <2>1 DEF FetchBatch, TypeOK
    <2>4. \A q \in Runs \ {r} : /\ Parsed(q)' = Parsed(q)
                               /\ \A h : IsCurrent(q, h)' = IsCurrent(q, h)
                                         /\ Key(q, h)' = Key(q, h)
      BY <2>3 DEF Parsed, IsCurrent, Key
    <2>5. QED BY <2>2, <2>3, <2>4 DEF InOrder
  <1>4. ASSUME NEW r \in Runs, FetchFails(r) PROVE InOrder'
    <2>1. /\ pc'[r] \notin InSession
          /\ \A q \in Runs \ {r} : pc'[q] = pc[q]
      BY <1>0, <1>4 DEF FetchFails, TypeOK, InSession
    <2>2. \A q \in Runs : /\ Parsed(q)' = Parsed(q)
                          /\ \A h : IsCurrent(q, h)' = IsCurrent(q, h)
                                    /\ Key(q, h)' = Key(q, h)
      BY <1>4 DEF FetchFails, Parsed, IsCurrent, Key
    <2>3. QED BY <1>4, <2>1, <2>2 DEF FetchFails, InOrder, InSession
  <1>5. ASSUME NEW r \in Runs, Lookup(r) PROVE InOrder'
    <2>1. PICK g \in pending[r] : /\ IsCurrent(r, g)
          /\ \/ /\ Key(r, g) \notin rows \cup inserted[r]
                /\ pc' = [pc EXCEPT ![r] = "insert"]
                /\ UNCHANGED <<table, pending>>
             \/ Advance(r, g)
             \/ /\ pc' = [pc EXCEPT ![r] = "restamp"]
                /\ UNCHANGED <<table, pending>>
      BY <1>5 DEF Lookup
    <2>2. UNCHANGED <<pages, inserted>> /\ pc[r] \in InSession
      BY <1>5 DEF Lookup, InSession
    <2>3. CASE Advance(r, g)
      BY <2>1, <2>2, <2>3, AdvanceInOrder
    <2>4. CASE UNCHANGED <<table, pending>>
      <3>1. \A q \in Runs : /\ Parsed(q)' = Parsed(q)
                            /\ \A h : IsCurrent(q, h)' = IsCurrent(q, h)
                                      /\ Key(q, h)' = Key(q, h)
        BY <2>2, <2>4 DEF Parsed, IsCurrent, Key
      <3>2. \A h : IsCurrent(r, h) => h = g
        BY <1>0, <2>1, CurrentUnique
      <3>3. CASE /\ Key(r, g) \notin rows \cup inserted[r]
                 /\ pc' = [pc EXCEPT ![r] = "insert"]
        <4>1. pc'[r] = "insert" /\ \A q \in Runs \ {r} : pc'[q] = pc[q]
          BY <1>0, <3>3 DEF TypeOK
        <4>2. QED BY <2>2, <2>4, <3>1, <3>2, <3>3, <4>1 DEF InOrder
      <3>4. CASE pc' = [pc EXCEPT ![r] = "restamp"]
        <4>1. pc'[r] = "restamp" /\ \A q \in Runs \ {r} : pc'[q] = pc[q]
          BY <1>0, <3>4 DEF TypeOK
        <4>2. QED BY <2>2, <2>4, <3>1, <4>1 DEF InOrder
      <3>5. CASE Advance(r, g)
        BY <2>3, <3>5
      <3>6. QED BY <2>1, <3>3, <3>4, <3>5
    <2>5. QED BY <2>1, <2>3, <2>4
  <1>6. ASSUME NEW r \in Runs, Insert(r) PROVE InOrder'
    <2>1. PICK g \in pending[r] :
             /\ IsCurrent(r, g) /\ Advance(r, g)
             /\ inserted' = [inserted EXCEPT ![r] = @ \cup {Key(r, g)}]
      BY <1>6 DEF Insert
    <2>2. UNCHANGED pages /\ pc[r] \in InSession
      BY <1>6 DEF Insert, InSession
    <2>3. /\ inserted'[r] \subseteq inserted[r] \cup {Key(r, g)}
          /\ \A q \in Runs \ {r} : inserted'[q] = inserted[q]
      BY <1>0, <2>1 DEF TypeOK
    <2>4. QED BY <2>1, <2>2, <2>3, AdvanceInOrder
  <1>7. ASSUME NEW r \in Runs, Restamp(r) PROVE InOrder'
    <2>1. PICK g \in pending[r] : IsCurrent(r, g) /\ Advance(r, g)
      BY <1>7 DEF Restamp
    <2>2. UNCHANGED <<pages, inserted>> /\ pc[r] \in InSession
      BY <1>7 DEF Restamp, InSession
    <2>3. QED BY <2>1, <2>2, AdvanceInOrder
  <1>8. ASSUME NEW r \in Runs, Commit(r) PROVE InOrder'
    BY <1>0, <1>8, EndInOrder DEF Commit, TypeOK
  <1>9. ASSUME NEW r \in Runs, Step(r) \/ Crash(r) PROVE InOrder'
    BY <1>2, <1>3, <1>4, <1>5, <1>6, <1>7, <1>8, <1>9
    DEF Step, InsertConflict, RestampRefused, Crash, Failures
  <1>10. QED BY <1>1, <1>9 DEF Next

\* Every refresh takes its rows, and with them its locks, in the order of the
\* loop over the groups: University first, then each group before its list.
THEOREM LocksInOrder == Spec => []InOrder
  <1>1. Init => InOrder
    BY DEF Init, InOrder, InSession
  <1>2. QED BY <1>1, NextInOrder, Invariance, PTL DEF Spec

\* Who waits is in its session, and so is who is waited for.
LEMMA WaitingRun ==
    ASSUME IInv, NEW r \in Runs, NEW q \in Runs, WaitsFor(r, q)
    PROVE  /\ pc[r] \in {"insert", "restamp"} /\ pc[q] \in InSession
           /\ \E g \in pending[r] : IsCurrent(r, g)
  BY DEF WaitsFor, IInv, NothingHeld

\* Of two runs one of which waits for the other, and the other for a third, the
\* first waits for University and the second does not, or the second has passed
\* the group of the first, or is past its row and at its list.
LEMMA WaitsFurtherOn ==
    ASSUME IInv, InOrder, NEW r \in Runs, NEW q \in Runs, WaitsFor(r, q),
           NEW p \in Runs, WaitsFor(q, p)
    PROVE  /\ table[q] # "university"
           /\ table[r] # "university" =>
                 \A g, h \in Groups : IsCurrent(r, g) /\ IsCurrent(q, h) =>
                     g < h \/ (g = h /\ table[r] = "group" /\ table[q] = "list")
  <1>1. TypeOK BY DEF IInv
  <1>2. PICK g \in pending[r] : /\ IsCurrent(r, g)
            /\ \/ pc[r] = "insert" /\ Key(r, g) \in inserted[q] \ rows
               \/ pc[r] = "restamp" /\ ~ImmutableTrigger /\ Key(r, g) \in restamped[q]
    BY DEF WaitsFor
  <1>3. PICK h \in pending[q] : /\ IsCurrent(q, h)
            /\ \/ pc[q] = "insert" /\ Key(q, h) \in inserted[p] \ rows
               \/ pc[q] = "restamp"
    BY DEF WaitsFor
  <1>4. /\ \A x : IsCurrent(r, x) => x = g
        /\ \A x : IsCurrent(q, x) => x = h
        /\ g \in Groups /\ h \in Groups
    BY <1>1, <1>2, <1>3, CurrentUnique
  <1>5. /\ table[r] \in {"university", "group", "list"}
        /\ pc[q] \in InSession
        /\ pc[q] = "restamp" => table[q] = "list"
        /\ pc[r] = "restamp" => table[r] = "list"
    BY <1>1, <1>3 DEF TypeOK, InSession, IInv, Standing
  <1>6. /\ table[r] = "university" => Key(r, g) = University
        /\ table[r] = "group" => Key(r, g) = Group(g)
        /\ table[r] = "list" => Key(r, g) = List(g, pages[r][g])
        /\ table[q] = "university" => Key(q, h) = University
    BY KeyOf
  <1>7. Key(r, g) \in inserted[q] \cup restamped[q]
    BY <1>2
  \* q would insert University, so it has none of its own and persisted nothing.
  <1>8. ASSUME table[q] = "university" PROVE FALSE
    <2>1. pc[q] = "insert" /\ University \notin rows /\ University \notin inserted[q]
      BY <1>3, <1>5, <1>6, <1>8 DEF InOrder
    <2>2. Parsed(q) \ pending[q] = {}
      BY <1>5, <2>1 DEF IInv, Persisted
    <2>3. restamped[q] = {}
      BY <2>2 DEF IInv, RestampedBelong
    <2>4. PICK x \in Parsed(q) : Key(r, g) = Group(x)
      BY <1>7, <2>1, <2>2, <2>3 DEF IInv, InsertedBelong
    <2>5. Group(x) \in inserted[q] /\ x \in pending[q]
      BY <1>7, <2>2, <2>3, <2>4
    <2>6. QED BY <1>8, <2>5 DEF InOrder
  <1>9. ASSUME table[r] # "university"
        PROVE  g < h \/ (g = h /\ table[r] = "group" /\ table[q] = "list")
    <2>1. CASE table[r] = "group"
      <3>1. Group(g) \in inserted[q]
        BY <1>2, <1>5, <1>6, <2>1
      <3>2. g \in Parsed(q)
        BY <3>1, RowKeys DEF IInv, InsertedBelong
      <3>3. CASE g \in pending[q]
        <4>1. table[q] = "list" /\ IsCurrent(q, g)
          BY <3>1, <3>3 DEF InOrder
        <4>2. QED BY <1>4, <2>1, <4>1
      <3>4. CASE g \notin pending[q]
        BY <1>3, <1>5, <3>2, <3>4 DEF InOrder
      <3>5. QED BY <3>3, <3>4
    <2>2. CASE table[r] = "list"
      <3>1. Key(r, g) = List(g, pages[r][g])
        BY <1>6, <2>2
      <3>2. \E x \in Parsed(q) \ pending[q] : Key(r, g) = List(x, pages[q][x])
        BY <1>7, <3>1, RowKeys DEF IInv, InsertedBelong, RestampedBelong
      <3>3. g \in Parsed(q) \ pending[q]
        BY <3>1, <3>2, RowKeys
      <3>4. QED BY <1>3, <1>5, <3>3 DEF InOrder
    <2>3. QED BY <1>5, <1>9, <2>1, <2>2
  <1>10. QED BY <1>4, <1>8, <1>9

\* Overlapping refreshes never wait for each other in a circle.
LEMMA InOrderNoCircle == IInv /\ InOrder => NoCircularWait
  <1> SUFFICES ASSUME IInv, InOrder, NEW rs \in (SUBSET Runs) \ {{}},
                      \A r \in rs : \E q \in rs \ {r} : WaitsFor(r, q)
               PROVE  FALSE
    BY DEF NoCircularWait
  <1>1. \A r \in rs : r \in Runs /\ \E q \in rs : WaitsFor(r, q)
    OBVIOUS
  <1> DEFINE Beyond == {r \in rs : table[r] # "university"}
             Reached == {g \in Groups : \E r \in Beyond : IsCurrent(r, g)}
  <1>2. ASSUME NEW r \in rs, NEW q \in rs, WaitsFor(r, q) PROVE q \in Beyond
    <2>1. PICK p \in rs : WaitsFor(q, p) BY <1>1
    <2>2. QED BY <1>1, <1>2, <2>1, WaitsFurtherOn
  <1>3. \A r \in Beyond : \E g \in Reached : IsCurrent(r, g)
    <2> SUFFICES ASSUME NEW r \in Beyond PROVE \E g \in Reached : IsCurrent(r, g)
      OBVIOUS
    <2>1. PICK q \in rs : WaitsFor(r, q) BY <1>1
    <2>2. PICK g \in pending[r] : IsCurrent(r, g) BY <1>1, <2>1, WaitingRun
    <2>3. g \in Groups BY <1>1, <2>2 DEF IInv, TypeOK
    <2>4. QED BY <2>2, <2>3
  <1>4. Reached # {}
    <2>1. PICK r \in rs : TRUE OBVIOUS
    <2>2. PICK q \in rs : WaitsFor(r, q) BY <1>1
    <2>3. q \in Beyond BY <1>2, <2>2
    <2>4. QED BY <1>3, <2>3
  \* Take the run that is furthest on; the run it waits for is further on still.
  <1>5. PICK m \in Reached : \A g \in Reached : g <= m
    <2>1. IsFiniteSet(Reached) /\ Reached \subseteq Int
      BY GroupsAssumption, FS_Subset
    <2>2. QED BY <1>4, <2>1, ExtremeElements
  <1>6. PICK r \in Beyond : IsCurrent(r, m) OBVIOUS
  <1>7. PICK q \in rs : WaitsFor(r, q) BY <1>1
  <1>8. PICK p \in rs : WaitsFor(q, p) BY <1>1
  <1>9. PICK o \in rs : WaitsFor(p, o) BY <1>1
  <1>10. q \in Beyond /\ p \in Beyond BY <1>2, <1>7, <1>8
  <1>11. PICK h \in Reached : IsCurrent(q, h) BY <1>3, <1>10
  <1>12. PICK k \in Reached : IsCurrent(p, k) BY <1>3, <1>10
  <1>13. m < h \/ (m = h /\ table[q] = "list")
    BY <1>1, <1>6, <1>7, <1>8, <1>11, WaitsFurtherOn
  <1>14. h < k \/ (h = k /\ table[q] = "group")
    BY <1>1, <1>8, <1>9, <1>10, <1>11, <1>12, WaitsFurtherOn
  <1>15. h <= m /\ k <= m /\ m \in Int /\ h \in Int /\ k \in Int
    BY <1>5, GroupsAssumption
  <1>16. QED BY <1>13, <1>14, <1>15

\* A run with a session goes on or waits for another one.
LEMMA GoesOnOrWaits ==
    ASSUME IInv, InOrder, NEW r \in Runs, pc[r] \in InSession
    PROVE  CanGoOn(r) \/ \E q \in Runs \ {r} : WaitsFor(r, q)
  <1>1. ASSUME pending[r] # {} PROVE \E g \in pending[r] : IsCurrent(r, g)
    <2>1. pending[r] \subseteq Groups
      BY DEF IInv, TypeOK
    <2>2. IsFiniteSet(pending[r]) /\ pending[r] \subseteq Int
      BY <2>1, GroupsAssumption, FS_Subset
    <2>3. PICK g \in pending[r] : \A h \in pending[r] : g <= h
      BY <1>1, <2>2, ExtremeElements
    <2>4. QED BY <2>3 DEF IsCurrent
  <1>2. CASE pc[r] = "read"
    BY <1>1, <1>2 DEF CanGoOn
  <1>3. CASE pc[r] = "insert"
    <2>1. PICK g \in pending[r] : IsCurrent(r, g)
      BY <1>1, <1>3 DEF InOrder
    <2>2. QED BY <1>3, <2>1 DEF CanGoOn, WaitsFor
  <1>4. CASE pc[r] = "restamp"
    <2>1. PICK g \in pending[r] : IsCurrent(r, g)
      BY <1>1, <1>4 DEF InOrder
    <2>2. QED BY <1>4, <2>1 DEF CanGoOn, WaitsFor
  <1>5. QED BY <1>2, <1>3, <1>4 DEF InSession

\* Refreshes do not block each other for good: whenever runs have a session, one
\* of them has its next statement or its commit before it and waits for nobody.
THEOREM NoDeadlock ==
    Spec => [](/\ NoCircularWait
               /\ (\E r \in Runs : pc[r] \in InSession) =>
                     \E r \in Runs : pc[r] \in InSession /\ CanGoOn(r))
  <1>1. ASSUME IInv, InOrder, NEW o \in Runs, pc[o] \in InSession
        PROVE  \E r \in Runs : pc[r] \in InSession /\ CanGoOn(r)
    <2> DEFINE open == {r \in Runs : pc[r] \in InSession}
    <2>1. open \in (SUBSET Runs) \ {{}}
      BY <1>1
    <2>2. PICK r \in open : \A q \in open \ {r} : ~WaitsFor(r, q)
      BY <1>1, <2>1, InOrderNoCircle DEF NoCircularWait
    <2>3. \A q \in Runs : WaitsFor(r, q) => q \in open
      BY <1>1, WaitingRun
    <2>4. QED BY <1>1, <2>2, <2>3, GoesOnOrWaits
  <1>2. IInv /\ InOrder =>
            ((\E r \in Runs : pc[r] \in InSession) =>
                \E r \in Runs : pc[r] \in InSession /\ CanGoOn(r))
    BY <1>1
  <1>3. QED BY <1>2, InOrderNoCircle, Invariance, LocksInOrder, PTL

-----------------------------------------------------------------------------
\* With the trigger, the snapshots of a committed batch keep its stamp.
StampsKept ==
    ImmutableTrigger => \A r \in Published : \A l \in PageLists(r) :
                            stamp[l] = BatchStamp(r)

\* A step is a commit, or it leaves committed rows and finished runs alone.
LEMMA CommitOrNot ==
    ASSUME IInv, [Next]_vars
    PROVE  \/ \E r \in Runs : Commit(r)
           \/ /\ UNCHANGED <<rows, stamp>> /\ Published' = Published
              /\ \A r \in Published : pages'[r] = pages[r]
  <1>1. CASE UNCHANGED vars
    BY <1>1 DEF vars, Published
  <1>2. ASSUME NEW r \in Runs, Step(r) \/ Crash(r), ~Commit(r)
        PROVE  /\ UNCHANGED <<rows, stamp>> /\ Published' = Published
               /\ \A q \in Published : pages'[q] = pages[q]
    <2>1. TypeOK BY DEF IInv
    <2>2. ASSUME NEW s, s # "done", pc[r] # "done", pc' = [pc EXCEPT ![r] = s]
          PROVE  Published' = Published
      BY <2>1, <2>2 DEF Published, TypeOK
    <2>3. CASE FetchBatch(r)
      BY <2>1, <2>2, <2>3 DEF FetchBatch, Published, TypeOK
    <2>4. CASE FetchFails(r)
      BY <2>2, <2>4 DEF FetchFails
    <2>5. CASE Lookup(r)
      BY <2>2, <2>5 DEF Lookup, Advance
    <2>6. CASE Insert(r)
      BY <2>2, <2>6 DEF Insert, Advance
    <2>7. CASE InsertConflict(r)
      BY <2>2, <2>7 DEF InsertConflict, Rollback
    <2>8. CASE Restamp(r)
      BY <2>2, <2>8 DEF Restamp, Advance
    <2>9. CASE RestampRefused(r)
      BY <2>2, <2>9 DEF RestampRefused, Rollback
    <2>10. CASE Crash(r)
      BY <2>2, <2>10 DEF Crash, Rollback, InSession
    <2>11. QED
      BY <1>2, <2>3, <2>4, <2>5, <2>6, <2>7, <2>8, <2>9, <2>10 DEF Step
  <1>3. QED BY <1>1, <1>2 DEF Next

\* What a commit does to the committed rows, with the trigger: it adds new ones.
LEMMA CommitAppends ==
    ASSUME IInv, NEW r \in Runs, Commit(r), ImmutableTrigger
    PROVE  /\ rows \subseteq rows'
           /\ \A l \in Lists : l \in rows => stamp'[l] = stamp[l]
           /\ \A l \in PageLists(r) : l \notin rows /\ stamp'[l] = BatchStamp(r)
  <1>1. pc[r] \in InSession /\ pending[r] = {} BY DEF Commit, InSession
  <1>2. restamped[r] = {} /\ inserted[r] \cap rows = {}
    BY DEF IInv, RestampedBelong, InsertedOnce
  <1>3. PageLists(r) \subseteq Lists BY DEF PageLists, Lists, Parsed
  <1>4. QED BY <1>1, <1>2, <1>3, CommitContents DEF Commit

-----------------------------------------------------------------------------
(* No refresh goes round for ever: the work it has left is a number that each  *)
(* of its steps makes smaller and no other run's step makes larger.            *)

\* Six statements for a page, two for each table; and the commit.
Work(r) ==
    IF pc[r] \notin InSession THEN 0
    ELSE 6 * Cardinality(pending[r])
         + (CASE table[r] = "university" -> 4
              [] table[r] = "group" -> 2
              [] table[r] = "list" -> 0)
         + (IF pc[r] = "read" THEN 2 ELSE 1)

WorkIsBounded == \A r \in Runs : Work(r) \in 0..(6 * Cardinality(Groups) + 6)

StepsLessenWork ==
    [][\A r \in Runs : pc[r] \in InSession =>
          /\ Work(r)' <= Work(r)
          /\ Step(r) \/ Crash(r) => Work(r)' < Work(r)]_vars

LEMMA PendingIsFinite ==
    ASSUME TypeOK, NEW r \in Runs
    PROVE  /\ IsFiniteSet(pending[r])
           /\ Cardinality(pending[r]) \in Nat
           /\ Cardinality(pending[r]) <= Cardinality(Groups)
           /\ \A g \in pending[r] :
                 Cardinality(pending[r] \ {g}) = Cardinality(pending[r]) - 1
  <1>1. pending[r] \subseteq Groups /\ IsFiniteSet(Groups)
    BY GroupsAssumption DEF TypeOK
  <1>2. IsFiniteSet(pending[r]) BY <1>1, FS_Subset
  <1>3. QED BY <1>1, <1>2, FS_Subset, FS_CardinalityType, FS_RemoveElement

\* What a step of persist_snapshot leaves of the work.
LEMMA WorkLessened ==
    ASSUME IInv, NEW r \in Runs, pc[r] \in InSession, Step(r) \/ Crash(r)
    PROVE  Work(r)' < Work(r)
  <1>0. TypeOK BY DEF IInv
  <1> DEFINE n == Cardinality(pending[r])
  <1>1. n \in Nat /\ table[r] \in {"university", "group", "list"}
    BY <1>0, PendingIsFinite DEF TypeOK
  <1>2. Work(r) \in Int /\ Work(r) >= 1
    BY <1>1 DEF Work
  <1>3. CASE pc'[r] \notin InSession
    <2>1. Work(r)' = 0
      BY <1>3 DEF Work
    <2>2. QED BY <1>2, <2>1
  <1>4. ASSUME NEW g \in pending[r], Advance(r, g), pc[r] # "read" \/ table[r] # "list"
        PROVE  Work(r)' < Work(r)
    <2>1. pc'[r] = "read"
      BY <1>0, <1>4 DEF Advance, TypeOK
    <2>2. CASE table[r] = "university"
      <3>1. table'[r] = "group" /\ pending'[r] = pending[r]
        BY <1>0, <1>4, <2>2 DEF Advance, TypeOK
      <3>2. QED BY <1>1, <2>1, <2>2, <3>1 DEF Work, InSession
    <2>3. CASE table[r] = "group"
      <3>1. table'[r] = "list" /\ pending'[r] = pending[r]
        BY <1>0, <1>4, <2>3 DEF Advance, TypeOK
      <3>2. QED BY <1>1, <2>1, <2>3, <3>1 DEF Work, InSession
    <2>4. CASE table[r] = "list"
      <3>1. table'[r] = "university" /\ pending'[r] = pending[r] \ {g}
        BY <1>0, <1>4, <2>4 DEF Advance, TypeOK
      <3>2. Cardinality(pending'[r]) = n - 1
        BY <1>0, <1>4, <3>1, PendingIsFinite
      <3>3. QED BY <1>1, <1>4, <2>1, <2>4, <3>1, <3>2 DEF Work, InSession
    <2>5. QED BY <1>1, <2>2, <2>3, <2>4
  <1>5. CASE Lookup(r)
    <2>1. pc[r] = "read"
      BY <1>5 DEF Lookup
    <2>2. ASSUME pc'[r] \in {"insert", "restamp"}, UNCHANGED <<table, pending>>
          PROVE  Work(r)' < Work(r)
      BY <1>1, <2>1, <2>2 DEF Work, InSession
    <2>3. QED BY <1>0, <1>4, <1>5, <2>2 DEF Lookup, TypeOK
  <1>6. CASE Insert(r) \/ Restamp(r)
    BY <1>4, <1>6 DEF Insert, Restamp
  <1>7. CASE InsertConflict(r) \/ RestampRefused(r) \/ Crash(r) \/ Commit(r)
    <2>1. pc'[r] \notin InSession
      BY <1>0, <1>7 DEF InsertConflict, RestampRefused, Crash, Commit, Rollback,
                        TypeOK, InSession
    <2>2. QED BY <1>3, <2>1
  <1>8. CASE FetchBatch(r) \/ FetchFails(r)
    BY <1>8 DEF FetchBatch, FetchFails, InSession
  <1>9. QED BY <1>5, <1>6, <1>7, <1>8 DEF Step

\* A run's steps are no work of another.
LEMMA WorkOfOthers ==
    ASSUME IInv, NEW q \in Runs, Step(q) \/ Crash(q), NEW r \in Runs \ {q}
    PROVE  Work(r)' = Work(r)
  <1>1. /\ pc'[r] = pc[r] /\ pending'[r] = pending[r] /\ table'[r] = table[r]
    BY DEF Step, Crash, FetchBatch, FetchFails, Lookup, Insert, InsertConflict, Restamp,
           RestampRefused, Commit, Rollback, Advance, IInv, TypeOK
  <1>2. QED BY <1>1 DEF Work

\* Every refresh ends after at most six statements for each group and a few
\* more, however the others interleave with it, unless it waits: there is no
\* loop in it that others could keep going.
THEOREM RefreshIsBounded == Spec => []WorkIsBounded /\ StepsLessenWork
  <1>1. IInv => WorkIsBounded
    <2> SUFFICES ASSUME IInv, NEW r \in Runs
                 PROVE  Work(r) \in 0..(6 * Cardinality(Groups) + 6)
      BY DEF WorkIsBounded
    <2>1. /\ Cardinality(pending[r]) \in Nat
          /\ Cardinality(pending[r]) <= Cardinality(Groups)
          /\ table[r] \in {"university", "group", "list"}
      BY PendingIsFinite DEF IInv, TypeOK
    <2>2. Cardinality(Groups) \in Nat
      BY GroupsAssumption, FS_CardinalityType
    <2>3. QED BY <2>1, <2>2 DEF Work
  <1>2. ASSUME IInv, [Next]_vars, NEW r \in Runs, pc[r] \in InSession
        PROVE  /\ Work(r)' <= Work(r)
               /\ Step(r) \/ Crash(r) => Work(r)' < Work(r)
    <2>1. Work(r) \in Int
      BY <1>1, <1>2, GroupsAssumption, FS_CardinalityType DEF WorkIsBounded
    <2>2. CASE Step(r) \/ Crash(r)
      <3>1. IInv' /\ (IInv' => WorkIsBounded')
        BY <1>1, <1>2, NextIInv, PTL
      <3>2. Work(r)' \in Int
        BY <3>1, GroupsAssumption, FS_CardinalityType DEF WorkIsBounded
      <3>3. QED BY <1>2, <2>1, <2>2, <3>2, WorkLessened
    <2>3. CASE ~(Step(r) \/ Crash(r))
      <3>1. CASE UNCHANGED vars
        <4>1. Work(r)' = Work(r)
          BY <3>1 DEF vars, Work
        <4>2. QED BY <2>1, <2>3, <4>1
      <3>2. CASE Next
        <4>1. PICK q \in Runs \ {r} : Step(q) \/ Crash(q)
          BY <2>3, <3>2 DEF Next
        <4>2. QED BY <1>2, <2>1, <2>3, <4>1, WorkOfOthers
      <3>3. QED BY <1>2, <3>1, <3>2
    <2>4. QED BY <2>2, <2>3
  <1>3. IInv /\ [Next]_vars =>
          [\A r \in Runs : pc[r] \in InSession =>
              /\ Work(r)' <= Work(r)
              /\ Step(r) \/ Crash(r) => Work(r)' < Work(r)]_vars
    BY <1>2
  <1>4. QED BY <1>1, <1>3, Invariance, PTL DEF Spec, StepsLessenWork

-----------------------------------------------------------------------------
\* Raw snapshots are immutable in the migrated schema: no run, however
\* interleaved, removes one or moves it to another batch.
THEOREM ImmutableSnapshots ==
    ASSUME ImmutableTrigger PROVE Spec => SnapshotsImmutable
  <1>1. ASSUME IInv, [Next]_vars
        PROVE  [\A l \in Lists : l \in rows => l \in rows' /\ stamp'[l] = stamp[l]]_vars
    BY <1>1, CommitOrNot, CommitAppends
  <1>2. QED BY <1>1, Invariance, PTL DEF Spec, SnapshotsImmutable

\* With the trigger no step touches a committed stamp.
LEMMA StampsKeptStep == IInv /\ StampsKept /\ [Next]_vars => StampsKept'
  <1> SUFFICES ASSUME IInv, StampsKept, [Next]_vars, ImmutableTrigger,
                      NEW r \in Published', NEW l \in PageLists(r)'
               PROVE  stamp'[l] = BatchStamp(r)'
    BY DEF StampsKept
  <1>1. CASE UNCHANGED <<rows, stamp>> /\ Published' = Published
             /\ \A q \in Published : pages'[q] = pages[q]
    <2>1. r \in Runs /\ PageLists(r)' = PageLists(r) /\ BatchStamp(r)' = BatchStamp(r)
      BY <1>1 DEF PageLists, Parsed, Listed, BatchStamp, Published
    <2>2. QED BY <1>1, <2>1 DEF StampsKept
  <1>2. ASSUME NEW q \in Runs, Commit(q) PROVE stamp'[l] = BatchStamp(r)'
    <2>1. r \in Runs /\ PageLists(r)' = PageLists(r) /\ BatchStamp(r)' = BatchStamp(r)
      BY <1>2 DEF PageLists, Parsed, Listed, BatchStamp, Published, Commit
    <2>2. PageLists(r) \subseteq Lists BY <2>1 DEF PageLists, Lists, Parsed
    <2>3. CASE r = q
      BY <1>2, <2>1, <2>3, CommitAppends
    <2>4. CASE r # q
      <3>1. r \in Published
        BY <1>2, <2>1, <2>4 DEF Published, Commit, IInv, TypeOK
      <3>2. l \in rows /\ stamp[l] = BatchStamp(r)
        BY <2>1, <3>1 DEF StampsKept, IInv, AllOrNothing, Published
      <3>3. QED BY <1>2, <2>1, <2>2, <3>2, CommitAppends
    <2>5. QED BY <2>3, <2>4
  <1>3. QED BY <1>1, <1>2, CommitOrNot

\* Coverage is never denied to a batch that has every group's page, when the
\* database knows no other group.
THEOREM CoverageIsExact == Spec => []WholeBatchIsComplete
  <1>1. Init => StampsKept BY DEF Init, StampsKept, Published
  <1>2. Spec => []StampsKept
    BY <1>1, StampsKeptStep, Invariance, PTL DEF Spec
  <1>3. IInv /\ StampsKept => WholeBatchIsComplete
    <2> SUFFICES ASSUME IInv, StampsKept, ImmutableTrigger, NEW b \in Published,
                        NEW l \in PageLists(b), Parsed(b) = Listed(b),
                        RegisteredGroups = Listed(b)
                 PROVE  Complete(l)
      BY DEF WholeBatchIsComplete
    <2>1. b \in Runs /\ pc[b] = "done" BY DEF Published
    <2>2. stamp[l] = BatchStamp(b) BY DEF StampsKept
    <2>3. /\ stamp[l] # NoBatch /\ stamp[l].id = b
          /\ stamp[l].expected = Cardinality(RegisteredGroups)
      BY <2>1, <2>2, BatchStampType
    <2>4. RegisteredGroups # {} BY DEF PageLists
    <2>5. \A g \in Parsed(b) : g \in CoveredGroups(RegisteredGroups, b)
      <3> SUFFICES ASSUME NEW g \in Parsed(b) PROVE g \in CoveredGroups(RegisteredGroups, b)
        OBVIOUS
      <3>1. List(g, pages[b][g]) \in PageLists(b) /\ pages[b][g] \in Contents
        BY DEF PageLists, Parsed
      <3>2. List(g, pages[b][g]) \in rows BY <2>1, <3>1 DEF IInv, AllOrNothing
      <3>3. InBatch(List(g, pages[b][g]), b)
        BY <2>1, <3>1, BatchStampType DEF StampsKept, InBatch
      <3>4. QED BY <3>1, <3>2, <3>3 DEF CoveredGroups
    <2>6. CoveredGroups(RegisteredGroups, b) = RegisteredGroups
      BY <2>5 DEF CoveredGroups
    <2>7. QED BY <2>3, <2>4, <2>6 DEF Complete
  <1>4. QED BY <1>2, <1>3, Invariance, PTL

-----------------------------------------------------------------------------
\* Rows only come from runs that committed.
RowsHaveRun == rows # {} => \E q \in Runs : pc[q] = "done"

\* Of refreshes that collide on a unique key one has committed its batch: they
\* cannot all fail with IntegrityError.
THEOREM CollisionsHaveWinner == Spec => []ConflictHasWinner
  <1> DEFINE Inv == RowsHaveRun /\ ConflictHasWinner
  <1>1. Init => Inv
    BY DEF Init, RowsHaveRun, ConflictHasWinner
  <1>2. IInv /\ Inv /\ [Next]_vars => Inv'
    <2> SUFFICES ASSUME IInv, Inv, [Next]_vars PROVE Inv' OBVIOUS
    <2>1. TypeOK BY DEF IInv
    <2>2. CASE UNCHANGED vars
      BY <2>2 DEF vars, RowsHaveRun, ConflictHasWinner
    <2>3. ASSUME NEW r \in Runs, Commit(r) PROVE Inv'
      BY <2>1, <2>3 DEF Commit, RowsHaveRun, ConflictHasWinner, TypeOK
    <2>4. ASSUME NEW r \in Runs, InsertConflict(r) PROVE Inv'
      <3>1. rows # {} BY <2>4 DEF InsertConflict
      <3>2. PICK q \in Runs : pc[q] = "done" BY <3>1 DEF RowsHaveRun
      <3>3. pc'[q] = "done" BY <2>1, <2>4, <3>2 DEF InsertConflict, Rollback, TypeOK
      <3>4. QED BY <3>3 DEF RowsHaveRun, ConflictHasWinner
    <2>5. ASSUME NEW r \in Runs, NEW s, s \notin {"done", "conflict"}, pc[r] # "done",
                 pc' = [pc EXCEPT ![r] = s], rows' = rows
          PROVE  Inv'
      BY <2>1, <2>5 DEF RowsHaveRun, ConflictHasWinner, TypeOK
    <2>6. ASSUME NEW r \in Runs, Step(r) \/ Crash(r) PROVE Inv'
      <3>1. CASE FetchBatch(r) BY <2>5, <3>1 DEF FetchBatch
      <3>2. CASE FetchFails(r) BY <2>5, <3>2 DEF FetchFails
      <3>3. CASE Lookup(r) BY <2>5, <3>3 DEF Lookup, Advance
      <3>4. CASE Insert(r) BY <2>5, <3>4 DEF Insert, Advance
      <3>5. CASE InsertConflict(r) BY <2>4, <3>5
      <3>6. CASE Restamp(r) BY <2>5, <3>6 DEF Restamp, Advance
      <3>7. CASE RestampRefused(r) BY <2>5, <3>7 DEF RestampRefused, Rollback
      <3>8. CASE Commit(r) BY <2>3, <3>8
      <3>9. CASE Crash(r) BY <2>5, <3>9 DEF Crash, Rollback, InSession
      <3>10. QED
        BY <2>6, <3>1, <3>2, <3>3, <3>4, <3>5, <3>6, <3>7, <3>8, <3>9 DEF Step
    <2>7. QED BY <2>2, <2>6 DEF Next
  <1>3. QED BY <1>1, <1>2, Invariance, PTL DEF Spec

-----------------------------------------------------------------------------
\* The abstract store names rows as this specification does.
LEMMA StoreRows ==
    /\ Store!University = University
    /\ \A g : Store!Group(g) = Group(g)
    /\ \A g, c : Store!List(g, c) = List(g, c)
    /\ Store!Lists = Lists
    /\ \A S : Store!Cardinality(S) = Cardinality(S)
  <1>1. Store!University = University BY DEF Store!University, University
  <1>2. \A g : Store!Group(g) = Group(g) BY DEF Store!Group, Group
  <1>3. \A g, c : Store!List(g, c) = List(g, c) BY DEF Store!List, List
  <1>4. Store!Lists = Lists BY <1>3 DEF Store!Lists, Lists
  <1>5. \A S : Store!Cardinality(S) = Cardinality(S)
    BY DEF Store!Cardinality, Cardinality
  <1>6. QED BY <1>1, <1>2, <1>3, <1>4, <1>5

\* A commit is the publication of the run's batch.
LEMMA CommitPublishes ==
    ASSUME IInv, NEW r \in Runs, Commit(r)
    PROVE  Store!Publish(r)
  <1> DEFINE content == [g \in Parsed(r) |-> pages[r][g]]
             new == {List(g, content[g]) : g \in Parsed(r)}
  <1>1. TypeOK /\ pc[r] = "read" /\ pc[r] \in InSession /\ pending[r] = {}
    BY DEF IInv, Commit, InSession
  <1>2. /\ PageLists(r) \subseteq inserted[r] \cup restamped[r]
        /\ \A l \in Lists : l \in inserted[r] \cup restamped[r] => l \in PageLists(r)
        /\ restamped[r] \subseteq rows
        /\ \A g \in Parsed(r) : {University, Group(g)} \subseteq rows \cup inserted[r]
    BY <1>1, CommitContents
  <1>3. /\ Listed(r) \in SUBSET Groups /\ Listed(r) # {} /\ Parsed(r) \in SUBSET Listed(r)
        /\ content \in [Parsed(r) -> Contents]
    BY <1>1, PagesAssumption DEF IInv, Standing, Listed, Parsed
  <1>4. new = PageLists(r) /\ PageLists(r) \subseteq Lists
    <2>1. \A g \in Parsed(r) : content[g] = pages[r][g] OBVIOUS
    <2>2. new = PageLists(r) BY <2>1 DEF PageLists
    <2>3. PageLists(r) \subseteq Lists BY DEF PageLists, Lists, Parsed
    <2>4. QED BY <2>2, <2>3
  <1>5. r \notin Published /\ Published' = Published \cup {r}
    BY <1>1 DEF Published, Commit, TypeOK
  <1>6. ImmutableTrigger => new \cap rows = {}
    BY <1>4, CommitAppends
  <1>7. rows' = rows \cup new \cup {Group(g) : g \in Parsed(r)}
                     \cup {University : g \in Parsed(r)}
    <2>1. rows' = rows \cup inserted[r] BY DEF Commit
    <2>2. \A k \in inserted[r] : k \in new \cup {Group(g) : g \in Parsed(r)}
                                          \cup {University : g \in Parsed(r)}
      BY <1>4 DEF IInv, InsertedBelong, PageLists
    <2>3. new \subseteq rows' BY <1>2, <1>4, <2>1
    <2>4. \A g \in Parsed(r) : University \in rows' /\ Group(g) \in rows'
      BY <1>2, <2>1
    <2>5. QED BY <2>1, <2>2, <2>3, <2>4
  <1>8. stamp' = [l \in Lists |-> IF l \in new
                                 THEN [id |-> r, expected |-> Cardinality(Listed(r))]
                                 ELSE stamp[l]]
    BY <1>2, <1>4 DEF Commit, BatchStamp
  <1>9. QED
    <2> DEFINE Body(listing, accepted, ct) ==
          LET published == {Store!List(g, ct[g]) : g \in accepted} IN
          /\ listing # {}
          /\ ImmutableTrigger => published \cap rows = {}
          /\ rows' = rows \cup published \cup {Store!Group(g) : g \in accepted}
                          \cup {Store!University : g \in accepted}
          /\ stamp' = [l \in Store!Lists |->
                          IF l \in published
                          THEN [id |-> r, expected |-> Store!Cardinality(listing)]
                          ELSE stamp[l]]
    <2>1. Body(Listed(r), Parsed(r), content)
      BY <1>3, <1>6, <1>7, <1>8, StoreRows
    <2> HIDE DEF content
    <2>2. \E listing \in SUBSET Groups : \E accepted \in SUBSET listing :
            \E ct \in [accepted -> Contents] : Body(listing, accepted, ct)
      <3>1. \E ct \in [Parsed(r) -> Contents] : Body(Listed(r), Parsed(r), ct)
        <4> HIDE DEF Body
        <4>1. QED BY <1>3, <2>1
      <3> HIDE DEF Body
      <3>2. QED BY <1>3, <3>1, Zenon
    <2>3. QED BY <1>5, <2>2 DEF Store!Publish

\* The transactions of any number of overlapping refreshes implement the store
\* that publishes whole batches in one step.
THEOREM Refinement == Spec => StoreSpec
  <1>1. Init => Store!Init
    BY StoreRows DEF Init, Store!Init, Published
  <1>2. IInv /\ [Next]_vars => [Store!Next]_(Store!vars)
    <2> SUFFICES ASSUME IInv, [Next]_vars PROVE [Store!Next]_(Store!vars) OBVIOUS
    <2>1. CASE \E r \in Runs : Commit(r)
      BY <2>1, CommitPublishes DEF Store!Next
    <2>2. CASE UNCHANGED <<rows, stamp>> /\ Published' = Published
      BY <2>2 DEF Store!vars
    <2>3. QED BY <2>1, <2>2, CommitOrNot
  <1>3. QED BY <1>1, <1>2, Invariance, PTL DEF Spec, Store!Spec, StoreSpec
=============================================================================
