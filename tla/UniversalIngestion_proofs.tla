---------------------- MODULE UniversalIngestion_proofs -----------------------
(* Proofs about UniversalIngestion, for any settings, sites, answers of HSE    *)
(* and bounds.  What a fetcher and a parser make of a site is left as it is.   *)
EXTENDS UniversalIngestion, Folds_proofs

-----------------------------------------------------------------------------
(* The inductive invariant.                                                    *)

IsSequence(s) == \E S : s \in Seq(S)

\* The configured universities, and the shapes of the variables.
Shapes ==
    /\ configured \in Settings
    /\ DOMAIN site = ToSet(Plan(configured))
    /\ \A c \in DOMAIN site : site[c] \in DOMAIN Sites[c]
    /\ outcome \in [DOMAIN site -> {"none", "loaded", "failed"}]
    /\ left \in Seq(DOMAIN site)
    /\ IsSequence(store) /\ IsSequence(docs) /\ IsSequence(pending)
    /\ IsSequence(found) /\ IsSequence(results)
    /\ done \in 0..Len(docs)

\* The documents of the visit are those of the university visited.
DocsOfVisit ==
    \A i \in DOMAIN docs : docs[i].status = "valid" => docs[i].key[1] = Head(left)

\* The ids of the documents dealt with have been noted, and what has been noted
\* is in the database or in the open transaction.
Noted ==
    /\ \A i \in 1..done : docs[i].status = "valid" => docs[i].key \in ToSet(found)
    /\ ToSet(found) \subseteq Keys(store) \cup Keys(pending)
    /\ Keys(pending) \subseteq ToSet(found)

\* What the open transaction would add is new.
PendingNew ==
    /\ \A i \in DOMAIN pending : /\ pending[i].key[1] = Head(left)
                                /\ pending[i].key \notin Keys(store)
                                /\ Storable(pending[i].apps)
    /\ \A i, j \in DOMAIN pending : i # j => pending[i].key # pending[j].key

\* A university without an outcome is still to be visited.
Turns ==
    pc # "idle" => \A c \in DOMAIN site : outcome[c] # "none" \/ c \in ToSet(left)

UInv ==
    /\ Shapes /\ TypeOK
    /\ DocsOfVisit /\ Noted /\ PendingNew /\ Turns
    /\ HandedOverIsStored

-----------------------------------------------------------------------------
(* Sequences.                                                                  *)

LEMMA Appended ==
    ASSUME NEW s, IsSequence(s), NEW x
    PROVE  /\ IsSequence(Append(s, x))
           /\ Len(Append(s, x)) = Len(s) + 1
           /\ ToSet(Append(s, x)) = ToSet(s) \cup {x}
           /\ \A i \in 1..Len(s) : Append(s, x)[i] = s[i]
           /\ Append(s, x)[Len(s) + 1] = x
           /\ DOMAIN Append(s, x) = 1..(Len(s) + 1)
<1>1. PICK S : s \in Seq(S)
  BY DEF IsSequence
<1>2. s \in Seq(S \cup {x}) /\ x \in S \cup {x}
  BY <1>1
<1>3. Append(s, x) \in Seq(S \cup {x})
  BY <1>2
<1>4. /\ Len(Append(s, x)) = Len(s) + 1
      /\ \A i \in 1..Len(s) : Append(s, x)[i] = s[i]
      /\ Append(s, x)[Len(s) + 1] = x
      /\ DOMAIN Append(s, x) = 1..(Len(s) + 1) /\ DOMAIN s = 1..Len(s) /\ Len(s) \in Nat
  BY <1>2
<1>5. ToSet(Append(s, x)) = ToSet(s) \cup {x}
  BY <1>4 DEF ToSet
<1> QED
  BY <1>3, <1>4, <1>5 DEF IsSequence

LEMMA Joined ==
    ASSUME NEW s, IsSequence(s), NEW t, IsSequence(t)
    PROVE  /\ IsSequence(s \o t)
           /\ ToSet(s \o t) = ToSet(s) \cup ToSet(t)
           /\ DOMAIN (s \o t) = 1..(Len(s) + Len(t))
           /\ DOMAIN s = 1..Len(s) /\ DOMAIN t = 1..Len(t)
           /\ Len(s) \in Nat /\ Len(t) \in Nat
           /\ \A i \in 1..Len(s) : (s \o t)[i] = s[i]
           /\ \A i \in 1..Len(t) : (s \o t)[Len(s) + i] = t[i]
<1>1. PICK S, T : s \in Seq(S) /\ t \in Seq(T)
  BY DEF IsSequence
<1>2. s \in Seq(S \cup T) /\ t \in Seq(S \cup T)
  BY <1>1
<1>3. s \o t \in Seq(S \cup T)
  BY <1>2
<1>4. /\ DOMAIN (s \o t) = 1..(Len(s) + Len(t))
      /\ DOMAIN s = 1..Len(s) /\ DOMAIN t = 1..Len(t)
      /\ Len(s) \in Nat /\ Len(t) \in Nat
      /\ \A i \in 1..Len(s) : (s \o t)[i] = s[i]
      /\ \A i \in 1..Len(t) : (s \o t)[Len(s) + i] = t[i]
  BY <1>2
<1>5. ToSet(s \o t) \subseteq ToSet(s) \cup ToSet(t)
  <2> SUFFICES ASSUME NEW i \in 1..(Len(s) + Len(t))
               PROVE  (s \o t)[i] \in ToSet(s) \cup ToSet(t)
    BY <1>4 DEF ToSet
  <2>1. CASE i <= Len(s)
    BY <1>4, <2>1 DEF ToSet
  <2>2. CASE i > Len(s)
    <3>1. i - Len(s) \in 1..Len(t) /\ i = Len(s) + (i - Len(s))
      BY <1>4, <2>2
    <3> QED
      BY <1>4, <3>1 DEF ToSet
  <2> QED
    BY <1>4, <2>1, <2>2
<1>6. ToSet(s) \cup ToSet(t) \subseteq ToSet(s \o t)
  <2>1. \A i \in 1..Len(s) : s[i] \in ToSet(s \o t)
    BY <1>4 DEF ToSet
  <2>2. \A i \in 1..Len(t) : t[i] \in ToSet(s \o t)
    BY <1>4 DEF ToSet
  <2> QED
    BY <1>4, <2>1, <2>2 DEF ToSet
<1> QED
  BY <1>3, <1>4, <1>5, <1>6 DEF IsSequence

LEMMA Rest ==
    ASSUME NEW s, IsSequence(s), s # << >>
    PROVE  /\ IsSequence(Tail(s))
           /\ Head(s) \in ToSet(s) /\ ToSet(s) = {Head(s)} \cup ToSet(Tail(s))
<1>1. PICK S : s \in Seq(S)
  BY DEF IsSequence
<1>2. /\ Tail(s) \in Seq(S) /\ Len(s) \in Nat \ {0} /\ Head(s) = s[1]
      /\ DOMAIN s = 1..Len(s) /\ DOMAIN Tail(s) = 1..(Len(s) - 1)
      /\ \A i \in 1..(Len(s) - 1) : Tail(s)[i] = s[i + 1]
  BY <1>1
<1>3. ToSet(s) \subseteq {Head(s)} \cup ToSet(Tail(s))
  <2> SUFFICES ASSUME NEW i \in 1..Len(s) PROVE s[i] \in {Head(s)} \cup ToSet(Tail(s))
    BY <1>2 DEF ToSet
  <2>1. CASE i = 1
    BY <1>2, <2>1
  <2>2. CASE i # 1
    <3>1. i - 1 \in DOMAIN Tail(s) /\ (i - 1) + 1 = i
      BY <1>2, <2>2
    <3>2. Tail(s)[i - 1] = s[i]
      BY <1>2, <3>1
    <3> QED
      BY <3>1, <3>2 DEF ToSet
  <2> QED
    BY <2>1, <2>2
<1>4. {Head(s)} \cup ToSet(Tail(s)) \subseteq ToSet(s)
  <2>1. \A i \in 1..(Len(s) - 1) : Tail(s)[i] \in ToSet(s)
    <3> SUFFICES ASSUME NEW i \in 1..(Len(s) - 1) PROVE Tail(s)[i] \in ToSet(s)
      OBVIOUS
    <3>1. i + 1 \in DOMAIN s
      BY <1>2
    <3> QED
      BY <1>2, <3>1 DEF ToSet
  <2>2. Head(s) \in ToSet(s)
    BY <1>2 DEF ToSet
  <2> QED
    BY <1>2, <2>1, <2>2 DEF ToSet
<1>5. IsSequence(Tail(s))
  BY <1>2 DEF IsSequence
<1> QED
  BY <1>3, <1>4, <1>5

LEMMA EmptySequence == IsSequence(<< >>) /\ ToSet(<< >>) = {} /\ Len(<< >>) = 0
BY DEF IsSequence, ToSet

LEMMA SequenceDomain ==
    ASSUME NEW s, IsSequence(s)
    PROVE  Len(s) \in Nat /\ DOMAIN s = 1..Len(s)
BY DEF IsSequence

\* The keys of joined and of appended rows.
LEMMA KeysJoined ==
    ASSUME NEW s, IsSequence(s), NEW t, IsSequence(t)
    PROVE  Keys(s \o t) = Keys(s) \cup Keys(t)
BY Joined DEF Keys

LEMMA KeysAppended ==
    ASSUME NEW s, IsSequence(s), NEW row
    PROVE  Keys(Append(s, row)) = Keys(s) \cup {row.key}
BY Appended DEF Keys

LEMMA KeyOfRow ==
    ASSUME NEW s, IsSequence(s), NEW i \in DOMAIN s
    PROVE  s[i].key \in Keys(s)
BY DEF Keys, ToSet

\* What a document gives names the university it is of.
LEMMA ResultKey ==
    ASSUME NEW c, NEW doc, Result(c, doc).status = "valid"
    PROVE  Result(c, doc).key[1] = c
BY DEF Result, Snapshot

-----------------------------------------------------------------------------
(* The steps, one lemma each.                                                  *)

LEMMA InitUInv == Init => UInv
<1> SUFFICES ASSUME Init PROVE UInv
  OBVIOUS
<1>1. Shapes
  BY EmptySequence DEF Init, Shapes, NoOutcome
<1>2. Keys(store) = {} /\ ToSet(results) = {} /\ handed = {}
  BY EmptySequence DEF Init, Keys
<1>3. TypeOK /\ HandedOverIsStored
  BY <1>2 DEF Init, TypeOK, HandedOverIsStored
<1>4. DocsOfVisit /\ Noted /\ PendingNew /\ Turns
  BY EmptySequence DEF Init, DocsOfVisit, Noted, PendingNew, Turns, Keys
<1> QED
  BY <1>1, <1>3, <1>4 DEF UInv

\* Without an open visit nothing is asked of one.
LEMMA VisitClosed ==
    ASSUME CloseVisit
    PROVE  /\ DocsOfVisit' /\ Noted' /\ PendingNew'
           /\ IsSequence(docs') /\ IsSequence(pending') /\ IsSequence(found')
           /\ done' \in 0..Len(docs')
<1>1. docs' = << >> /\ done' = 0 /\ pending' = << >> /\ found' = << >>
  BY DEF CloseVisit
<1> QED
  BY <1>1, EmptySequence DEF DocsOfVisit, Noted, PendingNew, Keys

\* The university that is visited.
LEMMA Visited ==
    ASSUME UInv, pc \in {"fetch", "parse"}
    PROVE  /\ left # << >> /\ Head(left) \in DOMAIN site
           /\ Tail(left) \in Seq(DOMAIN site)
           /\ ToSet(left) = {Head(left)} \cup ToSet(Tail(left))
<1>1. left \in Seq(DOMAIN site) /\ left # << >>
  BY DEF UInv, Shapes, TypeOK
<1>2. IsSequence(left)
  BY <1>1 DEF IsSequence
<1> QED
  BY <1>1, <1>2, Rest

\* The planned universities are configured sources; HSE is none of them.
LEMMA Planned ==
    ASSUME UInv
    PROVE  DOMAIN site \subseteq DOMAIN Sites /\ "hse" \notin DOMAIN site
<1>1. ToSet(Plan(configured)) \subseteq DOMAIN Sites
  BY SettingsAssumption DEF UInv, Shapes, ToSet
<1>2. DOMAIN Sites \subseteq Enabled
  BY SettingsAssumption
<1> QED
  BY <1>1, <1>2 DEF UInv, Shapes, Enabled

\* A visit ends with an outcome, and the next university is up.
LEMMA VisitEnds ==
    ASSUME UInv, pc \in {"fetch", "parse"}, NEW o \in {"loaded", "failed"},
           outcome' = [outcome EXCEPT ![Head(left)] = o], Proceed,
           UNCHANGED <<configured, site>>
    PROVE  /\ outcome' \in [DOMAIN site -> {"none", "loaded", "failed"}]
           /\ left' \in Seq(DOMAIN site)
           /\ Turns'
           /\ pc' \in {"fetch", "handover"} /\ (pc' = "fetch" <=> left' # << >>)
<1>1. /\ left' = Tail(left)
      /\ pc' = IF Tail(left) = << >> THEN "handover" ELSE "fetch"
  BY DEF Proceed
<1>2. outcome \in [DOMAIN site -> {"none", "loaded", "failed"}] /\ pc # "idle"
  BY DEF UInv, Shapes
<1>3. \A c \in DOMAIN site : outcome[c] # "none" \/ c \in ToSet(left)
  BY <1>2 DEF UInv, Turns
<1>4. \A c \in DOMAIN site : outcome'[c] = IF c = Head(left) THEN o ELSE outcome[c]
  BY <1>2
<1>5. Turns'
  BY <1>1, <1>3, <1>4, Visited DEF Turns
<1> QED
  BY <1>1, <1>2, <1>5, Visited

LEMMA AbandonUInv ==
    ASSUME UInv, pc \in {"fetch", "parse"}, Abandon, UNCHANGED <<configured, site, handed>>
    PROVE  UInv'
<1>1. /\ Proceed /\ CloseVisit /\ UNCHANGED <<results, store>>
      /\ outcome' = [outcome EXCEPT ![Head(left)] = "failed"]
  BY DEF Abandon, Proceed
<1>2. /\ outcome' \in [DOMAIN site -> {"none", "loaded", "failed"}]
      /\ left' \in Seq(DOMAIN site) /\ Turns'
      /\ pc' \in {"fetch", "handover"} /\ (pc' = "fetch" <=> left' # << >>)
  BY <1>1, VisitEnds
<1>3. Shapes'
  BY <1>1, <1>2, VisitClosed DEF UInv, Shapes
<1>4. TypeOK'
  BY <1>1, <1>2 DEF UInv, TypeOK, CloseVisit
<1>5. HandedOverIsStored'
  BY <1>1 DEF UInv, HandedOverIsStored, Keys
<1> QED
  BY <1>1, <1>2, <1>3, <1>4, <1>5, VisitClosed DEF UInv

LEMMA PublishUInv ==
    ASSUME UInv, NEW c \in DOMAIN site, Publish(c)
    PROVE  UInv'
<1>1. PICK v \in DOMAIN Sites[c] : site' = [site EXCEPT ![c] = v]
  BY DEF Publish
<1>2. /\ UNCHANGED <<configured, store, docs, done, pending, found, left, results, outcome,
                    handed, pc>>
  BY DEF Publish, visit, pass
<1>3. DOMAIN site' = DOMAIN site /\ \A d \in DOMAIN site : site'[d] \in DOMAIN Sites[d]
  BY <1>1 DEF UInv, Shapes
<1>4. Shapes'
  BY <1>2, <1>3 DEF UInv, Shapes
<1>5. TypeOK' /\ DocsOfVisit' /\ Noted' /\ PendingNew' /\ HandedOverIsStored'
  BY <1>2 DEF UInv, TypeOK, DocsOfVisit, Noted, PendingNew, HandedOverIsStored, Keys
<1>6. Turns'
  BY <1>2, <1>3 DEF UInv, Turns
<1> QED
  BY <1>4, <1>5, <1>6 DEF UInv

LEMMA StartPassUInv ==
    ASSUME UInv, StartPass
    PROVE  UInv'
<1>1. /\ UNCHANGED <<configured, site, store, docs, done, pending, found, handed>>
      /\ left' = Plan(configured) /\ results' = << >> /\ outcome' = NoOutcome
      /\ pc' = IF left' = << >> THEN "handover" ELSE "fetch"
      /\ pc = "idle"
  BY DEF StartPass, visit
<1>2. left' \in Seq(DOMAIN site) /\ ToSet(left') = DOMAIN site
  <2>1. Plan(configured) \in Seq(DOMAIN Sites)
    BY SettingsAssumption DEF UInv, Shapes
  <2>2. Plan(configured) \in Seq(ToSet(Plan(configured)))
    BY <2>1 DEF ToSet
  <2> QED
    BY <1>1, <2>2 DEF UInv, Shapes
<1>3. Shapes'
  BY <1>1, <1>2, EmptySequence DEF UInv, Shapes, NoOutcome
<1>4. docs = << >> /\ pending = << >> /\ found = << >>
  BY <1>1 DEF UInv, TypeOK
<1>5. TypeOK'
  BY <1>1, <1>4 DEF UInv, TypeOK
<1>6. DocsOfVisit' /\ PendingNew'
  BY <1>1, <1>4 DEF DocsOfVisit, PendingNew
<1>7. Noted'
  BY <1>1 DEF UInv, Noted, Keys
<1>8. Turns'
  BY <1>1, <1>2 DEF Turns
<1>9. HandedOverIsStored'
  BY <1>1, EmptySequence DEF UInv, HandedOverIsStored, Keys
<1> QED
  BY <1>3, <1>5, <1>6, <1>7, <1>8, <1>9 DEF UInv

LEMMA FetchSourceUInv ==
    ASSUME UInv, FetchSource
    PROVE  UInv'
<1>1. /\ pc = "fetch" /\ pc' = "parse"
      /\ docs' \in Visits[Head(left)][site[Head(left)]]
      /\ UNCHANGED <<configured, site, store, done, pending, found, left, results, outcome,
                    handed>>
  BY DEF FetchSource, pass
<1>2. Head(left) \in DOMAIN Sites /\ site[Head(left)] \in DOMAIN Sites[Head(left)] /\ left # << >>
  BY <1>1, Visited, Planned DEF UInv, Shapes
<1>3. docs' \in Seq(ToSet(docs'))
  BY <1>1, <1>2, VisitsAssumption
<1>4. PICK ds \in Arrivals(Head(left), Sites[Head(left)][site[Head(left)]]) :
          docs' = [i \in DOMAIN ds |-> Result(Head(left), ds[i])]
  BY <1>1, <1>2 DEF Visits
<1>5. \A i \in DOMAIN docs' : docs'[i].status = "valid" => docs'[i].key[1] = Head(left)
  BY <1>4, ResultKey
<1>6. pending = << >> /\ found = << >> /\ docs = << >>
  BY <1>1 DEF UInv, TypeOK
<1>7. done = 0
  BY <1>6, EmptySequence DEF UInv, Shapes
<1>8. Shapes'
  BY <1>1, <1>3, <1>7, SequenceDomain DEF UInv, Shapes, IsSequence
<1>9. TypeOK'
  BY <1>1, <1>2 DEF UInv, TypeOK
<1>10. DocsOfVisit'
  BY <1>1, <1>5 DEF DocsOfVisit
<1>11. Noted' /\ PendingNew'
  BY <1>1, <1>6, <1>7, EmptySequence DEF Noted, PendingNew, Keys
<1>12. Turns' /\ HandedOverIsStored'
  BY <1>1 DEF UInv, Turns, HandedOverIsStored, Keys
<1> QED
  BY <1>8, <1>9, <1>10, <1>11, <1>12 DEF UInv

LEMMA PersistDocumentUInv ==
    ASSUME UInv, PersistDocument
    PROVE  UInv'
<1> DEFINE row == docs[done + 1]
           new == row.status = "valid" /\ ~Known(row)
<1>1. /\ pc = "parse" /\ done < Len(docs)
      /\ UNCHANGED <<configured, site, handed>>
      /\ IF row.status = "raises" \/ (new /\ ~Storable(row.apps))
         THEN Abandon
         ELSE /\ done' = done + 1
              /\ found' = found \o Ids(row)
              /\ pending' = IF new THEN Append(pending, row) ELSE pending
              /\ UNCHANGED <<store, left, results, outcome, docs, pc>>
  BY DEF PersistDocument, pass
<1>2. CASE row.status = "raises" \/ (new /\ ~Storable(row.apps))
  BY <1>1, <1>2, AbandonUInv
<1>3. CASE ~(row.status = "raises" \/ (new /\ ~Storable(row.apps)))
  <2>1. /\ done' = done + 1
        /\ found' = found \o Ids(row)
        /\ pending' = IF new THEN Append(pending, row) ELSE pending
        /\ UNCHANGED <<store, left, results, outcome, docs, pc>>
    BY <1>1, <1>3
  <2>2. /\ IsSequence(docs) /\ IsSequence(found) /\ IsSequence(pending) /\ IsSequence(store)
        /\ done \in 0..Len(docs)
    BY DEF UInv, Shapes
  <2>3. done + 1 \in DOMAIN docs /\ done' \in 0..Len(docs') /\ DOMAIN docs = 1..Len(docs)
    BY <1>1, <2>1, <2>2, SequenceDomain
  <2>4. /\ IsSequence(Ids(row))
        /\ ToSet(Ids(row)) = IF row.status = "valid" THEN {row.key} ELSE {}
    <3>1. CASE row.status = "valid"
      <4>1. Ids(row) = <<row.key>> /\ <<row.key>> \in Seq({row.key})
        BY <3>1 DEF Ids
      <4>2. ToSet(<<row.key>>) = {row.key}
        BY DEF ToSet
      <4> QED
        BY <3>1, <4>1, <4>2 DEF IsSequence
    <3>2. CASE row.status # "valid"
      BY <3>2, EmptySequence DEF Ids
    <3> QED
      BY <3>1, <3>2
  <2>5. /\ IsSequence(found')
        /\ ToSet(found') = ToSet(found) \cup ToSet(Ids(row))
    BY <2>1, <2>2, <2>4, Joined
  <2>6. IsSequence(pending') /\ Keys(pending') = Keys(pending) \cup (IF new THEN {row.key} ELSE {})
    BY <2>1, <2>2, Appended, KeysAppended
  <2>7. Keys(store \o pending) = Keys(store) \cup Keys(pending)
    BY <2>2, KeysJoined
  <2>8. new <=> row.status = "valid" /\ row.key \notin Keys(store) \cup Keys(pending)
    BY <2>7 DEF Known
  <2>9. Shapes'
    BY <1>1, <2>1, <2>3, <2>5, <2>6 DEF UInv, Shapes
  <2>10. TypeOK'
    BY <1>1, <2>1 DEF UInv, TypeOK
  <2>11. DocsOfVisit'
    BY <2>1 DEF UInv, DocsOfVisit
  <2>12. Noted'
    <3>1. \A i \in 1..done' : docs'[i].status = "valid" => docs'[i].key \in ToSet(found')
      <4> SUFFICES ASSUME NEW i \in 1..(done + 1), docs[i].status = "valid"
                   PROVE  docs[i].key \in ToSet(found')
        BY <2>1
      <4>1. CASE i = done + 1
        BY <2>4, <2>5, <4>1
      <4>2. CASE i # done + 1
        <5>1. i \in 1..done
          BY <2>2, <2>3, <4>2
        <5> QED
          BY <2>5, <5>1 DEF UInv, Noted
      <4> QED
        BY <4>1, <4>2
    <3>2. ToSet(found') \subseteq Keys(store) \cup Keys(pending')
      BY <2>4, <2>5, <2>6, <2>8 DEF UInv, Noted
    <3>3. Keys(pending') \subseteq ToSet(found')
      BY <2>4, <2>5, <2>6, <2>8 DEF UInv, Noted
    <3>4. Keys(store)' = Keys(store)
      BY <2>1 DEF Keys
    <3> QED
      BY <3>1, <3>2, <3>3, <3>4 DEF Noted, Keys
  <2>13. PendingNew'
    <3>1. CASE ~new
      BY <2>1, <3>1 DEF UInv, PendingNew, Keys
    <3>2. CASE new
      <4>1. pending' = Append(pending, row)
        BY <2>1, <3>2
      <4>2. /\ DOMAIN pending = 1..Len(pending) /\ Len(pending) \in Nat
            /\ DOMAIN pending' = 1..(Len(pending) + 1)
            /\ \A i \in 1..Len(pending) : pending'[i] = pending[i]
            /\ pending'[Len(pending) + 1] = row
        BY <2>2, <4>1, Appended, SequenceDomain
      <4>3. row.key[1] = Head(left) /\ Storable(row.apps)
        BY <1>3, <2>3, <3>2 DEF UInv, DocsOfVisit
      <4>4. row.key \notin Keys(store) /\ \A i \in 1..Len(pending) : pending[i].key # row.key
        BY <2>2, <2>8, <3>2, <4>2, KeyOfRow
      <4>5. \A i \in 1..Len(pending) : /\ pending[i].key[1] = Head(left)
                                       /\ pending[i].key \notin Keys(store)
                                       /\ Storable(pending[i].apps)
        BY <4>2 DEF UInv, PendingNew
      <4>6. \A i, j \in 1..Len(pending) : i # j => pending[i].key # pending[j].key
        BY <4>2 DEF UInv, PendingNew
      <4>7. \A i \in DOMAIN pending' : i \in 1..Len(pending) \/ i = Len(pending) + 1
        BY <4>2
      <4>8. \A i \in DOMAIN pending' : /\ pending'[i].key[1] = Head(left)
                                       /\ pending'[i].key \notin Keys(store)
                                       /\ Storable(pending'[i].apps)
        <5> SUFFICES ASSUME NEW i \in DOMAIN pending'
                     PROVE  /\ pending'[i].key[1] = Head(left)
                            /\ pending'[i].key \notin Keys(store)
                            /\ Storable(pending'[i].apps)
          OBVIOUS
        <5> HIDE DEF row, new
        <5>1. CASE i \in 1..Len(pending)
          <6>1. pending'[i] = pending[i]
            BY <4>2, <5>1
          <6> QED
            BY <4>5, <5>1, <6>1
        <5>2. CASE i = Len(pending) + 1
          <6>1. pending'[i] = row
            BY <4>2, <5>2
          <6> QED
            BY <4>3, <4>4, <6>1
        <5> QED
          BY <4>7, <5>1, <5>2
      <4>9. \A i, j \in DOMAIN pending' : i # j => pending'[i].key # pending'[j].key
        <5> HIDE DEF row, new
        <5> QED
          BY <4>2, <4>4, <4>6, <4>7
      <4>10. Keys(store)' = Keys(store) /\ left' = left
        BY <2>1 DEF Keys
      <4> QED
        BY <4>8, <4>9, <4>10 DEF PendingNew, Keys
    <3> QED
      BY <3>1, <3>2
  <2>14. Turns' /\ HandedOverIsStored'
    BY <1>1, <2>1 DEF UInv, Turns, HandedOverIsStored, Keys
  <2> QED
    BY <2>9, <2>10, <2>11, <2>12, <2>13, <2>14 DEF UInv
<1> QED
  BY <1>2, <1>3

LEMMA CommitUInv ==
    ASSUME UInv, CommitUniversity
    PROVE  UInv'
<1>1. /\ pc = "parse" /\ done = Len(docs)
      /\ store' = store \o pending
      /\ outcome' = [outcome EXCEPT ![Head(left)] = "loaded"]
      /\ results' = results \o found
      /\ Proceed /\ CloseVisit
      /\ UNCHANGED <<configured, site, handed>>
  BY DEF CommitUniversity, Proceed
<1>2. /\ IsSequence(store) /\ IsSequence(pending) /\ IsSequence(results) /\ IsSequence(found)
  BY DEF UInv, Shapes
<1>3. /\ outcome' \in [DOMAIN site -> {"none", "loaded", "failed"}]
      /\ left' \in Seq(DOMAIN site) /\ Turns'
      /\ pc' \in {"fetch", "handover"} /\ (pc' = "fetch" <=> left' # << >>)
  BY <1>1, VisitEnds
<1>4. /\ IsSequence(store') /\ IsSequence(results')
      /\ ToSet(results') = ToSet(results) \cup ToSet(found)
      /\ Keys(store') = Keys(store) \cup Keys(pending)
  BY <1>1, <1>2, Joined, KeysJoined
<1>5. Shapes'
  BY <1>1, <1>3, <1>4, VisitClosed DEF UInv, Shapes
<1>6. /\ DOMAIN store' = 1..(Len(store) + Len(pending))
      /\ DOMAIN store = 1..Len(store) /\ DOMAIN pending = 1..Len(pending)
      /\ Len(store) \in Nat /\ Len(pending) \in Nat
      /\ \A i \in 1..Len(store) : store'[i] = store[i]
      /\ \A i \in 1..Len(pending) : store'[Len(store) + i] = pending[i]
  BY <1>1, <1>2, Joined
<1>7. \A i \in DOMAIN store' :
          \/ i \in DOMAIN store /\ store'[i] = store[i]
          \/ i - Len(store) \in DOMAIN pending /\ store'[i] = pending[i - Len(store)]
  <2> SUFFICES ASSUME NEW i \in DOMAIN store'
               PROVE  \/ i \in DOMAIN store /\ store'[i] = store[i]
                      \/ i - Len(store) \in DOMAIN pending /\ store'[i] = pending[i - Len(store)]
    OBVIOUS
  <2>1. CASE i <= Len(store)
    BY <1>6, <2>1
  <2>2. CASE i > Len(store)
    <3>1. i - Len(store) \in 1..Len(pending) /\ i = Len(store) + (i - Len(store))
      BY <1>6, <2>2
    <3> QED
      BY <1>6, <3>1
  <2> QED
    BY <1>6, <2>1, <2>2
<1>8. \A i \in DOMAIN store' : Storable(store'[i].apps)
  BY <1>7 DEF UInv, TypeOK, PendingNew
<1>9. \A i, j \in DOMAIN store' : i # j => store'[i].key # store'[j].key
  <2> SUFFICES ASSUME NEW i \in DOMAIN store', NEW j \in DOMAIN store', i # j
               PROVE  store'[i].key # store'[j].key
    OBVIOUS
  <2>1. \A k \in DOMAIN store : \A m \in DOMAIN pending : pending[m].key # store[k].key
    BY KeyOfRow, <1>2 DEF UInv, PendingNew
  <2>2. i - Len(store) # j - Len(store)
    BY <1>6
  <2>3. CASE i \in DOMAIN store /\ store'[i] = store[i]
    BY <1>7, <2>1, <2>3 DEF UInv, TypeOK
  <2>4. CASE i - Len(store) \in DOMAIN pending /\ store'[i] = pending[i - Len(store)]
    BY <1>7, <2>1, <2>2, <2>4 DEF UInv, PendingNew
  <2> QED
    BY <1>7, <2>3, <2>4
<1>10. TypeOK'
  BY <1>1, <1>3, <1>8, <1>9 DEF TypeOK, CloseVisit
<1>11. HandedOverIsStored'
  BY <1>1, <1>4 DEF UInv, HandedOverIsStored, Noted, Keys
<1> QED
  BY <1>1, <1>3, <1>5, <1>10, <1>11, VisitClosed DEF UInv

LEMMA HandOverUInv ==
    ASSUME UInv, HandOver
    PROVE  UInv'
<1>1. /\ results # << >> /\ handed' = handed \cup {Head(results)} /\ results' = Tail(results)
      /\ UNCHANGED <<configured, site, store, docs, done, pending, found, left, outcome, pc>>
  BY DEF HandOver, visit
<1>2. IsSequence(results)
  BY DEF UInv, Shapes
<1>3. IsSequence(results') /\ ToSet(results) = {Head(results)} \cup ToSet(results')
  BY <1>1, <1>2, Rest
<1>4. Shapes'
  BY <1>1, <1>3 DEF UInv, Shapes
<1>5. TypeOK' /\ DocsOfVisit' /\ Noted' /\ PendingNew' /\ Turns'
  BY <1>1 DEF UInv, TypeOK, DocsOfVisit, Noted, PendingNew, Turns, Keys
<1>6. HandedOverIsStored'
  BY <1>1, <1>3 DEF UInv, HandedOverIsStored, Keys
<1> QED
  BY <1>4, <1>5, <1>6 DEF UInv

LEMMA FinishPassUInv ==
    ASSUME UInv, FinishPass
    PROVE  UInv'
<1>1. /\ pc = "handover" /\ pc' = "idle"
      /\ UNCHANGED <<configured, site, store, docs, done, pending, found, left, results,
                    outcome, handed>>
  BY DEF FinishPass, visit, pass
<1>2. Shapes' /\ DocsOfVisit' /\ Noted' /\ PendingNew' /\ HandedOverIsStored'
  BY <1>1 DEF UInv, Shapes, DocsOfVisit, Noted, PendingNew, HandedOverIsStored, Keys
<1>3. TypeOK' /\ Turns'
  BY <1>1 DEF UInv, TypeOK, Turns
<1> QED
  BY <1>2, <1>3 DEF UInv

LEMMA StopUInv ==
    ASSUME UInv, Stop
    PROVE  UInv'
<1>1. /\ CloseVisit /\ left' = << >> /\ results' = << >> /\ outcome' = NoOutcome /\ pc' = "idle"
      /\ UNCHANGED <<configured, site, store, handed>>
  BY DEF Stop
<1>2. Shapes'
  BY <1>1, VisitClosed, EmptySequence DEF UInv, Shapes, NoOutcome
<1>3. TypeOK' /\ Turns'
  BY <1>1 DEF UInv, TypeOK, Turns, CloseVisit
<1>4. HandedOverIsStored'
  BY <1>1, EmptySequence DEF UInv, HandedOverIsStored, Keys
<1> QED
  BY <1>1, <1>2, <1>3, <1>4, VisitClosed DEF UInv

LEMMA IngestHseUInv ==
    ASSUME UInv, IngestHse
    PROVE  UInv'
<1>1. PICK answer \in HseAnswers :
        LET group == HseSelection(answer.discovery)
            list == HseList(answer.page, group)
            row == Snapshot("hse", [url |-> "applicant", content |-> answer.page], list)
        IN  /\ row.key \notin Keys(store) /\ Storable(row.apps)
            /\ store' = Append(store, row)
  BY DEF IngestHse
<1> DEFINE group == HseSelection(answer.discovery)
           list == HseList(answer.page, group)
           row == Snapshot("hse", [url |-> "applicant", content |-> answer.page], list)
<1>2. /\ row.key \notin Keys(store) /\ Storable(row.apps)
      /\ store' = Append(store, row) /\ row.key[1] = "hse"
  BY <1>1 DEF Snapshot
<1>3. UNCHANGED <<configured, site, docs, done, pending, found, left, results, outcome, handed, pc>>
  BY DEF IngestHse, visit, pass
<1> HIDE DEF row
<1>4. IsSequence(store)
  BY DEF UInv, Shapes
<1>5. /\ IsSequence(store') /\ Keys(store') = Keys(store) \cup {row.key}
      /\ DOMAIN store = 1..Len(store) /\ Len(store) \in Nat
      /\ DOMAIN store' = 1..(Len(store) + 1)
      /\ \A i \in 1..Len(store) : store'[i] = store[i]
      /\ store'[Len(store) + 1] = row
  BY <1>2, <1>4, Appended, KeysAppended, SequenceDomain
<1>6. Shapes'
  BY <1>3, <1>5 DEF UInv, Shapes
<1>7. \A i \in DOMAIN store' : i \in DOMAIN store \/ i = Len(store) + 1
  BY <1>5
<1>8. \A i \in DOMAIN store : store'[i] = store[i] /\ store[i].key # row.key /\ Storable(store[i].apps)
  BY <1>2, <1>4, <1>5, KeyOfRow DEF UInv, TypeOK
<1>9. \A i \in DOMAIN store' : Storable(store'[i].apps)
  BY <1>2, <1>5, <1>7, <1>8
<1>10. \A i, j \in DOMAIN store' : i # j => store'[i].key # store'[j].key
  BY <1>5, <1>7, <1>8 DEF UInv, TypeOK
<1>11. TypeOK'
  BY <1>3, <1>9, <1>10 DEF UInv, TypeOK
<1>12. DocsOfVisit' /\ Turns'
  BY <1>3 DEF UInv, DocsOfVisit, Turns
<1>13. Noted'
  BY <1>3, <1>5 DEF UInv, Noted, Keys
<1>14. PendingNew'
  <2>1. CASE pending = << >>
    BY <1>3, <2>1 DEF PendingNew
  <2>2. CASE pending # << >>
    <3>1. pc = "parse"
      BY <2>2 DEF UInv, TypeOK
    <3>2. Head(left) # "hse"
      BY <3>1, Visited, Planned
    <3>3. \A i \in DOMAIN pending : pending[i].key # row.key
      BY <1>2, <3>2 DEF UInv, PendingNew
    <3> QED
      BY <1>3, <1>5, <3>3 DEF UInv, PendingNew, Keys
  <2> QED
    BY <2>1, <2>2
<1>15. HandedOverIsStored'
  BY <1>3, <1>5 DEF UInv, HandedOverIsStored, Keys
<1> QED
  BY <1>6, <1>11, <1>12, <1>13, <1>14, <1>15 DEF UInv

\* Every step keeps the invariant.
LEMMA NextUInv ==
    ASSUME UInv, [Next]_vars
    PROVE  UInv'
<1>1. CASE UNCHANGED vars
  BY <1>1 DEF UInv, Shapes, TypeOK, DocsOfVisit, Noted, PendingNew, Turns,
     HandedOverIsStored, Keys, vars, visit, pass
<1>2. CASE Worker
  BY <1>2, StartPassUInv, PersistDocumentUInv, CommitUInv, HandOverUInv, FinishPassUInv
     DEF Worker
<1>3. CASE FetchSource
  BY <1>3, FetchSourceUInv
<1>4. CASE \E c \in DOMAIN site : Publish(c)
  BY <1>4, PublishUInv
<1>5. CASE VisitFails
  BY <1>5, AbandonUInv DEF VisitFails
<1>6. CASE Stop
  BY <1>6, StopUInv
<1>7. CASE IngestHse
  BY <1>7, IngestHseUInv
<1> QED
  BY <1>1, <1>2, <1>3, <1>4, <1>5, <1>6, <1>7 DEF Next

-----------------------------------------------------------------------------
(* The theorems.                                                               *)

\* The inductive invariant: what is handed over is stored, what is noted in a
\* visit is stored or in its transaction, and the transaction adds what is new.
THEOREM PassInvariance == Spec => []UInv
<1>1. Init => UInv
  BY InitUInv
<1>2. UInv /\ [Next]_vars => UInv'
  BY NextUInv
<1> QED
  BY <1>1, <1>2, PTL DEF Spec

\* A snapshot is stored once and can be stored under the constraints of the
\* tables; a transaction is open only during a visit (persist_snapshot).
THEOREM TypeCorrectness == Spec => []TypeOK
<1>1. UInv => TypeOK
  BY DEF UInv
<1> QED
  BY <1>1, PassInvariance, PTL

\* Whatever fails and whenever the worker stops: an id given to a diff job is of
\* a snapshot that was committed (ingest_active_universities).
THEOREM HandedOver == Spec => []HandedOverIsStored
<1>1. UInv => HandedOverIsStored
  BY DEF UInv
<1> QED
  BY <1>1, PassInvariance, PTL

\* No university that fails takes their turn from the others
\* (the try in ingest_active_universities).
THEOREM Turn == Spec => []EveryUniversityHasItsTurn
<1>1. UInv => EveryUniversityHasItsTurn
  <2> SUFFICES ASSUME UInv, pc = "handover", NEW c \in ToSet(Plan(configured))
               PROVE  outcome[c] # "none"
    BY DEF EveryUniversityHasItsTurn
  <2>1. left = << >> /\ c \in DOMAIN site
    BY DEF UInv, TypeOK, Shapes
  <2> QED
    BY <2>1, EmptySequence DEF UInv, Turns
<1> QED
  BY <1>1, PassInvariance, PTL

\* A step that changes the stored rows commits a visit or is the HSE pilot.
LEMMA StoreSteps ==
    ASSUME UInv, [Next]_vars
    PROVE  store' = store \/ CommitUniversity \/ IngestHse
<1>1. UNCHANGED vars => store' = store
  BY DEF vars
<1>2. PersistDocument => store' = store
  BY DEF PersistDocument, Abandon
<1>3. StartPass \/ HandOver \/ FinishPass \/ FetchSource \/ VisitFails \/ Stop => store' = store
  BY DEF StartPass, HandOver, FinishPass, FetchSource, VisitFails, Abandon, Stop
<1>4. \A c \in DOMAIN site : Publish(c) => store' = store
  BY DEF Publish
<1> QED
  BY <1>1, <1>2, <1>3, <1>4 DEF Next, Worker

\* Readers see all lists of a visit or none of the new ones (one session and one
\* commit for each university in ingest_active_universities).
THEOREM Atomic == Spec => VisitsAreAtomic
<1> DEFINE Step ==
      pc = "parse" /\ (\E s \in ToSet(store') \ ToSet(store) : s.key[1] = Head(left)) =>
          \A i \in DOMAIN docs : docs[i].status = "valid" => docs[i].key \in Keys(store')
<1>1. UInv /\ [Next]_vars => Step
  <2> SUFFICES ASSUME UInv, [Next]_vars, pc = "parse",
                      NEW s \in ToSet(store') \ ToSet(store), s.key[1] = Head(left),
                      NEW i \in DOMAIN docs, docs[i].status = "valid"
               PROVE  docs[i].key \in Keys(store')
    OBVIOUS
  <2>1. store' # store
    OBVIOUS
  <2>2. CASE CommitUniversity
    <3>1. store' = store \o pending /\ done = Len(docs)
      BY <2>2 DEF CommitUniversity
    <3>2. DOMAIN docs = 1..done /\ IsSequence(store) /\ IsSequence(pending)
      BY <3>1, SequenceDomain DEF UInv, Shapes
    <3>3. docs[i].key \in ToSet(found)
      BY <3>2 DEF UInv, Noted
    <3>4. docs[i].key \in Keys(store) \cup Keys(pending)
      BY <3>3 DEF UInv, Noted
    <3> QED
      BY <3>1, <3>2, <3>4, KeysJoined
  <2>3. CASE IngestHse
    <3>1. PICK row : store' = Append(store, row) /\ row.key[1] = "hse"
      BY <2>3 DEF IngestHse, Snapshot
    <3>2. IsSequence(store)
      BY DEF UInv, Shapes
    <3>3. s = row
      BY <3>1, <3>2, Appended
    <3>4. Head(left) # "hse"
      BY Visited, Planned
    <3> QED
      BY <3>1, <3>3, <3>4
  <2> QED
    BY <2>1, <2>2, <2>3, StoreSteps
<1>2. UInv /\ [Next]_vars => [Step]_vars
  BY <1>1
<1> QED
  BY <1>2, PassInvariance, PTL DEF Spec, VisitsAreAtomic

\* Only the commit gives a university the outcome "loaded".
LEMMA LoadedByCommit ==
    ASSUME UInv, [Next]_vars, pc = "parse", outcome' # outcome, outcome'[Head(left)] = "loaded"
    PROVE  CommitUniversity
<1>1. /\ Head(left) \in DOMAIN site
      /\ outcome \in [DOMAIN site -> {"none", "loaded", "failed"}]
  BY Visited DEF UInv, Shapes
<1>2. ~ UNCHANGED vars
  BY DEF vars, pass
<1>3. ~ Abandon
  BY <1>1 DEF Abandon
<1>4. ~ PersistDocument
  BY <1>3 DEF PersistDocument, pass
<1>5. ~ VisitFails
  BY <1>3 DEF VisitFails
<1>6. ~ Stop
  BY <1>1 DEF Stop, NoOutcome
<1>7. ~ (StartPass \/ HandOver \/ FinishPass \/ FetchSource \/ IngestHse)
  BY DEF StartPass, HandOver, FinishPass, FetchSource, IngestHse, pass
<1>8. \A c \in DOMAIN site : ~ Publish(c)
  BY DEF Publish, pass
<1> QED
  BY <1>2, <1>4, <1>5, <1>6, <1>7, <1>8 DEF Next, Worker

\* The bot shows a list of the last visit for each group for which the visit
\* brought a new one (_view_for_target orders by fetched_at, which a list that
\* comes back keeps from its first visit).
THEOREM NewListsAreShown == Spec => ViewLagsOnlyForReturnedLists
<1> DEFINE Step ==
      pc = "parse" /\ outcome' # outcome /\ outcome'[Head(left)] = "loaded" =>
          \A k \in ToSet(found) : k \notin Keys(store) => View(store', k) \in ToSet(found)
<1>1. UInv /\ [Next]_vars => Step
  <2> SUFFICES ASSUME UInv, [Next]_vars, pc = "parse", outcome' # outcome,
                      outcome'[Head(left)] = "loaded",
                      NEW k \in ToSet(found), k \notin Keys(store)
               PROVE  View(store', k) \in ToSet(found)
    OBVIOUS
  <2>1. store' = store \o pending
    BY LoadedByCommit DEF CommitUniversity
  <2>2. /\ IsSequence(store) /\ IsSequence(pending)
        /\ Keys(pending) \subseteq ToSet(found)
        /\ k \in Keys(pending)
    BY DEF UInv, Shapes, Noted
  <2>3. /\ DOMAIN store' = 1..(Len(store) + Len(pending))
        /\ DOMAIN pending = 1..Len(pending)
        /\ Len(store) \in Nat /\ Len(pending) \in Nat
        /\ \A i \in 1..Len(pending) : store'[Len(store) + i] = pending[i]
    BY <2>1, <2>2, Joined
  <2>4. PICK m \in 1..Len(pending) : pending[m].key = k
    BY <2>2, <2>3 DEF Keys, ToSet
  <2> DEFINE OfGroup == {i \in DOMAIN store' : SubSeq(store'[i].key, 1, 2) = SubSeq(k, 1, 2)}
             last == Max(OfGroup)
  <2>5. Len(store) + m \in OfGroup
    BY <2>3, <2>4
  <2>6. Len(store) + Len(pending) \in Nat /\ OfGroup \subseteq 1..(Len(store) + Len(pending))
    BY <2>3
  <2>7. last \in OfGroup /\ last >= Len(store) + m
    <3> HIDE DEF OfGroup
    <3> QED
      BY <2>5, <2>6, LastIndex
  <2>8. last - Len(store) \in 1..Len(pending) /\ last = Len(store) + (last - Len(store))
    <3> HIDE DEF last
    <3>1. last \in 1..(Len(store) + Len(pending))
      BY <2>6, <2>7
    <3>2. m \in Int /\ m >= 1
      BY <2>3
    <3> QED
      BY <2>3, <2>7, <3>1, <3>2
  <2>9. store'[last] = pending[last - Len(store)]
    <3> HIDE DEF last
    <3> QED
      BY <2>3, <2>8
  <2>10. store'[last].key \in Keys(pending)
    BY <2>2, <2>3, <2>8, <2>9, KeyOfRow
  <2> QED
    BY <2>2, <2>10 DEF View
<1>2. UInv /\ [Next]_vars => [Step]_vars
  BY <1>1
<1> QED
  BY <1>2, PassInvariance, PTL DEF Spec, ViewLagsOnlyForReturnedLists
=============================================================================
