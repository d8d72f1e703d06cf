---------------------- MODULE NotificationDelivery_proofs ----------------------
(* Proofs about NotificationDelivery, for any users, targets and notifications, *)
(* any limit and any number of attempts.                                       *)
EXTENDS NotificationDelivery, Folds_proofs

-----------------------------------------------------------------------------
(* The inductive invariant.                                                    *)

\* What a pass has listed was deliverable; only a deletion has touched it since.
ListedDeliverable ==
    \A n \in batch :
        /\ status[n] \in Unhandled \cup {"gone"}
        /\ attempts[n] < MaxAttempts
        /\ marks[n] = "none"

\* What a pass has marked is locked, hence still as it was listed.
MarkedDeliverable ==
    \A n \in Notes : Locked(n) =>
        /\ status[n] \in Unhandled
        /\ attempts[n] < MaxAttempts
        /\ marks[n] = "sent" => accepted[n] >= 1

\* The result about to be marked is the one of the current notification.
ResultTold ==
    \A n \in batch : pc = "flush" /\ IsCurrent(n) /\ result = "sent" => accepted[n] >= 1

\* A pass is open only between its listing and its commit or rollback.
PassOpen ==
    /\ pc \notin InPass => batch = {} /\ \A n \in Notes : marks[n] = "none"
    /\ pc # "stopped" => aborts <= MaxAborts

\* Foreign keys: targets and notifications go with their user.
OwnersExist ==
    /\ \A t \in targets : OwnerOf[t] \in users
    /\ \A n \in Notes : status[n] \notin {"none", "gone"} => Receiver(n) \in users

\* A message that came after the deletion leaves the pass at a mark it cannot
\* write, and there is one for each user.
LateIsLast ==
    /\ \A n \in late :
           /\ Receiver(n) \notin users
           /\ \A m \in batch : Receiver(m) = Receiver(n) => pc = "flush" /\ IsCurrent(n)
    /\ \A m, n \in late : Receiver(m) = Receiver(n) => m = n

IInv ==
    /\ TypeOK /\ ListedDeliverable /\ MarkedDeliverable /\ ResultTold /\ PassOpen
    /\ OwnersExist /\ LateIsLast /\ MessagesAccounted /\ SentWasAccepted

-----------------------------------------------------------------------------
LEMMA CurrentUnique ==
    ASSUME TypeOK, NEW m \in Notes, NEW n \in Notes, IsCurrent(m), IsCurrent(n)
    PROVE  m = n
BY NotesAssumption DEF IsCurrent, TypeOK

LEMMA InitIInv == Init => IInv
<1> SUFFICES ASSUME Init PROVE IInv
  OBVIOUS
<1> USE NotesAssumption, OwnersAssumption, BoundsAssumption DEF Init
<1>1. TypeOK
  BY DEF TypeOK, Outcomes, InPass
<1>2. ListedDeliverable /\ ResultTold
  BY DEF ListedDeliverable, ResultTold
<1>3. MarkedDeliverable /\ PassOpen
  BY DEF MarkedDeliverable, PassOpen, Locked, InPass
<1>4. OwnersExist
  BY DEF OwnersExist
<1>5. LateIsLast
  BY DEF LateIsLast
<1>6. MessagesAccounted
  BY DEF MessagesAccounted, Counted, InFlight
<1>7. SentWasAccepted
  BY DEF SentWasAccepted
<1> QED
  BY <1>1, <1>2, <1>3, <1>4, <1>5, <1>6, <1>7 DEF IInv

LEMMA QueueIInv ==
    ASSUME IInv, NEW n \in Notes, Queue(n)
    PROVE  IInv'
<1> USE NotesAssumption, OwnersAssumption, BoundsAssumption DEF Queue, IInv, pass, telegram
<1>1. TypeOK'
  BY DEF TypeOK, Outcomes
<1>2. ListedDeliverable'
  BY DEF TypeOK, ListedDeliverable, Unhandled
<1>3. MarkedDeliverable'
  BY DEF TypeOK, MarkedDeliverable, Locked, Unhandled
<1>4. ResultTold' /\ PassOpen'
  BY DEF ResultTold, PassOpen, IsCurrent
<1>5. OwnersExist'
  BY DEF TypeOK, OwnersExist, Receiver
<1>6. LateIsLast'
  BY DEF LateIsLast, IsCurrent
<1>7. MessagesAccounted' /\ SentWasAccepted'
  BY DEF TypeOK, MessagesAccounted, SentWasAccepted, Counted, InFlight, IsCurrent
<1> QED
  BY <1>1, <1>2, <1>3, <1>4, <1>5, <1>6, <1>7

LEMMA DeleteUserIInv ==
    ASSUME IInv, NEW u \in users, DeleteUser(u)
    PROVE  IInv'
<1> USE NotesAssumption, OwnersAssumption, BoundsAssumption
    DEF DeleteUser, IInv, pass, telegram, TypeOK
<1>0. \A n \in Notes : /\ status'[n] \in {status[n], "gone"}
                       /\ status'[n] # status[n] => Receiver(n) = u /\ ~Locked(n)
  OBVIOUS
<1>1. TypeOK'
  BY DEF Outcomes
<1>2. ListedDeliverable'
  BY <1>0 DEF ListedDeliverable
<1>3. MarkedDeliverable'
  BY <1>0 DEF MarkedDeliverable, Locked
<1>4. ResultTold' /\ PassOpen'
  BY DEF ResultTold, PassOpen, IsCurrent
<1>5. OwnersExist'
  BY DEF OwnersExist, Receiver
<1>6. LateIsLast'
  BY DEF LateIsLast, IsCurrent
<1>7. MessagesAccounted'
  BY DEF MessagesAccounted, Counted, InFlight, IsCurrent
<1>8. SentWasAccepted'
  BY <1>0 DEF SentWasAccepted
<1> QED
  BY <1>1, <1>2, <1>3, <1>4, <1>5, <1>6, <1>7, <1>8

\* Steps that change targets, the choice of the current notification's user and
\* nothing the messages depend on.
LEMMA QuietIInv ==
    ASSUME IInv,
           \/ \E t \in Targets : DeleteTarget(t)
           \/ \E n \in Notes : GetUser(n) \/ SkipDeletedTarget(n)
    PROVE  IInv'
<1> USE NotesAssumption, OwnersAssumption, BoundsAssumption DEF IInv, TypeOK
<1>1. CASE \E t \in Targets : DeleteTarget(t)
  <2>1. PICK t \in Targets : DeleteTarget(t)
    BY <1>1
  <2> USE <2>1 DEF DeleteTarget, pass, telegram
  <2>2. TypeOK' /\ OwnersExist'
    BY DEF OwnersExist, Receiver
  <2>3. ListedDeliverable' /\ MarkedDeliverable' /\ ResultTold' /\ PassOpen'
    BY DEF ListedDeliverable, MarkedDeliverable, ResultTold, PassOpen, IsCurrent, Locked
  <2>4. LateIsLast'
    BY DEF LateIsLast, IsCurrent
  <2>5. MessagesAccounted' /\ SentWasAccepted'
    BY DEF MessagesAccounted, SentWasAccepted, Counted, InFlight, IsCurrent
  <2> QED
    BY <2>2, <2>3, <2>4, <2>5
<1>2. CASE \E n \in Notes : GetUser(n) \/ SkipDeletedTarget(n)
  <2>1. PICK n \in Notes : GetUser(n) \/ SkipDeletedTarget(n)
    BY <1>2
  <2>2. /\ pc = "next" /\ IsCurrent(n)
        /\ UNCHANGED <<db, batch, linked, marks, telegram, aborts>>
        /\ \/ pc' = "send" /\ result' = result
           \/ pc' = "flush" /\ result' = "skipped"
        /\ loaded' \in Users \cup {NoUser}
    BY <2>1 DEF GetUser, SkipDeletedTarget, Receiver
  <2> USE <2>2 DEF db, telegram
  <2>3. TypeOK'
    BY DEF InPass, Outcomes
  <2>4. ListedDeliverable' /\ MarkedDeliverable' /\ OwnersExist'
    BY DEF ListedDeliverable, MarkedDeliverable, OwnersExist, Locked
  <2>5. ResultTold' /\ PassOpen'
    BY DEF ResultTold, PassOpen, InPass, IsCurrent
  <2>6. LateIsLast'
    BY DEF LateIsLast, IsCurrent
  <2>7. MessagesAccounted' /\ SentWasAccepted'
    BY DEF MessagesAccounted, SentWasAccepted, Counted, InFlight, IsCurrent
  <2> QED
    BY <2>3, <2>4, <2>5, <2>6, <2>7
<1> QED
  BY <1>1, <1>2

LEMMA ListIInv ==
    ASSUME IInv, ListDeliverable
    PROVE  IInv'
<1> USE NotesAssumption, OwnersAssumption, BoundsAssumption
    DEF ListDeliverable, IInv, TypeOK, db, telegram
<1>1. /\ \A n \in batch' : n \in Notes /\ Deliverable(n)
      /\ \A n \in Notes : marks[n] = "none"
  BY DEF Listed, PassOpen, InPass
<1>2. TypeOK'
  BY <1>1 DEF InPass, Listed
<1>3. ListedDeliverable' /\ MarkedDeliverable'
  BY <1>1 DEF ListedDeliverable, MarkedDeliverable, Deliverable, Locked
<1>4. ResultTold' /\ PassOpen' /\ OwnersExist'
  BY <1>1 DEF ResultTold, PassOpen, OwnersExist, InPass
<1>5. LateIsLast'
  BY <1>1 DEF LateIsLast, OwnersExist, Deliverable, Unhandled
<1>6. MessagesAccounted' /\ SentWasAccepted'
  BY DEF MessagesAccounted, SentWasAccepted, Counted, InFlight
<1> QED
  BY <1>2, <1>3, <1>4, <1>5, <1>6

LEMMA SendIInv ==
    ASSUME IInv, NEW n \in Notes, SendMessage(n)
    PROVE  IInv'
<1> USE NotesAssumption, OwnersAssumption, BoundsAssumption DEF IInv, TypeOK
<1>1. PICK took \in {0, 1}, told \in {"sent", "failed"} :
         /\ told = "sent" => took = 1
         /\ Accept(n, took)
         /\ result' = told
  BY DEF SendMessage
<1>2. /\ pc = "send" /\ pc' = "flush" /\ IsCurrent(n)
      /\ UNCHANGED <<db, batch, linked, loaded, marks, aborts>>
  BY DEF SendMessage
<1>3. /\ accepted' = [accepted EXCEPT ![n] = @ + took]
      /\ late' = late \/ (late' = late \cup {n} /\ Receiver(n) \notin users)
  BY <1>1 DEF Accept
<1>4. \A m \in Notes : IsCurrent(m) => m = n
  BY <1>2, CurrentUnique
<1> USE <1>1, <1>2, <1>3 DEF db
<1>5. TypeOK'
  <2>1. accepted[n] + took \in Nat
    OBVIOUS
  <2>2. accepted' \in [Notes -> Nat]
    BY <2>1
  <2>3. late' \subseteq Notes
    BY Zenon
  <2>4. result' \in {"none"} \cup Outcomes
    BY DEF Outcomes
  <2> QED
    BY <2>2, <2>3, <2>4 DEF InPass
<1>6. ListedDeliverable' /\ MarkedDeliverable' /\ OwnersExist'
  BY DEF ListedDeliverable, MarkedDeliverable, OwnersExist, Locked
<1>7. ResultTold' /\ PassOpen'
  BY <1>4 DEF ResultTold, PassOpen, InPass, IsCurrent
<1>8. LateIsLast'
  <2>1. \A m \in batch : (\E k \in late : Receiver(m) = Receiver(k)) => FALSE
    BY DEF LateIsLast
  <2>2. \A k \in late : Receiver(k) # Receiver(n)
    BY <2>1 DEF IsCurrent
  <2>3. \A k \in late' : Receiver(k) \notin users
    BY DEF LateIsLast
  <2>4. \A k, m \in late' : Receiver(m) = Receiver(k) => m = k
    BY <2>2 DEF LateIsLast
  <2>5. ASSUME NEW k \in late', NEW m \in batch, Receiver(m) = Receiver(k)
        PROVE  k = n
    BY <2>1, <2>5
  <2> QED
    BY <2>3, <2>4, <2>5 DEF LateIsLast, IsCurrent
<1>9. MessagesAccounted'
  <2>1. \A m \in Notes : InFlight(m) = 0 /\ Counted(m)' = Counted(m)
    BY DEF InFlight, Counted
  <2>2. InFlight(n)' = 1 /\ \A m \in Notes : InFlight(m)' \in {0, 1}
    BY DEF InFlight, IsCurrent
  <2>3. \A m \in Notes : Counted(m) \in Nat
    BY DEF Counted
  <2> QED
    BY <2>1, <2>2, <2>3 DEF MessagesAccounted
<1>10. SentWasAccepted'
  BY DEF SentWasAccepted
<1> QED
  BY <1>5, <1>6, <1>7, <1>8, <1>9, <1>10

LEMMA MarkIInv ==
    ASSUME IInv, NEW n \in Notes, Mark(n)
    PROVE  IInv'
<1> USE NotesAssumption, OwnersAssumption, BoundsAssumption DEF IInv, TypeOK
<1>1. /\ pc = "flush" /\ pc' = "next" /\ IsCurrent(n) /\ n \in batch
      /\ status[n] # "gone"
      /\ marks' = [marks EXCEPT ![n] = result]
      /\ batch' = batch \ {n} /\ result' = "none"
      /\ UNCHANGED <<db, linked, loaded, telegram, aborts>>
  BY DEF Mark, IsCurrent
<1>2. \A m \in Notes : IsCurrent(m) => m = n
  BY <1>1, CurrentUnique
<1>3. status[n] \in Unhandled /\ attempts[n] < MaxAttempts /\ marks[n] = "none"
  BY <1>1 DEF ListedDeliverable
<1>4. Receiver(n) \in users
  BY <1>3 DEF OwnersExist, Unhandled
<1> USE <1>1 DEF db, telegram
<1>5. TypeOK'
  BY DEF InPass, Outcomes
<1>6. ListedDeliverable' /\ MarkedDeliverable'
  BY <1>3 DEF ListedDeliverable, MarkedDeliverable, ResultTold, Locked
<1>7. ResultTold' /\ PassOpen' /\ OwnersExist'
  BY DEF ResultTold, PassOpen, OwnersExist, InPass
<1>8. LateIsLast'
  BY <1>2, <1>4 DEF LateIsLast
<1>9. MessagesAccounted'
  <2>1. \A m \in Notes : m # n => InFlight(m) = 0
    BY <1>2 DEF InFlight
  <2>2. \A m \in Notes : m # n => Counted(m)' = Counted(m)
    BY DEF Counted
  <2>3. Counted(n) = 0 /\ Counted(n)' = InFlight(n)
    BY <1>3 DEF Counted, InFlight
  <2>4. \A m \in Notes : InFlight(m)' = 0
    BY DEF InFlight
  <2> QED
    BY <2>1, <2>2, <2>3, <2>4 DEF MessagesAccounted, Counted, InFlight
<1>10. SentWasAccepted'
  BY DEF SentWasAccepted
<1> QED
  BY <1>5, <1>6, <1>7, <1>8, <1>9, <1>10

\* A pass that is rolled back takes at most one message more into aborts.
LEMMA AbortIInv ==
    ASSUME IInv, (\E n \in Notes : MarkLostRow(n)) \/ Crash
    PROVE  IInv'
<1> USE NotesAssumption, OwnersAssumption, BoundsAssumption DEF IInv, TypeOK
<1>1. pc \in InPass /\ Abort
  BY DEF MarkLostRow, Crash, InPass
<1>2. aborts \in 0..MaxAborts
  BY <1>1 DEF PassOpen, InPass
<1> USE <1>1 DEF Abort, db, telegram
<1>3. TypeOK'
  BY <1>2
<1>4. ListedDeliverable' /\ MarkedDeliverable' /\ ResultTold'
  BY DEF ListedDeliverable, MarkedDeliverable, ResultTold, Locked
<1>5. PassOpen' /\ OwnersExist' /\ LateIsLast'
  BY DEF PassOpen, OwnersExist, LateIsLast, InPass
<1>6. MessagesAccounted'
  <2>1. \A n \in Notes : Counted(n) + InFlight(n) <= 1
    BY DEF Counted, InFlight, ListedDeliverable, IsCurrent
  <2>2. \A n \in Notes : Counted(n)' = 0 /\ InFlight(n)' = 0
    BY DEF Counted, InFlight
  <2>3. \A n \in Notes : Counted(n) \in Nat /\ InFlight(n) \in Nat
    BY DEF Counted, InFlight
  <2> QED
    BY <1>2, <2>1, <2>2, <2>3 DEF MessagesAccounted
<1>7. SentWasAccepted'
  BY DEF SentWasAccepted
<1> QED
  BY <1>3, <1>4, <1>5, <1>6, <1>7

LEMMA CommitIInv ==
    ASSUME IInv, Commit
    PROVE  IInv'
<1> USE NotesAssumption, OwnersAssumption, BoundsAssumption
    DEF IInv, TypeOK, Commit, telegram
<1>1. \A n \in Notes : Counted(n) \in {0, 1} /\ (Counted(n) = 1 => Locked(n))
  BY DEF Counted, Locked
<1>2. TypeOK'
  <2>1. \A n \in Notes : attempts[n] + Counted(n) \in 0..MaxAttempts
    BY <1>1 DEF MarkedDeliverable
  <2> QED
    BY <2>1 DEF InPass, Locked
<1>3. ListedDeliverable' /\ MarkedDeliverable' /\ ResultTold' /\ PassOpen'
  BY DEF ListedDeliverable, MarkedDeliverable, ResultTold, PassOpen, Locked, InPass
<1>4. OwnersExist'
  BY DEF OwnersExist, MarkedDeliverable, Unhandled, Receiver
<1>5. LateIsLast'
  BY DEF LateIsLast
<1>6. MessagesAccounted'
  <2>1. \A n \in Notes : InFlight(n) = 0 /\ InFlight(n)' = 0 /\ Counted(n)' = 0
    BY DEF InFlight, Counted
  <2> QED
    BY <1>1, <2>1 DEF MessagesAccounted
<1>7. SentWasAccepted'
  BY <1>1 DEF SentWasAccepted, MarkedDeliverable, Counted, Locked, Outcomes
<1> QED
  BY <1>2, <1>3, <1>4, <1>5, <1>6, <1>7

LEMMA RestartIInv ==
    ASSUME IInv, Restart
    PROVE  IInv'
<1> USE NotesAssumption, OwnersAssumption, BoundsAssumption
    DEF IInv, TypeOK, Restart, db, pass, telegram
<1>1. TypeOK' /\ ListedDeliverable' /\ MarkedDeliverable' /\ OwnersExist'
  BY DEF ListedDeliverable, MarkedDeliverable, OwnersExist, Locked
<1>2. ResultTold' /\ PassOpen' /\ LateIsLast'
  BY DEF ResultTold, PassOpen, LateIsLast, InPass
<1>3. MessagesAccounted' /\ SentWasAccepted'
  BY DEF MessagesAccounted, SentWasAccepted, Counted, InFlight
<1> QED
  BY <1>1, <1>2, <1>3

LEMMA StutterIInv ==
    ASSUME IInv, UNCHANGED vars
    PROVE  IInv'
BY DEF IInv, TypeOK, ListedDeliverable, MarkedDeliverable, ResultTold, PassOpen,
       OwnersExist, LateIsLast, MessagesAccounted, SentWasAccepted, Locked, Counted,
       InFlight, IsCurrent, vars, db, pass, telegram

\* The invariant holds in every reachable state.
THEOREM Invariance == Spec => []IInv
<1>1. Init => IInv
  BY InitIInv
<1>2. IInv /\ [Next]_vars => IInv'
  <2> SUFFICES ASSUME IInv, [Next]_vars PROVE IInv'
    OBVIOUS
  <2>1. CASE Loop
    BY <2>1, ListIInv, QuietIInv, SendIInv, MarkIInv, AbortIInv, CommitIInv
    DEF Loop, Handle
  <2>2. CASE Outside
    BY <2>2, QueueIInv, DeleteUserIInv, QuietIInv DEF Outside, DeleteUser
  <2>3. CASE Crash
    BY <2>3, AbortIInv
  <2>4. CASE Restart
    BY <2>4, RestartIInv
  <2>5. CASE UNCHANGED vars
    BY <2>5, StutterIInv
  <2> QED
    BY <2>1, <2>2, <2>3, <2>4, <2>5 DEF Next
<1> QED
  BY <1>1, <1>2, PTL DEF Spec

-----------------------------------------------------------------------------
(* What follows from it.                                                       *)

\* The variables have their types; in particular no notification is ever tried
\* more than MAX_ATTEMPTS times.
THEOREM TypeCorrectness == Spec => []TypeOK
BY Invariance, PTL DEF IInv

\* Telegram accepts no more messages for a notification than its attempts, those
\* of the open pass and the rolled-back passes account for.
THEOREM EveryMessageIsCounted == Spec => []MessagesAccounted
BY Invariance, PTL DEF IInv

\* A user gets the message of a notification MAX_ATTEMPTS times at most, and once
\* more for each pass that was rolled back.
MessagesWithinLimit == \A n \in Notes : accepted[n] <= MaxAttempts + aborts

\* Every reachable state keeps that limit.
THEOREM MessageLimit == Spec => []MessagesWithinLimit
<1>1. ASSUME IInv, NEW n \in Notes
      PROVE  accepted[n] <= MaxAttempts + aborts
  <2> USE <1>1, BoundsAssumption DEF IInv, TypeOK
  <2>1. accepted[n] <= attempts[n] + Counted(n) + InFlight(n) + aborts
    BY DEF MessagesAccounted
  <2>2. attempts[n] + Counted(n) + InFlight(n) <= MaxAttempts
    <3>1. CASE n \in batch
      BY <3>1 DEF ListedDeliverable, Counted, InFlight
    <3>2. CASE n \notin batch /\ Locked(n)
      BY <3>2 DEF MarkedDeliverable, Counted, InFlight, IsCurrent
    <3>3. CASE n \notin batch /\ ~Locked(n)
      BY <3>3 DEF Locked, Counted, InFlight, IsCurrent
    <3> QED
      BY <3>1, <3>2, <3>3
  <2>3. Counted(n) \in Nat /\ InFlight(n) \in Nat
    BY DEF Counted, InFlight
  <2> QED
    BY <2>1, <2>2, <2>3
<1>2. IInv => MessagesWithinLimit
  BY <1>1 DEF MessagesWithinLimit
<1> QED
  BY <1>2, Invariance, PTL

\* What is committed as sent was accepted, and nothing untried is settled.
THEOREM SentIsTrue == Spec => []SentWasAccepted
BY Invariance, PTL DEF IInv

\* Each user gets at most one message after being deleted.
THEOREM AtMostOneAfterDeletion == Spec => []OneMessageAfterDeletion
<1>1. IInv => OneMessageAfterDeletion
  <2> SUFFICES ASSUME IInv, NEW u \in Users
               PROVE  Cardinality({n \in late : Receiver(n) = u}) <= 1
    BY DEF OneMessageAfterDeletion
  <2> DEFINE S == {n \in late : Receiver(n) = u}
  <2>1. CASE S = {}
    BY <2>1, FS_EmptySet
  <2>2. CASE S # {}
    <3>1. PICK n \in S : TRUE
      BY <2>2
    <3>2. S = {n}
      BY <3>1 DEF IInv, LateIsLast
    <3> QED
      BY <3>2, FS_Singleton
  <2> QED
    BY <2>1, <2>2
<1> QED
  BY <1>1, Invariance, PTL

\* The user in the identity map is the one of a notification the pass has marked,
\* or of the one it is handling.
LoadedIsHandled ==
    /\ pc = "flush" => result # "none"
    /\ loaded # NoUser =>
           \/ \E n \in Notes : Locked(n) /\ Receiver(n) = loaded
           \/ /\ pc \in {"send", "flush"}
              /\ \E n \in batch : IsCurrent(n) /\ Receiver(n) = loaded

LEMMA NextLoadedIsHandled == IInv /\ LoadedIsHandled /\ [Next]_vars => LoadedIsHandled'
<1> SUFFICES ASSUME IInv, LoadedIsHandled, [Next]_vars PROVE LoadedIsHandled'
  OBVIOUS
<1> USE DEF LoadedIsHandled
<1>1. CASE ListDeliverable
  BY <1>1 DEF ListDeliverable, IInv, PassOpen, Locked, InPass
<1>2. ASSUME NEW n \in Notes, SkipDeletedTarget(n) PROVE LoadedIsHandled'
  BY <1>2 DEF SkipDeletedTarget, Locked
<1>3. ASSUME NEW n \in Notes, GetUser(n) PROVE LoadedIsHandled'
  BY <1>3 DEF GetUser, Locked, IsCurrent
<1>4. ASSUME NEW n \in Notes, SendMessage(n) PROVE LoadedIsHandled'
  BY <1>4 DEF SendMessage, Accept, Locked, IsCurrent
<1>5. ASSUME NEW n \in Notes, Mark(n) PROVE LoadedIsHandled'
  <2>1. /\ marks' = [marks EXCEPT ![n] = result] /\ result # "none"
        /\ loaded' = loaded /\ pc' = "next"
    BY <1>5 DEF Mark
  <2>2. \A m \in Notes : Locked(m) => Locked(m)'
    BY <2>1 DEF Locked, IInv, TypeOK
  <2>3. Locked(n)'
    BY <2>1 DEF Locked, IInv, TypeOK
  <2>4. \A m \in batch : IsCurrent(m) => m = n
    BY <1>5, CurrentUnique DEF Mark, IInv, TypeOK
  <2> QED
    BY <2>1, <2>2, <2>3, <2>4
<1>6. CASE Commit \/ Crash \/ \E n \in Notes : MarkLostRow(n)
  BY <1>6 DEF Commit, Crash, MarkLostRow, Abort
<1>7. CASE Outside \/ Restart \/ UNCHANGED vars
  BY <1>7 DEF Outside, Queue, DeleteUser, DeleteTarget, Restart, vars, pass, Locked, IsCurrent
<1> QED
  BY <1>1, <1>2, <1>3, <1>4, <1>5, <1>6, <1>7 DEF Next, Loop, Handle

\* When a notification is taken up, the user that the identity map would answer
\* for without a query has not been deleted.
CachedUserExists == pc = "next" => loaded \in users \cup {NoUser}

\* So the identity map never answers for a deleted user: the lock of the marked
\* notification holds the deletion back until the pass ends.
THEOREM CacheIsNotStale == Spec => []CachedUserExists
<1>1. Init => LoadedIsHandled
  BY DEF Init, LoadedIsHandled
<1>2. IInv /\ LoadedIsHandled => CachedUserExists
  BY DEF IInv, LoadedIsHandled, CachedUserExists, MarkedDeliverable, OwnersExist, Unhandled
<1> QED
  BY <1>1, <1>2, NextLoadedIsHandled, Invariance, PTL DEF Spec

\* No step sends a settled notification or changes how it was settled.
THEOREM SettledIsFinal == Spec => SettledStaysSettled
<1>1. ASSUME IInv, [Next]_vars, NEW n \in Notes, Settled(n)
      PROVE  accepted'[n] = accepted[n] /\ status'[n] \in {status[n], "gone"}
  <2> USE <1>1 DEF IInv, TypeOK
  <2>1. n \notin batch /\ ~Locked(n) /\ status[n] # "none"
    BY DEF Settled, ListedDeliverable, MarkedDeliverable, Unhandled
  <2>2. CASE Loop
    <3>1. CASE \E m \in Notes : Handle(m)
      <4>1. PICK m \in Notes : Handle(m)
        BY <3>1
      <4>2. m # n
        BY <2>1, <4>1 DEF Handle, SkipDeletedTarget, GetUser, SendMessage, Mark,
                          MarkLostRow, IsCurrent
      <4>3. status' = status
        BY <4>1 DEF Handle, SkipDeletedTarget, GetUser, SendMessage, Mark,
                    MarkLostRow, Abort, db
      <4>4. accepted'[n] = accepted[n]
        BY <4>1, <4>2 DEF Handle, SkipDeletedTarget, GetUser, SendMessage, Accept, Mark,
                    MarkLostRow, Abort, telegram
      <4> QED
        BY <4>3, <4>4
    <3>2. CASE ListDeliverable \/ Commit
      BY <2>1, <3>2 DEF ListDeliverable, Commit, db, telegram
    <3> QED
      BY <2>2, <3>1, <3>2 DEF Loop
  <2>3. CASE Outside
    BY <2>1, <2>3 DEF Outside, Queue, DeleteUser, DeleteTarget, telegram
  <2>4. CASE Crash \/ Restart \/ UNCHANGED vars
    BY <2>4 DEF Crash, Restart, Abort, vars, db, telegram
  <2> QED
    BY <2>2, <2>3, <2>4 DEF Next
<1>2. IInv /\ [Next]_vars =>
        [\A n \in Notes : Settled(n) =>
            /\ accepted'[n] = accepted[n]
            /\ status'[n] \in {status[n], "gone"}]_vars
  BY <1>1
<1> QED
  BY <1>2, Invariance, PTL DEF Spec, SettledStaysSettled

-----------------------------------------------------------------------------
(* A pass is short: the listing has at most Limit rows, and there are at most  *)
(* three awaits for each.                                                      *)

\* list_deliverable(limit=...) lists no more than its limit.
LEMMA ListedWithinLimit == Cardinality(Listed) \in Nat /\ Cardinality(Listed) <= Limit
<1>1. /\ \A S \in SUBSET Notes : IsFiniteSet(S) /\ Cardinality(S) \in Nat
      /\ Notes \subseteq Int
  <2>1. \A S \in SUBSET Notes : IsFiniteSet(S)
    BY NotesAssumption, FS_Subset
  <2>2. \A S \in SUBSET Notes : Cardinality(S) \in Nat
    BY <2>1, FS_CardinalityType
  <2> QED
    BY <2>1, <2>2, NotesAssumption
<1>2. Listed \subseteq Notes
  BY DEF Listed
<1>3. CASE Listed = {}
  BY <1>3, FS_EmptySet, BoundsAssumption
<1>4. CASE Listed # {}
  <2>1. PICK m \in Listed : \A n \in Listed : n <= m
    BY <1>1, <1>2, <1>4, ExtremeElements
  <2> DEFINE Earlier == {n \in Notes : Deliverable(n) /\ n < m}
  <2>2. Cardinality(Earlier) < Limit
    BY <2>1 DEF Listed
  <2>3. Listed \ {m} \subseteq Earlier
    <3> SUFFICES ASSUME NEW n \in Listed, n # m PROVE n \in Earlier
      OBVIOUS
    <3>1. n \in Notes /\ Deliverable(n)
      BY DEF Listed
    <3>2. n < m
      BY <1>1, <1>2, <2>1
    <3> QED
      BY <3>1, <3>2
  <2>4. /\ Earlier \in SUBSET Notes
        /\ Cardinality(Listed \ {m}) <= Cardinality(Earlier)
    BY <1>1, <2>3, FS_Subset
  <2>5. Cardinality(Listed \ {m}) = Cardinality(Listed) - 1
    BY <1>1, <1>2, <2>1, FS_RemoveElement
  <2> HIDE DEF Earlier
  <2>6. /\ Cardinality(Listed) \in Nat /\ Cardinality(Listed \ {m}) \in Nat
        /\ Cardinality(Earlier) \in Nat
    BY <1>1, <1>2, <2>4
  <2> QED
    BY <2>2, <2>4, <2>5, <2>6, BoundsAssumption
<1> QED
  BY <1>3, <1>4

\* The awaits a pass has before it: three for each row left, and the commit.
Work ==
    IF pc \notin InPass THEN 0
    ELSE 3 * Cardinality(batch)
         + (CASE pc = "next" -> 1 [] pc = "send" -> 0 [] pc = "flush" -> -1)

PassIsBounded == Cardinality(batch) <= Limit /\ Work \in 0..(3 * Limit + 1)

StepsLessenWork ==
    [][(pc \in InPass) => /\ Work' <= Work
                          /\ Loop \/ Crash => Work' < Work]_vars

\* The guards of the loop's actions.
LoopGoesOn ==
    \/ pc \in {"sleep", "stopped"}
    \/ pc = "next" /\ batch = {}
    \/ pc \in InPass /\ \E n \in batch : IsCurrent(n)

\* A pass that sends or marks has a notification to do it with.
PassStands ==
    /\ Cardinality(batch) <= Limit
    /\ pc \in {"send", "flush"} => batch # {}

LEMMA BatchIsFinite ==
    ASSUME TypeOK
    PROVE  /\ IsFiniteSet(batch) /\ Cardinality(batch) \in Nat
           /\ batch # {} => Cardinality(batch) # 0
           /\ \A n \in batch : Cardinality(batch \ {n}) = Cardinality(batch) - 1
<1>1. IsFiniteSet(batch)
  BY NotesAssumption, FS_Subset DEF TypeOK
<1> QED
  BY <1>1, FS_CardinalityType, FS_EmptySet, FS_RemoveElement

\* What the steps of the loop do to the batch.
LEMMA LoopSteps ==
    ASSUME TypeOK, Loop \/ Crash
    PROVE  \/ pc = "sleep" /\ pc' = "next" /\ batch' = Listed
           \/ pc \in InPass /\ pc' \notin InPass /\ batch' = {}
           \/ pc = "next" /\ pc' \in {"send", "flush"} /\ batch' = batch /\ batch # {}
           \/ pc = "send" /\ pc' = "flush" /\ batch' = batch /\ batch # {}
           \/ pc = "flush" /\ pc' = "next" /\ \E n \in batch : batch' = batch \ {n}
<1>1. CASE ListDeliverable
  BY <1>1 DEF ListDeliverable
<1>2. CASE Commit \/ Crash
  BY <1>2 DEF Commit, Crash, Abort, InPass
<1>3. ASSUME NEW n \in Notes, SkipDeletedTarget(n) \/ GetUser(n) \/ SendMessage(n)
      PROVE  /\ pc' \in {"send", "flush"} /\ batch' = batch /\ batch # {}
             /\ pc = "next" \/ (pc = "send" /\ pc' = "flush")
  BY <1>3 DEF SkipDeletedTarget, GetUser, SendMessage, IsCurrent
<1>4. ASSUME NEW n \in Notes, Mark(n)
      PROVE  pc = "flush" /\ pc' = "next" /\ n \in batch /\ batch' = batch \ {n}
  BY <1>4 DEF Mark, IsCurrent
<1>5. ASSUME NEW n \in Notes, MarkLostRow(n)
      PROVE  pc \in InPass /\ pc' \notin InPass /\ batch' = {}
  BY <1>5 DEF MarkLostRow, Abort, InPass
<1> QED
  BY <1>1, <1>2, <1>3, <1>4, <1>5 DEF Loop, Handle

\* The others leave the pass alone.
LEMMA OtherSteps ==
    ASSUME [Next]_vars, ~(Loop \/ Crash)
    PROVE  batch' = batch /\ (pc' = pc \/ (pc = "stopped" /\ pc' = "sleep"))
BY DEF Next, Outside, Queue, DeleteUser, DeleteTarget, Restart, vars, pass

LEMMA NextPassStands == IInv /\ PassStands /\ [Next]_vars => PassStands'
<1> SUFFICES ASSUME IInv, PassStands, [Next]_vars PROVE PassStands'
  OBVIOUS
<1>1. TypeOK /\ Limit \in Nat
  BY BoundsAssumption DEF IInv
<1>2. CASE ~(Loop \/ Crash)
  BY <1>2, OtherSteps DEF PassStands
<1>3. CASE pc' = "next" /\ batch' = Listed
  BY <1>3, ListedWithinLimit DEF PassStands
<1>4. CASE pc' \notin InPass /\ batch' = {}
  BY <1>1, <1>4, FS_EmptySet DEF PassStands, InPass
<1>5. CASE batch' = batch /\ batch # {}
  BY <1>5 DEF PassStands
<1>6. CASE pc' = "next" /\ \E n \in batch : batch' = batch \ {n}
  <2>1. Cardinality(batch') = Cardinality(batch) - 1 /\ Cardinality(batch) \in Nat
    BY <1>1, <1>6, BatchIsFinite
  <2> QED
    BY <1>1, <1>6, <2>1 DEF PassStands
<1> QED
  BY <1>1, <1>2, <1>3, <1>4, <1>5, <1>6, LoopSteps

\* No pass lists more than the limit, none takes more than three steps for a row
\* it has listed, and at each point of it the next step is there to take: only a
\* mark that finds no row, a crash or a shutdown stops the loop.
THEOREM PassEnds == Spec => []PassIsBounded /\ []LoopGoesOn /\ StepsLessenWork
<1>1. Init => PassStands
  BY FS_EmptySet, BoundsAssumption DEF Init, PassStands
<1>2. Spec => [](IInv /\ PassStands)
  BY <1>1, NextPassStands, Invariance, PTL DEF Spec
<1>3. ASSUME IInv, PassStands
      PROVE  PassIsBounded /\ LoopGoesOn
  <2>1. TypeOK /\ Limit \in Nat
    BY <1>3, BoundsAssumption DEF IInv
  <2>2. Cardinality(batch) \in Nat /\ (batch # {} => Cardinality(batch) # 0)
    BY <2>1, BatchIsFinite
  <2>3. PassIsBounded
    BY <1>3, <2>1, <2>2 DEF PassIsBounded, PassStands, Work, InPass
  <2>4. batch # {} => \E n \in batch : IsCurrent(n)
    <3>1. IsFiniteSet(batch) /\ batch \subseteq Int
      BY <2>1, BatchIsFinite, NotesAssumption DEF TypeOK
    <3> QED
      BY <3>1, ExtremeElements DEF IsCurrent
  <2> QED
    BY <1>3, <2>1, <2>3, <2>4 DEF LoopGoesOn, PassStands, TypeOK, InPass
<1>4. ASSUME IInv, PassStands, [Next]_vars, pc \in InPass
      PROVE  Work' <= Work /\ (Loop \/ Crash => Work' < Work)
  <2>1. /\ TypeOK /\ Cardinality(batch) \in Nat
        /\ batch # {} => Cardinality(batch) # 0
        /\ \A n \in batch : Cardinality(batch \ {n}) = Cardinality(batch) - 1
    BY <1>4, BatchIsFinite DEF IInv
  <2>2. Work \in Int
    BY <1>4, <2>1 DEF Work, InPass
  <2>3. CASE ~(Loop \/ Crash)
    <3>1. Work' = Work
      BY <1>4, <2>3, OtherSteps DEF Work, InPass
    <3> QED
      BY <2>2, <2>3, <3>1
  <2>4. CASE Loop \/ Crash
    <3>1. CASE pc' \notin InPass
      <4>1. Work' = 0 /\ Work >= 0
        BY <1>4, <2>1, <3>1 DEF Work, InPass, PassStands
      <4>2. Work # 0
        BY <1>4, <2>1, <3>1 DEF Work, InPass, PassStands
      <4> QED
        BY <2>2, <4>1, <4>2
    <3>2. CASE pc' \in InPass
      <4>1. \/ pc = "next" /\ pc' \in {"send", "flush"} /\ batch' = batch
            \/ pc = "send" /\ pc' = "flush" /\ batch' = batch
            \/ pc = "flush" /\ pc' = "next" /\ \E n \in batch : batch' = batch \ {n}
        BY <1>4, <2>1, <2>4, <3>2, LoopSteps DEF InPass
      <4>2. CASE batch' = batch
        BY <1>4, <2>1, <4>1, <4>2 DEF Work, InPass
      <4>3. CASE pc = "flush" /\ pc' = "next" /\ \E n \in batch : batch' = batch \ {n}
        <5>1. Cardinality(batch') = Cardinality(batch) - 1
          BY <2>1, <4>3
        <5> QED
          BY <2>1, <4>3, <5>1 DEF Work, InPass
      <4> QED
        BY <4>1, <4>2, <4>3
    <3> QED
      BY <2>4, <3>1, <3>2, <2>2
  <2> QED
    BY <2>3, <2>4
<1>5. IInv /\ PassStands /\ [Next]_vars =>
        [(pc \in InPass) => /\ Work' <= Work
                            /\ Loop \/ Crash => Work' < Work]_vars
  BY <1>4
<1> QED
  BY <1>2, <1>3, <1>5, PTL DEF Spec, StepsLessenWork
=============================================================================
