------------------------- MODULE NotificationDelivery -------------------------
(* The bot's delivery loop (apps/bot/delivery.py) over the notifications table *)
(* (packages/persistence/repositories.py, packages/notifications/service.py).  *)
(* One pass reads the deliverable rows, sends them to Telegram one by one and  *)
(* marks each, all in one transaction: what Telegram has accepted cannot be    *)
(* rolled back, the marks can.  Meanwhile notifications are queued and users   *)
(* and targets are deleted.                                                    *)
EXTENDS Naturals, FiniteSets

CONSTANTS
    Notes,        \* ids of notifications; a pass handles them in this order
    Targets,      \* user targets
    Users,        \* tracked users
    TargetOf,     \* the target each notification is queued for
    OwnerOf,      \* the user who tracks each target
    NoUser,
    Limit,        \* list_deliverable(limit=50)
    MaxAttempts,  \* MAX_ATTEMPTS = 3
    MaxAborts     \* bound on the passes that crash

ASSUME NotesAssumption == Notes \subseteq Nat /\ IsFiniteSet(Notes)
ASSUME OwnersAssumption == /\ TargetOf \in [Notes -> Targets]
                           /\ OwnerOf \in [Targets -> Users]
                           /\ NoUser \notin Users
ASSUME BoundsAssumption == /\ Limit \in Nat \ {0}
                           /\ MaxAttempts \in Nat \ {0}
                           /\ MaxAborts \in Nat

VARIABLES
    users,      \* committed tracked users
    targets,    \* committed user targets
    status,     \* committed delivery_status: "none" before the row is queued,
                \* "gone" after it is deleted
    attempts,   \* committed attempt_count
    pc,         \* where the loop is
    batch,      \* the listed notifications this pass has still to handle
    linked,     \* the listed notifications read with a user_target_id
    loaded,     \* the user the session's identity map holds
    result,     \* how the current notification is about to be marked
    marks,      \* the marks this pass has flushed and not committed
    accepted,   \* messages Telegram has accepted for each notification
    late,       \* notifications accepted when their user was deleted already
    aborts      \* passes that were rolled back

db == <<users, targets, status, attempts>>
pass == <<batch, linked, loaded, result, marks>>
telegram == <<accepted, late>>
vars == <<db, pc, pass, telegram, aborts>>

Receiver(n) == OwnerOf[TargetOf[n]]
InPass == {"next", "send", "flush"}
Outcomes == {"sent", "failed", "skipped"}
Unhandled == {"pending", "failed"}

\* Mutant: one attempt too many.
DeliverableOnceMore(n) == status[n] \in Unhandled /\ attempts[n] <= MaxAttempts

\* Mutant: only the attempts are looked at.
DeliverableByAttempts(n) ==
    status[n] \in Outcomes \cup Unhandled /\ attempts[n] < MaxAttempts

\* delivery_status IN ('pending', 'failed') AND attempt_count < max_attempts
Deliverable(n) == status[n] \in Unhandled /\ attempts[n] < MaxAttempts

\* ORDER BY id LIMIT
Listed == {n \in Notes : /\ Deliverable(n)
                         /\ Cardinality({m \in Notes : Deliverable(m) /\ m < n}) < Limit}

IsCurrent(n) == n \in batch /\ \A m \in batch : n <= m

\* An UPDATE in the pass's transaction locks its row until the pass ends.
Locked(n) == marks[n] # "none"

Init ==
    /\ users = Users
    /\ targets = Targets
    /\ status = [n \in Notes |-> "none"]
    /\ attempts = [n \in Notes |-> 0]
    /\ pc = "sleep"
    /\ batch = {} /\ linked = {} /\ loaded = NoUser /\ result = "none"
    /\ marks = [n \in Notes |-> "none"]
    /\ accepted = [n \in Notes |-> 0] /\ late = {}
    /\ aborts = 0
-----------------------------------------------------------------------------
\* queue(): a delivery key that has a row already is left as it is.
Queue(n) ==
    /\ status[n] = "none"
    /\ TargetOf[n] \in targets
    /\ status' = [status EXCEPT ![n] = "pending"]
    /\ UNCHANGED <<users, targets, attempts, pc, pass, telegram, aborts>>

\* UserRepository.delete: the user's targets and notifications go with the user,
\* once no pass has them locked.
DeleteUser(u) ==
    /\ u \in users
    /\ \A n \in Notes : Receiver(n) = u => ~Locked(n)
    /\ users' = users \ {u}
    /\ targets' = {t \in targets : OwnerOf[t] # u}
    /\ status' = [n \in Notes |-> IF Receiver(n) = u /\ status[n] # "none"
                                  THEN "gone" ELSE status[n]]
    /\ UNCHANGED <<attempts, pc, pass, telegram, aborts>>

\* ON DELETE SET NULL keeps the notifications of a deleted target.
DeleteTarget(t) ==
    /\ t \in targets
    /\ \A n \in Notes : TargetOf[n] = t => ~Locked(n)
    /\ targets' = targets \ {t}
    /\ UNCHANGED <<users, status, attempts, pc, pass, telegram, aborts>>
-----------------------------------------------------------------------------
ListDeliverable ==
    /\ pc = "sleep"
    /\ batch' = Listed
    /\ linked' = {n \in Listed : TargetOf[n] \in targets}
    /\ pc' = "next"
    /\ UNCHANGED <<db, loaded, result, marks, telegram, aborts>>

SkipDeletedTarget(n) ==
    /\ pc = "next" /\ IsCurrent(n)
    /\ n \notin linked
    /\ result' = "skipped"
    /\ pc' = "flush"
    /\ UNCHANGED <<db, batch, linked, loaded, marks, telegram, aborts>>

\* session.get: the identity map keeps the user of the previous notification
\* alive and answers for it without a query.  That notification is marked, hence
\* locked, so its user is still there.
GetUser(n) ==
    /\ pc = "next" /\ IsCurrent(n)
    /\ n \in linked
    /\ \/ /\ Receiver(n) \in users \cup {loaded}
          /\ loaded' = Receiver(n)
          /\ pc' = "send"
          /\ UNCHANGED result
       \/ /\ Receiver(n) \notin users \cup {loaded}
          /\ loaded' = NoUser
          /\ result' = "skipped"
          /\ pc' = "flush"
    /\ UNCHANGED <<db, batch, linked, marks, telegram, aborts>>

Accept(n, took) ==
    /\ accepted' = [accepted EXCEPT ![n] = @ + took]
    /\ late' = IF took = 1 /\ Receiver(n) \notin users THEN late \cup {n} ELSE late

\* Mutant: an exception of send_message is swallowed.
SendMessageUnchecked(n) ==
    /\ pc = "send" /\ IsCurrent(n)
    /\ \E took \in {0, 1} : Accept(n, took)
    /\ result' = "sent"
    /\ pc' = "flush"
    /\ UNCHANGED <<db, batch, linked, loaded, marks, aborts>>

\* Telegram may accept the message, refuse it, or accept it and have its answer
\* lost: the last two raise in send_message.
SendMessage(n) ==
    /\ pc = "send" /\ IsCurrent(n)
    /\ \E took \in {0, 1}, answer \in {"sent", "failed"} :
          /\ answer = "sent" => took = 1
          /\ Accept(n, took)
          /\ result' = answer
    /\ pc' = "flush"
    /\ UNCHANGED <<db, batch, linked, loaded, marks, aborts>>

\* Mutant: nobody notices that the row is gone.
MarkAlways(n) ==
    /\ pc = "flush" /\ IsCurrent(n)
    /\ marks' = [marks EXCEPT ![n] = IF status[n] = "gone" THEN "none" ELSE result]
    /\ batch' = batch \ {n}
    /\ pc' = "next"
    /\ result' = "none"
    /\ UNCHANGED <<db, linked, loaded, telegram, aborts>>

\* mark_sent, mark_failed, mark_skipped: the flush finds the row.
Mark(n) ==
    /\ pc = "flush" /\ IsCurrent(n)
    /\ status[n] # "gone"
    /\ marks' = [marks EXCEPT ![n] = result]
    /\ batch' = batch \ {n}
    /\ pc' = "next"
    /\ result' = "none"
    /\ UNCHANGED <<db, linked, loaded, telegram, aborts>>

\* The transaction rolls back and nothing runs the loop until the bot is started
\* again: the task of deliver_pending_notifications is not watched.
Abort ==
    /\ pc' = "stopped"
    /\ batch' = {} /\ linked' = {} /\ loaded' = NoUser /\ result' = "none"
    /\ marks' = [n \in Notes |-> "none"]
    /\ aborts' = aborts + 1
    /\ UNCHANGED <<db, telegram>>

\* The flush updates no row: StaleDataError leaves _deliver_once.
MarkLostRow(n) ==
    /\ pc = "flush" /\ IsCurrent(n)
    /\ status[n] = "gone"
    /\ Abort

\* Shutdown, crash, or an error of the database in a pass.
Crash ==
    /\ pc \in InPass
    /\ aborts < MaxAborts
    /\ Abort

\* Mutant: mark_failed does not count.
CountedIfSent(n) == IF marks[n] = "sent" THEN 1 ELSE 0

\* attempt_count += 1 for a notification that was sent or failed
Counted(n) == IF marks[n] \in {"sent", "failed"} THEN 1 ELSE 0

Commit ==
    /\ pc = "next" /\ batch = {}
    /\ status' = [n \in Notes |-> IF Locked(n) THEN marks[n] ELSE status[n]]
    /\ attempts' = [n \in Notes |-> attempts[n] + Counted(n)]
    /\ pc' = "sleep"
    /\ linked' = {} /\ loaded' = NoUser
    /\ marks' = [n \in Notes |-> "none"]
    /\ UNCHANGED <<users, targets, batch, result, telegram, aborts>>

\* The bot is started again by hand: docker-compose.yml has no restart policy.
Restart ==
    /\ pc = "stopped"
    /\ aborts <= MaxAborts
    /\ pc' = "sleep"
    /\ UNCHANGED <<db, pass, telegram, aborts>>
-----------------------------------------------------------------------------
Handle(n) == \/ SkipDeletedTarget(n) \/ GetUser(n) \/ SendMessage(n)
             \/ Mark(n) \/ MarkLostRow(n)

Loop == ListDeliverable \/ (\E n \in Notes : Handle(n)) \/ Commit

Outside == \/ \E n \in Notes : Queue(n)
           \/ \E u \in Users : DeleteUser(u)
           \/ \E t \in Targets : DeleteTarget(t)

Next == Loop \/ Outside \/ Crash \/ Restart

Spec == Init /\ [][Next]_vars

\* The event loop resumes a loop that sleeps or waits for an answer; aiogram
\* bounds a request by its timeout.  Nobody has to restart the bot.
FairSpec == Spec /\ WF_vars(Loop)
-----------------------------------------------------------------------------
\* The values the variables can take.
TypeOK ==
    /\ users \subseteq Users
    /\ targets \subseteq Targets
    /\ status \in [Notes -> {"none", "pending", "gone"} \cup Outcomes]
    /\ attempts \in [Notes -> 0 .. MaxAttempts]
    /\ pc \in {"sleep", "stopped"} \cup InPass
    /\ batch \subseteq Notes /\ linked \subseteq Notes
    /\ loaded \in Users \cup {NoUser}
    /\ result \in {"none"} \cup Outcomes
    /\ marks \in [Notes -> {"none"} \cup Outcomes]
    /\ accepted \in [Notes -> Nat]
    /\ late \subseteq Notes
    /\ aborts \in 0 .. MaxAborts + 1

\* The message the pass has sent for the current notification and not marked.
InFlight(n) == IF pc = "flush" /\ IsCurrent(n) /\ result \in {"sent", "failed"}
               THEN 1 ELSE 0

\* Every message a user gets is counted: Telegram accepts no more messages for a
\* notification than its attempt_count, the attempts of the pass under way and
\* the passes that were rolled back.  So a user gets a message more than
\* MAX_ATTEMPTS times only if a pass was rolled back after the send.
MessagesAccounted ==
    \A n \in Notes : accepted[n] <= attempts[n] + Counted(n) + InFlight(n) + aborts

\* A notification is committed as sent only if Telegram accepted its message,
\* and one that was never tried is never marked as sent or failed.
SentWasAccepted ==
    \A n \in Notes : /\ status[n] = "sent" => accepted[n] >= 1
                     /\ status[n] \in {"sent", "failed"} => attempts[n] >= 1

\* A user may be deleted after the pass has looked the user up and before the
\* message goes out.  That happens to a user once at most: the mark of the message
\* finds no row and ends the pass before a second one.
OneMessageAfterDeletion ==
    \A u \in Users : Cardinality({n \in late : Receiver(n) = u}) <= 1

Settled(n) == \/ status[n] \in {"sent", "skipped"}
              \/ status[n] = "failed" /\ attempts[n] = MaxAttempts

\* A notification that is settled - sent, skipped, or failed MAX_ATTEMPTS times -
\* is never sent again and never changes, except that it goes with its user.
SettledStaysSettled ==
    [][\A n \in Notes :
         Settled(n) =>
             /\ accepted'[n] = accepted[n]
             /\ status'[n] \in {status[n], "gone"}]_vars

\* Every queued notification is settled, unless the loop stops: a failing one is
\* given up after MAX_ATTEMPTS passes and does not keep the ones behind it, past
\* the LIMIT of the listing, from being sent.
PendingIsSettled ==
    \A n \in Notes :
        status[n] = "pending" ~> \/ Settled(n)
                                \/ status[n] = "gone"
                                \/ pc = "stopped"
=============================================================================
