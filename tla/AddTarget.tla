------------------------------- MODULE AddTarget ------------------------------
(* Adding a tracked target: the two-message dialog of the bot                  *)
(* (apps/bot/handlers/system.py, apps/bot/target_api.py) and the transaction   *)
(* of the API behind it (apps/api/routes/internal.py).  aiogram handles every  *)
(* update in a task of its own, so calls of one user overlap; the API runs     *)
(* them READ COMMITTED against the unique keys of tracked_users and            *)
(* user_targets, and finishes a call its client has given up.                  *)
EXTENDS Naturals, FiniteSets

CONSTANTS
    Users,      \* Telegram users
    Groups,     \* registered competition groups
    Unknown,    \* a group id of an old button, which the database does not have
    Texts,      \* texts a user may send as applicant code
    Blank,
    Normal,     \* what normalize_uid makes of each text; Blank is a 422
    Calls,      \* messages handled by save_target
    Nothing

ASSUME TargetAssumption ==
    /\ Unknown \notin Groups
    /\ Nothing \notin Groups \cup {Unknown, "added", "duplicate", "retry"}
    /\ DOMAIN Normal = Texts

VARIABLES
    rows,     \* committed tracked users and user targets
    dialog,   \* the group each user has chosen in AddTarget.awaiting_uid
    asked,    \* the request of each call
    at,       \* where each call is
    made,     \* rows each call has inserted and not rolled back
    answer,   \* response of the API
    told,     \* what the bot told the user
    gaveup,   \* calls whose client timed out or went down
    broken    \* calls that met a failure of the database; only properties ask

vars == <<rows, dialog, asked, at, made, answer, told, gaveup, broken>>

User(u) == <<"tracked_users", u>>
Target(q) == <<"user_targets", q.user, q.group, Normal[q.text]>>

InSession == {"user", "adduser", "target", "commit"}
Requests == [user : Users, group : Groups \cup {Unknown}, text : Texts]
Rows == UNION {{User(q.user), Target(q)} :
                   q \in {p \in Requests : p.group \in Groups /\ Normal[p.text] # Blank}}

\* The unique key is held by another call that has not ended.
Held(c, row) == \E d \in Calls \ {c} : at[d] \in InSession /\ row \in made[d]

Init ==
    /\ rows = {}
    /\ dialog = [u \in Users |-> Nothing]
    /\ asked = [c \in Calls |-> Nothing]
    /\ at = [c \in Calls |-> "free"]
    /\ made = [c \in Calls |-> {}]
    /\ answer = [c \in Calls |-> Nothing]
    /\ told = [c \in Calls |-> Nothing]
    /\ gaveup = {} /\ broken = {}
-----------------------------------------------------------------------------
\* The bot: a group button, at any time, from any list still in the chat.
ChooseCompetitionGroup(u, g) ==
    /\ dialog[u] # g
    /\ dialog' = [dialog EXCEPT ![u] = g]
    /\ UNCHANGED <<rows, asked, at, made, answer, told, gaveup, broken>>

SaveTarget(c, u, x) ==
    /\ at[c] = "free"
    /\ dialog[u] # Nothing
    /\ asked' = [asked EXCEPT ![c] = [user |-> u, group |-> dialog[u], text |-> x]]
    /\ at' = [at EXCEPT ![c] = "check"]
    /\ UNCHANGED <<rows, dialog, made, answer, told, gaveup, broken>>

\* created and already tracked end the dialog; after any other answer the user
\* may send the code again for the same group.
Reply(c) ==
    /\ at[c] = "answered"
    /\ c \notin gaveup
    /\ at' = [at EXCEPT ![c] = "done"]
    /\ told' = [told EXCEPT ![c] = CASE answer[c] = 201 -> "added"
                                     [] answer[c] = 409 -> "duplicate"
                                     [] OTHER -> "retry"]
    /\ dialog' = [dialog EXCEPT ![asked[c].user] = IF answer[c] \in {201, 409}
                                                   THEN Nothing ELSE @]
    /\ UNCHANGED <<rows, asked, made, answer, gaveup, broken>>

\* httpx raises after timeout=10: not a TargetAPIError, so the handler fails
\* without a word to the user and the API is not told.
GiveUp(c) ==
    /\ at[c] \in {"check", "answered"} \cup InSession
    /\ c \notin gaveup
    /\ gaveup' = gaveup \cup {c}
    /\ UNCHANGED <<rows, dialog, asked, at, made, answer, told, broken>>

\* The bot goes down and comes back: aiogram's MemoryStorage is empty, and the
\* API finishes the requests whose client is gone.
Restart ==
    /\ dialog' = [u \in Users |-> Nothing]
    /\ gaveup' = gaveup \cup {c \in Calls : at[c] \notin {"free", "done"}}
    /\ UNCHANGED <<rows, asked, at, made, answer, told, broken>>
-----------------------------------------------------------------------------
Answer(c, code) ==
    /\ at' = [at EXCEPT ![c] = "answered"]
    /\ answer' = [answer EXCEPT ![c] = code]
    /\ UNCHANGED <<dialog, asked, told, gaveup, broken>>

Go(c, next) ==
    /\ at' = [at EXCEPT ![c] = next]
    /\ UNCHANGED <<rows, dialog, asked, answer, told, gaveup, broken>>

\* Mutant: the competition group is not looked up.
CheckRequestAnyGroup(c) ==
    /\ at[c] = "check"
    /\ UNCHANGED made
    /\ \/ Normal[asked[c].text] = Blank /\ Answer(c, 422) /\ UNCHANGED rows
       \/ Normal[asked[c].text] # Blank /\ Go(c, "user")

\* normalize_uid and session.get(CompetitionGroup)
CheckRequest(c) ==
    /\ at[c] = "check"
    /\ UNCHANGED made
    /\ \/ Normal[asked[c].text] = Blank /\ Answer(c, 422) /\ UNCHANGED rows
       \/ /\ Normal[asked[c].text] # Blank
          /\ asked[c].group \notin Groups
          /\ Answer(c, 404)
          /\ UNCHANGED rows
       \/ /\ Normal[asked[c].text] # Blank
          /\ asked[c].group \in Groups
          /\ Go(c, "user")

GetByTelegramId(c) ==
    /\ at[c] = "user"
    /\ Go(c, IF User(asked[c].user) \in rows THEN "target" ELSE "adduser")
    /\ UNCHANGED made

\* Mutant: unique keys are checked against committed rows only.
InsertNoWait(c, row, next) ==
    /\ row \notin rows
    /\ made' = [made EXCEPT ![c] = @ \cup {row}]
    /\ Go(c, next)

\* The flush of an INSERT waits while another call holds the key.
Insert(c, row, next) ==
    /\ ~Held(c, row)
    /\ row \notin rows
    /\ made' = [made EXCEPT ![c] = @ \cup {row}]
    /\ Go(c, next)

\* Mutant: IntegrityError is taken for success.
InsertQuietly(c, row) ==
    /\ row \in rows
    /\ made' = [made EXCEPT ![c] = {}]
    /\ Answer(c, 201)
    /\ UNCHANGED rows

\* Mutant: IntegrityError starts the handler again in the same request.
InsertAgain(c, row) ==
    /\ row \in rows
    /\ made' = [made EXCEPT ![c] = {}]
    /\ Go(c, "user")

\* It raises IntegrityError if that call has committed: the try statement is
\* around session.commit() only, so the exception leaves the handler.
InsertRaises(c, row) ==
    /\ row \in rows
    /\ made' = [made EXCEPT ![c] = {}]
    /\ Answer(c, 500)
    /\ UNCHANGED rows

\* Mutant: the user is committed before the target is added.
AddUserFirst(c) ==
    /\ at[c] = "adduser"
    /\ \/ /\ ~Held(c, User(asked[c].user))
          /\ rows' = rows \cup {User(asked[c].user)}
          /\ made' = [made EXCEPT ![c] = @ \cup {User(asked[c].user)}]
          /\ at' = [at EXCEPT ![c] = "target"]
          /\ UNCHANGED <<dialog, asked, answer, told, gaveup, broken>>
       \/ InsertRaises(c, User(asked[c].user))

\* UserRepository.add
AddUser(c) ==
    /\ at[c] = "adduser"
    /\ \/ Insert(c, User(asked[c].user), "target")
       \/ InsertRaises(c, User(asked[c].user))

\* UserTargetRepository.add
AddUserTarget(c) ==
    /\ at[c] = "target"
    /\ \/ Insert(c, Target(asked[c]), "commit")
       \/ InsertRaises(c, Target(asked[c]))

Commit(c) ==
    /\ at[c] = "commit"
    /\ rows' = rows \cup made[c]
    /\ Answer(c, 201)
    /\ UNCHANGED made

\* The database or the connection fails: the statement has no effect and the
\* transaction is rolled back, or a COMMIT takes effect and its acknowledgement is
\* lost.  Either way the exception leaves the handler.
Fail(c) ==
    /\ at[c] \in InSession \/ (at[c] = "check" /\ Normal[asked[c].text] # Blank)
    /\ \/ made' = [made EXCEPT ![c] = {}] /\ UNCHANGED rows
       \/ at[c] = "commit" /\ rows' = rows \cup made[c] /\ UNCHANGED made
    /\ at' = [at EXCEPT ![c] = "answered"]
    /\ answer' = [answer EXCEPT ![c] = 500]
    /\ broken' = broken \cup {c}
    /\ UNCHANGED <<dialog, asked, told, gaveup>>

Call(c) == \/ CheckRequest(c) \/ GetByTelegramId(c) \/ AddUser(c)
           \/ AddUserTarget(c) \/ Commit(c)

Next ==
    \/ \E u \in Users, g \in Groups \cup {Unknown} : ChooseCompetitionGroup(u, g)
    \/ \E c \in Calls, u \in Users, x \in Texts : SaveTarget(c, u, x)
    \/ \E c \in Calls : Call(c) \/ Reply(c) \/ GiveUp(c) \/ Fail(c)
    \/ Restart

Spec == Init /\ [][Next]_vars

\* The API's event loop resumes every request, and PostgreSQL wakes an INSERT
\* whose key is free.  Nothing is assumed of the bot and its users.
FairSpec == Spec /\ \A c \in Calls : WF_vars(Call(c))
-----------------------------------------------------------------------------
\* The values the variables can take: every row is of a registered group and a
\* code that is not blank.
TypeOK ==
    /\ rows \subseteq Rows
    /\ dialog \in [Users -> Groups \cup {Unknown, Nothing}]
    /\ asked \in [Calls -> Requests \cup {Nothing}]
    /\ at \in [Calls -> {"free", "check", "answered", "done"} \cup InSession]
    /\ made \in [Calls -> SUBSET Rows]
    /\ answer \in [Calls -> {201, 404, 422, 500, Nothing}]
    /\ told \in [Calls -> {"added", "duplicate", "retry", Nothing}]
    /\ gaveup \subseteq Calls /\ broken \subseteq Calls

\* A user is registered together with the first target or not at all: whatever
\* calls collide or fail, every committed user has a target, and every target
\* its user (one commit at the end of create_user_target).
UsersTrackSomething ==
    \A u \in Users :
        User(u) \in rows <=> \E q \in Requests : q.user = u /\ Target(q) \in rows

\* No two calls insert the same user or target, however they interleave: the
\* lookup before the insert is not what prevents it.
EachRowOnce ==
    \A c, d \in Calls : c # d => made[c] \cap made[d] = {}

\* What the bot says is true: after "added" the target of the group and code the
\* call was made for is in the database, put there by this very call, and after
\* "retry" the call has left nothing behind - or, if the acknowledgement of its
\* commit was lost, all of it: the target, and the user with it.
RepliesHonest ==
    \A c \in Calls :
        /\ told[c] = "added" => Target(asked[c]) \in made[c] \cap rows
        /\ told[c] = "retry" =>
               \/ made[c] \cap rows = {}
               \/ c \in broken /\ {User(asked[c].user), Target(asked[c])} \subseteq rows

\* Every request ends with an answer of the API, also when requests wait for
\* rows of each other and their client is gone: create_user_target inserts the
\* user before the target, so no two of them wait in a circle.
RequestsEnd == \A c \in Calls : asked[c] # Nothing ~> answer[c] # Nothing

\* A duplicate is "mapped to specific error": asking for a target the user
\* already tracks is answered 409 (tests/unit/bot/test_target_api.py:42), unless
\* the database fails.
DuplicateIsConflict ==
    \A c \in Calls \ broken :
        asked[c] # Nothing /\ Target(asked[c]) \in rows => answer[c] # 500
=============================================================================
