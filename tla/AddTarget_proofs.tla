---------------------------- MODULE AddTarget_proofs ----------------------------
(* Proofs about AddTarget, for any users, groups, texts and calls.             *)
EXTENDS AddTarget, TLAPS

-----------------------------------------------------------------------------
(* The inductive invariant.                                                    *)

\* A call past its check is for a registered group and a code that is not blank.
CheckedRequest ==
    \A c \in Calls :
        /\ at[c] # "free" => asked[c] \in Requests
        /\ at[c] \in InSession =>
               asked[c].group \in Groups /\ Normal[asked[c].text] # Blank

\* What a transaction holds: nothing before its first insert, its user, and at
\* the end its target; nothing of it is committed yet.
TransactionHolds ==
    \A c \in Calls :
        /\ at[c] \in {"free", "check", "user", "adduser"} => made[c] = {}
        /\ at[c] = "target" =>
               /\ made[c] \subseteq {User(asked[c].user)}
               /\ User(asked[c].user) \in rows \cup made[c]
        /\ at[c] = "commit" =>
               /\ made[c] \subseteq {User(asked[c].user), Target(asked[c])}
               /\ User(asked[c].user) \in rows \cup made[c]
               /\ Target(asked[c]) \in made[c]
        /\ at[c] \in InSession => made[c] \cap rows = {}

\* What a call has committed: its target, and the user it belongs to.
Committed(c) ==
    /\ Target(asked[c]) \in made[c] /\ made[c] \subseteq rows
    /\ User(asked[c].user) \in rows

\* 201 is the answer to a committed target, any other to nothing, unless the
\* acknowledgement of the commit was lost.
AnswerTrue ==
    \A c \in Calls :
        /\ at[c] \in {"answered", "done"} =>
               \/ answer[c] = 201 /\ Committed(c)
               \/ answer[c] # 201 /\ made[c] = {}
               \/ answer[c] # 201 /\ c \in broken /\ Committed(c)
        /\ told[c] # Nothing => at[c] = "done"
        /\ told[c] = "added" => answer[c] = 201
        /\ told[c] = "retry" => answer[c] # 201

IInv ==
    /\ TypeOK /\ CheckedRequest /\ TransactionHolds /\ AnswerTrue
    /\ UsersTrackSomething /\ EachRowOnce

-----------------------------------------------------------------------------
(* Rows are told apart by their table and key.                                 *)

LEMMA RowsDiffer ==
    ASSUME NEW u, NEW q
    PROVE  User(u) # Target(q)
BY DEF User, Target

LEMMA UserKey ==
    ASSUME NEW u, NEW v, User(u) = User(v)
    PROVE  u = v
BY DEF User

LEMMA TargetKey ==
    ASSUME NEW p, NEW q, Target(p) = Target(q)
    PROVE  p.user = q.user
BY DEF Target

LEMMA RowsOfRequest ==
    ASSUME NEW q \in Requests, q.group \in Groups, Normal[q.text] # Blank
    PROVE  User(q.user) \in Rows /\ Target(q) \in Rows
BY DEF Rows

LEMMA InitIInv == Init => IInv
<1> SUFFICES ASSUME Init PROVE IInv
  OBVIOUS
<1> USE TargetAssumption DEF Init
<1>1. TypeOK
  BY DEF TypeOK
<1>2. CheckedRequest /\ TransactionHolds /\ AnswerTrue
  BY DEF CheckedRequest, TransactionHolds, AnswerTrue, InSession
<1>3. UsersTrackSomething /\ EachRowOnce
  BY DEF UsersTrackSomething, EachRowOnce
<1> QED
  BY <1>1, <1>2, <1>3 DEF IInv

\* The steps of the bot.
LEMMA BotIInv ==
    ASSUME IInv,
           \/ \E u \in Users, g \in Groups \cup {Unknown} : ChooseCompetitionGroup(u, g)
           \/ \E c \in Calls : GiveUp(c)
           \/ Restart
           \/ UNCHANGED vars
    PROVE  IInv'
<1> USE TargetAssumption DEF IInv
<1>1. UNCHANGED <<rows, asked, at, made, answer, told, broken>>
  BY DEF ChooseCompetitionGroup, GiveUp, Restart, vars
<1>2. dialog' \in [Users -> Groups \cup {Unknown, Nothing}] /\ gaveup' \subseteq Calls
  BY DEF ChooseCompetitionGroup, GiveUp, Restart, vars, TypeOK
<1>3. TypeOK'
  BY <1>1, <1>2 DEF TypeOK
<1>4. CheckedRequest' /\ TransactionHolds' /\ AnswerTrue'
  BY <1>1 DEF CheckedRequest, TransactionHolds, AnswerTrue, Committed
<1>5. UsersTrackSomething' /\ EachRowOnce'
  BY <1>1 DEF UsersTrackSomething, EachRowOnce
<1> QED
  BY <1>3, <1>4, <1>5

LEMMA SaveTargetIInv ==
    ASSUME IInv, NEW c \in Calls, NEW u \in Users, NEW x \in Texts, SaveTarget(c, u, x)
    PROVE  IInv'
<1> USE TargetAssumption DEF IInv, SaveTarget
<1>1. asked'[c] \in Requests /\ at'[c] = "check"
      /\ \A d \in Calls \ {c} : at'[d] = at[d] /\ asked'[d] = asked[d]
  BY DEF TypeOK, Requests
<1>2. TypeOK'
  BY <1>1 DEF TypeOK
<1>3. CheckedRequest'
  BY <1>1 DEF CheckedRequest, InSession
<1>4. TransactionHolds' /\ AnswerTrue'
  BY <1>1 DEF TransactionHolds, AnswerTrue, Committed, InSession
<1>5. UsersTrackSomething' /\ EachRowOnce'
  BY DEF UsersTrackSomething, EachRowOnce
<1> QED
  BY <1>2, <1>3, <1>4, <1>5

LEMMA ReplyIInv ==
    ASSUME IInv, NEW c \in Calls, Reply(c)
    PROVE  IInv'
<1> USE TargetAssumption DEF IInv, Reply
<1>1. /\ at[c] = "answered" /\ at'[c] = "done"
      /\ \A d \in Calls \ {c} : at'[d] = at[d] /\ told'[d] = told[d]
      /\ told'[c] = (CASE answer[c] = 201 -> "added"
                       [] answer[c] = 409 -> "duplicate"
                       [] OTHER -> "retry")
  BY DEF TypeOK
<1>2. /\ told'[c] \in {"added", "duplicate", "retry"}
      /\ told'[c] = "added" => answer[c] = 201
      /\ told'[c] = "retry" => answer[c] # 201
  BY <1>1
<1>3. TypeOK'
  <2>1. asked[c].user \in Users
    BY <1>1 DEF CheckedRequest, Requests
  <2>2. dialog' \in [Users -> Groups \cup {Unknown, Nothing}]
    BY <2>1 DEF TypeOK
  <2>3. told' \in [Calls -> {"added", "duplicate", "retry", Nothing}]
    BY <1>2 DEF TypeOK
  <2>4. at' \in [Calls -> {"free", "check", "answered", "done"} \cup InSession]
    BY DEF TypeOK
  <2> QED
    BY <2>2, <2>3, <2>4 DEF TypeOK
<1>4. CheckedRequest' /\ TransactionHolds'
  BY <1>1 DEF CheckedRequest, TransactionHolds, InSession
<1>5. AnswerTrue'
  BY <1>1, <1>2 DEF AnswerTrue, Committed
<1>6. UsersTrackSomething' /\ EachRowOnce'
  BY DEF UsersTrackSomething, EachRowOnce
<1> QED
  BY <1>3, <1>4, <1>5, <1>6

\* A call that is refused or fails, and is rolled back, leaves nothing behind.
LEMMA RefusedIInv ==
    ASSUME IInv, NEW c \in Calls, NEW code \in {404, 422, 500},
           at[c] \in InSession \cup {"check"},
           at' = [at EXCEPT ![c] = "answered"], answer' = [answer EXCEPT ![c] = code],
           UNCHANGED <<rows, dialog, asked, told, gaveup>>,
           broken' \in {broken, broken \cup {c}},
           made' = [made EXCEPT ![c] = {}]
    PROVE  IInv'
<1> USE TargetAssumption DEF IInv
<1>1. /\ at'[c] = "answered" /\ answer'[c] = code /\ made'[c] = {}
      /\ \A d \in Calls \ {c} : at'[d] = at[d] /\ answer'[d] = answer[d] /\ made'[d] = made[d]
  BY DEF TypeOK
<1>2. code # 201
  OBVIOUS
<1>3. TypeOK'
  BY DEF TypeOK
<1>4. CheckedRequest' /\ TransactionHolds'
  BY <1>1 DEF CheckedRequest, TransactionHolds, InSession
<1>5. AnswerTrue'
  BY <1>1, <1>2 DEF AnswerTrue, Committed, InSession
<1>6. UsersTrackSomething' /\ EachRowOnce'
  BY <1>1 DEF UsersTrackSomething, EachRowOnce
<1> QED
  BY <1>3, <1>4, <1>5, <1>6

\* The steps of a call, one lemma each.
LEMMA CheckRequestIInv ==
    ASSUME IInv, NEW c \in Calls, CheckRequest(c)
    PROVE  IInv'
<1>1. at[c] = "check" /\ UNCHANGED <<rows, made>> /\ made[c] = {}
  BY DEF CheckRequest, Go, IInv, TransactionHolds
<1>2. made' = [made EXCEPT ![c] = {}]
  BY <1>1 DEF IInv, TypeOK
<1>3. CASE Answer(c, 422) \/ Answer(c, 404)
  <2>1. at[c] \in InSession \cup {"check"} /\ UNCHANGED rows
    BY <1>1
  <2>2. CASE Answer(c, 422)
    BY <1>2, <2>1, <2>2, RefusedIInv DEF Answer
  <2>3. CASE Answer(c, 404)
    BY <1>2, <2>1, <2>3, RefusedIInv DEF Answer
  <2> QED
    BY <1>3, <2>2, <2>3
<1> USE TargetAssumption DEF IInv
<1>4. CASE /\ Normal[asked[c].text] # Blank /\ asked[c].group \in Groups
           /\ Go(c, "user")
  <2> USE <1>1, <1>4 DEF Go
  <2>1. at'[c] = "user" /\ \A d \in Calls \ {c} : at'[d] = at[d]
    BY DEF TypeOK
  <2>2. TypeOK'
    BY DEF TypeOK, InSession
  <2>3. CheckedRequest'
    BY <2>1 DEF CheckedRequest
  <2>4. TransactionHolds' /\ AnswerTrue'
    BY <2>1 DEF TransactionHolds, AnswerTrue, Committed
  <2>5. UsersTrackSomething' /\ EachRowOnce'
    BY DEF UsersTrackSomething, EachRowOnce
  <2> QED
    BY <2>2, <2>3, <2>4, <2>5
<1> QED
  BY <1>3, <1>4 DEF CheckRequest

LEMMA GetByTelegramIdIInv ==
    ASSUME IInv, NEW c \in Calls, GetByTelegramId(c)
    PROVE  IInv'
<1> USE TargetAssumption DEF IInv, GetByTelegramId, Go
<1>1. /\ at[c] = "user" /\ made[c] = {}
      /\ at'[c] = IF User(asked[c].user) \in rows THEN "target" ELSE "adduser"
      /\ \A d \in Calls \ {c} : at'[d] = at[d]
  BY DEF TypeOK, TransactionHolds
<1>2. TypeOK'
  BY <1>1 DEF TypeOK, InSession
<1>3. CheckedRequest' /\ AnswerTrue'
  BY <1>1 DEF CheckedRequest, AnswerTrue, Committed, InSession
<1>4. TransactionHolds'
  BY <1>1 DEF TransactionHolds, InSession
<1>5. UsersTrackSomething' /\ EachRowOnce'
  BY DEF UsersTrackSomething, EachRowOnce
<1> QED
  BY <1>2, <1>3, <1>4, <1>5

\* An INSERT takes a key that nobody else has.
LEMMA InsertIInv ==
    ASSUME IInv, NEW c \in Calls, NEW row, NEW next,
           \/ at[c] = "adduser" /\ row = User(asked[c].user) /\ next = "target"
           \/ at[c] = "target" /\ row = Target(asked[c]) /\ next = "commit",
           Insert(c, row, next)
    PROVE  IInv'
<1> USE TargetAssumption DEF IInv, Insert, Go
<1>0. /\ asked[c] \in Requests /\ asked[c].group \in Groups
      /\ Normal[asked[c].text] # Blank /\ row \in Rows
  BY RowsOfRequest DEF CheckedRequest, InSession
<1>1. /\ at'[c] = next /\ made'[c] = made[c] \cup {row} /\ row \notin rows
      /\ \A d \in Calls \ {c} : at'[d] = at[d] /\ made'[d] = made[d]
  BY DEF TypeOK
<1>2. TypeOK'
  BY <1>0 DEF TypeOK, InSession
<1>3. CheckedRequest' /\ AnswerTrue'
  BY <1>1 DEF CheckedRequest, AnswerTrue, Committed, InSession
<1>4. TransactionHolds'
  BY <1>1 DEF TransactionHolds, InSession
<1>5. \A d \in Calls \ {c} : row \notin made[d]
  <2> SUFFICES ASSUME NEW d \in Calls \ {c}, row \in made[d] PROVE FALSE
    OBVIOUS
  <2>1. at[d] \in {"answered", "done"}
    BY DEF Held, TypeOK, TransactionHolds
  <2> QED
    BY <1>1, <2>1 DEF AnswerTrue, Committed
<1>6. EachRowOnce'
  BY <1>1, <1>5 DEF EachRowOnce
<1>7. UsersTrackSomething'
  BY DEF UsersTrackSomething
<1> QED
  BY <1>2, <1>3, <1>4, <1>6, <1>7

\* A commit that takes effect, whether its acknowledgement arrives or not.
LEMMA CommitIInv ==
    ASSUME IInv, NEW c \in Calls, NEW code \in {201, 500}, at[c] = "commit",
           rows' = rows \cup made[c],
           at' = [at EXCEPT ![c] = "answered"], answer' = [answer EXCEPT ![c] = code],
           UNCHANGED <<made, dialog, asked, told, gaveup>>,
           broken' = IF code = 500 THEN broken \cup {c} ELSE broken
    PROVE  IInv'
<1> USE TargetAssumption DEF IInv
<1>1. /\ at'[c] = "answered" /\ answer'[c] = code /\ rows' = rows \cup made[c]
      /\ \A d \in Calls \ {c} : at'[d] = at[d] /\ answer'[d] = answer[d]
  BY DEF TypeOK
<1>2. /\ asked[c] \in Requests
      /\ made[c] \subseteq {User(asked[c].user), Target(asked[c])}
      /\ User(asked[c].user) \in rows' /\ Target(asked[c]) \in made[c]
  BY <1>1 DEF CheckedRequest, TransactionHolds, InSession
<1>3. TypeOK'
  BY <1>1 DEF TypeOK
<1>4. CheckedRequest'
  BY <1>1 DEF CheckedRequest, InSession
<1>5. TransactionHolds'
  BY <1>1 DEF TransactionHolds, InSession, EachRowOnce
<1>6. AnswerTrue'
  BY <1>1, <1>2 DEF AnswerTrue, Committed
<1>7. EachRowOnce'
  BY DEF EachRowOnce
<1>8. UsersTrackSomething'
  <2> SUFFICES ASSUME NEW u \in Users
               PROVE  User(u) \in rows' <=>
                        \E q \in Requests : q.user = u /\ Target(q) \in rows'
    BY DEF UsersTrackSomething
  <2>1. CASE u = asked[c].user
    BY <1>1, <1>2, <2>1
  <2>2. CASE u # asked[c].user
    <3>1. User(u) \in rows' <=> User(u) \in rows
      BY <1>1, <1>2, <2>2, RowsDiffer, UserKey
    <3>2. \A q \in Requests : q.user = u => (Target(q) \in rows' <=> Target(q) \in rows)
      BY <1>1, <1>2, <2>2, RowsDiffer, TargetKey
    <3> QED
      BY <3>1, <3>2 DEF UsersTrackSomething
  <2> QED
    BY <2>1, <2>2
<1> QED
  BY <1>3, <1>4, <1>5, <1>6, <1>7, <1>8

\* The invariant holds in every reachable state.
THEOREM Invariance == Spec => []IInv
<1>1. Init => IInv
  BY InitIInv
<1>2. IInv /\ [Next]_vars => IInv'
  <2> SUFFICES ASSUME IInv, [Next]_vars PROVE IInv'
    OBVIOUS
  <2>1. CASE \/ \E u \in Users, g \in Groups \cup {Unknown} : ChooseCompetitionGroup(u, g)
             \/ \E c \in Calls : GiveUp(c)
             \/ Restart
             \/ UNCHANGED vars
    BY <2>1, BotIInv
  <2>2. CASE \E c \in Calls, u \in Users, x \in Texts : SaveTarget(c, u, x)
    BY <2>2, SaveTargetIInv
  <2>3. ASSUME NEW c \in Calls, Call(c) PROVE IInv'
    <3>1. CASE AddUser(c)
      <4>1. CASE Insert(c, User(asked[c].user), "target")
        BY <3>1, <4>1, InsertIInv DEF AddUser
      <4>2. CASE InsertRaises(c, User(asked[c].user))
        <5>1. /\ at[c] \in InSession \cup {"check"} /\ UNCHANGED rows
              /\ Answer(c, 500) /\ made' = [made EXCEPT ![c] = {}]
          BY <3>1, <4>2 DEF AddUser, InsertRaises, InSession
        <5> QED
          BY <5>1, RefusedIInv DEF Answer
      <4> QED
        BY <3>1, <4>1, <4>2 DEF AddUser
    <3>2. CASE AddUserTarget(c)
      <4>1. CASE Insert(c, Target(asked[c]), "commit")
        BY <3>2, <4>1, InsertIInv DEF AddUserTarget
      <4>2. CASE InsertRaises(c, Target(asked[c]))
        <5>1. /\ at[c] \in InSession \cup {"check"} /\ UNCHANGED rows
              /\ Answer(c, 500) /\ made' = [made EXCEPT ![c] = {}]
          BY <3>2, <4>2 DEF AddUserTarget, InsertRaises, InSession
        <5> QED
          BY <5>1, RefusedIInv DEF Answer
      <4> QED
        BY <3>2, <4>1, <4>2 DEF AddUserTarget
    <3>3. CASE Commit(c)
      <4>1. /\ at[c] = "commit" /\ rows' = rows \cup made[c]
            /\ at' = [at EXCEPT ![c] = "answered"] /\ answer' = [answer EXCEPT ![c] = 201]
            /\ UNCHANGED <<made, dialog, asked, told, gaveup>>
            /\ broken' = IF 201 = 500 THEN broken \cup {c} ELSE broken
        BY <3>3 DEF Commit, Answer
      <4> QED
        BY <4>1, CommitIInv
    <3> QED
      BY <2>3, <3>1, <3>2, <3>3, CheckRequestIInv, GetByTelegramIdIInv DEF Call
  <2>4. ASSUME NEW c \in Calls, Reply(c) \/ Fail(c) PROVE IInv'
    <3>1. CASE Fail(c)
      <4>1. /\ at[c] \in InSession \cup {"check"}
            /\ UNCHANGED <<dialog, asked, told, gaveup>> /\ broken' = broken \cup {c}
            /\ at' = [at EXCEPT ![c] = "answered"] /\ answer' = [answer EXCEPT ![c] = 500]
        BY <3>1 DEF Fail
      <4>2. CASE made' = [made EXCEPT ![c] = {}] /\ UNCHANGED rows
        BY <4>1, <4>2, RefusedIInv
      <4>3. CASE at[c] = "commit" /\ rows' = rows \cup made[c] /\ UNCHANGED made
        BY <4>1, <4>3, CommitIInv
      <4> QED
        BY <3>1, <4>2, <4>3 DEF Fail
    <3> QED
      BY <2>4, <3>1, ReplyIInv
  <2> QED
    BY <2>1, <2>2, <2>3, <2>4 DEF Next
<1> QED
  BY <1>1, <1>2, PTL DEF Spec

-----------------------------------------------------------------------------
(* What follows from it.                                                       *)

\* The variables have their types: only rows of registered groups and codes that
\* are not blank are ever made.
THEOREM TypeCorrectness == Spec => []TypeOK
BY Invariance, PTL DEF IInv

\* A user and the first target are committed together.
THEOREM UsersComeWithTargets == Spec => []UsersTrackSomething
BY Invariance, PTL DEF IInv

\* No two calls insert the same user or target.
THEOREM KeysAreInsertedOnce == Spec => []EachRowOnce
BY Invariance, PTL DEF IInv

\* After "added" the target is there, put there by this call; after "retry" the
\* call has left nothing behind, unless its commit was not acknowledged: then the
\* target and its user are there.
THEOREM RepliesAreTrue == Spec => []RepliesHonest
<1>1. IInv => RepliesHonest
  BY TargetAssumption DEF IInv, AnswerTrue, Committed, RepliesHonest
<1> QED
  BY <1>1, Invariance, PTL

-----------------------------------------------------------------------------
(* No deadlock: a call that holds a user's row can only wait for a target, and *)
(* one that holds a target's row waits for nothing.                            *)

\* The INSERT of call c waits for the transaction of d, which has inserted its key.
WaitsFor(c, d) ==
    /\ at[d] \in InSession
    /\ \/ at[c] = "adduser" /\ User(asked[c].user) \in made[d]
       \/ at[c] = "target" /\ Target(asked[c]) \in made[d]

\* Among any calls one waits for none of the others.
NoCircularWait ==
    \A cs \in (SUBSET Calls) \ {{}} : \E c \in cs : \A d \in cs \ {c} : ~WaitsFor(c, d)

\* The guards of GetByTelegramId, AddUser, AddUserTarget and Commit.
CanGoOn(c) ==
    \/ at[c] \in {"user", "commit"}
    \/ /\ at[c] = "adduser"
       /\ User(asked[c].user) \in rows \/ ~Held(c, User(asked[c].user))
    \/ /\ at[c] = "target"
       /\ Target(asked[c]) \in rows \/ ~Held(c, Target(asked[c]))

\* Who is waited for either waits for nobody or waits for a target.
LEMMA WaitedFor ==
    ASSUME IInv, NEW c \in Calls, NEW d \in Calls, WaitsFor(c, d)
    PROVE  /\ at[d] \in {"target", "commit"}
           /\ at[c] = "target" => at[d] = "commit"
<1>1. at[d] \in InSession /\ made[d] # {}
  BY DEF WaitsFor
<1>2. at[d] \in {"target", "commit"}
  BY <1>1 DEF IInv, TransactionHolds, InSession
<1>3. ASSUME at[c] = "target", at[d] = "target" PROVE FALSE
  BY <1>3, RowsDiffer DEF WaitsFor, IInv, TransactionHolds
<1> QED
  BY <1>2, <1>3

\* Overlapping calls do not wait in a circle, and of the calls with an open
\* transaction one can always go on.
THEOREM NoDeadlock ==
    Spec => [](/\ NoCircularWait
               /\ (\E c \in Calls : at[c] \in InSession) =>
                     \E c \in Calls : at[c] \in InSession /\ CanGoOn(c))
<1>1. IInv => NoCircularWait
  <2> SUFFICES ASSUME IInv, NEW cs \in (SUBSET Calls) \ {{}},
                      \A c \in cs : \E d \in cs \ {c} : WaitsFor(c, d)
               PROVE  FALSE
    BY DEF NoCircularWait
  <2>1. PICK c \in cs : TRUE
    OBVIOUS
  <2>2. PICK d \in cs : WaitsFor(c, d)
    BY <2>1
  <2>3. PICK e \in cs : WaitsFor(d, e)
    BY <2>2
  <2>4. PICK f \in cs : WaitsFor(e, f)
    BY <2>3
  <2>5. at[d] = "target"
    BY <2>1, <2>2, <2>3, WaitedFor DEF WaitsFor
  <2>6. at[e] = "commit"
    BY <2>3, <2>5, WaitedFor
  <2> QED
    BY <2>4, <2>6 DEF WaitsFor
<1>2. ASSUME IInv, NEW o \in Calls, at[o] \in InSession
      PROVE  \E c \in Calls : at[c] \in InSession /\ CanGoOn(c)
  <2> DEFINE open == {c \in Calls : at[c] \in InSession}
  <2>1. open \in (SUBSET Calls) \ {{}}
    BY <1>2
  <2>2. PICK c \in open : \A d \in open \ {c} : ~WaitsFor(c, d)
    BY <1>1, <1>2, <2>1 DEF NoCircularWait
  <2>3. CanGoOn(c)
    BY <2>2 DEF CanGoOn, WaitsFor, Held, InSession
  <2> QED
    BY <2>2, <2>3
<1>3. IInv => ((\E c \in Calls : at[c] \in InSession) =>
                   \E c \in Calls : at[c] \in InSession /\ CanGoOn(c))
  BY <1>2
<1> QED
  BY <1>1, <1>3, Invariance, PTL
=============================================================================
