--------------------------- MODULE NativeAccounts ---------------------------
(***************************************************************************)
(* The database accounts that the API manages: NativeAccountService, the   *)
(* NativeAccountVerifier of each process, and the two stores they keep     *)
(* together, the accounts of a target database and the rows of             *)
(* managed_native_accounts.                                                *)
(*                                                                         *)
(* Every operation reads the row, changes the target, and saves the whole  *)
(* row as it read it with its own changes; nothing holds a lock between    *)
(* the three.  Passwords are numbers in the order they are drawn.  A       *)
(* password is encrypted for the id of a new row; save keeps the id of a   *)
(* row that is there already.  The target is one that can lock an account: *)
(* PostgreSQL, or MySQL from 5.7.6 on.  The rows a tick lists share        *)
(* nothing, so a tick here verifies one of them, some time after the list. *)
(***************************************************************************)
EXTENDS Integers

CONSTANTS
  Accounts,       \* the identities, on one connection
  Operators,      \* user requests in flight at the same time
  Verifiers,      \* the API processes, each with its verification scheduler
  RecoveryTicks,  \* RECOVERY_WINDOW_MS
  MaxRequests,    \* bound: user requests in one behaviour
  MaxTrouble      \* bound: calls that throw or lose their answer, and changes made
                  \* to the target by somebody else

ASSUME AccountsAssumption ==
  /\ Accounts # {}
  /\ RecoveryTicks \in Nat \ {0}
  /\ MaxRequests \in Nat
  /\ MaxTrouble \in Nat

VARIABLES
  native,     \* the accounts of the target database, or NoAccount
  managed,    \* the rows, or NoRow
  task,       \* each operator and verifier: where it is and what it has read
  requests,   \* user requests so far
  trouble,    \* calls that failed and changes by others so far
  disturbed   \* history: accounts touched by a fault, by somebody else, or by two
              \* operations at a time

accountVars == <<native, managed, task, requests, trouble, disturbed>>

NoAccount == [secret |-> -1, login |-> FALSE]
NoRow == [id |-> 0, key |-> 0, secret |-> 0, login |-> FALSE, status |-> "none",
          failures |-> 0, window |-> 0]
Native == [secret : -1..MaxRequests, login : BOOLEAN]
Statuses == {"none", "active", "disabled", "stale", "deleted"}
Row == [id : 0..MaxRequests, key : 0..MaxRequests, secret : 0..MaxRequests,
        login : BOOLEAN,                     \* can_login
        status : Statuses,
        failures : 0..1,                     \* verification_failures
        window : 0..RecoveryTicks]           \* ticks until recover_until

Makes == {"create", "adopt", "rotate"}       \* these draw a password
Kinds == Makes \cup {"enable", "disable", "delete", "restore", "check", "verify"}
Task == [pc : {"idle", "swept", "acting", "saving", "failing"}, kind : Kinds,
         on : Accounts, copy : Row, secret : 0..MaxRequests]
Idle == [pc |-> "idle", kind |-> "verify", on |-> CHOOSE i \in Accounts : TRUE,
         copy |-> NoRow, secret |-> 0]

\* Every variable keeps its type.
AccountsTypeOK ==
  /\ native \in [Accounts -> Native]
  /\ managed \in [Accounts -> Row]
  /\ task \in [Operators \cup Verifiers -> Task]
  /\ requests \in 0..MaxRequests /\ trouble \in 0..MaxTrouble
  /\ disturbed \subseteq Accounts

\* The target may have accounts that nobody manages.
AccountsInit ==
  /\ native \in [Accounts -> {NoAccount, [secret |-> 0, login |-> TRUE]}]
  /\ managed = [i \in Accounts |-> NoRow]
  /\ task = [a \in Operators \cup Verifiers |-> Idle]
  /\ requests = 0 /\ trouble = 0
  /\ disturbed = {}

Exists(i) == native[i] # NoAccount
Live(row) == row.status \notin {"none", "deleted"}

\* reveal: the id is part of what was encrypted.
Readable(row) == row.key = row.id

\* The target lets the account in with the password of this row.
Works(i, row) ==
  /\ Readable(row)
  /\ Exists(i) /\ native[i].login
  /\ native[i].secret = row.secret

Touching(i) == {a \in DOMAIN task : task[a].on = i /\ task[a].pc \notin {"idle", "swept"}}

\* A second operation on account i disturbs the first.
Overlapping(i) == disturbed' = IF Touching(i) = {} THEN disturbed ELSE disturbed \cup {i}

\* A call on account i fails, or somebody else changes it.
Trouble(i) ==
  /\ trouble < MaxTrouble
  /\ trouble' = trouble + 1
  /\ disturbed' = disturbed \cup {i}
-----------------------------------------------------------------------------
(* Requests: what is read before the target is called *)

MayBegin(kind, i) ==
  CASE kind = "create" -> TRUE
    [] kind = "adopt" -> Exists(i)
    [] kind = "restore" -> managed[i].status = "deleted" /\ managed[i].window > 0
    [] OTHER -> Live(managed[i]) /\ Exists(i)

\* Adopting reads can_login from the target's list, the others read the row.
Request(a, kind, i) ==
  /\ task[a].pc = "idle"
  /\ requests < MaxRequests
  /\ MayBegin(kind, i)
  /\ requests' = requests + 1
  /\ task' = [task EXCEPT ![a] =
       [pc |-> "acting", kind |-> kind, on |-> i,
        copy |-> CASE kind = "create" -> [NoRow EXCEPT !.login = TRUE]
                   [] kind = "adopt" -> [NoRow EXCEPT !.login = native[i].login]
                   [] OTHER -> managed[i],
        secret |-> IF kind \in Makes THEN requests + 1 ELSE 0]]
  /\ Overlapping(i)
  /\ UNCHANGED <<native, managed, trouble>>

\* deleteExpiredRecovery
Sweep(v) ==
  /\ task[v].pc = "idle"
  /\ managed' = [i \in Accounts |->
                   IF managed[i].status = "deleted" /\ managed[i].window = 0
                   THEN NoRow ELSE managed[i]]
  /\ task' = [task EXCEPT ![v].pc = "swept"]
  /\ UNCHANGED <<native, requests, trouble, disturbed>>

\* listDue: any row that is not deleted may be due.
ListDue(v, i) ==
  /\ task[v].pc = "swept"
  /\ Live(managed[i])
  /\ task' = [task EXCEPT ![v] = [pc |-> "acting", kind |-> "verify", on |-> i,
                                  copy |-> managed[i], secret |-> 0]]
  /\ Overlapping(i)
  /\ UNCHANGED <<native, managed, requests, trouble>>

NoneDue(v) ==
  /\ task[v].pc = "swept"
  /\ task' = [task EXCEPT ![v] = Idle]
  /\ UNCHANGED <<native, managed, requests, trouble, disturbed>>
-----------------------------------------------------------------------------
(* The target: NativeAccountGateway *)

\* The statement takes effect; the answer comes, or is lost.
Took(a, now) ==
  /\ native' = [native EXCEPT ![task[a].on] = now]
  /\ \/ task' = [task EXCEPT ![a].pc = "saving"] /\ UNCHANGED <<trouble, disturbed>>
     \/ task' = [task EXCEPT ![a] = Idle] /\ Trouble(task[a].on)
  /\ UNCHANGED <<managed, requests>>

\* What the statement of a task makes of the account, or {} when it is refused.
Effect(t) ==
  LET now == native[t.on] IN
  CASE t.kind \in {"create", "restore"} ->
         IF Exists(t.on) \/ ~Readable(t.copy) THEN {}
         ELSE {[secret |-> IF t.kind = "create" THEN t.secret ELSE t.copy.secret,
                login |-> t.copy.login]}
    [] t.kind \in {"adopt", "rotate"} ->
         IF Exists(t.on) THEN {[now EXCEPT !.secret = t.secret]} ELSE {}
    [] t.kind \in {"enable", "disable"} ->
         IF Exists(t.on) /\ Readable(t.copy) THEN {[now EXCEPT !.login = t.kind = "enable"]} ELSE {}
    [] t.kind = "delete" -> IF Exists(t.on) THEN {NoAccount} ELSE {}
    [] OTHER -> IF Works(t.on, t.copy) THEN {now} ELSE {}

Act(a) ==
  /\ task[a].pc = "acting"
  /\ \E now \in Effect(task[a]) : Took(a, now)

\* The target refuses.  A verification that fails is recorded, the others are over.
Refuse(a) ==
  /\ task[a].pc = "acting"
  /\ Effect(task[a]) = {}
  /\ task' = [task EXCEPT ![a] =
                IF @.kind \in {"check", "verify"} THEN [@ EXCEPT !.pc = "failing"] ELSE Idle]
  /\ UNCHANGED <<native, managed, requests, trouble, disturbed>>

\* The call throws without effect: the target cannot be reached, or the operation
\* gate is busy, which a verification does not record.
ActError(a) ==
  /\ task[a].pc = "acting"
  /\ \/ task' = [task EXCEPT ![a] = Idle]
     \/ /\ task[a].kind \in {"check", "verify"}
        /\ task' = [task EXCEPT ![a].pc = "failing"]
  /\ Trouble(task[a].on)
  /\ UNCHANGED <<native, managed, requests>>
-----------------------------------------------------------------------------
(* The row: KyselyNativeAccountRepository.save *)

Standing(login) == IF login THEN "active" ELSE "disabled"

\* Faulty: rotatePassword saves the row it read.
RotatedRow(t) ==
  [t.copy EXCEPT !.status = IF t.kind = "delete" THEN "deleted" ELSE Standing(t.copy.login),
                 !.window = IF t.kind = "delete" THEN RecoveryTicks ELSE 0]

\* The row an operation saves when the target has answered.
NewRow(t) ==
  CASE t.kind \in {"create", "adopt"} ->
         [id |-> t.secret, key |-> t.secret, secret |-> t.secret, login |-> t.copy.login,
          status |-> Standing(t.copy.login), failures |-> 0, window |-> 0]
    [] t.kind = "rotate" ->
         [t.copy EXCEPT !.secret = t.secret, !.key = t.copy.id, !.failures = 0,
                        !.status = Standing(t.copy.login)]
    [] t.kind \in {"enable", "disable"} ->
         [t.copy EXCEPT !.login = t.kind = "enable", !.status = Standing(t.kind = "enable")]
    [] t.kind = "delete" -> [t.copy EXCEPT !.status = "deleted", !.window = RecoveryTicks]
    [] t.kind = "restore" -> [t.copy EXCEPT !.status = Standing(t.copy.login), !.window = 0]
    [] OTHER -> [t.copy EXCEPT !.status = Standing(t.copy.login), !.failures = 0]

\* Faulty: the retry starts the count again.
FailedForever(t) == [t.copy EXCEPT !.failures = 1 - @]

\* verifyNow marks the row stale at once, recordFailure the second time.
FailedRow(t) ==
  IF t.kind = "verify" /\ t.copy.failures = 0
  THEN [t.copy EXCEPT !.failures = 1]
  ELSE [t.copy EXCEPT !.failures = 0, !.status = "stale"]

Put(i, row) ==
  managed' = [managed EXCEPT ![i] = IF @ = NoRow THEN row
                                          ELSE [row EXCEPT !.id = managed[i].id]]

Pending(t) == IF t.pc = "saving" THEN NewRow(t) ELSE FailedRow(t)

Save(a) ==
  /\ task[a].pc \in {"saving", "failing"}
  /\ Put(task[a].on, Pending(task[a]))
  /\ task' = [task EXCEPT ![a] = Idle]
  /\ UNCHANGED <<native, requests, trouble, disturbed>>

\* save throws, before or after it took effect.  verifyOne takes that for a failed
\* verification.
SaveError(a) ==
  /\ task[a].pc \in {"saving", "failing"}
  /\ \/ Put(task[a].on, Pending(task[a]))
     \/ UNCHANGED managed
  /\ task' = [task EXCEPT ![a] = IF @.pc = "saving" /\ @.kind = "verify"
                                 THEN [@ EXCEPT !.pc = "failing"] ELSE Idle]
  /\ Trouble(task[a].on)
  /\ UNCHANGED <<native, requests>>
-----------------------------------------------------------------------------
(* The environment *)

\* Somebody else creates, changes or drops the account.
Meddle(i) ==
  /\ Trouble(i)
  /\ native' \in {[native EXCEPT ![i] = now] :
                    now \in {NoAccount} \cup [secret : {0}, login : BOOLEAN]}
  /\ UNCHANGED <<managed, task, requests>>

RecoveryTick ==
  /\ \E i \in Accounts : managed[i].window > 0
  /\ managed' = [i \in Accounts |->
                   [managed[i] EXCEPT !.window = IF @ = 0 THEN 0 ELSE @ - 1]]
  /\ UNCHANGED <<native, task, requests, trouble, disturbed>>

Proceed(a) == Act(a) \/ Refuse(a) \/ Save(a)

AccountsNext ==
  \/ \E a \in Operators, kind \in Kinds \ {"verify"}, i \in Accounts : Request(a, kind, i)
  \/ \E v \in Verifiers : Sweep(v) \/ NoneDue(v) \/ \E i \in Accounts : ListDue(v, i)
  \/ \E a \in Operators \cup Verifiers : Proceed(a) \/ ActError(a) \/ SaveError(a)
  \/ \E i \in Accounts : Meddle(i)
  \/ RecoveryTick

AccountsSpec == AccountsInit /\ [][AccountsNext]_accountVars

\* Calls return, each process has its scheduler, and what is live becomes due.
AccountsFairness ==
  /\ \A a \in Operators \cup Verifiers : WF_accountVars(Proceed(a))
  /\ \A v \in Verifiers : /\ WF_accountVars(Sweep(v))
                          /\ \A i \in Accounts : SF_accountVars(ListDue(v, i))
-----------------------------------------------------------------------------
(* What the accounts promise *)

\* Whatever operations follow each other, a row and the account it stands for agree
\* when nothing is under way: on the password and on who may log in; a deleted row
\* has no account.  No call failed, nobody else touched the account, and
\* operations and verifications on it did not overlap.
RowDescribesTarget ==
  \A i \in Accounts :
    i \notin disturbed /\ Touching(i) = {} /\ managed[i] # NoRow =>
      native[i] = IF Live(managed[i])
                  THEN [secret |-> managed[i].secret, login |-> managed[i].login]
                  ELSE NoAccount

\* A live row whose password does not open its account.
Drifted(i) == Live(managed[i]) /\ ~Works(i, managed[i])

\* However operations, verifications, failing calls and other people interfere, a
\* password that stays wrong is marked credential-stale by the verification.
DriftNoticed ==
  \A i \in Accounts : <>[]Drifted(i) => <>[](managed[i].status = "stale")

-----------------------------------------------------------------------------
(* What the documents say and the code does not do *)

\* The row of a deleted account is kept for its recovery (agent/question.md:146): it
\* goes when the time is over, or a request brings the account back.
DeletedIsKept ==
  [][\A i \in Accounts :
       managed[i].status = "deleted" /\ managed'[i] # managed[i] /\ managed'[i].status # "deleted"
         => \/ managed[i].window = 0
            \/ \E a \in Operators : task[a].on = i /\ task[a].kind \in {"create", "adopt", "restore"}
                                    /\ task[a].pc = "saving"]_accountVars
============================================================================
