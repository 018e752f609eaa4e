--------------------------- MODULE Accounts_proof ---------------------------
(* Theorems about the managed accounts of the databases, for any number of    *)
(* accounts, requests, verifiers and failures, and about web users and their   *)
(* sessions.                                                                   *)
EXTENDS NativeAccounts, Sessions, FiniteSetTheorems, TLAPS

Actors == Operators \cup Verifiers

-----------------------------------------------------------------------------
(* Types *)

LEMMA Constants ==
  /\ Idle \in Task /\ NoRow \in Row /\ NoAccount \in Native
  /\ MaxRequests \in Nat /\ MaxTrouble \in Nat /\ RecoveryTicks \in Nat \ {0}
<1>1. (CHOOSE i \in Accounts : TRUE) \in Accounts
  BY AccountsAssumption
<1>2. NoRow \in Row
  BY AccountsAssumption DEF NoRow, Row, Statuses
<1>3. NoAccount \in Native
  BY AccountsAssumption DEF NoAccount, Native
<1>4. Idle \in Task
  BY <1>1, <1>2, AccountsAssumption DEF Idle, Task, Kinds, Makes
<1> QED BY <1>2, <1>3, <1>4, AccountsAssumption

\* A row with another value in one column is a row.
LEMMA RowWith ==
  ASSUME NEW row \in Row
  PROVE  /\ \A x \in 0..MaxRequests : /\ [row EXCEPT !.id = x] \in Row
                                      /\ [row EXCEPT !.key = x] \in Row
                                      /\ [row EXCEPT !.secret = x] \in Row
         /\ \A x \in BOOLEAN : [row EXCEPT !.login = x] \in Row
         /\ \A x \in Statuses : [row EXCEPT !.status = x] \in Row
         /\ \A x \in 0..1 : [row EXCEPT !.failures = x] \in Row
         /\ \A x \in 0..RecoveryTicks : [row EXCEPT !.window = x] \in Row
  BY DEF Row

\* The row a task saves is a row.
LEMMA RowsTyped ==
  ASSUME NEW t \in Task
  PROVE  /\ NewRow(t) \in Row
         /\ FailedRow(t) \in Row
<1> DEFINE c == t.copy
<1>0. /\ c \in Row /\ t.secret \in 0..MaxRequests /\ t.kind \in Kinds
      /\ c.login \in BOOLEAN /\ c.id \in 0..MaxRequests
      /\ 0 \in 0..RecoveryTicks /\ RecoveryTicks \in 0..RecoveryTicks
      /\ 0 \in 0..1 /\ 1 \in 0..1
  BY AccountsAssumption DEF Task, Row
<1>1. /\ \A l \in BOOLEAN : Standing(l) \in Statuses
      /\ {"deleted", "stale"} \subseteq Statuses
  BY DEF Standing, Statuses
<1>2. NewRow(t) \in Row
  <2>1. CASE t.kind \in {"create", "adopt"}
    <3>1. NewRow(t) = [id |-> t.secret, key |-> t.secret, secret |-> t.secret,
                       login |-> c.login, status |-> Standing(c.login),
                       failures |-> 0, window |-> 0]
      BY <2>1 DEF NewRow
    <3> HIDE DEF c
    <3> QED BY <1>0, <1>1, <3>1 DEF Row
  <2>2. CASE t.kind = "rotate"
    <3> DEFINE r1 == [c EXCEPT !.secret = t.secret]
               r2 == [r1 EXCEPT !.key = c.id]
               r3 == [r2 EXCEPT !.failures = 0]
    <3>1. NewRow(t) = [r3 EXCEPT !.status = Standing(c.login)]
      BY <2>2 DEF NewRow
    <3>2. r1 \in Row
      BY <1>0, RowWith
    <3> HIDE DEF r1
    <3>3. r2 \in Row
      BY <1>0, <3>2, RowWith
    <3> HIDE DEF r2
    <3>4. r3 \in Row
      BY <1>0, <3>3, RowWith
    <3> HIDE DEF r3, c
    <3> QED BY <1>0, <1>1, <3>1, <3>4, RowWith
  <2>3. CASE t.kind \in {"enable", "disable"}
    <3> DEFINE l == t.kind = "enable"
               r1 == [c EXCEPT !.login = l]
    <3>1. NewRow(t) = [r1 EXCEPT !.status = Standing(l)]
      BY <2>3 DEF NewRow
    <3>2. l \in BOOLEAN
      OBVIOUS
    <3> HIDE DEF l
    <3>3. r1 \in Row
      BY <1>0, <3>2, RowWith
    <3> HIDE DEF r1
    <3> QED BY <1>1, <3>1, <3>2, <3>3, RowWith
  <2>4. CASE t.kind = "delete"
    <3> DEFINE r1 == [c EXCEPT !.status = "deleted"]
    <3>1. NewRow(t) = [r1 EXCEPT !.window = RecoveryTicks]
      BY <2>4 DEF NewRow
    <3>2. r1 \in Row
      BY <1>0, <1>1, RowWith
    <3> HIDE DEF r1
    <3> QED BY <1>0, <3>1, <3>2, RowWith
  <2>5. CASE t.kind = "restore"
    <3> DEFINE r1 == [c EXCEPT !.status = Standing(c.login)]
    <3>1. NewRow(t) = [r1 EXCEPT !.window = 0]
      BY <2>5 DEF NewRow
    <3>2. r1 \in Row
      BY <1>0, <1>1, RowWith
    <3> HIDE DEF r1
    <3> QED BY <1>0, <3>1, <3>2, RowWith
  <2>6. CASE t.kind \in {"check", "verify"}
    <3> DEFINE r1 == [c EXCEPT !.status = Standing(c.login)]
    <3>1. NewRow(t) = [r1 EXCEPT !.failures = 0]
      BY <2>6 DEF NewRow
    <3>2. r1 \in Row
      BY <1>0, <1>1, RowWith
    <3> HIDE DEF r1
    <3> QED BY <1>0, <3>1, <3>2, RowWith
  <2> QED BY <1>0, <2>1, <2>2, <2>3, <2>4, <2>5, <2>6 DEF Kinds, Makes
<1>3. FailedRow(t) \in Row
  <2> DEFINE r1 == [c EXCEPT !.failures = 0]
  <2>1. \/ FailedRow(t) = [c EXCEPT !.failures = 1]
        \/ FailedRow(t) = [r1 EXCEPT !.status = "stale"]
    BY DEF FailedRow
  <2>2. r1 \in Row
    BY <1>0, RowWith
  <2> HIDE DEF r1
  <2> QED BY <1>0, <1>1, <2>1, <2>2, RowWith
<1> QED BY <1>2, <1>3

LEMMA PutTyped ==
  ASSUME AccountsTypeOK, NEW i \in Accounts, NEW row \in Row, Put(i, row)
  PROVE  managed' \in [Accounts -> Row]
<1>1. [row EXCEPT !.id = managed[i].id] \in Row
  BY DEF AccountsTypeOK, Row
<1> QED BY <1>1 DEF Put, AccountsTypeOK

\* What the target makes of an account is an account.
LEMMA EffectTyped ==
  ASSUME AccountsTypeOK, NEW t \in Task, NEW now \in Effect(t)
  PROVE  now \in Native
<1>1. /\ native[t.on] \in Native /\ t.secret \in -1..MaxRequests
      /\ t.copy.secret \in -1..MaxRequests /\ t.copy.login \in BOOLEAN
  BY AccountsAssumption DEF AccountsTypeOK, Task, Row
<1>2. CASE t.kind \in {"create", "restore"}
  BY <1>1, <1>2 DEF Effect, Native
<1>3. CASE t.kind \in {"adopt", "rotate"}
  BY <1>1, <1>3 DEF Effect, Native
<1>4. CASE t.kind \in {"enable", "disable"}
  BY <1>1, <1>4 DEF Effect, Native
<1>5. CASE t.kind = "delete"
  BY <1>5, Constants DEF Effect
<1>6. CASE t.kind \in {"check", "verify"}
  BY <1>1, <1>6 DEF Effect
<1> QED BY <1>2, <1>3, <1>4, <1>5, <1>6 DEF Task, Kinds, Makes

LEMMA TypeStep == AccountsTypeOK /\ [AccountsNext]_accountVars => AccountsTypeOK'
<1> SUFFICES ASSUME AccountsTypeOK, [AccountsNext]_accountVars PROVE AccountsTypeOK'
  OBVIOUS
<1> USE Constants
<1>0. \A a \in Actors : task[a] \in Task
  BY DEF AccountsTypeOK, Actors
<1>1. ASSUME NEW a \in Operators, NEW kind \in Kinds \ {"verify"}, NEW i \in Accounts,
             Request(a, kind, i)
      PROVE  AccountsTypeOK'
  <2> DEFINE copy == CASE kind = "create" -> [NoRow EXCEPT !.login = TRUE]
                       [] kind = "adopt" -> [NoRow EXCEPT !.login = native[i].login]
                       [] OTHER -> managed[i]
             secret == IF kind \in Makes THEN requests + 1 ELSE 0
             new == [pc |-> "acting", kind |-> kind, on |-> i, copy |-> copy, secret |-> secret]
  <2>1. copy \in Row
    BY DEF AccountsTypeOK, Row, Native, NoRow
  <2>2. requests + 1 \in 0..MaxRequests /\ secret \in 0..MaxRequests
    BY <1>1 DEF Request, AccountsTypeOK
  <2>3. new \in Task
    BY <2>1, <2>2 DEF Task
  <2>4. task' = [task EXCEPT ![a] = new] /\ requests' = requests + 1
    BY <1>1 DEF Request
  <2> HIDE DEF new
  <2>5. disturbed' \subseteq Accounts
    BY <1>1 DEF Request, Overlapping, AccountsTypeOK
  <2> QED BY <1>1, <2>2, <2>3, <2>4, <2>5, ZenonT(40) DEF Request, AccountsTypeOK
<1>2. ASSUME NEW v \in Verifiers, Sweep(v) PROVE AccountsTypeOK'
  <2>1. [task[v] EXCEPT !.pc = "swept"] \in Task
    BY <1>0 DEF Task, Actors
  <2>2. task' \in [Actors -> Task]
    BY <1>2, <2>1 DEF Sweep, AccountsTypeOK, Actors
  <2> QED BY <1>2, <2>2 DEF Sweep, AccountsTypeOK, Actors
<1>3. ASSUME NEW v \in Verifiers, NoneDue(v) PROVE AccountsTypeOK'
  BY <1>3 DEF NoneDue, AccountsTypeOK
<1>4. ASSUME NEW v \in Verifiers, NEW i \in Accounts, ListDue(v, i) PROVE AccountsTypeOK'
  <2>1. [pc |-> "acting", kind |-> "verify", on |-> i, copy |-> managed[i], secret |-> 0] \in Task
    BY DEF Task, AccountsTypeOK, Kinds, Makes
  <2>2. task' \in [Actors -> Task]
    BY <1>4, <2>1 DEF ListDue, AccountsTypeOK, Actors
  <2> QED BY <1>4, <2>2 DEF ListDue, Overlapping, AccountsTypeOK, Actors
<1>5. ASSUME NEW a \in Actors, Act(a) PROVE AccountsTypeOK'
  <2>1. PICK now \in Effect(task[a]) : Took(a, now)
    BY <1>5 DEF Act
  <2>2. now \in Native
    BY <1>0, EffectTyped
  <2>3. /\ [task[a] EXCEPT !.pc = "saving"] \in Task /\ task[a].on \in Accounts
    BY <1>0 DEF Task
  <2>4. task' \in [Actors -> Task]
    BY <2>1, <2>3 DEF Took, AccountsTypeOK, Actors
  <2> QED BY <2>1, <2>2, <2>3, <2>4 DEF Took, Trouble, AccountsTypeOK, Actors
<1>6. ASSUME NEW a \in Actors, Refuse(a) PROVE AccountsTypeOK'
  <2>1. [task[a] EXCEPT !.pc = "failing"] \in Task
    BY <1>0 DEF Task
  <2>2. task' \in [Actors -> Task]
    BY <1>6, <2>1 DEF Refuse, AccountsTypeOK, Actors
  <2> QED BY <1>6, <2>2 DEF Refuse, AccountsTypeOK, Actors
<1>7. ASSUME NEW a \in Actors, ActError(a) PROVE AccountsTypeOK'
  <2>1. /\ [task[a] EXCEPT !.pc = "failing"] \in Task /\ task[a].on \in Accounts
    BY <1>0 DEF Task
  <2>2. task' \in [Actors -> Task]
    BY <1>7, <2>1 DEF ActError, AccountsTypeOK, Actors
  <2> QED BY <1>7, <2>1, <2>2 DEF ActError, Trouble, AccountsTypeOK, Actors
<1>8. ASSUME NEW a \in Actors, Save(a) \/ SaveError(a) PROVE AccountsTypeOK'
  <2>1. /\ [task[a] EXCEPT !.pc = "failing"] \in Task /\ task[a].on \in Accounts
        /\ Pending(task[a]) \in Row
    BY <1>0, RowsTyped DEF Task, Pending
  <2>2. task' \in [Actors -> Task]
    BY <1>8, <2>1 DEF Save, SaveError, AccountsTypeOK, Actors
  <2>3. managed' \in [Accounts -> Row]
    BY <1>8, <2>1, PutTyped DEF Save, SaveError, AccountsTypeOK
  <2> QED BY <1>8, <2>1, <2>2, <2>3 DEF Save, SaveError, Trouble, AccountsTypeOK, Actors
<1>9. ASSUME NEW i \in Accounts, Meddle(i) PROVE AccountsTypeOK'
  <2>1. native' \in [Accounts -> Native]
    BY <1>9 DEF Meddle, AccountsTypeOK, Native
  <2> QED BY <1>9, <2>1 DEF Meddle, Trouble, AccountsTypeOK
<1>10. CASE RecoveryTick
  <2>1. \A i \in Accounts : [managed[i] EXCEPT !.window = IF @ = 0 THEN 0 ELSE @ - 1] \in Row
    BY DEF AccountsTypeOK, Row
  <2> QED BY <1>10, <2>1 DEF RecoveryTick, AccountsTypeOK
<1>11. CASE UNCHANGED accountVars
  BY <1>11 DEF accountVars, AccountsTypeOK
<1> QED
  BY <1>1, <1>2, <1>3, <1>4, <1>5, <1>6, <1>7, <1>8, <1>9, <1>10, <1>11
  DEF AccountsNext, Proceed, Actors

LEMMA TypeInitially == AccountsInit => AccountsTypeOK
<1>1. /\ [secret |-> 0, login |-> TRUE] \in Native
      /\ 0 \in 0..MaxRequests /\ 0 \in 0..MaxTrouble
  BY AccountsAssumption DEF Native
<1> HIDE DEF Native
<1>2. AccountsInit => /\ native \in [Accounts -> Native]
                      /\ managed \in [Accounts -> Row]
                      /\ task \in [Operators \cup Verifiers -> Task]
  BY <1>1, Constants DEF AccountsInit
<1> QED BY <1>1, <1>2 DEF AccountsInit, AccountsTypeOK

\* Every column, task and counter keeps its type, whatever fails.
THEOREM AccountsTyped == AccountsSpec => []AccountsTypeOK
  BY TypeInitially, TypeStep, PTL DEF AccountsSpec

-----------------------------------------------------------------------------
(* Rows and accounts *)

\* The account that a row stands for.
Meant(row) ==
  IF Live(row) THEN [secret |-> row.secret, login |-> row.login] ELSE NoAccount

Described(i) == managed[i] # NoRow => native[i] = Meant(managed[i])

\* What a task relies on: until the target has answered, the row it has read is
\* still true; afterwards, the row it is about to save is.
AccountSound(a) ==
  LET t == task[a]
      i == t.on
  IN
  /\ t.pc \in {"acting", "failing"} => Described(i)
  /\ t.pc = "acting" /\ t.kind = "create" => t.copy.login
  /\ t.pc = "acting" /\ t.kind = "adopt" => t.copy.login = native[i].login
  /\ t.pc = "acting" /\ t.kind \notin {"create", "adopt", "restore"} =>
       Live(t.copy) /\ native[i] = Meant(t.copy)
  /\ t.pc = "saving" => native[i] = Meant(NewRow(t))
  /\ t.pc = "failing" => Live(t.copy) /\ native[i] = Meant(t.copy)

\* An account that nothing has disturbed has one task at most, and that is sound.
Calm(i) ==
  /\ \A a, b \in Touching(i) : a = b
  /\ Touching(i) = {} => Described(i)
  /\ \A a \in Touching(i) : AccountSound(a)

AccountsInv == AccountsTypeOK /\ \A i \in Accounts \ disturbed : Calm(i)

LEMMA TouchingIs ==
  ASSUME AccountsTypeOK, NEW i \in Accounts
  PROVE  Touching(i) = {a \in Actors : task[a].on = i /\ task[a].pc \notin {"idle", "swept"}}
  BY DEF AccountsTypeOK, Touching, Actors

\* A step that leaves an account and its tasks alone leaves it calm.
LEMMA Unmoved ==
  ASSUME AccountsTypeOK, AccountsTypeOK', NEW i \in Accounts, Calm(i),
         native'[i] = native[i],
         Described(i) => Described(i)',
         \A b \in Actors : \/ task'[b] = task[b]
                           \/ b \notin Touching(i) /\ b \notin Touching(i)'
  PROVE  Calm(i)'
<1>1. Touching(i)' = Touching(i)
  BY TouchingIs DEF Touching, AccountsTypeOK, Actors
<1>2. \A a \in Touching(i) : task'[a] = task[a] /\ task[a].on = i
  BY <1>1, TouchingIs DEF Actors
<1>3. ASSUME NEW a \in Touching(i) PROVE AccountSound(a)'
  <2>1. AccountSound(a) /\ task'[a] = task[a] /\ task[a].on = i
    BY <1>2 DEF Calm
  <2> QED BY <2>1 DEF AccountSound
<1> QED BY <1>1, <1>3 DEF Calm

\* The effect of a sound task is what its new row will say.
LEMMA EffectFits ==
  ASSUME AccountsTypeOK, NEW a \in Actors, AccountSound(a), task[a].pc = "acting",
         NEW now \in Effect(task[a])
  PROVE  now = Meant(NewRow(task[a]))
<1> DEFINE t == task[a]
           c == t.copy
<1>1. /\ t \in Task /\ c \in Row /\ t.kind \in Kinds /\ t.on \in Accounts
      /\ native[t.on] \in Native /\ c.login \in BOOLEAN
  BY DEF AccountsTypeOK, Actors, Task, Row
<1>2. \A l \in BOOLEAN : Standing(l) \notin {"none", "deleted"}
  BY DEF Standing
<1>3. CASE t.kind = "create"
  <2>1. NewRow(t).secret = t.secret /\ NewRow(t).login = c.login /\ NewRow(t).status = Standing(c.login)
    BY <1>3 DEF NewRow
  <2>2. now = [secret |-> t.secret, login |-> c.login]
    BY <1>3 DEF Effect
  <2> QED BY <1>1, <1>2, <2>1, <2>2 DEF Meant, Live
<1>4. CASE t.kind = "adopt"
  <2>1. NewRow(t).secret = t.secret /\ NewRow(t).login = c.login /\ NewRow(t).status = Standing(c.login)
    BY <1>4 DEF NewRow
  <2>2. now = [native[t.on] EXCEPT !.secret = t.secret]
    BY <1>4 DEF Effect
  <2>3. now = [secret |-> t.secret, login |-> c.login]
    BY <1>1, <1>4, <2>2 DEF AccountSound, Native
  <2> QED BY <1>1, <1>2, <2>1, <2>3 DEF Meant, Live
<1>5. CASE t.kind = "rotate"
  <2>1. NewRow(t).secret = t.secret /\ NewRow(t).login = c.login /\ NewRow(t).status = Standing(c.login)
    BY <1>1, <1>5 DEF NewRow, Row
  <2>2. now = [native[t.on] EXCEPT !.secret = t.secret]
    BY <1>5 DEF Effect
  <2>3. native[t.on] = [secret |-> c.secret, login |-> c.login]
    BY <1>5 DEF AccountSound, Meant
  <2>4. now = [secret |-> t.secret, login |-> c.login]
    BY <2>2, <2>3
  <2> QED BY <1>1, <1>2, <2>1, <2>4 DEF Meant, Live
<1>6. CASE t.kind \in {"enable", "disable"}
  <2> DEFINE l == t.kind = "enable"
  <2>1. NewRow(t).secret = c.secret /\ NewRow(t).login = l /\ NewRow(t).status = Standing(l)
    BY <1>1, <1>6 DEF NewRow, Row
  <2>2. now = [native[t.on] EXCEPT !.login = l]
    BY <1>6 DEF Effect
  <2>3. native[t.on] = [secret |-> c.secret, login |-> c.login]
    BY <1>6 DEF AccountSound, Meant
  <2>4. now = [secret |-> c.secret, login |-> l]
    BY <2>2, <2>3
  <2> QED BY <1>2, <2>1, <2>4 DEF Meant, Live
<1>7. CASE t.kind = "delete"
  <2>1. NewRow(t).status = "deleted"
    BY <1>1, <1>7 DEF NewRow, Row
  <2>2. now = NoAccount
    BY <1>7 DEF Effect
  <2> QED BY <2>1, <2>2 DEF Meant, Live
<1>8. CASE t.kind = "restore"
  <2>1. NewRow(t).secret = c.secret /\ NewRow(t).login = c.login /\ NewRow(t).status = Standing(c.login)
    BY <1>1, <1>8 DEF NewRow, Row
  <2>2. now = [secret |-> c.secret, login |-> c.login]
    BY <1>8 DEF Effect
  <2> QED BY <1>1, <1>2, <2>1, <2>2 DEF Meant, Live
<1>9. CASE t.kind \in {"check", "verify"}
  <2>1. NewRow(t).secret = c.secret /\ NewRow(t).login = c.login /\ NewRow(t).status = Standing(c.login)
    BY <1>1, <1>9 DEF NewRow, Row
  <2>2. now = native[t.on]
    BY <1>9 DEF Effect
  <2>3. native[t.on] = [secret |-> c.secret, login |-> c.login]
    BY <1>9 DEF AccountSound, Meant
  <2> QED BY <1>1, <1>2, <2>1, <2>2, <2>3 DEF Meant, Live
<1> QED BY <1>1, <1>3, <1>4, <1>5, <1>6, <1>7, <1>8, <1>9 DEF Kinds, Makes

\* The row a failed verification saves still describes the account.
LEMMA FailureFits ==
  ASSUME AccountsTypeOK, NEW a \in Actors, AccountSound(a), task[a].pc = "failing"
  PROVE  native[task[a].on] = Meant(FailedRow(task[a]))
<1> DEFINE t == task[a]
           c == t.copy
<1>1. c \in Row
  BY DEF AccountsTypeOK, Actors, Task
<1>2. Live(c) /\ native[t.on] = [secret |-> c.secret, login |-> c.login]
  BY DEF AccountSound, Meant
<1>3. FailedRow(t).secret = c.secret /\ FailedRow(t).login = c.login
  BY <1>1 DEF FailedRow, Row
<1>4. FailedRow(t).status \in {c.status, "stale"}
  BY <1>1 DEF FailedRow, Row
<1> QED BY <1>2, <1>3, <1>4 DEF Meant, Live

\* save keeps what a row means, whichever id it ends up with.
LEMMA PutMeans ==
  ASSUME AccountsTypeOK, NEW i \in Accounts, NEW row \in Row, Put(i, row)
  PROVE  /\ Meant(managed'[i]) = Meant(row)
         /\ \A j \in Accounts \ {i} : managed'[j] = managed[j]
<1>1. managed'[i] \in {row, [row EXCEPT !.id = managed[i].id]}
  BY DEF Put, AccountsTypeOK
<1>2. /\ managed'[i].status = row.status
      /\ managed'[i].secret = row.secret
      /\ managed'[i].login = row.login
  BY <1>1 DEF Row
<1> QED BY <1>2 DEF Put, AccountsTypeOK, Meant, Live

\* A task begins on an account.  If it is alone there, it has to be sound.
LEMMA Begins ==
  ASSUME AccountsInv, AccountsTypeOK', NEW a \in Actors, NEW i \in Accounts,
         task[a].pc \in {"idle", "swept"}, NEW new, task' = [task EXCEPT ![a] = new],
         new.on = i, new.pc = "acting", Overlapping(i), UNCHANGED <<native, managed>>,
         Described(i) => AccountSound(a)'
  PROVE  AccountsInv'
<1>1. ASSUME NEW j \in Accounts \ disturbed', j # i PROVE Calm(j)'
  <2>1. \A b \in Actors : \/ task'[b] = task[b]
                          \/ b \notin Touching(j) /\ b \notin Touching(j)'
    BY <1>1, TouchingIs DEF AccountsInv, AccountsTypeOK, Touching, Actors
  <2>2. Calm(j) /\ (Described(j) => Described(j)')
    BY <1>1 DEF AccountsInv, Overlapping, Described
  <2> QED BY <2>1, <2>2, Unmoved DEF AccountsInv
<1>2. ASSUME i \notin disturbed' PROVE Calm(i)'
  <2>1. Touching(i) = {} /\ i \notin disturbed
    BY <1>2 DEF Overlapping
  <2>2. Touching(i)' = {a}
    BY <2>1, TouchingIs DEF AccountsInv, AccountsTypeOK, Touching, Actors
  <2>3. Described(i)
    BY <2>1 DEF AccountsInv, Calm
  <2> QED BY <2>2, <2>3 DEF Calm
<1> QED BY <1>1, <1>2 DEF AccountsInv

\* A task ends, or its account is disturbed.
LEMMA Others ==
  ASSUME AccountsInv, AccountsTypeOK', NEW a \in Actors,
         \A b \in Actors \ {a} : task'[b] = task[b],
         task[a].pc \notin {"idle", "swept"}, task'[a].on = task[a].on \/ task'[a].pc = "idle",
         disturbed \subseteq disturbed',
         \A j \in Accounts \ {task[a].on} : native'[j] = native[j] /\ managed'[j] = managed[j],
         NEW j \in Accounts \ disturbed', j # task[a].on
  PROVE  Calm(j)'
<1>1. \A b \in Actors : \/ task'[b] = task[b]
                        \/ b \notin Touching(j) /\ b \notin Touching(j)'
  BY TouchingIs DEF AccountsInv, AccountsTypeOK, Touching, Actors
<1>2. Calm(j) /\ (Described(j) => Described(j)')
  BY DEF AccountsInv, Described
<1> QED BY <1>1, <1>2, Unmoved DEF AccountsInv

LEMMA AccountsStep == AccountsInv /\ [AccountsNext]_accountVars => AccountsInv'
<1> SUFFICES ASSUME AccountsInv, [AccountsNext]_accountVars PROVE AccountsInv'
  OBVIOUS
<1>t. AccountsTypeOK /\ AccountsTypeOK'
  BY TypeStep DEF AccountsInv
<1>k. \A a \in Actors : task[a] \in Task /\ task[a].on \in Accounts /\ task[a].copy \in Row
  BY <1>t DEF AccountsTypeOK, Actors, Task
<1>1. ASSUME NEW a \in Operators, NEW kind \in Kinds \ {"verify"}, NEW i \in Accounts,
             Request(a, kind, i)
      PROVE  AccountsInv'
  <2> DEFINE new == task'[a]
  <2>1. /\ new.pc = "acting" /\ new.kind = kind /\ new.on = i
        /\ kind = "create" => new.copy.login
        /\ kind = "adopt" => new.copy.login = native[i].login
        /\ kind \notin {"create", "adopt"} => new.copy = managed[i]
        /\ task' = [task EXCEPT ![a] = new]
    BY <1>1, <1>t DEF Request, AccountsTypeOK, NoRow
  <2>2. UNCHANGED <<native, managed>> /\ Overlapping(i) /\ task[a].pc = "idle" /\ MayBegin(kind, i)
    BY <1>1 DEF Request
  <2>3. kind \notin {"create", "adopt", "restore"} => Live(managed[i])
    BY <2>2 DEF MayBegin
  <2>4. Described(i) => AccountSound(a)'
    BY <2>1, <2>2, <2>3 DEF AccountSound, Described, Live, NoRow
  <2> QED BY <1>t, <2>1, <2>2, <2>4, Begins DEF Actors
<1>2. ASSUME NEW v \in Verifiers, Sweep(v) PROVE AccountsInv'
  <2>1. ASSUME NEW j \in Accounts \ disturbed PROVE Calm(j)'
    <3>1. Calm(j) /\ (Described(j) => Described(j)') /\ native'[j] = native[j]
      BY <1>2 DEF AccountsInv, Described, Sweep
    <3>2. \A b \in Actors : \/ task'[b] = task[b]
                            \/ b \notin Touching(j) /\ b \notin Touching(j)'
      BY <1>2, <1>t, TouchingIs DEF Sweep, AccountsTypeOK, Touching, Actors, Task
    <3> QED BY <1>t, <3>1, <3>2, Unmoved
  <2> QED BY <1>2, <1>t, <2>1 DEF AccountsInv, Sweep
<1>3. ASSUME NEW v \in Verifiers, NoneDue(v) PROVE AccountsInv'
  <2>1. ASSUME NEW j \in Accounts \ disturbed PROVE Calm(j)'
    <3>1. Calm(j) /\ (Described(j) => Described(j)') /\ native'[j] = native[j]
      BY <1>3 DEF AccountsInv, Described, NoneDue
    <3>2. \A b \in Actors : \/ task'[b] = task[b]
                            \/ b \notin Touching(j) /\ b \notin Touching(j)'
      BY <1>3, <1>t, TouchingIs DEF NoneDue, AccountsTypeOK, Touching, Actors, Idle
    <3> QED BY <1>t, <3>1, <3>2, Unmoved
  <2> QED BY <1>3, <1>t, <2>1 DEF AccountsInv, NoneDue
<1>4. ASSUME NEW v \in Verifiers, NEW i \in Accounts, ListDue(v, i) PROVE AccountsInv'
  <2> DEFINE new == task'[v]
  <2>1. /\ new.pc = "acting" /\ new.kind = "verify" /\ new.on = i /\ new.copy = managed[i]
        /\ task' = [task EXCEPT ![v] = new]
    BY <1>4, <1>t DEF ListDue, AccountsTypeOK
  <2>2. /\ UNCHANGED <<native, managed>> /\ Overlapping(i) /\ task[v].pc = "swept"
        /\ Live(managed[i])
    BY <1>4 DEF ListDue
  <2>3. Described(i) => AccountSound(v)'
    BY <2>1, <2>2 DEF AccountSound, Described, Live, NoRow
  <2> QED BY <1>t, <2>1, <2>2, <2>3, Begins DEF Actors
<1>5. ASSUME NEW a \in Actors, Act(a) PROVE AccountsInv'
  <2>i. PICK i \in Accounts : i = task[a].on
    BY <1>k
  <2>1. PICK now \in Effect(task[a]) : Took(a, now)
    BY <1>5 DEF Act
  <2>2. /\ task[a].pc = "acting" /\ i \in Accounts
        /\ native' = [native EXCEPT ![i] = now] /\ managed' = managed
        /\ disturbed \subseteq disturbed'
        /\ \/ task' = [task EXCEPT ![a].pc = "saving"]
           \/ task' = [task EXCEPT ![a] = Idle] /\ i \in disturbed'
    BY <1>5, <1>k, <2>i, <2>1 DEF Act, Took, Trouble
  <2>3. ASSUME NEW j \in Accounts \ disturbed', j # i PROVE Calm(j)'
    <3>1. /\ \A b \in Actors \ {a} : task'[b] = task[b]
          /\ task'[a].on = i \/ task'[a].pc = "idle"
      BY <1>k, <1>t, <2>i, <2>2 DEF AccountsTypeOK, Actors, Idle, Task
    <3>2. \A k \in Accounts \ {i} : native'[k] = native[k] /\ managed'[k] = managed[k]
      BY <1>t, <2>i, <2>2 DEF AccountsTypeOK
    <3> QED BY <1>t, <2>i, <2>2, <2>3, <3>1, <3>2, Others
  <2>4. ASSUME i \notin disturbed' PROVE Calm(i)'
    <3>1. /\ task' = [task EXCEPT ![a].pc = "saving"] /\ i \notin disturbed
          /\ task'[a] = [task[a] EXCEPT !.pc = "saving"]
      BY <1>t, <2>i, <2>2, <2>4 DEF AccountsTypeOK, Actors
    <3>2. Calm(i) /\ a \in Touching(i)
      BY <1>t, <2>i, <2>2, <3>1, TouchingIs DEF AccountsInv
    <3>3. AccountSound(a) /\ Touching(i) = {a}
      BY <3>2 DEF Calm
    <3>4. Touching(i)' = {a}
      BY <1>t, <2>i, <3>1, <3>3, TouchingIs DEF AccountsTypeOK, Touching, Actors
    <3>5. now = Meant(NewRow(task[a]))
      BY <1>t, <2>i, <2>2, <3>3, EffectFits
    <3>6. NewRow([task[a] EXCEPT !.pc = "saving"]) = NewRow(task[a])
      BY <1>k DEF NewRow, Task
    <3>7. task'[a].on = i /\ task'[a].pc = "saving" /\ native'[i] = now
      BY <1>k, <1>t, <2>i, <2>2, <3>1 DEF AccountsTypeOK, Task
    <3>8. AccountSound(a)'
      BY <3>1, <3>5, <3>6, <3>7 DEF AccountSound
    <3> QED BY <3>4, <3>8 DEF Calm
  <2> QED BY <1>t, <2>i, <2>3, <2>4 DEF AccountsInv
<1>6. ASSUME NEW a \in Actors, Refuse(a) PROVE AccountsInv'
  <2>i. PICK i \in Accounts : i = task[a].on
    BY <1>k
  <2> DEFINE failing == [task[a] EXCEPT !.pc = "failing"]
  <2>1. /\ task[a].pc = "acting" /\ i \in Accounts
        /\ UNCHANGED <<native, managed, disturbed>>
        /\ \/ /\ task[a].kind \in {"check", "verify"} /\ task' = [task EXCEPT ![a] = failing]
           \/ task' = [task EXCEPT ![a] = Idle]
    BY <1>6, <1>k, <2>i DEF Refuse
  <2>2. failing.on = i /\ failing.pc = "failing" /\ failing.kind = task[a].kind /\ failing.copy = task[a].copy
    BY <1>k, <2>i DEF Task
  <2> HIDE DEF failing
  <2>3. ASSUME NEW j \in Accounts \ disturbed', j # i PROVE Calm(j)'
    <3>1. /\ \A b \in Actors \ {a} : task'[b] = task[b]
          /\ task'[a].on = i \/ task'[a].pc = "idle"
      BY <1>t, <2>i, <2>1, <2>2 DEF AccountsTypeOK, Actors, Idle
    <3> QED BY <1>t, <2>i, <2>1, <2>3, <3>1, Others
  <2>4. ASSUME i \notin disturbed' PROVE Calm(i)'
    <3>1. Calm(i) /\ a \in Touching(i)
      BY <1>t, <2>i, <2>1, <2>4, TouchingIs DEF AccountsInv
    <3>2. AccountSound(a) /\ Touching(i) = {a} /\ Described(i)
      BY <2>i, <2>1, <3>1 DEF Calm, AccountSound
    <3>3. Described(i)'
      BY <2>1, <3>2 DEF Described
    <3>4. CASE task[a].kind \in {"check", "verify"} /\ task' = [task EXCEPT ![a] = failing]
      <4>1. Touching(i)' = {a} /\ task'[a] = failing
        BY <1>t, <2>i, <2>2, <3>2, <3>4, TouchingIs DEF AccountsTypeOK, Touching, Actors
      <4>2. AccountSound(a)'
        BY <2>i, <2>1, <2>2, <3>2, <3>3, <3>4, <4>1 DEF AccountSound
      <4> QED BY <4>1, <4>2 DEF Calm
    <3>5. CASE task' = [task EXCEPT ![a] = Idle]
      <4>1. Touching(i)' = {}
        BY <1>t, <2>i, <3>2, <3>5, TouchingIs DEF AccountsTypeOK, Touching, Actors, Idle
      <4> QED BY <3>3, <4>1 DEF Calm
    <3> QED BY <2>1, <3>4, <3>5
  <2> QED BY <1>t, <2>i, <2>3, <2>4 DEF AccountsInv
<1>7. ASSUME NEW a \in Actors, ActError(a) \/ SaveError(a) PROVE AccountsInv'
  <2>i. PICK i \in Accounts : i = task[a].on
    BY <1>k
  <2>1. /\ task[a].pc \notin {"idle", "swept"} /\ i \in Accounts /\ i \in disturbed'
        /\ disturbed \subseteq disturbed' /\ native' = native
    BY <1>7, <1>k, <2>i DEF ActError, SaveError, Trouble
  <2>2. /\ \A b \in Actors \ {a} : task'[b] = task[b]
        /\ task'[a].on = i \/ task'[a].pc = "idle"
    BY <1>7, <1>k, <2>i, <1>t DEF ActError, SaveError, AccountsTypeOK, Actors, Idle, Task
  <2>3. \A k \in Accounts \ {i} : managed'[k] = managed[k]
    BY <1>7, <1>t, <2>i DEF ActError, SaveError, Put, AccountsTypeOK
  <2>4. ASSUME NEW j \in Accounts \ disturbed' PROVE Calm(j)'
    BY <1>t, <2>i, <2>1, <2>2, <2>3, Others
  <2> QED BY <1>t, <2>i, <2>4 DEF AccountsInv
<1>8. ASSUME NEW a \in Actors, Save(a) PROVE AccountsInv'
  <2>i. PICK i \in Accounts : i = task[a].on
    BY <1>k
  <2> DEFINE row == Pending(task[a])
  <2>1. /\ task[a].pc \in {"saving", "failing"} /\ i \in Accounts /\ Put(i, row)
        /\ UNCHANGED <<native, disturbed>> /\ task' = [task EXCEPT ![a] = Idle]
        /\ row \in Row
    BY <1>8, <1>k, <2>i, RowsTyped DEF Save, Pending
  <2>2. Meant(managed'[i]) = Meant(row) /\ \A k \in Accounts \ {i} : managed'[k] = managed[k]
    BY <1>t, <2>i, <2>1, PutMeans
  <2>3. ASSUME NEW j \in Accounts \ disturbed', j # i PROVE Calm(j)'
    <3>1. /\ \A b \in Actors \ {a} : task'[b] = task[b] /\ task'[a].pc = "idle"
      BY <1>t, <2>i, <2>1 DEF AccountsTypeOK, Actors, Idle
    <3>2. task'[a].pc = "idle"
      BY <1>t, <2>i, <2>1 DEF AccountsTypeOK, Actors, Idle
    <3> QED BY <1>t, <2>i, <2>1, <2>2, <2>3, <3>1, <3>2, Others
  <2>4. ASSUME i \notin disturbed' PROVE Calm(i)'
    <3>1. Calm(i) /\ a \in Touching(i)
      BY <1>t, <2>i, <2>1, <2>4, TouchingIs DEF AccountsInv
    <3>2. AccountSound(a) /\ Touching(i) = {a}
      BY <3>1 DEF Calm
    <3>3. native[i] = Meant(row)
      BY <1>t, <2>i, <2>1, <3>2, FailureFits DEF Pending, AccountSound
    <3>4. Touching(i)' = {}
      BY <1>t, <2>i, <2>1, <3>2, TouchingIs DEF AccountsTypeOK, Touching, Actors, Idle
    <3> QED BY <2>1, <2>2, <3>3, <3>4 DEF Calm, Described
  <2> QED BY <1>t, <2>i, <2>3, <2>4 DEF AccountsInv
<1>9. ASSUME NEW i \in Accounts, Meddle(i) PROVE AccountsInv'
  <2>1. /\ \A j \in Accounts \ {i} : native'[j] = native[j]
        /\ UNCHANGED <<managed, task>> /\ i \in disturbed' /\ disturbed \subseteq disturbed'
    BY <1>9, <1>t DEF Meddle, Trouble, AccountsTypeOK
  <2>2. ASSUME NEW j \in Accounts \ disturbed' PROVE Calm(j)'
    <3>1. Calm(j) /\ native'[j] = native[j] /\ (Described(j) => Described(j)')
      BY <2>1 DEF AccountsInv, Described
    <3> QED BY <1>t, <2>1, <3>1, Unmoved
  <2> QED BY <1>t, <2>2 DEF AccountsInv
<1>10. CASE RecoveryTick
  <2>1. ASSUME NEW j \in Accounts \ disturbed PROVE Calm(j)'
    <3>1. /\ managed[j] \in Row
          /\ managed'[j] = [managed[j] EXCEPT !.window = IF @ = 0 THEN 0 ELSE @ - 1]
      BY <1>10, <1>t DEF RecoveryTick, AccountsTypeOK
    <3>2. /\ Meant(managed'[j]) = Meant(managed[j])
          /\ managed[j] = NoRow => managed'[j] = NoRow
      BY <3>1 DEF Meant, Live, Row, NoRow
    <3>3. Calm(j) /\ native'[j] = native[j] /\ (Described(j) => Described(j)')
      BY <1>10, <3>2 DEF AccountsInv, Described, RecoveryTick
    <3> QED BY <1>10, <1>t, <3>3, Unmoved DEF RecoveryTick
  <2> QED BY <1>10, <1>t, <2>1 DEF AccountsInv, RecoveryTick
<1>11. CASE UNCHANGED accountVars
  <2>1. ASSUME NEW j \in Accounts \ disturbed PROVE Calm(j)'
    <3>1. Calm(j) /\ (Described(j) => Described(j)')
      BY <1>11 DEF AccountsInv, Described, accountVars
    <3> QED BY <1>11, <1>t, <3>1, Unmoved DEF accountVars
  <2> QED BY <1>11, <1>t, <2>1 DEF AccountsInv, accountVars
<1> QED
  BY <1>1, <1>2, <1>3, <1>4, <1>5, <1>6, <1>7, <1>8, <1>9, <1>10, <1>11
  DEF AccountsNext, Proceed, Actors

LEMMA AccountsStart == AccountsInit => AccountsInv
<1> SUFFICES ASSUME AccountsInit PROVE AccountsInv
  OBVIOUS
<1>1. AccountsTypeOK
  BY TypeInitially
<1>2. ASSUME NEW i \in Accounts PROVE Touching(i) = {} /\ Described(i)
  BY <1>1, TouchingIs DEF AccountsInit, Idle, Described, Actors
<1> QED BY <1>1, <1>2 DEF AccountsInv, Calm

\* Whatever operations follow each other, the row and the account agree when nothing
\* is under way, as long as no call on the account failed, nobody else touched it, and
\* operations on it did not overlap.
THEOREM RowsDescribeTarget == AccountsSpec => []RowDescribesTarget
<1>1. AccountsInv => RowDescribesTarget
  BY DEF AccountsInv, Calm, Described, Meant, RowDescribesTarget
<1> QED BY <1>1, AccountsStart, AccountsStep, PTL DEF AccountsSpec

-----------------------------------------------------------------------------
(* Web users and sessions *)


Tokened == {"get", "reread", "store", "check", "user", "touch", "touchGet", "touchSet",
            "remove", "drop"}
Acting == {"verified", "get", "reread", "store", "check", "user", "touch", "touchGet",
           "touchSet", "in"}
Checking == {"store", "check"}
Admitted == {"user", "touch", "touchGet", "touchSet"}

-----------------------------------------------------------------------------
(* The inductive invariant *)

\* A request at a step that uses its token, its user or its target has one; whoever
\* takes an administrator away protects the last; and an age that a request holds
\* covers the time since its session last passed the expiry check.
Sound(q) ==
  /\ q.pc \in Tokened => q.token \in Sessions
  /\ q.pc \in Acting => q.actor \in Users
  /\ q.pc \in {"asked", "invalidate"} => q.target \in Users
  /\ q.pc = "asked" /\ q.task \in {"disable", "demote"} => q.protect
  /\ q.pc \in Checking => quiet[q.token] <= q.copy
  /\ q.pc \in Admitted => quiet[q.token] <= q.stamp

RequestsSound == req \in [Clients -> SessionRequest] /\ \A r \in Clients : Sound(req[r])

\* So does every copy of a row, in Redis or on the way there.
CopiesSound ==
  /\ cache \in [Sessions -> Entry \cup {NoEntry}]
  /\ late \subseteq CacheWrite
  /\ \A s \in Sessions : cache[s] # NoEntry => quiet[s] <= cache[s].age
  /\ \A w \in late : quiet[w.session] <= w.age

RowsSound ==
  /\ owner \in [Sessions -> Users \cup {NoUser}]
  /\ live \subseteq Sessions
  /\ seenAge \in [Sessions -> 0..IdleTicks]
  /\ left \in [Sessions -> 0..AbsoluteTicks]
  /\ opened \in [Sessions -> 0..MaxChanges]
  /\ overtaken \subseteq Sessions
  /\ quiet \in [Sessions -> 0..IdleTicks]
  /\ \A s \in live : owner[s] \in Users /\ quiet[s] <= seenAge[s]

UsersTyped ==
  /\ role \in [Users -> {"new", "admin", "user", "gone"}]
  /\ enabled \in [Users -> BOOLEAN]
  /\ temporary \subseteq Users
  /\ revision \in [Users -> Nat]
  /\ changes \in 0..MaxChanges

\* The requests that will still change a user count against MaxChanges already.
Asked(u) == {r \in Clients : req[r].pc = "asked" /\ req[r].target = u}
Counted == \A u \in Users : revision[u] + Cardinality(Asked(u)) <= changes

SessionsInv == UsersTyped /\ RowsSound /\ CopiesSound /\ RequestsSound /\ Counted

-----------------------------------------------------------------------------
(* Types *)

LEMMA SessionConstants ==
  /\ Free \in SessionRequest
  /\ MaxChanges \in Nat /\ MaxLate \in Nat
  /\ IdleTicks \in Nat \ {0} /\ AbsoluteTicks \in Nat \ {0} /\ CacheTicks \in Nat \ {0}
  /\ 0 \in 0..MaxChanges /\ 0 \in 0..IdleTicks
  /\ Unlimited \in Nat \ {0} /\ CacheTicks \in 1..Unlimited /\ Unlimited \in 1..Unlimited
<1>1. 0 \in 0..MaxChanges /\ 0 \in 0..IdleTicks
  BY SessionsAssumption
<1>2. Free \in SessionRequest
  BY <1>1 DEF Free, SessionRequest
<1> QED BY <1>1, <1>2, SessionsAssumption DEF Unlimited

\* A request with another value in one field is a request.
LEMMA RequestWith ==
  ASSUME NEW q \in SessionRequest
  PROVE  /\ \A x \in {"free", "verified", "get", "reread", "store", "check", "user", "touch",
                      "touchGet", "touchSet", "in", "asked", "invalidate", "remove", "drop"} :
              [q EXCEPT !.pc = x] \in SessionRequest
         /\ \A x \in Sessions \cup {NoSession} : [q EXCEPT !.token = x] \in SessionRequest
         /\ \A x \in Users \cup {NoUser} : /\ [q EXCEPT !.actor = x] \in SessionRequest
                                          /\ [q EXCEPT !.target = x] \in SessionRequest
         /\ \A x \in {"none", "admin", "user"} : [q EXCEPT !.rights = x] \in SessionRequest
         /\ \A x \in 0..MaxChanges : [q EXCEPT !.seen = x] \in SessionRequest
         /\ \A x \in 0..IdleTicks : /\ [q EXCEPT !.copy = x] \in SessionRequest
                                    /\ [q EXCEPT !.stamp = x] \in SessionRequest
         /\ \A x \in Updates \cup {"visit", "logout", "create", "delete", "password"} :
              [q EXCEPT !.task = x] \in SessionRequest
         /\ \A x \in BOOLEAN : [q EXCEPT !.protect = x] \in SessionRequest
  BY DEF SessionRequest

\* An age grows up to IdleTicks and keeps its order.
LEMMA OlderBounds ==
  ASSUME NEW m \in 0..IdleTicks, NEW n \in 0..IdleTicks
  PROVE  Older(m) \in 0..IdleTicks /\ (m <= n => Older(m) <= Older(n))
  BY SessionConstants DEF Older

\* The revision of a user is at most the number of changes asked for.
LEMMA RevisionBound ==
  ASSUME SessionsInv, NEW u \in Users
  PROVE  revision[u] \in 0..MaxChanges
<1>1. Asked(u) \subseteq Clients
  BY DEF Asked
<1>2. Cardinality(Asked(u)) \in Nat
  BY <1>1, FS_Subset, FS_CardinalityType, SessionsAssumption
<1> QED BY <1>2, SessionConstants DEF SessionsInv, UsersTyped, Counted

-----------------------------------------------------------------------------
(* One request moves on *)

\* What a request asks for stays counted while it does not begin to ask.
LEMMA CountKept ==
  ASSUME Counted, UsersTyped, NEW r \in Clients, NEW q,
         req \in [Clients -> SessionRequest],
         req' = [req EXCEPT ![r] = q],
         q.pc = "asked" => req[r].pc = "asked" /\ q.target = req[r].target,
         UNCHANGED <<revision, changes>>
  PROVE  Counted'
<1> SUFFICES ASSUME NEW u \in Users
             PROVE  revision[u] + Cardinality(Asked(u)') <= changes
  BY DEF Counted
<1>1. Asked(u)' \subseteq Asked(u)
  BY DEF Asked
<1>2. IsFiniteSet(Asked(u))
  BY FS_Subset, SessionsAssumption DEF Asked
<1>3. /\ Cardinality(Asked(u)') <= Cardinality(Asked(u))
      /\ Cardinality(Asked(u)') \in Nat /\ Cardinality(Asked(u)) \in Nat
  BY <1>1, <1>2, FS_Subset, FS_CardinalityType
<1>4. /\ revision[u] + Cardinality(Asked(u)) <= changes
      /\ revision[u] \in Nat /\ changes \in Nat
  BY SessionConstants DEF Counted, UsersTyped
<1> HIDE DEF Counted
<1> QED BY <1>3, <1>4

\* The requests stay sound when one of them moves on and sessions are no longer quiet
\* than before.
LEMMA RequestMoves ==
  ASSUME RequestsSound, NEW r \in Clients, NEW q \in SessionRequest,
         req' = [req EXCEPT ![r] = q],
         quiet \in [Sessions -> 0..IdleTicks], quiet' \in [Sessions -> 0..IdleTicks],
         \A s \in Sessions : quiet'[s] <= quiet[s],
         Sound(q)'
  PROVE  RequestsSound'
<1>1. req' \in [Clients -> SessionRequest]
  BY DEF RequestsSound
<1>2. ASSUME NEW x \in Clients
      PROVE  Sound(req[x])'
  <2>1. CASE x = r
    <3>1. req'[x] = q
      BY <2>1 DEF RequestsSound
    <3> QED BY <3>1 DEF Sound
  <2>2. CASE x # r
    <3>1. req'[x] = req[x]
      BY <2>2 DEF RequestsSound
    <3>2. PICK p \in SessionRequest : p = req[x] /\ Sound(p)
      BY DEF RequestsSound
    <3>3. p.copy \in 0..IdleTicks /\ p.stamp \in 0..IdleTicks
      BY DEF SessionRequest
    <3>4. p.pc \in Checking \cup Admitted =>
            /\ p.token \in Sessions /\ quiet'[p.token] <= quiet[p.token]
            /\ quiet'[p.token] \in Int /\ quiet[p.token] \in Int
      BY <3>2 DEF Sound, Checking, Admitted, Tokened
    <3>5. /\ p.pc \in Checking => quiet'[p.token] <= p.copy
          /\ p.pc \in Admitted => quiet'[p.token] <= p.stamp
      BY <3>2, <3>3, <3>4, SessionConstants DEF Sound
    <3>6. Sound(p)'
      BY <3>2, <3>5 DEF Sound
    <3> QED BY <3>1, <3>2, <3>6 DEF Sound
  <2> QED BY <2>1, <2>2
<1> QED BY <1>1, <1>2 DEF RequestsSound

\* A step in which nothing but one request changes.
LEMMA OnlyRequest ==
  ASSUME SessionsInv, NEW r \in Clients, NEW q \in SessionRequest,
         req' = [req EXCEPT ![r] = q],
         q.pc = "asked" => req[r].pc = "asked" /\ q.target = req[r].target,
         UNCHANGED <<userVars, sessionRows, redisVars, changes, historyVars>>,
         Sound(q)
  PROVE  SessionsInv'
<1> USE DEF userVars, sessionRows, redisVars, historyVars
<1>1. UsersTyped' /\ RowsSound' /\ CopiesSound'
  BY DEF SessionsInv, UsersTyped, RowsSound, CopiesSound
<1>2. Counted'
  BY CountKept DEF SessionsInv, RequestsSound
<1>3. Sound(q)'
  BY DEF Sound
<1>4. quiet \in [Sessions -> 0..IdleTicks] /\ quiet' = quiet
  BY DEF SessionsInv, RowsSound
<1>5. \A s \in Sessions : quiet'[s] <= quiet[s]
  BY <1>4, SessionConstants
<1>6. RequestsSound'
  BY <1>3, <1>4, <1>5, RequestMoves DEF SessionsInv
<1> QED BY <1>1, <1>2, <1>6 DEF SessionsInv

-----------------------------------------------------------------------------
(* The steps that change a request and nothing else *)

LEMMA LoginReadStep ==
  ASSUME SessionsInv, NEW r \in Clients, NEW u \in Users, LoginRead(r, u)
  PROVE  SessionsInv'
<1> DEFINE q1 == [Free EXCEPT !.pc = "verified"]
           q2 == [q1 EXCEPT !.actor = u]
           q == [q2 EXCEPT !.seen = revision[u]]
<1>1. q.pc = "verified" /\ q.actor = u
  BY DEF Free
<1>2. q \in SessionRequest
  <2>1. q1 \in SessionRequest
    BY RevisionBound, SessionConstants, RequestWith
  <2> HIDE DEF q1
  <2>2. q2 \in SessionRequest
    BY <2>1, RevisionBound, SessionConstants, RequestWith
  <2> HIDE DEF q2
  <2> QED BY <2>2, RevisionBound, SessionConstants, RequestWith
<1>3. Sound(q) /\ q.pc # "asked"
  BY <1>1 DEF Sound, Tokened, Acting, Checking, Admitted
<1>4. req' = [req EXCEPT ![r] = q]
  BY DEF LoginRead
<1> HIDE DEF q
<1> QED BY <1>2, <1>3, <1>4, OnlyRequest DEF LoginRead

LEMMA LookupStep ==
  ASSUME SessionsInv, NEW r \in Clients, NEW s \in Sessions,
         NEW asked \in {"visit", "logout"}, Lookup(r, s, asked)
  PROVE  SessionsInv'
<1> DEFINE q1 == [Free EXCEPT !.pc = "get"]
           q2 == [q1 EXCEPT !.token = s]
           q3 == [q2 EXCEPT !.task = asked]
           q4 == [q3 EXCEPT !.actor = owner[s]]
           q == [q4 EXCEPT !.seen = revision[owner[s]]]
<1>1. q.pc = "get" /\ q.token = s /\ q.actor = owner[s]
  BY DEF Free
<1>2. owner[s] \in Users
  BY DEF Lookup, SessionsInv, RowsSound
<1>3. revision[owner[s]] \in 0..MaxChanges
  BY <1>2, RevisionBound
<1>4. q \in SessionRequest
  <2>1. q1 \in SessionRequest
    BY <1>2, <1>3, SessionConstants, RequestWith
  <2> HIDE DEF q1
  <2>2. q2 \in SessionRequest
    BY <2>1, <1>2, <1>3, SessionConstants, RequestWith
  <2> HIDE DEF q2
  <2>3. q3 \in SessionRequest
    BY <2>2, <1>2, <1>3, SessionConstants, RequestWith
  <2> HIDE DEF q3
  <2>4. q4 \in SessionRequest
    BY <2>3, <1>2, <1>3, SessionConstants, RequestWith
  <2> HIDE DEF q4
  <2> QED BY <2>4, <1>2, <1>3, SessionConstants, RequestWith
<1>5. Sound(q) /\ q.pc # "asked"
  BY <1>1, <1>2 DEF Sound, Tokened, Acting, Checking, Admitted
<1>6. req' = [req EXCEPT ![r] = q]
  BY DEF Lookup
<1> HIDE DEF q
<1> QED BY <1>4, <1>5, <1>6, OnlyRequest DEF Lookup

\* A request that has read the age of its row: from the cache or from the row itself.
LEMMA AgeRead ==
  ASSUME SessionsInv, NEW r \in Clients, req[r].pc \in {"get", "reread"},
         NEW step \in Checking, NEW age \in 0..IdleTicks, quiet[req[r].token] <= age,
         req' = [req EXCEPT ![r].pc = step, ![r].copy = age],
         UNCHANGED <<userVars, sessionRows, redisVars, changes, historyVars>>
  PROVE  SessionsInv'
<1>1. PICK p \in SessionRequest : p = req[r] /\ Sound(p)
  BY DEF SessionsInv, RequestsSound
<1> DEFINE p1 == [p EXCEPT !.pc = step]
           q == [p1 EXCEPT !.copy = age]
<1>2. p1 \in SessionRequest
  BY RequestWith DEF Checking
<1>3. q \in SessionRequest
  <2> HIDE DEF p1
  <2> QED BY <1>2, RequestWith
<1>4. req' = [req EXCEPT ![r] = q]
  BY <1>1 DEF SessionsInv, RequestsSound
<1>5. /\ p.pc \in {"get", "reread"} /\ q.pc = step /\ q.copy = age
      /\ q.token = p.token /\ q.actor = p.actor
  BY <1>1 DEF SessionRequest
<1>6. Sound(q) /\ q.pc # "asked"
  <2> HIDE DEF q
  <2> QED BY <1>1, <1>5 DEF Sound, Tokened, Acting, Checking, Admitted
<1> HIDE DEF q
<1> QED BY <1>3, <1>4, <1>6, OnlyRequest

LEMMA CacheHitStep ==
  ASSUME SessionsInv, NEW r \in Clients, CacheHit(r)
  PROVE  SessionsInv'
<1>1. req[r].token \in Sessions
  BY DEF CacheHit, SessionsInv, RequestsSound, Sound, Tokened
<1>2. PICK s \in Sessions : s = req[r].token
  BY <1>1
<1>3. cache[s] \in Entry /\ quiet[s] <= cache[s].age
  BY <1>2 DEF CacheHit, SessionsInv, CopiesSound
<1>4. cache[s].age \in 0..IdleTicks
  BY <1>3 DEF Entry
<1> QED BY <1>2, <1>3, <1>4, AgeRead DEF CacheHit, Checking

LEMMA RereadStep ==
  ASSUME SessionsInv, NEW r \in Clients, Reread(r)
  PROVE  SessionsInv'
<1>1. CASE req[r].token \in live
  <2>1. PICK s \in live : s = req[r].token
    BY <1>1
  <2>2. seenAge[s] \in 0..IdleTicks /\ quiet[s] <= seenAge[s]
    BY DEF SessionsInv, RowsSound
  <2> QED BY <1>1, <2>1, <2>2, AgeRead DEF Reread, Checking
<1>2. CASE req[r].token \notin live
  <2>1. Sound(Free) /\ Free.pc # "asked"
    BY DEF Free, Sound, Tokened, Acting, Checking, Admitted
  <2> QED BY <1>2, <2>1, SessionConstants, OnlyRequest DEF Reread
<1> QED BY <1>1, <1>2

LEMMA CacheMissStep ==
  ASSUME SessionsInv, NEW r \in Clients, CacheMiss(r)
  PROVE  SessionsInv'
<1>1. PICK p \in SessionRequest : p = req[r] /\ Sound(p)
  BY DEF SessionsInv, RequestsSound
<1> DEFINE q == [p EXCEPT !.pc = "reread"]
<1>2. q \in SessionRequest
  BY RequestWith
<1>3. q.pc = "reread" /\ p.pc = "get" /\ q.token = p.token /\ q.actor = p.actor
  BY <1>1 DEF SessionRequest, CacheMiss
<1>4. req' = [req EXCEPT ![r] = q]
  BY <1>1 DEF CacheMiss, SessionsInv, RequestsSound
<1> HIDE DEF q
<1>5. Sound(q)
  BY <1>1, <1>3 DEF Sound, Tokened, Acting, Checking, Admitted
<1> QED BY <1>2, <1>3, <1>4, <1>5, OnlyRequest DEF CacheMiss

\* A request becomes free, or goes on with its token or its user alone.
LEMMA Freed ==
  ASSUME SessionsInv, NEW r \in Clients,
         \/ req' = [req EXCEPT ![r] = Free]
         \/ /\ req[r].pc \in Tokened
            /\ req' = [req EXCEPT ![r] = [Free EXCEPT !.pc = "remove", !.token = req[r].token]]
         \/ req[r].pc \in Acting /\ req' = [req EXCEPT ![r] = In(r)],
         UNCHANGED <<userVars, sessionRows, redisVars, changes, historyVars>>
  PROVE  SessionsInv'
<1>1. PICK p \in SessionRequest : p = req[r] /\ Sound(p)
  BY DEF SessionsInv, RequestsSound
<1>2. CASE req' = [req EXCEPT ![r] = Free]
  <2>1. Sound(Free) /\ Free.pc # "asked"
    BY DEF Free, Sound, Tokened, Acting, Checking, Admitted
  <2> QED BY <1>2, <2>1, SessionConstants, OnlyRequest
<1>3. CASE /\ req[r].pc \in Tokened
           /\ req' = [req EXCEPT ![r] = [Free EXCEPT !.pc = "remove", !.token = req[r].token]]
  <2> DEFINE q1 == [Free EXCEPT !.pc = "remove"]
             q == [q1 EXCEPT !.token = p.token]
  <2>1. q.pc = "remove" /\ q.token = p.token
    BY DEF Free
  <2>2. p.token \in Sessions
    BY <1>1, <1>3 DEF Sound
  <2>3. q \in SessionRequest
    <3>1. q1 \in SessionRequest
      BY <2>2, SessionConstants, RequestWith
    <3> HIDE DEF q1
    <3> QED BY <3>1, <2>2, SessionConstants, RequestWith
  <2>4. Sound(q) /\ q.pc # "asked"
    BY <2>1, <2>2 DEF Sound, Tokened, Acting, Checking, Admitted
  <2>5. req' = [req EXCEPT ![r] = q]
    BY <1>1, <1>3
  <2> HIDE DEF q
  <2> QED BY <2>3, <2>4, <2>5, OnlyRequest
<1>4. CASE req[r].pc \in Acting /\ req' = [req EXCEPT ![r] = In(r)]
  <2> DEFINE q1 == [Free EXCEPT !.pc = "in"]
             q2 == [q1 EXCEPT !.actor = p.actor]
             q == [q2 EXCEPT !.rights = p.rights]
  <2>1. q.pc = "in" /\ q.actor = p.actor
    BY DEF Free
  <2>2. p.actor \in Users /\ p.rights \in {"none", "admin", "user"}
    BY <1>1, <1>4 DEF Sound, SessionRequest
  <2>3. q \in SessionRequest
    <3>1. q1 \in SessionRequest
      BY <2>2, SessionConstants, RequestWith
    <3> HIDE DEF q1
    <3>2. q2 \in SessionRequest
      BY <3>1, <2>2, SessionConstants, RequestWith
    <3> HIDE DEF q2
    <3> QED BY <3>2, <2>2, SessionConstants, RequestWith
  <2>4. Sound(q) /\ q.pc # "asked"
    BY <2>1, <2>2 DEF Sound, Tokened, Acting, Checking, Admitted
  <2>5. req' = [req EXCEPT ![r] = q]
    BY <1>1, <1>4 DEF In
  <2> HIDE DEF q
  <2> QED BY <2>3, <2>4, <2>5, OnlyRequest
<1> QED BY <1>2, <1>3, <1>4

LEMMA ReadUserStep ==
  ASSUME SessionsInv, NEW r \in Clients, ReadUser(r)
  PROVE  SessionsInv'
<1>1. PICK p \in SessionRequest : p = req[r] /\ Sound(p)
  BY DEF SessionsInv, RequestsSound
<1>2. p.pc = "user" /\ p.actor \in Users
  BY <1>1 DEF ReadUser, Sound, Acting
<1>3. CASE UserExists(p.actor) /\ enabled[p.actor]
  <2>1. PICK x \in {"none", "admin", "user"} :
          x = IF p.actor \in temporary THEN "none" ELSE role[p.actor]
    BY <1>3 DEF UserExists
  <2> DEFINE p1 == [p EXCEPT !.pc = "touch"]
             q == [p1 EXCEPT !.rights = x]
  <2>2. p1 \in SessionRequest
    BY RequestWith
  <2>3. q \in SessionRequest
    <3> HIDE DEF p1
    <3> QED BY <2>2, RequestWith
  <2>4. q.pc = "touch" /\ q.token = p.token /\ q.actor = p.actor /\ q.stamp = p.stamp
    BY DEF SessionRequest
  <2>5. req' = [req EXCEPT ![r] = q]
    BY <1>1, <1>3, <2>1 DEF ReadUser, SessionsInv, RequestsSound
  <2> HIDE DEF q
  <2>6. Sound(q)
    BY <1>1, <1>2, <2>4 DEF Sound, Tokened, Acting, Checking, Admitted
  <2> QED BY <2>3, <2>4, <2>5, <2>6, OnlyRequest DEF ReadUser
<1>4. CASE ~(UserExists(p.actor) /\ enabled[p.actor])
  BY <1>1, <1>2, <1>4, Freed DEF ReadUser, Tokened
<1> QED BY <1>3, <1>4

LEMMA TouchGetStep ==
  ASSUME SessionsInv, NEW r \in Clients, TouchGet(r)
  PROVE  SessionsInv'
<1>1. PICK p \in SessionRequest : p = req[r] /\ Sound(p)
  BY DEF SessionsInv, RequestsSound
<1>2. p.pc = "touchGet" /\ p.token \in Sessions
  BY <1>1 DEF TouchGet, Sound, Tokened
<1>3. ASSUME cache[p.token] # NoEntry,
             req' = [req EXCEPT ![r].pc = "touchSet", ![r].seen = cache[p.token].revision]
      PROVE  SessionsInv'
  <2>1. PICK n \in 0..MaxChanges : n = cache[p.token].revision
    BY <1>2, <1>3 DEF SessionsInv, CopiesSound, Entry
  <2> DEFINE p1 == [p EXCEPT !.pc = "touchSet"]
             q == [p1 EXCEPT !.seen = n]
  <2>2. p1 \in SessionRequest
    BY RequestWith
  <2>3. q \in SessionRequest
    <3> HIDE DEF p1
    <3> QED BY <2>2, RequestWith
  <2>4. q.pc = "touchSet" /\ q.token = p.token /\ q.actor = p.actor /\ q.stamp = p.stamp
    BY DEF SessionRequest
  <2>5. req' = [req EXCEPT ![r] = q]
    BY <1>1, <1>3, <2>1 DEF SessionsInv, RequestsSound
  <2> HIDE DEF q
  <2>6. Sound(q)
    BY <1>1, <1>2, <2>4 DEF Sound, Tokened, Acting, Checking, Admitted
  <2> QED BY <2>3, <2>4, <2>5, <2>6, OnlyRequest DEF TouchGet
<1>4. CASE req' = [req EXCEPT ![r] = In(r)]
  BY <1>1, <1>2, <1>4, Freed DEF TouchGet, Acting
<1> QED BY <1>1, <1>3, <1>4 DEF TouchGet

-----------------------------------------------------------------------------
(* Copies of a row in Redis *)

LEMMA CopyPut ==
  ASSUME SessionsInv, NEW w \in CacheWrite, quiet[w.session] <= w.age,
         NEW ttl \in 1..Unlimited, PutCopy(w, ttl)
  PROVE  /\ cache' \in [Sessions -> Entry \cup {NoEntry}]
         /\ \A s \in Sessions : cache'[s] # NoEntry => quiet[s] <= cache'[s].age
<1> DEFINE e == [revision |-> w.revision, age |-> w.age, ttl |-> ttl]
<1>1. e \in Entry /\ e.age = w.age /\ w.session \in Sessions
  BY DEF CacheWrite, Entry
<1>2. cache' = [cache EXCEPT ![w.session] = e]
  BY DEF PutCopy
<1> HIDE DEF e
<1> QED BY <1>1, <1>2 DEF SessionsInv, CopiesSound

LEMMA CopyWritten ==
  ASSUME SessionsInv, NEW w \in CacheWrite, quiet[w.session] <= w.age,
         CacheSet(w), quiet' = quiet
  PROVE  CopiesSound'
<1>1. CASE \E ttl \in {CacheTicks, Unlimited} : PutCopy(w, ttl) /\ UNCHANGED late
  <2>1. PICK ttl \in 1..Unlimited : PutCopy(w, ttl) /\ UNCHANGED late
    BY <1>1, SessionConstants
  <2>2. /\ cache' \in [Sessions -> Entry \cup {NoEntry}]
        /\ \A s \in Sessions : cache'[s] # NoEntry => quiet[s] <= cache'[s].age
    BY <2>1, CopyPut
  <2> QED BY <2>1, <2>2 DEF SessionsInv, CopiesSound
<1>2. CASE UNCHANGED redisVars
  BY <1>2 DEF SessionsInv, CopiesSound, redisVars
<1>3. CASE late' = late \cup {w} /\ UNCHANGED cache
  BY <1>3 DEF SessionsInv, CopiesSound
<1> QED BY <1>1, <1>2, <1>3 DEF CacheSet

\* The copies stay sound when sessions are no longer quiet than before.
LEMMA CopiesKept ==
  ASSUME SessionsInv, UNCHANGED redisVars, quiet' \in [Sessions -> 0..IdleTicks],
         \A s \in Sessions : quiet'[s] <= quiet[s]
  PROVE  CopiesSound'
<1> USE DEF SessionsInv, CopiesSound, redisVars
<1>1. \A s \in Sessions : quiet'[s] \in Int /\ quiet[s] \in Int
  BY DEF RowsSound
<1>2. ASSUME NEW s \in Sessions, cache[s] # NoEntry
      PROVE  quiet'[s] <= cache[s].age
  <2>1. cache[s].age \in Int /\ quiet[s] <= cache[s].age
    BY <1>2 DEF Entry
  <2> QED BY <1>1, <2>1
<1>3. ASSUME NEW w \in late
      PROVE  quiet'[w.session] <= w.age
  <2>1. w.session \in Sessions /\ w.age \in Int /\ quiet[w.session] <= w.age
    BY DEF CacheWrite
  <2> QED BY <1>1, <2>1
<1> QED BY <1>2, <1>3

LEMMA QuietReset ==
  ASSUME SessionsInv, NEW s \in Sessions, quiet' = [quiet EXCEPT ![s] = 0]
  PROVE  /\ quiet' \in [Sessions -> 0..IdleTicks]
         /\ \A x \in Sessions : quiet'[x] <= quiet[x]
         /\ quiet'[s] = 0
<1>1. \A x \in Sessions : quiet[x] \in 0..IdleTicks
  BY DEF SessionsInv, RowsSound
<1>2. \A x \in Sessions : quiet'[x] = IF x = s THEN 0 ELSE quiet[x]
  BY DEF SessionsInv, RowsSound
<1>3. quiet' \in [Sessions -> 0..IdleTicks]
  BY SessionConstants DEF SessionsInv, RowsSound
<1> QED BY <1>1, <1>2, <1>3, SessionConstants

-----------------------------------------------------------------------------
(* The other steps of a request *)

LEMMA StoreCopyStep ==
  ASSUME SessionsInv, NEW r \in Clients, StoreCopy(r)
  PROVE  SessionsInv'
<1>1. PICK p \in SessionRequest : p = req[r] /\ Sound(p)
  BY DEF SessionsInv, RequestsSound
<1>2. /\ p.pc = "store" /\ p.token \in Sessions /\ quiet[p.token] <= p.copy
      /\ p.copy \in 0..IdleTicks /\ p.seen \in 0..MaxChanges
  BY <1>1 DEF StoreCopy, Sound, Tokened, Checking, SessionRequest
<1> DEFINE w == [session |-> p.token, revision |-> p.seen, age |-> p.copy]
           q == [p EXCEPT !.pc = "check"]
<1>3. w \in CacheWrite /\ w.session = p.token /\ w.age = p.copy
  BY <1>2 DEF CacheWrite
<1>4. CacheSet(w) /\ req' = [req EXCEPT ![r] = q]
  BY <1>1 DEF StoreCopy, SessionsInv, RequestsSound
<1>5. q \in SessionRequest
  BY RequestWith
<1>6. q.pc = "check" /\ q.token = p.token /\ q.actor = p.actor /\ q.copy = p.copy
  BY DEF SessionRequest
<1>7. quiet' = quiet /\ quiet \in [Sessions -> 0..IdleTicks]
  BY DEF StoreCopy, historyVars, SessionsInv, RowsSound
<1> HIDE DEF w, q
<1>8. CopiesSound'
  BY <1>2, <1>3, <1>4, <1>7, CopyWritten
<1>9. Sound(q)'
  BY <1>1, <1>2, <1>6, <1>7 DEF Sound, Tokened, Acting, Checking, Admitted
<1>10. \A s \in Sessions : quiet'[s] <= quiet[s]
  BY <1>7, SessionConstants
<1>11. RequestsSound'
  BY <1>4, <1>5, <1>7, <1>9, <1>10, RequestMoves DEF SessionsInv
<1>12. Counted'
  BY <1>4, <1>6, CountKept DEF StoreCopy, SessionsInv, RequestsSound, userVars
<1>13. UsersTyped' /\ RowsSound'
  BY DEF StoreCopy, SessionsInv, UsersTyped, RowsSound, userVars, sessionRows, historyVars
<1> QED BY <1>8, <1>11, <1>12, <1>13 DEF SessionsInv

LEMMA TouchSetStep ==
  ASSUME SessionsInv, NEW r \in Clients, TouchSet(r)
  PROVE  SessionsInv'
<1>1. PICK p \in SessionRequest : p = req[r] /\ Sound(p)
  BY DEF SessionsInv, RequestsSound
<1>2. /\ p.pc = "touchSet" /\ p.token \in Sessions /\ quiet[p.token] <= p.stamp
      /\ p.stamp \in 0..IdleTicks /\ p.seen \in 0..MaxChanges /\ p.actor \in Users
      /\ p.rights \in {"none", "admin", "user"}
  BY <1>1 DEF TouchSet, Sound, Tokened, Acting, Admitted, SessionRequest
<1> DEFINE w == [session |-> p.token, revision |-> p.seen, age |-> p.stamp]
           q1 == [Free EXCEPT !.pc = "in"]
           q2 == [q1 EXCEPT !.actor = p.actor]
           q == [q2 EXCEPT !.rights = p.rights]
<1>3. w \in CacheWrite /\ w.session = p.token /\ w.age = p.stamp
  BY <1>2 DEF CacheWrite
<1>4. CacheSet(w) /\ req' = [req EXCEPT ![r] = q]
  BY <1>1 DEF TouchSet, In
<1>5. q \in SessionRequest
  <2>1. q1 \in SessionRequest
    BY SessionConstants, RequestWith
  <2> HIDE DEF q1
  <2>2. q2 \in SessionRequest
    BY <1>2, <2>1, RequestWith
  <2> HIDE DEF q2
  <2> QED BY <1>2, <2>2, RequestWith
<1>6. q.pc = "in" /\ q.actor = p.actor
  BY DEF Free
<1>7. quiet' = quiet /\ quiet \in [Sessions -> 0..IdleTicks]
  BY DEF TouchSet, historyVars, SessionsInv, RowsSound
<1> HIDE DEF w, q
<1>8. CopiesSound'
  BY <1>2, <1>3, <1>4, <1>7, CopyWritten
<1>9. Sound(q)'
  BY <1>2, <1>6, <1>7 DEF Sound, Tokened, Acting, Checking, Admitted
<1>10. \A s \in Sessions : quiet'[s] <= quiet[s]
  BY <1>7, SessionConstants
<1>11. RequestsSound'
  BY <1>4, <1>5, <1>7, <1>9, <1>10, RequestMoves DEF SessionsInv
<1>12. Counted'
  BY <1>4, <1>6, CountKept DEF TouchSet, SessionsInv, RequestsSound, userVars
<1>13. UsersTyped' /\ RowsSound'
  BY DEF TouchSet, SessionsInv, UsersTyped, RowsSound, userVars, sessionRows, historyVars
<1> QED BY <1>8, <1>11, <1>12, <1>13 DEF SessionsInv

LEMMA AdmitStep ==
  ASSUME SessionsInv, NEW r \in Clients, Admit(r)
  PROVE  SessionsInv'
<1>1. PICK p \in SessionRequest : p = req[r] /\ Sound(p)
  BY DEF SessionsInv, RequestsSound
<1>2. p.pc = "check" /\ p.token \in Sessions /\ p.actor \in Users
  BY <1>1 DEF Admit, Sound, Tokened, Acting
<1> DEFINE q1 == [p EXCEPT !.pc = "user"]
           q2 == [q1 EXCEPT !.seen = 0]
           q == [q2 EXCEPT !.copy = 0]
<1>3. q \in SessionRequest
  <2>1. q1 \in SessionRequest
    BY RequestWith
  <2> HIDE DEF q1
  <2>2. q2 \in SessionRequest
    BY <2>1, RequestWith, SessionConstants
  <2> HIDE DEF q2
  <2> QED BY <2>2, RequestWith, SessionConstants
<1>4. /\ q.pc = "user" /\ q.token = p.token /\ q.actor = p.actor
      /\ q.stamp = p.stamp /\ p.stamp \in 0..IdleTicks
  BY DEF SessionRequest
<1>5. req' = [req EXCEPT ![r] = q]
  BY <1>1 DEF Admit, SessionsInv, RequestsSound
<1>6. quiet' = [quiet EXCEPT ![p.token] = 0]
  BY <1>1 DEF Admit
<1>7. /\ quiet' \in [Sessions -> 0..IdleTicks] /\ quiet \in [Sessions -> 0..IdleTicks]
      /\ \A x \in Sessions : quiet'[x] <= quiet[x]
      /\ quiet'[p.token] = 0
  BY <1>2, <1>6, QuietReset DEF SessionsInv, RowsSound
<1> HIDE DEF q
<1>8. Sound(q)'
  BY <1>2, <1>4, <1>7, SessionConstants DEF Sound, Tokened, Acting, Checking, Admitted
<1>9. RequestsSound'
  BY <1>3, <1>5, <1>7, <1>8, RequestMoves DEF SessionsInv
<1>10. CopiesSound'
  BY <1>7, CopiesKept DEF Admit
<1>11. Counted'
  BY <1>4, <1>5, CountKept DEF Admit, SessionsInv, RequestsSound, userVars
<1>12. UsersTyped'
  BY DEF Admit, SessionsInv, UsersTyped, userVars
<1>13. ASSUME NEW s \in live
       PROVE  quiet'[s] <= seenAge[s]
  <2>1. /\ s \in Sessions /\ quiet'[s] \in Int /\ quiet[s] \in Int /\ seenAge[s] \in Int
        /\ quiet[s] <= seenAge[s]
    BY <1>7 DEF SessionsInv, RowsSound
  <2> QED BY <1>7, <2>1
<1>14. RowsSound'
  BY <1>7, <1>13 DEF Admit, SessionsInv, RowsSound, sessionRows
<1> QED BY <1>9, <1>10, <1>11, <1>12, <1>14 DEF SessionsInv

\* A step that leaves the quiet times and the counts alone.
LEMMA RequestGoesOn ==
  ASSUME SessionsInv, NEW r \in Clients, NEW q \in SessionRequest,
         req' = [req EXCEPT ![r] = q], Sound(q),
         q.pc = "asked" => req[r].pc = "asked" /\ q.target = req[r].target,
         UNCHANGED <<quiet, revision, changes>>
  PROVE  RequestsSound' /\ Counted'
<1>1. /\ quiet \in [Sessions -> 0..IdleTicks] /\ quiet' = quiet
      /\ \A s \in Sessions : quiet'[s] <= quiet[s]
  BY SessionConstants DEF SessionsInv, RowsSound
<1>2. Sound(q)'
  BY DEF Sound
<1>3. RequestsSound'
  BY <1>1, <1>2, RequestMoves DEF SessionsInv
<1>4. Counted'
  BY CountKept DEF SessionsInv, RequestsSound
<1> QED BY <1>3, <1>4

LEMMA TouchStep ==
  ASSUME SessionsInv, NEW r \in Clients, Touch(r)
  PROVE  SessionsInv'
<1>1. PICK p \in SessionRequest : p = req[r] /\ Sound(p)
  BY DEF SessionsInv, RequestsSound
<1>2. /\ p.pc = "touch" /\ p.token \in Sessions /\ p.actor \in Users
      /\ quiet[p.token] <= p.stamp /\ p.stamp \in 0..IdleTicks
  BY <1>1 DEF Touch, Sound, Tokened, Acting, Admitted, SessionRequest
<1> DEFINE q == [p EXCEPT !.pc = "touchGet"]
<1>3. q \in SessionRequest
  BY RequestWith
<1>4. q.pc = "touchGet" /\ q.token = p.token /\ q.actor = p.actor /\ q.stamp = p.stamp
  BY DEF SessionRequest
<1>5. req' = [req EXCEPT ![r] = q]
  BY <1>1 DEF Touch, SessionsInv, RequestsSound
<1> HIDE DEF q
<1>6. Sound(q)
  BY <1>1, <1>2, <1>4 DEF Sound, Tokened, Acting, Checking, Admitted
<1>7. RequestsSound' /\ Counted'
  BY <1>3, <1>4, <1>5, <1>6, RequestGoesOn DEF Touch, userVars, historyVars
<1>8. CopiesSound' /\ UsersTyped'
  BY DEF Touch, SessionsInv, CopiesSound, UsersTyped, redisVars, userVars, historyVars
<1>9. /\ seenAge' \in [Sessions -> 0..IdleTicks]
      /\ \A s \in live : quiet[s] <= seenAge'[s]
  <2>1. seenAge' = IF p.token \in live THEN [seenAge EXCEPT ![p.token] = p.stamp] ELSE seenAge
    BY <1>1 DEF Touch
  <2> QED BY <1>2, <2>1 DEF SessionsInv, RowsSound
<1>10. RowsSound'
  BY <1>9 DEF Touch, SessionsInv, RowsSound, historyVars
<1> QED BY <1>7, <1>8, <1>10 DEF SessionsInv

LEMMA RemoveRowStep ==
  ASSUME SessionsInv, NEW r \in Clients, RemoveRow(r)
  PROVE  SessionsInv'
<1>1. PICK p \in SessionRequest : p = req[r] /\ Sound(p)
  BY DEF SessionsInv, RequestsSound
<1>2. p.pc = "remove" /\ p.token \in Sessions
  BY <1>1 DEF RemoveRow, Sound, Tokened
<1> DEFINE q == [p EXCEPT !.pc = "drop"]
<1>3. q \in SessionRequest
  BY RequestWith
<1>4. q.pc = "drop" /\ q.token = p.token
  BY DEF SessionRequest
<1>5. req' = [req EXCEPT ![r] = q]
  BY <1>1 DEF RemoveRow, SessionsInv, RequestsSound
<1> HIDE DEF q
<1>6. Sound(q)
  BY <1>2, <1>4 DEF Sound, Tokened, Acting, Checking, Admitted
<1>7. RequestsSound' /\ Counted'
  BY <1>3, <1>4, <1>5, <1>6, RequestGoesOn DEF RemoveRow, userVars, historyVars
<1>8. CopiesSound' /\ UsersTyped'
  BY DEF RemoveRow, SessionsInv, CopiesSound, UsersTyped, redisVars, userVars, historyVars
<1>9. RowsSound'
  BY DEF RemoveRow, SessionsInv, RowsSound, historyVars
<1> QED BY <1>7, <1>8, <1>9 DEF SessionsInv

LEMMA DropCopyStep ==
  ASSUME SessionsInv, NEW r \in Clients, DropCopy(r)
  PROVE  SessionsInv'
<1>1. req[r].token \in Sessions
  BY DEF DropCopy, Sound, Tokened, SessionsInv, RequestsSound
<1>2. Sound(Free) /\ Free.pc # "asked"
  BY DEF Free, Sound, Tokened, Acting, Checking, Admitted
<1>3. RequestsSound' /\ Counted'
  BY <1>2, SessionConstants, RequestGoesOn DEF DropCopy, userVars, historyVars
<1>4. RowsSound' /\ UsersTyped'
  BY DEF DropCopy, SessionsInv, RowsSound, UsersTyped, sessionRows, userVars, historyVars
<1>5. CopiesSound'
  <2>1. cache' = cache \/ cache' = [cache EXCEPT ![req[r].token] = NoEntry]
    BY DEF DropCopy
  <2> QED BY <1>1, <2>1 DEF DropCopy, SessionsInv, CopiesSound, historyVars
<1> QED BY <1>3, <1>4, <1>5 DEF SessionsInv

LEMMA InvalidateStep ==
  ASSUME SessionsInv, NEW r \in Clients, Invalidate(r)
  PROVE  SessionsInv'
<1>1. Sound(Free) /\ Free.pc # "asked"
  BY DEF Free, Sound, Tokened, Acting, Checking, Admitted
<1>2. RequestsSound' /\ Counted'
  BY <1>1, SessionConstants, RequestGoesOn DEF Invalidate, userVars, historyVars
<1>3. RowsSound' /\ UsersTyped'
  BY DEF Invalidate, SessionsInv, RowsSound, UsersTyped, sessionRows, userVars, historyVars
<1>4. CopiesSound'
  <2>1. PICK listed \in SUBSET Sessions :
          cache' = [s \in Sessions |-> IF s \in listed THEN NoEntry ELSE cache[s]]
    BY DEF Invalidate
  <2> QED BY <2>1 DEF Invalidate, SessionsInv, CopiesSound, historyVars
<1> QED BY <1>2, <1>3, <1>4 DEF SessionsInv

LEMMA OpenSessionStep ==
  ASSUME SessionsInv, NEW r \in Clients, NEW s \in Sessions, OpenSession(r, s)
  PROVE  SessionsInv'
<1>1. PICK p \in SessionRequest : p = req[r] /\ Sound(p)
  BY DEF SessionsInv, RequestsSound
<1>2. p.pc = "verified" /\ p.actor \in Users /\ p.seen \in 0..MaxChanges
  BY <1>1 DEF OpenSession, Sound, Acting, SessionRequest
<1>3. req' = [req EXCEPT ![r] = Free] /\ Sound(Free)' /\ Free.pc # "asked"
  BY DEF OpenSession, Free, Sound, Tokened, Acting, Checking, Admitted
<1>4. CASE UserExists(p.actor)
  <2>1. /\ owner' = [owner EXCEPT ![s] = p.actor]
        /\ live' = live \cup {s}
        /\ seenAge' = [seenAge EXCEPT ![s] = 0]
        /\ left' = [left EXCEPT ![s] = AbsoluteTicks]
        /\ opened' = [opened EXCEPT ![s] = p.seen]
        /\ overtaken' \subseteq Sessions
        /\ quiet' = [quiet EXCEPT ![s] = 0]
        /\ UNCHANGED <<userVars, redisVars, changes>>
    BY <1>1, <1>4 DEF OpenSession, SessionsInv, RowsSound
  <2>2. /\ quiet' \in [Sessions -> 0..IdleTicks] /\ quiet \in [Sessions -> 0..IdleTicks]
        /\ \A x \in Sessions : quiet'[x] <= quiet[x]
        /\ quiet'[s] = 0
    BY <2>1, QuietReset DEF SessionsInv, RowsSound
  <2>3. RequestsSound'
    BY <1>3, <2>2, SessionConstants, RequestMoves DEF SessionsInv
  <2>4. CopiesSound'
    BY <2>1, <2>2, CopiesKept
  <2>5. Counted'
    BY <1>3, <2>1, CountKept DEF SessionsInv, RequestsSound, userVars
  <2>6. UsersTyped'
    BY <2>1 DEF SessionsInv, UsersTyped, userVars
  <2>7. ASSUME NEW x \in live'
        PROVE  owner'[x] \in Users /\ quiet'[x] <= seenAge'[x]
    <3>1. CASE x = s
      BY <1>2, <2>1, <2>2, <3>1, SessionConstants DEF SessionsInv, RowsSound
    <3>2. CASE x # s
      BY <2>1, <3>2 DEF SessionsInv, RowsSound
    <3> QED BY <3>1, <3>2
  <2>8. /\ owner' \in [Sessions -> Users \cup {NoUser}] /\ live' \subseteq Sessions
        /\ seenAge' \in [Sessions -> 0..IdleTicks] /\ left' \in [Sessions -> 0..AbsoluteTicks]
        /\ opened' \in [Sessions -> 0..MaxChanges]
    BY <1>2, <2>1, SessionConstants DEF SessionsInv, RowsSound
  <2>9. RowsSound'
    BY <2>1, <2>2, <2>7, <2>8 DEF RowsSound
  <2> QED BY <2>3, <2>4, <2>5, <2>6, <2>9 DEF SessionsInv
<1>5. CASE ~UserExists(p.actor)
  BY <1>1, <1>5, Freed DEF OpenSession
<1> QED BY <1>4, <1>5

-----------------------------------------------------------------------------
(* Changes of a user *)

\* Asking adds at most one to what is counted for a user, a change takes one away.
LEMMA AskedBounds ==
  ASSUME NEW r \in Clients, NEW u \in Users, req \in [Clients -> SessionRequest],
         NEW q, req' = [req EXCEPT ![r] = q]
  PROVE  /\ Cardinality(Asked(u)) \in Nat /\ Cardinality(Asked(u)') \in Nat
         /\ Cardinality(Asked(u)') <= Cardinality(Asked(u)) + 1
         /\ r \in Asked(u) /\ q.pc # "asked" => Cardinality(Asked(u)') < Cardinality(Asked(u))
         /\ q.pc # "asked" \/ q.target # u => Cardinality(Asked(u)') <= Cardinality(Asked(u))
<1>1. Asked(u) \subseteq Clients /\ Asked(u)' \subseteq Asked(u) \cup {r}
  BY DEF Asked
<1>2. IsFiniteSet(Asked(u)) /\ Cardinality(Asked(u)) \in Nat
  BY <1>1, FS_Subset, FS_CardinalityType, SessionsAssumption
<1>3. /\ IsFiniteSet(Asked(u) \cup {r})
      /\ Cardinality(Asked(u) \cup {r}) <= Cardinality(Asked(u)) + 1
  <2>1. PICK S : S = Asked(u)
    OBVIOUS
  <2>2. IsFiniteSet(S) /\ Cardinality(S) \in Nat
    BY <1>2, <2>1
  <2>3. /\ IsFiniteSet(S \cup {r})
        /\ Cardinality(S \cup {r}) = IF r \in S THEN Cardinality(S) ELSE Cardinality(S) + 1
    BY <2>2, FS_AddElement
  <2> QED BY <2>1, <2>2, <2>3
<1>4. /\ Cardinality(Asked(u) \cup {r}) \in Nat
      /\ IsFiniteSet(Asked(u)')
      /\ Cardinality(Asked(u)') \in Nat
      /\ Cardinality(Asked(u)') <= Cardinality(Asked(u) \cup {r})
  BY <1>1, <1>3, FS_Subset, FS_CardinalityType
<1>5. ASSUME q.pc # "asked" \/ q.target # u
      PROVE  Cardinality(Asked(u)') <= Cardinality(Asked(u))
  <2>1. Asked(u)' \subseteq Asked(u)
    BY <1>5 DEF Asked
  <2> QED BY <1>2, <2>1, FS_Subset
<1>6. ASSUME r \in Asked(u), q.pc # "asked"
      PROVE  Cardinality(Asked(u)') < Cardinality(Asked(u))
  <2>1. Asked(u)' \subseteq Asked(u) /\ Asked(u)' # Asked(u)
    BY <1>6 DEF Asked
  <2>2. /\ Cardinality(Asked(u)') <= Cardinality(Asked(u))
        /\ Cardinality(Asked(u)) # Cardinality(Asked(u)')
    BY <1>2, <2>1, FS_Subset
  <2> QED BY <1>2, <1>4, <2>2
<1> QED BY <1>2, <1>3, <1>4, <1>5, <1>6

LEMMA AskChangeStep ==
  ASSUME SessionsInv, NEW r \in Clients, NEW u \in Users,
         NEW asked \in Updates \cup {"create", "delete", "password"}, AskChange(r, u, asked)
  PROVE  SessionsInv'
<1> DEFINE q1 == [Free EXCEPT !.pc = "asked"]
           q2 == [q1 EXCEPT !.task = asked]
           q3 == [q2 EXCEPT !.target = u]
           q == [q3 EXCEPT !.protect = Protects(u, asked)]
<1>1. /\ q.pc = "asked" /\ q.task = asked /\ q.target = u
      /\ asked \in {"disable", "demote"} => q.protect
  BY DEF Free, Protects
<1>2. q \in SessionRequest
  <2>1. q1 \in SessionRequest
    BY SessionConstants, RequestWith
  <2> HIDE DEF q1
  <2>2. q2 \in SessionRequest
    BY <2>1, RequestWith
  <2> HIDE DEF q2
  <2>3. q3 \in SessionRequest
    BY <2>2, RequestWith
  <2> HIDE DEF q3
  <2>4. Protects(u, asked) \in BOOLEAN
    BY DEF Protects
  <2> QED BY <2>3, <2>4, RequestWith
<1>3. req' = [req EXCEPT ![r] = q]
  BY DEF AskChange
<1>4. /\ changes' = changes + 1 /\ changes < MaxChanges
      /\ UNCHANGED <<userVars, sessionRows, redisVars, historyVars>>
  BY DEF AskChange
<1>5. PICK p \in SessionRequest : p = q
  BY <1>2
<1> HIDE DEF q
<1>6. Sound(p)' /\ req' = [req EXCEPT ![r] = p]
  BY <1>1, <1>3, <1>5 DEF Sound, Tokened, Acting, Checking, Admitted
<1>7. /\ quiet \in [Sessions -> 0..IdleTicks] /\ quiet' = quiet
      /\ \A s \in Sessions : quiet'[s] <= quiet[s]
  BY <1>4, SessionConstants DEF SessionsInv, RowsSound, historyVars
<1>8. RequestsSound'
  BY <1>7, <1>6, RequestMoves DEF SessionsInv
<1>9. RowsSound' /\ CopiesSound'
  BY <1>4 DEF SessionsInv, RowsSound, CopiesSound, sessionRows, redisVars, historyVars
<1>10. UsersTyped'
  BY <1>4, SessionConstants DEF SessionsInv, UsersTyped, userVars
<1>11. ASSUME NEW v \in Users
       PROVE  revision'[v] + Cardinality(Asked(v)') <= changes'
  <2>1. /\ Cardinality(Asked(v)) \in Nat /\ Cardinality(Asked(v)') \in Nat
        /\ Cardinality(Asked(v)') <= Cardinality(Asked(v)) + 1
    BY <1>3, AskedBounds DEF SessionsInv, RequestsSound
  <2>2. /\ revision'[v] = revision[v] /\ revision[v] \in Nat /\ changes \in Nat
        /\ revision[v] + Cardinality(Asked(v)) <= changes
    BY <1>4, SessionConstants DEF SessionsInv, UsersTyped, Counted, userVars
  <2> QED BY <1>4, <2>1, <2>2
<1> QED BY <1>8, <1>9, <1>10, <1>11 DEF SessionsInv, Counted

LEMMA CreateStep ==
  ASSUME SessionsInv, NEW r \in Clients, NEW kind \in {"admin", "user"}, Create(r, kind)
  PROVE  SessionsInv'
<1>1. PICK p \in SessionRequest : p = req[r] /\ Sound(p)
  BY DEF SessionsInv, RequestsSound
<1>2. p.pc = "asked" /\ p.target \in Users
  BY <1>1 DEF Create, Sound
<1>3. CASE role[p.target] = "new"
  <2> DEFINE q == [p EXCEPT !.task = "reset"]
  <2>1. q \in SessionRequest
    BY RequestWith DEF Updates
  <2>2. q.pc = "asked" /\ q.task = "reset" /\ q.target = p.target
    BY <1>2 DEF SessionRequest
  <2>3. req' = [req EXCEPT ![r] = q]
    BY <1>1, <1>3 DEF Create, SessionsInv, RequestsSound
  <2> HIDE DEF q
  <2>4. Sound(q)
    BY <1>2, <2>2 DEF Sound, Tokened, Acting, Checking, Admitted
  <2>5. RequestsSound' /\ Counted'
    BY <1>1, <1>2, <2>1, <2>2, <2>3, <2>4, RequestGoesOn DEF Create, historyVars
  <2>6. RowsSound' /\ CopiesSound'
    BY DEF Create, SessionsInv, RowsSound, CopiesSound, sessionRows, redisVars, historyVars
  <2>7. UsersTyped'
    BY <1>1, <1>2, <1>3 DEF Create, SessionsInv, UsersTyped
  <2> QED BY <2>5, <2>6, <2>7 DEF SessionsInv
<1>4. CASE role[p.target] # "new"
  BY <1>1, <1>4, Freed DEF Create, userVars
<1> QED BY <1>3, <1>4

\* Both changes end at the step that drops the user's copies.
LEMMA Changed ==
  ASSUME SessionsInv, NEW r \in Clients, req[r].pc = "asked",
         req' = [req EXCEPT ![r] = [Free EXCEPT !.pc = "invalidate", !.target = req[r].target]],
         \/ UNCHANGED revision
         \/ revision' = [revision EXCEPT ![req[r].target] = revision[req[r].target] + 1],
         UNCHANGED <<changes, quiet>>
  PROVE  RequestsSound' /\ Counted' /\ revision' \in [Users -> Nat]
<1>1. PICK p \in SessionRequest : p = req[r] /\ Sound(p)
  BY DEF SessionsInv, RequestsSound
<1>2. p.pc = "asked" /\ p.target \in Users
  BY <1>1 DEF Sound
<1> DEFINE q1 == [Free EXCEPT !.pc = "invalidate"]
           q == [q1 EXCEPT !.target = p.target]
<1>3. q.pc = "invalidate" /\ q.target = p.target
  BY DEF Free
<1>4. q \in SessionRequest
  <2>1. q1 \in SessionRequest
    BY SessionConstants, RequestWith
  <2> HIDE DEF q1
  <2> QED BY <1>2, <2>1, RequestWith
<1>5. req' = [req EXCEPT ![r] = q]
  BY <1>1
<1> HIDE DEF q
<1>6. Sound(q)'
  BY <1>2, <1>3 DEF Sound, Tokened, Acting, Checking, Admitted
<1>7. /\ quiet \in [Sessions -> 0..IdleTicks] /\ quiet' = quiet
      /\ \A s \in Sessions : quiet'[s] <= quiet[s]
  BY SessionConstants DEF SessionsInv, RowsSound
<1>8. RequestsSound'
  BY <1>4, <1>5, <1>6, <1>7, RequestMoves DEF SessionsInv
<1>9. revision \in [Users -> Nat] /\ req \in [Clients -> SessionRequest]
  BY DEF SessionsInv, UsersTyped, RequestsSound
<1>10. revision' \in [Users -> Nat]
  BY <1>1, <1>2, <1>9
<1>11. ASSUME NEW v \in Users
       PROVE  revision'[v] + Cardinality(Asked(v)') <= changes
  <2>1. /\ Cardinality(Asked(v)) \in Nat /\ Cardinality(Asked(v)') \in Nat
        /\ Cardinality(Asked(v)') <= Cardinality(Asked(v))
        /\ v = p.target => Cardinality(Asked(v)') < Cardinality(Asked(v))
    <3>1. v = p.target => r \in Asked(v)
      BY <1>1, <1>2 DEF Asked
    <3> QED BY <1>3, <1>5, <1>9, <3>1, AskedBounds
  <2>2. revision[v] + Cardinality(Asked(v)) <= changes /\ revision[v] \in Nat /\ changes \in Nat
    BY <1>9, SessionConstants DEF SessionsInv, UsersTyped, Counted
  <2>3. revision'[v] = revision[v] \/ (v = p.target /\ revision'[v] = revision[v] + 1)
    <3>1. CASE UNCHANGED revision
      BY <3>1
    <3>2. CASE revision' = [revision EXCEPT ![p.target] = revision[p.target] + 1]
      BY <1>9, <3>2
    <3> QED BY <1>1, <3>1, <3>2
  <2> QED BY <2>1, <2>2, <2>3
<1> QED BY <1>8, <1>10, <1>11 DEF Counted

LEMMA UpdateStep ==
  ASSUME SessionsInv, NEW r \in Clients, Update(r)
  PROVE  SessionsInv'
<1>1. PICK u \in Users : u = req[r].target
  BY DEF Update, SessionsInv, RequestsSound, Sound
<1>2. RequestsSound' /\ Counted' /\ revision' \in [Users -> Nat]
  BY Changed DEF Update, historyVars
<1>3. RowsSound' /\ CopiesSound'
  BY DEF Update, Revoke, SessionsInv, RowsSound, CopiesSound, redisVars, historyVars
<1>4. UsersTyped'
  <2> USE DEF SessionsInv, UsersTyped
  <2>1. enabled' \in [Users -> BOOLEAN]
    <3>1. PICK b \in BOOLEAN : enabled' = [enabled EXCEPT ![u] = b]
      BY <1>1 DEF Update
    <3> QED BY <3>1
  <2>2. role' \in [Users -> {"new", "admin", "user", "gone"}]
    BY <1>1 DEF Update
  <2>3. temporary' \subseteq Users
    BY <1>1 DEF Update
  <2> QED BY <1>2, <2>1, <2>2, <2>3 DEF Update
<1> QED BY <1>2, <1>3, <1>4 DEF SessionsInv

LEMMA DeleteStep ==
  ASSUME SessionsInv, NEW r \in Clients, Delete(r)
  PROVE  SessionsInv'
<1>1. PICK u \in Users : u = req[r].target
  BY DEF Delete, SessionsInv, RequestsSound, Sound
<1>2. RequestsSound' /\ Counted' /\ revision' \in [Users -> Nat]
  BY Changed DEF Delete, historyVars
<1>3. RowsSound' /\ CopiesSound'
  BY DEF Delete, Revoke, SessionsInv, RowsSound, CopiesSound, redisVars, historyVars
<1>4. UsersTyped'
  BY <1>1, <1>2 DEF Delete, SessionsInv, UsersTyped
<1> QED BY <1>2, <1>3, <1>4 DEF SessionsInv

-----------------------------------------------------------------------------
(* Redis and time *)

LEMMA LandStep ==
  ASSUME SessionsInv, NEW w \in late, Land(w)
  PROVE  SessionsInv'
<1>1. w \in CacheWrite /\ quiet[w.session] <= w.age
  BY DEF SessionsInv, CopiesSound
<1>2. /\ cache' \in [Sessions -> Entry \cup {NoEntry}]
      /\ \A s \in Sessions : cache'[s] # NoEntry => quiet[s] <= cache'[s].age
  BY <1>1, CopyPut, SessionConstants DEF Land
<1>3. CopiesSound'
  BY <1>2 DEF Land, SessionsInv, CopiesSound, historyVars
<1>4. RowsSound' /\ UsersTyped' /\ RequestsSound' /\ Counted'
  BY DEF Land, SessionsInv, RowsSound, UsersTyped, RequestsSound, Sound, Counted, Asked,
         sessionRows, userVars, historyVars
<1> QED BY <1>3, <1>4 DEF SessionsInv

LEMMA EvictKeyStep ==
  ASSUME SessionsInv, NEW s \in Sessions, EvictKey(s)
  PROVE  SessionsInv'
<1>1. CopiesSound'
  BY DEF EvictKey, SessionsInv, CopiesSound, historyVars
<1>2. RowsSound' /\ UsersTyped' /\ RequestsSound' /\ Counted'
  BY DEF EvictKey, SessionsInv, RowsSound, UsersTyped, RequestsSound, Sound, Counted, Asked,
         sessionRows, userVars, historyVars
<1> QED BY <1>1, <1>2 DEF SessionsInv

\* Quiet times grow like the ages that cover them, or are reset.
LEMMA TickQuiet ==
  ASSUME SessionsInv, SessionsTick
  PROVE  /\ quiet' \in [Sessions -> 0..IdleTicks]
         /\ \A s \in Sessions, n \in 0..IdleTicks :
              quiet[s] <= n => quiet'[s] <= Older(n)
<1>1. \A s \in Sessions : quiet[s] \in 0..IdleTicks
  BY DEF SessionsInv, RowsSound
<1>2. quiet' = [s \in Sessions |-> IF owner[s] = NoUser THEN 0 ELSE Older(quiet[s])]
  BY DEF SessionsTick
<1>3. quiet' \in [Sessions -> 0..IdleTicks]
  BY <1>1, <1>2, OlderBounds, SessionConstants
<1>4. ASSUME NEW s \in Sessions, NEW n \in 0..IdleTicks, quiet[s] <= n
      PROVE  quiet'[s] <= Older(n)
  <2>1. Older(n) \in 0..IdleTicks /\ Older(quiet[s]) <= Older(n)
    BY <1>1, <1>4, OlderBounds
  <2>2. quiet'[s] = 0 \/ quiet'[s] = Older(quiet[s])
    BY <1>2
  <2> QED BY <2>1, <2>2, SessionConstants
<1> QED BY <1>3, <1>4

LEMMA TickStep ==
  ASSUME SessionsInv, SessionsTick
  PROVE  SessionsInv'
<1>1. UsersTyped'
  BY DEF SessionsTick, SessionsInv, UsersTyped, userVars
<1>2. RowsSound'
  <2> USE DEF SessionsInv, RowsSound
  <2>1. seenAge' = [s \in Sessions |-> IF s \in live THEN Older(seenAge[s]) ELSE 0]
    BY DEF SessionsTick
  <2>2. seenAge' \in [Sessions -> 0..IdleTicks]
    BY <2>1, OlderBounds, SessionConstants
  <2>3. left' \in [Sessions -> 0..AbsoluteTicks]
    <3>1. \A s \in Sessions : Lower(left[s]) \in 0..AbsoluteTicks
      BY SessionConstants DEF Lower
    <3> QED BY <3>1 DEF SessionsTick
  <2>4. ASSUME NEW s \in live
        PROVE  owner[s] \in Users /\ quiet'[s] <= seenAge'[s]
    <3>1. s \in Sessions /\ seenAge[s] \in 0..IdleTicks /\ quiet[s] <= seenAge[s]
      OBVIOUS
    <3>2. seenAge'[s] = Older(seenAge[s])
      BY <2>1, <3>1
    <3> QED BY <3>1, <3>2, TickQuiet
  <2> QED BY <2>2, <2>3, <2>4, TickQuiet DEF SessionsTick
<1>3. CopiesSound'
  <2> DEFINE Grown(s) == [cache[s] EXCEPT !.age = Older(@),
                                          !.ttl = IF @ = Unlimited THEN @ ELSE @ - 1]
             Gone(s) == cache[s] = NoEntry \/ cache[s].ttl = 1
  <2>1. cache' = [s \in Sessions |-> IF Gone(s) THEN NoEntry ELSE Grown(s)]
    BY DEF SessionsTick
  <2>2. ASSUME NEW s \in Sessions, ~Gone(s)
        PROVE  Grown(s) \in Entry /\ quiet'[s] <= Grown(s).age
    <3>1. PICK e \in Entry : e = cache[s]
      BY <2>2 DEF SessionsInv, CopiesSound
    <3>2. e.age \in 0..IdleTicks /\ e.ttl \in 1..Unlimited /\ e.ttl # 1 /\ quiet[s] <= e.age
      BY <2>2, <3>1 DEF Entry, SessionsInv, CopiesSound
    <3>3. PICK t \in 1..Unlimited : t = IF e.ttl = Unlimited THEN e.ttl ELSE e.ttl - 1
      BY <3>2, SessionConstants
    <3>4. PICK a \in 0..IdleTicks : a = Older(e.age)
      BY <3>2, OlderBounds
    <3> DEFINE e1 == [e EXCEPT !.age = a]
    <3>5. e1 \in Entry /\ e1.age = a /\ e1.ttl = e.ttl
      BY DEF Entry
    <3>6. Grown(s) = [e1 EXCEPT !.ttl = t]
      BY <3>1, <3>3, <3>4 DEF Entry
    <3> HIDE DEF e1, Grown
    <3>7. Grown(s) \in Entry /\ Grown(s).age = a
      BY <3>5, <3>6 DEF Entry
    <3> QED BY <3>2, <3>4, <3>7, TickQuiet
  <2> HIDE DEF Grown, Gone
  <2>3. /\ cache' \in [Sessions -> Entry \cup {NoEntry}]
        /\ \A s \in Sessions : cache'[s] # NoEntry => quiet'[s] <= cache'[s].age
    BY <2>1, <2>2
  <2>4. ASSUME NEW x \in late'
        PROVE  x \in CacheWrite /\ quiet'[x.session] <= x.age
    <3>1. PICK w \in late : x = [w EXCEPT !.age = Older(w.age)]
      BY <2>4 DEF SessionsTick
    <3>2. /\ w \in CacheWrite /\ w.session \in Sessions /\ w.age \in 0..IdleTicks
          /\ quiet[w.session] <= w.age
      BY DEF SessionsInv, CopiesSound, CacheWrite
    <3>3. Older(w.age) \in 0..IdleTicks /\ quiet'[w.session] <= Older(w.age)
      BY <3>2, OlderBounds, TickQuiet
    <3> QED BY <3>1, <3>2, <3>3 DEF CacheWrite
  <2> QED BY <2>3, <2>4 DEF CopiesSound
<1>4. RequestsSound' /\ Counted'
  <2> DEFINE Copied(p) == IF p.pc \in Checking THEN Older(p.copy) ELSE 0
             Stamped(p) == IF p.pc \in Admitted THEN Older(p.stamp) ELSE 0
  <2>1. req' = [r \in Clients |->
                  [req[r] EXCEPT !.copy = Copied(req[r]), !.stamp = Stamped(req[r])]]
    BY DEF SessionsTick, Checking, Admitted
  <2>2. ASSUME NEW r \in Clients
        PROVE  /\ req'[r] \in SessionRequest /\ Sound(req[r])'
               /\ req'[r].pc = req[r].pc /\ req'[r].target = req[r].target
    <3>1. PICK p \in SessionRequest : p = req[r] /\ Sound(p)
      BY DEF SessionsInv, RequestsSound
    <3>2. p.copy \in 0..IdleTicks /\ p.stamp \in 0..IdleTicks
      BY DEF SessionRequest
    <3>3. Copied(p) \in 0..IdleTicks /\ Stamped(p) \in 0..IdleTicks
      BY <3>2, OlderBounds, SessionConstants
    <3>4. PICK c \in 0..IdleTicks, n \in 0..IdleTicks : c = Copied(p) /\ n = Stamped(p)
      BY <3>3
    <3> DEFINE p1 == [p EXCEPT !.copy = c]
               q == [p1 EXCEPT !.stamp = n]
    <3>5. p1 \in SessionRequest
      BY RequestWith
    <3>6. q \in SessionRequest
      <4> HIDE DEF p1
      <4> QED BY <3>5, RequestWith
    <3>7. /\ q.pc = p.pc /\ q.token = p.token /\ q.actor = p.actor /\ q.task = p.task
          /\ q.target = p.target /\ q.protect = p.protect /\ q.copy = c /\ q.stamp = n
      BY DEF SessionRequest
    <3>8. req'[r] = q
      BY <2>1, <3>1, <3>4
    <3> HIDE DEF q
    <3>9. /\ q.pc \in Checking => quiet'[q.token] <= q.copy
          /\ q.pc \in Admitted => quiet'[q.token] <= q.stamp
      <4>1. q.pc \in Checking \cup Admitted => p.token \in Sessions
        BY <3>1, <3>7 DEF Sound, Tokened, Checking, Admitted
      <4> QED BY <3>1, <3>2, <3>4, <3>7, <4>1, TickQuiet DEF Sound
    <3>10. Sound(q)'
      BY <3>1, <3>7, <3>9 DEF Sound
    <3>11. Sound(req[r])'
      BY <3>8, <3>10 DEF Sound
    <3> QED BY <3>1, <3>6, <3>7, <3>8, <3>11
  <2> HIDE DEF Copied, Stamped
  <2>3. RequestsSound'
    BY <2>1, <2>2 DEF RequestsSound
  <2>4. ASSUME NEW u \in Users
        PROVE  Asked(u)' = Asked(u)
    BY <2>2 DEF Asked
  <2>5. Counted'
    BY <2>4 DEF SessionsTick, SessionsInv, Counted, userVars
  <2> QED BY <2>3, <2>5
<1> QED BY <1>1, <1>2, <1>3, <1>4 DEF SessionsInv

-----------------------------------------------------------------------------
(* Every step *)

LEMMA SessionsStart ==
  ASSUME SessionsInit
  PROVE  SessionsInv /\ SessionsCurrent
<1> USE DEF SessionsInit
<1>1. UsersTyped
  BY SessionConstants DEF UsersTyped
<1>2. RowsSound
  BY SessionConstants DEF RowsSound
<1>3. CopiesSound
  BY DEF CopiesSound
<1>4. RequestsSound
  <2>1. Sound(Free)
    BY DEF Free, Sound, Tokened, Acting, Checking, Admitted
  <2> QED BY <2>1, SessionConstants DEF RequestsSound
<1>5. Counted
  <2>1. ASSUME NEW u \in Users
        PROVE  Asked(u) = {}
    BY DEF Asked, Free
  <2> QED BY <2>1, FS_EmptySet DEF Counted
<1>6. SessionsCurrent
  BY DEF SessionsCurrent
<1> QED BY <1>1, <1>2, <1>3, <1>4, <1>5, <1>6 DEF SessionsInv

LEMMA SessionsStep ==
  ASSUME SessionsInv, [SessionsNext]_sessionsVars
  PROVE  SessionsInv'
<1>1. ASSUME NEW r \in Clients, NEW u \in Users, LoginRead(r, u)
      PROVE  SessionsInv'
  BY <1>1, LoginReadStep
<1>2. ASSUME NEW r \in Clients, NEW s \in Sessions, OpenSession(r, s)
      PROVE  SessionsInv'
  BY <1>2, OpenSessionStep
<1>3. ASSUME NEW r \in Clients, Authenticate(r)
      PROVE  SessionsInv'
  <2>1. CASE \E s \in Sessions, asked \in {"visit", "logout"} : Lookup(r, s, asked)
    BY <2>1, LookupStep
  <2>2. CASE CacheHit(r)
    BY <2>2, CacheHitStep
  <2>3. CASE CacheMiss(r)
    BY <2>3, CacheMissStep
  <2>4. CASE Reread(r)
    BY <2>4, RereadStep
  <2>5. CASE StoreCopy(r)
    BY <2>5, StoreCopyStep
  <2>6. CASE Admit(r)
    BY <2>6, AdmitStep
  <2>7. CASE Expire(r)
    BY <2>7, Freed DEF Expire, Tokened
  <2>8. CASE ReadUser(r)
    BY <2>8, ReadUserStep
  <2>9. CASE Touch(r)
    BY <2>9, TouchStep
  <2>10. CASE TouchGet(r)
    BY <2>10, TouchGetStep
  <2>11. CASE TouchSet(r)
    BY <2>11, TouchSetStep
  <2>12. CASE RemoveRow(r)
    BY <2>12, RemoveRowStep
  <2>13. CASE DropCopy(r)
    BY <2>13, DropCopyStep
  <2> QED BY <1>3, <2>1, <2>2, <2>3, <2>4, <2>5, <2>6, <2>7, <2>8, <2>9, <2>10, <2>11,
             <2>12, <2>13 DEF Authenticate
<1>4. ASSUME NEW r \in Clients, ChangeUser(r)
      PROVE  SessionsInv'
  <2>1. CASE \E u \in Users, asked \in Updates \cup {"create", "delete", "password"} :
               AskChange(r, u, asked)
    BY <2>1, AskChangeStep
  <2>2. CASE \E kind \in {"admin", "user"} : Create(r, kind)
    BY <2>2, CreateStep
  <2>3. CASE RefuseChange(r)
    BY <2>3, Freed DEF RefuseChange
  <2>4. CASE Update(r)
    BY <2>4, UpdateStep
  <2>5. CASE Delete(r)
    BY <2>5, DeleteStep
  <2>6. CASE Invalidate(r)
    BY <2>6, InvalidateStep
  <2> QED BY <1>4, <2>1, <2>2, <2>3, <2>4, <2>5, <2>6 DEF ChangeUser
<1>5. ASSUME NEW r \in Clients, Leave(r)
      PROVE  SessionsInv'
  BY <1>5, Freed DEF Leave
<1>6. ASSUME NEW w \in late, Land(w)
      PROVE  SessionsInv'
  BY <1>6, LandStep
<1>7. ASSUME NEW s \in Sessions, EvictKey(s)
      PROVE  SessionsInv'
  BY <1>7, EvictKeyStep
<1>8. CASE SessionsTick
  BY <1>8, TickStep
<1>9. CASE UNCHANGED sessionsVars
  <2> USE <1>9 DEF sessionsVars, userVars, sessionRows, redisVars, historyVars
  <2>1. RowsSound' /\ UsersTyped' /\ CopiesSound'
    BY DEF SessionsInv, RowsSound, UsersTyped, CopiesSound
  <2>2. RequestsSound' /\ Counted'
    BY DEF SessionsInv, RequestsSound, Sound, Counted, Asked
  <2> QED BY <2>1, <2>2 DEF SessionsInv
<1> QED BY <1>1, <1>2, <1>3, <1>4, <1>5, <1>6, <1>7, <1>8, <1>9 DEF SessionsNext

\* What closes the sessions of a user keeps the open ones current.
LEMMA CurrentKept ==
  ASSUME SessionsInv, SessionsCurrent, [SessionsNext]_sessionsVars
  PROVE  SessionsCurrent'
<1> USE DEF SessionsCurrent, UserExists
<1>1. \A s \in live : s \in Sessions /\ owner[s] \in Users
  BY DEF SessionsInv, RowsSound
<1>2. ASSUME UNCHANGED <<role, revision, owner, opened, overtaken>>, live' \subseteq live
      PROVE  SessionsCurrent'
  BY <1>2
<1>3. ASSUME NEW r \in Clients, NEW s \in Sessions, OpenSession(r, s)
      PROVE  SessionsCurrent'
  <2>1. CASE UserExists(req[r].actor)
    <3> DEFINE u == req[r].actor
    <3>1. /\ owner[s] = NoUser /\ owner' = [owner EXCEPT ![s] = u] /\ live' = live \cup {s}
          /\ opened' = [opened EXCEPT ![s] = req[r].seen]
          /\ overtaken' = IF req[r].seen = revision[u] THEN overtaken ELSE overtaken \cup {s}
          /\ UNCHANGED <<role, revision>>
      BY <1>3, <2>1 DEF OpenSession, userVars
    <3> HIDE DEF u
    <3>2. role[u] \in {"admin", "user"}
      BY <2>1 DEF u
    <3>3. /\ owner \in [Sessions -> Users \cup {NoUser}]
          /\ opened \in [Sessions -> 0..MaxChanges]
      BY DEF SessionsInv, RowsSound
    <3>4. ASSUME NEW x \in live' \ overtaken'
          PROVE  role[owner'[x]] \in {"admin", "user"} /\ opened'[x] = revision[owner'[x]]
      <4>1. CASE x = s
        BY <3>1, <3>2, <3>3, <3>4, <4>1
      <4>2. CASE x # s
        BY <1>1, <3>1, <3>3, <3>4, <4>2
      <4> QED BY <4>1, <4>2
    <3> QED BY <3>1, <3>4
  <2>2. CASE ~UserExists(req[r].actor)
    BY <1>2, <1>3, <2>2 DEF OpenSession, userVars, sessionRows, historyVars
  <2> QED BY <2>1, <2>2
<1>4. ASSUME NEW r \in Clients, Create(r, "admin") \/ Create(r, "user")
      PROVE  SessionsCurrent'
  <2>1. CASE role[req[r].target] = "new"
    <3>1. \E kind \in {"admin", "user"} : role' = [role EXCEPT ![req[r].target] = kind]
      BY <1>4, <2>1 DEF Create
    <3>2. UNCHANGED <<revision, owner, live, opened, overtaken>>
      BY <1>4 DEF Create, sessionRows, historyVars
    <3>3. \A s \in live \ overtaken : owner[s] # req[r].target
      BY <1>1, <2>1
    <3>4. role \in [Users -> {"new", "admin", "user", "gone"}]
      BY DEF SessionsInv, UsersTyped
    <3> QED BY <1>1, <3>1, <3>2, <3>3, <3>4
  <2>2. CASE role[req[r].target] # "new"
    BY <1>2, <1>4, <2>2 DEF Create, sessionRows, historyVars
  <2> QED BY <2>1, <2>2
<1>5. ASSUME NEW r \in Clients, Update(r) \/ Delete(r)
      PROVE  SessionsCurrent'
  <2> DEFINE u == req[r].target
  <2>1. /\ live' = {s \in live : owner[s] # u}
        /\ UNCHANGED <<owner, opened, overtaken>>
    BY <1>5 DEF Update, Delete, Revoke, historyVars
  <2>2. \A v \in Users \ {u} : role'[v] = role[v] /\ revision'[v] = revision[v]
    BY <1>5 DEF Update, Delete, SessionsInv, UsersTyped
  <2> HIDE DEF u
  <2> QED BY <1>1, <2>1, <2>2
<1>6. ASSUME NEW r \in Clients, Authenticate(r) \/ Leave(r) \/ RefuseChange(r) \/ Invalidate(r)
                                \/ \E u \in Users : LoginRead(r, u)
      PROVE  SessionsCurrent'
  <2>1. UNCHANGED <<role, revision, owner, opened, overtaken>> /\ live' \subseteq live
    BY <1>6 DEF Authenticate, Leave, RefuseChange, Invalidate, LoginRead, Lookup, CacheHit,
                CacheMiss, Reread, StoreCopy, Admit, Expire, ReadUser, Touch, TouchGet, TouchSet,
                RemoveRow, DropCopy, userVars, sessionRows, historyVars
  <2> QED BY <1>2, <2>1
<1>7. ASSUME NEW r \in Clients, NEW u \in Users,
             NEW asked \in Updates \cup {"create", "delete", "password"}, AskChange(r, u, asked)
      PROVE  SessionsCurrent'
  BY <1>2, <1>7 DEF AskChange, userVars, sessionRows, historyVars
<1>8. ASSUME \/ \E w \in late : Land(w)
             \/ \E s \in Sessions : EvictKey(s)
             \/ SessionsTick
             \/ UNCHANGED sessionsVars
      PROVE  SessionsCurrent'
  BY <1>2, <1>8 DEF Land, EvictKey, SessionsTick, sessionsVars, userVars, sessionRows, historyVars
<1> QED BY <1>3, <1>4, <1>5, <1>6, <1>7, <1>8 DEF SessionsNext, ChangeUser

-----------------------------------------------------------------------------
(* The theorems *)

LEMMA SessionsInvariant == SessionsSpec => [](SessionsInv /\ SessionsCurrent)
<1>1. SessionsInit => SessionsInv /\ SessionsCurrent
  BY SessionsStart
<1>2. SessionsInv /\ SessionsCurrent /\ [SessionsNext]_sessionsVars
        => (SessionsInv /\ SessionsCurrent)'
  BY SessionsStep, CurrentKept
<1> QED BY <1>1, <1>2, PTL DEF SessionsSpec

\* The shape of the state; in particular the revision of a user stays within the
\* changes that were asked for.
THEOREM SessionsTyped == SessionsSpec => []SessionsTypeOK
<1>1. SessionsInv => SessionsTypeOK
  BY RevisionBound DEF SessionsInv, UsersTyped, RowsSound, CopiesSound, RequestsSound,
                       SessionsTypeOK
<1> QED BY <1>1, SessionsInvariant, PTL

\* No session outlives a change of its user, however the steps of requests, late cache
\* writes and concurrent changes interleave, unless its login was overtaken by one.
THEOREM SessionsAreCurrent == SessionsSpec => []SessionsCurrent
  BY SessionsInvariant, PTL

\* A session ends for good: the copies in Redis never lengthen it, and once it is
\* closed or revoked it never opens again.
THEOREM SessionsDoEnd == SessionsSpec => SessionsEnd
<1> DEFINE Ends ==
      /\ \A r \in Clients :
           Admit(r) => quiet[req[r].token] < IdleTicks /\ left[req[r].token] > 0
      /\ \A s \in Sessions : owner[s] # NoUser /\ s \notin live => s \notin live'
<1>1. SessionsInv /\ [SessionsNext]_sessionsVars => [Ends]_sessionsVars
  <2> SUFFICES ASSUME SessionsInv, SessionsNext
               PROVE  Ends
    OBVIOUS
  <2>1. ASSUME NEW r \in Clients, Admit(r)
        PROVE  quiet[req[r].token] < IdleTicks /\ left[req[r].token] > 0
    <3>1. PICK p \in SessionRequest : p = req[r] /\ Sound(p)
      BY DEF SessionsInv, RequestsSound
    <3>2. /\ p.token \in Sessions /\ quiet[p.token] <= p.copy /\ p.copy \in 0..IdleTicks
          /\ p.copy < IdleTicks /\ left[p.token] > 0
      BY <2>1, <3>1 DEF Admit, Fresh, Sound, Tokened, Checking, SessionRequest
    <3>3. quiet[p.token] \in 0..IdleTicks
      BY <3>2 DEF SessionsInv, RowsSound
    <3> QED BY <3>1, <3>2, <3>3, SessionConstants
  <2>2. ASSUME NEW s \in Sessions, owner[s] # NoUser, s \notin live
        PROVE  s \notin live'
    <3>1. ASSUME NEW r \in Clients, NEW x \in Sessions, OpenSession(r, x)
          PROVE  s \notin live'
      BY <2>2, <3>1 DEF OpenSession, sessionRows
    <3>2. ASSUME NEW r \in Clients, Authenticate(r)
          PROVE  live' \subseteq live
      BY <3>2 DEF Authenticate, Lookup, CacheHit, CacheMiss, Reread, StoreCopy, Admit, Expire,
                  ReadUser, Touch, TouchGet, TouchSet, RemoveRow, DropCopy, sessionRows
    <3>3. ASSUME NEW r \in Clients, ChangeUser(r)
          PROVE  live' \subseteq live
      BY <3>3 DEF ChangeUser, AskChange, Create, RefuseChange, Update, Delete, Revoke, Invalidate,
                  sessionRows
    <3>4. ASSUME \/ \E r \in Clients : Leave(r) \/ \E u \in Users : LoginRead(r, u)
                 \/ \E w \in late : Land(w)
                 \/ \E x \in Sessions : EvictKey(x)
                 \/ SessionsTick
          PROVE  live' \subseteq live
      BY <3>4 DEF Leave, LoginRead, Land, EvictKey, SessionsTick, sessionRows
    <3> QED BY <2>2, <3>1, <3>2, <3>3, <3>4 DEF SessionsNext
  <2> QED BY <2>1, <2>2
<1>2. SessionsSpec => [][Ends]_sessionsVars
  BY <1>1, SessionsInvariant, PTL DEF SessionsSpec
<1> QED BY <1>2 DEF SessionsEnd

\* A set with another element besides u keeps one when u goes.
LEMMA OneRemains ==
  ASSUME NEW S, IsFiniteSet(S), NEW u, Cardinality(S) > 1
  PROVE  S \ {u} # {}
<1>1. CASE u \in S
  BY <1>1, FS_RemoveElement, FS_CardinalityType, FS_EmptySet
<1>2. CASE u \notin S
  BY <1>2, FS_EmptySet
<1> QED BY <1>1, <1>2

\* However concurrent changes interleave, only a deletion that had read its target as no
\* enabled administrator can take the last one away.
THEOREM LastAdminIsKept == SessionsSpec => LastAdminKept
<1> DEFINE Kept == EnabledAdmins # {} /\ EnabledAdmins' = {} =>
                     \E r \in Clients : Delete(r) /\ ~req[r].protect
<1>1. SessionsInv /\ [SessionsNext]_sessionsVars => [Kept]_sessionsVars
  <2> SUFFICES ASSUME SessionsInv, SessionsNext, EnabledAdmins # {}, EnabledAdmins' = {}
               PROVE  \E r \in Clients : Delete(r) /\ ~req[r].protect
    OBVIOUS
  <2>1. ~UNCHANGED <<role, enabled>>
    BY DEF EnabledAdmins
  <2>2. ASSUME NEW r \in Clients, NEW kind, Create(r, kind)
        PROVE  FALSE
    <3>1. \A u \in EnabledAdmins : role'[u] = role[u] /\ enabled'[u] = enabled[u]
      BY <2>2 DEF Create, EnabledAdmins, SessionsInv, UsersTyped
    <3> QED BY <3>1 DEF EnabledAdmins
  \* A protected change of an enabled administrator was refused if he is the last.
  <2>3. ASSUME NEW r \in Clients, req[r].protect, ~ChangeRefused(r),
               \A u \in Users \ {req[r].target} : role'[u] = role[u] /\ enabled'[u] = enabled[u]
        PROVE  FALSE
    <3> DEFINE S == EnabledAdmins
    <3>1. S \ {req[r].target} = {}
      BY <2>3 DEF EnabledAdmins
    <3>2. req[r].target \in S /\ Cardinality(S) > 1
      <4>1. req[r].target \in S /\ ~(Cardinality(S) <= 1)
        BY <2>3, <3>1 DEF ChangeRefused
      <4>2. IsFiniteSet(S) /\ Cardinality(S) \in Nat
        BY FS_Subset, FS_CardinalityType, SessionsAssumption DEF EnabledAdmins
      <4> QED BY <4>1, <4>2
    <3>3. IsFiniteSet(S)
      BY FS_Subset, SessionsAssumption DEF EnabledAdmins
    <3> HIDE DEF S
    <3> QED BY <3>1, <3>2, <3>3, OneRemains
  <2>4. ASSUME NEW r \in Clients, Update(r)
        PROVE  FALSE
    <3>1. CASE req[r].task \in {"disable", "demote"}
      <4>1. req[r].protect
        BY <2>4, <3>1 DEF Update, SessionsInv, RequestsSound, Sound
      <4> QED BY <2>3, <2>4, <4>1 DEF Update, SessionsInv, UsersTyped
    <3>2. CASE req[r].task \notin {"disable", "demote"}
      <4>1. \A u \in EnabledAdmins : role'[u] = "admin" /\ enabled'[u]
        BY <2>4, <3>2 DEF Update, EnabledAdmins, SessionsInv, UsersTyped
      <4> QED BY <4>1 DEF EnabledAdmins
    <3> QED BY <3>1, <3>2
  <2>5. ASSUME NEW r \in Clients, Delete(r)
        PROVE  ~req[r].protect
    BY <2>3, <2>5 DEF Delete, SessionsInv, UsersTyped
  <2>6. ASSUME NEW r \in Clients,
               \/ Authenticate(r) \/ Leave(r) \/ RefuseChange(r) \/ Invalidate(r)
               \/ \E u \in Users : LoginRead(r, u)
               \/ \E s \in Sessions : OpenSession(r, s)
               \/ \E u \in Users, asked \in Updates \cup {"create", "delete", "password"} :
                    AskChange(r, u, asked)
        PROVE  UNCHANGED <<role, enabled>>
    BY <2>6 DEF Authenticate, Leave, RefuseChange, Invalidate, LoginRead, OpenSession, AskChange,
                Lookup, CacheHit, CacheMiss, Reread, StoreCopy, Admit, Expire, ReadUser, Touch,
                TouchGet, TouchSet, RemoveRow, DropCopy, userVars
  <2>7. ASSUME \/ \E w \in late : Land(w)
               \/ \E s \in Sessions : EvictKey(s)
               \/ SessionsTick
        PROVE  UNCHANGED <<role, enabled>>
    BY <2>7 DEF Land, EvictKey, SessionsTick, userVars
  <2> QED BY <2>1, <2>2, <2>4, <2>5, <2>6, <2>7 DEF SessionsNext, ChangeUser
<1>2. SessionsSpec => [][Kept]_sessionsVars
  BY <1>1, SessionsInvariant, PTL DEF SessionsSpec
<1> QED BY <1>2 DEF LastAdminKept
=============================================================================
