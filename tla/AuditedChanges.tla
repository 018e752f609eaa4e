--------------------------- MODULE AuditedChanges ---------------------------
(***************************************************************************)
(* The three services that change a target database at a user's word and   *)
(* then record it: DataMutationService (rows), DdlService (objects) and    *)
(* NativeGrantService (privileges).  A row, an object and a privilege are  *)
(* all a cell with a content; a statement needs a content and puts one.    *)
(* Rows are changed in a transaction, objects and privileges in one on     *)
(* PostgreSQL and statement by statement on MySQL.  Effect, permit of the  *)
(* gate and audit record are in different stores: each can fail, or take   *)
(* effect and lose its answer.                                             *)
(***************************************************************************)
EXTENDS Naturals, Sequences

CONSTANTS
  Changes,       \* requests, each one call of mutate or execute
  Cells,         \* rows, objects or privileges
  Contents,      \* what a cell can hold
  Plans,         \* what users ask for, see PlanOK
  Untouched,     \* a cell a transaction has not written
  MaxMishaps     \* bound: calls that throw, processes that die

Kinds == {"mutation", "ddl", "database", "grant"}

\* A statement changes `cell` if it holds one of `needs`: an update or delete names the
\* content its user saw, an insert or CREATE needs absence, a DROP presence, a
\* GRANT nothing.  DDL is always a single statement.
Statement == [cell : Cells, needs : SUBSET Contents, puts : Contents]
PlanOK(p) ==
  /\ p.kind \in Kinds /\ p.statements \in Seq(Statement) /\ p.statements # <<>>
  /\ p.kind \in {"ddl", "database"} => Len(p.statements) = 1

ASSUME ChangesAssumption ==
  Untouched \notin Contents /\ MaxMishaps \in Nat /\ \A p \in Plans : PlanOK(p)

VARIABLES
  engine,   \* of the connection profile
  change,   \* each request: its place, its plan, and what its user was told
  target,   \* the committed contents of the target database
  draft,    \* what each open transaction has written
  audits,   \* the audit records of each request, in order
  mishaps,  \* calls that went wrong so far
  written,  \* history: the statements whose effect is in the draft
  done,     \* history: the statements of each request that are in effect for good
  clouded   \* history: requests some call of which lied: it threw after it took
            \* effect, or the permit or the record of what took effect was lost

databases == <<engine, target, draft, written, done>>
changeVars ==
  <<engine, change, target, draft, audits, mishaps, written, done, clouded>>

ChangeRecord ==
  [pc : {"idle", "reading", "running", "returning", "recording", "failing", "over"},
   plan : Plans,
   next : Nat \ {0},     \* the statement to execute
   applied : Nat,        \* appliedCount
   told : {"nothing", "ok", "failed", "gate", "error", "refused"}]
AuditRecord == [status : {"success", "failed"}, applied : Nat]

Statements(c) == change[c].plan.statements
Count(c) == Len(Statements(c))

\* Every variable keeps its type.
ChangesTypeOK ==
  /\ engine \in {"mysql", "postgres"}
  /\ change \in [Changes -> ChangeRecord]
  /\ target \in [Cells -> Contents]
  /\ draft \in [Changes -> [Cells -> Contents \cup {Untouched}]]
  /\ audits \in [Changes -> Seq(AuditRecord)]
  /\ mishaps \in 0..MaxMishaps
  /\ written \in [Changes -> SUBSET Nat]
  /\ done \in [Changes -> SUBSET Nat]
  /\ clouded \subseteq Changes

NoDraft == [x \in Cells |-> Untouched]

ChangesInit ==
  /\ engine \in {"mysql", "postgres"}
  /\ \E p \in Plans :
       change = [c \in Changes |-> [pc |-> "idle", plan |-> p, next |-> 1,
                                    applied |-> 0, told |-> "nothing"]]
  /\ \E v \in Contents : target = [x \in Cells |-> v]
  /\ draft = [c \in Changes |-> NoDraft]
  /\ audits = [c \in Changes |-> <<>>]
  /\ mishaps = 0
  /\ written = [c \in Changes |-> {}]
  /\ done = [c \in Changes |-> {}]
  /\ clouded = {}

Stands(c, pc) == change[c].pc = pc
Turn(c, pc) == change' = [change EXCEPT ![c].pc = pc]
Answer(c, told) == change' = [change EXCEPT ![c].pc = "over", ![c].told = told]
Mishap == mishaps < MaxMishaps /\ mishaps' = mishaps + 1
Cloud(c) == clouded' = clouded \cup {c}

\* Mutations always, DDL and grants where the engine can; CREATE DATABASE never.
Transactional(c) ==
  LET kind == change[c].plan.kind IN
  kind = "mutation" \/ (engine = "postgres" /\ kind # "database")

\* executeMysql calls the gateway and records statement by statement.
Stepwise(c) == change[c].plan.kind = "grant" /\ engine = "mysql"
-----------------------------------------------------------------------------
(* Before the change *)

\* Authorised and valid: the profile and the metadata of the target are read.
Request(c, p) ==
  /\ Stands(c, "idle")
  /\ change' = [change EXCEPT ![c].pc = "reading", ![c].plan = p]
  /\ UNCHANGED <<databases, audits, mishaps, clouded>>

\* What was read forbids the change (no stable key, no such account, a protected
\* one, a missing capability), and nothing is recorded.
RefuseChange(c) ==
  /\ Stands(c, "reading")
  /\ Answer(c, "refused")
  /\ UNCHANGED <<databases, audits, mishaps, clouded>>

\* Reading fails, or the gate has no permit: not recorded either.
ReadFails(c) ==
  /\ Stands(c, "reading") /\ Mishap
  /\ \E told \in {"failed", "gate"} : Answer(c, told)
  /\ UNCHANGED <<databases, audits, clouded>>

\* The connection is open, the transaction, if any, has begun.
BeginChange(c) ==
  /\ Stands(c, "reading")
  /\ Turn(c, "running")
  /\ UNCHANGED <<databases, audits, mishaps, clouded>>

\* The gate has no permit for a later statement of executeMysql: its caller is told so,
\* and nothing but the success of the earlier ones is recorded.
TurnedAway(c) ==
  /\ Stepwise(c) /\ Stands(c, "running") /\ change[c].next \in 2..Count(c) /\ Mishap
  /\ Answer(c, "gate")
  /\ UNCHANGED <<databases, audits, clouded>>
-----------------------------------------------------------------------------
(* In the target database *)

Ready(c) == Stands(c, "running") /\ change[c].next <= Count(c)
Current(c) == Statements(c)[change[c].next]
Seen(c, x) == IF draft[c][x] = Untouched THEN target[x] ELSE draft[c][x]

\* Another transaction holds the lock on the cell.
WaitsFor(c, d) == c # d /\ Ready(c) /\ draft[d][Current(c).cell] # Untouched
Blocked(c) == \E d \in Changes : WaitsFor(c, d)

\* The connection is lost or the transaction given up: nothing of it stays.
RollBack(c) ==
  /\ draft' = [draft EXCEPT ![c] = NoDraft]
  /\ written' = [written EXCEPT ![c] = {}]
  /\ UNCHANGED <<engine, target, audits, done>>

\* A statement takes effect, in the draft or for good.
Draft(c, s) ==
  /\ draft' = [draft EXCEPT ![c][s.cell] = s.puts]
  /\ written' = [written EXCEPT ![c] = @ \cup {change[c].next}]
  /\ UNCHANGED <<target, done>>
Change(c, s) ==
  /\ target' = [target EXCEPT ![s.cell] = s.puts]
  /\ done' = [done EXCEPT ![c] = @ \cup {change[c].next}]
  /\ UNCHANGED <<draft, written>>
Advance1(c) ==
  change' = [change EXCEPT ![c].next = @ + 1,
                           ![c].pc = IF Transactional(c) THEN @ ELSE "returning"]

\* Faulty: the number of affected rows is not looked at.
ExecuteUnchecked(c) ==
  LET s == Current(c) IN
  /\ Ready(c) /\ ~Blocked(c)
  /\ IF Seen(c, s.cell) \notin s.needs THEN UNCHANGED <<target, draft, written, done>>
     ELSE IF Transactional(c) THEN Draft(c, s) ELSE Change(c, s)
  /\ Advance1(c)
  /\ UNCHANGED <<engine, audits, mishaps, clouded>>

Execute(c) ==
  LET s == Current(c) IN
  /\ Ready(c) /\ ~Blocked(c) /\ Seen(c, s.cell) \in s.needs
  /\ IF Transactional(c) THEN Draft(c, s) ELSE Change(c, s)
  /\ Advance1(c)
  /\ UNCHANGED <<engine, audits, mishaps, clouded>>

\* The database breaks a deadlock by refusing one of the statements.
Deadlock(c) ==
  /\ \E d \in Changes : WaitsFor(c, d) /\ WaitsFor(d, c)
  /\ Turn(c, "failing")
  /\ RollBack(c)
  /\ UNCHANGED <<mishaps, clouded>>

\* A statement throws; outside a transaction it may have taken effect.
StatementFails(c) ==
  /\ Ready(c) /\ ~Blocked(c) /\ Mishap
  /\ Turn(c, "failing")
  /\ \/ RollBack(c) /\ UNCHANGED clouded
     \/ LET s == Current(c) IN
        /\ ~Transactional(c) /\ Seen(c, s.cell) \in s.needs
        /\ Change(c, s) /\ Cloud(c)
        /\ UNCHANGED <<engine, audits>>

MakePermanent(c) ==
  /\ target' = [x \in Cells |-> Seen(c, x)]
  /\ draft' = [draft EXCEPT ![c] = NoDraft]
  /\ done' = [done EXCEPT ![c] = @ \cup written[c]]
  /\ written' = [written EXCEPT ![c] = {}]
  /\ UNCHANGED <<engine, audits>>

\* Faulty: a conflict closes the connection, which commits what it has.
ConflictCommits(c) ==
  /\ Ready(c) /\ ~Blocked(c) /\ Seen(c, Current(c).cell) \notin Current(c).needs
  /\ Turn(c, "failing")
  /\ MakePermanent(c)
  /\ UNCHANGED <<mishaps, clouded>>

\* The row is not what the user saw (ROW_CONFLICT), the object exists or is missing:
\* the statement is refused, and a transaction with it.
Conflict(c) ==
  /\ Ready(c) /\ ~Blocked(c) /\ Seen(c, Current(c).cell) \notin Current(c).needs
  /\ Turn(c, "failing")
  /\ RollBack(c)
  /\ UNCHANGED <<mishaps, clouded>>

AtCommit(c) == Stands(c, "running") /\ change[c].next > Count(c)

Commit(c) ==
  /\ AtCommit(c)
  /\ Turn(c, "returning")
  /\ MakePermanent(c)
  /\ UNCHANGED <<mishaps, clouded>>

\* COMMIT throws: it failed, or took effect and the ROLLBACK after it does nothing.
CommitThrows(c) ==
  /\ AtCommit(c) /\ Mishap
  /\ Turn(c, "failing")
  /\ \/ RollBack(c) /\ UNCHANGED clouded
     \/ MakePermanent(c) /\ Cloud(c)

\* The process dies; the database drops the connection and what it had not committed.
Die(c) ==
  /\ ~Stands(c, "idle") /\ ~Stands(c, "over") /\ Mishap
  /\ Answer(c, "nothing")
  /\ RollBack(c)
  /\ UNCHANGED clouded
-----------------------------------------------------------------------------
(* After it: the permit, the record, the answer *)

\* The gateway returns through the gate.
Returned(c) ==
  /\ Stands(c, "returning")
  /\ change' = [change EXCEPT ![c].pc = "recording",
                              ![c].applied = IF Stepwise(c) THEN @ + 1 ELSE Count(c)]
  /\ UNCHANGED <<databases, audits, mishaps, clouded>>

\* The permit was lost: the caller is told so, of a change in effect, and no record
\* is made.  A release that throws otherwise counts as a failed change.
PermitLost(c) ==
  /\ Stands(c, "returning") /\ Mishap /\ Cloud(c)
  /\ Answer(c, "gate") \/ Turn(c, "failing")
  /\ UNCHANGED <<databases, audits>>

Append1(c, status, applied) ==
  audits' = [audits EXCEPT ![c] = Append(@, [status |-> status, applied |-> applied])]

\* Success is recorded and answered; executeMysql goes on to its next statement.
Record(c) ==
  /\ Stands(c, "recording")
  /\ Append1(c, "success", change[c].applied)
  /\ IF change[c].next <= Count(c) THEN Turn(c, "running") ELSE Answer(c, "ok")
  /\ UNCHANGED <<databases, mishaps, clouded>>

\* The record throws, stored or not.
RecordThrows(c) ==
  /\ Stands(c, "recording") /\ Mishap /\ Cloud(c)
  /\ Turn(c, "failing")
  /\ UNCHANGED audits \/ Append1(c, "success", change[c].applied)
  /\ UNCHANGED databases

\* What a failed request is said to have applied.
Claimed(c) == IF Stepwise(c) THEN change[c].applied ELSE 0

\* Failure is recorded and answered.
RecordFailure(c) ==
  /\ Stands(c, "failing")
  /\ Append1(c, "failed", Claimed(c))
  /\ Answer(c, "failed")
  /\ UNCHANGED <<databases, mishaps, clouded>>

\* Not even that: the caller gets the error of the audit.
RecordFailureThrows(c) ==
  /\ Stands(c, "failing") /\ Mishap
  /\ Answer(c, "error")
  /\ UNCHANGED audits \/ Append1(c, "failed", Claimed(c))
  /\ UNCHANGED <<databases, clouded>>

ChangesNext ==
  \E c \in Changes :
    \/ \E p \in Plans : Request(c, p)
    \/ RefuseChange(c) \/ ReadFails(c) \/ BeginChange(c) \/ TurnedAway(c)
    \/ Execute(c) \/ Conflict(c) \/ Deadlock(c) \/ StatementFails(c)
    \/ Commit(c) \/ CommitThrows(c) \/ Die(c)
    \/ Returned(c) \/ PermitLost(c)
    \/ Record(c) \/ RecordThrows(c) \/ RecordFailure(c) \/ RecordFailureThrows(c)

ChangesSpec == ChangesInit /\ [][ChangesNext]_changeVars
-----------------------------------------------------------------------------
(* Properties *)

\* What is answered or recorded as a success is in effect: a request that was
\* answered "ok" has had every statement take effect, on the content its user saw, and
\* a success record counts statements that are never undone.  So a conflict in the last
\* row of a batch, a lost connection or a refused commit leaves no record of success.
SuccessIsDone ==
  \A c \in Changes :
    /\ change[c].told = "ok" =>
         /\ done[c] = 1..Count(c)
         /\ audits[c] # <<>> /\ audits[c][Len(audits[c])].status = "success"
    /\ \A i \in DOMAIN audits[c] :
         audits[c][i].status = "success" => 1..audits[c][i].applied \subseteq done[c]

\* What is answered as a failure has not happened, beyond the statements counted
\* in the answer and the record, unless a call lied (`clouded`: a commit or a record that
\* took effect and threw, a permit lost afterwards; there the code does say "failed" of
\* a change in effect).
FailureIsUndone ==
  \A c \in Changes \ clouded :
    change[c].told = "failed" =>
      /\ done[c] = 1..Claimed(c)
      /\ \A i \in DOMAIN audits[c] :
           audits[c][i].status = "failed" => audits[c][i].applied = Claimed(c)
=============================================================================
