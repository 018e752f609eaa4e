------------------------ MODULE AuditedChanges_proof ------------------------
(* Theorems about changes of a target database and their audit records.       *)
EXTENDS AuditedChanges, TLAPS

-----------------------------------------------------------------------------
(* The invariant: at every place of a request, what is in effect, what is in *)
(* the draft, what is counted and what is recorded belong together.          *)

\* Until it begins, nothing has happened.
Untried(c) ==
  change[c].pc \in {"idle", "reading"} =>
    /\ change[c].next = 1 /\ change[c].applied = 0 /\ change[c].told = "nothing"
    /\ written[c] = {} /\ done[c] = {} /\ audits[c] = <<>> /\ c \notin clouded

\* In a transaction the statements before the next one are in the draft.
Drafted(c) ==
  change[c].pc = "running" /\ Transactional(c) =>
    /\ written[c] = 1..(change[c].next - 1) /\ done[c] = {}
    /\ change[c].next <= Count(c) + 1 /\ change[c].applied = 0

\* Outside of one they are in effect, and each was counted and recorded.
Stepped(c) ==
  change[c].pc = "running" /\ ~Transactional(c) =>
    /\ written[c] = {} /\ done[c] = 1..(change[c].next - 1)
    /\ change[c].next <= Count(c)
    /\ change[c].applied = IF Stepwise(c) THEN change[c].next - 1 ELSE 0
    /\ ~Stepwise(c) => change[c].next = 1

\* Between the database and the record, all statements sent are in effect.
Effective(c) ==
  change[c].pc \in {"returning", "recording"} =>
    /\ written[c] = {} /\ done[c] = 1..(change[c].next - 1)
    /\ change[c].next \in 2..(Count(c) + 1)
    /\ ~Stepwise(c) => change[c].next = Count(c) + 1
    /\ change[c].pc = "recording" => change[c].applied = change[c].next - 1
    /\ change[c].pc = "returning" =>
         change[c].applied = IF Stepwise(c) THEN change[c].next - 2 ELSE 0

\* Until it is over, a request is unclouded and has records of success only, unless a
\* call lied and it fails for that.
Promising(c) ==
  change[c].pc # "over" =>
    /\ change[c].told = "nothing"
    /\ c \in clouded => change[c].pc = "failing"
    /\ \A i \in DOMAIN audits[c] : audits[c][i].status = "success"

\* A request that fails, unclouded, leaves what it claims.
Failing(c) ==
  change[c].pc = "failing" =>
    written[c] = {} /\ (c \notin clouded => done[c] = 1..Claimed(c))

Recorded(c) ==
  \A i \in DOMAIN audits[c] :
    audits[c][i].status = "success" => 1..audits[c][i].applied \subseteq done[c]

Told(c) ==
  /\ change[c].told = "ok" =>
       /\ done[c] = 1..Count(c)
       /\ audits[c] # <<>> /\ audits[c][Len(audits[c])].status = "success"
  /\ change[c].told = "failed" /\ c \notin clouded =>
       /\ done[c] = 1..Claimed(c)
       /\ \A i \in DOMAIN audits[c] :
            audits[c][i].status = "failed" => audits[c][i].applied = Claimed(c)

Sound(c) ==
  /\ Untried(c) /\ Drafted(c) /\ Stepped(c) /\ Effective(c)
  /\ Promising(c) /\ Failing(c) /\ Recorded(c) /\ Told(c)

ChangesInv == ChangesTypeOK /\ \A c \in Changes : Sound(c)

-----------------------------------------------------------------------------
(* Facts about one request *)

\* What the assumption says of the plan of a request.
LEMMA PlanFacts ==
  ASSUME ChangesTypeOK, NEW c \in Changes
  PROVE  /\ Statements(c) \in Seq(Statement) /\ Count(c) \in Nat \ {0}
         /\ change[c].plan.kind \in Kinds
         /\ change[c].plan.kind \in {"ddl", "database"} => Count(c) = 1
<1>1. change[c].plan \in Plans
  BY DEF ChangesTypeOK, ChangeRecord
<1>2. PlanOK(change[c].plan)
  BY <1>1, ChangesAssumption
<1> QED BY <1>2 DEF PlanOK, Statements, Count

\* The statement at hand, and what it finds.
LEMMA CurrentFacts ==
  ASSUME ChangesTypeOK, NEW c \in Changes, Ready(c)
  PROVE  Current(c).cell \in Cells /\ Current(c).puts \in Contents
<1>1. Statements(c) \in Seq(Statement) /\ Count(c) \in Nat
  BY PlanFacts
<1>2. change[c].next \in 1..Len(Statements(c))
  BY <1>1 DEF Ready, Count, ChangesTypeOK, ChangeRecord
<1>3. Current(c) \in Statement
  BY <1>1, <1>2 DEF Current
<1> QED BY <1>3 DEF Statement

LEMMA SeenFacts ==
  ASSUME ChangesTypeOK, NEW c \in Changes, NEW x \in Cells
  PROVE  Seen(c, x) \in Contents
<1>1. target[x] \in Contents /\ draft[c][x] \in Contents \cup {Untouched}
  BY DEF ChangesTypeOK
<1> QED BY <1>1 DEF Seen

\* A grant on MySQL is not in a transaction, and only it has statements of its own.
LEMMA Modes ==
  ASSUME ChangesTypeOK, NEW c \in Changes, ~Transactional(c), ~Stepwise(c)
  PROVE  Count(c) = 1
<1>1. change[c].plan.kind \in Kinds /\ engine \in {"mysql", "postgres"}
  BY PlanFacts DEF ChangesTypeOK
<1>2. change[c].plan.kind \in {"ddl", "database"}
  BY <1>1 DEF Transactional, Stepwise, Kinds
<1> QED BY <1>2, PlanFacts

-----------------------------------------------------------------------------
(* Types *)

LEMMA ChangesTypedInitially == ChangesInit => ChangesTypeOK
<1> SUFFICES ASSUME ChangesInit PROVE ChangesTypeOK
  OBVIOUS
<1>1. change \in [Changes -> ChangeRecord]
  BY DEF ChangesInit, ChangeRecord
<1>2. target \in [Cells -> Contents] /\ draft \in [Changes -> [Cells -> Contents \cup {Untouched}]]
  BY DEF ChangesInit, NoDraft
<1>3. audits \in [Changes -> Seq(AuditRecord)]
  BY DEF ChangesInit
<1> QED BY <1>1, <1>2, <1>3, ChangesAssumption DEF ChangesInit, ChangesTypeOK

LEMMA RollBackTyped ==
  ASSUME ChangesTypeOK, NEW c \in Changes, RollBack(c)
  PROVE  /\ engine' \in {"mysql", "postgres"} /\ target' \in [Cells -> Contents]
         /\ draft' \in [Changes -> [Cells -> Contents \cup {Untouched}]]
         /\ written' \in [Changes -> SUBSET Nat] /\ done' \in [Changes -> SUBSET Nat]
         /\ audits' \in [Changes -> Seq(AuditRecord)]
  BY DEF RollBack, ChangesTypeOK, NoDraft

LEMMA PermanentTyped ==
  ASSUME ChangesTypeOK, NEW c \in Changes, MakePermanent(c)
  PROVE  /\ engine' \in {"mysql", "postgres"} /\ target' \in [Cells -> Contents]
         /\ draft' \in [Changes -> [Cells -> Contents \cup {Untouched}]]
         /\ written' \in [Changes -> SUBSET Nat] /\ done' \in [Changes -> SUBSET Nat]
         /\ audits' \in [Changes -> Seq(AuditRecord)]
<1>1. target' \in [Cells -> Contents]
  BY SeenFacts DEF MakePermanent
<1> QED BY <1>1 DEF MakePermanent, ChangesTypeOK, NoDraft

LEMMA StatementTyped ==
  ASSUME ChangesTypeOK, NEW c \in Changes, Ready(c),
         Draft(c, Current(c)) \/ Change(c, Current(c))
  PROVE  /\ target' \in [Cells -> Contents]
         /\ draft' \in [Changes -> [Cells -> Contents \cup {Untouched}]]
         /\ written' \in [Changes -> SUBSET Nat] /\ done' \in [Changes -> SUBSET Nat]
<1>1. Current(c).cell \in Cells /\ Current(c).puts \in Contents
  BY CurrentFacts
<1>2. change[c].next \in Nat
  BY DEF ChangesTypeOK, ChangeRecord
<1>3. CASE Draft(c, Current(c))
  BY <1>1, <1>2, <1>3 DEF Draft, ChangesTypeOK
<1>4. CASE Change(c, Current(c))
  BY <1>1, <1>2, <1>4 DEF Change, ChangesTypeOK
<1> QED BY <1>3, <1>4

LEMMA AppendTyped ==
  ASSUME ChangesTypeOK, NEW c \in Changes, NEW status \in {"success", "failed"},
         NEW applied \in Nat, Append1(c, status, applied)
  PROVE  audits' \in [Changes -> Seq(AuditRecord)]
<1>1. [status |-> status, applied |-> applied] \in AuditRecord
  BY DEF AuditRecord
<1> QED BY <1>1 DEF Append1, ChangesTypeOK

\* The places and answers a step gives a request are among those of ChangeRecord.
LEMMA TurnTyped ==
  ASSUME ChangesTypeOK, NEW c \in Changes,
         NEW pc \in {"idle", "reading", "running", "returning", "recording", "failing", "over"},
         Turn(c, pc)
  PROVE  change' \in [Changes -> ChangeRecord]
  BY ZenonT(40) DEF Turn, ChangesTypeOK, ChangeRecord

LEMMA AnswerTyped ==
  ASSUME ChangesTypeOK, NEW c \in Changes,
         NEW told \in {"nothing", "ok", "failed", "gate", "error", "refused"}, Answer(c, told)
  PROVE  change' \in [Changes -> ChangeRecord]
<1>1. change[c] \in ChangeRecord /\ DOMAIN change = Changes
  BY DEF ChangesTypeOK
<1>2. [change[c] EXCEPT !.pc = "over", !.told = told] \in ChangeRecord
  BY <1>1 DEF ChangeRecord
<1>3. change' = [change EXCEPT ![c] = [change[c] EXCEPT !.pc = "over", !.told = told]]
  BY <1>1 DEF Answer, ChangesTypeOK
<1> QED BY <1>2, <1>3 DEF ChangesTypeOK

LEMMA MishapTyped == ASSUME ChangesTypeOK, Mishap PROVE mishaps' \in 0..MaxMishaps
  BY ChangesAssumption DEF Mishap, ChangesTypeOK

LEMMA CloudTyped ==
  ASSUME ChangesTypeOK, NEW c \in Changes, Cloud(c) PROVE clouded' \subseteq Changes
  BY DEF Cloud, ChangesTypeOK

LEMMA ChangesTypedStep == ChangesTypeOK /\ [ChangesNext]_changeVars => ChangesTypeOK'
<1> SUFFICES ASSUME ChangesTypeOK, [ChangesNext]_changeVars PROVE ChangesTypeOK'
  OBVIOUS
<1>0. CASE UNCHANGED changeVars
  BY <1>0 DEF changeVars, ChangesTypeOK
<1>1. ASSUME NEW c \in Changes, NEW p \in Plans, Request(c, p) PROVE ChangesTypeOK'
  <2>1. change' \in [Changes -> ChangeRecord]
    <3>1. change[c] \in ChangeRecord
      BY DEF ChangesTypeOK
    <3>2. [change[c] EXCEPT !.pc = "reading", !.plan = p] \in ChangeRecord
      BY <3>1 DEF ChangeRecord
    <3>3. change' = [change EXCEPT ![c] = [change[c] EXCEPT !.pc = "reading", !.plan = p]]
      BY <1>1 DEF Request, ChangesTypeOK
    <3> QED BY <3>2, <3>3 DEF ChangesTypeOK
  <2> QED BY <1>1, <2>1 DEF Request, databases, ChangesTypeOK
<1>2. ASSUME NEW c \in Changes, RefuseChange(c) \/ BeginChange(c) PROVE ChangesTypeOK'
  <2>1. change' \in [Changes -> ChangeRecord]
    BY <1>2, TurnTyped, AnswerTyped DEF RefuseChange, BeginChange
  <2> QED BY <1>2, <2>1 DEF RefuseChange, BeginChange, databases, ChangesTypeOK
<1>3. ASSUME NEW c \in Changes, ReadFails(c) \/ TurnedAway(c) PROVE ChangesTypeOK'
  <2>1. change' \in [Changes -> ChangeRecord]
    BY <1>3, AnswerTyped DEF ReadFails, TurnedAway
  <2> QED BY <1>3, <2>1, MishapTyped DEF ReadFails, TurnedAway, databases, ChangesTypeOK
<1>4. ASSUME NEW c \in Changes, Execute(c) PROVE ChangesTypeOK'
  <2>1. change' \in [Changes -> ChangeRecord]
    <3> DEFINE pc == IF Transactional(c) THEN change[c].pc ELSE "returning"
    <3>1. change[c] \in ChangeRecord /\ change[c].next \in Nat
      BY DEF ChangesTypeOK, ChangeRecord
    <3>2. [change[c] EXCEPT !.next = change[c].next + 1, !.pc = pc] \in ChangeRecord
      <4>1. pc \in {"idle", "reading", "running", "returning", "recording", "failing", "over"}
        BY <3>1 DEF ChangeRecord
      <4>2. change[c].next + 1 \in Nat \ {0}
        BY <3>1
      <4> HIDE DEF pc
      <4> QED BY <3>1, <4>1, <4>2 DEF ChangeRecord
    <3>3. change' = [change EXCEPT ![c] = [change[c] EXCEPT !.next = change[c].next + 1, !.pc = pc]]
      <4>1. Advance1(c)
        BY <1>4 DEF Execute
      <4>2. CASE Transactional(c)
        BY <3>1, <4>1, <4>2 DEF Advance1, ChangesTypeOK, ChangeRecord
      <4>3. CASE ~Transactional(c)
        BY <3>1, <4>1, <4>3 DEF Advance1, ChangesTypeOK, ChangeRecord
      <4> QED BY <4>2, <4>3
    <3> QED BY <3>2, <3>3 DEF ChangesTypeOK
  <2>2. /\ target' \in [Cells -> Contents]
        /\ draft' \in [Changes -> [Cells -> Contents \cup {Untouched}]]
        /\ written' \in [Changes -> SUBSET Nat] /\ done' \in [Changes -> SUBSET Nat]
    BY <1>4, StatementTyped DEF Execute
  <2> QED BY <1>4, <2>1, <2>2 DEF Execute, ChangesTypeOK
<1>5. ASSUME NEW c \in Changes, Conflict(c) \/ Deadlock(c) PROVE ChangesTypeOK'
  <2>1. change' \in [Changes -> ChangeRecord]
    BY <1>5, TurnTyped DEF Conflict, Deadlock
  <2>2. RollBack(c) /\ mishaps' = mishaps /\ clouded' = clouded
    BY <1>5 DEF Conflict, Deadlock
  <2> QED BY <2>1, <2>2, RollBackTyped DEF ChangesTypeOK
<1>6. ASSUME NEW c \in Changes, StatementFails(c) PROVE ChangesTypeOK'
  <2>1. change' \in [Changes -> ChangeRecord]
    BY <1>6, TurnTyped DEF StatementFails
  <2>2. mishaps' \in 0..MaxMishaps
    BY <1>6, MishapTyped DEF StatementFails
  <2>3. CASE RollBack(c) /\ UNCHANGED clouded
    BY <2>1, <2>2, <2>3, RollBackTyped DEF ChangesTypeOK
  <2>4. CASE Change(c, Current(c)) /\ Cloud(c) /\ UNCHANGED <<engine, audits>>
    <3>1. clouded' \subseteq Changes
      BY <2>4, CloudTyped
    <3>2. Ready(c)
      BY <1>6 DEF StatementFails
    <3> QED BY <2>1, <2>2, <2>4, <3>1, <3>2, StatementTyped DEF ChangesTypeOK
  <2> QED BY <1>6, <2>3, <2>4 DEF StatementFails
<1>7. ASSUME NEW c \in Changes, Commit(c) PROVE ChangesTypeOK'
  <2>1. change' \in [Changes -> ChangeRecord]
    BY <1>7, TurnTyped DEF Commit
  <2> QED BY <1>7, <2>1, PermanentTyped DEF Commit, ChangesTypeOK
<1>8. ASSUME NEW c \in Changes, CommitThrows(c) PROVE ChangesTypeOK'
  <2>1. change' \in [Changes -> ChangeRecord] /\ mishaps' \in 0..MaxMishaps
    BY <1>8, TurnTyped, MishapTyped DEF CommitThrows
  <2>2. CASE RollBack(c) /\ UNCHANGED clouded
    BY <2>1, <2>2, RollBackTyped DEF ChangesTypeOK
  <2>3. CASE MakePermanent(c) /\ Cloud(c)
    BY <2>1, <2>3, PermanentTyped, CloudTyped DEF ChangesTypeOK
  <2> QED BY <1>8, <2>2, <2>3 DEF CommitThrows
<1>9. ASSUME NEW c \in Changes, Die(c) PROVE ChangesTypeOK'
  <2>1. change' \in [Changes -> ChangeRecord] /\ mishaps' \in 0..MaxMishaps
    BY <1>9, AnswerTyped, MishapTyped DEF Die
  <2> QED BY <1>9, <2>1, RollBackTyped DEF Die, ChangesTypeOK
<1>10. ASSUME NEW c \in Changes, Returned(c) PROVE ChangesTypeOK'
  <2>1. Count(c) \in Nat
    BY PlanFacts
  <2>2. change' \in [Changes -> ChangeRecord]
    <3> DEFINE applied == IF Stepwise(c) THEN change[c].applied + 1 ELSE Count(c)
    <3>1. change[c] \in ChangeRecord /\ applied \in Nat
      BY <2>1 DEF ChangesTypeOK, ChangeRecord
    <3>2. [change[c] EXCEPT !.pc = "recording", !.applied = applied] \in ChangeRecord
      BY <3>1 DEF ChangeRecord
    <3>3. change' = [change EXCEPT ![c] = [change[c] EXCEPT !.pc = "recording", !.applied = applied]]
      BY <1>10 DEF Returned, ChangesTypeOK
    <3> QED BY <3>1, <3>2, <3>3 DEF ChangesTypeOK
  <2> QED BY <1>10, <2>2 DEF Returned, databases, ChangesTypeOK
<1>11. ASSUME NEW c \in Changes, PermitLost(c) PROVE ChangesTypeOK'
  <2>1. change' \in [Changes -> ChangeRecord]
    BY <1>11, TurnTyped, AnswerTyped DEF PermitLost
  <2> QED BY <1>11, <2>1, MishapTyped, CloudTyped DEF PermitLost, databases, ChangesTypeOK
<1>12. ASSUME NEW c \in Changes, Record(c) PROVE ChangesTypeOK'
  <2>1. change' \in [Changes -> ChangeRecord]
    BY <1>12, TurnTyped, AnswerTyped DEF Record
  <2>2. change[c].applied \in Nat
    BY DEF ChangesTypeOK, ChangeRecord
  <2>3. audits' \in [Changes -> Seq(AuditRecord)]
    BY <1>12, <2>2, AppendTyped DEF Record
  <2> QED BY <1>12, <2>1, <2>3 DEF Record, databases, ChangesTypeOK
<1>13. ASSUME NEW c \in Changes, RecordThrows(c) PROVE ChangesTypeOK'
  <2>1. change' \in [Changes -> ChangeRecord]
    BY <1>13, TurnTyped DEF RecordThrows
  <2>2. change[c].applied \in Nat
    BY DEF ChangesTypeOK, ChangeRecord
  <2>3. audits' \in [Changes -> Seq(AuditRecord)]
    BY <1>13, <2>2, AppendTyped DEF RecordThrows, ChangesTypeOK
  <2> QED BY <1>13, <2>1, <2>3, MishapTyped, CloudTyped DEF RecordThrows, databases, ChangesTypeOK
<1>14. ASSUME NEW c \in Changes, RecordFailure(c) \/ RecordFailureThrows(c) PROVE ChangesTypeOK'
  <2>1. change' \in [Changes -> ChangeRecord]
    BY <1>14, AnswerTyped DEF RecordFailure, RecordFailureThrows
  <2>2. Claimed(c) \in Nat
    BY DEF Claimed, ChangesTypeOK, ChangeRecord
  <2>3. audits' \in [Changes -> Seq(AuditRecord)]
    BY <1>14, <2>2, AppendTyped DEF RecordFailure, RecordFailureThrows, ChangesTypeOK
  <2>4. mishaps' \in 0..MaxMishaps /\ clouded' = clouded
    BY <1>14, MishapTyped DEF RecordFailure, RecordFailureThrows, ChangesTypeOK
  <2> QED BY <1>14, <2>1, <2>3, <2>4 DEF RecordFailure, RecordFailureThrows, databases, ChangesTypeOK
<1> QED
  BY <1>0, <1>1, <1>2, <1>3, <1>4, <1>5, <1>6, <1>7, <1>8, <1>9, <1>10, <1>11, <1>12, <1>13, <1>14
  DEF ChangesNext

\* Every variable keeps its type.
THEOREM ChangesTyped == ChangesSpec => []ChangesTypeOK
  BY ChangesTypedInitially, ChangesTypedStep, PTL DEF ChangesSpec

-----------------------------------------------------------------------------
(* The invariant is kept *)

LEMMA SoundInitially == ChangesInit => ChangesInv
<1> SUFFICES ASSUME ChangesInit PROVE ChangesInv
  OBVIOUS
<1>1. ChangesTypeOK
  BY ChangesTypedInitially
<1>2. ASSUME NEW c \in Changes PROVE Sound(c)
  <2>1. /\ change[c].pc = "idle" /\ change[c].next = 1 /\ change[c].applied = 0
        /\ change[c].told = "nothing" /\ audits[c] = <<>>
        /\ written[c] = {} /\ done[c] = {} /\ c \notin clouded
    BY DEF ChangesInit
  <2> QED
    BY <2>1 DEF Sound, Untried, Drafted, Stepped, Effective, Promising, Failing, Recorded, Told
<1> QED BY <1>1, <1>2 DEF ChangesInv

\* A request no step is about.
Stays(c) ==
  /\ engine' = engine /\ change'[c] = change[c] /\ audits'[c] = audits[c]
  /\ written'[c] = written[c] /\ done'[c] = done[c] /\ (c \in clouded' <=> c \in clouded)

LEMMA SoundStays == ASSUME NEW c, Sound(c), Stays(c) PROVE Sound(c)'
<1>1. (Transactional(c) <=> Transactional(c)') /\ (Stepwise(c) <=> Stepwise(c)')
  BY DEF Stays, Transactional, Stepwise
<1>2. Count(c)' = Count(c)
  BY DEF Stays, Count, Statements
<1>3. Claimed(c)' = Claimed(c)
  BY <1>1 DEF Stays, Claimed
<1>4. Untried(c)' /\ Drafted(c)' /\ Stepped(c)' /\ Effective(c)'
  BY <1>1, <1>2 DEF Sound, Stays, Untried, Drafted, Stepped, Effective
<1>5. Promising(c)' /\ Failing(c)' /\ Recorded(c)' /\ Told(c)'
  BY <1>2, <1>3 DEF Sound, Stays, Promising, Failing, Recorded, Told
<1> QED BY <1>4, <1>5 DEF Sound

StepOf(c) ==
  \/ \E p \in Plans : Request(c, p)
  \/ RefuseChange(c) \/ ReadFails(c) \/ BeginChange(c) \/ TurnedAway(c)
  \/ Execute(c) \/ Conflict(c) \/ Deadlock(c) \/ StatementFails(c)
  \/ Commit(c) \/ CommitThrows(c) \/ Die(c)
  \/ Returned(c) \/ PermitLost(c)
  \/ Record(c) \/ RecordThrows(c) \/ RecordFailure(c) \/ RecordFailureThrows(c)

LEMMA OthersStay ==
  ASSUME ChangesTypeOK, NEW c \in Changes, StepOf(c), NEW d \in Changes \ {c}
  PROVE  Stays(d)
<1> USE DEF ChangesTypeOK
<1>1. ASSUME NEW p \in Plans, Request(c, p) PROVE Stays(d)
  BY <1>1 DEF Request, databases, Stays
<1>2. CASE RefuseChange(c) \/ ReadFails(c) \/ BeginChange(c) \/ TurnedAway(c) \/ Returned(c)
  BY <1>2 DEF RefuseChange, ReadFails, BeginChange, TurnedAway, Returned, databases, Answer, Turn, Stays
<1>3. CASE Execute(c)
  BY <1>3 DEF Execute, Advance1, Draft, Change, Stays
<1>4. CASE Conflict(c) \/ Deadlock(c) \/ Die(c)
  BY <1>4 DEF Conflict, Deadlock, Die, RollBack, Turn, Answer, Stays
<1>5. CASE StatementFails(c)
  BY <1>5 DEF StatementFails, RollBack, Change, Cloud, Turn, Stays
<1>6. CASE Commit(c) \/ CommitThrows(c)
  BY <1>6 DEF Commit, CommitThrows, MakePermanent, RollBack, Cloud, Turn, Stays
<1>7. CASE PermitLost(c)
  BY <1>7 DEF PermitLost, databases, Cloud, Turn, Answer, Stays
<1>8. CASE Record(c) \/ RecordThrows(c)
  BY <1>8 DEF Record, RecordThrows, databases, Append1, Cloud, Turn, Answer, Stays
<1>9. CASE RecordFailure(c) \/ RecordFailureThrows(c)
  BY <1>9 DEF RecordFailure, RecordFailureThrows, databases, Append1, Answer, Stays
<1> QED BY <1>1, <1>2, <1>3, <1>4, <1>5, <1>6, <1>7, <1>8, <1>9 DEF StepOf

\* A step that leaves a request its plan leaves it its mode.
LEMMA SamePlan ==
  ASSUME NEW c, engine' = engine, change'[c].plan = change[c].plan
  PROVE  /\ Count(c)' = Count(c) /\ (Transactional(c)' <=> Transactional(c))
         /\ (Stepwise(c)' <=> Stepwise(c))
  BY DEF Count, Statements, Transactional, Stepwise

\* What Turn and Answer do to their request.
LEMMA TurnFacts ==
  ASSUME ChangesTypeOK, NEW c \in Changes, NEW pc, Turn(c, pc), engine' = engine
  PROVE  /\ change'[c].pc = pc /\ change'[c].next = change[c].next
         /\ change'[c].applied = change[c].applied /\ change'[c].told = change[c].told
         /\ Count(c)' = Count(c) /\ (Transactional(c)' <=> Transactional(c))
         /\ (Stepwise(c)' <=> Stepwise(c)) /\ Claimed(c)' = Claimed(c)
<1>1. /\ change'[c].pc = pc /\ change'[c].next = change[c].next
      /\ change'[c].applied = change[c].applied /\ change'[c].told = change[c].told
      /\ change'[c].plan = change[c].plan
  BY DEF Turn, ChangesTypeOK, ChangeRecord
<1>2. /\ Count(c)' = Count(c) /\ (Transactional(c)' <=> Transactional(c))
      /\ (Stepwise(c)' <=> Stepwise(c))
  BY <1>1, SamePlan
<1> QED BY <1>1, <1>2 DEF Claimed

LEMMA AnswerFacts ==
  ASSUME ChangesTypeOK, NEW c \in Changes, NEW told, Answer(c, told), engine' = engine
  PROVE  /\ change'[c].pc = "over" /\ change'[c].told = told
         /\ Count(c)' = Count(c) /\ Claimed(c)' = Claimed(c)
<1>1. /\ change'[c].pc = "over" /\ change'[c].told = told
      /\ change'[c].applied = change[c].applied /\ change'[c].plan = change[c].plan
  BY DEF Answer, ChangesTypeOK, ChangeRecord
<1>2. Count(c)' = Count(c) /\ (Stepwise(c)' <=> Stepwise(c))
  BY <1>1, SamePlan
<1> QED BY <1>1, <1>2 DEF Claimed

\* A request that is over and was not told "ok" or "failed" has only its records to keep.
LEMMA OverSound ==
  ASSUME NEW c, change'[c].pc = "over", change'[c].told \notin {"ok", "failed"}, Recorded(c)'
  PROVE  Sound(c)'
  BY DEF Sound, Untried, Drafted, Stepped, Effective, Promising, Failing, Told

\* A request that fails keeps its records, and what it claims unless clouded.
LEMMA FailingSound ==
  ASSUME NEW c, change'[c].pc = "failing", change'[c].told = "nothing", written'[c] = {},
         c \notin clouded' => done'[c] = 1..Claimed(c)', Recorded(c)',
         \A i \in DOMAIN audits'[c] : audits'[c][i].status = "success"
  PROVE  Sound(c)'
  BY DEF Sound, Untried, Drafted, Stepped, Effective, Promising, Failing, Told

\* Records stay true as long as nothing is undone.
LEMMA RecordedStays ==
  ASSUME NEW c, Recorded(c), audits'[c] = audits[c], done[c] \subseteq done'[c]
  PROVE  Recorded(c)'
  BY DEF Recorded

\* The rollback of a request that runs leaves what it claims.
LEMMA RunningFails ==
  ASSUME ChangesTypeOK, NEW c \in Changes, Sound(c), Stands(c, "running"),
         Turn(c, "failing"), RollBack(c), UNCHANGED clouded
  PROVE  Sound(c)'
<1>1. /\ written'[c] = {} /\ done' = done /\ audits' = audits /\ engine' = engine
  BY DEF RollBack, ChangesTypeOK
<1>2. change'[c].pc = "failing" /\ change'[c].told = "nothing" /\ Claimed(c)' = Claimed(c)
  BY <1>1, TurnFacts DEF Sound, Promising, Stands
<1>3. done[c] = 1..Claimed(c)
  <2>1. CASE Transactional(c)
    <3>1. done[c] = {} /\ Claimed(c) = 0
      BY <2>1 DEF Sound, Drafted, Claimed, Stands
    <3> QED BY <3>1
  <2>2. CASE ~Transactional(c)
    BY <2>2 DEF Sound, Stepped, Claimed, Stands
  <2> QED BY <2>1, <2>2
<1>4. Recorded(c)' /\ \A i \in DOMAIN audits[c] : audits[c][i].status = "success"
  BY <1>1, RecordedStays DEF Sound, Promising, Stands
<1> QED BY <1>1, <1>2, <1>3, <1>4, FailingSound

LEMMA Begins ==
  ASSUME ChangesTypeOK, NEW c \in Changes, Sound(c),
         (\E p \in Plans : Request(c, p)) \/ BeginChange(c)
  PROVE  Sound(c)'
<1>1. /\ engine' = engine /\ audits' = audits /\ written' = written /\ done' = done
      /\ clouded' = clouded
  BY DEF Request, BeginChange, databases
<1>2. /\ written[c] = {} /\ done[c] = {} /\ audits[c] = <<>> /\ c \notin clouded
      /\ change[c].next = 1 /\ change[c].applied = 0 /\ change[c].told = "nothing"
  BY DEF Request, BeginChange, Stands, Sound, Untried
<1>3. ASSUME NEW p \in Plans, Request(c, p) PROVE Sound(c)'
  <2>1. /\ change'[c].pc = "reading" /\ change'[c].next = 1 /\ change'[c].applied = 0
        /\ change'[c].told = "nothing"
    BY <1>2, <1>3 DEF Request, ChangesTypeOK, ChangeRecord
  <2> QED BY <1>1, <1>2, <2>1
        DEF Sound, Untried, Drafted, Stepped, Effective, Promising, Failing, Recorded, Told
<1>4. CASE BeginChange(c)
  <2>1. Turn(c, "running")
    BY <1>4 DEF BeginChange
  <2>2. /\ change'[c].pc = "running" /\ change'[c].next = 1 /\ change'[c].applied = 0
        /\ change'[c].told = "nothing" /\ Count(c)' \in Nat \ {0}
    BY <1>1, <1>2, <2>1, TurnFacts, PlanFacts
  <2>3. Untried(c)' /\ Effective(c)' /\ Failing(c)'
    BY <2>2 DEF Untried, Effective, Failing
  <2>4. Drafted(c)' /\ Stepped(c)'
    <3>1. written'[c] = {} /\ done'[c] = {} /\ 1..(change'[c].next - 1) = {}
      BY <1>1, <1>2, <2>2
    <3> QED BY <2>2, <3>1 DEF Drafted, Stepped
  <2>5. Promising(c)' /\ Recorded(c)' /\ Told(c)'
    BY <1>1, <1>2, <2>2 DEF Promising, Recorded, Told
  <2> QED BY <2>3, <2>4, <2>5 DEF Sound
<1> QED BY <1>3, <1>4

LEMMA GivesUp ==
  ASSUME ChangesTypeOK, NEW c \in Changes, Sound(c), RefuseChange(c) \/ ReadFails(c)
  PROVE  Sound(c)'
<1>1. /\ engine' = engine /\ audits' = audits /\ written' = written /\ done' = done
      /\ clouded' = clouded
  BY DEF RefuseChange, ReadFails, databases
<1>2. PICK told \in {"refused", "failed", "gate"} : Answer(c, told)
  BY DEF RefuseChange, ReadFails
<1>3. /\ change'[c].pc = "over" /\ change'[c].told \in {"refused", "failed", "gate"}
      /\ Claimed(c)' = Claimed(c)
  BY <1>1, <1>2, AnswerFacts
<1>4. done[c] = {} /\ audits[c] = <<>> /\ Claimed(c) = 0
  BY DEF RefuseChange, ReadFails, Stands, Sound, Untried, Claimed
<1>5. Told(c)' /\ Recorded(c)'
  BY <1>1, <1>3, <1>4 DEF Told, Recorded
<1> QED BY <1>3, <1>5 DEF Sound, Untried, Drafted, Stepped, Effective, Promising, Failing

\* A statement takes effect and the request goes on.
LEMMA Executes ==
  ASSUME ChangesTypeOK, NEW c \in Changes, Sound(c), Execute(c)
  PROVE  Sound(c)'
<1> DEFINE n == change[c].next
<1>1. /\ Stands(c, "running") /\ n <= Count(c) /\ n \in Nat \ {0} /\ Count(c) \in Nat
      /\ change[c].applied \in Nat
  BY PlanFacts DEF Execute, Ready, ChangesTypeOK, ChangeRecord
<1>2. engine' = engine /\ audits' = audits /\ clouded' = clouded
  BY DEF Execute
<1>3. /\ change'[c].next = n + 1 /\ change'[c].applied = change[c].applied
      /\ change'[c].told = change[c].told /\ change'[c].plan = change[c].plan
      /\ change'[c].pc = IF Transactional(c) THEN "running" ELSE "returning"
  BY <1>1 DEF Execute, Advance1, Stands, ChangesTypeOK, ChangeRecord
<1>4. /\ Count(c)' = Count(c) /\ (Transactional(c)' <=> Transactional(c))
      /\ (Stepwise(c)' <=> Stepwise(c))
  BY <1>2, <1>3, SamePlan
<1>5. /\ change[c].told = "nothing" /\ c \notin clouded
      /\ \A i \in DOMAIN audits[c] : audits[c][i].status = "success"
  BY <1>1 DEF Stands, Sound, Promising
<1>6. 1..n = (1..(n - 1)) \cup {n}
  BY <1>1
<1>7. CASE Transactional(c)
  <2>1. Draft(c, Current(c))
    BY <1>7 DEF Execute
  <2>2. written'[c] = 1..n /\ done'[c] = {} /\ change[c].applied = 0
    BY <1>1, <1>6, <1>7, <2>1 DEF Draft, Sound, Drafted, Stands, ChangesTypeOK
  <2>3. Untried(c)' /\ Effective(c)' /\ Failing(c)'
    BY <1>3, <1>7 DEF Untried, Effective, Failing
  <2>4. Drafted(c)' /\ Stepped(c)'
    BY <1>1, <1>3, <1>4, <1>7, <2>2 DEF Drafted, Stepped
  <2>5. Promising(c)' /\ Told(c)'
    BY <1>2, <1>3, <1>5 DEF Promising, Told
  <2>6. Recorded(c)'
    BY <1>2, <2>1, RecordedStays DEF Sound, Draft
  <2> QED BY <2>3, <2>4, <2>5, <2>6 DEF Sound
<1>8. CASE ~Transactional(c)
  <2>1. Change(c, Current(c))
    BY <1>8 DEF Execute
  <2>2. /\ written'[c] = {} /\ done'[c] = 1..n /\ done[c] \subseteq done'[c]
        /\ change[c].applied = IF Stepwise(c) THEN n - 1 ELSE 0
        /\ ~Stepwise(c) => n = 1
    BY <1>1, <1>6, <1>8, <2>1 DEF Change, Sound, Stepped, Stands, ChangesTypeOK
  <2>3. ~Stepwise(c) => Count(c) = 1
    BY <1>8, Modes
  <2>4. Untried(c)' /\ Drafted(c)' /\ Stepped(c)' /\ Failing(c)'
    BY <1>3, <1>8 DEF Untried, Drafted, Stepped, Failing
  <2>5. Effective(c)'
    BY <1>1, <1>3, <1>4, <1>8, <2>2, <2>3 DEF Effective
  <2>6. Promising(c)' /\ Told(c)'
    BY <1>2, <1>3, <1>5 DEF Promising, Told
  <2>7. Recorded(c)'
    BY <1>2, <2>2, RecordedStays DEF Sound
  <2> QED BY <2>4, <2>5, <2>6, <2>7 DEF Sound
<1> QED BY <1>7, <1>8

\* A statement outside a transaction takes effect and throws.
LEMMA Misleads ==
  ASSUME ChangesTypeOK, NEW c \in Changes, Sound(c), Ready(c), Turn(c, "failing"),
         Change(c, Current(c)), Cloud(c), ~Transactional(c), UNCHANGED <<engine, audits>>
  PROVE  Sound(c)'
<1>1. Stands(c, "running")
  BY DEF Ready
<1>2. change'[c].pc = "failing" /\ change'[c].told = "nothing"
  BY <1>1, TurnFacts DEF Sound, Promising, Stands
<1>3. written'[c] = {} /\ c \in clouded' /\ done[c] \subseteq done'[c]
  BY <1>1 DEF Change, Cloud, Sound, Stepped, Stands, ChangesTypeOK
<1>4. Recorded(c)'
  BY <1>3, RecordedStays DEF Sound
<1>5. \A i \in DOMAIN audits[c] : audits[c][i].status = "success"
  BY <1>1 DEF Sound, Promising, Stands
<1> QED BY <1>2, <1>3, <1>4, <1>5, FailingSound

\* A commit makes everything drafted permanent.
LEMMA CommitFacts ==
  ASSUME ChangesTypeOK, NEW c \in Changes, Sound(c), AtCommit(c), MakePermanent(c)
  PROVE  /\ Transactional(c) /\ change[c].next = Count(c) + 1 /\ change[c].applied = 0
         /\ written'[c] = {} /\ done'[c] = 1..Count(c) /\ Recorded(c)'
         /\ engine' = engine /\ audits' = audits
         /\ change[c].told = "nothing"
         /\ \A i \in DOMAIN audits[c] : audits[c][i].status = "success"
<1>1. Stands(c, "running") /\ change[c].next > Count(c) /\ Count(c) \in Nat /\ change[c].next \in Nat
  BY PlanFacts DEF AtCommit, ChangesTypeOK, ChangeRecord
<1>2. Transactional(c)
  BY <1>1 DEF Sound, Stepped, Stands
<1>3. /\ change[c].next = Count(c) + 1 /\ written[c] = 1..Count(c) /\ done[c] = {}
      /\ change[c].applied = 0
  BY <1>1, <1>2 DEF Sound, Drafted, Stands
<1>4. /\ written'[c] = {} /\ done'[c] = 1..Count(c) /\ engine' = engine /\ audits' = audits
  BY <1>3 DEF MakePermanent, ChangesTypeOK
<1>5. Recorded(c)'
  BY <1>3, <1>4, RecordedStays DEF Sound
<1> QED BY <1>1, <1>2, <1>3, <1>4, <1>5 DEF Sound, Promising, Stands

LEMMA Commits ==
  ASSUME ChangesTypeOK, NEW c \in Changes, Sound(c), Commit(c)
  PROVE  Sound(c)'
<1>1. /\ Turn(c, "returning") /\ AtCommit(c) /\ MakePermanent(c) /\ clouded' = clouded
      /\ Count(c) \in Nat \ {0}
  BY PlanFacts DEF Commit
<1>2. /\ Transactional(c) /\ change[c].next = Count(c) + 1 /\ change[c].applied = 0
      /\ written'[c] = {} /\ done'[c] = 1..Count(c) /\ Recorded(c)'
      /\ engine' = engine /\ audits' = audits /\ change[c].told = "nothing"
      /\ \A i \in DOMAIN audits[c] : audits[c][i].status = "success"
  BY <1>1, CommitFacts
<1>3. /\ change'[c].pc = "returning" /\ change'[c].next = Count(c) + 1
      /\ change'[c].applied = 0 /\ change'[c].told = "nothing"
      /\ Count(c)' = Count(c) /\ (Stepwise(c)' <=> Stepwise(c))
  BY <1>1, <1>2, TurnFacts
<1>4. ~Stepwise(c)
  BY <1>2 DEF Transactional, Stepwise
<1>5. c \notin clouded
  BY <1>1 DEF AtCommit, Stands, Sound, Promising
<1>6. Untried(c)' /\ Drafted(c)' /\ Stepped(c)' /\ Failing(c)'
  BY <1>3 DEF Untried, Drafted, Stepped, Failing
<1>7. Effective(c)'
  <2>1. (Count(c) + 1) - 1 = Count(c) /\ Count(c) + 1 \in 2..(Count(c) + 1)
    BY <1>1
  <2> QED BY <1>2, <1>3, <1>4, <2>1 DEF Effective
<1>8. Promising(c)' /\ Told(c)'
  BY <1>1, <1>2, <1>3, <1>5 DEF Promising, Told
<1> QED BY <1>2, <1>6, <1>7, <1>8 DEF Sound

LEMMA CommitMisleads ==
  ASSUME ChangesTypeOK, NEW c \in Changes, Sound(c), AtCommit(c), MakePermanent(c),
         Turn(c, "failing"), Cloud(c)
  PROVE  Sound(c)'
<1>1. /\ written'[c] = {} /\ Recorded(c)' /\ engine' = engine /\ audits' = audits
      /\ change[c].told = "nothing"
      /\ \A i \in DOMAIN audits[c] : audits[c][i].status = "success"
  BY CommitFacts
<1>2. change'[c].pc = "failing" /\ change'[c].told = "nothing"
  BY <1>1, TurnFacts
<1>3. c \in clouded'
  BY DEF Cloud
<1> QED BY <1>1, <1>2, <1>3, FailingSound

LEMMA Dies == ASSUME ChangesTypeOK, NEW c \in Changes, Sound(c), Die(c) PROVE Sound(c)'
<1>1. Answer(c, "nothing") /\ engine' = engine /\ audits' = audits /\ done' = done
  BY DEF Die, RollBack
<1>2. change'[c].pc = "over" /\ change'[c].told = "nothing"
  BY <1>1, AnswerFacts
<1>3. Recorded(c)'
  BY <1>1, RecordedStays DEF Sound
<1> QED BY <1>2, <1>3, OverSound

LEMMA IsTurnedAway ==
  ASSUME ChangesTypeOK, NEW c \in Changes, Sound(c), TurnedAway(c) PROVE Sound(c)'
<1>1. Answer(c, "gate") /\ engine' = engine /\ audits' = audits /\ done' = done
  BY DEF TurnedAway, databases
<1>2. change'[c].pc = "over" /\ change'[c].told = "gate"
  BY <1>1, AnswerFacts
<1>3. Recorded(c)'
  BY <1>1, RecordedStays DEF Sound
<1> QED BY <1>2, <1>3, OverSound

LEMMA Returns == ASSUME ChangesTypeOK, NEW c \in Changes, Sound(c), Returned(c) PROVE Sound(c)'
<1> DEFINE n == change[c].next
<1>1. /\ engine' = engine /\ audits' = audits /\ written' = written /\ done' = done
      /\ clouded' = clouded /\ Stands(c, "returning") /\ Count(c) \in Nat \ {0}
  BY PlanFacts DEF Returned, databases
<1>2. /\ change'[c].pc = "recording" /\ change'[c].next = n
      /\ change'[c].told = change[c].told /\ change'[c].plan = change[c].plan
      /\ change'[c].applied = IF Stepwise(c) THEN change[c].applied + 1 ELSE Count(c)
  BY DEF Returned, ChangesTypeOK, ChangeRecord
<1>3. Count(c)' = Count(c) /\ (Stepwise(c)' <=> Stepwise(c))
  BY <1>1, <1>2, SamePlan
<1>4. /\ written[c] = {} /\ done[c] = 1..(n - 1) /\ n \in 2..(Count(c) + 1)
      /\ ~Stepwise(c) => n = Count(c) + 1
      /\ change[c].applied = IF Stepwise(c) THEN n - 2 ELSE 0
      /\ change[c].told = "nothing" /\ c \notin clouded
      /\ \A i \in DOMAIN audits[c] : audits[c][i].status = "success"
  BY <1>1 DEF Stands, Sound, Effective, Promising
<1>5. change'[c].applied = n - 1
  BY <1>1, <1>2, <1>4
<1>6. Untried(c)' /\ Drafted(c)' /\ Stepped(c)' /\ Failing(c)'
  BY <1>2 DEF Untried, Drafted, Stepped, Failing
<1>7. Effective(c)'
  BY <1>1, <1>2, <1>3, <1>4, <1>5 DEF Effective
<1>8. Promising(c)' /\ Told(c)'
  BY <1>1, <1>2, <1>4 DEF Promising, Told
<1>9. Recorded(c)'
  BY <1>1, RecordedStays DEF Sound
<1> QED BY <1>6, <1>7, <1>8, <1>9 DEF Sound

LEMMA LosesPermit ==
  ASSUME ChangesTypeOK, NEW c \in Changes, Sound(c), PermitLost(c) PROVE Sound(c)'
<1>1. /\ engine' = engine /\ audits' = audits /\ written' = written /\ done' = done
      /\ c \in clouded' /\ Stands(c, "returning")
  BY DEF PermitLost, databases, Cloud
<1>2. Recorded(c)'
  BY <1>1, RecordedStays DEF Sound
<1>3. CASE Answer(c, "gate")
  <2>1. change'[c].pc = "over" /\ change'[c].told = "gate"
    BY <1>1, <1>3, AnswerFacts
  <2> QED BY <1>2, <2>1, OverSound
<1>4. CASE Turn(c, "failing")
  <2>1. change'[c].pc = "failing" /\ change'[c].told = "nothing"
    BY <1>1, <1>4, TurnFacts DEF Stands, Sound, Promising
  <2>2. written[c] = {} /\ \A i \in DOMAIN audits[c] : audits[c][i].status = "success"
    BY <1>1 DEF Stands, Sound, Effective, Promising
  <2> QED BY <1>1, <1>2, <2>1, <2>2, FailingSound
<1> QED BY <1>3, <1>4 DEF PermitLost

\* One more record.
LEMMA RecordAppended ==
  ASSUME ChangesTypeOK, NEW c \in Changes, NEW status, NEW applied, Append1(c, status, applied)
  PROVE  /\ audits'[c] # <<>> /\ audits'[c][Len(audits'[c])] = [status |-> status, applied |-> applied]
         /\ \A i \in DOMAIN audits'[c] :
              \/ i \in DOMAIN audits[c] /\ audits'[c][i] = audits[c][i]
              \/ audits'[c][i] = [status |-> status, applied |-> applied]
<1> DEFINE new == [status |-> status, applied |-> applied]
<1>1. audits[c] \in Seq(AuditRecord) /\ audits'[c] = Append(audits[c], new)
  BY DEF Append1, ChangesTypeOK
<1>2. /\ Len(audits'[c]) = Len(audits[c]) + 1 /\ DOMAIN audits'[c] = 1..(Len(audits[c]) + 1)
      /\ audits'[c][Len(audits[c]) + 1] = new
      /\ \A i \in 1..Len(audits[c]) : audits'[c][i] = audits[c][i]
      /\ DOMAIN audits[c] = 1..Len(audits[c]) /\ Len(audits[c]) \in Nat
  BY <1>1
<1>3. audits'[c] # <<>>
  BY <1>2
<1>4. ASSUME NEW i \in DOMAIN audits'[c]
      PROVE  (i \in DOMAIN audits[c] /\ audits'[c][i] = audits[c][i]) \/ audits'[c][i] = new
  <2>1. i \in 1..Len(audits[c]) \/ i = Len(audits[c]) + 1
    BY <1>2
  <2> QED BY <1>2, <2>1
<1> QED BY <1>2, <1>3, <1>4

\* Recording a success of what is in effect.
LEMMA SuccessRecorded ==
  ASSUME ChangesTypeOK, NEW c \in Changes, Sound(c), Stands(c, "recording"),
         Append1(c, "success", change[c].applied), done'[c] = done[c]
  PROVE  /\ Recorded(c)' /\ audits'[c] # <<>> /\ audits'[c][Len(audits'[c])].status = "success"
         /\ \A i \in DOMAIN audits'[c] : audits'[c][i].status = "success"
<1> DEFINE new == [status |-> "success", applied |-> change[c].applied]
<1>1. /\ audits'[c] # <<>> /\ audits'[c][Len(audits'[c])] = new
      /\ \A i \in DOMAIN audits'[c] :
           (i \in DOMAIN audits[c] /\ audits'[c][i] = audits[c][i]) \/ audits'[c][i] = new
  BY RecordAppended
<1>2. /\ \A i \in DOMAIN audits[c] : audits[c][i].status = "success"
      /\ done[c] = 1..(change[c].next - 1) /\ change[c].applied = change[c].next - 1
  BY DEF Sound, Promising, Effective, Stands
<1>3. ASSUME NEW i \in DOMAIN audits'[c]
      PROVE  audits'[c][i].status = "success" /\ 1..audits'[c][i].applied \subseteq done[c]
  <2>1. CASE i \in DOMAIN audits[c] /\ audits'[c][i] = audits[c][i]
    BY <1>2, <2>1 DEF Sound, Recorded
  <2>2. CASE audits'[c][i] = new
    BY <1>2, <2>2
  <2> QED BY <1>1, <2>1, <2>2
<1> QED BY <1>1, <1>3 DEF Recorded

LEMMA Records == ASSUME ChangesTypeOK, NEW c \in Changes, Sound(c), Record(c) PROVE Sound(c)'
<1> DEFINE n == change[c].next
<1>1. /\ engine' = engine /\ written' = written /\ done' = done /\ clouded' = clouded
      /\ Stands(c, "recording") /\ Append1(c, "success", change[c].applied)
      /\ Count(c) \in Nat \ {0}
  BY PlanFacts DEF Record, databases
<1>2. /\ Recorded(c)' /\ audits'[c] # <<>> /\ audits'[c][Len(audits'[c])].status = "success"
      /\ \A i \in DOMAIN audits'[c] : audits'[c][i].status = "success"
  BY <1>1, SuccessRecorded
<1>3. /\ written[c] = {} /\ done[c] = 1..(n - 1) /\ n \in 2..(Count(c) + 1)
      /\ ~Stepwise(c) => n = Count(c) + 1
      /\ change[c].applied = n - 1 /\ change[c].told = "nothing" /\ c \notin clouded
  BY <1>1 DEF Stands, Sound, Effective, Promising
<1>4. CASE n <= Count(c)
  <2>1. Turn(c, "running")
    BY <1>4 DEF Record
  <2>2. /\ change'[c].pc = "running" /\ change'[c].next = n /\ change'[c].applied = n - 1
        /\ change'[c].told = "nothing" /\ Count(c)' = Count(c)
        /\ (Transactional(c)' <=> Transactional(c)) /\ (Stepwise(c)' <=> Stepwise(c))
    BY <1>1, <1>3, <2>1, TurnFacts
  <2>3. Stepwise(c) /\ ~Transactional(c)
    BY <1>1, <1>3, <1>4 DEF Stepwise, Transactional
  <2>4. Untried(c)' /\ Drafted(c)' /\ Effective(c)' /\ Failing(c)'
    BY <2>2, <2>3 DEF Untried, Drafted, Effective, Failing
  <2>5. Stepped(c)'
    BY <1>1, <1>3, <1>4, <2>2, <2>3 DEF Stepped
  <2>6. Promising(c)' /\ Told(c)'
    BY <1>1, <1>2, <1>3, <2>2 DEF Promising, Told
  <2> QED BY <1>2, <2>4, <2>5, <2>6 DEF Sound
<1>5. CASE ~(n <= Count(c))
  <2>1. Answer(c, "ok")
    BY <1>5 DEF Record
  <2>2. change'[c].pc = "over" /\ change'[c].told = "ok" /\ Count(c)' = Count(c)
    BY <1>1, <2>1, AnswerFacts
  <2>3. done'[c] = 1..Count(c)
    <3>1. n - 1 = Count(c)
      BY <1>1, <1>3, <1>5
    <3> QED BY <1>1, <1>3, <3>1
  <2>4. Told(c)'
    BY <1>2, <2>2, <2>3 DEF Told
  <2>5. /\ Untried(c)' /\ Drafted(c)' /\ Stepped(c)' /\ Effective(c)' /\ Promising(c)'
        /\ Failing(c)'
    BY <2>2 DEF Untried, Drafted, Stepped, Effective, Promising, Failing
  <2> QED BY <1>2, <2>4, <2>5 DEF Sound
<1> QED BY <1>4, <1>5

LEMMA RecordMisleads ==
  ASSUME ChangesTypeOK, NEW c \in Changes, Sound(c), RecordThrows(c) PROVE Sound(c)'
<1>1. /\ engine' = engine /\ written' = written /\ done' = done /\ c \in clouded'
      /\ Stands(c, "recording") /\ Turn(c, "failing")
  BY DEF RecordThrows, databases, Cloud
<1>2. /\ Recorded(c)' /\ \A i \in DOMAIN audits'[c] : audits'[c][i].status = "success"
  <2>1. CASE UNCHANGED audits
    BY <1>1, <2>1, RecordedStays DEF Stands, Sound, Promising
  <2>2. CASE Append1(c, "success", change[c].applied)
    BY <1>1, <2>2, SuccessRecorded
  <2> QED BY <2>1, <2>2 DEF RecordThrows
<1>3. change'[c].pc = "failing" /\ change'[c].told = "nothing" /\ written[c] = {}
  BY <1>1, TurnFacts DEF Stands, Sound, Promising, Effective
<1> QED BY <1>1, <1>2, <1>3, FailingSound

LEMMA RecordsFailure ==
  ASSUME ChangesTypeOK, NEW c \in Changes, Sound(c), RecordFailure(c) \/ RecordFailureThrows(c)
  PROVE  Sound(c)'
<1> DEFINE new == [status |-> "failed", applied |-> Claimed(c)]
<1>1. /\ engine' = engine /\ written' = written /\ done' = done /\ clouded' = clouded
      /\ Stands(c, "failing") /\ (UNCHANGED audits \/ Append1(c, "failed", Claimed(c)))
  BY DEF RecordFailure, RecordFailureThrows, databases
<1>2. PICK told \in {"failed", "error"} : Answer(c, told)
  BY DEF RecordFailure, RecordFailureThrows
<1>3. /\ change'[c].pc = "over" /\ change'[c].told \in {"failed", "error"}
      /\ Claimed(c)' = Claimed(c)
  BY <1>1, <1>2, AnswerFacts
<1>4. /\ c \notin clouded => done[c] = 1..Claimed(c)
      /\ \A i \in DOMAIN audits[c] : audits[c][i].status = "success"
  BY <1>1 DEF Stands, Sound, Failing, Promising
<1>5. \A i \in DOMAIN audits'[c] :
        (i \in DOMAIN audits[c] /\ audits'[c][i] = audits[c][i]) \/ audits'[c][i] = new
  BY <1>1, RecordAppended
<1>6. Recorded(c)'
  <2> SUFFICES ASSUME NEW i \in DOMAIN audits'[c], audits'[c][i].status = "success"
               PROVE  1..audits'[c][i].applied \subseteq done'[c]
    BY DEF Recorded
  <2>1. i \in DOMAIN audits[c] /\ audits'[c][i] = audits[c][i]
    BY <1>5
  <2> QED BY <1>1, <2>1 DEF Sound, Recorded
<1>7. Told(c)'
  <2>1. ASSUME NEW i \in DOMAIN audits'[c], audits'[c][i].status = "failed"
        PROVE  audits'[c][i].applied = Claimed(c)
    BY <1>4, <1>5, <2>1
  <2> QED BY <1>1, <1>3, <1>4, <2>1 DEF Told
<1>8. /\ Untried(c)' /\ Drafted(c)' /\ Stepped(c)' /\ Effective(c)' /\ Promising(c)'
      /\ Failing(c)'
  BY <1>3 DEF Untried, Drafted, Stepped, Effective, Promising, Failing
<1> QED BY <1>6, <1>7, <1>8 DEF Sound

LEMMA SoundStep ==
  ASSUME ChangesTypeOK, NEW c \in Changes, Sound(c), StepOf(c) PROVE Sound(c)'
<1>1. CASE (\E p \in Plans : Request(c, p)) \/ BeginChange(c)
  BY <1>1, Begins
<1>2. CASE RefuseChange(c) \/ ReadFails(c)
  BY <1>2, GivesUp
<1>3. CASE Execute(c)
  BY <1>3, Executes
<1>4. CASE Conflict(c) \/ Deadlock(c)
  BY <1>4, RunningFails DEF Conflict, Deadlock, WaitsFor, Ready
<1>5. CASE StatementFails(c)
  BY <1>5, RunningFails, Misleads DEF StatementFails, Ready
<1>6. CASE Commit(c)
  BY <1>6, Commits
<1>7. CASE CommitThrows(c)
  BY <1>7, RunningFails, CommitMisleads DEF CommitThrows, AtCommit
<1>8. CASE Die(c)
  BY <1>8, Dies
<1>9. CASE Returned(c) \/ TurnedAway(c)
  BY <1>9, Returns, IsTurnedAway
<1>10. CASE PermitLost(c)
  BY <1>10, LosesPermit
<1>11. CASE Record(c)
  BY <1>11, Records
<1>12. CASE RecordThrows(c)
  BY <1>12, RecordMisleads
<1>13. CASE RecordFailure(c) \/ RecordFailureThrows(c)
  BY <1>13, RecordsFailure
<1> QED
  BY <1>1, <1>2, <1>3, <1>4, <1>5, <1>6, <1>7, <1>8, <1>9, <1>10, <1>11, <1>12, <1>13 DEF StepOf

LEMMA ChangesInductive == ChangesInv /\ [ChangesNext]_changeVars => ChangesInv'
<1> SUFFICES ASSUME ChangesInv, [ChangesNext]_changeVars PROVE ChangesInv'
  OBVIOUS
<1>1. ChangesTypeOK /\ ChangesTypeOK'
  BY ChangesTypedStep DEF ChangesInv
<1>2. ASSUME NEW d \in Changes PROVE Sound(d)'
  <2>1. CASE UNCHANGED changeVars
    BY <2>1, SoundStays DEF ChangesInv, Stays, changeVars
  <2>2. CASE ChangesNext
    <3>1. PICK c \in Changes : StepOf(c)
      BY <2>2 DEF ChangesNext, StepOf
    <3>2. CASE c = d
      BY <1>1, <3>1, <3>2, SoundStep DEF ChangesInv
    <3>3. CASE c # d
      BY <1>1, <3>1, <3>3, OthersStay, SoundStays DEF ChangesInv
    <3> QED BY <3>2, <3>3
  <2> QED BY <2>1, <2>2
<1> QED BY <1>1, <1>2 DEF ChangesInv

-----------------------------------------------------------------------------
(* The theorems *)

THEOREM ChangesInvariant == ChangesSpec => []ChangesInv
  BY SoundInitially, ChangesInductive, PTL DEF ChangesSpec

\* What is answered or recorded as a success is in effect, for any number of requests,
\* any plans, and any number of calls that throw.
THEOREM SuccessTrue == ChangesSpec => []SuccessIsDone
<1>1. ChangesInv => SuccessIsDone
  BY DEF ChangesInv, Sound, Told, Recorded, SuccessIsDone
<1> QED BY <1>1, ChangesInvariant, PTL

\* What is answered as a failure has not happened, beyond what the answer counts,
\* unless a call lied.
THEOREM FailureTrue == ChangesSpec => []FailureIsUndone
<1>1. ChangesInv => FailureIsUndone
  BY DEF ChangesInv, Sound, Told, FailureIsUndone
<1> QED BY <1>1, ChangesInvariant, PTL

=============================================================================
