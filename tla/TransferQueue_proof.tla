------------------------ MODULE TransferQueue_proof ------------------------
(***************************************************************************)
(* What holds of TransferQueue for every set of jobs and workers and every *)
(* value of its constants.                                                 *)
(***************************************************************************)
EXTENDS TransferQueue, FiniteSetTheorems, TLAPS

\* The bounds of the assumption on the constants, without the order of Jobs.
LEMMA Bounds ==
  /\ MaxAttempts \in Nat \ {0}
  /\ LeaseTicks \in Nat \ {0}
  /\ MaxWait \in Nat
  /\ MaxCrashes \in Nat
  BY TransferQueueAssumption

LEMMA Updated ==
  ASSUME NEW S, NEW T, NEW f \in [S -> T], NEW x, NEW v \in T
  PROVE  [f EXCEPT ![x] = v] \in [S -> T]
  OBVIOUS

\* However old the clock reading, the lease it grants is not over when it is written.
LEMMA GrantedBounds ==
  ASSUME NEW age \in Ages
  PROVE  /\ Granted(age) \in Past..LeaseTicks
         /\ Granted(age) > Past
         /\ Within(Granted(age)) \in 0..LeaseTicks
         /\ Within(Granted(age)) > 0 => Within(Granted(age)) = Granted(age)
  BY Bounds DEF Ages, Granted, Past, Within

LEMMA PastBounds == Past \in Past..LeaseTicks /\ Past \in Int /\ Past <= 0
  BY Bounds DEF Past

\* What a transaction read holds until it writes: nothing but a transaction changes
\* a lease, and runOnce waits for its heartbeat.
PendingSound ==
  \A t \in pending :
    /\ t.op = "claim" =>
         leaseLeft[t.on] <= 0 /\ attempts[t.on] < MaxAttempts /\ pc[t.by] = "idle"
    /\ t.op = "heartbeat" =>
         /\ pc[t.by] \in Busy /\ job[t.by] = t.on /\ ~lost[t.by]
         /\ Owned(t.by, t.on, t.age) /\ Granted(t.age) >= leaseLeft[t.on]

\* A lease is granted, and a lease is extended, in one step or in two.
Grants(w) ==
  /\ pc[w] = "idle"
  /\ \E j \in Jobs, age \in Ages :
       leaseLeft[j] <= 0 /\ attempts[j] < MaxAttempts /\ Grant(w, j, age)

Extends(w) ==
  /\ pc[w] \in Busy
  /\ ~lost[w]
  /\ \E age \in Ages, seen \in {"previewed", "running"} :
       /\ Owned(w, job[w], age)
       /\ Granted(age) >= leaseLeft[job[w]]
       /\ Extend(w, age, seen)

LEMMA FirstFree ==
  ASSUME TypeOK, NEW j \in Jobs, NEW age \in Ages, First(j, age)
  PROVE  leaseLeft[j] <= 0 /\ attempts[j] < MaxAttempts /\ status[j] \in {"previewed", "running"}
  BY Bounds DEF First, Claimable, Ages, Past, TypeOK, RowTypes

LEMMA ClaimGrants ==
  ASSUME TypeOK, PendingSound, NEW w \in Workers, Claim(w) \/ ClaimWrite(w)
  PROVE  Grants(w)
  <1>1. CASE Claim(w)
    BY <1>1, FirstFree DEF Claim, Grants
  <1>2. CASE ClaimWrite(w)
    BY <1>2 DEF ClaimWrite, PendingSound, Grants, TypeOK, Txns
  <1> QED
    BY <1>1, <1>2

LEMMA HeartbeatExtends ==
  ASSUME TypeOK, PendingSound, NEW w \in Workers, Heartbeat(w) \/ HeartbeatWrite(w)
  PROVE  Extends(w)
  <1>1. CASE Heartbeat(w)
    BY <1>1 DEF Heartbeat, MayExtend, Extends
  <1>2. CASE HeartbeatWrite(w)
    BY <1>2 DEF HeartbeatWrite, PendingSound, Extends, TypeOK, Txns
  <1> QED
    BY <1>1, <1>2

LEMMA InitTypeOK == Init => TypeOK
  BY TransferQueueAssumption, PastBounds
     DEF Init, TypeOK, RowTypes, EffectTypes, WorkerTypes, Active, Resting, Busy, InHandler

\* A worker that goes on keeps its types, if it has a job where one is needed.
LEMMA MoveTypes ==
  ASSUME WorkerTypes, NEW w \in Workers, NEW to \in Resting \union Busy, Move(w, to),
         to \in Busy => job[w] \in Jobs,
         UNCHANGED <<job, lost, aborted, window>>
  PROVE  WorkerTypes'
  <1>1. pc' \in [Workers -> Resting \union Busy]
    BY DEF WorkerTypes, Move
  <1>2. cancelled' \in [Workers -> BOOLEAN]
    BY DEF WorkerTypes, Move
  <1>3. \A v \in Workers : pc'[v] \in Busy => job[v] \in Jobs
    BY DEF WorkerTypes, Move
  <1> QED
    BY <1>1, <1>2, <1>3 DEF WorkerTypes, Resting, Busy, InHandler

LEMMA NextTypeOK ==
  ASSUME TypeOK, PendingSound, [Next]_vars
  PROVE  TypeOK'
  <1> USE Bounds DEF TypeOK, rowVars, effectVars, workerVars
  <1>1. ASSUME NEW j \in Jobs, Create(j) PROVE TypeOK'
    <2>1. RowTypes'
      BY <1>1 DEF Create, RowTypes, Active, Terminal
    <2>2. EffectTypes'
      BY <1>1 DEF Create, EffectTypes
    <2>3. WorkerTypes'
      BY <1>1 DEF Create, WorkerTypes, Resting, Busy, InHandler
    <2>4. crashes' \in 0..MaxCrashes /\ pending' \subseteq Txns
      BY <1>1 DEF Create
    <2> QED
      BY <2>1, <2>2, <2>3, <2>4 DEF TypeOK, Txns
  <1>2. ASSUME NEW j \in Jobs, Preview(j) PROVE TypeOK'
    <2>1. RowTypes'
      BY <1>2 DEF Preview, RowTypes, Active, Terminal
    <2>2. EffectTypes'
      BY <1>2 DEF Preview, EffectTypes
    <2>3. WorkerTypes'
      BY <1>2 DEF Preview, WorkerTypes, Resting, Busy, InHandler
    <2>4. crashes' \in 0..MaxCrashes /\ pending' \subseteq Txns
      BY <1>2 DEF Preview
    <2> QED
      BY <2>1, <2>2, <2>3, <2>4 DEF TypeOK, Txns
  <1>3. ASSUME NEW j \in Jobs, Request(j) PROVE TypeOK'
    <2>1. RowTypes'
      BY <1>3 DEF Request, RowTypes, Active, Terminal
    <2>2. EffectTypes'
      BY <1>3 DEF Request, EffectTypes
    <2>3. WorkerTypes'
      BY <1>3 DEF Request, WorkerTypes, Resting, Busy, InHandler
    <2>4. crashes' \in 0..MaxCrashes /\ pending' \subseteq Txns
      BY <1>3 DEF Request
    <2> QED
      BY <2>1, <2>2, <2>3, <2>4 DEF TypeOK, Txns
  <1>4. ASSUME NEW j \in Jobs, Cancel(j) PROVE TypeOK'
    <2>1. RowTypes'
      BY <1>4 DEF Cancel, RowTypes, Active, Terminal
    <2>2. EffectTypes'
      BY <1>4 DEF Cancel, EffectTypes
    <2>3. WorkerTypes'
      BY <1>4 DEF Cancel, WorkerTypes, Resting, Busy, InHandler
    <2>4. crashes' \in 0..MaxCrashes /\ pending' \subseteq Txns
      BY <1>4 DEF Cancel
    <2> QED
      BY <2>1, <2>2, <2>3, <2>4 DEF TypeOK, Txns
  <1>5. ASSUME NEW w \in Workers, CancelLocal(w) PROVE TypeOK'
    <2>1. RowTypes'
      BY <1>5 DEF CancelLocal, RowTypes, Active, Terminal
    <2>2. EffectTypes'
      BY <1>5 DEF CancelLocal, EffectTypes
    <2>3. WorkerTypes'
      BY <1>5 DEF CancelLocal, WorkerTypes, Resting, Busy, InHandler
    <2>4. crashes' \in 0..MaxCrashes /\ pending' \subseteq Txns
      BY <1>5 DEF CancelLocal
    <2> QED
      BY <2>1, <2>2, <2>3, <2>4 DEF TypeOK, Txns
  <1>6. ASSUME NEW w \in Workers, Grants(w) PROVE TypeOK'
    <2>0. PICK j \in Jobs, age \in Ages : attempts[j] < MaxAttempts /\ Grant(w, j, age)
      BY <1>6 DEF Grants
    <2>1. RowTypes'
      <3>1. /\ status' = [status EXCEPT ![j] = "previewed"]
            /\ leaseOwner' = [leaseOwner EXCEPT ![j] = w]
            /\ leaseLeft' = [leaseLeft EXCEPT ![j] = Granted(age)]
            /\ attempts' = [attempts EXCEPT ![j] = @ + 1]
            /\ retryLeft' = [retryLeft EXCEPT ![j] = Past]
            /\ requested' = requested
        BY <2>0 DEF Grant
      <3>2. attempts[j] + 1 \in 0..MaxAttempts
        BY <2>0 DEF RowTypes, Active, Terminal
      <3> QED
        BY <3>1, <3>2, GrantedBounds, PastBounds DEF RowTypes, Active, Terminal
    <2>2. EffectTypes'
      BY <2>0 DEF Grant, EffectTypes
    <2>3. WorkerTypes'
      BY <2>0, GrantedBounds DEF Grant, Outcome, WorkerTypes, Resting, Busy, InHandler
    <2>4. crashes' \in 0..MaxCrashes /\ pending' \subseteq Txns
      BY <2>0 DEF Grant
    <2> QED
      BY <2>1, <2>2, <2>3, <2>4 DEF TypeOK, Txns
  <1>7. ASSUME NEW w \in Workers, Check(w) PROVE TypeOK'
    <2>1. RowTypes'
      BY <1>7 DEF Check, Goto, RowTypes, Active, Terminal
    <2>2. EffectTypes'
      BY <1>7 DEF Check, Goto, EffectTypes
    <2>3. WorkerTypes'
      BY <1>7, MoveTypes DEF Check, Goto, WorkerTypes, Resting, Busy, InHandler
    <2>4. crashes' \in 0..MaxCrashes /\ pending' \subseteq Txns
      BY <1>7 DEF Check, Goto
    <2> QED
      BY <2>1, <2>2, <2>3, <2>4 DEF TypeOK, Txns
  <1>8. ASSUME NEW w \in Workers, Refuse(w) PROVE TypeOK'
    <2>1. RowTypes'
      BY <1>8 DEF Refuse, Goto, RowTypes, Active, Terminal
    <2>2. EffectTypes'
      BY <1>8 DEF Refuse, Goto, EffectTypes
    <2>3. WorkerTypes'
      BY <1>8, MoveTypes DEF Refuse, Goto, WorkerTypes, Resting, Busy, InHandler
    <2>4. crashes' \in 0..MaxCrashes /\ pending' \subseteq Txns
      BY <1>8 DEF Refuse, Goto
    <2> QED
      BY <2>1, <2>2, <2>3, <2>4 DEF TypeOK, Txns
  <1>9. ASSUME NEW w \in Workers, Start(w) PROVE TypeOK'
    <2>1. RowTypes'
      BY <1>9 DEF Start, Outcome, RowTypes, Active, Terminal
    <2>2. EffectTypes'
      BY <1>9 DEF Start, Outcome, EffectTypes
    <2>3. WorkerTypes'
      BY <1>9, MoveTypes DEF Start, Outcome, WorkerTypes, Resting, Busy, InHandler
    <2>4. crashes' \in 0..MaxCrashes /\ pending' \subseteq Txns
      BY <1>9 DEF Start, Outcome
    <2> QED
      BY <2>1, <2>2, <2>3, <2>4 DEF TypeOK, Txns
  <1>10. ASSUME NEW w \in Workers, StartRefused(w) PROVE TypeOK'
    <2>1. RowTypes'
      BY <1>10 DEF StartRefused, Goto, RowTypes, Active, Terminal
    <2>2. EffectTypes'
      BY <1>10 DEF StartRefused, Goto, EffectTypes
    <2>3. WorkerTypes'
      BY <1>10, MoveTypes DEF StartRefused, Goto, WorkerTypes, Resting, Busy, InHandler
    <2>4. crashes' \in 0..MaxCrashes /\ pending' \subseteq Txns
      BY <1>10 DEF StartRefused, Goto
    <2> QED
      BY <2>1, <2>2, <2>3, <2>4 DEF TypeOK, Txns
  <1>11. ASSUME NEW w \in Workers, Open(w) PROVE TypeOK'
    <2>1. RowTypes'
      BY <1>11 DEF Open, Emptied, RowTypes, Active, Terminal
    <2>2. EffectTypes'
      BY <1>11 DEF Open, Emptied, EffectTypes
    <2>3. WorkerTypes'
      BY <1>11, MoveTypes DEF Open, Emptied, WorkerTypes, Resting, Busy, InHandler
    <2>4. crashes' \in 0..MaxCrashes /\ pending' \subseteq Txns
      BY <1>11 DEF Open, Emptied
    <2> QED
      BY <2>1, <2>2, <2>3, <2>4 DEF TypeOK, Txns
  <1>12. ASSUME NEW w \in Workers, Commit(w) PROVE TypeOK'
    <2>1. RowTypes'
      BY <1>12 DEF Commit, RowTypes, Active, Terminal
    <2>2. EffectTypes'
      <3>1. job[w] \in Jobs
        BY <1>12 DEF Commit, WorkerTypes, Busy, InHandler
      <3>2. commits' = [commits EXCEPT ![job[w]] = commits[job[w]] + 1]
        BY <1>12 DEF Commit
      <3>3. commits' \in [Jobs -> Nat]
        BY <3>2, <3>1 DEF EffectTypes
      <3>4. output' \in [Jobs -> BOOLEAN]
        BY <1>12, <3>1 DEF Commit, EffectTypes
      <3> QED
        BY <3>3, <3>4 DEF EffectTypes
    <2>3. WorkerTypes'
      BY <1>12, MoveTypes DEF Commit, WorkerTypes, Resting, Busy, InHandler
    <2>4. crashes' \in 0..MaxCrashes /\ pending' \subseteq Txns
      BY <1>12 DEF Commit
    <2> QED
      BY <2>1, <2>2, <2>3, <2>4 DEF TypeOK, Txns
  <1>13. ASSUME NEW w \in Workers, Break(w) PROVE TypeOK'
    <2>1. RowTypes'
      BY <1>13 DEF Break, Goto, Emptied, RowTypes, Active, Terminal
    <2>2. EffectTypes'
      BY <1>13 DEF Break, Goto, Emptied, EffectTypes
    <2>3. WorkerTypes'
      BY <1>13, MoveTypes DEF Break, Goto, Emptied, WorkerTypes, Resting, Busy, InHandler
    <2>4. crashes' \in 0..MaxCrashes /\ pending' \subseteq Txns
      BY <1>13 DEF Break, Goto, Emptied
    <2> QED
      BY <2>1, <2>2, <2>3, <2>4 DEF TypeOK, Txns
  <1>14. ASSUME NEW w \in Workers, Accept(w) PROVE TypeOK'
    <2>1. RowTypes'
      BY <1>14 DEF Accept, Goto, RowTypes, Active, Terminal
    <2>2. EffectTypes'
      BY <1>14 DEF Accept, Goto, EffectTypes
    <2>3. WorkerTypes'
      BY <1>14, MoveTypes DEF Accept, Goto, WorkerTypes, Resting, Busy, InHandler
    <2>4. crashes' \in 0..MaxCrashes /\ pending' \subseteq Txns
      BY <1>14 DEF Accept, Goto
    <2> QED
      BY <2>1, <2>2, <2>3, <2>4 DEF TypeOK, Txns
  <1>15. ASSUME NEW w \in Workers, Finish(w) PROVE TypeOK'
    <2>1. RowTypes'
      BY <1>15 DEF Finish, Outcome, RowTypes, Active, Terminal
    <2>2. EffectTypes'
      BY <1>15 DEF Finish, Outcome, EffectTypes
    <2>3. WorkerTypes'
      BY <1>15, MoveTypes DEF Finish, Outcome, WorkerTypes, Resting, Busy, InHandler
    <2>4. crashes' \in 0..MaxCrashes /\ pending' \subseteq Txns
      BY <1>15 DEF Finish, Outcome
    <2> QED
      BY <2>1, <2>2, <2>3, <2>4 DEF TypeOK, Txns
  <1>16. ASSUME NEW w \in Workers, FinishRefused(w) PROVE TypeOK'
    <2>1. RowTypes'
      BY <1>16 DEF FinishRefused, Goto, RowTypes, Active, Terminal
    <2>2. EffectTypes'
      BY <1>16 DEF FinishRefused, Goto, EffectTypes
    <2>3. WorkerTypes'
      BY <1>16, MoveTypes DEF FinishRefused, Goto, WorkerTypes, Resting, Busy, InHandler
    <2>4. crashes' \in 0..MaxCrashes /\ pending' \subseteq Txns
      BY <1>16 DEF FinishRefused, Goto
    <2> QED
      BY <2>1, <2>2, <2>3, <2>4 DEF TypeOK, Txns
  <1>17. ASSUME NEW w \in Workers, Discard(w) PROVE TypeOK'
    <2>1. RowTypes'
      BY <1>17 DEF Discard, Emptied, RowTypes, Active, Terminal
    <2>2. EffectTypes'
      BY <1>17 DEF Discard, Emptied, EffectTypes
    <2>3. WorkerTypes'
      BY <1>17, MoveTypes DEF Discard, Emptied, WorkerTypes, Resting, Busy, InHandler
    <2>4. crashes' \in 0..MaxCrashes /\ pending' \subseteq Txns
      BY <1>17 DEF Discard, Emptied
    <2> QED
      BY <2>1, <2>2, <2>3, <2>4 DEF TypeOK, Txns
  <1>18. ASSUME NEW w \in Workers, Mark(w) PROVE TypeOK'
    <2>1. RowTypes'
      BY <1>18 DEF Mark, RowTypes, Active, Terminal
    <2>2. EffectTypes'
      BY <1>18 DEF Mark, EffectTypes
    <2>3. WorkerTypes'
      BY <1>18, MoveTypes DEF Mark, WorkerTypes, Resting, Busy, InHandler
    <2>4. crashes' \in 0..MaxCrashes /\ pending' \subseteq Txns
      BY <1>18 DEF Mark
    <2> QED
      BY <2>1, <2>2, <2>3, <2>4 DEF TypeOK, Txns
  <1>19. ASSUME NEW w \in Workers, MarkError(w) PROVE TypeOK'
    <2>1. RowTypes'
      BY <1>19 DEF MarkError, Goto, RowTypes, Active, Terminal
    <2>2. EffectTypes'
      BY <1>19 DEF MarkError, Goto, EffectTypes
    <2>3. WorkerTypes'
      BY <1>19, MoveTypes DEF MarkError, Goto, WorkerTypes, Resting, Busy, InHandler
    <2>4. crashes' \in 0..MaxCrashes /\ pending' \subseteq Txns
      BY <1>19 DEF MarkError, Goto
    <2> QED
      BY <2>1, <2>2, <2>3, <2>4 DEF TypeOK, Txns
  <1>20. ASSUME NEW w \in Workers, Complete(w) PROVE TypeOK'
    <2>1. RowTypes'
      <3>1. /\ status' = [status EXCEPT ![job[w]] = "succeeded"]
            /\ leaseOwner' = [leaseOwner EXCEPT ![job[w]] = NoWorker]
            /\ leaseLeft' = [leaseLeft EXCEPT ![job[w]] = Past]
            /\ retryLeft' = [retryLeft EXCEPT ![job[w]] = Past]
            /\ requested' = [requested EXCEPT ![job[w]] = FALSE]
            /\ attempts' = attempts
        BY <1>20 DEF Complete
      <3>2. status' \in [Jobs -> Active \union Terminal \union {"absent"}]
        BY <3>1 DEF RowTypes, Terminal
      <3>3. requested' \in [Jobs -> BOOLEAN]
        BY <3>1 DEF RowTypes
      <3>4. leaseOwner' \in [Jobs -> Workers \union {NoWorker}]
        BY <3>1 DEF RowTypes
      <3>5. leaseLeft' \in [Jobs -> Past..LeaseTicks]
        <4>1. leaseLeft \in [Jobs -> Past..LeaseTicks]
          BY DEF RowTypes
        <4> QED
          BY <3>1, <4>1, Updated, PastBounds, Zenon
      <3>6. attempts' \in [Jobs -> 0..MaxAttempts] /\ retryLeft' \in [Jobs -> Int]
        BY <3>1, PastBounds DEF RowTypes
      <3> QED
        BY <3>2, <3>3, <3>4, <3>5, <3>6 DEF RowTypes
    <2>2. EffectTypes'
      BY <1>20 DEF Complete, Leave, EffectTypes
    <2>3. WorkerTypes'
      <3>1. CASE Leave(w)
        BY <3>1 DEF Leave, WorkerTypes, Resting, Busy, InHandler
      <3>2. CASE /\ pc' = [pc EXCEPT ![w] = "thrown"]
                 /\ window' = [window EXCEPT ![w] = 0]
                 /\ UNCHANGED <<job, lost, aborted, cancelled>>
        <4>1. job[w] \in Jobs
          BY <1>20 DEF Complete, WorkerTypes, Resting, Busy, InHandler
        <4> QED
          BY <3>2, <4>1 DEF WorkerTypes, Resting, Busy, InHandler
      <3> QED
        BY <1>20, <3>1, <3>2 DEF Complete, WorkerTypes, Resting, Busy, InHandler
    <2>4. crashes' \in 0..MaxCrashes /\ pending' \subseteq Txns
      BY <1>20 DEF Complete, Leave
    <2> QED
      BY <2>1, <2>2, <2>3, <2>4 DEF TypeOK, Txns
  <1>21. ASSUME NEW w \in Workers, CompleteRefused(w) PROVE TypeOK'
    <2>1. RowTypes'
      BY <1>21 DEF CompleteRefused, Goto, RowTypes, Active, Terminal
    <2>2. EffectTypes'
      BY <1>21 DEF CompleteRefused, Goto, EffectTypes
    <2>3. WorkerTypes'
      BY <1>21, MoveTypes DEF CompleteRefused, Goto, WorkerTypes, Resting, Busy, InHandler
    <2>4. crashes' \in 0..MaxCrashes /\ pending' \subseteq Txns
      BY <1>21 DEF CompleteRefused, Goto
    <2> QED
      BY <2>1, <2>2, <2>3, <2>4 DEF TypeOK, Txns
  <1>22. ASSUME NEW w \in Workers, Fail(w) PROVE TypeOK'
    <2>1. RowTypes'
      <3>1. /\ job[w] \in Jobs
            /\ leaseOwner' = [leaseOwner EXCEPT ![job[w]] = NoWorker]
            /\ leaseLeft' = [leaseLeft EXCEPT ![job[w]] = Past]
            /\ UNCHANGED <<requested, attempts>>
        BY <1>22 DEF Fail, WorkerTypes, Busy, InHandler
      <3>2. status' \in [Jobs -> Active \union Terminal \union {"absent"}]
        BY <1>22, <3>1 DEF Fail, RowTypes, Active, Terminal
      <3>3. Backoff[attempts[job[w]]] \in Nat
        BY <3>1, TransferQueueAssumption DEF RowTypes
      <3>4. PICK age \in Ages : retryLeft' = [retryLeft EXCEPT ![job[w]] =
                IF Exhausted(job[w]) THEN Past ELSE Backoff[attempts[job[w]]] - age]
        BY <1>22 DEF Fail
      <3>9. Backoff[attempts[job[w]]] - age \in Int
        BY <3>3, Bounds DEF Ages
      <3>5. retryLeft' \in [Jobs -> Int]
        BY <3>4, <3>9, PastBounds DEF RowTypes
      <3>6. leaseOwner' \in [Jobs -> Workers \union {NoWorker}]
        BY <3>1 DEF RowTypes
      <3>7. leaseLeft' \in [Jobs -> Past..LeaseTicks]
        BY <3>1, PastBounds DEF RowTypes
      <3>8. requested' \in [Jobs -> BOOLEAN] /\ attempts' \in [Jobs -> 0..MaxAttempts]
        BY <3>1 DEF RowTypes
      <3> QED
        BY <3>2, <3>5, <3>6, <3>7, <3>8 DEF RowTypes
    <2>2. EffectTypes'
      BY <1>22 DEF Fail, Leave, EffectTypes
    <2>3. WorkerTypes'
      BY <1>22 DEF Fail, Leave, WorkerTypes, Resting, Busy, InHandler
    <2>4. crashes' \in 0..MaxCrashes /\ pending' \subseteq Txns
      BY <1>22 DEF Fail, Leave
    <2> QED
      BY <2>1, <2>2, <2>3, <2>4 DEF TypeOK, Txns
  <1>23. ASSUME NEW w \in Workers, GiveUp(w) PROVE TypeOK'
    <2>1. RowTypes'
      BY <1>23 DEF GiveUp, Leave, RowTypes, Active, Terminal
    <2>2. EffectTypes'
      BY <1>23 DEF GiveUp, Leave, EffectTypes
    <2>3. WorkerTypes'
      BY <1>23 DEF GiveUp, Leave, WorkerTypes, Resting, Busy, InHandler
    <2>4. crashes' \in 0..MaxCrashes /\ pending' \subseteq Txns
      BY <1>23 DEF GiveUp, Leave
    <2> QED
      BY <2>1, <2>2, <2>3, <2>4 DEF TypeOK, Txns
  <1>24. ASSUME NEW w \in Workers, Extends(w) PROVE TypeOK'
    <2>0. PICK age \in Ages, seen \in {"previewed", "running"} : Extend(w, age, seen)
      BY <1>24 DEF Extends
    <2>1. RowTypes'
      <3>1. /\ status' = [status EXCEPT ![job[w]] = seen]
            /\ leaseLeft' = [leaseLeft EXCEPT ![job[w]] = Granted(age)]
            /\ UNCHANGED <<requested, leaseOwner, attempts, retryLeft>>
        BY <2>0 DEF Extend
      <3>2. leaseLeft' \in [Jobs -> Past..LeaseTicks]
        <4>1. leaseLeft \in [Jobs -> Past..LeaseTicks]
          BY DEF RowTypes
        <4> QED
          BY <3>1, <4>1, Updated, GrantedBounds, Zenon
      <3>3. status' \in [Jobs -> Active \union Terminal \union {"absent"}]
        BY <3>1 DEF RowTypes, Active
      <3> QED
        BY <3>1, <3>2, <3>3 DEF RowTypes
    <2>2. EffectTypes'
      BY <2>0 DEF Extend, EffectTypes
    <2>3. WorkerTypes'
      <3>1. pc' = pc /\ job' = job /\ cancelled' = cancelled
        BY <2>0 DEF Extend
      <3>2. lost' \in [Workers -> BOOLEAN] /\ aborted' \in [Workers -> BOOLEAN]
        BY <2>0 DEF Extend, WorkerTypes
      <3>3. window' = [window EXCEPT ![w] = Within(Granted(age))] \/ window' = window
        BY <2>0 DEF Extend
      <3>4. window' \in [Workers -> 0..LeaseTicks]
        BY <3>3, GrantedBounds DEF WorkerTypes
      <3> QED
        BY <3>1, <3>2, <3>4 DEF WorkerTypes
    <2>4. crashes' \in 0..MaxCrashes /\ pending' \subseteq Txns
      BY <2>0 DEF Extend
    <2> QED
      BY <2>1, <2>2, <2>3, <2>4 DEF TypeOK, Txns
  <1>25. ASSUME NEW w \in Workers, HeartbeatRefused(w) PROVE TypeOK'
    <2>1. RowTypes'
      BY <1>25 DEF HeartbeatRefused, RowTypes, Active, Terminal
    <2>2. EffectTypes'
      BY <1>25 DEF HeartbeatRefused, EffectTypes
    <2>3. WorkerTypes'
      BY <1>25 DEF HeartbeatRefused, WorkerTypes, Resting, Busy, InHandler
    <2>4. crashes' \in 0..MaxCrashes /\ pending' \subseteq Txns
      BY <1>25 DEF HeartbeatRefused
    <2> QED
      BY <2>1, <2>2, <2>3, <2>4 DEF TypeOK, Txns
  <1>26. ASSUME NEW w \in Workers, Crash(w) PROVE TypeOK'
    <2>1. RowTypes'
      BY <1>26 DEF Crash, RowTypes, Active, Terminal
    <2>2. EffectTypes'
      BY <1>26 DEF Crash, EffectTypes
    <2>3. WorkerTypes'
      BY <1>26 DEF Crash, WorkerTypes, Resting, Busy, InHandler
    <2>4. crashes' \in 0..MaxCrashes /\ pending' \subseteq Txns
      BY <1>26 DEF Crash
    <2> QED
      BY <2>1, <2>2, <2>3, <2>4 DEF TypeOK, Txns
  <1>27. ASSUME NEW w \in Workers, ClaimSelect(w) \/ HeartbeatSelect(w) PROVE TypeOK'
    <2>1. UNCHANGED <<rowVars, effectVars, workerVars, crashes>>
      BY <1>27 DEF ClaimSelect, HeartbeatSelect
    <2>2. ASSUME ClaimSelect(w) PROVE pending' \subseteq Txns
      <3>1. PICK j \in Jobs, age \in Ages : First(j, age) /\ pending' = {Txn("claim", w, j, age)}
        BY <2>2 DEF ClaimSelect
      <3>2. status[j] \in {"previewed", "running"}
        BY <3>1, FirstFree
      <3> QED
        BY <3>1, <3>2 DEF Txn, Txns
    <2>3. ASSUME HeartbeatSelect(w) PROVE pending' \subseteq Txns
      <3>1. PICK age \in Ages : /\ job[w] \in Jobs
                                /\ status[job[w]] \in {"previewed", "running"}
                                /\ pending' = {Txn("heartbeat", w, job[w], age)}
        BY <2>3 DEF HeartbeatSelect, MayExtend, WorkerTypes
      <3> QED
        BY <3>1 DEF Txn, Txns
    <2> QED
      BY <1>27, <2>1, <2>2, <2>3 DEF RowTypes, EffectTypes, WorkerTypes, Txns
  <1>28. CASE Tick
    <2>1. /\ \A n \in Past..LeaseTicks : Less(n, Past) \in Past..LeaseTicks
          /\ \A n \in Int : Less(n, Past) \in Int
          /\ \A n \in 0..LeaseTicks : Less(n, 0) \in 0..LeaseTicks
      BY PastBounds DEF Less
    <2>2. leaseLeft' \in [Jobs -> Past..LeaseTicks]
      BY <1>28, <2>1 DEF Tick, RowTypes
    <2>3. retryLeft' \in [Jobs -> Int]
      BY <1>28, <2>1 DEF Tick, RowTypes
    <2>4. window' \in [Workers -> 0..LeaseTicks]
      BY <1>28, <2>1 DEF Tick, WorkerTypes
    <2>5. UNCHANGED <<status, requested, leaseOwner, attempts, effectVars,
                      pc, job, lost, aborted, cancelled, crashes, pending>>
      BY <1>28 DEF Tick
    <2> QED
      BY <2>2, <2>3, <2>4, <2>5 DEF RowTypes, EffectTypes, WorkerTypes
  <1>30. ASSUME NEW w \in Workers, Settle(w) PROVE TypeOK'
    <2>1. RowTypes' /\ EffectTypes'
      BY <1>30 DEF Settle, Goto, RowTypes, EffectTypes, Active, Terminal
    <2>3. WorkerTypes'
      BY <1>30, MoveTypes DEF Settle, Goto, WorkerTypes, Resting, Busy, InHandler
    <2>4. crashes' \in 0..MaxCrashes /\ pending' \subseteq Txns
      BY <1>30 DEF Settle, Goto
    <2> QED
      BY <2>1, <2>3, <2>4 DEF TypeOK, Txns
  <1>29. CASE UNCHANGED vars
    BY <1>29 DEF vars, RowTypes, EffectTypes, WorkerTypes
  <1> QED
    BY <1>1, <1>2, <1>3, <1>4, <1>5, <1>6, <1>7, <1>8, <1>9, <1>10, <1>11, <1>12, <1>13, <1>14, <1>15, <1>16, <1>17, <1>18, <1>19, <1>20, <1>21, <1>22, <1>23, <1>24, <1>25, <1>26, <1>27, <1>28,
       <1>29, <1>30, ClaimGrants, HeartbeatExtends DEF Next, Step, Beat

\* The steps that neither grant, extend nor end a lease.
UserStep(j) == Create(j) \/ Preview(j) \/ Request(j) \/ Cancel(j)

QuietStep(w) ==
  \/ CancelLocal(w) \/ Check(w) \/ Refuse(w) \/ Start(w) \/ StartRefused(w)
  \/ Open(w) \/ Commit(w) \/ Break(w) \/ Accept(w) \/ Finish(w)
  \/ FinishRefused(w) \/ Discard(w) \/ Mark(w) \/ MarkError(w)
  \/ Settle(w) \/ CompleteRefused(w) \/ HeartbeatRefused(w) \/ Crash(w)

SelectStep(w) == ClaimSelect(w) \/ HeartbeatSelect(w)

LEMMA UserStepQuiet ==
  ASSUME NEW j \in Jobs, UserStep(j)
  PROVE  UNCHANGED <<leaseOwner, leaseLeft, attempts, output, commits, pc, job, lost, window,
                     pending>>
  BY DEF UserStep, Create, Preview, Request, Cancel, effectVars, workerVars

LEMMA QuietStepQuiet ==
  ASSUME TypeOK, NEW w \in Workers, QuietStep(w)
  PROVE  /\ UNCHANGED <<leaseOwner, leaseLeft, attempts>>
         /\ \A v \in Workers : pc'[v] \in Busy =>
              pc[v] \in Busy /\ job'[v] = job[v] /\ window'[v] = window[v]
         /\ \A v \in Workers : v # w => pc'[v] = pc[v] /\ job'[v] = job[v] /\ lost'[v] = lost[v]
         /\ pending' = {t \in pending : t.by # w} \/ pending' = pending
         /\ \A t \in pending' : t.by # w \/ (pc[w] \in Busy /\ pc'[w] \in Busy /\ lost'[w] = lost[w])
  <1> USE DEF TypeOK, WorkerTypes, rowVars, effectVars
  <1>1. CASE CancelLocal(w)
    BY <1>1 DEF CancelLocal, Busy
  <1>2. CASE HeartbeatRefused(w)
    BY <1>2 DEF HeartbeatRefused, Settled
  <1>3. CASE Check(w) \/ Refuse(w) \/ StartRefused(w) \/ Accept(w) \/ FinishRefused(w)
             \/ MarkError(w) \/ Settle(w) \/ CompleteRefused(w)
    BY <1>3 DEF Check, Refuse, StartRefused, Accept, FinishRefused, MarkError, Settle,
                CompleteRefused, Goto, Move, Busy, InHandler
  <1>4. CASE Start(w) \/ Finish(w)
    BY <1>4 DEF Start, Finish, Outcome, Move, Busy, InHandler
  <1>5. CASE Open(w) \/ Commit(w) \/ Break(w) \/ Discard(w)
    BY <1>5 DEF Open, Commit, Break, Discard, Goto, Move, Busy, InHandler
  <1>6. CASE Mark(w)
    BY <1>6 DEF Mark, Move, Busy, InHandler
  <1>7. CASE Crash(w)
    BY <1>7 DEF Crash, Busy, InHandler
  <1> QED
    BY <1>1, <1>2, <1>3, <1>4, <1>5, <1>6, <1>7 DEF QuietStep

\* The ways a step of Next can be read.
LEMMA NextCases ==
  ASSUME TypeOK, PendingSound, [Next]_vars
  PROVE  \/ \E j \in Jobs : UserStep(j)
         \/ \E w \in Workers : \/ QuietStep(w) \/ SelectStep(w) \/ Grants(w) \/ Complete(w)
                                \/ Fail(w) \/ GiveUp(w) \/ Extends(w)
         \/ Tick
         \/ UNCHANGED vars
  BY ClaimGrants, HeartbeatExtends DEF Next, Step, Beat, UserStep, QuietStep, SelectStep

LEMMA NextPendingSound ==
  ASSUME TypeOK, PendingSound, [Next]_vars
  PROVE  PendingSound'
  <1> USE DEF TypeOK, WorkerTypes
  <1>1. ASSUME NEW j \in Jobs, UserStep(j) PROVE PendingSound'
    BY <1>1, UserStepQuiet DEF PendingSound, Owned
  <1>2. ASSUME NEW w \in Workers, QuietStep(w) PROVE PendingSound'
    <2> SUFFICES ASSUME NEW t \in pending'
                 PROVE  /\ t.op = "claim" => /\ leaseLeft'[t.on] <= 0
                                             /\ attempts'[t.on] < MaxAttempts
                                             /\ pc'[t.by] = "idle"
                        /\ t.op = "heartbeat" => /\ pc'[t.by] \in Busy
                                                 /\ job'[t.by] = t.on
                                                 /\ ~lost'[t.by]
                                                 /\ Owned(t.by, t.on, t.age)'
                                                 /\ Granted(t.age) >= leaseLeft'[t.on]
      BY DEF PendingSound, Busy, InHandler
    <2>1. /\ t \in pending /\ t.by \in Workers
          /\ UNCHANGED <<leaseOwner, leaseLeft, attempts>>
      BY <1>2, QuietStepQuiet DEF Txns
    <2>2. CASE t.by # w
      BY <1>2, <2>1, <2>2, QuietStepQuiet DEF PendingSound, Owned
    <2>3. CASE t.by = w
      <3>1. pc[w] \in Busy /\ pc'[w] \in Busy /\ job'[w] = job[w] /\ lost'[w] = lost[w]
        BY <1>2, <2>3, QuietStepQuiet
      <3>2. t.op # "claim"
        BY <2>1, <2>3, <3>1 DEF PendingSound, Busy, InHandler
      <3> QED
        BY <2>1, <2>3, <3>1, <3>2 DEF PendingSound, Owned
    <2> QED
      BY <2>2, <2>3
  <1>3. ASSUME NEW w \in Workers, ClaimSelect(w) PROVE PendingSound'
    <2>1. PICK j \in Jobs, age \in Ages : First(j, age) /\ pending' = {Txn("claim", w, j, age)}
      BY <1>3 DEF ClaimSelect
    <2>2. leaseLeft[j] <= 0 /\ attempts[j] < MaxAttempts /\ pc[w] = "idle"
      BY <1>3, <2>1, FirstFree DEF ClaimSelect
    <2>3. UNCHANGED <<leaseLeft, attempts, pc>>
      BY <1>3 DEF ClaimSelect, rowVars, workerVars
    <2> QED
      BY <2>1, <2>2, <2>3 DEF PendingSound, Txn
  <1>4. ASSUME NEW w \in Workers, HeartbeatSelect(w) PROVE PendingSound'
    <2>1. PICK age \in Ages :
            /\ pending' = {Txn("heartbeat", w, job[w], age)}
            /\ pc[w] \in Busy /\ ~lost[w] /\ Owned(w, job[w], age)
            /\ Granted(age) >= leaseLeft[job[w]]
            /\ UNCHANGED <<leaseOwner, leaseLeft, pc, job, lost>>
      BY <1>4 DEF HeartbeatSelect, MayExtend, rowVars, workerVars
    <2> QED
      BY <2>1 DEF PendingSound, Txn, Owned, Busy, InHandler
  <1>5. ASSUME NEW w \in Workers, Grants(w) \/ Extends(w) PROVE PendingSound'
    BY <1>5 DEF Grants, Extends, Grant, Extend, PendingSound
  <1>6. ASSUME NEW w \in Workers, Complete(w) \/ Fail(w) PROVE PendingSound'
    <2>1. pending' = {}
      BY <1>6 DEF Complete, Fail, Leave, Unlocked
    <2> QED
      BY <2>1 DEF PendingSound
  <1>7. ASSUME NEW w \in Workers, GiveUp(w) PROVE PendingSound'
    <2>1. /\ \A t \in pending : t.by # w /\ t.by \in Workers
          /\ UNCHANGED <<leaseOwner, leaseLeft, attempts, pending>>
          /\ \A v \in Workers : v # w =>
               pc'[v] = pc[v] /\ job'[v] = job[v] /\ lost'[v] = lost[v]
      BY <1>7 DEF GiveUp, Settled, Leave, rowVars, Txns
    <2> QED
      BY <2>1 DEF PendingSound, Owned, Busy, InHandler
  <1>8. CASE Tick
    BY <1>8 DEF Tick, Unlocked, PendingSound
  <1>9. CASE UNCHANGED vars
    BY <1>9 DEF vars, rowVars, workerVars, PendingSound, Owned, Busy, InHandler
  <1> QED
    BY <1>1, <1>2, <1>3, <1>4, <1>5, <1>6, <1>7, <1>8, <1>9, NextCases DEF SelectStep

LEMMA SoundInvariant == Spec => [](TypeOK /\ PendingSound)
  <1>1. Init => PendingSound
    BY DEF Init, PendingSound
  <1>2. TypeOK /\ PendingSound /\ [Next]_vars => TypeOK' /\ PendingSound'
    BY NextTypeOK, NextPendingSound
  <1> QED
    BY <1>1, <1>2, InitTypeOK, PTL DEF Spec

\* Every variable keeps its type in every behaviour of the queue; in particular claim
\* counts no more than MAX_ATTEMPTS attempts, also when its select and its write
\* are apart.
THEOREM TypeCorrect == Spec => []TypeOK
  BY SoundInvariant, PTL

-----------------------------------------------------------------------------
(* Mutual exclusion: a worker inside the lease it was granted owns the row,  *)
(* and the row's lease lasts at least as long as the worker thinks.          *)

WindowSound ==
  \A w \in Workers :
    pc[w] \in Busy /\ window[w] > 0
      => leaseOwner[job[w]] = w /\ window[w] <= leaseLeft[job[w]]

LEMMA NextWindowSound ==
  ASSUME TypeOK, PendingSound, WindowSound, [Next]_vars
  PROVE  WindowSound'
  <1> USE DEF TypeOK, RowTypes, WorkerTypes
  <1>1. ASSUME NEW j \in Jobs, UserStep(j) PROVE WindowSound'
    BY <1>1, UserStepQuiet DEF WindowSound
  <1>2. ASSUME NEW w \in Workers, QuietStep(w) \/ SelectStep(w) PROVE WindowSound'
    <2>1. CASE QuietStep(w)
      BY <2>1, QuietStepQuiet DEF WindowSound
    <2>2. CASE SelectStep(w)
      BY <2>2 DEF SelectStep, ClaimSelect, HeartbeatSelect, rowVars, workerVars, WindowSound
    <2> QED
      BY <1>2, <2>1, <2>2
  <1>3. ASSUME NEW w \in Workers, Grants(w) PROVE WindowSound'
    <2>1. PICK j \in Jobs, age \in Ages :
            /\ leaseLeft[j] <= 0
            /\ leaseOwner' = [leaseOwner EXCEPT ![j] = w]
            /\ leaseLeft' = [leaseLeft EXCEPT ![j] = Granted(age)]
            /\ \E to \in Outcome("claimed", "idle") :
                 /\ pc' = [pc EXCEPT ![w] = to]
                 /\ job' = [job EXCEPT ![w] = IF to = "claimed" THEN j ELSE NoJob]
                 /\ window' = [window EXCEPT ![w] =
                                 IF to = "claimed" THEN Within(Granted(age)) ELSE 0]
      BY <1>3 DEF Grants, Grant
    <2>2. ASSUME NEW v \in Workers, v # w, pc'[v] \in Busy, window'[v] > 0
          PROVE  leaseOwner'[job'[v]] = v /\ window'[v] <= leaseLeft'[job'[v]]
      <3>1. pc[v] \in Busy /\ window[v] > 0 /\ window'[v] = window[v] /\ job'[v] = job[v]
        BY <2>1, <2>2
      <3>2. job[v] # j
        BY <3>1, <2>1 DEF WindowSound
      <3> QED
        BY <3>1, <3>2, <2>1 DEF WindowSound
    <2>3. ASSUME pc'[w] \in Busy, window'[w] > 0
          PROVE  leaseOwner'[job'[w]] = w /\ window'[w] <= leaseLeft'[job'[w]]
      BY <2>1, <2>3, Bounds, GrantedBounds
    <2> QED
      BY <2>2, <2>3 DEF WindowSound
  <1>4. ASSUME NEW w \in Workers, Complete(w) \/ Fail(w) PROVE WindowSound'
    <2>1. /\ leaseOwner[job[w]] = w
          /\ leaseOwner' = [leaseOwner EXCEPT ![job[w]] = NoWorker]
          /\ leaseLeft' = [leaseLeft EXCEPT ![job[w]] = Past]
          /\ window' = [window EXCEPT ![w] = 0]
          /\ pc[w] \in Busy
      BY <1>4 DEF Complete, Fail, Leave, Owned, Busy
    <2>2. \A v \in Workers : v # w => pc'[v] = pc[v] /\ job'[v] = job[v]
      BY <1>4 DEF Complete, Fail, Leave
    <2>3. ASSUME NEW v \in Workers, pc'[v] \in Busy, window'[v] > 0
          PROVE  leaseOwner'[job'[v]] = v /\ window'[v] <= leaseLeft'[job'[v]]
      <3>1. v # w
        BY <2>1, <2>3
      <3>2. pc[v] \in Busy /\ window[v] > 0 /\ window'[v] = window[v] /\ job'[v] = job[v]
        BY <2>1, <2>2, <2>3, <3>1
      <3>3. job[v] # job[w]
        BY <3>1, <3>2, <2>1 DEF WindowSound
      <3> QED
        BY <3>2, <3>3, <2>1 DEF WindowSound
    <2> QED
      BY <2>3 DEF WindowSound
  <1>5. ASSUME NEW w \in Workers, GiveUp(w) PROVE WindowSound'
    BY <1>5 DEF GiveUp, Leave, rowVars, WindowSound, Busy, InHandler
  <1>6. ASSUME NEW w \in Workers, Extends(w) PROVE WindowSound'
    <2>1. PICK age \in Ages :
            /\ pc[w] \in Busy /\ leaseOwner[job[w]] = w /\ job[w] \in Jobs
            /\ Granted(age) >= leaseLeft[job[w]]
            /\ leaseLeft' = [leaseLeft EXCEPT ![job[w]] = Granted(age)]
            /\ window' = [window EXCEPT ![w] = Within(Granted(age))] \/ window' = window
            /\ UNCHANGED <<leaseOwner, pc, job>>
      BY <1>6 DEF Extends, Extend, Owned
    <2>2. ASSUME NEW v \in Workers, pc[v] \in Busy, window'[v] > 0
          PROVE  leaseOwner[job[v]] = v /\ window'[v] <= leaseLeft'[job[v]]
      <3>0. Granted(age) \in Past..LeaseTicks /\ leaseLeft'[job[w]] = Granted(age)
        BY <2>1, GrantedBounds
      <3>1. CASE v = w /\ window' = window
        BY <2>1, <2>2, <3>0, <3>1, PastBounds DEF WindowSound
      <3>2. CASE v = w /\ window' = [window EXCEPT ![w] = Within(Granted(age))]
        BY <2>1, <2>2, <3>0, <3>2, PastBounds, GrantedBounds
      <3>3. CASE v # w
        BY <2>1, <2>2, <3>3 DEF WindowSound
      <3> QED
        BY <2>1, <3>1, <3>2, <3>3
    <2> QED
      BY <2>1, <2>2 DEF WindowSound
  <1>7. CASE Tick
    <2>1. /\ leaseLeft' = [j \in Jobs |-> Less(leaseLeft[j], Past)]
          /\ window' = [w \in Workers |-> Less(window[w], 0)]
          /\ UNCHANGED <<leaseOwner, pc, job>>
      BY <1>7 DEF Tick
    <2>2. ASSUME NEW w \in Workers, pc[w] \in Busy, Less(window[w], 0) > 0
          PROVE  leaseOwner[job[w]] = w /\ Less(window[w], 0) <= Less(leaseLeft[job[w]], Past)
      BY <2>2, PastBounds DEF WindowSound, Less
    <2> QED
      BY <2>1, <2>2 DEF WindowSound
  <1>8. CASE UNCHANGED vars
    BY <1>8 DEF vars, rowVars, workerVars, WindowSound
  <1> QED
    BY <1>1, <1>2, <1>3, <1>4, <1>5, <1>6, <1>7, <1>8, NextCases

LEMMA WindowInvariant == Spec => []WindowSound
  <1>1. Init => WindowSound
    BY DEF Init, WindowSound
  <1>2. TypeOK /\ PendingSound /\ WindowSound /\ [Next]_vars => WindowSound'
    BY NextWindowSound
  <1> QED
    BY <1>1, <1>2, SoundInvariant, PTL DEF Spec

\* claim, heartbeat, complete and fail never let two workers believe that they
\* hold the lease of one job, even when workers are late, die, or lose answers.
THEOREM ExclusiveLeases == Spec => []MutualExclusion
  <1>1. TypeOK /\ WindowSound => MutualExclusion
    BY DEF WindowSound, MutualExclusion
  <1> QED
    BY <1>1, TypeCorrect, WindowInvariant, PTL

-----------------------------------------------------------------------------
(* Success is earned: a worker past the end of its data path carried the job *)
(* through, so whoever writes "succeeded" has an effect to show for it.      *)

PastCommit == {"committed", "finishing", "returned", "completing"}

EffectSound ==
  /\ SucceededMeansDone
  /\ \A w \in Workers : pc[w] \in PastCommit => commits[job[w]] > 0

LEMMA NextEffectSound ==
  ASSUME TypeOK, PendingSound, EffectSound, [Next]_vars
  PROVE  EffectSound'
  <1> USE DEF TypeOK, WorkerTypes, Busy, InHandler, PastCommit
  <1>a. ASSUME commits' = commits,
               \A v \in Workers : pc'[v] \in PastCommit => pc[v] \in PastCommit /\ job'[v] = job[v]
        PROVE  \A v \in Workers : pc'[v] \in PastCommit => commits'[job'[v]] > 0
    <2> HIDE DEF TypeOK, WorkerTypes, Busy, InHandler, PastCommit
    <2> QED
      BY <1>a DEF EffectSound
  <1>1. ASSUME NEW j \in Jobs, UserStep(j) PROVE EffectSound'
    BY <1>1 DEF UserStep, Create, Preview, Request, Cancel, EffectSound,
       SucceededMeansDone, RowTypes, effectVars, workerVars
  <1>2. ASSUME UNCHANGED <<status, commits>>,
               \A v \in Workers : pc'[v] \in PastCommit => pc[v] \in PastCommit /\ job'[v] = job[v]
        PROVE  EffectSound'
    BY <1>2, <1>a DEF EffectSound, SucceededMeansDone
  <1>3. ASSUME NEW w \in Workers,
               CancelLocal(w) \/ Check(w) \/ Refuse(w) \/ StartRefused(w) \/ Open(w)
               \/ Break(w) \/ Accept(w) \/ FinishRefused(w) \/ Discard(w) \/ MarkError(w)
               \/ Settle(w) \/ CompleteRefused(w) \/ HeartbeatRefused(w) \/ Crash(w)
               \/ SelectStep(w)
        PROVE  EffectSound'
    BY <1>2, <1>3 DEF CancelLocal, Settle, Move, Check, Refuse, StartRefused, Open, Break, Accept,
       FinishRefused, Discard, MarkError, CompleteRefused, HeartbeatRefused,
       Crash, SelectStep, ClaimSelect, HeartbeatSelect, Goto, rowVars, effectVars, workerVars
  <1>4. ASSUME NEW w \in Workers, Commit(w) PROVE EffectSound'
    <2>1. /\ commits' = [commits EXCEPT ![job[w]] = @ + 1]
          /\ pc' = [pc EXCEPT ![w] = "committed"]
          /\ UNCHANGED <<status, job>>
          /\ job[w] \in Jobs
      BY <1>4 DEF Commit, Move, rowVars
    <2> QED
      BY <2>1 DEF EffectSound, SucceededMeansDone, EffectTypes
  <1>5. ASSUME NEW w \in Workers, Finish(w) \/ Complete(w) PROVE EffectSound'
    <2>1. /\ status' = [status EXCEPT ![job[w]] = "succeeded"]
          /\ commits' = commits
          /\ pc[w] \in PastCommit
          /\ \A v \in Workers :
               pc'[v] \in PastCommit => pc[v] \in PastCommit /\ job'[v] = job[v]
      BY <1>5 DEF Finish, Complete, Leave, Move, Outcome, effectVars
    <2>2. commits[job[w]] > 0
      BY <2>1 DEF EffectSound
    <2>3. SucceededMeansDone'
      BY <2>1, <2>2 DEF EffectSound, SucceededMeansDone, RowTypes
    <2>4. \A v \in Workers : pc'[v] \in PastCommit => commits'[job'[v]] > 0
      BY <2>1, <1>a
    <2> QED
      BY <2>3, <2>4 DEF EffectSound
  <1>6. ASSUME NEW w \in Workers,
               Grants(w) \/ Extends(w) \/ Start(w) \/ Mark(w) \/ Fail(w) \/ GiveUp(w)
        PROVE  EffectSound'
    <2>1. \A j \in Jobs : status'[j] = "succeeded" => status[j] = "succeeded"
      BY <1>6 DEF Grants, Grant, Extends, Extend, Start, Mark, Fail, GiveUp, RowTypes, rowVars
    <2>2. /\ commits' = commits
          /\ \A v \in Workers :
               pc'[v] \in PastCommit => pc[v] \in PastCommit /\ job'[v] = job[v]
      BY <1>6 DEF Grants, Grant, Extends, Extend, Start, Mark, Fail, GiveUp, Leave, Move, Outcome, effectVars
    <2>3. SucceededMeansDone'
      BY <2>1, <2>2 DEF EffectSound, SucceededMeansDone
    <2>4. \A v \in Workers : pc'[v] \in PastCommit => commits'[job'[v]] > 0
      BY <2>2, <1>a
    <2> QED
      BY <2>3, <2>4 DEF EffectSound
  <1>7. CASE Tick \/ UNCHANGED vars
    BY <1>7 DEF Tick, vars, rowVars, effectVars, workerVars, EffectSound, SucceededMeansDone
  <1> QED
    BY <1>1, <1>3, <1>4, <1>5, <1>6, <1>7, NextCases DEF QuietStep

\* Neither Finish nor leases.complete, which looks at the lease alone, ever
\* writes "succeeded" on a job that no handler carried through.
THEOREM SuccessIsEarned == Spec => []SucceededMeansDone
  <1>1. Init => EffectSound
    BY DEF Init, EffectSound, SucceededMeansDone, PastCommit
  <1>2. TypeOK /\ PendingSound /\ EffectSound /\ [Next]_vars => EffectSound'
    BY NextEffectSound
  <1>3. EffectSound => SucceededMeansDone
    BY DEF EffectSound
  <1> QED
    BY <1>1, <1>2, <1>3, SoundInvariant, PTL DEF Spec

-----------------------------------------------------------------------------
(* The rows implement exclusive, bounded grants.                             *)

PhaseOf(left) == IF left > 0 THEN "live" ELSE IF left > Past THEN "lapsed" ELSE "over"

Phase == [j \in Jobs |-> PhaseOf(leaseLeft[j])]

leaseVars == <<leaseOwner, Phase, attempts>>

\* Only one lease changes.
LEMMA PhaseUpdated ==
  ASSUME NEW j \in Jobs, NEW n, leaseLeft \in [Jobs -> Past..LeaseTicks],
         leaseLeft' = [leaseLeft EXCEPT ![j] = n]
  PROVE  Phase' = [Phase EXCEPT ![j] = PhaseOf(n)]
  <1>1. ASSUME NEW i \in Jobs PROVE Phase'[i] = IF i = j THEN PhaseOf(n) ELSE Phase[i]
    BY DEF Phase
  <1> QED
    BY <1>1 DEF Phase

\* The two steps of a holder, read off the mapped variables.
LEMMA GaveBack ==
  ASSUME NEW j \in Jobs, Phase[j] # "over",
         leaseOwner' = [leaseOwner EXCEPT ![j] = NoWorker],
         Phase' = [Phase EXCEPT ![j] = "over"], attempts' = attempts
  PROVE  Leases!GiveBack(j)
  BY DEF Leases!GiveBack, Phase, PhaseOf

LEMMA Renewed ==
  ASSUME NEW j \in Jobs, Phase[j] = "lapsed",
         Phase' = [Phase EXCEPT ![j] = "live"], UNCHANGED <<leaseOwner, attempts>>
  PROVE  Leases!Renew(j)
  BY DEF Leases!Renew, Phase, PhaseOf

LEMMA StepSimulated ==
  ASSUME TypeOK, PendingSound, [Next]_vars
  PROVE  [Leases!Next]_leaseVars
  <1> USE DEF TypeOK, RowTypes, WorkerTypes, leaseVars
  <1>2. ASSUME NEW j \in Jobs, UserStep(j) PROVE UNCHANGED leaseVars
    BY <1>2, UserStepQuiet DEF Phase
  <1>3. ASSUME NEW w \in Workers, QuietStep(w) \/ SelectStep(w) PROVE UNCHANGED leaseVars
    BY <1>3, QuietStepQuiet DEF Phase, SelectStep, ClaimSelect, HeartbeatSelect, rowVars
  <1>4. ASSUME NEW w \in Workers, Grants(w) PROVE Leases!Next
    <2>1. PICK j \in Jobs, age \in Ages :
            /\ attempts[j] < MaxAttempts /\ leaseLeft[j] <= 0
            /\ leaseOwner' = [leaseOwner EXCEPT ![j] = w]
            /\ leaseLeft' = [leaseLeft EXCEPT ![j] = Granted(age)]
            /\ attempts' = [attempts EXCEPT ![j] = @ + 1]
      BY <1>4 DEF Grants, Grant
    <2>2. Phase[j] # "live"
      BY <2>1, PastBounds DEF Phase, PhaseOf
    <2>3. PhaseOf(Granted(age)) \in {"live", "lapsed"}
      BY GrantedBounds DEF PhaseOf
    <2>4. Phase' = [Phase EXCEPT ![j] = PhaseOf(Granted(age))]
      BY <2>1, PhaseUpdated
    <2>5. Leases!Grant(j, w)
      BY <2>1, <2>2, <2>3, <2>4 DEF Leases!Grant, Phase, PhaseOf
    <2> QED
      BY <2>5 DEF Leases!Next
  <1>5. ASSUME NEW w \in Workers, Complete(w) \/ Fail(w) PROVE Leases!Next
    <2>1. PICK j \in Jobs, age \in Ages :
            /\ leaseLeft[j] > -age
            /\ leaseOwner' = [leaseOwner EXCEPT ![j] = NoWorker]
            /\ leaseLeft' = [leaseLeft EXCEPT ![j] = Past]
            /\ attempts' = attempts
      <3>1. job[w] \in Jobs
        BY <1>5 DEF Complete, Fail, Busy
      <3>2. \E age \in Ages : leaseLeft[job[w]] > -age
        BY <1>5 DEF Complete, Fail, Owned
      <3> QED
        BY <1>5, <3>1, <3>2 DEF Complete, Fail
    <2>2. Phase[j] # "over"
      BY <2>1, Bounds DEF Phase, PhaseOf, Past, Ages
    <2>3. Phase' = [Phase EXCEPT ![j] = "over"]
      <3>1. PhaseOf(Past) = "over"
        BY PastBounds DEF PhaseOf
      <3> QED
        BY <2>1, <3>1, PhaseUpdated
    <2>4. Leases!GiveBack(j)
      BY <2>1, <2>2, <2>3, GaveBack
    <2> QED
      BY <2>1, <2>4 DEF Leases!Next
  <1>6. ASSUME NEW w \in Workers, GiveUp(w) PROVE UNCHANGED leaseVars
    BY <1>6 DEF GiveUp, rowVars, Phase
  <1>7. ASSUME NEW w \in Workers, Extends(w) PROVE [Leases!Next]_leaseVars
    <2>1. PICK j \in Jobs, age \in Ages :
            /\ leaseLeft[j] > -age
            /\ Granted(age) >= leaseLeft[j]
            /\ leaseLeft' = [leaseLeft EXCEPT ![j] = Granted(age)]
            /\ UNCHANGED <<leaseOwner, attempts>>
      BY <1>7 DEF Extends, Extend, Owned
    <2>2. Phase' = [Phase EXCEPT ![j] = PhaseOf(Granted(age))]
      BY <2>1, PhaseUpdated
    <2>3. Phase[j] \in {"live", "lapsed"}
      BY <2>1, Bounds DEF Phase, PhaseOf, Past, Ages
    <2>4. PhaseOf(Granted(age)) = "live" \/ PhaseOf(Granted(age)) = Phase[j]
      BY <2>1, <2>3, GrantedBounds, PastBounds DEF Phase, PhaseOf
    <2>5. CASE PhaseOf(Granted(age)) = Phase[j]
      BY <2>1, <2>2, <2>5 DEF Phase
    <2>6. CASE PhaseOf(Granted(age)) = "live" /\ Phase[j] = "lapsed"
      <3>1. Leases!Renew(j)
        BY <2>1, <2>2, <2>6, Renewed
      <3> QED
        BY <2>1, <3>1 DEF Leases!Next
    <2> QED
      BY <2>3, <2>4, <2>5, <2>6
  <1>8. CASE Tick
    <2>1. /\ leaseLeft' = [j \in Jobs |-> Less(leaseLeft[j], Past)]
          /\ UNCHANGED <<leaseOwner, attempts>>
      BY <1>8 DEF Tick
    <2>2. Phase' \in [Jobs -> {"live", "lapsed", "over"}]
      BY DEF Phase, PhaseOf
    <2>3. ASSUME NEW j \in Jobs
          PROVE  /\ Phase'[j] = "live" => Phase[j] = "live"
                 /\ Phase[j] = "over" => Phase'[j] = "over"
      BY <2>1, PastBounds DEF Phase, PhaseOf, Less
    <2>4. Leases!Pass
      BY <2>1, <2>2, <2>3 DEF Leases!Pass, Leases!Phases, Phase, PhaseOf
    <2> QED
      BY <2>4 DEF Leases!Next
  <1>9. CASE UNCHANGED vars
    BY <1>9 DEF vars, rowVars, Phase
  <1> QED
    BY <1>2, <1>3, <1>4, <1>5, <1>6, <1>7, <1>8, <1>9, NextCases

\* claim, heartbeat, complete and fail, with their clocks and statuses, are an
\* implementation of LeasedJobs.
THEOREM ImplementsLeases == Spec => LeasesImplemented
  <1>1. Init => Leases!Init
    BY PastBounds DEF Init, Leases!Init
  <1>2. TypeOK /\ PendingSound /\ [Next]_vars => [Leases!Next]_leaseVars
    BY StepSimulated
  <1> QED
    BY <1>1, <1>2, SoundInvariant, PTL
       DEF Spec, LeasesImplemented, Leases!Spec, leaseVars, Phase, PhaseOf

-----------------------------------------------------------------------------
(* Every claim pays for at most one effect: the workers that have not come   *)
(* to the end of their data path hold the attempts not yet spent.            *)

BeforeCommit == {"claimed", "starting", "working", "writing"}

Unspent(j) == {w \in Workers : job[w] = j /\ pc[w] \in BeforeCommit}

Budget == \A j \in Jobs : commits[j] + Cardinality(Unspent(j)) <= attempts[j]

LEMMA UnspentFinite == ASSUME NEW j PROVE IsFiniteSet(Unspent(j)) /\ Cardinality(Unspent(j)) \in Nat
  <1>1. IsFiniteSet(Workers) /\ Unspent(j) \subseteq Workers
    BY TransferQueueAssumption DEF Unspent
  <1> QED
    BY <1>1, FS_Subset, FS_CardinalityType

\* No attempt is added, no effect is added, and nobody newly waits to commit.
LEMMA BudgetKept ==
  ASSUME TypeOK, Budget, UNCHANGED <<commits, attempts>>,
         \A w \in Workers : pc'[w] \in BeforeCommit => pc[w] \in BeforeCommit /\ job'[w] = job[w]
  PROVE  Budget'
  <1> SUFFICES ASSUME NEW j \in Jobs
               PROVE  commits'[j] + Cardinality(Unspent(j)') <= attempts'[j]
    BY DEF Budget
  <1>1. Unspent(j)' \subseteq Unspent(j)
    BY DEF Unspent
  <1>2. Cardinality(Unspent(j)') \in Nat /\ Cardinality(Unspent(j)') <= Cardinality(Unspent(j))
    BY <1>1, UnspentFinite, FS_Subset, FS_CardinalityType
  <1>3. commits[j] \in Nat /\ attempts[j] \in Nat
    BY Bounds DEF TypeOK, EffectTypes, RowTypes
  <1> QED
    BY <1>2, <1>3, UnspentFinite DEF Budget

LEMMA NextBudget ==
  ASSUME TypeOK, PendingSound, Budget, [Next]_vars
  PROVE  Budget'
  <1> USE DEF TypeOK, WorkerTypes, Busy, InHandler, BeforeCommit
  <1>1. ASSUME NEW j \in Jobs, UserStep(j) PROVE Budget'
    BY <1>1, UserStepQuiet, BudgetKept
  <1>2. ASSUME NEW w \in Workers,
               CancelLocal(w) \/ Check(w) \/ Refuse(w) \/ StartRefused(w) \/ Open(w)
               \/ Break(w) \/ Accept(w) \/ FinishRefused(w) \/ Discard(w) \/ MarkError(w)
               \/ Settle(w) \/ CompleteRefused(w) \/ HeartbeatRefused(w) \/ Crash(w)
               \/ SelectStep(w) \/ Extends(w)
        PROVE  Budget'
    <2>1. /\ UNCHANGED <<commits, attempts>>
          /\ \A v \in Workers : pc'[v] \in BeforeCommit => pc[v] \in BeforeCommit /\ job'[v] = job[v]
      BY <1>2 DEF CancelLocal, Settle, Move, Check, Refuse, StartRefused, Open, Break, Accept,
         FinishRefused, Discard, MarkError, CompleteRefused, HeartbeatRefused, Crash, Goto,
         SelectStep, ClaimSelect, HeartbeatSelect, Extends, Extend, rowVars, effectVars,
         workerVars
    <2> QED
      BY <2>1, BudgetKept
  <1>3. ASSUME NEW w \in Workers,
               Start(w) \/ Finish(w) \/ Mark(w) \/ Complete(w) \/ Fail(w) \/ GiveUp(w)
        PROVE  Budget'
    <2>1. UNCHANGED <<commits, attempts>>
      BY <1>3 DEF Start, Finish, Mark, Complete, Fail, GiveUp, Leave, rowVars, effectVars
    <2>2. \A v \in Workers : pc'[v] \in BeforeCommit => pc[v] \in BeforeCommit /\ job'[v] = job[v]
      BY <1>3 DEF Start, Finish, Mark, Complete, Fail, GiveUp, Leave, Move, Outcome
    <2> QED
      BY <2>1, <2>2, BudgetKept
  <1>4. ASSUME NEW w \in Workers, Commit(w) PROVE Budget'
    <2>1. /\ pc[w] = "writing" /\ job[w] \in Jobs
          /\ pc' = [pc EXCEPT ![w] = "committed"]
          /\ commits' = [commits EXCEPT ![job[w]] = @ + 1]
          /\ UNCHANGED <<attempts, job>>
      BY <1>4 DEF Commit, Move, rowVars
    <2> SUFFICES ASSUME NEW j \in Jobs
                 PROVE  commits'[j] + Cardinality(Unspent(j)') <= attempts'[j]
      BY DEF Budget
    <2>2. commits[j] \in Nat /\ attempts[j] \in Nat
      BY Bounds DEF EffectTypes, RowTypes
    <2>3. CASE j = job[w]
      <3>1. w \in Unspent(j) /\ Unspent(j)' = Unspent(j) \ {w}
        BY <2>1, <2>3 DEF Unspent
      <3>2. Cardinality(Unspent(j)') = Cardinality(Unspent(j)) - 1
        BY <3>1, UnspentFinite, FS_RemoveElement
      <3>3. commits'[j] = commits[j] + 1
        BY <2>1, <2>3 DEF EffectTypes
      <3> QED
        BY <2>1, <2>2, <3>2, <3>3, UnspentFinite DEF Budget
    <2>4. CASE j # job[w]
      <3>1. Unspent(j)' = Unspent(j) /\ commits'[j] = commits[j]
        BY <2>1, <2>4 DEF Unspent, EffectTypes
      <3> QED
        BY <2>1, <3>1 DEF Budget
    <2> QED
      BY <2>3, <2>4
  <1>5. ASSUME NEW w \in Workers, Grants(w) PROVE Budget'
    <2>1. PICK i \in Jobs :
            /\ attempts' = [attempts EXCEPT ![i] = @ + 1]
            /\ \E to \in Outcome("claimed", "idle") :
                 /\ pc' = [pc EXCEPT ![w] = to]
                 /\ job' = [job EXCEPT ![w] = IF to = "claimed" THEN i ELSE NoJob]
      BY <1>5 DEF Grants, Grant
    <2>2. commits' = commits /\ pc[w] = "idle"
      BY <1>5 DEF Grants, Grant, effectVars
    <2> SUFFICES ASSUME NEW j \in Jobs
                 PROVE  commits'[j] + Cardinality(Unspent(j)') <= attempts'[j]
      BY DEF Budget
    <2>3. commits[j] \in Nat /\ attempts[j] \in Nat
      BY Bounds DEF EffectTypes, RowTypes
    <2>4. \A v \in Workers : v # w => pc'[v] = pc[v] /\ job'[v] = job[v]
      BY <2>1
    <2>5. CASE j = i
      <3>1. Unspent(j)' \subseteq Unspent(j) \union {w} /\ w \notin Unspent(j)
        BY <2>2, <2>4 DEF Unspent
      <3>2. /\ IsFiniteSet(Unspent(j) \union {w})
            /\ Cardinality(Unspent(j) \union {w}) = Cardinality(Unspent(j)) + 1
        BY <3>1, UnspentFinite, FS_AddElement
      <3>3. /\ Cardinality(Unspent(j)') \in Nat
            /\ Cardinality(Unspent(j)') <= Cardinality(Unspent(j)) + 1
        BY <3>1, <3>2, FS_Subset, FS_CardinalityType
      <3>4. attempts'[j] = attempts[j] + 1
        BY <2>1, <2>5 DEF RowTypes
      <3> QED
        BY <2>2, <2>3, <3>3, <3>4, UnspentFinite DEF Budget
    <2>6. CASE j # i
      <3>1. NoJob \notin Jobs
        BY TransferQueueAssumption
      <3>2. w \notin Unspent(j) /\ w \notin Unspent(j)'
        BY <2>1, <2>2, <2>6, <3>1 DEF Unspent
      <3>3. Unspent(j)' = Unspent(j)
        BY <2>4, <3>2 DEF Unspent
      <3>4. attempts'[j] = attempts[j]
        BY <2>1, <2>6 DEF RowTypes
      <3> QED
        BY <2>2, <3>3, <3>4 DEF Budget
    <2> QED
      BY <2>5, <2>6
  <1>6. CASE Tick \/ UNCHANGED vars
    <2>1. UNCHANGED <<commits, attempts, pc, job>>
      BY <1>6 DEF Tick, vars, rowVars, effectVars, workerVars
    <2> QED
      BY <2>1, BudgetKept
  <1> QED
    BY <1>1, <1>2, <1>3, <1>4, <1>5, <1>6, NextCases DEF QuietStep

\* A job's effect is carried through no more often than the job was claimed, and
\* so (TypeCorrect) at most MAX_ATTEMPTS times.
THEOREM EffectsBounded == Spec => []CommitsWithinAttempts
  <1>1. Init => Budget
    <2> SUFFICES ASSUME Init, NEW j \in Jobs
                 PROVE  commits[j] + Cardinality(Unspent(j)) <= attempts[j]
      BY DEF Budget
    <2>1. Unspent(j) = {}
      BY DEF Init, Unspent, BeforeCommit
    <2> QED
      BY <2>1, FS_EmptySet DEF Init
  <1>2. TypeOK /\ PendingSound /\ Budget /\ [Next]_vars => Budget'
    BY NextBudget
  <1>3. TypeOK /\ Budget => CommitsWithinAttempts
    BY Bounds, UnspentFinite DEF TypeOK, RowTypes, EffectTypes, Budget, CommitsWithinAttempts
  <1> QED
    BY <1>1, <1>2, <1>3, SoundInvariant, PTL DEF Spec

-----------------------------------------------------------------------------
(* Heartbeats in time and no failing metadata call: a worker that still      *)
(* believes in its lease is inside it, and a worker that does not works on a *)
(* row that no claim can take.                                               *)

Solo ==
  /\ SoleRunner
  /\ \A w \in Workers : pc[w] \in Busy /\ ~lost[w] => window[w] > 0
  /\ \A w \in Workers : pc[w] \in Busy /\ lost[w] => status[job[w]] \in Terminal
  /\ \A w \in Workers : pc[w] \in Busy =>
       status[job[w]] \in {"previewed", "running"} \union Terminal
  /\ \A w \in Workers : pc[w] = "idle" => ~lost[w]
  /\ \A t \in pending : t.op = "claim" =>
       \A w \in Workers : pc[w] \in Busy => job[w] # t.on

\* What the quiet steps leave of Solo: nobody becomes busy or idle, and a status
\* in reach of a running worker stays there.
LEMMA SoloKept ==
  ASSUME WorkerTypes, Solo, pending' \subseteq pending,
         \A v \in Workers :
           /\ pc'[v] \in Busy => /\ pc[v] \in Busy /\ job'[v] = job[v]
                                 /\ lost'[v] = lost[v] /\ window'[v] = window[v]
           /\ pc'[v] = "idle" => pc[v] = "idle" /\ lost'[v] = lost[v],
         \A i \in Jobs : /\ status[i] \in Terminal => status'[i] \in Terminal
                         /\ status[i] \in {"previewed", "running"} \union Terminal
                              => status'[i] \in {"previewed", "running"} \union Terminal
  PROVE  Solo'
  <1>1. \A w \in Workers : pc[w] \in Busy => job[w] \in Jobs
    BY DEF WorkerTypes
  <1>2. \A w \in Workers : pc'[w] \in Busy => /\ pc[w] \in Busy
                                           /\ job'[w] = job[w]
                                           /\ lost'[w] = lost[w]
                                           /\ window'[w] = window[w]
    OBVIOUS
  <1>3. Busy' = Busy /\ Terminal' = Terminal
    BY DEF Busy, InHandler, Terminal
  <1>4. SoleRunner'
    BY <1>2, <1>3 DEF Solo, SoleRunner
  <1>5. \A w \in Workers : pc'[w] \in Busy /\ ~lost'[w] => window'[w] > 0
    BY <1>2 DEF Solo
  <1>6. \A w \in Workers : pc'[w] \in Busy /\ lost'[w] => status'[job'[w]] \in Terminal
    BY <1>1, <1>2 DEF Solo
  <1>7. \A w \in Workers : pc'[w] \in Busy =>
          status'[job'[w]] \in {"previewed", "running"} \union Terminal
    BY <1>1, <1>2 DEF Solo
  <1>8. \A w \in Workers : pc'[w] = "idle" => ~lost'[w]
    BY DEF Solo
  <1>9. \A t \in pending' : t.op = "claim" =>
          \A w \in Workers : pc'[w] \in Busy => job'[w] # t.on
    BY <1>2 DEF Solo
  <1> QED
    BY <1>3, <1>4, <1>5, <1>6, <1>7, <1>8, <1>9 DEF Solo

LEMMA NextSolo ==
  ASSUME Punctual, ~TransientErrors, TypeOK, PendingSound, WindowSound, Solo, [Next]_vars
  PROVE  Solo'
  <1> USE DEF TypeOK, WorkerTypes, RowTypes
  <1>0. \A age \in Ages : Within(Granted(age)) > 0
    BY TransferQueueAssumption, Bounds DEF Ages, Granted, Within
  <1>1. ASSUME NEW j \in Jobs, UserStep(j) PROVE Solo'
    <2>1. UNCHANGED <<pc, job, lost, window, pending>>
      BY <1>1, UserStepQuiet DEF UserStep, Create, Preview, Request, Cancel, workerVars
    <2>2. \A i \in Jobs : /\ status[i] \in Terminal => status'[i] \in Terminal
                          /\ status[i] \in {"previewed", "running"} \union Terminal
                               => status'[i] \in {"previewed", "running"} \union Terminal
      BY <1>1 DEF UserStep, Create, Preview, Request, Cancel, CanTransition, Terminal
    <2> QED
      BY <2>1, <2>2, SoloKept
  <1>2. ASSUME NEW w \in Workers,
               CancelLocal(w) \/ Check(w) \/ Refuse(w) \/ StartRefused(w) \/ Open(w) \/ Commit(w)
               \/ Break(w) \/ Accept(w) \/ FinishRefused(w) \/ Discard(w) \/ MarkError(w)
               \/ Settle(w) \/ CompleteRefused(w) \/ Crash(w)
        PROVE  Solo'
    <2>1. status' = status /\ pending' \subseteq pending
      BY <1>2 DEF CancelLocal, Check, Refuse, StartRefused, Open, Commit, Break, Accept,
         FinishRefused, Discard, MarkError, Settle, CompleteRefused, Crash, Goto, rowVars
    <2>2. \A v \in Workers :
            /\ pc'[v] \in Busy => /\ pc[v] \in Busy /\ job'[v] = job[v]
                                  /\ lost'[v] = lost[v] /\ window'[v] = window[v]
            /\ pc'[v] = "idle" => pc[v] = "idle" /\ lost'[v] = lost[v]
      BY <1>2 DEF CancelLocal, Check, Refuse, StartRefused, Open, Commit, Break, Accept,
         FinishRefused, Discard, MarkError, Settle, CompleteRefused, Crash, Goto, Move,
         Busy, InHandler
    <2>3. \A i \in Jobs : /\ status[i] \in Terminal => status'[i] \in Terminal
                          /\ status[i] \in {"previewed", "running"} \union Terminal
                               => status'[i] \in {"previewed", "running"} \union Terminal
      BY <2>1
    <2> QED
      BY <2>1, <2>2, <2>3, SoloKept
  <1>3. ASSUME NEW w \in Workers, Start(w) \/ Finish(w) \/ Mark(w) PROVE Solo'
    <2>1. UNCHANGED <<job, lost, window, pending>>
      BY <1>3 DEF Start, Finish, Mark
    <2>2. \A v \in Workers : /\ pc'[v] \in Busy => pc[v] \in Busy
                             /\ pc'[v] = "idle" => pc[v] = "idle"
      BY <1>3 DEF Start, Finish, Mark, Move, Outcome, Busy, InHandler
    <2>3. \A i \in Jobs : /\ status[i] \in Terminal => status'[i] \in Terminal
                          /\ status[i] \in {"previewed", "running"} \union Terminal
                               => status'[i] \in {"previewed", "running"} \union Terminal
      BY <1>3 DEF Start, Finish, Mark, CanTransition, Terminal
    <2> QED
      BY <2>1, <2>2, <2>3, SoloKept
  <1>4. ASSUME NEW w \in Workers, Claim(w) \/ ClaimWrite(w) PROVE Solo'
    <2>1. PICK j \in Jobs, age \in Ages :
            /\ Grant(w, j, age)
            /\ \/ Claimable(j, age)
               \/ \E t \in pending : t.op = "claim" /\ t.on = j
      BY <1>4 DEF Claim, First, ClaimWrite, Txns
    <2>2. /\ status' = [status EXCEPT ![j] = "previewed"]
          /\ pc' = [pc EXCEPT ![w] = "claimed"]
          /\ job' = [job EXCEPT ![w] = j]
          /\ window' = [window EXCEPT ![w] = Within(Granted(age))]
          /\ lost' = lost /\ pending' = {}
      BY <2>1 DEF Grant, Outcome
    <2>3. pc[w] = "idle"
      BY <1>4 DEF Claim, ClaimWrite, PendingSound
    <2>4. ASSUME NEW v \in Workers, pc[v] \in Busy PROVE job[v] # j
      <3>1. CASE Claimable(j, age)
        BY <2>4, <3>1, Bounds DEF Claimable, Ages, Solo, WindowSound, Terminal
      <3>2. CASE \E t \in pending : t.op = "claim" /\ t.on = j
        BY <2>4, <3>2 DEF Solo
      <3> QED
        BY <2>1, <3>1, <3>2
    <2>5. SoleRunner'
      BY <2>2, <2>4 DEF Solo, SoleRunner
    <2>6. \A v \in Workers : pc'[v] \in Busy /\ ~lost'[v] => window'[v] > 0
      BY <1>0, <2>2 DEF Solo
    <2>7. \A v \in Workers : pc'[v] \in Busy /\ lost'[v] => status'[job'[v]] \in Terminal
      BY <2>2, <2>3, <2>4 DEF Solo
    <2>8. \A v \in Workers : pc'[v] \in Busy =>
            status'[job'[v]] \in {"previewed", "running"} \union Terminal
      BY <2>2, <2>4 DEF Solo
    <2>9. \A v \in Workers : pc'[v] = "idle" => ~lost'[v]
      BY <2>2, <2>3 DEF Solo
    <2> QED
      BY <2>2, <2>5, <2>6, <2>7, <2>8, <2>9 DEF Solo
  <1>5. ASSUME NEW w \in Workers, Complete(w) \/ Fail(w) \/ GiveUp(w) PROVE Solo'
    <2>1. Leave(w) /\ pc[w] \in Busy
      BY <1>5 DEF Complete, Fail, GiveUp, Busy
    <2>2. \A i \in Jobs : i # job[w] => status'[i] = status[i]
      BY <1>5 DEF Complete, Fail, GiveUp, rowVars
    <2>3. pc'[w] = "idle" /\ ~lost'[w] /\ pending' = pending
      BY <2>1 DEF Leave
    <2>4. \A v \in Workers : v # w =>
            /\ pc'[v] = pc[v] /\ job'[v] = job[v] /\ lost'[v] = lost[v] /\ window'[v] = window[v]
      BY <2>1 DEF Leave
    <2>5. \A v \in Workers : pc'[v] \in Busy => v # w /\ status'[job[v]] = status[job[v]]
      BY <2>1, <2>2, <2>3, <2>4 DEF Solo, SoleRunner, Busy, InHandler
    <2> QED
      BY <2>3, <2>4, <2>5 DEF Solo, SoleRunner
  <1>6. ASSUME NEW w \in Workers, Heartbeat(w) \/ HeartbeatWrite(w) PROVE Solo'
    <2>1. PICK age \in Ages, seen \in {"previewed", "running"} : Extend(w, age, seen)
      BY <1>6, HeartbeatExtends DEF Extends
    <2>2. pc[w] \in Busy /\ ~lost[w]
      BY <1>6, HeartbeatExtends DEF Extends
    <2>3. /\ status' = [status EXCEPT ![job[w]] = seen]
          /\ window' = [window EXCEPT ![w] = Within(Granted(age))]
          /\ UNCHANGED <<pc, job, lost>> /\ pending' = {}
      BY <2>1 DEF Extend
    <2>4. \A v \in Workers : pc[v] \in Busy /\ v # w => job[v] # job[w]
      BY <2>2 DEF Solo, SoleRunner
    <2>5. SoleRunner'
      BY <2>3 DEF Solo, SoleRunner
    <2>6. \A v \in Workers : pc[v] \in Busy /\ ~lost[v] => window'[v] > 0
      BY <1>0, <2>3 DEF Solo
    <2>7. \A v \in Workers : pc[v] \in Busy /\ lost[v] => status'[job[v]] \in Terminal
      BY <2>2, <2>3, <2>4 DEF Solo
    <2>8. \A v \in Workers : pc[v] \in Busy =>
            status'[job[v]] \in {"previewed", "running"} \union Terminal
      BY <2>3, <2>4 DEF Solo
    <2> QED
      BY <2>3, <2>5, <2>6, <2>7, <2>8 DEF Solo
  <1>7. ASSUME NEW w \in Workers, HeartbeatRefused(w) PROVE Solo'
    <2>1. /\ pc[w] \in Busy /\ ~lost[w]
          /\ ~Owned(w, job[w], 0) \/ status[job[w]] \notin {"previewed", "running"}
          /\ lost' = [lost EXCEPT ![w] = TRUE]
          /\ UNCHANGED <<status, pc, job, window, pending>>
      BY <1>7 DEF HeartbeatRefused, rowVars
    <2>2. Owned(w, job[w], 0)
      BY <2>1 DEF Owned, Solo, WindowSound
    <2>3. status[job[w]] \in Terminal
      BY <2>1, <2>2 DEF Solo
    <2> QED
      BY <2>1, <2>3 DEF Solo, SoleRunner, Busy, InHandler
  <1>8. CASE Tick
    <2>1. /\ \A w \in Workers : pc[w] \in Busy /\ ~lost[w] => window[w] > 1
          /\ window' = [w \in Workers |-> Less(window[w], 0)]
          /\ UNCHANGED <<status, pc, job, lost, pending>>
      BY <1>8 DEF Tick
    <2>2. \A w \in Workers : pc[w] \in Busy /\ ~lost[w] => window'[w] > 0
      BY <2>1 DEF Less
    <2> QED
      BY <2>1, <2>2 DEF Solo, SoleRunner
  <1>9. CASE UNCHANGED vars
    BY <1>9 DEF vars, rowVars, workerVars, Solo, SoleRunner
  <1>10. ASSUME NEW w \in Workers, SelectStep(w) PROVE Solo'
    <2>1. UNCHANGED <<status, pc, job, lost, window>>
      BY <1>10 DEF SelectStep, ClaimSelect, HeartbeatSelect, rowVars, workerVars
    <2>2. ASSUME NEW t \in pending', t.op = "claim"
          PROVE  \E age \in Ages : Claimable(t.on, age)
      BY <1>10, <2>2 DEF SelectStep, ClaimSelect, HeartbeatSelect, First, Txn
    <2>3. ASSUME NEW t \in pending', t.op = "claim", NEW v \in Workers, pc[v] \in Busy
          PROVE  job[v] # t.on
      <3>1. PICK age \in Ages : Claimable(t.on, age)
        BY <2>2, <2>3
      <3> QED
        BY <2>3, <3>1, Bounds DEF Claimable, Ages, Solo, WindowSound, Terminal
    <2> QED
      BY <2>1, <2>3 DEF Solo, SoleRunner
  <1> QED
    BY <1>1, <1>2, <1>3, <1>4, <1>5, <1>6, <1>7, <1>8, <1>9, <1>10
       DEF Next, Step, Beat, UserStep, SelectStep

\* As long as every live worker heartbeats within its 60 s lease and the metadata
\* store answers, no job is ever run by two workers at once.
THEOREM RunsAlone ==
  ASSUME Punctual, ~TransientErrors
  PROVE  Spec => []SoleRunner
  <1>1. Init => Solo
    BY DEF Init, Solo, SoleRunner, Busy, InHandler
  <1>2. TypeOK /\ PendingSound /\ WindowSound /\ Solo /\ [Next]_vars => Solo'
    BY NextSolo
  <1>3. Solo => SoleRunner
    BY DEF Solo
  <1> QED
    BY <1>1, <1>2, <1>3, SoundInvariant, WindowInvariant, PTL DEF Spec

-----------------------------------------------------------------------------
(* Where a transaction is one step besides, success is final: the only worker *)
(* that a succeeded job can have is the one that carried it through, on the   *)
(* way to complete, which owns the lease or has lost it and does not call     *)
(* fail.                                                                      *)

FinalSound ==
  /\ pending = {}
  /\ \A w \in Workers :
       pc[w] \in Busy /\ status[job[w]] = "succeeded" =>
         pc[w] \in {"returned", "completing"} \/ (pc[w] = "thrown" /\ lost[w])

Finality == \A j \in Jobs : status[j] = "succeeded" => status'[j] = "succeeded"

\* The steps that neither end a job nor move a status.
LEMMA FinalKept ==
  ASSUME TypeOK, FinalSound, UNCHANGED <<status, pending>>,
         \A v \in Workers : pc'[v] \in Busy =>
           /\ pc[v] \in Busy /\ job'[v] = job[v] /\ (lost[v] => lost'[v])
           /\ \/ pc'[v] = pc[v]
              \/ pc[v] \notin {"returned", "completing", "thrown"}
              \/ pc'[v] \in {"returned", "completing"}
              \/ pc[v] = "completing" /\ pc'[v] = "thrown" /\ lost[v]
              \/ pc[v] = "thrown" /\ ~lost[v]
  PROVE  FinalSound' /\ Finality
  BY DEF FinalSound, Finality, Busy, InHandler

LEMMA NextFinal ==
  ASSUME Punctual, ~TransientErrors, Serializable, TypeOK, PendingSound, WindowSound, Solo,
         FinalSound, [Next]_vars
  PROVE  FinalSound' /\ Finality
  <1> USE DEF TypeOK, WorkerTypes, RowTypes
  <1>1. ASSUME NEW j \in Jobs, UserStep(j) PROVE FinalSound' /\ Finality
    <2>1. UNCHANGED <<pc, job, lost, pending>>
      BY <1>1, UserStepQuiet
    <2>2. \A i \in Jobs : status'[i] = "succeeded" <=> status[i] = "succeeded"
      BY <1>1 DEF UserStep, Create, Preview, Request, Cancel, CanTransition
    <2> QED
      BY <2>1, <2>2 DEF FinalSound, Finality, Busy, InHandler
  <1>2. ASSUME NEW w \in Workers,
               CancelLocal(w) \/ Check(w) \/ Refuse(w) \/ StartRefused(w) \/ Open(w) \/ Commit(w)
               \/ Break(w) \/ Accept(w) \/ FinishRefused(w) \/ Discard(w) \/ MarkError(w)
               \/ Settle(w)
        PROVE  FinalSound' /\ Finality
    <2>1. UNCHANGED <<status, pending, job, lost>>
      BY <1>2 DEF CancelLocal, Check, Refuse, StartRefused, Open, Commit, Break, Accept,
         FinishRefused, Discard, MarkError, Settle, Goto, rowVars
    <2>2. \A v \in Workers : pc'[v] \in Busy =>
            /\ pc[v] \in Busy
            /\ \/ pc'[v] = pc[v]
               \/ pc[v] \notin {"returned", "completing", "thrown"}
               \/ pc'[v] \in {"returned", "completing"}
               \/ pc[v] = "thrown" /\ ~lost[v]
      BY <1>2 DEF CancelLocal, Check, Refuse, StartRefused, Open, Commit, Break, Accept,
         FinishRefused, Discard, MarkError, Settle, Goto, Move, Busy, InHandler
    <2> QED
      BY <2>1, <2>2, FinalKept
  <1>3. ASSUME NEW w \in Workers, Crash(w) \/ HeartbeatRefused(w) PROVE FinalSound' /\ Finality
    <2>1. status' = status /\ pending' = {}
      BY <1>3 DEF Crash, HeartbeatRefused, rowVars, FinalSound
    <2>2. \A v \in Workers : pc'[v] \in Busy =>
            pc[v] \in Busy /\ pc'[v] = pc[v] /\ job'[v] = job[v] /\ (lost[v] => lost'[v])
      BY <1>3 DEF Crash, HeartbeatRefused, Busy, InHandler
    <2> QED
      BY <2>1, <2>2, FinalKept DEF FinalSound
  <1>4. ASSUME NEW w \in Workers, CompleteRefused(w) PROVE FinalSound' /\ Finality
    <2>1. /\ pc[w] = "completing" /\ ~Owned(w, job[w], 0)
          /\ pc' = [pc EXCEPT ![w] = "thrown"]
          /\ UNCHANGED <<status, pending, job, lost>>
      BY <1>4 DEF CompleteRefused, Goto, Move, rowVars
    <2>2. lost[w]
      BY <2>1 DEF Owned, Solo, WindowSound, Busy
    <2> QED
      BY <2>1, <2>2, FinalKept DEF Busy, InHandler
  <1>5. ASSUME NEW w \in Workers, Start(w) \/ Mark(w) PROVE FinalSound' /\ Finality
    <2>1. UNCHANGED <<job, lost, pending>> /\ pc[w] \in {"starting", "marking"}
      BY <1>5 DEF Start, Mark
    <2>2. status[job[w]] # "succeeded"
      BY <2>1 DEF FinalSound, Busy, InHandler
    <2>3. \A i \in Jobs : status'[i] = "succeeded" <=> status[i] = "succeeded"
      BY <1>5, <2>2 DEF Start, Mark
    <2>4. /\ \A v \in Workers : v # w => pc'[v] = pc[v]
          /\ pc[w] \in Busy
      BY <1>5 DEF Start, Mark, Move, Busy, InHandler
    <2> QED
      BY <2>1, <2>2, <2>3, <2>4 DEF FinalSound, Finality, Busy, InHandler
  <1>6. ASSUME NEW w \in Workers, Finish(w) PROVE FinalSound' /\ Finality
    <2>1. /\ UNCHANGED <<job, lost, pending>> /\ pc[w] = "finishing"
          /\ status' = [status EXCEPT ![job[w]] = "succeeded"]
          /\ pc' = [pc EXCEPT ![w] = "returned"]
      BY <1>6 DEF Finish, Move, Outcome
    <2>2. \A v \in Workers : v # w /\ pc[v] \in Busy => job[v] # job[w]
      BY <2>1 DEF Solo, SoleRunner, Busy, InHandler
    <2>3. \A v \in Workers : v # w /\ pc'[v] \in Busy =>
            pc[v] \in Busy /\ pc'[v] = pc[v] /\ status'[job[v]] = status[job[v]]
      BY <2>1, <2>2 DEF Busy, InHandler
    <2> QED
      BY <2>1, <2>3 DEF FinalSound, Finality, Busy, InHandler
  <1>7. ASSUME NEW w \in Workers, Claim(w) PROVE FinalSound' /\ Finality
    <2>1. PICK j \in Jobs, age \in Ages : Claimable(j, age) /\ Grant(w, j, age)
      BY <1>7 DEF Claim, First
    <2>2. /\ status' = [status EXCEPT ![j] = "previewed"] /\ status[j] # "succeeded"
          /\ pc' = [pc EXCEPT ![w] = "claimed"]
          /\ job' = [job EXCEPT ![w] = j] /\ lost' = lost /\ pending' = {}
      BY <2>1 DEF Grant, Outcome, Claimable
    <2> QED
      BY <2>2 DEF FinalSound, Finality, Busy, InHandler
  <1>8. ASSUME NEW w \in Workers, Complete(w) \/ Fail(w) \/ GiveUp(w)
        PROVE  FinalSound' /\ Finality
    <2>1. Leave(w) /\ pc[w] \in Busy /\ pending' = {}
      BY <1>8 DEF Complete, Fail, GiveUp, Busy, Leave, FinalSound
    <2>2. \A i \in Jobs : i # job[w] => status'[i] = status[i]
      BY <1>8 DEF Complete, Fail, GiveUp, rowVars
    <2>3. \A v \in Workers : pc'[v] \in Busy =>
            /\ v # w /\ pc'[v] = pc[v] /\ job'[v] = job[v] /\ lost'[v] = lost[v]
            /\ pc[v] \in Busy
      BY <2>1 DEF Leave, Busy, InHandler
    <2>4. \A v \in Workers : pc'[v] \in Busy => status'[job'[v]] = status[job[v]]
      BY <2>1, <2>2, <2>3 DEF Solo, SoleRunner
    <2>5. Finality
      <3>1. CASE Complete(w)
        BY <2>2, <3>1 DEF Complete, Finality
      <3>2. CASE Fail(w)
        <4>1. status[job[w]] # "succeeded"
          BY <3>2 DEF Fail, FinalSound, Busy
        <4> QED
          BY <2>2, <4>1 DEF Finality
      <3>3. CASE GiveUp(w)
        BY <3>3 DEF GiveUp, rowVars, Finality
      <3> QED
        BY <1>8, <3>1, <3>2, <3>3
    <2> QED
      BY <2>1, <2>3, <2>4, <2>5 DEF FinalSound, Busy, InHandler
  <1>9. ASSUME NEW w \in Workers, Heartbeat(w) PROVE FinalSound' /\ Finality
    <2>1. /\ status' = status /\ pending' = {} /\ UNCHANGED <<pc, job, lost>>
      BY <1>9 DEF Heartbeat, MayExtend, Extend
    <2> QED
      BY <2>1, FinalKept DEF FinalSound
  <1>10. CASE Tick
    BY <1>10, FinalKept DEF Tick
  <1>11. CASE UNCHANGED vars
    BY <1>11, FinalKept DEF vars, rowVars, workerVars
  <1>12. ASSUME NEW w \in Workers, SelectStep(w) \/ ClaimWrite(w) \/ HeartbeatWrite(w) PROVE FALSE
    BY <1>12 DEF SelectStep, ClaimSelect, HeartbeatSelect, ClaimWrite, HeartbeatWrite, FinalSound
  <1> QED
    BY <1>1, <1>2, <1>3, <1>4, <1>5, <1>6, <1>7, <1>8, <1>9, <1>10, <1>11, <1>12
       DEF Next, Step, Beat, UserStep, SelectStep

\* Under the conditions of RunsAlone, and with transactions that are one step (SQLite),
\* nothing a user, a worker or a crash does makes a succeeded job run again: not
\* complete and fail, which do not look at the status, and not a heartbeat.
THEOREM SuccessFinal ==
  ASSUME Punctual, ~TransientErrors, Serializable
  PROVE  Spec => SucceededIsFinal
  <1>1. Init => Solo
    BY DEF Init, Solo, SoleRunner, Busy, InHandler
  <1>2. Init => FinalSound
    BY DEF Init, FinalSound, Busy, InHandler
  <1>3. TypeOK /\ PendingSound /\ WindowSound /\ Solo /\ [Next]_vars => Solo'
    BY NextSolo
  <1>4. TypeOK /\ PendingSound /\ WindowSound /\ Solo /\ FinalSound /\ [Next]_vars
          => FinalSound' /\ [Finality]_vars
    BY NextFinal
  <1>5. Spec => [][Finality]_vars
    BY <1>1, <1>2, <1>3, <1>4, SoundInvariant, WindowInvariant, PTL DEF Spec
  <1> QED
    BY <1>5, PTL DEF SucceededIsFinal, Finality
=============================================================================
