--------------------------- MODULE TransferQueue ---------------------------
(***************************************************************************)
(* The transfer queue of the API: the rows of the metadata table           *)
(* transfer_jobs, the users who create, preview, submit and cancel jobs,   *)
(* and the workers (one per API process) that lease a job, run its handler *)
(* and settle it.                                                          *)
(*                                                                         *)
(* createWithinLimits, claim, heartbeat, complete and fail run in a        *)
(* transaction that first takes the row of transfer_job_lock;              *)
(* TransferJobService.update is a compare-and-set loop that does not take  *)
(* it.  On SQLite a transaction is one step.  On PostgreSQL an update can  *)
(* commit between the select of claim or heartbeat and the write that      *)
(* follows it, which then overwrites it; the writes of create, complete    *)
(* and fail do not depend on what an update can change.  What happens      *)
(* between two awaits of a worker can interleave with everything else.     *)
(*                                                                         *)
(* runOnce reads the clock when it calls claim, heartbeat, complete or     *)
(* fail; the transaction of the call compares and writes that reading when *)
(* it has the lock, and by then the reading is up to MaxWait ticks old.    *)
(*                                                                         *)
(* Time is relative: a timestamp is the number of ticks left until it      *)
(* passes, negative once it has passed, and is not followed further than   *)
(* the oldest clock reading that can be compared with it.                  *)
(***************************************************************************)
EXTENDS Integers, FiniteSets

CONSTANTS
  Jobs,             \* the job ids, numbered in the order of created_at, id
  Exports,          \* the jobs whose direction is "export"; the others import
  Restores,         \* the imports whose format is "sql"
  Owner,            \* Owner[j]: the user who creates job j
  Connection,       \* Connection[j]: the connection profile of job j
  Workers,          \* the worker ids; a process that restarts is a new id
  ActiveLimit,      \* ACTIVE_JOB_LIMIT
  MaxAttempts,      \* MAX_ATTEMPTS
  LeaseTicks,       \* LEASE_DURATION_MS
  MaxWait,          \* how old the clock reading of a call may be when it has the lock
  Backoff,          \* Backoff[n]: the delay after n failed attempts
  MaxCrashes,       \* how many processes may die
  TransientErrors,  \* may a metadata call throw, before or after it took effect?
  Punctual,         \* does a live worker always heartbeat within its lease?
  Serializable,     \* is a metadata transaction one step (SQLite), or read
                    \* committed (PostgreSQL)?
  NoJob, NoWorker

ASSUME TransferQueueAssumption ==
  /\ Jobs \subseteq Nat
  /\ Exports \subseteq Jobs
  /\ Restores \subseteq Jobs \ Exports
  /\ ActiveLimit \in Nat \ {0}
  /\ MaxAttempts \in Nat \ {0}
  /\ LeaseTicks \in Nat \ {0}
  /\ MaxWait \in Nat
  /\ Punctual => MaxWait < LeaseTicks
  /\ Backoff \in [0..MaxAttempts -> Nat]
  /\ MaxCrashes \in Nat
  /\ TransientErrors \in BOOLEAN
  /\ Punctual \in BOOLEAN
  /\ Serializable \in BOOLEAN
  /\ NoJob \notin Jobs
  /\ NoWorker \notin Workers
  /\ IsFiniteSet(Workers)

VARIABLES
  status,      \* status column; "absent" before the row is inserted
  requested,   \* execution_requested_at and _by are set
  leaseOwner,  \* lease_owner
  leaseLeft,   \* ticks until lease_expires_at; Past if it is null
  attempts,    \* attempt_count
  retryLeft,   \* ticks until next_attempt_at; Past if it is null
  output,      \* the output store holds the complete package of an export
  commits,     \* times a handler carried its effect through (import
               \* committed in the target, or package written)
  pc,          \* where each worker is in runOnce and in its handler
  job,         \* the job each worker claimed
  lost,        \* leaseLost of runOnce
  aborted,     \* the handler's own controller is aborted: its job was cancelled
  cancelled,   \* the verdict of the handler's catch block
  window,      \* history: ticks left of the last lease the worker was granted and
               \* has not given back
  crashes,     \* processes that died so far
  pending      \* the transaction that holds the lock between its select and its
               \* write, if there is one

rowVars    == <<status, requested, leaseOwner, leaseLeft, attempts, retryLeft>>
effectVars == <<output, commits>>
workerVars == <<pc, job, lost, aborted, cancelled, window>>
vars == <<rowVars, effectVars, workerVars, crashes, pending>>

Active   == {"queued", "previewed", "running"}
Terminal == {"succeeded", "failed", "cancelled"}

\* How many ticks old a clock reading may be.
Ages == 0..MaxWait

\* A timestamp that every clock reading takes for passed.
Past == -MaxWait

\* The positions of a worker: before and after it holds a job ...
Resting == {"idle", "dead"}
\* ... while the handler's `active` map has the job (cancel can abort it) ...
InHandler == {"starting", "working", "writing", "committed", "finishing",
              "stopping", "marking"}
\* ... and the steps of runOnce around the handler: the job is claimed, the handler has
\* returned and complete is called, something has thrown and fail is called.
Busy == {"claimed", "returned", "completing", "thrown", "failing"} \union InHandler

\* A transaction of worker w on job j, with the age of its clock reading and the status
\* its select read.
Txn(op, w, j, age) == [op |-> op, by |-> w, on |-> j, age |-> age, seen |-> status[j]]
Txns == [op : {"claim", "heartbeat"}, by : Workers, on : Jobs, age : Ages,
         seen : {"previewed", "running"}]

RowTypes ==
  /\ status \in [Jobs -> Active \union Terminal \union {"absent"}]
  /\ requested \in [Jobs -> BOOLEAN]
  /\ leaseOwner \in [Jobs -> Workers \union {NoWorker}]
  /\ leaseLeft \in [Jobs -> Past..LeaseTicks]
  /\ attempts \in [Jobs -> 0..MaxAttempts]
  /\ retryLeft \in [Jobs -> Int]

EffectTypes ==
  /\ output \in [Jobs -> BOOLEAN]
  /\ commits \in [Jobs -> Nat]

\* A busy worker has a job.
WorkerTypes ==
  /\ pc \in [Workers -> Resting \union Busy]
  /\ job \in [Workers -> Jobs \union {NoJob}]
  /\ \A w \in Workers : pc[w] \in Busy => job[w] \in Jobs
  /\ lost \in [Workers -> BOOLEAN]
  /\ aborted \in [Workers -> BOOLEAN]
  /\ cancelled \in [Workers -> BOOLEAN]
  /\ window \in [Workers -> 0..LeaseTicks]

\* Every variable keeps its type: a row is claimed at most MAX_ATTEMPTS times, a
\* lease never lasts longer than LEASE_DURATION_MS.
TypeOK ==
  /\ RowTypes
  /\ EffectTypes
  /\ WorkerTypes
  /\ crashes \in 0..MaxCrashes
  /\ pending \subseteq Txns

Init ==
  /\ status = [j \in Jobs |-> "absent"]
  /\ requested = [j \in Jobs |-> FALSE]
  /\ leaseOwner = [j \in Jobs |-> NoWorker]
  /\ leaseLeft = [j \in Jobs |-> Past]
  /\ attempts = [j \in Jobs |-> 0]
  /\ retryLeft = [j \in Jobs |-> Past]
  /\ output = [j \in Jobs |-> FALSE]
  /\ commits = [j \in Jobs |-> 0]
  /\ pc = [w \in Workers |-> "idle"]
  /\ job = [w \in Workers |-> NoJob]
  /\ lost = [w \in Workers |-> FALSE]
  /\ aborted = [w \in Workers |-> FALSE]
  /\ cancelled = [w \in Workers |-> FALSE]
  /\ window = [w \in Workers |-> 0]
  /\ crashes = 0
  /\ pending = {}

-----------------------------------------------------------------------------
(* The rules of the table *)

\* TRANSITIONS: the moves transitionTransferJob accepts.
CanTransition(from, to) ==
  \/ from = "queued"    /\ to \in {"previewed", "failed", "cancelled"}
  \/ from = "previewed" /\ to \in {"running", "failed", "cancelled"}
  \/ from = "running"   /\ to \in {"succeeded", "failed", "cancelled"}
  \/ from = "failed"    /\ to = "queued"

ActiveOf(f, x) == {i \in Jobs : f[i] = x /\ status[i] \in Active}

\* createWithinLimits: both counts are taken under the lock.
WithinLimits(j) ==
  /\ Cardinality(ActiveOf(Owner, Owner[j])) < ActiveLimit
  /\ Cardinality(ActiveOf(Connection, Connection[j])) < ActiveLimit

\* Faulty forms of Claimable: a lease that is not waited for, a status that is not
\* looked at, running rows left out.
ClaimableAnyLease(j, age) ==
  attempts[j] < MaxAttempts /\ requested[j] /\ status[j] \in {"previewed", "running"}

ClaimableAnyStatus(j, age) ==
  attempts[j] < MaxAttempts /\ requested[j] /\ leaseLeft[j] <= -age

ClaimablePreviewed(j, age) ==
  /\ attempts[j] < MaxAttempts /\ requested[j]
  /\ status[j] = "previewed" /\ leaseLeft[j] <= -age /\ retryLeft[j] <= -age

\* The where clause of claim, with a clock reading of this age.
Claimable(j, age) ==
  /\ attempts[j] < MaxAttempts
  /\ requested[j]
  /\ leaseLeft[j] <= -age
  /\ \/ status[j] = "previewed" /\ retryLeft[j] <= -age
     \/ status[j] = "running" /\ leaseOwner[j] # NoWorker

\* Faulty: the expiry of the lease is not looked at.
OwnedByName(w, j, age) == leaseOwner[j] = w

\* The guard mutateOwned puts before heartbeat, complete and fail: the lease had not
\* run out when the clock was read.
Owned(w, j, age) == leaseOwner[j] = w /\ leaseLeft[j] > -age

\* What is left of a lease that such a reading grants.
Granted(age) == LeaseTicks - age

\* No transaction holds transfer_job_lock.
Unlocked == pending = {}

\* Worker w's own heartbeat is not under way.
Settled(w) == \A t \in pending : t.by # w

\* Faulty: off by one.
ExhaustedTooLate(j) == attempts[j] > MaxAttempts

\* fail gives the job up.
Exhausted(j) == attempts[j] >= MaxAttempts

-----------------------------------------------------------------------------
(* Users: the HTTP routes *)

\* POST /api/transfers
Create(j) ==
  /\ Unlocked
  /\ status[j] = "absent"
  /\ \A i \in Jobs : i < j => status[i] # "absent"
  /\ WithinLimits(j)
  /\ status' = [status EXCEPT ![j] = "queued"]
  /\ UNCHANGED <<requested, leaseOwner, leaseLeft, attempts, retryLeft,
                 effectVars, workerVars, crashes, pending>>

\* POST /api/transfers/:jobId/preview, for an import once it is uploaded
Preview(j) ==
  /\ status[j] = "queued"
  /\ status' = [status EXCEPT ![j] = "previewed"]
  /\ UNCHANGED <<requested, leaseOwner, leaseLeft, attempts, retryLeft,
                 effectVars, workerVars, crashes, pending>>

\* POST /api/transfers/:jobId/execute
Request(j) ==
  /\ status[j] = "previewed"
  /\ ~requested[j]
  /\ requested' = [requested EXCEPT ![j] = TRUE]
  /\ UNCHANGED <<status, leaseOwner, leaseLeft, attempts, retryLeft,
                 effectVars, workerVars, crashes, pending>>

\* POST /api/transfers/:jobId/cancel on a process whose handler is not running
\* the job, or for an SQL restore, whose running handler is not told.
Cancel(j) ==
  /\ CanTransition(status[j], "cancelled")
  /\ status' = [status EXCEPT ![j] = "cancelled"]
  /\ UNCHANGED <<requested, leaseOwner, leaseLeft, attempts, retryLeft,
                 effectVars, workerVars, crashes, pending>>

\* The same route on the process whose handler is running the job.
CancelLocal(w) ==
  /\ pc[w] \in InHandler
  /\ job[w] \notin Restores
  /\ aborted' = [aborted EXCEPT ![w] = TRUE]
  /\ UNCHANGED <<rowVars, effectVars, pc, job, lost, cancelled, window, crashes, pending>>

-----------------------------------------------------------------------------
(* Workers: runOnce, the queued-job executor and the handler *)

\* The outcomes of a metadata call that took effect: its caller goes on, or sees
\* it throw (the answer was lost).
Outcome(next, onError) == {next} \union (IF TransientErrors THEN {onError} ELSE {})

\* AbortSignal.any of the worker's controller and the handler's own.
Signal(w) == lost[w] \/ aborted[w]

\* Worker w goes on to position `to`.  The catch block of a handler looks at the signal
\* when it is entered, and what it saw decides how it marks the row.
Move(w, to) ==
  /\ pc' = [pc EXCEPT ![w] = to]
  /\ cancelled' = [cancelled EXCEPT ![w] = \/ to = "stopping" /\ Signal(w)
                                           \/ to = "marking" /\ @]

\* A step of worker w that only moves it.
Goto(w, from, to) ==
  /\ pc[w] = from
  /\ Move(w, to)
  /\ UNCHANGED <<rowVars, effectVars, job, lost, aborted, window, crashes, pending>>

\* claim takes the first claimable row in created_at order.
First(j, age) == Claimable(j, age) /\ \A i \in Jobs : Claimable(i, age) => j <= i

\* What of a lease its worker can count on.
Within(left) == IF left > 0 THEN left ELSE 0

\* The write of claim: the row becomes "previewed" and leased, whatever its status
\* is, and the attempt is counted.  If the answer is lost the row stays leased to
\* a worker that does not know of it.
Grant(w, j, age) ==
  /\ status' = [status EXCEPT ![j] = "previewed"]
  /\ leaseOwner' = [leaseOwner EXCEPT ![j] = w]
  /\ leaseLeft' = [leaseLeft EXCEPT ![j] = Granted(age)]
  /\ attempts' = [attempts EXCEPT ![j] = @ + 1]
  /\ retryLeft' = [retryLeft EXCEPT ![j] = Past]
  /\ \E to \in Outcome("claimed", "idle") :
       /\ pc' = [pc EXCEPT ![w] = to]
       /\ job' = [job EXCEPT ![w] = IF to = "claimed" THEN j ELSE NoJob]
       /\ window' = [window EXCEPT ![w] = IF to = "claimed" THEN Within(Granted(age)) ELSE 0]
  /\ pending' = {}
  /\ UNCHANGED <<requested, effectVars, lost, aborted, cancelled, crashes>>

\* claim, with nothing between its select and its write ...
Claim(w) ==
  /\ pc[w] = "idle"
  /\ Unlocked
  /\ \E j \in Jobs, age \in Ages : First(j, age) /\ Grant(w, j, age)

\* ... or in two steps.
ClaimSelect(w) ==
  /\ ~Serializable
  /\ pc[w] = "idle"
  /\ Unlocked
  /\ \E j \in Jobs, age \in Ages : First(j, age) /\ pending' = {Txn("claim", w, j, age)}
  /\ UNCHANGED <<rowVars, effectVars, workerVars, crashes>>

ClaimWrite(w) ==
  \E t \in pending : t.op = "claim" /\ t.by = w /\ Grant(w, t.on, t.age)

\* The checks before the handler registers the job: the requester is still
\* enabled, the preview plan has not expired, the actor is authorised, and
\* the row is "previewed".
Check(w) ==
  /\ Goto(w, "claimed", "starting")
  /\ status[job[w]] = "previewed"

\* One of those checks throws; the row is not touched.
Refuse(w) == Goto(w, "claimed", "thrown")

\* jobs.update(previewed -> running), the first await of the try block.
Start(w) ==
  /\ pc[w] = "starting"
  /\ CanTransition(status[job[w]], "running")
  /\ status' = [status EXCEPT ![job[w]] = "running"]
  /\ \E to \in Outcome("working", "stopping") : Move(w, to)
  /\ UNCHANGED <<requested, leaseOwner, leaseLeft, attempts, retryLeft,
                 effectVars, job, lost, aborted, window, crashes, pending>>

\* The update throws; or a restore cannot open its package or its session.
StartRefused(w) ==
  /\ Goto(w, "starting", "stopping")
  /\ \/ ~CanTransition(status[job[w]], "running")
     \/ TransientErrors
     \/ job[w] \in Restores

\* The output store without the package of w's job; imports have none.
Emptied(w) == [output EXCEPT ![job[w]] = @ /\ job[w] \notin Exports]

\* An export empties its output before it writes; an import opens its source.
Open(w) ==
  /\ pc[w] = "working"
  /\ Move(w, "writing")
  /\ output' = Emptied(w)
  /\ UNCHANGED <<rowVars, commits, job, lost, aborted, window, crashes, pending>>

\* The data is through: the package is written, or the import committed.
Commit(w) ==
  /\ pc[w] = "writing"
  /\ Move(w, "committed")
  /\ output' = [output EXCEPT ![job[w]] = @ \/ job[w] \in Exports]
  /\ commits' = [commits EXCEPT ![job[w]] = @ + 1]
  /\ UNCHANGED <<rowVars, job, lost, aborted, window, crashes, pending>>

\* The data path throws, on an error or because the signal is aborted.  A writer
\* that fails deletes what it wrote, if the store lets it.
Break(w) ==
  \/ Goto(w, "working", "stopping")
  \/ /\ pc[w] = "writing"
     /\ Move(w, "stopping")
     /\ output' \in {output, Emptied(w)}
     /\ UNCHANGED <<rowVars, commits, job, lost, aborted, window, crashes, pending>>

\* if (signal.aborted) throw ...; a restore does not look at its signal any more.
Accept(w) ==
  LET stop == Signal(w) /\ job[w] \notin Restores
  IN  Goto(w, "committed", IF stop THEN "stopping" ELSE "finishing")

\* jobs.update(running -> succeeded)
Finish(w) ==
  /\ pc[w] = "finishing"
  /\ CanTransition(status[job[w]], "succeeded")
  /\ status' = [status EXCEPT ![job[w]] = "succeeded"]
  /\ \E to \in Outcome("returned", "stopping") : Move(w, to)
  /\ UNCHANGED <<requested, leaseOwner, leaseLeft, attempts, retryLeft,
                 effectVars, job, lost, aborted, window, crashes, pending>>

\* ... or the audit record before it, or the update, throws.
FinishRefused(w) ==
  /\ Goto(w, "finishing", "stopping")
  /\ ~CanTransition(status[job[w]], "succeeded") \/ TransientErrors

\* The catch block of an export first deletes the package; an error of the store
\* is swallowed.
Discard(w) ==
  /\ pc[w] = "stopping"
  /\ Move(w, "marking")
  /\ output' \in {output, Emptied(w)}
  /\ UNCHANGED <<rowVars, commits, job, lost, aborted, window, crashes, pending>>

\* markStopped: "cancelled" if that was the verdict, else "failed".  The update
\* looks at the status alone, and a refused transition is swallowed.
Mark(w) ==
  LET to == IF cancelled[w] THEN "cancelled" ELSE "failed" IN
  /\ pc[w] = "marking"
  /\ Move(w, "thrown")
  /\ status' = [status EXCEPT ![job[w]] = IF CanTransition(@, to) THEN to ELSE @]
  /\ UNCHANGED <<requested, leaseOwner, leaseLeft, attempts, retryLeft,
                 effectVars, job, lost, aborted, window, crashes, pending>>

MarkError(w) == TransientErrors /\ Goto(w, "marking", "thrown")

\* if (!leaseLost): the handler returned, or something threw, and complete or fail is
\* called.  The lease may be lost while the call is under way.
Settle(w) ==
  /\ ~lost[w]
  /\ Goto(w, "returned", "completing") \/ Goto(w, "thrown", "failing")

\* Worker w is done with its job; runOnce returns.
Leave(w) ==
  /\ pc' = [pc EXCEPT ![w] = "idle"]
  /\ job' = [job EXCEPT ![w] = NoJob]
  /\ lost' = [lost EXCEPT ![w] = FALSE]
  /\ aborted' = [aborted EXCEPT ![w] = FALSE]
  /\ window' = [window EXCEPT ![w] = 0]
  /\ UNCHANGED <<effectVars, cancelled, crashes, pending>>

\* leases.complete: only the lease is checked, not the status.
Complete(w) ==
  /\ pc[w] = "completing"
  /\ Unlocked
  /\ \E age \in Ages : Owned(w, job[w], age)
  /\ status' = [status EXCEPT ![job[w]] = "succeeded"]
  /\ leaseOwner' = [leaseOwner EXCEPT ![job[w]] = NoWorker]
  /\ leaseLeft' = [leaseLeft EXCEPT ![job[w]] = Past]
  /\ retryLeft' = [retryLeft EXCEPT ![job[w]] = Past]
  /\ requested' = [requested EXCEPT ![job[w]] = FALSE]
  /\ UNCHANGED attempts
  /\ \/ Leave(w)
     \/ /\ TransientErrors
        /\ pc' = [pc EXCEPT ![w] = "thrown"]
        /\ window' = [window EXCEPT ![w] = 0]
        /\ UNCHANGED <<effectVars, job, lost, aborted, cancelled, crashes, pending>>

\* A complete that throws lands in the catch block of runOnce.
CompleteRefused(w) ==
  /\ Goto(w, "completing", "thrown")
  /\ ~Owned(w, job[w], 0) \/ TransientErrors

\* leases.fail: back to "previewed" with a backoff, or "failed" after the last
\* attempt.  Only the lease is checked, not the status.
Fail(w) ==
  /\ pc[w] = "failing"
  /\ Unlocked
  /\ status' = [status EXCEPT ![job[w]] = IF Exhausted(job[w]) THEN "failed" ELSE "previewed"]
  /\ leaseOwner' = [leaseOwner EXCEPT ![job[w]] = NoWorker]
  /\ leaseLeft' = [leaseLeft EXCEPT ![job[w]] = Past]
  /\ \E age \in Ages :
       /\ Owned(w, job[w], age)
       /\ retryLeft' = [retryLeft EXCEPT ![job[w]] =
                          IF Exhausted(job[w]) THEN Past ELSE Backoff[attempts[job[w]]] - age]
  /\ UNCHANGED <<requested, attempts>>
  /\ Leave(w)

\* fail throws and the error is swallowed, or leaseLost skips the call.  runOnce
\* waits for its heartbeat before it returns.
GiveUp(w) ==
  /\ Settled(w)
  /\ \/ pc[w] = "failing" /\ (~Owned(w, job[w], 0) \/ TransientErrors)
     \/ pc[w] \in {"returned", "thrown"} /\ lost[w]
  /\ UNCHANGED rowVars
  /\ Leave(w)

\* mutateOwned lets the heartbeat of worker w through.  Its clock reading is not older
\* than the one that granted the lease: the clock of a process does not go back.
MayExtend(w, age) ==
  /\ pc[w] \in Busy
  /\ Unlocked
  /\ ~lost[w]
  /\ Owned(w, job[w], age)
  /\ status[job[w]] \in {"previewed", "running"}
  /\ Granted(age) >= leaseLeft[job[w]]

\* The write of heartbeat: the whole row as it was read, with a new expiry.
Extend(w, age, seen) ==
  /\ status' = [status EXCEPT ![job[w]] = seen]
  /\ leaseLeft' = [leaseLeft EXCEPT ![job[w]] = Granted(age)]
  /\ \/ /\ window' = [window EXCEPT ![w] = Within(Granted(age))]
        /\ UNCHANGED lost
     \/ /\ TransientErrors
        /\ lost' = [lost EXCEPT ![w] = TRUE]
        /\ UNCHANGED window
  /\ pending' = {}
  /\ UNCHANGED <<requested, leaseOwner, attempts, retryLeft,
                 effectVars, pc, job, aborted, cancelled, crashes>>

\* The heartbeat timer, alive from claim until runOnce returns.
Heartbeat(w) ==
  \E age \in Ages : MayExtend(w, age) /\ Extend(w, age, status[job[w]])

HeartbeatSelect(w) ==
  /\ ~Serializable
  /\ \E age \in Ages :
       MayExtend(w, age) /\ pending' = {Txn("heartbeat", w, job[w], age)}
  /\ UNCHANGED <<rowVars, effectVars, workerVars, crashes>>

HeartbeatWrite(w) ==
  \E t \in pending : t.op = "heartbeat" /\ t.by = w /\ Extend(w, t.age, t.seen)

\* A heartbeat that throws, for any reason, gives the lease up and aborts the signal.
HeartbeatRefused(w) ==
  /\ pc[w] \in Busy
  /\ Settled(w)
  /\ ~lost[w]
  /\ \/ ~Owned(w, job[w], 0)
     \/ status[job[w]] \notin {"previewed", "running"}
     \/ TransientErrors
  /\ lost' = [lost EXCEPT ![w] = TRUE]
  /\ UNCHANGED <<rowVars, effectVars, pc, job, aborted, cancelled, window, crashes, pending>>

-----------------------------------------------------------------------------
(* The environment *)

\* The process of worker w dies; a transaction of its is rolled back.
Crash(w) ==
  /\ pc[w] # "dead"
  /\ crashes < MaxCrashes
  /\ crashes' = crashes + 1
  /\ pc' = [pc EXCEPT ![w] = "dead"]
  /\ job' = [job EXCEPT ![w] = NoJob]
  /\ lost' = [lost EXCEPT ![w] = FALSE]
  /\ aborted' = [aborted EXCEPT ![w] = FALSE]
  /\ cancelled' = [cancelled EXCEPT ![w] = FALSE]
  /\ window' = [window EXCEPT ![w] = 0]
  /\ pending' = {t \in pending : t.by # w}
  /\ UNCHANGED <<rowVars, effectVars>>

Less(n, least) == IF n <= least THEN least ELSE n - 1

\* One tick passes: a good part of a lease, so no transaction lasts that long between its
\* select and its write.  A punctual worker heartbeats before its lease runs out.
Tick ==
  /\ Unlocked
  /\ \/ \E j \in Jobs : leaseLeft[j] > Past \/ retryLeft[j] > Past
     \/ \E w \in Workers : window[w] > 0
  /\ Punctual => \A w \in Workers : pc[w] \in Busy /\ ~lost[w] => window[w] > 1
  /\ leaseLeft' = [j \in Jobs |-> Less(leaseLeft[j], Past)]
  /\ retryLeft' = [j \in Jobs |-> Less(retryLeft[j], Past)]
  /\ window' = [w \in Workers |-> Less(window[w], 0)]
  /\ UNCHANGED <<status, requested, leaseOwner, attempts, effectVars,
                 pc, job, lost, aborted, cancelled, crashes, pending>>

\* What worker w does next, if it is scheduled.
Step(w) ==
  \/ Claim(w) \/ ClaimSelect(w) \/ ClaimWrite(w)
  \/ Check(w) \/ Refuse(w) \/ Start(w) \/ StartRefused(w)
  \/ Open(w) \/ Commit(w) \/ Break(w) \/ Accept(w)
  \/ Finish(w) \/ FinishRefused(w) \/ Discard(w) \/ Mark(w) \/ MarkError(w)
  \/ Settle(w) \/ Complete(w) \/ CompleteRefused(w) \/ Fail(w) \/ GiveUp(w)

Beat(w) ==
  Heartbeat(w) \/ HeartbeatSelect(w) \/ HeartbeatWrite(w) \/ HeartbeatRefused(w)

Next ==
  \/ \E j \in Jobs : Create(j) \/ Preview(j) \/ Request(j) \/ Cancel(j)
  \/ \E w \in Workers :
       CancelLocal(w) \/ Step(w) \/ Beat(w) \/ Crash(w)
  \/ Tick

Spec == Init /\ [][Next]_vars

\* A live process keeps running its worker and its heartbeat timer, the
\* scheduler polls for ever, and time passes.  Users and crashes owe nothing.
Fairness ==
  /\ \A w \in Workers : SF_vars(Step(w))
  /\ \A w \in Workers : WF_vars(Beat(w))
  /\ WF_vars(Tick)

FairSpec == Spec /\ Fairness
-----------------------------------------------------------------------------
(* What the queue promises *)

\* No two workers are both inside the lease they were last granted on the same
\* job, however slow they are and whatever call fails: the 60 s lease excludes
\* as long as its holder is within it.
MutualExclusion ==
  \A w, v \in Workers :
    /\ w # v
    /\ pc[w] \in Busy /\ window[w] > 0
    /\ pc[v] \in Busy /\ window[v] > 0
    => job[w] # job[v]

\* At-least-once is bounded: a handler carries a job through no more often
\* than the job was claimed, and (TypeOK) that is at most MAX_ATTEMPTS times.
CommitsWithinAttempts ==
  \A j \in Jobs : commits[j] <= attempts[j]

\* A row is never "succeeded" unless some handler carried the job through,
\* whichever of the workers that ever held the job settled it.
SucceededMeansDone ==
  \A j \in Jobs : status[j] = "succeeded" => commits[j] > 0

\* While heartbeats are punctual and no metadata call fails, a worker has the
\* job to itself from claim until runOnce returns.
SoleRunner ==
  \A w, v \in Workers :
    w # v /\ pc[w] \in Busy /\ pc[v] \in Busy => job[w] # job[v]

\* Under the same conditions a succeeded job is never run again.
SucceededIsFinal ==
  [][\A j \in Jobs : status[j] = "succeeded" => status'[j] = "succeeded"]_vars

\* The leases implement exclusive, bounded grants: nobody is let in beside a live lease,
\* and one that ran out is renewed or given back only by the worker that still owns it,
\* and only for as long as a clock reading from before can be on its way.
Leases == INSTANCE LeasedJobs WITH
  holder <- leaseOwner,
  phase <- [j \in Jobs |-> IF leaseLeft[j] > 0 THEN "live"
                           ELSE IF leaseLeft[j] > Past THEN "lapsed" ELSE "over"],
  grants <- attempts,
  MaxGrants <- MaxAttempts

LeasesImplemented == Leases!Spec

\* A submitted job never rests while it has attempts left: it is claimed again until they
\* are used up, or it settles, although processes die and calls fail, as long as one
\* worker lives.
RetriedOrSettled ==
  \A j \in Jobs :
    []<>~(/\ requested[j] /\ attempts[j] < MaxAttempts
          /\ status[j] \in {"previewed", "running"})

\* With punctual heartbeats and no failures of the metadata store, a submitted
\* job ends in a final state and stays there.
Settles ==
  \A j \in Jobs : requested[j] ~> [](status[j] \in Terminal)

-----------------------------------------------------------------------------
(* What the documents say and the code does not do *)

\* A cancelled job stays cancelled (agent/question.md:178; TRANSITIONS gives
\* "cancelled" no successor).
CancelledIsFinal ==
  [][\A j \in Jobs : status[j] = "cancelled" => status'[j] = "cancelled"]_vars

\* A lost lease leaves the job to another worker (the comment of runOnce): a worker that
\* lost it, and whose job nobody cancelled, does not cancel the job for good.
LostIsRecoverable ==
  [][\A w \in Workers :
       lost[w] /\ ~aborted[w] /\ pc[w] = "marking" /\ pc'[w] # "marking"
         => (status'[job[w]] = "cancelled" => status[job[w]] = "cancelled")]_vars

\* A job that used up its attempts is marked failed (agent/question.md:204), if
\* it did not end otherwise.
ExhaustedSettles ==
  \A j \in Jobs : attempts[j] = MaxAttempts ~> status[j] \in Terminal
=============================================================================
