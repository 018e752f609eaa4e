# Verification of s12ryt-nodejs-DBweb

TLA+ models of the API server (`src/apps/api/src`), TLC runs that check them on
small instances, and TLAPS proofs of what matters most for every instance.
Paths below are relative to `src/apps/api/src` unless they start with `src/`.
`PROJECT.json` maps every definition to the lines it models.

    tlc -workers 2 -config TransferQueue_faults.cfg MCTransferQueue.tla
    tlapm TransferQueue_proof.tla

## 1. The system

One Node process (or several, `src/compose.ha.yaml` starts three) serves a web
interface for MySQL and PostgreSQL databases. All processes share one metadata
database (SQLite for a single process, PostgreSQL for several), perhaps a Redis
and an object store. Nothing else is shared, so whatever one process
must know of another is a row, a key or an object that both read at different
times. A handler of a request is an `async` function: between two `await`s it
runs alone in its process, at each `await` everything else can happen.

| Part | State | Operations | Interacts through |
|---|---|---|---|
| Transfer queue and workers (`transfers/transfer-job*.ts`, `transfer-worker-lease.ts`, `metadata/kysely-transfer-*`) | rows of `transfer_jobs`; each worker's place in `runOnce`, its timer | create, preview, request, cancel; claim, heartbeat, complete, fail; the handler's steps | rows; abort signals; the Redis wake-up |
| Operation gate (`ha/database-operation-gate.ts`) | rows of `database_operation_leases`; timers and polls of each operation | enter, heartbeat, run, release | rows; every service that opens a target database |
| Web users and sessions (`auth/`) | rows of users and sessions; copies in Redis | login, authenticate, logout, change and delete a user | rows, Redis, every request |
| Transfer files (`transfers/transfer-upload-service.ts`, `encrypted-chunk-store.ts`, `transfer-output-writer.ts`, `transfer-download-service.ts`) | chunks of source, staging area and package; progress columns | put, complete, write, stream, delete | stores and rows without a common transaction |
| Transfer cleanup (`transfers/transfer-cleanup-service.ts`) | none of its own | hourly: delete expired files, then expired rows | the same |
| Native accounts (`accounts/native-account-*.ts`) | managed rows, accounts of the target | create, rotate, enable, delete, verify | target and row without a common transaction |
| Audited changes: data mutations, DDL, native grants (`data/`, `ddl/`, `accounts/native-grant-*`) | transaction of a request; audit rows | plan, check, execute, audit | target, gate, audit |
| SQL queries (`query/`) | map of running queries | execute, stream, cancel, time out | gate, audit |
| SSH tunnels (`ssh/ssh-tunnel-pool.ts`) | pool of transports, slots, waiters, timers | acquire, forward, release, evict, close | every connector |
| Instance roles (`ha/instance-role-service.ts`) | role lease rows, the role a process believes in | acquire, heartbeat, lose; start and stop the worker | rows; the schedulers |
| Keep-alive probes (`keepalive/`) | due times, the set of running probes, the tick under way | start, tick, probe, record, stop | profiles, connectors, events |
| Redis circuit (`ha/redis-fallback-circuit.ts`) | counters, cooldown, the probe | run, fall back, probe | every Redis call of the process |
| Previews of transfers (`transfers/transfer-preview-*`, coordinators, `transfer-execution-queue.ts`) | sealed plan row, token | preview, request, claim, revalidate | job row, metadata of the target, rights |
| Transfer handlers (exact JSON and CSV, friendly CSV, SQL dump and restore services with their gateways) | target transaction, progress, staging area | export, import, restore; cancel; discard | queue, files, gate, target, audit |
| SQL dump and restore plans (`transfers/*-sql-dump-snapshot.ts`, `sql-restore-plan.ts`) | manifest, plan | list objects and dependencies, order, drop, create, load | catalogues of two databases |
| Explorer and pages, web access (`database/database-explorer.ts`, `keyset-pagination.ts`, `access/`) | cursors held by the user; rows of rights | browse, assign, revoke | target, rights |
| Connection profiles | rows, never changed | create, list, resolve | keep-alive, every connector |
| Security, audit, migrations, HTTP, web interface, tools | rows, none | single statements, reads, formatting | |

The complete list with the state of each part is `components` in
`PROJECT.json`.

### What is hard

- **Leases and clocks.** A lease is a row with an expiry. Its holder goes on
  working while the row expires, is taken over or is cancelled, and every write
  after an `await` may come too late. (Queue, gate, roles.)
- **Rows read, then written whole.** `mutateOwned`, the account verification and
  `deleteUser` decide on a row they read before. (Queue, sessions, accounts.)
- **Two stores, no common transaction.** Metadata and files, metadata and target
  database, metadata and Redis; any step may fail, or take effect and lose its
  answer. (Files, sessions, gate, accounts, audit, restore.)
- **Crashes.** A process dies between any two steps and nobody tells the others;
  a job must be taken up again, and its effect may happen twice.
- **Something must happen.** A submitted job must settle, a request at the gate
  must be answered, the files of a settled job must go.

`hazards` in `PROJECT.json` lists each at its line, with the properties that
would catch it going wrong, and what those leave out.

### What makes each part correct

- Queue: one live lease per job, with boundedly many grants; with punctual heartbeats one
  runner per job and final success; an attempt is retried or settled, a submitted job settles.
- Gate: a limit on running operations if timers and calls are quick enough; no lease
  left behind; every request answered; an effect reported as failed only to somebody
  who gave up.
- Sessions: no session outlives a change of its user, its idle time or its own
  end because of a cached copy; an enabled administrator remains.
- Files: a package is whole while it may be downloaded and stays as long as it is promised;
  files go before the row that knows of them.
- Accounts: row and target agree, or the row says that they may not, and a password
  that stays wrong is noticed.
- Audited changes: what is answered or recorded as done is in effect, what is
  answered as failed is not, beyond what the answer counts.
- Rules of changes: nothing is dropped, no SQL of the user's runs and no rows are at stake
  unconfirmed, however the options are combined and whatever the server can do, with the two
  exceptions that section 5 names.
- Handlers: a job that says "succeeded" is complete; what stopped left what it reports.
- Dumps: each statement of a restore finds what it needs; rows are loaded before
  anything that they could violate or fire.
- Previews: what runs is what the user confirmed; a plan is refused only if
  something has changed.
- Queries: an identifier names one query; one record says what the user was told.
- Tunnels: slots are neither lost nor counted twice, waiters are answered, nothing is
  open after close. Known hosts: one key is trusted until a reset.
- Roles: never more active processes than allowed while leases are in time, and a free
  place is taken in time.
- Keep-alive: one probe of a connection at a time, never before its interval.
- Pages: reading page by page sees every row that was there all the time, once, in order.
- Circuit: once Redis is up again, it is used again.

## 2. The modules

| Module | Contents | Lines it models |
|---|---|---|
| `LeasedJobs` | abstract: jobs with at most one holder and boundedly many grants; a lease that ran out may be renewed or given back by its holder for some time | the contract of `TransferWorkerLeaseRepository` |
| `TransferQueue` | the queue, users and workers | `transfer-job*.ts`, `transfer-worker-lease.ts`, `kysely-transfer-worker-lease-repository.ts`, the common order of the handlers |
| `TransferQueue_proof` | theorems | |
| `OperationGate`, `OperationGate_proof` | the gate; theorems | `database-operation-gate.ts`, its adapters and repository |
| `Sessions` | users, sessions, the Redis copies | `auth/`, `kysely-auth-repository.ts`, `redis-session-cache.ts` |
| `TransferFiles`, `TransferFiles_proof` | uploads, packages, downloads, cleanup; theorems | upload, download, store, writer, cleanup services |
| `NativeAccounts` | managed accounts, their rows, the verification | `accounts/native-account-*.ts`, the gateways and the repository |
| `SshTunnels` | one key of the SSH pool | `ssh-tunnel-pool.ts`, `ssh2-transport-factory.ts` |
| `SshKnownHosts` | trust on first use | `ssh-known-host-service.ts` and its repository |
| `SqlQueries` | the running queries of a process and their audit | `sql-query-service.ts`, the SQL gateways, `query-audit.ts`, the query routes |
| `InstanceRoles` | active and standby processes | `instance-role-service.ts` and its repository, the scheduler of `transfer-job-worker.ts` |
| `AuditedChanges`, `AuditedChanges_proof` | changes of rows, structure and grants with their audit; theorems | `data-mutation-service.ts`, `ddl-service.ts`, `native-grant-service.ts`, their gateways and repositories |
| `ChangeRules` | what those accept, check by check | `ddl-command.ts`, `ddl-sql-builder.ts`, `ddl-capabilities.ts`, `native-grant-plan.ts`, `row-write-policy.ts`, the checks of the services |
| `TransferHandlers`, `TransferHandlers_proof` | the attempts at one job, piece by piece; theorems | the export, import and restore services, the data gateways, the package writers |
| `SqlDumps` | what a dump lists, the plan of a restore, its statements | the two `*-sql-dump-snapshot.ts`, `sql-dump-*.ts`, `sql-restore-*.ts` |
| `Previews` | previews, tokens, the request to execute, the revalidation | `transfer-preview-*.ts`, the coordinators, `transfer-column-mapping.ts`, `transfer-filter.ts`, `transfer-execution-queue.ts`, `transfer-queued-job-executor.ts`, `csv-transfer-handler.ts` |
| `KeepAlive` | the probes of one process | `sql-keepalive-service.ts`, the profiles it reads and the events it writes |
| `TablePages` | paging through a table, and the right to | `keyset-pagination.ts`, `database-explorer.ts`, the gateways' pages, `web-access-service.ts` |
| `RedisCircuit` | when a process uses Redis | `redis-fallback-circuit.ts` |
| `MCTransferQueue`, `MCOperationGate`, `MCSessions`, `MCTransferFiles` | definitions of an instance for TLC | |
| `MCServices` | one instance each of `Sessions`, `TransferFiles`, `NativeAccounts`, the two SSH modules, `SqlQueries`, `InstanceRoles`, `KeepAlive`, `RedisCircuit` | |
| `MCOperations` | one instance each of what is done to the target databases: `OperationGate`, `AuditedChanges`, `ChangeRules`, `TransferHandlers`, `SqlDumps`, `Previews`, `TablePages` | |
| `Accounts_proof` | theorems on `NativeAccounts` and `Sessions` | |
| `Services_proof` | theorems on the two SSH modules, `SqlQueries`, `InstanceRoles`, `KeepAlive`, `RedisCircuit`, and on `MCServices` | |
| `Operations_proof` | theorems on `SqlDumps`, `Previews`, `ChangeRules`, `TablePages`, and on `MCOperations` | |

The work on one transfer is cut at the steps that others can see. `TransferQueue` has
the rows, leases and attempts of all jobs and takes the data path of an attempt as a few
steps; `TransferHandlers` takes from it that a job has one runner at a time (`SoleRunner`) and
follows each attempt piece by piece; `Previews` has what comes before the job is claimed and
the way from the claim to the start; `SqlDumps` has what the pieces of a dump and of a restore
are. `TransferFiles` keeps only the order of an attempt; `TransferQueue` keeps of
the files only whether the package is there (`output`). `Sessions` and
`OperationGate` share nothing with them but the metadata store. Accounts, changes, queries, pages and
tunnels use the gate and the pool as any caller does; what that adds to them is that a
call may throw or a permit be lost, which they allow everywhere. `RedisCircuit` decides
whether a Redis call is made; `Sessions` allows every such decision. In `MCServices` the
variable `service`, in `MCOperations` the variable `part` picks one module in
the initial state and the others stand still, because the modules share no variable.

### TransferQueue

A row is the functions `status`, `requested`, `leaseOwner`, `leaseLeft`,
`attempts`, `retryLeft` at its job. A worker `w` is one API process: `pc[w]` is
its place in `runOnce` and, between "starting" and "marking", in the handler it
called; `lost[w]` is `leaseLost`, `aborted[w]` the handler's own controller, and
`Signal(w)`, either of the two, is what the handler sees. An action is what
happens from one `await` to the next.

- *Time* is relative: `leaseLeft` counts ticks until `lease_expires_at` and goes on below zero
  once it has passed. `runOnce` reads the clock when it calls `claim`, `heartbeat`, `complete` or
  `fail`, and the transaction uses that reading when it has `transfer_job_lock`: it is then `age`
  ticks old, at most `MaxWait`. So a call may find a lease live that ran out `age` ticks ago
  (`Owned`), and grants one that is `age` ticks shorter (`Granted`). A timestamp is followed
  no further down than `Past`, which every reading takes for passed. A tick is a good part of a lease.
- *Transactions.* `claim` and `heartbeat` select a row and write it back. On
  SQLite (`Serializable = TRUE`) that is one step. On PostgreSQL (read committed)
  `TransferJobService.update` does not take `transfer_job_lock`, so it can commit
  in between and is overwritten: `ClaimSelect`/`ClaimWrite` and
  `HeartbeatSelect`/`HeartbeatWrite`, with `pending` for the transaction that
  holds the lock. `complete`, `fail` and `createWithinLimits` write nothing that
  depends on what an update can change, so they stay one step (the clock they compare by is
  as old as that of the others). The
  compare-and-set of `update` is one step: `updated_at` grows strictly, so it
  succeeds only on the row that it read.
- *Handlers.* The export, import and restore services have one order: row to
  running (`Start`), data path (`Open`, `Commit`, `Break`), look at the signal
  (`Accept`; a restore does not), row to succeeded (`Finish`), and on an error
  discard the package, mark the row, throw (`Discard`, `Mark`). Whether it marks
  "cancelled" or "failed" is decided when the catch block is entered, by the signal at that time
  (`cancelled`, set in `Move`); what is aborted later changes nothing. `Settle` is the call of
  `complete` or `fail` after the handler, unless the lease is known to be lost.
- *Failures.* With `TransientErrors` every metadata call may throw before it takes
  effect, or after (the answer is lost). `Crash` ends a process; a restarted one
  has a new worker id, hence is another element of `Workers`.
- Left out: `resume()` (no caller outside tests), `error_count` and the
  progress columns, `updated_at` (its order is in the atomic `update`).

### OperationGate

`lease` holds the rows as ticks to their expiry, negative once it has passed: a
row stays until a statement deletes it. A metadata call reads the clock, then waits for
`database_operation_lock`; so a statement that is `age` ticks old treats as
unexpired what had not expired `age` ticks ago, and writes an expiry that much
shorter. `Beat` fires the timer whether or not the last heartbeat was answered,
so `beats` is a set. `Sessions` are the operations of `gateSessionFactory`,
which look at no signal and swallow an error of the release. Permits are not nested.

### Sessions

Each request is a record with its place in `authenticate`, `login` or a user
change and what it has read. All user changes are transactions under the lifecycle lock
and are one step each; the checks before them are a step of
their own. Every Redis call may be skipped, fail, half take effect (SET without
EXPIRE) or land later, which covers every decision of `RedisFallbackCircuit`.
`opened`, `overtaken` and `quiet` are history variables for the properties. A
user with a temporary password has no rights but to change it (`app.ts:595`).

### TransferFiles

`chunks[store][job]` is a function from index to content: symbolic client
contents with sizes in the source store, the number of the attempt in the
staging and output stores, so that mixing two attempts is visible. Put,
complete, the writers, the download stream and the cleanup are chains of steps;
deletion goes chunk by chunk in any order. A tick is about a day; `Prompt` says
that requests and stopping handlers end within it. The list and the reads of
`complete` are one step, because stored chunks of an open upload never change
(a chunk is linked under its name and never overwritten).

### NativeAccounts

`native` is the target (a password and whether the account may log in),
`managed` the rows. A task is one call of the service or one step of a verifier:
it reads the row (`Request`, `ListDue`), changes the target (`Act`, `Refuse`,
`ActError`), then saves the whole row it read with its own changes (`Save`,
`SaveError`). Nothing is locked in between, so tasks of one account interleave.
- Passwords are numbers in the order they are drawn. `key` is the id a password
  was encrypted for: `save` keeps the id of an existing row, so the two can
  differ, and then nothing can decrypt it (`Readable`).
- A tick of the scheduler deletes expired rows (`Sweep`), then verifies what it listed.
  Its rows share nothing, so one verifier handles one of them at a time.
- The target can lock an account: PostgreSQL, or MySQL from 5.7.6 on. The
  permission to ask, protected system accounts and audit records are left out.
- `disturbed` is a history variable: accounts on which a call failed, somebody
  else interfered, or two operations overlapped.

### SshTunnels and SshKnownHosts

`transport`, `active`, `waiters`, `idle` are the fields of a `PoolEntry`;
`caller[c].pc` is the place in `open`: "asking" before `getOrCreateEntry`,
"joining" while it awaits the entry, "waiting" in the queue, "forwarding" while
it awaits its channel. One callback is one step. A timer that is set may fire at any time.
Entries of different keys meet only in `close`, which treats them alike, so one
key is enough. `awaited` holds the connects `close` waits for.

A handshake presents a key, `ClaimInsert` is the insert that does nothing on a
conflict, `ClaimFind` the select after it. `epoch` is a history variable: what
has been trusted since the last reset.

### SqlQueries

`query[q].pc` is the place in `execute` or `stream`: "resolving" before the map
is written, "entered" while the gateway behind the gate works, "sending" at a
`yield`, "releasing" while the permit is given back (the signal is not looked at any more),
then the audit. A stream that its reader leaves continues in `finally`.
`running` is the map, `latest` remembers who entered it last, `unsure` whose
record threw. What a query does to the target and the limits on rows are left out: an
abort is seen at the next row or at the end, which both gateways and the gate agree in.

### InstanceRoles

`roleRow` is the lease table, `believed[p]` the field `role` of the coordinator;
the transfer worker runs while it is "active". As in the gate, a heartbeat carries
the clock reading of its start, `reading[p]` ticks old when the statement takes effect
under `ha_instance_lock`. Timers fire at their tick and calls return within
`RoleLag`: `RolesTick` waits for them. A worker may take any time to stop
("demoting"); the timer is skipped meanwhile. `stop` deletes the row, then stops the
worker. `revived` and `waited` are history variables: a place that was kept too long, and how long a
standby process has been there with a place free (`Waits`).

### AuditedChanges

A row, an object and a privilege are all a cell with a content; a statement needs a
content and puts one. `change[c].pc` is the place in `mutate` or `execute`: "reading"
(profile, metadata of the target), "running" behind the gate, "returning" while the permit is
given back, "recording" and "failing" for the two kinds of audit record. `draft` is what an
open transaction has written (`NoDraft` when there is none), `Untouched` marks cells it has
not. Two transactions that write the same cell wait or, in a deadlock, one is undone.
- Mutations run in a transaction, DDL and grants in one on PostgreSQL (`CREATE DATABASE`
  never); grants on MySQL run and are recorded statement by statement (`Stepwise`), and the gate
  may be busy for a later one (`TurnedAway`): the earlier ones stay in effect, and no failure is recorded.
- Every call may throw before or after its effect. `clouded` is a history variable: requests some call
  of which lied, or whose permit or record was lost after the effect. For them the
  code does answer "failed" of a change in effect.
- `written` and `done` are history: which statements are in the draft, and in effect for good.

### ChangeRules

A command is its kind, what it is about (`of`) and the options and faults it has. `Needs` lists the
checks of each kind in the order of the code; the answer is the first that is not met. The
capabilities come from engine and version; `Outcome` is the code of that check, or acceptance. Text of statements, names and quoting are left
out: the checks on fragments are one fault ("bad-sql"). `Guarded` is stated over commands,
not over checks, so a kind or option whose path forgets the confirmation breaks it. It says what takes
something away (`Drops`), carries SQL of the user's (`CarriesSql`) or touches the rows (`TouchesRows`),
and leaves out the two forms that the builder does not ask to be confirmed (`Unasked`).

### TransferHandlers

One job; a piece is a row or, of a restore, a statement (`Entry` are the pieces that are
rows of one data entry, which is counted only when it is through). `run` is the attempt, `effect[p]` how
often piece `p` was written to the target, `staging` and `package` the version of the source
at which each piece in a store was read, `trail` the audit of the attempt.
- What is one transaction differs: the whole of an atomic import and of a restore on
  PostgreSQL, a batch of a batch import, a statement of a restore on MySQL, and nothing of an
  export, which reads one snapshot.
- An attempt that throws goes through discard, mark and tell; each may fail in turn. A
  process may die at any step; the claim of the next attempt puts the row back to "previewed".
- A cancel in the process of the worker sets the signal, from elsewhere it changes only the row;
  a restore's never sets the signal, but a lost lease does.
- `murky`, `lied`, `litter` mark the cases in which the code does report something else
  than what happened (a commit or an update that took effect and threw; a deletion that failed).

### SqlDumps

An object has what its definition really uses (`needs`) and the traits that the mapping
code looks at; the dump records `Deps`. `Listed` follows the `describe*` queries of both
engines, `Expressible` what the commands can say (else there is no dump), `ManifestOK`
the validation. `Script` is the plan of a restore: drops in reverse order of the dependencies, creations
in order, then rows, then constraints, indexes and triggers. What is skipped, and the order, are
computed in rounds as the code's loops do (`determineSkipped` adds until a round adds nothing, `SkipRounds`;
`topologicalOrder` takes in each round what waits for nothing, `PendingRounds`, and refuses a cycle,
`Cyclic`); the `wave` of a step is the round its object was taken in, and `Ahead` says which of
two steps comes first. The statements run
against a database that has some of the objects; `Droppable` and `Creatable`
are what the servers allow (external). A statement that fails ends the run, so what
the properties say of `Upcoming` is about statements that are reached.

### Previews

One job with one target table whose description may change (`table`), and an actor
whose rights may (`allowed`). `ask[c]` is one call of `preview`: authorise, inspect, save the plan,
mark the job; several may be under way, and each writes the same row. `confirm` is
the plan that the user saw when he asked for the execution, `attempt` the
way from the claim over the issued token, the plan read and the new description to the
start. Hashes are what is hashed, a token is what it signs and its expiry. `rewritten` is a
history variable: a preview wrote the row after the user had confirmed what he saw.

### KeepAlive, TablePages and RedisCircuit

`KeepAlive`: `round` is `currentTick` with the age of its `now`, `dueIn` the map `dueAt`,
`probing` the set `running`, `probe` the probes under way, also those whose tick
has ended because another record threw. `probedAgo` is history.

`TablePages`: a row is a function from columns to values and a key a list of columns;
`Grain` is what a cursor keeps of a column (everything, milliseconds, nothing). `KeysetPage` is
a page as the predicate of the cursor cuts it out; rows, indexes and rights change between
pages, and also within a request, between the query that finds the key and the one that reads the rows.
`walk` is history: the pages read one after another from an end of the table, as long as each
was read by a key that the table still had when its rows were read.

`RedisCircuit`: each call of `run` is "accelerated", "probing" or "fallback"; calls that began
before the circuit changed its mind end after it. `up` is whether Redis answers.

## 3. Runs

Checked with `-workers 2`; the longest (`services`, `operations`) take two to three minutes.

| Run | Instance | Question |
|---|---|---|
| `queue_faults` | one import, two workers, 2 attempts, one crash, late heartbeats, clock readings one tick old, throwing calls, PostgreSQL transactions | what holds whatever fails: `MutualExclusion`, the refinement `LeasesImplemented`, and `RetriedOrSettled` under fairness |
| `queue_kept` | export and SQL restore, two workers, one crash, punctual, no throwing calls, SQLite | what a user relies on: `SoleRunner`, `SucceededIsFinal` |
| `queue_settle` | two jobs, one worker, no failures, PostgreSQL | `Settles` |
| `queue_cancelled` | violation, transactions of one step | a job that is cancelled while a worker has it is put back by that worker's `fail` |
| `queue_abort` | violation | a handler that stops after a heartbeat threw cancels its job |
| `queue_exhausted` | violation | a crash in the last attempt leaves the row previewed or running |
| `gate_faults` | two operations of two processes on one connection, lag 1, everything fails | `Answered` |
| `operations` | gate: three operations on two connections, lease 4 > beat 1 + 2 lag, one crash; changes: two requests with one of seven plans on two cells with contents 0 to 2, two mishaps; rules: seven servers around the versions at which something changes, commands with each combination of their options; handlers: eleven tasks that cover every kind, engine and transaction, 4 pieces, batches of 3, two attempts, two troubles, one edit of the source; dumps: a database of each engine, four scopes, two target versions; previews: six transfers with up to two descriptions of the table, two previewers, lifetime 1, one shift; pages: four rows, five lists of indexes, pages of 2, two changes | the safety of the work on the target databases: `RunningWithinLimits`, `EffectReported`, `NothingLeaked`; `SuccessIsDone`, `FailureIsUndone`; `Guarded`; `SucceededComplete`, `StoppedReported`; `StatementsGrounded`, `LoadsUndisturbed`; `ExecutedAsConfirmed`, `RefusedOnlyIfChanged`; `WalkComplete`; the types of all (`OperationsTypeOK`) |
| `services` | files: one job, two requests, contents of size 2 and 1, two chunks, two attempts, one cleaner; sessions: two users, one session id, two requests, three changes, one late Redis write; accounts: one account, an operator and a verifier, three requests, one fault; tunnels: three callers, four transports, one channel; hosts: three handshakes, two keys; queries: two under one identifier, two faults; roles: two processes, limit 1, leases of 4 ticks, beats of 2, lag 1, one throwing call, two ends; keep-alive: two profiles, interval 3, a listing of up to 1 tick, two probes of a profile under way, two throwing calls; circuit: three calls, 2 failures open it, 2 probes close it | the safety of each: `OutputKept`, `WholeDownloads`; `SessionsCurrent`, `SessionsEnd`, `LastAdminKept`; `RowDescribesTarget`; `SlotsMatchChannels`, `NothingOpenAfterClose`; `OneKeyTrusted`; `RecordedAsTold`, `LatestReachable`; `ActiveWithinLimit`, `PromotedInTime`; `ProbesApart`; the types of all (`ServicesTypeOK`) |
| `services_live` | files with one request, the same accounts, two callers on three transports, the circuit with two calls | what must happen: `FinishedCleaned`, `DriftNoticed`, `TunnelAnswered`, `CircuitRecovers` |
| `sessions_lastadmin` | violation | the last administrator is deleted |
| `files_orphans` | violation | a row goes and its chunks stay |

*Bounds.* `MaxCrashes`, `MaxAttempts`, `MaxChanges`, `MaxLate`, `MaxRuns`,
`MaxChunks`, `MaxLag`, `MaxMishaps`, `MaxTries`, `MaxTroubles`, `MaxEdits`, `MaxShifts`, `MaxTime`,
`MaxThrows`, `MaxRecording` and `MaxChurn` bound the counters; all ages and expiries are bounded by
the lease, timeout or retention they are compared with. Every guard of the queue
speaks of one job except the limits of `Create` and the order of `First`, and a lease is
disputed by two workers, so two of each show each interleaving of two; two
attempts are the first, one that is not the last and the last. The lease is two ticks (one missed
heartbeat survives, the second does not) and `MaxWait` one, so that a call may find a lease live that
ran out and grant one that is short. It is four for the gate in `operations`, the
least that satisfies its assumption with a lag of 1. One session id and two requests
give every race on a session; three changes are promote, demote and delete,
which the last-administrator race needs. Two chunks are the least for a package
with a hole and a file whose last chunk is shorter. One account is enough,
because no operation reads another's row; three requests are create, change, and one that
races or follows. Three callers on one channel are a holder, a waiter who inherits and
a waiter who stays; a transport more than callers, so that a new one is
always to be had (`TunnelsAssumption`). Three handshakes are two that race and one after a
reset. Two queries under one identifier are an earlier and a later one. Leases of
four ticks with beats of two: one heartbeat that throws loses the place. Two processes
for one place are a holder and a standby. Two requests for changes are two that
meet on a cell, in both orders of two cells (the deadlock). Four pieces in batches of three are a full
batch and one that is not, an entry of two rows one that can be cut; two troubles are a
call that fails and the failure of what is done about it; two attempts are one that leaves something
and one that finds it. The two databases have an object of each kind whose order or
visibility the code treats apart, the target any part of them that can stand. Two previews are the one whose user
confirms and one that writes over it, before the confirmation or after; a lifetime of one is in time or expired. Four rows in pages of
two are a first, a middle and a last page after a row came or went. Two probes of
a profile are one in the target and one being recorded; three calls of the circuit are
a probe, one that began before it opened, and one that falls back. Symmetry is used in `services` (of
requests) and `operations` (of previewers) and nowhere a liveness property is checked.

CHECK_DEADLOCK is FALSE everywhere: the models bound crashes and attempts, and
a system whose jobs are settled and whose requests are over may rest.

*Fairness.*
- Queue: `SF(Step(w))`: a live process polls for ever and goes on after every
  `await`; it may have to wait for the row of `transfer_job_lock`, which other transactions
  hold again and again. PostgreSQL grants a row lock in turn,
  hence strong fairness. `WF(Beat(w))`: the interval timer fires. `WF(Tick)`.
  Nothing is assumed of users, crashes, or of which way a step goes: a
  handler may fail every time.
- Gate: `WF` on the steps of entering and releasing, the landing of heartbeats,
  the timer, and time. An operation that holds a permit may run for ever.
- Files: `WF` on requests, handlers, the download and the cleaner (its timer
  fires hourly); `SF(Tick)`, because `Tick` waits for requests to end and new
  ones arrive; `SF(RemoveChunk)`: no store refuses a deletion for ever.
- Accounts: `WF` on the steps of a task (promises resume) and on `Sweep` (the
  scheduler's interval); `SF(ListDue)`: an account that is live again and again becomes
  due, `verify_at` being a date that passes. Nothing is assumed of how a call ends.
- Tunnels: `WF` on a caller's next step, on the end of a connect and on the idle
  timer. Nobody has to close a channel: a waiter is answered by its timer.
- Circuit: `WF` on the end of calls (the timeout ends those Redis does not) and on time. That
  Redis is up for good and that calls keep coming is the premise of the property.
- In `services_live` these are stated for the behaviours of their service.

Properties under `TransferQueue` conditions: `Punctual` means that a live worker's
heartbeat lands before its lease runs out (60 s lease, 20 s interval), which needs calls that wait
less than a lease (`MaxWait < LeaseTicks`).

## 4. Proofs

TLAPS proves the following for any number of jobs, workers, operations,
processes, connections, requests and pieces, and for all values of the limits. The assumptions are
the named ones of the modules (limits and ticks positive, workers and
operations finite) and what is stated here.

*Queue* (`TransferQueue_proof`), both for one-step and for two-step transactions.
`PendingSound` says what survives between select and write: a transaction that
holds the lock keeps the lease it read, since only transactions change leases, and
`runOnce` waits for its heartbeat. With it, claim in one or two steps is one
relation `Grants(w)`, heartbeat is `Extends(w)`, and the other steps are
"quiet"; the invariants argue about those.

| Theorem | Invariant |
|---|---|
| `TypeCorrect` | `TypeOK /\ PendingSound`, inductive together: the second step of a claim counts an attempt only because `attempt_count` cannot have moved |
| `ExclusiveLeases`: `MutualExclusion` | `WindowSound`: the worker inside the lease it was granted owns the row, and the row's lease lasts no shorter than the worker's own |
| `SuccessIsEarned` (`SucceededMeansDone`, no run) | `EffectSound`: a worker past its commit has a job with an effect |
| `EffectsBounded` (`CommitsWithinAttempts`, no run) | `Budget`: effects plus workers that have not yet come to theirs are no more than the attempts (cardinalities of `Unspent(j)`) |
| `RunsAlone`: `SoleRunner`, assuming `Punctual` and no transient errors | `Solo`: who believes in his lease is inside it; who does not works on a row in a terminal status, which no claim selects; a pending claim is of a job nobody runs |
| `SuccessFinal`: `SucceededIsFinal`, assuming also `Serializable` | `FinalSound`: the only worker a succeeded job can have is the one on its way to `complete` |
| `ImplementsLeases`: `LeasesImplemented` | every step maps to a grant, to a renewal of a lapsed lease by its holder, to a lease given back, to time that passes (all leases that run out at one tick), or to a stutter; `holder` is the owner, `phase` where `leaseLeft` stands: positive, not yet `Past`, or `Past` |

*Gate* (`OperationGate_proof`).

| Theorem | Invariant |
|---|---|
| `TypeCorrect` | `TypeOK` |
| `LeasesBounded` (`LeasesWithinLimits`, no run) | itself, by counting rows before and after |
| `QueueingBounded` (`QueueBounded`, no run) | `WaitSound`: asking began within the queue time, and a call takes at most `MaxLag` |
| `NoLeak`: `NothingLeaked`, assuming no transient errors | `Rowless` |
| `RunningBounded`: `RunningWithinLimits`, assuming `Timely` | `Safe`: every running operation has a row with enough time left for the heartbeat that is due or under way |
| `OperationReported`: `EffectReported`, assuming `Timely` | the same |

`Timely` is: timers fire in time, calls do not throw, and `LeaseTicks >
BeatTicks + 2 MaxLag`. For the code's 60 s and 20 s: no call takes 20 s. One lag is the
heartbeat's own; the other is that of a `tryAcquire` in another process, whose
clock reading is that old.

*Accounts* (`Accounts_proof`), for any number of accounts, requests,
verifiers, failures and any length of the recovery window.

| Theorem | Invariant |
|---|---|
| `AccountsTyped` | `AccountsTypeOK`; a saved row is a row (`RowsTyped`), what the target makes of an account is an account (`EffectTyped`) |
| `RowsDescribeTarget`: `RowDescribesTarget` | `AccountsInv`: an undisturbed account has at most one task and that is sound: until the target has answered, the row it read is true; then the row it is going to save is |

`RowDescribesTarget` alone is not inductive: between the answer of the target
and the save, row and target differ, and what makes the next state right is what
the task holds. `EffectFits` says, kind by kind, that the effect is what the new row will
mean; `FailureFits` that a recorded failure keeps it; `Unmoved` and `Others`
that steps elsewhere do not matter.

*Sessions* (`Accounts_proof`), for any users, clients, sessions, times and number of
changes, whatever Redis does.

| Theorem | Invariant |
|---|---|
| `SessionsTyped` | `SessionsInv`; a revision is bounded because the requests that will still change a user are counted among the changes asked for (`Counted`) |
| `SessionsDoEnd`: `SessionsEnd` | `SessionsInv`: the age that a request has read, that a copy in Redis holds or a late write carries covers the time since its session last passed the expiry check (`Sound`, `CopiesSound`, `RowsSound`) |
| `SessionsAreCurrent`: `SessionsCurrent` | itself, with the shapes of `SessionsInv`: a login writes its row in a later step than it read the user, and the change that came between marks it `overtaken` |
| `LastAdminIsKept`: `LastAdminKept` | `SessionsInv`: whoever disables or demotes protects the last administrator when the transaction runs |

*Files* (`TransferFiles_proof`), for any jobs, requests, cleaners, chunks and attempts.

| Theorem | Invariant |
|---|---|
| `FilesTyped` | `FilesInv` |
| `OutputIsKept`: `OutputKept` | `FilesInv`: nobody but its run touches the output of a job (`Attempt`), and what a cleanup has on its list belongs to jobs that will not run again and whose package is out of date (`CleanersSound`) |
| `DownloadsAreWhole`: `WholeDownloads` | `FilesInv`: a download in time has read a prefix of the package, no run writes the package again, and what a cleanup leaves of it is a part of the same package (`DownloadSound`) |

`OutputKept` alone is not inductive: a list that a cleanup made before the job ran would
delete the chunks after it. That no such list exists is `CleanersSound`, and needs in turn that a row stopped under a
running handler stays fresh until the handler is over.

*SSH* (`Services_proof`).

| Theorem | Invariant |
|---|---|
| `OneKey`: `OneKeyTrusted` | `HostsInv`: with the types, a handshake past `Present` has a key |
| `ClosedStaysClosed`: `NothingOpenAfterClose` | `PoolInv`: one transport at a time, and none open once `close` was called |
| `TunnelsTyped` | `SlotsInv` and the shape of what `close` waits for (`CloseTyped`) |
| `SlotsCounted`: `SlotsMatchChannels` | `SlotsInv`: who is on which transport (`Placed`), that the queue holds each waiter once (`Served`), that a transport that is not open serves nobody and one that connects has somebody who joins (`Unserved`); a spare entry exists because there are more of them than callers |

*SQL queries* (`Services_proof`).

| Theorem | Invariant |
|---|---|
| `QueriesTyped` | `QueriesTypeOK` |
| `LastCancellable`: `LatestReachable` | `CancelInv`: who entered last under an identifier bears it |
| `OneRecordAsTold`: `RecordedAsTold` | `AuditInv`: up to its record a query has none, a stream with only its summary to send has one, and one left without a record was left by its reader or the gate |

*Roles* (`Services_proof`), for any lease, interval, lag and limit.

| Theorem | Invariant |
|---|---|
| `RolesTyped` | `RolesTypeOK` |
| `PlacesBounded`: `ActiveWithinLimit` | `LimitInv`: it is enough to bound the rows held; a heartbeat counts with its old reading, hence at least the rows held now |
| `PlacesTakenInTime`: `PromotedInTime` | `WaitInv`: the processes that are active, or whose row was renewed since a wait began, do not make up the limit (`Room`), so the next call of who waits finds a place; and the wait is short enough for the timer and for the call under way (`Paced`) |

*Keep-alive and circuit* (`Services_proof`).

| Theorem | Invariant |
|---|---|
| `KeepAliveTyped` | `KeepAliveTypeOK` |
| `ProbesStayApart`: `ProbesApart` | `ProbesInv`: at most one probe of a profile is in its target and the set `running` names it as long (`OneInTarget`); a date in `dueAt` is as far away as the interval has still to run (`DueInTime`) |
| `CircuitTyped` | `CircuitInv`: the failures counted and the calls that may still add one are no more than the threshold and the calls together, since the count goes on while the circuit is open |
| `ServicesTyped`: `ServicesTypeOK` | the invariants of the nine services side by side: a step of one leaves the variables of the others alone (`ServicesApart`) |

*Changes* (`AuditedChanges_proof`), for any number of requests, cells and statements and
any plan that `PlanOK` allows, transactional or not, whatever calls throw or lie.

| Theorem | Invariant |
|---|---|
| `ChangesTyped` | `ChangesTypeOK` |
| `SuccessTrue`: `SuccessIsDone` | `ChangesInv`, a conjunction per request: nothing is written or done before it is tried (`Untried`); what its draft and history agree on while its transaction is open (`Drafted`); in which order a stepwise request goes on (`Stepped`); what is in effect when it returns (`Effective`); that it has promised nothing before it is over (`Promising`); what it leaves when it fails (`Failing`); what the records and the answer say (`Recorded`, `Told`) |
| `FailureTrue`: `FailureIsUndone` | the same |

`SuccessIsDone` alone is not inductive: the record is written after the permit is given back, and
what makes it true is that the request got there only with all its statements committed.

*Handlers* (`TransferHandlers_proof`), for any job, number of pieces, batch size, data
entry, number of attempts and troubles.

| Theorem | Invariant |
|---|---|
| `HandlersTyped` | `HandlersTypeOK` |
| `SuccessComplete`: `SucceededComplete` | `HandlersInv`: where an attempt can be (`Placed`, `Unstarted`); that each piece it is through with is in the open transaction or in effect (`Written`), or in the store at the version of its snapshot (`Exported`); what a row that says "succeeded" goes with (`Finished`) |
| `StopsReported`: `StoppedReported` | the same, with what is left in the stores (`Emptied`) and how the counters relate to what was kept, the uncounted rows of a data entry being a set whose cardinality is followed (`Counted`) |

*Dumps* (`Operations_proof`), for any databases, scopes, targets, options and versions of servers.

| Theorem | Invariant |
|---|---|
| `DumpsTypesHold` | `DumpsTyped` |
| `StatementsAreGrounded`: `StatementsGrounded` | `DumpsInv`: what the manifest records (`ManifestSound`), that each step of the plan has the steps it needs before it (`ScriptSound`), and what the steps run so far have left in the target (`Progress`) |
| `LoadsAreUndisturbed`: `LoadsUndisturbed` | the same; what belongs to a table is in the target only with the table (`Rooted`), so the constraints of a table just made are those the plan makes |

The order of the plan is the point: `PlanIsSound` derives `ScriptSound` from the rounds of
`topologicalOrder`. A dependency has a smaller wave (`WaveFacts`), because an object that is taken
in a round waits for nothing that is still pending; a set without a cycle is empty after as
many rounds as it has objects; the steps are in a strict total order (`StepsOrdered`), and in a finite
one the number of predecessors gives each step a place of its own (`Ranks`, `ScriptFacts`). A dependency that is skipped skips
what needs it, but no kind that others depend on is unsupported, so the rounds of `determineSkipped` add nothing (`SkippedUnsupported`). Rounds
are functions on `Nat`; that they exist and what they keep is shown by taking a least number for which
it fails (`Inductively`, `RoundsExist`), as the induction theorems of the library are out of reach here.

*Previews* (`Operations_proof`), for any tables, requests, previewers, lifetime and number of changes.

| Theorem | Invariant |
|---|---|
| `PreviewsTyped` | `PreviewsInv` |
| `ExecutionsAreConfirmed`: `ExecutedAsConfirmed` | `PreviewsInv`: every plan in a row, a call or an attempt was built from an acceptable request and has its own fingerprint (`Built`); once a preview is answered the job is previewed (`OrderSound`); a token is accepted only with the fingerprint of the row, and equal fingerprints are of equal plans (`PrintFixesPlan`), so until a preview writes the row after that, the row has the confirmed plan (`ConfirmSound`), and so has what an attempt reads (`ReadSound`) |
| `RefusalsAreFounded`: `RefusedOnlyIfChanged` | the same; the request that `PlanRequest` makes of a plan is acceptable again and builds the same plan (`RebuildSame`) |

That equal fingerprints mean equal plans for the table at hand is proved form by form
(`SamePrint`): a fingerprint covers less than the plan, but what it leaves out follows from
the table and the request.

*Rules* (`Operations_proof`), for any set of servers.

| Theorem | Invariant |
|---|---|
| `RulesTyped` | `RulesInv`: a command is a form with options of its kind |

*Pages* (`Operations_proof`), for any table, indexes, page size and number of changes by others.

| Theorem | Invariant |
|---|---|
| `PagesTyped` | `PagesInv` |
| `WalksAreComplete`: `WalkComplete` | `PagesInv`: a walk has seen rows in order, its cursor is that of the last one, and every row that was there all the time was seen or lies beyond it (`ForwardSound`, `BackwardSound`) |

It rests on facts about the operators: the lexicographic order of a key is total on rows the key tells
apart (`PrecedesTotal`, `KeyDistinguishes`), a cursor orders like the row it was taken from when
its columns are exact (`CursorOrders`), and a page is an initial part of what lies beyond its
cursor (`PageFacts`, `ForwardExtends`, `BackwardExtends`).

`OperationsTyped` puts the seven modules of `MCOperations` together as `ServicesTyped` does the services.

*Only model-checked:* liveness (`RetriedOrSettled`, `Settles`, `Answered`,
`FinishedCleaned`, `DriftNoticed`, `TunnelAnswered`, `CircuitRecovers`), which is out of the
prover's reach, and `Guarded`, which TLC evaluates for every command and server of the run and which
no step makes true or false; every other property of a passing run is a theorem. The findings are counterexamples of TLC.

Proving changed the models where they could not be reasoned about or were wrong. The operators of
`SqlDumps` that were recursive are rounds on numbers, nearer to the loops of the code, and a cycle is now refused as
`topologicalOrder` refuses it. `WalkComplete` was false with four changes of others, a bound
TLC had not been given: a key found in one query may be gone when the next reads the rows; such a
walk is no longer counted, and section 5 names it. `KeepAlive` had a `CASE` with overlapping guards.

## 5. What the runs found

1. `queue_cancelled`: `complete` and `fail` look at the lease, not at the
   status (`metadata/kysely-transfer-worker-lease-repository.ts:82-121`). A cancel
   of a job that a worker of another process has claimed is undone by that worker's `fail`, and
   the job runs again; `src/agent/question.md:178` says it must not. On PostgreSQL the late
   write of a claim or heartbeat undoes it as well (take the run with `Serializable = FALSE`).
2. `queue_abort`: a heartbeat that throws aborts the handler; a handler that stops after that
   takes the abort for a cancel, and `markStopped` cancels the job, although the
   comment of `runOnce` calls a lost lease recoverable by another worker.
3. `queue_exhausted`: a process that dies in the fifth attempt leaves the row
   previewed or running and counted as active; no claim takes it and nothing fails it.
4. `sessions_lastadmin`: `deleteUser` decides before the transaction whether its target is
   protected; promote it meanwhile and demote the other administrator, and the
   last one is deleted.
5. `files_orphans`: rows go after 90 days whatever their status; the files of a
   job that is not settled, or settled too late, stay without metadata.

Seen in the models, without a run of their own:

- On PostgreSQL `SucceededIsFinal` fails. A heartbeat reads "running", `Finish`
  commits "succeeded", the heartbeat writes "running" back; if the process then
  dies the finished job runs again. Take `queue_kept` with `Serializable = FALSE`. It also
  fails there with `TransientErrors = TRUE`.
- A session in use can be ended: a cached copy whose touch was lost still has
  the user's revision, and its older `lastSeenAt` is believed
  (`auth/cached-auth-repository.ts:82`).
- A put that is late may add a chunk behind a verified upload; nothing reads it.
- The row of a deleted account is to be kept for its recovery
  (`src/agent/question.md:146`; `DeletedIsKept`). A verification that listed the row
  before the deletion saves it whole afterwards: the row is active again, with
  no window, and the next two verifications mark it stale. Take `AccountsSpec`
  with `MaxTrouble = 0`.
- Adopting or creating an identity whose row exists encrypts the password for a
  new id, `save` keeps the old one: the new password cannot be read, and the account
  can be deleted or rotated, not enabled, disabled or verified.
- A disabled account fails its verification, so it is marked stale.
- A heartbeat that waits for `ha_instance_lock` while its row expires and another process
  takes the place finds its row unexpired, by its old clock reading, and stays active;
  nothing ends that as long as both beat, although the table is to hold at most
  two active (`src/agent/deep_todos.md:106`). Take `ActiveWithinLimit` without `revived`.
- `stop` gives the place away before its own job has ended.
- Two queries under one identifier: the map is looked at before an `await` and
  written after it, and the earlier can no longer be cancelled.
- A query whose success could not be recorded is recorded as failed, and answered so. When
  the gate refuses or loses the permit, `execute` records nothing and a stream "cancelled".
- An ssh2 'error' that comes after the transport unsubscribed has no listener.
- `TransferHandlerRouter.findHandler` (`transfers/transfer-handler-router.ts:71`)
  has no handler for an import of plain CSV: such a job uses up its attempts.


*Changes and their rules.*
- When the permit is lost or the record throws after a commit, the change is in effect and answered
  as failed; if the record of a success was written and threw, there is one of each.
- Requests that are refused, whose metadata cannot be read or that the gate turns away leave no record.
- `INSERT ... DEFAULT VALUES`, which the mutation gateways share, is not MySQL's syntax.
- `CHANGE COLUMN` on MySQL before 8.0 can change a type unconfirmed (`ddl/ddl-sql-builder.ts:91`,
  against `src/agent/question.md:102`), the partition expression of a `CREATE TABLE` on PostgreSQL is
  unconfirmed SQL of the user's (`ddl/ddl-sql-builder.ts:74`, against `src/agent/question.md:98`):
  these are `Unasked`, and without it `Guarded` is violated by each. `partitionBy: hash` is
  accepted for PostgreSQL 10, which has no hash partitions.

*Handlers.*
- An attempt that is retried after its data was committed does the work again: rows without
  a key are inserted twice (`src/agent/question.md:177` wants this not to happen;
  `transfers/transfer-queued-job-executor.ts:43` retries).
- A cancel that is seen after the commit of an import reports 0 rows; a restore on PostgreSQL that fails after its commit
  reports that no step was applied; a batch import whose row is cancelled elsewhere loses its count.
- A cancel of a running restore changes only the row: `runtime.ts` wires it to
  `transferJobService.cancel`, although `src/agent/deep_todos.md:89` says it aborts.
- SQL dumps are staged under random identifiers; when the process dies nothing deletes them.
- Failed exact CSV jobs have no record of the failure and keep that of a success recorded before.

*Previews.*
- A preview still under way when the job becomes previewed writes the plan row a second time. The user
  whose preview was answered cannot use his token; if he has already asked for the execution, the worker
  runs the plan of the preview that was answered with an error, although plans are to be
  immutable (`src/agent/deep_todos.md:78`). It also writes a row for a job cancelled meanwhile.
- An import previewed with `resume`, `preserveIdentity` and a mapped generated column can never be
  executed, and a previewed job can never be previewed again, although a changed or expired
  preview is to be redone (`src/agent/question.md:185`).

*Dumps and restores.* The manifest keeps fewer dependencies than there are
(`src/agent/question.md:169`), and some statements cannot succeed:
- No dependency of a view on a view or on a function is recorded; extensions come after the tables
  that use their types.
- On PostgreSQL the dump of one table with a trigger always fails, as do an INSTEAD OF trigger on a view, a
  view on a partition, a foreign key out of scope, columns of enum and domain types, table
  functions. Exclusion constraints are left out silently; an index on an expression is
  dumped as one on a column; a domain with two checks, or two functions of one name, share an id.
- On MySQL the partitions are created in the order of their ids, though only the first by ordinal
  partitions the table; dropping a partitioned table fails at its last partition; an index
  goes before the foreign key that needs it, and a foreign key's own index is created twice.
- A target database of another name is looked up for existing objects while the statements name
  the source's; schemas and partitioned tables of PostgreSQL are never seen as existing; a dump of a whole
  PostgreSQL database lists `plpgsql`, so the mode "stop" is always refused.
- Several column types of MySQL (`tinyint`, `mediumint`, `tinyblob`, `mediumblob`, `longblob`), `time with time zone` and serial
  columns outside the primary key make the data of a dump impossible to restore.

*Keep-alive, pages, circuit.*
- After a record that throws the tick is over though other probes go on, so `stop` can return with
  probes under way; a probe that hangs holds back all probes of the process.
- Every process probes, so three processes probe three times. Old keep-alive events and audit records are
  never deleted: their `purgeExpired` has no caller (`src/agent/deep_todos.md:28`).
- A key that is a date loses its microseconds in the cursor, so a page's rows can come
  again and again; a binary key fails every page with a cursor; a cursor of a changed index is answered 500.
  A page reached after its rows were deleted is empty and has no cursor back. The web client takes
  answers in the order they arrive (`src/apps/web/src/App.tsx:1144`).
- The key of a page is found in one query and its rows are read in another. When the index is replaced in between,
  rows that the old key no longer tells apart are cut at a page's end, and a reader misses some of them.
- The key on MySQL may be a unique index on an expression, which has no column name
  (`database/mysql-database-gateway.ts:84`): every page of such a table fails. On PostgreSQL an index
  that was left invalid may be taken for the key. `PageKey` has neither.
- A late success sets the count of failures to 0 while the circuit is open, which the status shows.
- A subscription to wake-ups that fails at boot is never tried again; polling goes on.

## 6. Not modelled

- *Security:* encryption is a call of a library without state. Audit records are only appended; the modules end an operation with
  its record, and nothing in the program reads one. Their retention is one statement each and without a caller.
- *Metadata database and migrations:* migrations run in order under an advisory lock before a process
  serves; the schema is text. What the repositories do is in the module whose rows they hold.
- *HTTP:* parsing and the schemas of the routes; what handlers decide (sessions, rights,
  streams, wiring) is in the modules of their services.
- *Bytes and text:* tar, CSV and JSON lines, tagged values, quoting and the text of SQL. What matters of
  them is a trait, a piece or a fault.
- *Connecting* to databases and reading catalogues, which is I/O; a call may throw anywhere.
- *Redis wake-up:* it makes a worker look earlier, which `TransferQueue` allows at any time.
- *Web interface*, performance comparison, deployment and tests. The memory repositories are
  test doubles.

## 7. What is left

Each part with control of its own has a module. What could still be done:

1. Theorems that put two modules together: that the one runner `TransferHandlers` assumes is what
   `TransferQueue` proves (`RunsAlone`), and that `SqlDumps` restores within one attempt.
2. The liveness of a restore or import across attempts, composed from `TransferQueue` and
   `TransferHandlers`: today each takes from the other what its comment says.
3. A right or a profile withdrawn during a long operation: `Previews` and `TablePages`
   have it for previews and pages; queries and changes check once, before they start.
