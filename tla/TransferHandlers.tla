--------------------------- MODULE TransferHandlers ---------------------------
(***************************************************************************)
(* What a worker's attempts at one transfer job do to the target database, *)
(* the staging and output stores, the job row and the audit: the services  *)
(* for SQL dumps, exact JSON, exact CSV and friendly CSV exports, exact    *)
(* JSON and CSV imports and SQL restores, with the gateways and package    *)
(* writers below them.  TransferQueue has the queue around an attempt;     *)
(* here an attempt is followed piece by piece (a piece is a row, or a      *)
(* statement of a restore).                                                *)
(***************************************************************************)
EXTENDS Naturals, FiniteSets, Sequences

CONSTANTS
  Tasks,        \* the jobs to look at, see TaskOK
  Pieces,       \* how many pieces a job has
  BatchSize,    \* rows of a batch
  Entry,        \* the pieces of a restore that are rows of one data entry
  MaxTries,     \* attempts the worker makes
  MaxTroubles,  \* bound: calls that throw
  MaxEdits      \* bound: changes of the exported tables by others

Packaged == {"sql-dump", "json-export", "csv-export"}    \* staged, then put in a tar
Exports == Packaged \cup {"friendly-csv"}
Imports == {"json-import", "csv-import"}
TaskOK(t) ==
  /\ t.kind \in Exports \cup Imports \cup {"sql-restore"}
  /\ t.engine \in {"mysql", "postgres"}
  /\ t.transaction \in {"atomic", "batch"}
  /\ t.conflict \in {"skip", "update", "replace"}
  /\ t.keyed \in BOOLEAN
  /\ t.bad \in 0..Pieces
  \* buildTransferImportPlan: without a stable key rows can only be skipped.
  /\ t.kind \in Imports /\ ~t.keyed => t.conflict = "skip"

ASSUME HandlersAssumption ==
  /\ Pieces \in Nat \ {0} /\ BatchSize \in Nat \ {0} /\ Entry \subseteq 1..Pieces
  /\ MaxTries \in Nat /\ MaxTroubles \in Nat /\ MaxEdits \in Nat
  /\ \A t \in Tasks : TaskOK(t)

VARIABLES
  task,       \* kind of job, engine, plan of the import, and the piece that is invalid
  jobRow,     \* status and processed rows (statements of a restore) in the metadata
  run,        \* the attempt
  effect,     \* how often each piece was written to the target
  staging,    \* the version of the source each staged piece was read at
  package,    \* the same of the output store
  trail,      \* the audit records of the attempt
  source,     \* version of the exported tables
  tries, troubles

stores == <<effect, staging, package, trail>>
handlerVars == <<task, jobRow, run, effect, staging, package, trail, source, tries, troubles>>

\* An attempt: `open` is its uncommitted pieces, `applied` what it will report, `kept`
\* what it has written for good; `murky` once a call failed, or a cancel was seen, after
\* the data was through, or a commit threw; of the job, `lied`: an update to "succeeded" wrote
\* the row and threw, `litter`: a deletion failed.
Attempt ==
  [pc : {"idle", "checking", "starting", "opening", "working", "committing", "packing",
         "accepting", "recording", "finishing", "discarding", "marking", "telling", "ended"},
   next : Nat, open : SUBSET Nat, applied : Nat, kept : Nat, stop : BOOLEAN,
   verdict : {"none", "ok", "refused", "failed", "cancelled"},
   snapshot : Nat, murky : BOOLEAN, lied : BOOLEAN,
   litter : BOOLEAN]
Fresh(pc, lied, litter) ==
  [pc |-> pc, next |-> 1, open |-> {}, applied |-> 0, kept |-> 0, stop |-> FALSE,
   verdict |-> "none", snapshot |-> 0, murky |-> FALSE,
   lied |-> lied, litter |-> litter]

\* Every variable keeps its type.
HandlersTypeOK ==
  /\ task \in Tasks /\ run \in Attempt
  /\ jobRow \in [status : {"previewed", "running", "succeeded", "failed", "cancelled"},
                 rows : Nat]
  /\ effect \in [1..Pieces -> Nat]
  /\ staging \in Seq(Nat) /\ package \in Seq(Nat) /\ trail \subseteq {"success", "failed"}
  /\ source \in 0..MaxEdits /\ tries \in 0..MaxTries /\ troubles \in 0..MaxTroubles

HandlersInit ==
  /\ task \in Tasks
  /\ jobRow = [status |-> "previewed", rows |-> 0]
  /\ run = Fresh("idle", FALSE, FALSE)
  /\ effect = [p \in 1..Pieces |-> 0]
  /\ staging = <<>> /\ package = <<>> /\ trail = {}
  /\ source = 0 /\ tries = 0 /\ troubles = 0

IsExport == task.kind \in Exports
IsRestore == task.kind = "sql-restore"
\* One transaction for the whole job; for each batch; for no more than a statement.
Whole == IF IsRestore THEN task.engine = "postgres" ELSE task.transaction = "atomic"
Batched == ~IsRestore /\ task.transaction = "batch"

At(pc) == run.pc = pc
Go(pc) == run' = [run EXCEPT !.pc = pc]
\* TRANSITIONS
Moves(from, to) ==
  to \in CASE from = "previewed" -> {"running", "failed", "cancelled"}
           [] from = "running" -> {"succeeded", "failed", "cancelled"}
           [] OTHER -> {}
Trouble == troubles < MaxTroubles /\ troubles' = troubles + 1
NoTrouble == UNCHANGED troubles
World == <<task, source, tries>>

\* catch: the verdict is "cancelled" if the signal was aborted.
Throw(r) ==
  run' = [r EXCEPT !.pc = IF IsExport THEN "discarding" ELSE "marking", !.open = {},
                   !.verdict = IF r.stop THEN "cancelled" ELSE "failed"]
-----------------------------------------------------------------------------
(* Up to the data *)

BeginAttempt ==
  /\ At("idle") /\ jobRow.status = "previewed" /\ tries < MaxTries
  /\ run' = Fresh("checking", run.lied, run.litter)
  /\ tries' = tries + 1 /\ trail' = {}
  /\ UNCHANGED <<task, jobRow, effect, staging, package, source, troubles>>

\* Not authorised, a preview that no longer holds, no connection: nothing is touched.
RefuseAttempt ==
  /\ At("checking")
  /\ run' = [run EXCEPT !.pc = "ended", !.verdict = "refused"]
  /\ UNCHANGED <<World, jobRow, stores, troubles>>

\* active.set
Register ==
  /\ At("checking") /\ Go("starting")
  /\ UNCHANGED <<World, jobRow, stores, troubles>>

\* A restore first reads its package and opens its session; then the row is running.
StartRun ==
  /\ At("starting") /\ Moves(jobRow.status, "running")
  /\ jobRow' = [jobRow EXCEPT !.status = "running"]
  /\ Go("opening")
  /\ UNCHANGED <<World, stores, troubles>>

StartFails ==
  /\ At("starting")
  /\ IF Moves(jobRow.status, "running") THEN Trouble ELSE NoTrouble
  /\ Throw(run)
  /\ UNCHANGED <<World, jobRow, stores>>

\* The connection is open; an export's writer has emptied its store and its transaction
\* has its snapshot.
OpenData ==
  /\ At("opening")
  /\ run' = [run EXCEPT !.pc = "working", !.snapshot = source]
  /\ IF task.kind \in Packaged THEN staging' = <<>> /\ UNCHANGED package
     ELSE IF IsExport THEN package' = <<>> /\ UNCHANGED staging
     ELSE UNCHANGED <<staging, package>>
  /\ UNCHANGED <<World, jobRow, effect, trail, troubles>>

OpenFails ==
  /\ At("opening") /\ Trouble
  /\ Throw(run)
  /\ UNCHANGED <<World, jobRow, stores>>
-----------------------------------------------------------------------------
(* The data *)

\* What a write of a row does to what earlier attempts wrote of it: a row with a key is
\* skipped, anything else is written again.
Rewrites(p) == IsRestore \/ effect[p] = 0 \/ ~task.keyed \/ task.conflict # "skip"
Persist(pieces) ==
  effect' = [p \in 1..Pieces |-> IF p \in pieces /\ Rewrites(p) THEN effect[p] + 1
                                 ELSE effect[p]]

\* A step of a restore is counted when it is through: a statement, or a whole data entry.
Counts(p) == p \notin Entry \/ \A q \in Entry : q <= p
BatchFull(r) == Cardinality(r.open) = BatchSize \/ r.next > Pieces

\* A signal is looked at before each piece, and an invalid piece is met there.
Halted == run.stop \/ (At("working") /\ run.next = task.bad)

\* Faulty: every table is read in a transaction of its own.
ReadPieceUnpinned ==
  /\ At("working") /\ IsExport /\ run.next <= Pieces /\ ~Halted
  /\ run' = [run EXCEPT !.next = @ + 1]
  /\ IF task.kind \in Packaged
     THEN staging' = Append(staging, source) /\ UNCHANGED package
     ELSE package' = Append(package, source) /\ UNCHANGED staging
  /\ UNCHANGED <<World, jobRow, effect, trail, troubles>>

ReadPiece ==
  /\ At("working") /\ IsExport /\ run.next <= Pieces /\ ~Halted
  /\ run' = [run EXCEPT !.next = @ + 1]
  /\ IF task.kind \in Packaged
     THEN staging' = Append(staging, run.snapshot) /\ UNCHANGED package
     ELSE package' = Append(package, run.snapshot) /\ UNCHANGED staging
  /\ UNCHANGED <<World, jobRow, effect, trail, troubles>>

\* A row or statement goes to the open transaction ...
WritePiece ==
  /\ At("working") /\ ~IsExport /\ (Whole \/ Batched)
  /\ run.next <= Pieces /\ ~Halted
  /\ LET r == [run EXCEPT !.next = @ + 1, !.open = @ \cup {run.next}]
     IN run' = [r EXCEPT !.pc = IF Batched /\ BatchFull(r) THEN "committing" ELSE @]
  /\ UNCHANGED <<World, jobRow, stores, troubles>>

\* ... or, of a restore on MySQL, takes effect at once.
ApplyPiece ==
  /\ At("working") /\ IsRestore /\ ~Whole /\ run.next <= Pieces /\ ~Halted
  /\ Persist({run.next})
  /\ run' = [run EXCEPT !.next = @ + 1, !.kept = @ + 1,
                        !.applied = IF Counts(run.next) THEN @ + 1 ELSE @]
  /\ UNCHANGED <<World, jobRow, staging, package, trail, troubles>>

\* All pieces are through.
DataThrough ==
  /\ At("working") /\ run.next > Pieces
  /\ Go(CASE task.kind \in Packaged -> "packing"
          [] ~IsExport /\ Whole -> "committing"
          [] OTHER -> "accepting")
  /\ UNCHANGED <<World, jobRow, stores, troubles>>

Committed(r) ==
  [r EXCEPT !.open = {}, !.kept = @ + Cardinality(r.open),
            !.applied = IF IsRestore THEN @ ELSE @ + Cardinality(r.open)]
CommitData ==
  /\ At("committing")
  /\ Persist(run.open)
  /\ run' = [Committed(run) EXCEPT !.pc = IF run.next > Pieces THEN "accepting" ELSE "working"]
  /\ UNCHANGED <<World, jobRow, staging, package, trail, troubles>>

\* A commit that throws: it failed, or took effect all the same.
CommitFails ==
  /\ At("committing") /\ Trouble
  /\ \/ Throw(run) /\ UNCHANGED effect
     \/ Throw([run EXCEPT !.kept = @ + Cardinality(run.open), !.murky = TRUE]) /\ Persist(run.open)
  /\ UNCHANGED <<World, jobRow, staging, package, trail>>

\* Faulty: a stopped import reports the rows of the open transaction too.
DataFailsUncounted ==
  /\ run.pc \in {"working", "packing"}
  /\ IF Halted THEN NoTrouble ELSE Trouble
  /\ Throw([run EXCEPT !.applied = @ + Cardinality(run.open)])
  /\ UNCHANGED <<World, jobRow, stores>>

\* The signal is seen, a piece is invalid, or a call throws: what is not committed is rolled
\* back, and a writer deletes what it wrote, if the store lets it (`litter`).
DataFails ==
  /\ run.pc \in {"working", "packing"}
  /\ IF Halted THEN NoTrouble ELSE Trouble
  /\ Throw(run)
  /\ IF IsExport
     THEN \E partial \in {<<>>, staging} :
            staging' = <<>> /\ package' = IF At("packing") THEN partial ELSE <<>>
     ELSE UNCHANGED <<staging, package>>
  /\ UNCHANGED <<World, jobRow, effect, trail>>

\* The staged pieces are put in the tar and deleted; nothing notices if that fails.
Pack ==
  /\ At("packing") /\ ~run.stop
  /\ package' = staging
  /\ \/ Go("accepting") /\ staging' = <<>> /\ NoTrouble
     \/ run' = [run EXCEPT !.pc = "accepting", !.litter = TRUE] /\ UNCHANGED staging /\ Trouble
  /\ UNCHANGED <<World, jobRow, effect, trail>>
-----------------------------------------------------------------------------
(* Settling *)

\* if (signal.aborted) throw; a restore does not look again and keeps no audit.
Accept ==
  /\ At("accepting") /\ (run.stop => IsRestore)
  /\ Go(IF IsRestore THEN "finishing" ELSE "recording")
  /\ UNCHANGED <<World, jobRow, stores, troubles>>

\* What comes after the data throws: the error is not one of the gateway's and carries
\* no progress.
Late(r) == [r EXCEPT !.applied = IF IsRestore /\ ~Whole THEN @ ELSE 0, !.murky = TRUE]

AcceptFails ==
  /\ At("accepting")
  /\ IF run.stop /\ ~IsRestore THEN NoTrouble ELSE Trouble /\ ~IsRestore
  /\ Throw(Late(run))
  /\ UNCHANGED <<World, jobRow, stores>>

RecordSuccess ==
  /\ At("recording")
  /\ trail' = trail \cup {"success"}
  /\ Go("finishing")
  /\ UNCHANGED <<World, jobRow, effect, staging, package, troubles>>

RecordSuccessFails ==
  /\ At("recording") /\ Trouble
  /\ Throw(Late(run))
  /\ trail' \in {trail, trail \cup {"success"}}
  /\ UNCHANGED <<World, jobRow, effect, staging, package>>

Succeeded(r) == [r EXCEPT !.status = "succeeded", !.rows = @ + Pieces]
FinishRun ==
  /\ At("finishing") /\ Moves(jobRow.status, "succeeded")
  /\ jobRow' = Succeeded(jobRow)
  /\ run' = [run EXCEPT !.pc = "ended", !.verdict = "ok"]
  /\ UNCHANGED <<World, stores, troubles>>

\* The job was cancelled in another process, or the metadata store throws, before or after
\* it wrote the row.
FinishFails ==
  /\ At("finishing")
  /\ IF Moves(jobRow.status, "succeeded") THEN Trouble ELSE NoTrouble
  /\ \/ Throw(Late(run)) /\ UNCHANGED jobRow
     \/ /\ Moves(jobRow.status, "succeeded") /\ jobRow' = Succeeded(jobRow)
        /\ Throw([Late(run) EXCEPT !.lied = TRUE])
  /\ UNCHANGED <<World, stores>>

\* packages.delete; its errors are swallowed.
Discard ==
  /\ At("discarding")
  /\ \/ /\ staging' = IF task.kind \in {"json-export", "csv-export"} THEN <<>> ELSE staging
        /\ package' = <<>> /\ Go("marking") /\ NoTrouble
     \/ /\ Trouble /\ run' = [run EXCEPT !.pc = "marking", !.litter = TRUE]
        /\ UNCHANGED <<staging, package>>
  /\ UNCHANGED <<World, jobRow, effect, trail>>

\* The count a restore in a transaction reports is 0.
Reported == IF IsExport \/ (IsRestore /\ Whole) THEN 0 ELSE run.applied

\* markStopped: a transition that is refused is swallowed, another error is not.
MarkStopped ==
  /\ At("marking")
  /\ jobRow' = IF Moves(jobRow.status, run.verdict)
               THEN [status |-> run.verdict, rows |-> jobRow.rows + Reported] ELSE jobRow
  /\ Go("telling")
  /\ UNCHANGED <<World, stores, troubles>>

MarkFails ==
  /\ At("marking") /\ Trouble
  /\ Go("ended")
  /\ UNCHANGED <<World, jobRow, stores>>

\* The failure is recorded (not of exact CSV and restores), the active entry deleted.
Tell ==
  /\ At("telling")
  /\ trail' = IF task.kind \in {"csv-export", "csv-import", "sql-restore"} THEN trail
              ELSE trail \cup {"failed"}
  /\ Go("ended")
  /\ UNCHANGED <<World, jobRow, effect, staging, package, troubles>>

TellFails ==
  /\ At("telling") /\ Trouble
  /\ Go("ended")
  /\ UNCHANGED <<World, jobRow, stores>>

\* fail of the lease service: the job is tried again, or failed.
Again ==
  /\ At("ended") /\ run.verdict # "ok"
  /\ run' = Fresh("idle", run.lied, run.litter)
  /\ jobRow' = [jobRow EXCEPT !.status = IF tries < MaxTries THEN "previewed" ELSE "failed"]
  /\ UNCHANGED <<World, stores, troubles>>

\* The process dies with its connections; the claim of the next attempt resets the row.  The
\* next attempt empties the same stores, but a dump is staged under names it drew.
DieInRun ==
  /\ run.pc \notin {"idle", "ended"} /\ Trouble
  /\ run' = Fresh("idle", run.lied, run.litter \/ task.kind = "sql-dump")
  /\ jobRow' = [jobRow EXCEPT !.status = IF @ = "running" THEN "previewed" ELSE @]
  /\ UNCHANGED <<World, stores>>
-----------------------------------------------------------------------------
(* The others *)

\* A cancel in this process, except of a restore, or a lost lease: the signal.
Abort ==
  /\ run.pc \notin {"idle", "checking", "ended"} /\ ~run.stop
  /\ run' = [run EXCEPT !.stop = TRUE]
  /\ UNCHANGED <<World, jobRow, stores, troubles>>

\* A cancel in another process, or of a restore: the row alone.
CancelRow ==
  /\ Moves(jobRow.status, "cancelled")
  /\ jobRow' = [jobRow EXCEPT !.status = "cancelled"]
  /\ UNCHANGED <<World, run, stores, troubles>>

Edit ==
  /\ IsExport /\ source < MaxEdits
  /\ source' = source + 1
  /\ UNCHANGED <<task, jobRow, run, stores, tries, troubles>>

HandlersNext ==
  \/ BeginAttempt \/ RefuseAttempt \/ Register \/ StartRun \/ StartFails
  \/ OpenData \/ OpenFails
  \/ ReadPiece \/ WritePiece \/ ApplyPiece \/ DataThrough
  \/ CommitData \/ CommitFails \/ DataFails \/ Pack
  \/ Accept \/ AcceptFails \/ RecordSuccess \/ RecordSuccessFails
  \/ FinishRun \/ FinishFails \/ Discard \/ MarkStopped \/ MarkFails \/ Tell \/ TellFails
  \/ Again \/ DieInRun \/ Abort \/ CancelRow \/ Edit

HandlersSpec == HandlersInit /\ [][HandlersNext]_handlerVars
-----------------------------------------------------------------------------
(* Properties *)

\* A job that says "succeeded" is: every piece of an import is in the target, and an export
\* has all its pieces in the store, read at one moment of a source that others change, and
\* its audit record (unless the row was written and the update threw, `lied`: the handler
\* then deletes the output of a job that says "succeeded").
SucceededComplete ==
  jobRow.status = "succeeded" =>
    IF ~IsExport THEN \A p \in 1..Pieces : effect[p] > 0
    ELSE run.lied \/ /\ \E v \in 0..source : package = [p \in 1..Pieces |-> v]
                     /\ "success" \in trail

\* What an attempt that stopped leaves.  An import or a restore: what it reports, which is
\* nothing if it is atomic, and for a restore on MySQL at most the rows of an unfinished
\* data entry more.  `murky`: the error, or the cancel, came when the data was already
\* committed.  An export: neither staged pieces nor output, whatever earlier attempts left,
\* unless the store refused a deletion or a process died over a dump (`litter`).
StoppedReported ==
  run.pc = "ended" /\ run.verdict \in {"failed", "cancelled"} =>
    IF IsExport THEN run.litter \/ (staging = <<>> /\ package = <<>>)
    ELSE \/ run.murky
         \/ (Whole /\ run.kept = 0)
         \/ /\ ~Whole /\ run.applied <= run.kept
            /\ Batched => run.applied = run.kept
            /\ run.kept <= run.applied + Cardinality(Entry)
=============================================================================
