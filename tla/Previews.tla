------------------------------ MODULE Previews ------------------------------
(* The previews of transfers: TransferPreviewService.preview, the coordinators *)
(* that inspect a request and validate a stored plan (friendly and exact CSV,  *)
(* exact JSON, SQL dump and restore), EncryptedTransferPreviewPlanStore with   *)
(* its tokens, TransferExecutionQueue.request and the way a claimed job takes  *)
(* to its start: TransferQueuedJobExecutor, TransferHandlerRouter and          *)
(* CsvTransferHandler.                                                         *)
(*                                                                             *)
(* One job with one target table; several requests may preview it at once.  A  *)
(* hash stands for what is hashed and a token for the fingerprint it signs and *)
(* its expiry.  Time is counted in parts of the thirty minutes a plan lasts.   *)
EXTENDS Naturals, FiniteSets

CONSTANTS
  Transfers,    \* jobs: [package, wants, schemas]: the uploaded columns, the requests
                \* their previews make, the descriptions the target table may have
  Previewers,   \* requests to preview the job
  Lifetime,     \* how long a stored plan and a token last
  MaxTime,      \* bound: the last instant
  MaxShifts,    \* bound: changes of the table and of the actor's rights
  NoPlan        \* no stored row, or no execution request

\* What a request says: its form, and the options of all forms.
RequestFields == {"form", "map", "conflict", "transaction", "identity", "resume", "confirmed",
                  "filters", "raw", "scope"}
IsRequest(w) ==
  /\ w = [f \in RequestFields |-> w[f]]
  /\ w.form \in {"friendly-csv", "exact-csv", "json-export", "csv-import", "json-import",
                 "sql-dump", "sql-restore"}
  /\ {w.identity, w.resume, w.confirmed, w.raw} \subseteq BOOLEAN
  \* the strategy of an exact export has no such options
  /\ w.form \in {"exact-csv", "json-export"} => ~w.raw /\ ~w.confirmed

\* The direction and the format of a job leave a choice of form to CSV exports alone.
ASSUME PreviewsAssumption ==
  /\ Lifetime \in Nat \ {0} /\ MaxTime \in Nat /\ MaxShifts \in Nat
  /\ \A t \in Transfers :
       /\ \A w \in t.wants : IsRequest(w)
       /\ \/ \A w \in t.wants : w.form \in {"friendly-csv", "exact-csv"}
          \/ \A v, w \in t.wants : v.form = w.form

VARIABLES
  transfer,   \* the job's direction, format and uploaded package
  job,        \* its row: status, and whether its execution was requested
  table,      \* the target table as the server describes it now
  allowed,    \* whether the actor has the rights the transfer needs
  now, edits,
  row,        \* the job's row of transfer_preview_plans
  ask,        \* each preview request
  confirm,    \* the execution request: the plan its user saw
  rewritten,  \* whether a preview wrote the row after the user had confirmed
  attempt     \* the worker's attempt to execute the job

previewVars == <<transfer, job, table, allowed, now, edits, row, ask, confirm, rewritten, attempt>>

NoTable == [columns |-> <<>>, key |-> {}]
NoAsk == [at |-> "idle"]
NoAttempt == [at |-> "idle"]

ImportForms == {"csv-import", "json-import"}
Tabular == {"friendly-csv", "exact-csv", "json-export"} \cup ImportForms   \* describe the table

-----------------------------------------------------------------------------
(* What a request becomes. *)

Columns(s) == DOMAIN s.columns

FilterFits(f, s) ==
  /\ f.column \in Columns(s)
  /\ s.columns[f.column].type # "unsupported"
  /\ f.test \in {"null", "like"} \/ f.type = s.columns[f.column].type
  /\ f.test = "like" => s.columns[f.column].type = "string" /\ f.type = "string"

\* buildTransferColumnMapping: where each column of the package goes.
Target(w, c) == IF c \in DOMAIN w.map THEN w.map[c] ELSE c

Kept(p, w) == {c \in DOMAIN p : Target(w, c) # "ignore"}
Left(p, s, w) == {t \in Columns(s) \ {Target(w, c) : c \in Kept(p, w)} : ~s.columns[t].generated}

MappingFits(p, s, w) ==
  /\ DOMAIN w.map \subseteq DOMAIN p
  /\ \A c \in Kept(p, w) :
       /\ Target(w, c) \in Columns(s)
       /\ s.columns[Target(w, c)].generated => w.identity
       /\ s.columns[Target(w, c)].type = p[c]
       /\ \A d \in Kept(p, w) \ {c} : Target(w, d) # Target(w, c)
  /\ \A t \in Left(p, s, w) : s.columns[t].default \/ s.columns[t].nullable

Mapping(p, s, w) ==
  [mapped  |-> {<<c, Target(w, c), p[c]>> : c \in Kept(p, w)},
   missing |-> {<<t, IF s.columns[t].default THEN "default" ELSE "null">> : t \in Left(p, s, w)},
   ignored |-> DOMAIN p \ Kept(p, w)]

\* buildTransferImportPlan.
ImportFits(s, w) ==
  /\ w.resume => w.transaction = "batch"
  /\ w.conflict \in {"update", "replace"} \/ w.resume => s.key # {}
  /\ w.conflict = "replace" => w.confirmed
  /\ w.identity => \E c \in s.key : s.columns[c].generated

ImportPlan(s, w) ==
  [conflict    |-> IF w.resume THEN "skip" ELSE w.conflict,
   transaction |-> w.transaction,
   key         |-> s.key,
   identity    |-> w.identity /\ ~w.resume,
   resumed     |-> w.resume]

\* Whether parseRequest and buildPlan (buildCurrent for SQL) take the request.
TableFits(s, w) == s # NoTable /\ \A f \in w.filters : FilterFits(f, s)
ExactFits(s) == \A c \in Columns(s) : s.columns[c].type # "unsupported"
RawConfirmed(w) == w.raw => w.confirmed
RestoreFits(s, w) == IF w.conflict = "stop" THEN s = NoTable ELSE w.confirmed
Acceptable(p, s, w) ==
  /\ w.form \in Tabular => TableFits(s, w)
  /\ w.form \in Tabular \ {"friendly-csv"} => ExactFits(s)
  /\ w.form = "friendly-csv" => RawConfirmed(w)
  /\ w.form \in ImportForms => MappingFits(p, s, w) /\ ImportFits(s, w)
  /\ w.form = "sql-restore" => RestoreFits(s, w)

TablePlan(s, w) ==
  [form |-> w.form, table |-> s, filters |-> w.filters, raw |-> w.raw, confirmed |-> w.confirmed]
PlanOfImport(p, s, w) ==
  [form |-> w.form, source |-> p, table |-> s,
   mapping |-> Mapping(p, s, w), conflict |-> ImportPlan(s, w)]
DumpPlan(w) == [form |-> w.form, scope |-> w.scope]
RestorePlan(s, w) ==
  [form |-> w.form, mode |-> w.conflict, confirmed |-> w.confirmed,
   drops |-> IF s = NoTable THEN {} ELSE {"table"}]
Plan(p, s, w) ==
  CASE w.form \in ImportForms -> PlanOfImport(p, s, w)
    [] w.form = "sql-dump" -> DumpPlan(w)
    [] w.form = "sql-restore" -> RestorePlan(s, w)
    [] OTHER -> TablePlan(s, w)

\* The request validate makes of a stored plan to build it again.
Overrides(plan) ==
  [c \in plan.mapping.ignored \cup {m[1] : m \in plan.mapping.mapped} |->
     IF c \in plan.mapping.ignored THEN "ignore"
     ELSE (CHOOSE m \in plan.mapping.mapped : m[1] = c)[2]]
ImportRequest(plan, w) ==
  [w EXCEPT !.map = Overrides(plan),
            !.conflict = plan.conflict.conflict, !.transaction = plan.conflict.transaction,
            !.identity = plan.conflict.identity, !.resume = plan.conflict.resumed,
            !.confirmed = (plan.conflict.conflict = "replace")]
DumpRequest(plan, w) == [w EXCEPT !.scope = plan.scope]
RestoreRequest(plan, w) == [w EXCEPT !.conflict = plan.mode, !.confirmed = plan.confirmed]
TableRequest(plan, w) ==
  [w EXCEPT !.filters = plan.filters, !.raw = plan.raw, !.confirmed = plan.confirmed]
PlanRequest(plan, wants) ==
  LET w == [wants EXCEPT !.form = plan.form]
  IN CASE plan.form \in ImportForms -> ImportRequest(plan, w)
       [] plan.form = "sql-dump" -> DumpRequest(plan, w)
       [] plan.form = "sql-restore" -> RestoreRequest(plan, w)
       [] OTHER -> TableRequest(plan, w)

\* What an import's schemaFingerprint covers.
SchemaHash(plan) == [source |-> plan.source, target |-> plan.table]

\* buildFingerprint: the source's checksum and the hashes of the mapping, the
\* strategy, the target and the schema; the rights hashed are those that allowed it.
ImportPrint(p, plan) ==
  [source |-> p, mapping |-> plan.mapping, strategy |-> plan.conflict, target |-> "table",
   schema |-> SchemaHash(plan)]
FriendlyPrint(plan) ==
  [source |-> "export", mapping |-> {}, strategy |-> <<plan.raw, plan.confirmed>>,
   target |-> plan.filters, schema |-> plan.table]
JsonPrint(plan) ==
  [source |-> "export", mapping |-> {}, strategy |-> "exact",
   target |-> plan.filters, schema |-> plan.table]
\* One hash of the whole plan in the other three places.
ExactCsvPrint(plan) == [source |-> "export", mapping |-> {}, whole |-> plan]
DumpPrint(s, plan) ==
  [source |-> "export", mapping |-> {}, strategy |-> "sql", target |-> plan.scope, schema |-> s]
RestorePrint(p, s, plan) ==
  [source |-> p, mapping |-> {}, strategy |-> <<plan.mode, plan.confirmed>>, target |-> "database",
   schema |-> [manifest |-> p, existing |-> s # NoTable]]
Fingerprint(p, s, plan) ==
  CASE plan.form \in ImportForms -> ImportPrint(p, plan)
    [] plan.form = "friendly-csv" -> FriendlyPrint(plan)
    [] plan.form = "json-export" -> JsonPrint(plan)
    [] plan.form = "exact-csv" -> ExactCsvPrint(plan)
    [] plan.form = "sql-dump" -> DumpPrint(s, plan)
    [] plan.form = "sql-restore" -> RestorePrint(p, s, plan)

-----------------------------------------------------------------------------
(* Stored plans and tokens. *)

Token(print) == [print |-> print, expires |-> now + Lifetime]

\* tokens.verify.
Verified(token, print) == now <= token.expires /\ token.print = print

\* plans.validate without a revalidation: the row is there, has not expired and is the token's.
RowStands == row # NoPlan /\ now <= row.expires
Opens(token) == RowStands /\ Verified(token, row.print)

-----------------------------------------------------------------------------
(* TransferPreviewService.preview.  A request whose process dies takes no    *)
(* further step.                                                               *)

\* jobs.get and the check of the status; what follows uses the job it read.
BeginPreview(c) ==
  /\ ask[c].at = "idle"
  /\ job.status = "queued"
  /\ \E w \in transfer.wants : ask' = [ask EXCEPT ![c] = [at |-> "asked", wants |-> w]]
  /\ UNCHANGED <<transfer, job, table, allowed, now, edits, row, confirm, rewritten, attempt>>

\* inspect: the rights, the description of the table, the plan and its fingerprint.
Inspect(c) ==
  /\ ask[c].at = "asked"
  /\ LET w == ask[c].wants
         plan == Plan(transfer.package, table, w)
     IN ask' = [ask EXCEPT ![c] =
          IF allowed /\ Acceptable(transfer.package, table, w)
          THEN [at |-> "inspected", wants |-> w, plan |-> plan, saw |-> table,
                token |-> Token(Fingerprint(transfer.package, table, plan))]
          ELSE [at |-> "refused"]]
  /\ UNCHANGED <<transfer, job, table, allowed, now, edits, row, confirm, rewritten, attempt>>

\* Faulty: the lifetime is added twice.
SavePlanTwice(c) ==
  /\ ask[c].at = "inspected"
  /\ row' = [plan |-> ask[c].plan, print |-> ask[c].token.print, saw |-> ask[c].saw,
             wants |-> ask[c].wants, expires |-> ask[c].token.expires + Lifetime]
  /\ ask' = [ask EXCEPT ![c].at = "saved"]
  /\ rewritten' = (rewritten \/ confirm # NoPlan)
  /\ UNCHANGED <<transfer, job, table, allowed, now, edits, confirm, attempt>>

\* plans.save: one row per job, whatever the job's status has become.
SavePlan(c) ==
  /\ ask[c].at = "inspected"
  /\ row' = [plan |-> ask[c].plan, print |-> ask[c].token.print, saw |-> ask[c].saw,
             wants |-> ask[c].wants, expires |-> now + Lifetime]
  /\ ask' = [ask EXCEPT ![c].at = "saved"]
  /\ rewritten' = (rewritten \/ confirm # NoPlan)
  /\ UNCHANGED <<transfer, job, table, allowed, now, edits, confirm, attempt>>

\* jobs.update to "previewed": only the first of several previews gets its token.
MarkPreviewed(c) ==
  /\ ask[c].at = "saved"
  /\ IF job.status = "queued"
     THEN /\ job' = [job EXCEPT !.status = "previewed"]
          /\ ask' = [ask EXCEPT ![c].at = "answered"]
     ELSE /\ ask' = [ask EXCEPT ![c] = [at |-> "refused"]]
          /\ UNCHANGED job
  /\ UNCHANGED <<transfer, table, allowed, now, edits, row, confirm, rewritten, attempt>>

-----------------------------------------------------------------------------
(* TransferExecutionQueue.request: the user confirms the preview it was shown. *)

\* The slip of a token that is looked at without the row.
ConfirmUnread(c) ==
  /\ ask[c].at = "answered" /\ confirm = NoPlan
  /\ job.status = "previewed" /\ ~job.requested
  /\ now <= ask[c].token.expires
  /\ confirm' = ask[c].plan
  /\ UNCHANGED <<transfer, job, table, allowed, now, edits, row, ask, rewritten, attempt>>

ConfirmPlan(c) ==
  /\ ask[c].at = "answered" /\ confirm = NoPlan
  /\ job.status = "previewed" /\ ~job.requested
  /\ Opens(ask[c].token)
  /\ confirm' = ask[c].plan
  /\ UNCHANGED <<transfer, job, table, allowed, now, edits, row, ask, rewritten, attempt>>

RequestExecution ==
  /\ confirm # NoPlan /\ job.status = "previewed" /\ ~job.requested
  /\ job' = [job EXCEPT !.requested = TRUE]
  /\ UNCHANGED <<transfer, table, allowed, now, edits, row, ask, confirm, rewritten, attempt>>

-----------------------------------------------------------------------------
(* An attempt, from the claim to the update that makes the job "running". *)

Refused(why) == [attempt EXCEPT !.at = "refused", !.why = why]

TakeUp ==
  /\ attempt.at = "idle" /\ job.status = "previewed" /\ job.requested
  /\ attempt' = [at |-> "claimed", why |-> "none", token |-> "none", form |-> "none",
                 issued |-> NoPlan, read |-> NoPlan, saw |-> NoTable]
  /\ UNCHANGED <<transfer, job, table, allowed, now, edits, row, ask, confirm, rewritten>>

\* plans.issue: a new token for the stored fingerprint, whoever stored it.
IssueToken ==
  /\ attempt.at = "claimed"
  /\ attempt' = IF row = NoPlan THEN Refused("absent")
                ELSE IF ~RowStands THEN Refused("expired")
                ELSE [attempt EXCEPT !.at = "issued", !.issued = row, !.token = Token(row.print)]
  /\ UNCHANGED <<transfer, job, table, allowed, now, edits, row, ask, confirm, rewritten>>

Misread == IF row = NoPlan THEN "absent" ELSE IF ~RowStands THEN "expired" ELSE "changed"

\* The router and CsvTransferHandler: the plan stored for a CSV export says which
\* of the two exports it is for.
Dispatch ==
  /\ attempt.at = "issued"
  /\ LET csv == attempt.issued.plan.form \in {"friendly-csv", "exact-csv"}
     IN attempt' = IF csv /\ ~Opens(attempt.token) THEN [Refused(Misread) EXCEPT !.read = row]
                   ELSE [attempt EXCEPT !.at = "dispatched",
                                        !.form = IF csv THEN row.plan.form ELSE attempt.issued.plan.form]
  /\ UNCHANGED <<transfer, job, table, allowed, now, edits, row, ask, confirm, rewritten>>

\* validate: the job and the rights, then the row against the token.
ReadPlan ==
  /\ attempt.at = "dispatched"
  /\ attempt' = IF ~allowed THEN Refused("forbidden")
                ELSE IF job.status # "previewed" THEN Refused("stopped")
                ELSE IF ~Opens(attempt.token) THEN [Refused(Misread) EXCEPT !.read = row]
                ELSE [attempt EXCEPT !.at = "read", !.read = row]
  /\ UNCHANGED <<transfer, job, table, allowed, now, edits, row, ask, confirm, rewritten>>

\* The slip of a rebuild that asks for no confirmation of a replacement.
RebuildUnconfirmed ==
  LET plan == attempt.read.plan
      w == [PlanRequest(plan, attempt.read.wants) EXCEPT !.confirmed = FALSE]
      fits == plan.form = attempt.form /\ Acceptable(transfer.package, table, w)
  IN [fits  |-> fits,
      print |-> IF fits THEN Fingerprint(transfer.package, table, Plan(transfer.package, table, w)) ELSE "none"]

\* parsePlan and buildPlan: the stored plan's request, built again for the table as it is.
Rebuild ==
  LET plan == attempt.read.plan
      w == PlanRequest(plan, attempt.read.wants)
      fits == plan.form = attempt.form /\ Acceptable(transfer.package, table, w)
  IN [fits  |-> fits,
      print |-> IF fits THEN Fingerprint(transfer.package, table, Plan(transfer.package, table, w)) ELSE "none"]

Revalidate ==
  /\ attempt.at = "read"
  /\ LET current == Rebuild
         seen == [attempt EXCEPT !.saw = table]
     IN attempt' = IF ~current.fits THEN [seen EXCEPT !.at = "refused", !.why = "invalid"]
                   ELSE IF now > attempt.token.expires THEN [seen EXCEPT !.at = "refused", !.why = "expired"]
                   ELSE IF ~Verified(attempt.token, current.print)
                   THEN [seen EXCEPT !.at = "refused", !.why = "changed"]
                   ELSE [seen EXCEPT !.at = "valid"]
  /\ UNCHANGED <<transfer, job, table, allowed, now, edits, row, ask, confirm, rewritten>>

\* jobs.update to "running": the plan that was read is what runs.
StartTransfer ==
  /\ attempt.at = "valid"
  /\ IF job.status = "previewed"
     THEN /\ job' = [job EXCEPT !.status = "running"]
          /\ attempt' = [attempt EXCEPT !.at = "running"]
     ELSE /\ attempt' = Refused("stopped")
          /\ UNCHANGED job
  /\ UNCHANGED <<transfer, table, allowed, now, edits, row, ask, confirm, rewritten>>

\* The attempt ends: the job is done, or the queue has it tried again.
EndAttempt ==
  /\ attempt.at \in {"running", "refused"}
  /\ attempt' = NoAttempt
  /\ job' \in {job} \cup {[job EXCEPT !.status = s] :
                            s \in IF job.status = "running" THEN {"previewed", "succeeded", "failed"} ELSE {}}
  /\ job'.status # "running"
  /\ UNCHANGED <<transfer, table, allowed, now, edits, row, ask, confirm, rewritten>>

-----------------------------------------------------------------------------
CancelJob ==
  /\ job.status \in {"queued", "previewed", "running"}
  /\ job' = [job EXCEPT !.status = "cancelled"]
  /\ UNCHANGED <<transfer, table, allowed, now, edits, row, ask, confirm, rewritten, attempt>>

\* TransferCleanupService: deleteExpired of the plan repository.
SweepPlans ==
  /\ row # NoPlan /\ row.expires <= now
  /\ row' = NoPlan
  /\ UNCHANGED <<transfer, job, table, allowed, now, edits, ask, confirm, rewritten, attempt>>

\* The world is watched as long as the job may still be executed.
JobOpen == job.status \in {"queued", "previewed", "running"}

AlterTable ==
  /\ JobOpen /\ edits < MaxShifts /\ edits' = edits + 1
  /\ table' \in transfer.schemas \ {table}
  /\ UNCHANGED <<transfer, job, allowed, now, row, ask, confirm, rewritten, attempt>>

ChangeRights ==
  /\ JobOpen /\ edits < MaxShifts /\ edits' = edits + 1
  /\ allowed' = ~allowed
  /\ UNCHANGED <<transfer, job, table, now, row, ask, confirm, rewritten, attempt>>

PassTime ==
  /\ JobOpen /\ now < MaxTime /\ now' = now + 1
  /\ UNCHANGED <<transfer, job, table, allowed, edits, row, ask, confirm, rewritten, attempt>>

PreviewsInit ==
  /\ transfer \in Transfers /\ table \in transfer.schemas
  /\ job = [status |-> "queued", requested |-> FALSE]
  /\ allowed = TRUE /\ now = 0 /\ edits = 0
  /\ row = NoPlan /\ ask = [c \in Previewers |-> NoAsk]
  /\ confirm = NoPlan /\ rewritten = FALSE /\ attempt = NoAttempt

PreviewsNext ==
  \/ \E c \in Previewers :
       \/ BeginPreview(c) \/ Inspect(c) \/ SavePlan(c) \/ MarkPreviewed(c)
       \/ ConfirmPlan(c)
  \/ RequestExecution
  \/ TakeUp \/ IssueToken \/ Dispatch \/ ReadPlan \/ Revalidate \/ StartTransfer \/ EndAttempt
  \/ CancelJob \/ SweepPlans \/ AlterTable \/ ChangeRights \/ PassTime

PreviewsSpec == PreviewsInit /\ [][PreviewsNext]_previewVars

-----------------------------------------------------------------------------
\* Rows, requests and attempts are in one of their stages.
PreviewsTypeOK ==
  /\ transfer \in Transfers /\ table \in transfer.schemas
  /\ job \in [status : {"queued", "previewed", "running", "succeeded", "failed", "cancelled"},
              requested : BOOLEAN]
  /\ allowed \in BOOLEAN /\ rewritten \in BOOLEAN /\ now \in 0..MaxTime /\ edits \in 0..MaxShifts
  /\ row # NoPlan => row.saw \in transfer.schemas /\ row.wants \in transfer.wants /\ row.expires \in Lifetime..(MaxTime + Lifetime)
  /\ \A c \in Previewers : ask[c].at \in {"idle", "asked", "inspected", "saved", "answered", "refused"}
  /\ attempt.at \in {"idle", "claimed", "issued", "dispatched", "read", "valid", "running", "refused"}

\* What runs is, to the last column, key and conflict rule, the plan that the
\* table described in this attempt calls for, and the plan that the user saw and
\* confirmed, although other previews of the job may write its row and the worker signs
\* whatever it finds there.  The exception: a preview that is still under way when the
\* user confirms writes the row after that, and its plan is the one that runs.
ExecutedAsConfirmed ==
  attempt.at = "running" =>
    /\ ~rewritten => attempt.read.plan = confirm
    /\ Plan(transfer.package, attempt.saw, PlanRequest(attempt.read.plan, attempt.read.wants))
         = attempt.read.plan

\* An attempt is told that its preview changed, or is invalid, only when the row
\* was written over or the table has changed since the preview, however late the
\* attempt.  The exception: a resumed import that was asked to keep generated
\* keys forgets so, and its stored mapping never passes again.
Unrepeatable(plan) ==
  /\ plan.form \in ImportForms /\ plan.conflict.resumed
  /\ \E m \in plan.mapping.mapped : plan.table.columns[m[2]].generated

RefusedOnlyIfChanged ==
  attempt.at = "refused" /\ attempt.why \in {"changed", "invalid"} =>
    \/ attempt.read # attempt.issued
    \/ attempt.saw # attempt.read.saw
    \/ Unrepeatable(attempt.read.plan)
=============================================================================
