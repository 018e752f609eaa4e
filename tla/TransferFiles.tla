--------------------------- MODULE TransferFiles ---------------------------
(***************************************************************************)
(* The files of the transfer jobs: the chunks of an uploaded source, the   *)
(* staging area and the package of an export, the services that write and  *)
(* read them (upload, export, import, download) and the hourly cleanup.    *)
(*                                                                         *)
(* The chunk stores and the metadata table do not share transactions, so   *)
(* every request is a chain of steps with other requests in between.  A    *)
(* metadata update is one step (the compare-and-set loop of                *)
(* TransferJobService.update).  The stores may refuse any call; that the   *)
(* metadata table answers, and that a job has one runner at a time, is     *)
(* what TransferQueue shows for workers whose heartbeats are in time.      *)
(***************************************************************************)
EXTENDS Integers, Sequences, FiniteSetsExt

CONSTANTS
  Jobs, Requests, Cleaners,
  Contents,       \* what a chunk can hold
  Size,           \* Size[c]: bytes of content c
  ChunkSize,      \* chunkSizeBytes
  MaxChunks,      \* chunks a store takes for one job (maxBytes)
  File,           \* the sequence of contents a client declares on completion
  MaxRuns,        \* MAX_ATTEMPTS
  ShortTicks,     \* SHORT_RETENTION_MS
  FailedTicks,    \* FAILED_RETENTION_MS
  JobTicks,       \* JOB_RETENTION_MS
  None

Indexes == 0..MaxChunks - 1
Stores  == {"source", "stage", "output"}

ASSUME TransferFilesAssumption ==
  /\ ChunkSize \in Nat \ {0} /\ MaxChunks \in Nat \ {0} /\ MaxRuns \in Nat \ {0}
  /\ Size \in [Contents -> 0..ChunkSize]
  /\ File \in Seq(Contents) /\ Len(File) <= MaxChunks
  /\ ShortTicks \in Nat \ {0} /\ FailedTicks \in Nat \ {0} /\ JobTicks \in Nat \ {0}
  /\ None \notin Contents /\ None \notin 0..MaxRuns

VARIABLES
  direction,  \* direction column
  status,     \* status column; "deleted" once the row is gone
  uploaded,   \* upload_completed_at is set
  received,   \* received_bytes
  age,        \* ticks since updated_at, as far as the retentions count
  life,       \* ticks since created_at, as far as expires_at counts
  chunks,     \* chunks[s][j]: what store s holds of job j, by index
  runs,       \* attempts that reached a handler
  run,        \* where the handler of the job is
  length,     \* chunks the running writer has put
  package,    \* history: run and length of the last package written in full
  request,    \* the HTTP requests that upload
  download,   \* the download in flight
  cleaner     \* the cleanup tick of each process

rowVars  == <<direction, status, uploaded, received>>
timeVars == <<age, life>>
runVars  == <<runs, run, length, package>>
filesVars == <<rowVars, timeVars, chunks, runVars, request, download, cleaner>>

Active   == {"queued", "previewed", "running"}
Terminal == {"succeeded", "failed", "cancelled"}
Stopping == {"discarding", "settling"}
Running  == {"staging", "clearing", "writing", "unstaging", "reading", "finishing"}
MaxAge   == IF ShortTicks > FailedTicks THEN ShortTicks ELSE FailedTicks

\* A request at rest, with nothing to remember.
Resting == [pc |-> "idle", job |-> None, index |-> 0, content |-> None, bytes |-> 0]
NoDownload == [pc |-> "idle", job |-> None, left |-> {}, got |-> <<>>, inTime |-> FALSE]
NoCleanup == [pc |-> "idle", todo |-> {}, overdue |-> {}, failed |-> FALSE]

Empty == [i \in Indexes |-> None]
Held(s, j) == {i \in Indexes : chunks[s][j][i] # None}
HasFiles(j) == \E s \in Stores : Held(s, j) # {}

\* Every variable keeps its type; the stores hold client contents in "source"
\* and chunks of numbered runs elsewhere.
FilesTypeOK ==
  /\ direction \in [Jobs -> {"import", "export"}]
  /\ status \in [Jobs -> Active \union Terminal \union {"deleted"}]
  /\ uploaded \in [Jobs -> BOOLEAN] /\ received \in [Jobs -> 0..MaxChunks * ChunkSize]
  /\ age \in [Jobs -> 0..MaxAge] /\ life \in [Jobs -> 0..JobTicks]
  /\ \A j \in Jobs :
       /\ chunks["source"][j] \in [Indexes -> Contents \union {None}]
       /\ \A s \in {"stage", "output"} : chunks[s][j] \in [Indexes -> 1..MaxRuns \union {None}]
  /\ runs \in [Jobs -> 0..MaxRuns] /\ run \in [Jobs -> Running \union Stopping \union {"idle"}]
  /\ length \in [Jobs -> 0..MaxChunks] /\ package \in [Jobs -> (0..MaxRuns) \X (0..MaxChunks)]

FilesInit ==
  /\ direction \in [Jobs -> {"import", "export"}]
  /\ status = [j \in Jobs |-> "queued"]
  /\ uploaded = [j \in Jobs |-> FALSE] /\ received = [j \in Jobs |-> 0]
  /\ age = [j \in Jobs |-> 0] /\ life = [j \in Jobs |-> 0]
  /\ chunks = [s \in Stores |-> [j \in Jobs |-> Empty]]
  /\ runs = [j \in Jobs |-> 0] /\ run = [j \in Jobs |-> "idle"]
  /\ length = [j \in Jobs |-> 0] /\ package = [j \in Jobs |-> <<0, 0>>]
  /\ request = [r \in Requests |-> Resting]
  /\ download = NoDownload
  /\ cleaner = [c \in Cleaners |-> NoCleanup]

\* TransferJobService.update: the row changes and updated_at moves on.
Touched(j) == age' = [age EXCEPT ![j] = 0]

-----------------------------------------------------------------------------
(* Uploads: PUT /chunks/:index and POST /upload/complete *)

\* assertUploadOpen
UploadOpen(j) == direction[j] = "import" /\ status[j] = "queued" /\ ~uploaded[j]

Goto(r, to) == request' = [request EXCEPT ![r].pc = to]
Answer(r)   == request' = [request EXCEPT ![r] = Resting]

Bytes(j) == MapThenSumSet(LAMBDA i : Size[chunks["source"][j][i]], Held("source", j))

\* The chunks of store s follow each other from 0.
Contiguous(s, j) == Held(s, j) = 0..Cardinality(Held(s, j)) - 1

\* The chunks of store s in order, for a stream that reads them one by one.
Stream(s, j) == [n \in 1..Cardinality(Held(s, j)) |-> chunks[s][j][n - 1]]

\* put reads the row and finds the upload open.
PutBegin(r) ==
  /\ request[r].pc = "idle"
  /\ \E j \in Jobs, i \in Indexes, c \in Contents :
       /\ UploadOpen(j)
       /\ request' = [request EXCEPT ![r] =
            [pc |-> "storing", job |-> j, index |-> i, content |-> c, bytes |-> 0]]
  /\ UNCHANGED <<rowVars, timeVars, chunks, runVars, download, cleaner>>

\* A chunk is linked under its name, which fails if the name exists.
Store(j, i, c) ==
  /\ chunks["source"][j][i] \in {None, c}
  /\ chunks' = [chunks EXCEPT !["source"][j][i] = c]

\* chunks.put: the same chunk again is no error; another one is CHUNK_CONFLICT,
\* which Refused answers.
PutStore(r) ==
  /\ request[r].pc = "storing"
  /\ Store(request[r].job, request[r].index, request[r].content)
  /\ Goto(r, "listing")
  /\ UNCHANGED <<rowVars, timeVars, runVars, download, cleaner>>

\* The bytes received so far, from a list of the store.
PutList(r) ==
  /\ request[r].pc = "listing"
  /\ request' = [request EXCEPT ![r].pc = "recording", ![r].bytes = Bytes(request[r].job)]
  /\ UNCHANGED <<rowVars, timeVars, chunks, runVars, download, cleaner>>

\* The row takes them if the upload is still open and they did not shrink
\* (INVALID_JOB_PROGRESS).
PutRecord(r) ==
  LET j == request[r].job IN
  /\ request[r].pc = "recording"
  /\ UploadOpen(j) /\ request[r].bytes >= received[j]
  /\ received' = [received EXCEPT ![j] = request[r].bytes]
  /\ Touched(j)
  /\ Answer(r)
  /\ UNCHANGED <<direction, status, uploaded, life, chunks, runVars, download, cleaner>>

CompleteBegin(r) ==
  /\ request[r].pc = "idle"
  /\ \E j \in Jobs :
       UploadOpen(j) /\ request' = [request EXCEPT ![r].pc = "checking", ![r].job = j]
  /\ UNCHANGED <<rowVars, timeVars, chunks, runVars, download, cleaner>>

\* assertCompleteChunks, the size and the checksum of the whole file.  Stored
\* chunks of an open upload never change, so list and reads are one step.
Checked(j) ==
  /\ Held("source", j) # {} /\ Contiguous("source", j)
  /\ \A i \in Held("source", j) :
       i + 1 \in Held("source", j) => Size[chunks["source"][j][i]] = ChunkSize
  /\ Stream("source", j) = File

CompleteCheck(r) ==
  /\ request[r].pc = "checking"
  /\ Checked(request[r].job)
  /\ request' = [request EXCEPT ![r].pc = "completing", ![r].bytes = Bytes(request[r].job)]
  /\ UNCHANGED <<rowVars, timeVars, chunks, runVars, download, cleaner>>

CompleteRecord(r) ==
  LET j == request[r].job IN
  /\ request[r].pc = "completing"
  /\ UploadOpen(j) /\ request[r].bytes >= received[j]
  /\ uploaded' = [uploaded EXCEPT ![j] = TRUE]
  /\ received' = [received EXCEPT ![j] = request[r].bytes]
  /\ Touched(j)
  /\ Answer(r)
  /\ UNCHANGED <<direction, status, life, chunks, runVars, download, cleaner>>

\* The request ends in an error: a check fails, a store or the process does.
Refused(r) ==
  /\ request[r].pc # "idle"
  /\ Answer(r)
  /\ UNCHANGED <<rowVars, timeVars, chunks, runVars, download, cleaner>>

\* POST /preview: the import is uploaded, the inspection of it succeeds.
Preview(j) ==
  /\ status[j] = "queued"
  /\ direction[j] = "import" => uploaded[j]
  /\ status' = [status EXCEPT ![j] = "previewed"]
  /\ Touched(j)
  /\ UNCHANGED <<direction, uploaded, received, life, chunks, runVars, request, download,
                 cleaner>>

\* POST /cancel, as far as the row is concerned
Cancel(j) ==
  /\ status[j] \in Active
  /\ status' = [status EXCEPT ![j] = "cancelled"]
  /\ Touched(j)
  /\ UNCHANGED <<direction, uploaded, received, life, chunks, runVars, request, download,
                 cleaner>>

-----------------------------------------------------------------------------
(* Handlers: one attempt of a job *)

\* Faulty: an attempt too many.
ClaimableOnceMore(j) == runs[j] <= MaxRuns /\ status[j] \in {"previewed", "running"}

\* The job waits for an attempt, or the process of the last one died.
Claimable(j) == runs[j] < MaxRuns /\ status[j] \in {"previewed", "running"}

\* A worker claims the job, or takes it up after a crash, and its handler
\* moves the row to "running".
Begin(j) ==
  /\ run[j] = "idle" /\ Claimable(j)
  /\ status' = [status EXCEPT ![j] = "running"]
  /\ runs' = [runs EXCEPT ![j] = @ + 1]
  /\ run' = [run EXCEPT ![j] = IF direction[j] = "export" THEN "staging" ELSE "reading"]
  /\ Touched(j)
  /\ UNCHANGED <<direction, uploaded, received, life, chunks, length, package,
                 request, download, cleaner>>

\* The handler of job j moves on, and changes nothing but files.
Moves(j, from, to) ==
  /\ run[j] = from
  /\ run' = [run EXCEPT ![j] = to]
  /\ UNCHANGED <<rowVars, timeVars, runs, request, download, cleaner>>

\* The store a handler is deleting the job from, chunk by chunk.
Erasing(j) ==
  CASE run[j] \in {"staging", "unstaging"} -> {"stage"}
    [] run[j] = "clearing"                 -> {"output"}
    [] run[j] = "discarding"               -> {"stage", "output"}
    [] OTHER                               -> {}

\* One chunk less, in any order (a recursive rm).
Erase(j) ==
  /\ \E s \in Erasing(j) : \E i \in Held(s, j) : chunks' = [chunks EXCEPT ![s][j][i] = None]
  /\ UNCHANGED <<rowVars, timeVars, runVars, request, download, cleaner>>

\* The staging writer, after its deleteJob, and the package writer that reads
\* it back; what is staged does not matter, so one chunk stands for it.
Stage(j) ==
  /\ Moves(j, "staging", "clearing")
  /\ Held("stage", j) = {}
  /\ chunks' = [chunks EXCEPT !["stage"][j][0] = runs[j]]
  /\ UNCHANGED <<length, package>>

\* Faulty: the writer does not wait for its deleteJob.
ClearedAnyway(j) == TRUE

\* The deleteJob the output writer starts with is through.
Cleared(j) == Held("output", j) = {}

Clear(j) ==
  /\ Moves(j, "clearing", "writing")
  /\ Cleared(j)
  /\ length' = [length EXCEPT ![j] = 0]
  /\ UNCHANGED <<chunks, package>>

\* The next chunk of the package; CHUNK_CONFLICT if another one is there.
Write(j) ==
  /\ Moves(j, "writing", "writing")
  /\ length[j] < MaxChunks
  /\ chunks["output"][j][length[j]] \in {None, runs[j]}
  /\ chunks' = [chunks EXCEPT !["output"][j][length[j]] = runs[j]]
  /\ length' = [length EXCEPT ![j] = @ + 1]
  /\ UNCHANGED package

\* The package is complete, one chunk at least.
EndWrite(j) ==
  /\ Moves(j, "writing", "unstaging")
  /\ length[j] > 0
  /\ package' = [package EXCEPT ![j] = <<runs[j], length[j]>>]
  /\ UNCHANGED <<chunks, length>>

\* The staging area is deleted, or the error is swallowed.
Unstage(j) ==
  /\ Moves(j, "unstaging", "finishing")
  /\ UNCHANGED <<chunks, length, package>>

\* An import streams its source (streamStoredChunks) and commits what it read.
Import(j) ==
  /\ run[j] = "reading"
  /\ Contiguous("source", j)
  /\ run' = [run EXCEPT ![j] = "finishing"]
  /\ UNCHANGED <<rowVars, timeVars, chunks, runs, length, package, request, download, cleaner>>

\* The update to "succeeded", and leases.complete after it.
Finish(j) ==
  /\ run[j] = "finishing" /\ status[j] = "running"
  /\ status' = [status EXCEPT ![j] = "succeeded"]
  /\ run' = [run EXCEPT ![j] = "idle"]
  /\ Touched(j)
  /\ UNCHANGED <<direction, uploaded, received, life, chunks, runs, length, package,
                 request, download, cleaner>>

\* A step of the handler throws: an error, an aborted signal, a row that moved.
Break(j) ==
  /\ run[j] \in Running
  /\ run' = [run EXCEPT ![j] = IF direction[j] = "export" THEN "discarding" ELSE "settling"]
  /\ UNCHANGED <<rowVars, timeVars, chunks, runs, length, package,
                 request, download, cleaner>>

\* packages.delete is through, or its error is swallowed.
Discard(j) ==
  /\ Moves(j, "discarding", "settling")
  /\ UNCHANGED <<chunks, length, package>>

\* markStopped, and leases.fail unless the lease is given up: the job waits for
\* its next attempt, failed, or stays cancelled.
Settle(j) ==
  /\ run[j] = "settling"
  /\ run' = [run EXCEPT ![j] = "idle"]
  /\ \/ /\ status[j] # "deleted"
        /\ \E to \in {"previewed", "failed", "cancelled"} : status' = [status EXCEPT ![j] = to]
        /\ Touched(j)
     \/ status[j] \in {"deleted", "cancelled"} /\ UNCHANGED <<status, age>>
  /\ UNCHANGED <<direction, uploaded, received, life, chunks, runs, length, package,
                 request, download, cleaner>>

\* The process that runs the job dies.
Crash(j) ==
  /\ run[j] # "idle"
  /\ run' = [run EXCEPT ![j] = "idle"]
  /\ UNCHANGED <<rowVars, timeVars, chunks, runs, length, package,
                 request, download, cleaner>>

-----------------------------------------------------------------------------
(* Downloads: GET /download *)

DownloadReady(j) == direction[j] = "export" /\ status[j] = "succeeded"

\* open reads the row ...
DownloadBegin ==
  /\ download.pc = "idle"
  /\ \E j \in Jobs :
       /\ DownloadReady(j)
       /\ download' = [NoDownload EXCEPT !.pc = "listing", !.job = j,
                                         !.inTime = age[j] < ShortTicks]
  /\ UNCHANGED <<rowVars, timeVars, chunks, runVars, request, cleaner>>

\* ... and lists the package, which must be contiguous, or OUTPUT_NOT_FOUND.
DownloadList ==
  /\ download.pc = "listing"
  /\ Held("output", download.job) # {} /\ Contiguous("output", download.job)
  /\ download' = [download EXCEPT !.pc = "reading", !.left = Held("output", download.job)]
  /\ UNCHANGED <<rowVars, timeVars, chunks, runVars, request, cleaner>>

\* The stream reads the listed chunks in order.
DownloadRead ==
  /\ download.pc = "reading" /\ download.left # {}
  /\ LET i == Min(download.left)
         c == chunks["output"][download.job][i] IN
     /\ c # None
     /\ download' = [download EXCEPT !.left = @ \ {i}, !.got = Append(@, c)]
  /\ UNCHANGED <<rowVars, timeVars, chunks, runVars, request, cleaner>>

\* The stream ends, the response is complete.
DownloadEnd ==
  /\ download.pc = "reading" /\ download.left = {}
  /\ download' = [download EXCEPT !.pc = "complete"]
  /\ UNCHANGED <<rowVars, timeVars, chunks, runVars, request, cleaner>>

\* The user has it, or an error instead (a chunk is gone, a connection breaks).
DownloadClose ==
  /\ download.pc # "idle"
  /\ download' = NoDownload
  /\ UNCHANGED <<rowVars, timeVars, chunks, runVars, request, cleaner>>

-----------------------------------------------------------------------------
(* Cleanup: TransferCleanupService.tick, every hour in every process *)

\* How long the files of a settled job are kept.
Retention(st) == IF st = "failed" THEN FailedTicks ELSE ShortTicks

\* Faulty: every settled job is cleaned after the short time counted from its
\* creation.
ArtifactExpiredByLife(j) == status[j] \in Terminal /\ life[j] >= Retention(status[j])

\* isArtifactExpired
ArtifactExpired(j) == status[j] \in Terminal /\ age[j] >= Retention(status[j])

\* The cleaners the runtime wires up.
Cleaned == Stores

\* listAll, and the clock reading of the whole tick.
Scan(c) ==
  LET expired == {j \in Jobs : ArtifactExpired(j)}
      overdue == {j \in Jobs : status[j] # "deleted" /\ life[j] >= JobTicks}
  IN
  /\ cleaner[c].pc = "idle"
  /\ expired \union overdue # {}
  /\ cleaner' = [cleaner EXCEPT ![c] =
       [pc |-> "cleaning", todo |-> expired \X Cleaned,
        overdue |-> overdue, failed |-> FALSE]]
  /\ UNCHANGED <<rowVars, timeVars, chunks, runVars, request, download>>

\* deleteJob of one store: one chunk less, in any order ...
RemoveChunk(c, j, s) ==
  /\ <<j, s>> \in cleaner[c].todo
  /\ \E i \in Held(s, j) : chunks' = [chunks EXCEPT ![s][j][i] = None]
  /\ UNCHANGED <<rowVars, timeVars, runVars, request, download, cleaner>>

\* ... until nothing is left ...
Removed(c, j, s) ==
  /\ <<j, s>> \in cleaner[c].todo
  /\ Held(s, j) = {}
  /\ cleaner' = [cleaner EXCEPT ![c].todo = @ \ {<<j, s>>}]
  /\ UNCHANGED <<rowVars, timeVars, chunks, runVars, request, download>>

\* ... or it throws, which allSettled collects.
RemoveFails(c, j, s) ==
  /\ <<j, s>> \in cleaner[c].todo
  /\ cleaner' = [cleaner EXCEPT ![c].todo = @ \ {<<j, s>>}, ![c].failed = TRUE]
  /\ UNCHANGED <<rowVars, timeVars, chunks, runVars, request, download>>

\* Faulty: the rows go although files are left.
PurgedAnyway(c) == cleaner[c].overdue

\* deleteExpired, if every deletion succeeded: it looks at expires_at alone.
Purged(c) == IF cleaner[c].failed THEN {} ELSE cleaner[c].overdue

Purge(c) ==
  LET gone == {j \in Purged(c) : status[j] # "deleted"} IN
  /\ cleaner[c].pc = "cleaning" /\ cleaner[c].todo = {}
  /\ status' = [j \in Jobs |-> IF j \in gone THEN "deleted" ELSE status[j]]
  /\ cleaner' = [cleaner EXCEPT ![c] = NoCleanup]
  /\ UNCHANGED <<direction, uploaded, received, timeVars, chunks, runVars, request, download>>

CleanStep(c) ==
  \/ Scan(c) \/ Purge(c)
  \/ \E j \in Jobs, s \in Stores : RemoveChunk(c, j, s) \/ Removed(c, j, s) \/ RemoveFails(c, j, s)

\* A request to store or list something, and a handler that has to stop (its
\* heartbeat fails within 20 s), do not last as long as a tick.
Prompt ==
  /\ \A r \in Requests : request[r].pc = "idle"
  /\ \A j \in Jobs : run[j] # "idle" => status[j] \in Active /\ run[j] \notin Stopping
  /\ download.pc # "listing"

Earlier(n, bound) == IF n < bound THEN n + 1 ELSE n

\* A tick passes, about a day.
FilesTick ==
  /\ Prompt
  /\ \E j \in Jobs : age[j] < MaxAge \/ life[j] < JobTicks
  /\ age' = [j \in Jobs |-> Earlier(age[j], MaxAge)]
  /\ life' = [j \in Jobs |-> Earlier(life[j], JobTicks)]
  /\ UNCHANGED <<rowVars, chunks, runVars, request, download, cleaner>>

RequestStep(r) ==
  PutStore(r) \/ PutList(r) \/ PutRecord(r) \/ CompleteCheck(r) \/ CompleteRecord(r) \/ Refused(r)

RunStep(j) ==
  \/ Erase(j) \/ Stage(j) \/ Clear(j) \/ Write(j) \/ EndWrite(j) \/ Unstage(j) \/ Import(j)
  \/ Finish(j) \/ Break(j) \/ Discard(j) \/ Settle(j)

DownloadStep == DownloadList \/ DownloadRead \/ DownloadEnd \/ DownloadClose

FilesNext ==
  \/ \E r \in Requests : PutBegin(r) \/ CompleteBegin(r) \/ RequestStep(r)
  \/ \E j \in Jobs : Preview(j) \/ Cancel(j) \/ Begin(j) \/ RunStep(j) \/ Crash(j)
  \/ DownloadBegin \/ DownloadStep
  \/ \E c \in Cleaners : CleanStep(c)
  \/ FilesTick

FilesSpec == FilesInit /\ [][FilesNext]_filesVars

\* Requests and handlers go on, time passes, the cleanup timer fires, and no
\* store refuses every deletion for ever.
FilesFairness ==
  /\ \A r \in Requests : WF_filesVars(RequestStep(r))
  /\ \A j \in Jobs : WF_filesVars(RunStep(j))
  /\ WF_filesVars(DownloadStep)
  /\ SF_filesVars(FilesTick)
  /\ \A c \in Cleaners : WF_filesVars(CleanStep(c))
  /\ \A c \in Cleaners, j \in Jobs, s \in Stores : SF_filesVars(RemoveChunk(c, j, s))

FilesFairSpec == FilesSpec /\ FilesFairness

-----------------------------------------------------------------------------
(* What the file services promise *)

\* While the row of a succeeded export is there and its 24 h have not passed,
\* the output store holds the package its run completed, and nothing of any
\* other run: attempts that crashed or failed leave nothing behind in it.
OutputKept ==
  \A j \in Jobs :
    DownloadReady(j) /\ age[j] < ShortTicks =>
      chunks["output"][j] =
        [i \in Indexes |-> IF i < package[j][2] THEN package[j][1] ELSE None]

\* A download opened within the 24 h is the whole package or ends in an error,
\* although the cleanup may delete the chunks while they are streamed.
WholeDownloads ==
  download.pc = "complete" /\ download.inTime =>
    download.got = [n \in 1..package[download.job][2] |-> package[download.job][1]]

\* The files of a job that settles early enough before its 90 days are over
\* are all deleted some day.
FinishedCleaned ==
  \A j \in Jobs :
    (/\ status[j] \in Terminal /\ run[j] = "idle"
     /\ age[j] = 0 /\ life[j] + Retention(status[j]) <= JobTicks)
      ~> ~HasFiles(j)

-----------------------------------------------------------------------------
(* What the documents say and the code does not do *)

\* No object is left without metadata (agent/question.md:211).
NoOrphans ==
  \A j \in Jobs : status[j] = "deleted" => ~HasFiles(j)
=============================================================================
