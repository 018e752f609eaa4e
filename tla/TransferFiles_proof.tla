------------------------ MODULE TransferFiles_proof ------------------------
(* Theorems about the files of the transfer jobs, for any number of jobs, requests, *)
(* cleaners and chunks. *)
EXTENDS TransferFiles, FiniteSetTheorems, SequenceTheorems, WellFoundedInduction, TLAPS

-----------------------------------------------------------------------------
(* The inductive invariant *)

RequestSteps == {"idle", "storing", "listing", "recording", "checking", "completing"}
FileRequest ==
  [pc : RequestSteps, job : Jobs \cup {None}, index : Indexes, content : Contents \cup {None},
   bytes : 0..MaxChunks * ChunkSize]

Download ==
  [pc : {"idle", "listing", "reading", "complete"}, job : Jobs \cup {None},
   left : SUBSET Indexes, got : Seq(1..MaxRuns), inTime : BOOLEAN]

Cleanup ==
  [pc : {"idle", "cleaning"}, todo : SUBSET (Jobs \X Stores), overdue : SUBSET Jobs,
   failed : BOOLEAN]

ChunkRowsTyped ==
  /\ direction \in [Jobs -> {"import", "export"}]
  /\ status \in [Jobs -> Active \cup Terminal \cup {"deleted"}]
  /\ uploaded \in [Jobs -> BOOLEAN] /\ received \in [Jobs -> 0..MaxChunks * ChunkSize]
  /\ age \in [Jobs -> 0..MaxAge] /\ life \in [Jobs -> 0..JobTicks]

RunsTyped ==
  /\ runs \in [Jobs -> 0..MaxRuns] /\ run \in [Jobs -> Running \cup Stopping \cup {"idle"}]
  /\ length \in [Jobs -> 0..MaxChunks] /\ package \in [Jobs -> (0..MaxRuns) \X (0..MaxChunks)]

\* What store s may hold.
Holds(s) == IF s = "source" THEN Contents \cup {None} ELSE (1..MaxRuns) \cup {None}
Chunk == Contents \cup 1..MaxRuns \cup {None}
ChunksTyped ==
  /\ chunks \in [Stores -> [Jobs -> [Indexes -> Chunk]]]
  /\ \A s \in Stores, j \in Jobs : chunks[s][j] \in [Indexes -> Holds(s)]

UploadsSound ==
  /\ request \in [Requests -> FileRequest]
  /\ \A r \in Requests :
       /\ request[r].pc # "idle" => request[r].job \in Jobs
       /\ request[r].pc = "storing" => request[r].content \in Contents

\* The output store of a package of p[2] chunks that run p[1] wrote.
Full(p) == [i \in Indexes |-> IF i < p[2] THEN p[1] ELSE None]
Whole(j) == chunks["output"][j] = Full(package[j])

\* What the handler of job j relies on: nobody but its run touches the output, and a row
\* that is stopped under it stays fresh, so no cleanup sees it.
Attempt(j) ==
  /\ run[j] # "idle" => status[j] \in {"running", "cancelled", "deleted"} /\ runs[j] > 0
  /\ run[j] # "idle" /\ status[j] = "cancelled" => age[j] = 0
  /\ run[j] \in {"staging", "clearing", "writing", "unstaging"} => direction[j] = "export"
  /\ run[j] = "reading" => direction[j] = "import"
  /\ run[j] = "writing" => chunks["output"][j] = Full(<<runs[j], length[j]>>)
  /\ run[j] \in {"unstaging", "finishing"} /\ direction[j] = "export" => Whole(j)
  /\ DownloadReady(j) /\ age[j] < ShortTicks => Whole(j)

\* What a cleanup still has to delete belongs to jobs that will not run again, and whose
\* package is out of date.
Over(j) == run[j] = "idle" /\ (status[j] = "deleted" \/ ArtifactExpired(j))
CleanersSound ==
  /\ cleaner \in [Cleaners -> Cleanup]
  /\ \A c \in Cleaners : \A t \in cleaner[c].todo : Over(t[1])

\* The package of a download in time: no run writes it again, until its list is read no
\* cleanup will delete it, and what is streamed is a part of it.
Still(j) == run[j] = "idle" /\ direction[j] = "export" /\ status[j] \in {"succeeded", "deleted"}
Untouched(j) ==
  /\ Still(j) /\ age[j] < ShortTicks /\ Whole(j)
  /\ \A c \in Cleaners : <<j, "output">> \notin cleaner[c].todo
ChunkRemains(j) ==
  \A i \in Indexes : chunks["output"][j][i] # None =>
    i < package[j][2] /\ chunks["output"][j][i] = package[j][1]
Repeat(x, n) == [k \in 1..n |-> x]
DownloadSound ==
  /\ download \in Download
  /\ download.pc # "idle" => download.job \in Jobs
  /\ download.pc = "listing" => download.got = <<>>
  /\ download.inTime =>
       /\ download.pc = "listing" => Untouched(download.job)
       /\ download.pc = "reading" =>
            /\ Still(download.job) /\ ChunkRemains(download.job)
            /\ \E k \in 0..package[download.job][2] :
                 /\ download.got = Repeat(package[download.job][1], k)
                 /\ download.left = k..package[download.job][2] - 1
       /\ download.pc = "complete" =>
            /\ Still(download.job)
            /\ download.got = Repeat(package[download.job][1], package[download.job][2])

FilesInv ==
  /\ ChunkRowsTyped /\ RunsTyped /\ ChunksTyped /\ UploadsSound
  /\ (\A j \in Jobs : Attempt(j)) /\ CleanersSound /\ DownloadSound

-----------------------------------------------------------------------------
(* The bytes of a store: a sum over a set of chunks *)

Chosen(s) == CHOOSE x \in s : TRUE

\* g sums the sizes that column holds at the sets in D.
SumsTo(column, D, g) ==
  g = [s \in D |-> IF s = {} THEN 0 ELSE Size[column[Chosen(s)]] + g[s \ {Chosen(s)}]]

UpTo(S, n) == {s \in SUBSET S : Cardinality(s) <= n}

\* One chunk less, one member less.
LEMMA WithoutChosen ==
  ASSUME NEW S, IsFiniteSet(S), NEW s \in SUBSET S, s # {}
  PROVE  /\ Chosen(s) \in s /\ s \ {Chosen(s)} \in SUBSET S
         /\ Cardinality(s) \in Nat \ {0}
         /\ Cardinality(s \ {Chosen(s)}) = Cardinality(s) - 1
<1>1. Chosen(s) \in s
  BY DEF Chosen
<1>2. IsFiniteSet(s)
  BY FS_Subset
<1>3. Cardinality(s \ {Chosen(s)}) = Cardinality(s) - 1
  BY <1>1, <1>2, FS_RemoveElement
<1>4. Cardinality(s) \in Nat /\ Cardinality(s) # 0
  BY <1>1, <1>2, FS_CardinalityType, FS_EmptySet
<1> QED BY <1>1, <1>3, <1>4

\* A set of numbers that holds the successor of its members holds all from its least on.
LEMMA Induction ==
  ASSUME NEW P, 0 \in P, \A n \in Nat : n \in P => n + 1 \in P
  PROVE  Nat \subseteq P
<1> SUFFICES ASSUME Nat \ P # {}
             PROVE  FALSE
  OBVIOUS
<1>1. \E n \in Nat \ P : \A m \in Nat \ P : ~(<<m, n>> \in OpToRel(<, Nat))
  BY WFMin, NatLessThanWellFounded
<1>2. \A m, n \in Nat : m < n => <<m, n>> \in OpToRel(<, Nat)
  BY DEF OpToRel
<1>3. PICK n \in Nat \ P : \A m \in Nat \ P : ~(m < n)
  BY <1>1, <1>2
<1> QED BY <1>3

LEMMA SumsExist ==
  ASSUME NEW column, NEW S, IsFiniteSet(S)
  PROVE  \E g : SumsTo(column, SUBSET S, g)
<1> DEFINE P == {n \in Nat : \E g : SumsTo(column, UpTo(S, n), g)}
<1>1. 0 \in P
  <2> DEFINE g == [s \in UpTo(S, 0) |-> 0]
  <2>1. ASSUME NEW s \in UpTo(S, 0)
        PROVE  s = {}
    <3>1. s \in SUBSET S /\ Cardinality(s) <= 0
      BY <2>1 DEF UpTo
    <3>2. s # {} => Cardinality(s) \in Nat \ {0}
      BY <3>1, WithoutChosen
    <3> QED BY <3>1, <3>2
  <2>2. SumsTo(column, UpTo(S, 0), g)
    BY <2>1 DEF SumsTo
  <2> QED BY <2>2
<1>2. ASSUME NEW n \in Nat, n \in P
      PROVE  n + 1 \in P
  <2>1. PICK g : SumsTo(column, UpTo(S, n), g)
    BY <1>2
  <2> DEFINE h == [s \in UpTo(S, n + 1) |->
                     IF s = {} THEN 0 ELSE Size[column[Chosen(s)]] + g[s \ {Chosen(s)}]]
  <2>2. ASSUME NEW s \in UpTo(S, n + 1), s # {}
        PROVE  h[s \ {Chosen(s)}] = g[s \ {Chosen(s)}]
    <3>1. PICK t : t = s \ {Chosen(s)}
      OBVIOUS
    <3>2. t \in UpTo(S, n) /\ t \in UpTo(S, n + 1)
      BY <2>2, <3>1, WithoutChosen DEF UpTo
    <3>3. g[t] = IF t = {} THEN 0 ELSE Size[column[Chosen(t)]] + g[t \ {Chosen(t)}]
      BY <2>1, <3>2 DEF SumsTo
    <3> QED BY <3>1, <3>2, <3>3
  <2>3. h = [s \in UpTo(S, n + 1) |->
               IF s = {} THEN 0 ELSE Size[column[Chosen(s)]] + h[s \ {Chosen(s)}]]
    <3> DEFINE k == [s \in UpTo(S, n + 1) |->
               IF s = {} THEN 0 ELSE Size[column[Chosen(s)]] + h[s \ {Chosen(s)}]]
    <3>1. \A s \in UpTo(S, n + 1) : h[s] = k[s]
      BY <2>2
    <3> HIDE DEF h
    <3>2. DOMAIN k = UpTo(S, n + 1)
      OBVIOUS
    <3> QED BY <3>1 DEF h
  <2> HIDE DEF h
  <2>4. SumsTo(column, UpTo(S, n + 1), h)
    BY <2>3 DEF SumsTo
  <2> QED BY <2>4
<1>3. Cardinality(S) \in P
  <2> HIDE DEF P
  <2> QED BY <1>1, <1>2, Induction, FS_CardinalityType
<1>4. UpTo(S, Cardinality(S)) = SUBSET S
  BY FS_Subset DEF UpTo
<1> QED BY <1>3, <1>4

\* A sum of sizes is at most ChunkSize for each chunk.
LEMMA SumBound ==
  ASSUME NEW column, NEW S, IsFiniteSet(S), NEW g, SumsTo(column, SUBSET S, g),
         \A x \in S : Size[column[x]] \in 0..ChunkSize
  PROVE  g[S] \in 0..Cardinality(S) * ChunkSize
<1> DEFINE P == {n \in Nat : \A s \in SUBSET S : Cardinality(s) = n => g[s] \in 0..n * ChunkSize}
<1>0. ChunkSize \in Nat
  BY TransferFilesAssumption
<1>1. 0 \in P
  <2>1. ASSUME NEW s \in SUBSET S, Cardinality(s) = 0
        PROVE  g[s] = 0
    <3>0. s # {} => Cardinality(s) \in Nat \ {0}
      BY WithoutChosen
    <3>1. s = {}
      BY <2>1, <3>0
    <3>2. g[{}] = 0
      BY DEF SumsTo
    <3> QED BY <3>1, <3>2
  <2>2. 0 \in 0..0 * ChunkSize
    BY <1>0
  <2> QED BY <2>1, <2>2
<1>2. ASSUME NEW n \in Nat, n \in P
      PROVE  n + 1 \in P
  <2>1. ASSUME NEW s \in SUBSET S, Cardinality(s) = n + 1
        PROVE  g[s] \in 0..(n + 1) * ChunkSize
    <3>1. s # {}
      BY <2>1, FS_EmptySet
    <3>2. PICK t \in SUBSET S : t = s \ {Chosen(s)} /\ Cardinality(t) = n
      <4>1. /\ s \ {Chosen(s)} \in SUBSET S
            /\ Cardinality(s \ {Chosen(s)}) = Cardinality(s) - 1
        BY <3>1, WithoutChosen
      <4>2. Cardinality(s) - 1 = n
        BY <2>1
      <4> QED BY <4>1, <4>2
    <3>3. g[s] = Size[column[Chosen(s)]] + g[t]
      BY <3>1, <3>2 DEF SumsTo
    <3>4. Size[column[Chosen(s)]] \in 0..ChunkSize
      BY <3>1, WithoutChosen
    <3>5. g[t] \in 0..n * ChunkSize
      BY <1>2, <3>2
    <3>6. (n + 1) * ChunkSize = n * ChunkSize + ChunkSize /\ n * ChunkSize \in Nat
      BY <1>0
    <3> QED BY <1>0, <3>3, <3>4, <3>5, <3>6
  <2> QED BY <2>1
<1>3. Cardinality(S) \in P
  <2> HIDE DEF P
  <2> QED BY <1>1, <1>2, Induction, FS_CardinalityType
<1> QED BY <1>3

\* The bytes of a source store fit into the chunks it may have.
LEMMA BytesBound ==
  ASSUME NEW j \in Jobs, chunks["source"][j] \in [Indexes -> Contents \cup {None}]
  PROVE  Bytes(j) \in 0..MaxChunks * ChunkSize
<1> DEFINE column == chunks["source"][j]
           S == Held("source", j)
<1>1. S \subseteq Indexes /\ \A x \in S : Size[column[x]] \in 0..ChunkSize
  BY TransferFilesAssumption DEF Held
<1>2. IsFiniteSet(Indexes) /\ Cardinality(Indexes) = MaxChunks
  <2>1. MaxChunks \in Nat \ {0} /\ 0 \in Int /\ MaxChunks - 1 \in Int
    BY TransferFilesAssumption
  <2>2. /\ IsFiniteSet(0..MaxChunks - 1)
        /\ Cardinality(0..MaxChunks - 1) = IF 0 > MaxChunks - 1 THEN 0 ELSE MaxChunks - 1 - 0 + 1
    BY <2>1, FS_Interval
  <2> QED BY <2>1, <2>2 DEF Indexes
<1>3. IsFiniteSet(S) /\ Cardinality(S) \in 0..MaxChunks
  BY <1>1, <1>2, FS_Subset, FS_CardinalityType
<1>4. Bytes(j) = (CHOOSE g : SumsTo(column, SUBSET S, g))[S]
  BY DEF Bytes, MapThenSumSet, MapThenFoldSet, SumsTo, Chosen
<1>5. SumsTo(column, SUBSET S, CHOOSE g : SumsTo(column, SUBSET S, g))
  <2> HIDE DEF column, S
  <2> QED BY <1>3, SumsExist
<1>6. Bytes(j) \in 0..Cardinality(S) * ChunkSize
  <2> HIDE DEF column, S
  <2> QED BY <1>1, <1>3, <1>4, <1>5, SumBound
<1>7. /\ Cardinality(S) * ChunkSize <= MaxChunks * ChunkSize
      /\ Cardinality(S) * ChunkSize \in Nat /\ MaxChunks * ChunkSize \in Nat
  <2> HIDE DEF S
  <2> QED BY <1>3, TransferFilesAssumption
<1> HIDE DEF S
<1> QED BY <1>6, <1>7
-----------------------------------------------------------------------------
(* Types *)

LEMMA FilesConstants ==
  /\ ChunkSize \in Nat \ {0} /\ MaxChunks \in Nat \ {0} /\ MaxRuns \in Nat \ {0}
  /\ ShortTicks \in Nat \ {0} /\ FailedTicks \in Nat \ {0} /\ JobTicks \in Nat \ {0}
  /\ None \notin Contents /\ None \notin 0..MaxRuns
  /\ 0 \in Indexes /\ MaxChunks * ChunkSize \in Nat /\ 0 \in 0..MaxChunks * ChunkSize
  /\ MaxAge \in Nat \ {0} /\ ShortTicks <= MaxAge /\ FailedTicks <= MaxAge
  /\ Resting \in FileRequest /\ NoDownload \in Download /\ NoCleanup \in Cleanup
<1>1. /\ ChunkSize \in Nat \ {0} /\ MaxChunks \in Nat \ {0} /\ MaxRuns \in Nat \ {0}
      /\ ShortTicks \in Nat \ {0} /\ FailedTicks \in Nat \ {0} /\ JobTicks \in Nat \ {0}
      /\ None \notin Contents /\ None \notin 0..MaxRuns
  BY TransferFilesAssumption
<1>2. MaxChunks * ChunkSize \in Nat
  BY <1>1
<1>3. 0 \in Indexes
  BY <1>1 DEF Indexes
<1>4. MaxAge \in Nat \ {0} /\ ShortTicks <= MaxAge /\ FailedTicks <= MaxAge
  BY <1>1 DEF MaxAge
<1>5. Resting \in FileRequest
  BY <1>2, <1>3 DEF Resting, FileRequest, RequestSteps
<1>6. NoDownload \in Download
  BY DEF NoDownload, Download
<1>7. NoCleanup \in Cleanup
  BY DEF NoCleanup, Cleanup
<1> QED BY <1>1, <1>2, <1>3, <1>4, <1>5, <1>6, <1>7

\* One chunk of one store changes.
LEMMA ChunkPut ==
  ASSUME ChunksTyped, NEW s \in Stores, NEW j \in Jobs, NEW i \in Indexes, NEW v \in Holds(s),
         chunks' = [chunks EXCEPT ![s][j][i] = v]
  PROVE  /\ ChunksTyped'
         /\ chunks'[s][j] = [chunks[s][j] EXCEPT ![i] = v]
         /\ \A t \in Stores, k \in Jobs : t # s \/ k # j => chunks'[t][k] = chunks[t][k]
<1>1. chunks \in [Stores -> [Jobs -> [Indexes -> Chunk]]]
  BY DEF ChunksTyped
<1>2. v \in Chunk
  BY DEF Holds, Chunk
<1>3. \A t \in Stores, k \in Jobs :
        chunks'[t][k] = IF t = s /\ k = j THEN [chunks[s][j] EXCEPT ![i] = v] ELSE chunks[t][k]
  BY <1>1
<1>4. chunks' \in [Stores -> [Jobs -> [Indexes -> Chunk]]]
  <2> DEFINE column == [chunks[s][j] EXCEPT ![i] = v]
             store == [chunks[s] EXCEPT ![j] = column]
  <2>1. column \in [Indexes -> Chunk]
    BY <1>1, <1>2
  <2>2. store \in [Jobs -> [Indexes -> Chunk]]
    <3> HIDE DEF column
    <3> QED BY <1>1, <2>1
  <2>3. chunks' = [chunks EXCEPT ![s] = store]
    OBVIOUS
  <2> HIDE DEF store
  <2> QED BY <1>1, <2>2, <2>3
<1>5. ASSUME NEW t \in Stores, NEW k \in Jobs
      PROVE  chunks'[t][k] \in [Indexes -> Holds(t)]
  <2>1. chunks[t][k] \in [Indexes -> Holds(t)]
    BY DEF ChunksTyped
  <2> HIDE DEF Holds
  <2> QED BY <1>3, <2>1
<1>6. /\ chunks'[s][j] = [chunks[s][j] EXCEPT ![i] = v]
      /\ \A t \in Stores, k \in Jobs : t # s \/ k # j => chunks'[t][k] = chunks[t][k]
  BY <1>3
<1> QED BY <1>4, <1>5, <1>6 DEF ChunksTyped

\* A request with another value in one field is a request.
LEMMA UploadWith ==
  ASSUME NEW q \in FileRequest
  PROVE  /\ \A x \in RequestSteps : [q EXCEPT !.pc = x] \in FileRequest
         /\ \A x \in Jobs : [q EXCEPT !.job = x] \in FileRequest
         /\ \A x \in 0..MaxChunks * ChunkSize : [q EXCEPT !.bytes = x] \in FileRequest
  BY DEF FileRequest

-----------------------------------------------------------------------------
(* Steps of one job *)

\* Nobody relies on a job that is not settled yet but its own run.
LEMMA OneJob ==
  ASSUME FilesInv, NEW j \in Jobs, ~(run[j] = "idle" /\ status[j] \in Terminal \cup {"deleted"}),
         \A k \in Jobs \ {j} :
           /\ status'[k] = status[k] /\ age'[k] = age[k]
           /\ runs'[k] = runs[k] /\ run'[k] = run[k] /\ length'[k] = length[k]
           /\ package'[k] = package[k] /\ chunks'["output"][k] = chunks["output"][k],
         UNCHANGED <<direction, download, cleaner>>,
         Attempt(j)'
  PROVE  (\A k \in Jobs : Attempt(k))' /\ CleanersSound' /\ DownloadSound'
<1>1. ASSUME NEW k \in Jobs \ {j}
      PROVE  Attempt(k)'
  <2>1. Attempt(k)
    BY DEF FilesInv
  <2> QED BY <2>1 DEF Attempt, Whole, DownloadReady
<1>2. \A c \in Cleaners : \A t \in cleaner[c].todo : t[1] \in Jobs \ {j} /\ Over(t[1])
  BY DEF FilesInv, CleanersSound, Cleanup, Over, ArtifactExpired
<1>3. CleanersSound'
  <2>1. ASSUME NEW c \in Cleaners, NEW t \in cleaner[c].todo
        PROVE  Over(t[1])'
    BY <1>2 DEF Over, ArtifactExpired
  <2> QED BY <2>1 DEF FilesInv, CleanersSound
<1>4. DownloadSound'
  <2>1. DownloadSound
    BY DEF FilesInv
  <2>2. CASE download.inTime /\ download.pc # "idle"
    <3>1. PICK k \in Jobs : k = download.job /\ Still(k)
      BY <2>1, <2>2 DEF DownloadSound, Download, Untouched
    <3>2. k # j
      BY <3>1 DEF Still, Terminal
    <3>3. Still(k)' /\ (Whole(k) => Whole(k)') /\ (ChunkRemains(k) => ChunkRemains(k)')
      BY <3>1, <3>2 DEF Still, Whole, ChunkRemains
    <3>4. Untouched(k) => Untouched(k)'
      BY <3>2, <3>3 DEF Untouched
    <3>5. package'[k] = package[k] /\ download' = download
      BY <3>2
    <3> QED BY <2>1, <3>1, <3>3, <3>4, <3>5 DEF DownloadSound
  <2>3. CASE ~(download.inTime /\ download.pc # "idle")
    BY <2>1, <2>3 DEF DownloadSound
  <2> QED BY <2>2, <2>3
<1> QED BY <1>1, <1>3, <1>4

-----------------------------------------------------------------------------
(* Requests *)

\* A step in which a request moves on and no file or row changes.
LEMMA OnlyUpload ==
  ASSUME FilesInv, NEW r \in Requests, NEW q \in FileRequest,
         q.pc # "idle" => q.job \in Jobs, q.pc = "storing" => q.content \in Contents,
         request' = [request EXCEPT ![r] = q],
         UNCHANGED <<rowVars, timeVars, chunks, runVars, download, cleaner>>
  PROVE  FilesInv'
<1> USE DEF rowVars, timeVars, runVars
<1>1. UploadsSound'
  BY DEF FilesInv, UploadsSound
<1>2. ChunkRowsTyped' /\ RunsTyped' /\ ChunksTyped'
  BY DEF FilesInv, ChunkRowsTyped, RunsTyped, ChunksTyped
<1>3. (\A j \in Jobs : Attempt(j))'
  BY DEF FilesInv, Attempt, Whole, DownloadReady
<1>4. CleanersSound'
  BY DEF FilesInv, CleanersSound, Over, ArtifactExpired
<1>5. DownloadSound'
  BY DEF FilesInv, DownloadSound, Untouched, Still, Whole, ChunkRemains
<1> QED BY <1>1, <1>2, <1>3, <1>4, <1>5 DEF FilesInv

LEMMA PutBeginStep ==
  ASSUME FilesInv, NEW r \in Requests, PutBegin(r)
  PROVE  FilesInv'
<1>1. PICK j \in Jobs, i \in Indexes, c \in Contents :
        request' = [request EXCEPT ![r] =
          [pc |-> "storing", job |-> j, index |-> i, content |-> c, bytes |-> 0]]
  BY DEF PutBegin
<1> DEFINE q == [pc |-> "storing", job |-> j, index |-> i, content |-> c, bytes |-> 0]
<1>2. q \in FileRequest
  BY FilesConstants DEF FileRequest, RequestSteps
<1>3. q.job \in Jobs /\ q.content \in Contents /\ request' = [request EXCEPT ![r] = q]
  BY <1>1
<1> HIDE DEF q
<1> QED BY <1>2, <1>3, OnlyUpload DEF PutBegin

LEMMA CompleteBeginStep ==
  ASSUME FilesInv, NEW r \in Requests, CompleteBegin(r)
  PROVE  FilesInv'
<1>1. PICK j \in Jobs : request' = [request EXCEPT ![r].pc = "checking", ![r].job = j]
  BY DEF CompleteBegin
<1>2. PICK p \in FileRequest : p = request[r]
  BY DEF FilesInv, UploadsSound
<1> DEFINE q1 == [p EXCEPT !.pc = "checking"]
           q == [q1 EXCEPT !.job = j]
<1>3. q1 \in FileRequest
  BY UploadWith DEF RequestSteps
<1>4. q \in FileRequest
  <2> HIDE DEF q1
  <2> QED BY <1>3, UploadWith
<1>5. q.pc = "checking" /\ q.job = j
  BY DEF FileRequest
<1>6. request' = [request EXCEPT ![r] = q]
  BY <1>1, <1>2 DEF FilesInv, UploadsSound
<1> HIDE DEF q
<1> QED BY <1>4, <1>5, <1>6, OnlyUpload DEF CompleteBegin

\* PutList and CompleteCheck read the bytes of the store.
LEMMA BytesReadStep ==
  ASSUME FilesInv, NEW r \in Requests, PutList(r) \/ CompleteCheck(r)
  PROVE  FilesInv'
<1>1. PICK p \in FileRequest : p = request[r]
  BY DEF FilesInv, UploadsSound
<1>2. p.job \in Jobs
  BY <1>1 DEF FilesInv, UploadsSound, PutList, CompleteCheck
<1>3. Bytes(p.job) \in 0..MaxChunks * ChunkSize
  <2>1. chunks["source"][p.job] \in [Indexes -> Contents \cup {None}]
    BY <1>2 DEF FilesInv, ChunksTyped, Stores, Holds
  <2> QED BY <1>2, <2>1, BytesBound
<1>4. PICK b \in 0..MaxChunks * ChunkSize : b = Bytes(p.job)
  BY <1>3
<1>5. PICK x \in {"recording", "completing"} :
        request' = [request EXCEPT ![r].pc = x, ![r].bytes = b]
  BY <1>1, <1>4 DEF PutList, CompleteCheck
<1> DEFINE q1 == [p EXCEPT !.pc = x]
           q == [q1 EXCEPT !.bytes = b]
<1>6. q1 \in FileRequest
  BY UploadWith DEF RequestSteps
<1>7. q \in FileRequest
  <2> HIDE DEF q1
  <2> QED BY <1>6, UploadWith
<1>8. q.pc = x /\ q.job = p.job
  BY DEF FileRequest
<1>9. request' = [request EXCEPT ![r] = q]
  BY <1>1, <1>5 DEF FilesInv, UploadsSound
<1> HIDE DEF q
<1> QED BY <1>2, <1>7, <1>8, <1>9, OnlyUpload DEF PutList, CompleteCheck

LEMMA RefusedStep ==
  ASSUME FilesInv, NEW r \in Requests, Refused(r)
  PROVE  FilesInv'
<1>1. Resting.pc = "idle"
  BY DEF Resting
<1> QED BY <1>1, FilesConstants, OnlyUpload DEF Refused, Answer

\* A chunk arrives in the source store; nobody but an upload or an import looks there.
LEMMA PutStoreStep ==
  ASSUME FilesInv, NEW r \in Requests, PutStore(r)
  PROVE  FilesInv'
<1>1. PICK p \in FileRequest : p = request[r]
  BY DEF FilesInv, UploadsSound
<1>2. p.pc = "storing" /\ p.job \in Jobs /\ p.content \in Contents /\ p.index \in Indexes
  BY <1>1 DEF FilesInv, UploadsSound, PutStore, FileRequest
<1>3. chunks' = [chunks EXCEPT !["source"][p.job][p.index] = p.content]
  BY <1>1 DEF PutStore, Store
<1>4. "source" \in Stores /\ p.content \in Holds("source") /\ "output" \in Stores
  BY <1>2 DEF Stores, Holds
<1>5. /\ ChunksTyped'
      /\ \A j \in Jobs : chunks'["output"][j] = chunks["output"][j]
  <2>1. ChunksTyped
    BY DEF FilesInv
  <2>2. PICK j \in Jobs, i \in Indexes, c \in Holds("source") :
          chunks' = [chunks EXCEPT !["source"][j][i] = c]
    BY <1>2, <1>3, <1>4
  <2>3. /\ ChunksTyped'
        /\ \A t \in Stores, k \in Jobs : t # "source" \/ k # j => chunks'[t][k] = chunks[t][k]
    BY <1>4, <2>1, <2>2, ChunkPut
  <2> QED BY <1>4, <2>3
<1>6. UploadsSound'
  <2> DEFINE q == [p EXCEPT !.pc = "listing"]
  <2>1. q \in FileRequest
    BY UploadWith DEF RequestSteps
  <2>2. q.pc = "listing" /\ q.job = p.job
    BY DEF FileRequest
  <2>3. request' = [request EXCEPT ![r] = q]
    BY <1>1 DEF PutStore, Goto, FilesInv, UploadsSound
  <2> HIDE DEF q
  <2> QED BY <1>2, <2>1, <2>2, <2>3 DEF FilesInv, UploadsSound
<1> USE DEF PutStore, rowVars, timeVars, runVars
<1>7. ChunkRowsTyped' /\ RunsTyped'
  BY DEF FilesInv, ChunkRowsTyped, RunsTyped
<1>8. (\A j \in Jobs : Attempt(j))'
  BY <1>5 DEF FilesInv, Attempt, Whole, DownloadReady
<1>9. CleanersSound'
  BY DEF FilesInv, CleanersSound, Over, ArtifactExpired
<1>10. DownloadSound'
  BY <1>5 DEF FilesInv, DownloadSound, Untouched, Still, Whole, ChunkRemains
<1> QED BY <1>5, <1>6, <1>7, <1>8, <1>9, <1>10 DEF FilesInv

\* The row of an open upload takes the bytes.
LEMMA RecordStep ==
  ASSUME FilesInv, NEW r \in Requests, PutRecord(r) \/ CompleteRecord(r)
  PROVE  FilesInv'
<1>1. PICK p \in FileRequest : p = request[r]
  BY DEF FilesInv, UploadsSound
<1>2. p.job \in Jobs /\ p.bytes \in 0..MaxChunks * ChunkSize
  BY <1>1 DEF FilesInv, UploadsSound, PutRecord, CompleteRecord, FileRequest
<1>3. PICK j \in Jobs : j = p.job
  BY <1>2
<1>4. /\ UploadOpen(j) /\ received' = [received EXCEPT ![j] = p.bytes]
      /\ age' = [age EXCEPT ![j] = 0]
      /\ uploaded' = uploaded \/ uploaded' = [uploaded EXCEPT ![j] = TRUE]
      /\ request' = [request EXCEPT ![r] = Resting]
      /\ UNCHANGED <<direction, status, life, chunks, runVars, download, cleaner>>
  BY <1>1, <1>3 DEF PutRecord, CompleteRecord, Touched, Answer
<1>5. UploadsSound'
  <2>1. Resting.pc = "idle"
    BY DEF Resting
  <2> QED BY <1>4, <2>1, FilesConstants DEF FilesInv, UploadsSound
<1>6. ChunkRowsTyped' /\ RunsTyped' /\ ChunksTyped'
  <2>1. /\ received' \in [Jobs -> 0..MaxChunks * ChunkSize] /\ uploaded' \in [Jobs -> BOOLEAN]
    BY <1>2, <1>4 DEF FilesInv, ChunkRowsTyped
  <2>2. age' \in [Jobs -> 0..MaxAge]
    BY <1>4, FilesConstants DEF FilesInv, ChunkRowsTyped
  <2>3. RunsTyped' /\ ChunksTyped'
    BY <1>4 DEF FilesInv, RunsTyped, ChunksTyped, runVars
  <2> QED BY <1>4, <2>1, <2>2, <2>3 DEF FilesInv, ChunkRowsTyped
<1>7. Attempt(j)'
  <2>1. Attempt(j) /\ status[j] = "queued" /\ status'[j] = "queued" /\ run'[j] = run[j]
    BY <1>4 DEF FilesInv, UploadOpen, runVars
  <2>2. run[j] = "idle"
    BY <2>1 DEF Attempt
  <2> QED BY <2>1, <2>2 DEF Attempt, DownloadReady
<1>8. \A k \in Jobs \ {j} : age'[k] = age[k]
  BY <1>4 DEF FilesInv, ChunkRowsTyped
<1>9. (\A k \in Jobs : Attempt(k))' /\ CleanersSound' /\ DownloadSound'
  BY <1>4, <1>7, <1>8, OneJob DEF UploadOpen, Terminal, runVars
<1> QED BY <1>5, <1>6, <1>9 DEF FilesInv

-----------------------------------------------------------------------------
(* Rows and handlers *)

\* Preview, cancel, the claim and the end of an attempt: the row of job j and its run
\* change, the files do not.
LEMMA RowStep ==
  ASSUME FilesInv, NEW j \in Jobs, ~(run[j] = "idle" /\ status[j] \in Terminal \cup {"deleted"}),
         NEW st \in Active \cup Terminal \cup {"deleted"},
         NEW to \in Running \cup Stopping \cup {"idle"}, NEW n \in 0..MaxRuns,
         status' = [status EXCEPT ![j] = st], run' = [run EXCEPT ![j] = to],
         runs' = [runs EXCEPT ![j] = n],
         age' = age \/ age' = [age EXCEPT ![j] = 0],
         UNCHANGED <<direction, uploaded, received, life, chunks, length, package, request,
                     download, cleaner>>,
         Attempt(j)'
  PROVE  FilesInv'
<1>1. ChunkRowsTyped'
  BY FilesConstants DEF FilesInv, ChunkRowsTyped
<1>2. RunsTyped'
  BY DEF FilesInv, RunsTyped
<1>3. ChunksTyped' /\ UploadsSound'
  BY DEF FilesInv, ChunksTyped, UploadsSound
<1>4. \A k \in Jobs \ {j} :
        /\ status'[k] = status[k] /\ age'[k] = age[k]
        /\ runs'[k] = runs[k] /\ run'[k] = run[k] /\ length'[k] = length[k]
        /\ package'[k] = package[k] /\ chunks'["output"][k] = chunks["output"][k]
  BY DEF FilesInv, ChunkRowsTyped, RunsTyped
<1>5. (\A k \in Jobs : Attempt(k))' /\ CleanersSound' /\ DownloadSound'
  BY <1>4, OneJob
<1> QED BY <1>1, <1>2, <1>3, <1>5 DEF FilesInv

\* The values of job j after such a step.
LEMMA RowsAt ==
  ASSUME FilesInv, NEW j \in Jobs
  PROVE  /\ \A st : [status EXCEPT ![j] = st][j] = st
         /\ \A to : [run EXCEPT ![j] = to][j] = to
         /\ \A n : [runs EXCEPT ![j] = n][j] = n
         /\ \A n : [age EXCEPT ![j] = n][j] = n
         /\ [status EXCEPT ![j] = status[j]] = status
         /\ [run EXCEPT ![j] = run[j]] = run
         /\ [runs EXCEPT ![j] = runs[j]] = runs
         /\ status[j] \in Active \cup Terminal \cup {"deleted"}
         /\ run[j] \in Running \cup Stopping \cup {"idle"}
         /\ runs[j] \in 0..MaxRuns /\ age[j] \in 0..MaxAge /\ length[j] \in 0..MaxChunks
         /\ direction[j] \in {"import", "export"}
         /\ Attempt(j)
  BY DEF FilesInv, ChunkRowsTyped, RunsTyped

LEMMA PreviewStep ==
  ASSUME FilesInv, NEW j \in Jobs, Preview(j)
  PROVE  FilesInv'
<1>1. status[j] = "queued" /\ status' = [status EXCEPT ![j] = "previewed"]
  BY DEF Preview
<1>2. run[j] = "idle"
  BY <1>1, RowsAt DEF Attempt
<1>3. status'[j] = "previewed" /\ run'[j] = "idle"
  BY <1>1, <1>2, RowsAt DEF Preview, runVars
<1>4. Attempt(j)'
  BY <1>3 DEF Attempt, DownloadReady
<1>5. run' = [run EXCEPT ![j] = run[j]] /\ runs' = [runs EXCEPT ![j] = runs[j]]
  BY RowsAt DEF Preview, runVars
<1>6. run[j] \in Running \cup Stopping \cup {"idle"} /\ runs[j] \in 0..MaxRuns
  BY RowsAt
<1> QED BY <1>1, <1>4, <1>5, <1>6, RowStep
        DEF Preview, runVars, Touched, Active, Terminal

LEMMA FilesCancelStep ==
  ASSUME FilesInv, NEW j \in Jobs, Cancel(j)
  PROVE  FilesInv'
<1>1. /\ status[j] \in Active /\ status' = [status EXCEPT ![j] = "cancelled"]
      /\ age' = [age EXCEPT ![j] = 0]
  BY DEF Cancel, Touched
<1>2. status'[j] = "cancelled" /\ age'[j] = 0
  BY <1>1, RowsAt
<1>3. Attempt(j)'
  BY <1>2, RowsAt DEF Attempt, DownloadReady, Whole, Cancel, runVars
<1>4. run' = [run EXCEPT ![j] = run[j]] /\ runs' = [runs EXCEPT ![j] = runs[j]]
  BY RowsAt DEF Cancel, runVars
<1>5. run[j] \in Running \cup Stopping \cup {"idle"} /\ runs[j] \in 0..MaxRuns
  BY RowsAt
<1> QED BY <1>1, <1>3, <1>4, <1>5, RowStep DEF Cancel, runVars, Active, Terminal

LEMMA BeginStep ==
  ASSUME FilesInv, NEW j \in Jobs, Begin(j)
  PROVE  FilesInv'
<1>1. PICK to \in {"staging", "reading"} :
        /\ to = "staging" => direction[j] = "export"
        /\ to = "reading" => direction[j] = "import"
        /\ run' = [run EXCEPT ![j] = to]
  <2>1. direction[j] \in {"import", "export"}
    BY RowsAt
  <2> QED BY <2>1 DEF Begin
<1>2. /\ status[j] \in {"previewed", "running"} /\ status' = [status EXCEPT ![j] = "running"]
      /\ age' = [age EXCEPT ![j] = 0] /\ UNCHANGED direction
  BY DEF Begin, Claimable, Touched
<1>3. runs[j] + 1 \in 1..MaxRuns /\ runs' = [runs EXCEPT ![j] = runs[j] + 1]
  BY RowsAt, FilesConstants DEF Begin, Claimable
<1>4. status'[j] = "running" /\ run'[j] = to /\ runs'[j] = runs[j] + 1
  BY <1>1, <1>2, <1>3, RowsAt
<1>5. Attempt(j)'
  BY <1>1, <1>2, <1>3, <1>4 DEF Attempt, DownloadReady
<1>6. runs[j] + 1 \in 0..MaxRuns
  BY <1>3
<1> QED BY <1>1, <1>2, <1>3, <1>5, <1>6, RowStep
        DEF Begin, Active, Terminal, Running

\* Finish, Break, Settle and Crash: the run ends or turns to cleaning up.
LEMMA FinishStep ==
  ASSUME FilesInv, NEW j \in Jobs, Finish(j)
  PROVE  FilesInv'
<1>1. /\ run[j] = "finishing" /\ status[j] = "running"
      /\ status' = [status EXCEPT ![j] = "succeeded"] /\ run' = [run EXCEPT ![j] = "idle"]
      /\ age' = [age EXCEPT ![j] = 0]
      /\ UNCHANGED <<direction, chunks, package>>
  BY DEF Finish, Touched
<1>2. status'[j] = "succeeded" /\ run'[j] = "idle"
  BY <1>1, RowsAt
<1>3. direction[j] = "export" => Whole(j)'
  BY <1>1, RowsAt DEF Attempt, Whole
<1>4. Attempt(j)'
  BY <1>1, <1>2, <1>3 DEF Attempt, DownloadReady
<1>5. runs' = [runs EXCEPT ![j] = runs[j]]
  BY RowsAt DEF Finish
<1>6. runs[j] \in 0..MaxRuns
  BY RowsAt
<1> QED BY <1>1, <1>4, <1>5, <1>6, RowStep DEF Finish, Terminal

LEMMA BreakStep ==
  ASSUME FilesInv, NEW j \in Jobs, Break(j)
  PROVE  FilesInv'
<1>1. PICK to \in Stopping : run' = [run EXCEPT ![j] = to]
  BY DEF Break, Stopping
<1>2. /\ run[j] \in Running /\ run'[j] = to
      /\ UNCHANGED <<rowVars, timeVars, chunks, runs, length, package>>
  BY <1>1, RowsAt DEF Break
<1>3. Attempt(j)'
  BY <1>2, RowsAt DEF Attempt, DownloadReady, Whole, Running, Stopping, rowVars, timeVars
<1>4. status' = [status EXCEPT ![j] = status[j]] /\ runs' = [runs EXCEPT ![j] = runs[j]]
  BY <1>2, RowsAt DEF rowVars
<1>5. run[j] # "idle"
  BY <1>2 DEF Running
<1>6. status[j] \in Active \cup Terminal \cup {"deleted"} /\ runs[j] \in 0..MaxRuns
  BY RowsAt
<1> QED BY <1>1, <1>2, <1>3, <1>4, <1>5, <1>6, RowStep DEF Break, rowVars, timeVars

LEMMA CrashStep ==
  ASSUME FilesInv, NEW j \in Jobs, Crash(j)
  PROVE  FilesInv'
<1>1. /\ run[j] # "idle" /\ run' = [run EXCEPT ![j] = "idle"]
      /\ UNCHANGED <<rowVars, timeVars, chunks, runs, length, package>>
  BY DEF Crash
<1>2. run'[j] = "idle"
  BY <1>1, RowsAt
<1>3. Attempt(j)'
  BY <1>1, <1>2, RowsAt DEF Attempt, DownloadReady, Whole, rowVars, timeVars
<1>4. status' = [status EXCEPT ![j] = status[j]] /\ runs' = [runs EXCEPT ![j] = runs[j]]
  BY <1>1, RowsAt DEF rowVars
<1>5. status[j] \in Active \cup Terminal \cup {"deleted"} /\ runs[j] \in 0..MaxRuns
  BY RowsAt
<1> QED BY <1>1, <1>3, <1>4, <1>5, RowStep DEF Crash, rowVars, timeVars

LEMMA SettleStep ==
  ASSUME FilesInv, NEW j \in Jobs, Settle(j)
  PROVE  FilesInv'
<1>1. /\ run[j] = "settling" /\ run' = [run EXCEPT ![j] = "idle"]
      /\ UNCHANGED <<direction, uploaded, received, life, chunks, runs, length, package>>
  BY DEF Settle
<1>2. PICK st \in {"previewed", "failed", "cancelled", "deleted"} :
        /\ status' = [status EXCEPT ![j] = st]
        /\ age' = age \/ age' = [age EXCEPT ![j] = 0]
  BY RowsAt DEF Settle, Touched
<1>3. run'[j] = "idle" /\ status'[j] = st
  BY <1>1, <1>2, RowsAt
<1>4. Attempt(j)'
  BY <1>3 DEF Attempt, DownloadReady
<1>5. runs' = [runs EXCEPT ![j] = runs[j]]
  BY <1>1, RowsAt
<1> QED BY <1>1, <1>2, <1>4, <1>5, RowsAt, RowStep DEF Settle, Active, Terminal

\* A handler that goes on: files of job j change, its row does not.
LEMMA HandlerStep ==
  ASSUME FilesInv, NEW j \in Jobs, run[j] # "idle",
         NEW to \in Running \cup Stopping, run' = [run EXCEPT ![j] = to],
         NEW n \in 0..MaxChunks, length' = [length EXCEPT ![j] = n],
         NEW p \in (0..MaxRuns) \X (0..MaxChunks), package' = [package EXCEPT ![j] = p],
         ChunksTyped',
         \A k \in Jobs \ {j} : chunks'["output"][k] = chunks["output"][k],
         UNCHANGED <<rowVars, timeVars, runs, request, download, cleaner>>,
         Attempt(j)'
  PROVE  FilesInv'
<1> USE DEF rowVars, timeVars
<1>1. ChunkRowsTyped' /\ UploadsSound'
  BY DEF FilesInv, ChunkRowsTyped, UploadsSound
<1>2. RunsTyped'
  BY DEF FilesInv, RunsTyped
<1>3. \A k \in Jobs \ {j} :
        run'[k] = run[k] /\ length'[k] = length[k] /\ package'[k] = package[k]
  BY DEF FilesInv, RunsTyped
<1>4. (\A k \in Jobs : Attempt(k))' /\ CleanersSound' /\ DownloadSound'
  BY <1>3, OneJob
<1> QED BY <1>1, <1>2, <1>4 DEF FilesInv

LEMMA RunsAt ==
  ASSUME FilesInv, NEW j \in Jobs
  PROVE  /\ [run EXCEPT ![j] = run[j]] = run
         /\ [length EXCEPT ![j] = length[j]] = length
         /\ [package EXCEPT ![j] = package[j]] = package
         /\ length[j] \in 0..MaxChunks /\ package[j] \in (0..MaxRuns) \X (0..MaxChunks)
         /\ runs[j] \in 0..MaxRuns
         /\ chunks["output"][j] \in [Indexes -> (1..MaxRuns) \cup {None}]
         /\ \A to : [run EXCEPT ![j] = to][j] = to
         /\ \A n : [length EXCEPT ![j] = n][j] = n
         /\ \A p : [package EXCEPT ![j] = p][j] = p
         /\ Attempt(j)
  BY DEF FilesInv, RunsTyped, ChunksTyped, Stores, Holds

\* Unstage, Import and Discard change no file.
LEMMA OnlyMovesStep ==
  ASSUME FilesInv, NEW j \in Jobs, Unstage(j) \/ Import(j) \/ Discard(j)
  PROVE  FilesInv'
<1>1. PICK to \in {"finishing", "settling"} : run' = [run EXCEPT ![j] = to]
  BY DEF Unstage, Import, Discard, Moves
<1>2. /\ run[j] \in {"unstaging", "reading", "discarding"} /\ run'[j] = to
      /\ to = "finishing" => run[j] \in {"unstaging", "reading"}
      /\ run[j] = "reading" => to = "finishing"
      /\ UNCHANGED <<rowVars, timeVars, chunks, runs, length, package, request, download, cleaner>>
  <2>1. run'[j] = to
    BY <1>1, RunsAt
  <2>2. CASE Unstage(j)
    BY <2>1, <2>2 DEF Unstage, Moves
  <2>3. CASE Import(j)
    BY <2>1, <2>3 DEF Import
  <2>4. CASE Discard(j)
    BY <2>1, <2>4 DEF Discard, Moves
  <2> QED BY <2>2, <2>3, <2>4
<1>3. Attempt(j)'
  BY <1>2, RunsAt DEF Attempt, DownloadReady, Whole, rowVars, timeVars
<1>4. /\ length' = [length EXCEPT ![j] = length[j]] /\ length[j] \in 0..MaxChunks
      /\ package' = [package EXCEPT ![j] = package[j]]
      /\ package[j] \in (0..MaxRuns) \X (0..MaxChunks)
  BY <1>2, RunsAt
<1>5. ChunksTyped'
  BY <1>2 DEF FilesInv, ChunksTyped
<1> QED BY <1>1, <1>2, <1>3, <1>4, <1>5, HandlerStep DEF Running, Stopping

LEMMA EraseStep ==
  ASSUME FilesInv, NEW j \in Jobs, Erase(j)
  PROVE  FilesInv'
<1>1. PICK s \in Erasing(j) : \E i \in Held(s, j) : chunks' = [chunks EXCEPT ![s][j][i] = None]
  BY DEF Erase
<1>2. PICK i \in Indexes : chunks' = [chunks EXCEPT ![s][j][i] = None]
  BY <1>1 DEF Held
<1>3. /\ s \in Stores /\ "output" \in Stores
      /\ s = "output" => run[j] \in {"clearing", "discarding"}
      /\ run[j] \in {"staging", "unstaging", "clearing", "discarding"}
  BY DEF Erasing, Stores
<1>4. None \in Holds(s)
  BY DEF Holds
<1>5. /\ ChunksTyped'
      /\ \A t \in Stores, k \in Jobs : t # s \/ k # j => chunks'[t][k] = chunks[t][k]
  BY <1>2, <1>3, <1>4, ChunkPut DEF FilesInv
<1>6. UNCHANGED <<rowVars, timeVars, runVars, request, download, cleaner>>
  BY DEF Erase
<1>7. Attempt(j)'
  BY <1>3, <1>5, <1>6, RunsAt DEF Attempt, DownloadReady, Whole, rowVars, timeVars, runVars
<1>8. PICK to \in Running \cup Stopping : to = run[j]
  BY <1>3 DEF Running, Stopping
<1>9. /\ run' = [run EXCEPT ![j] = to]
      /\ length' = [length EXCEPT ![j] = length[j]] /\ length[j] \in 0..MaxChunks
      /\ package' = [package EXCEPT ![j] = package[j]]
      /\ package[j] \in (0..MaxRuns) \X (0..MaxChunks)
  BY <1>6, <1>8, RunsAt DEF runVars
<1>10. \A k \in Jobs \ {j} : chunks'["output"][k] = chunks["output"][k]
  BY <1>3, <1>5
<1> QED BY <1>3, <1>5, <1>6, <1>7, <1>9, <1>10, HandlerStep DEF runVars

LEMMA StageStep ==
  ASSUME FilesInv, NEW j \in Jobs, Stage(j)
  PROVE  FilesInv'
<1>1. /\ run[j] = "staging" /\ run' = [run EXCEPT ![j] = "clearing"]
      /\ chunks' = [chunks EXCEPT !["stage"][j][0] = runs[j]]
      /\ UNCHANGED <<rowVars, timeVars, runs, length, package, request, download, cleaner>>
  BY DEF Stage, Moves
<1>2. "stage" \in Stores /\ "output" \in Stores /\ 0 \in Indexes /\ runs[j] \in Holds("stage")
  <2>1. runs[j] \in 0..MaxRuns /\ runs[j] > 0 /\ length[j] \in 0..MaxChunks
    BY <1>1, RunsAt DEF Attempt
  <2>2. runs[j] \in 1..MaxRuns
    BY <2>1
  <2> QED BY <1>1, <2>1, <2>2, FilesConstants DEF Stores, Holds
<1>3. PICK v \in Holds("stage") : v = runs[j]
  BY <1>2
<1>4. /\ ChunksTyped'
      /\ \A t \in Stores, k \in Jobs : t # "stage" \/ k # j => chunks'[t][k] = chunks[t][k]
  BY <1>1, <1>2, <1>3, ChunkPut DEF FilesInv
<1>5. \A k \in Jobs : chunks'["output"][k] = chunks["output"][k]
  BY <1>2, <1>4
<1>6. run'[j] = "clearing"
  BY <1>1, RunsAt
<1>7. Attempt(j)'
  BY <1>1, <1>5, <1>6, RunsAt DEF Attempt, DownloadReady, Whole, rowVars, timeVars
<1>8. /\ length' = [length EXCEPT ![j] = length[j]] /\ length[j] \in 0..MaxChunks
      /\ package' = [package EXCEPT ![j] = package[j]]
      /\ package[j] \in (0..MaxRuns) \X (0..MaxChunks)
  BY <1>1, RunsAt
<1>9. ChunksTyped'
  BY <1>4
<1> QED BY <1>1, <1>5, <1>7, <1>8, <1>9, HandlerStep DEF Running

\* The writer starts with an empty store ...
LEMMA ClearStep ==
  ASSUME FilesInv, NEW j \in Jobs, Clear(j)
  PROVE  FilesInv'
<1>1. /\ run[j] = "clearing" /\ run' = [run EXCEPT ![j] = "writing"]
      /\ length' = [length EXCEPT ![j] = 0] /\ Held("output", j) = {}
      /\ UNCHANGED <<rowVars, timeVars, chunks, runs, package, request, download, cleaner>>
  BY DEF Clear, Cleared, Moves
<1>2. run'[j] = "writing" /\ length'[j] = 0
  BY <1>1, RunsAt
<1>3. chunks["output"][j] = Full(<<runs[j], 0>>)
  <2>1. chunks["output"][j] \in [Indexes -> (1..MaxRuns) \cup {None}]
    BY RunsAt
  <2>2. \A i \in Indexes : chunks["output"][j][i] = None /\ ~(i < 0)
    BY <1>1, FilesConstants DEF Held, Indexes
  <2> QED BY <2>1, <2>2 DEF Full
<1>4. Attempt(j)'
  BY <1>1, <1>2, <1>3, RunsAt DEF Attempt, DownloadReady, rowVars, timeVars
<1>5. /\ 0 \in 0..MaxChunks /\ package' = [package EXCEPT ![j] = package[j]]
      /\ package[j] \in (0..MaxRuns) \X (0..MaxChunks) /\ run[j] # "idle"
  BY <1>1, RunsAt, FilesConstants
<1>6. ChunksTyped'
  BY <1>1 DEF FilesInv, ChunksTyped
<1> QED BY <1>1, <1>4, <1>5, <1>6, HandlerStep DEF Running

\* ... puts one chunk after the other ...
LEMMA WriteStep ==
  ASSUME FilesInv, NEW j \in Jobs, Write(j)
  PROVE  FilesInv'
<1>1. /\ run[j] = "writing" /\ run' = [run EXCEPT ![j] = "writing"]
      /\ length[j] < MaxChunks /\ length' = [length EXCEPT ![j] = length[j] + 1]
      /\ chunks' = [chunks EXCEPT !["output"][j][length[j]] = runs[j]]
      /\ UNCHANGED <<rowVars, timeVars, runs, package, request, download, cleaner>>
  BY DEF Write, Moves
<1>2. /\ "output" \in Stores /\ length[j] \in Indexes /\ runs[j] \in Holds("output")
      /\ length[j] + 1 \in 0..MaxChunks
  <2>1. runs[j] \in 0..MaxRuns /\ runs[j] > 0 /\ length[j] \in 0..MaxChunks
    BY <1>1, RunsAt DEF Attempt
  <2>2. runs[j] \in 1..MaxRuns
    BY <2>1
  <2> QED BY <1>1, <2>1, <2>2, FilesConstants DEF Indexes, Stores, Holds
<1>3. PICK i \in Indexes, v \in Holds("output") : i = length[j] /\ v = runs[j]
  BY <1>2
<1>4. chunks' = [chunks EXCEPT !["output"][j][i] = v]
  BY <1>1, <1>3
<1>5. /\ ChunksTyped'
      /\ chunks'["output"][j] = [chunks["output"][j] EXCEPT ![i] = v]
      /\ \A t \in Stores, k \in Jobs : t # "output" \/ k # j => chunks'[t][k] = chunks[t][k]
  BY <1>2, <1>4, ChunkPut DEF FilesInv
<1>6. run'[j] = "writing" /\ length'[j] = i + 1 /\ runs'[j] = v
  BY <1>1, <1>3, RunsAt
<1>7. chunks'["output"][j] = Full(<<v, i + 1>>)
  <2>1. chunks["output"][j] = Full(<<v, i>>)
    BY <1>1, <1>3, RunsAt DEF Attempt
  <2>2. \A x \in Indexes : x < i + 1 <=> x < i \/ x = i
    BY FilesConstants DEF Indexes
  <2> QED BY <1>5, <2>1, <2>2 DEF Full
<1>8. Attempt(j)'
  BY <1>1, <1>6, <1>7, RunsAt DEF Attempt, DownloadReady, rowVars, timeVars
<1>9. /\ package' = [package EXCEPT ![j] = package[j]] /\ run[j] # "idle"
      /\ package[j] \in (0..MaxRuns) \X (0..MaxChunks)
      /\ \A k \in Jobs \ {j} : chunks'["output"][k] = chunks["output"][k]
  BY <1>1, <1>2, <1>5, RunsAt
<1>10. ChunksTyped'
  BY <1>5
<1> QED BY <1>1, <1>2, <1>8, <1>9, <1>10, HandlerStep DEF Running

\* ... and its package is complete.
LEMMA EndWriteStep ==
  ASSUME FilesInv, NEW j \in Jobs, EndWrite(j)
  PROVE  FilesInv'
<1>1. /\ run[j] = "writing" /\ run' = [run EXCEPT ![j] = "unstaging"]
      /\ package' = [package EXCEPT ![j] = <<runs[j], length[j]>>]
      /\ UNCHANGED <<rowVars, timeVars, chunks, runs, length, request, download, cleaner>>
  BY DEF EndWrite, Moves
<1>2. run'[j] = "unstaging" /\ package'[j] = <<runs[j], length[j]>>
  BY <1>1, RunsAt
<1>3. Whole(j)'
  BY <1>1, <1>2, RunsAt DEF Attempt, Whole
<1>4. Attempt(j)'
  BY <1>1, <1>2, <1>3, RunsAt DEF Attempt, DownloadReady, rowVars, timeVars
<1>5. /\ length' = [length EXCEPT ![j] = length[j]] /\ length[j] \in 0..MaxChunks
      /\ <<runs[j], length[j]>> \in (0..MaxRuns) \X (0..MaxChunks) /\ run[j] # "idle"
  BY <1>1, RunsAt
<1>6. ChunksTyped'
  BY <1>1 DEF FilesInv, ChunksTyped
<1> QED BY <1>1, <1>4, <1>5, <1>6, HandlerStep DEF Running

-----------------------------------------------------------------------------
(* Downloads *)

LEMMA MinIn ==
  ASSUME NEW S, S \subseteq Nat, S # {}
  PROVE  Min(S) \in S /\ \A y \in S : Min(S) <= y
<1>1. \E n \in S : \A m \in S : ~(<<m, n>> \in OpToRel(<, Nat))
  BY WFMin, NatLessThanWellFounded
<1>2. \A m, n \in Nat : m < n => <<m, n>> \in OpToRel(<, Nat)
  BY DEF OpToRel
<1>3. \E n \in S : \A m \in S : n <= m
  <2>1. PICK n \in S : \A m \in S : ~(<<m, n>> \in OpToRel(<, Nat))
    BY <1>1
  <2>2. \A m \in S : n \in Nat /\ m \in Nat /\ ~(m < n)
    BY <1>2, <2>1
  <2> QED BY <2>2
<1> QED BY <1>3 DEF Min

LEMMA RepeatMore ==
  ASSUME NEW k \in Nat, NEW S, NEW x \in S
  PROVE  /\ Repeat(x, k) \in Seq(S)
         /\ Append(Repeat(x, k), x) = Repeat(x, k + 1)
<1>1. Repeat(x, k) \in Seq(S) /\ Len(Repeat(x, k)) = k
  BY DEF Repeat
<1>2. PICK s \in Seq(S) : s = Repeat(x, k) /\ Len(s) = k
  BY <1>1
<1>3. \A i \in 1..k : s[i] = x
  BY <1>2 DEF Repeat
<1>4. /\ Append(s, x) \in Seq(S) /\ Len(Append(s, x)) = k + 1
      /\ \A i \in 1..k + 1 : Append(s, x)[i] = x
  BY <1>2, <1>3
<1>5. /\ Repeat(x, k + 1) \in Seq(S) /\ Len(Repeat(x, k + 1)) = k + 1
      /\ \A i \in 1..k + 1 : Repeat(x, k + 1)[i] = x
  BY DEF Repeat
<1>6. Append(s, x) = Repeat(x, k + 1)
  <2>1. PICK t \in Seq(S), u \in Seq(S) : t = Append(s, x) /\ u = Repeat(x, k + 1)
    BY <1>4, <1>5
  <2>2. Len(t) = Len(u) /\ \A i \in 1..Len(t) : t[i] = u[i]
    BY <1>4, <1>5, <2>1
  <2>3. t = u
    BY <2>2, SeqEqual
  <2> QED BY <2>1, <2>3
<1> QED BY <1>1, <1>2, <1>6

\* A step of the download alone.
LEMMA OnlyDownload ==
  ASSUME FilesInv, DownloadSound',
         UNCHANGED <<rowVars, timeVars, chunks, runVars, request, cleaner>>
  PROVE  FilesInv'
<1> USE DEF rowVars, timeVars, runVars
<1>1. ChunkRowsTyped' /\ RunsTyped' /\ ChunksTyped' /\ UploadsSound'
  BY DEF FilesInv, ChunkRowsTyped, RunsTyped, ChunksTyped, UploadsSound
<1>2. (\A j \in Jobs : Attempt(j))'
  BY DEF FilesInv, Attempt, Whole, DownloadReady
<1>3. CleanersSound'
  BY DEF FilesInv, CleanersSound, Over, ArtifactExpired
<1> QED BY <1>1, <1>2, <1>3 DEF FilesInv

LEMMA DownloadBeginStep ==
  ASSUME FilesInv, DownloadBegin
  PROVE  FilesInv'
<1>1. PICK j \in Jobs :
        /\ DownloadReady(j)
        /\ download' = [NoDownload EXCEPT !.pc = "listing", !.job = j,
                                          !.inTime = age[j] < ShortTicks]
  BY DEF DownloadBegin
<1>2. UNCHANGED <<rowVars, timeVars, chunks, runVars, request, cleaner>>
  BY DEF DownloadBegin
<1>3. PICK b \in BOOLEAN : b <=> age[j] < ShortTicks
  OBVIOUS
<1> DEFINE d1 == [NoDownload EXCEPT !.pc = "listing"]
           d2 == [d1 EXCEPT !.job = j]
           d == [d2 EXCEPT !.inTime = b]
<1>4. /\ d.pc = "listing" /\ d.job = j /\ (d.inTime <=> b) /\ d.got = <<>>
      /\ download' = d
  <2>1. d.pc = "listing" /\ d.job = j /\ d.inTime = b /\ d.got = <<>>
    BY DEF NoDownload
  <2>2. b = (age[j] < ShortTicks)
    BY <1>3
  <2>3. download' = d
    BY <1>1, <2>2
  <2> QED BY <2>1, <2>3
<1>5. d \in Download
  <2>1. d1 \in Download
    BY FilesConstants DEF Download
  <2> HIDE DEF d1
  <2>2. d2 \in Download
    BY <2>1 DEF Download
  <2> HIDE DEF d2
  <2> QED BY <2>2 DEF Download
<1> HIDE DEF d
<1>6. ASSUME b
      PROVE  Untouched(j)'
  <2>1. /\ direction[j] = "export" /\ status[j] = "succeeded" /\ age[j] < ShortTicks
        /\ run[j] = "idle" /\ Whole(j)
    BY <1>1, <1>3, <1>6 DEF DownloadReady, FilesInv, Attempt
  <2>2. ASSUME NEW c \in Cleaners, <<j, "output">> \in cleaner[c].todo
        PROVE  FALSE
    <3>1. Over(j)
      BY <2>2 DEF FilesInv, CleanersSound
    <3>2. age[j] \in Nat
      BY FilesConstants DEF FilesInv, ChunkRowsTyped
    <3> QED BY <2>1, <3>1, <3>2, FilesConstants DEF Over, ArtifactExpired, Retention
  <2> QED BY <1>2, <2>1, <2>2 DEF Untouched, Still, Whole, rowVars, timeVars, runVars
<1>7. DownloadSound'
  BY <1>4, <1>5, <1>6 DEF DownloadSound
<1> QED BY <1>2, <1>7, OnlyDownload

LEMMA DownloadListStep ==
  ASSUME FilesInv, DownloadList
  PROVE  FilesInv'
<1>1. PICK d \in Download : d = download
  BY DEF FilesInv, DownloadSound
<1>2. PICK j \in Jobs : j = d.job /\ d.pc = "listing"
  BY <1>1 DEF FilesInv, DownloadSound, DownloadList
<1>3. PICK l \in SUBSET Indexes : l = Held("output", j)
  BY DEF Held
<1> DEFINE d1 == [d EXCEPT !.pc = "reading"]
           e == [d1 EXCEPT !.left = l]
<1>4. /\ e.pc = "reading" /\ e.job = j /\ (e.inTime <=> d.inTime) /\ e.left = l /\ e.got = d.got
      /\ download' = e
  BY <1>1, <1>2, <1>3 DEF Download, DownloadList
<1>5. e \in Download
  <2>1. d1 \in Download
    BY DEF Download
  <2> HIDE DEF d1
  <2> QED BY <2>1 DEF Download
<1>6. UNCHANGED <<rowVars, timeVars, chunks, runVars, request, cleaner>>
  BY DEF DownloadList
<1> HIDE DEF e
<1>7. ASSUME d.inTime
      PROVE  /\ (Still(j) /\ ChunkRemains(j))'
             /\ 0 \in 0..package[j][2] /\ l = 0..package[j][2] - 1
  <2>1. Still(j) /\ Whole(j)
    BY <1>1, <1>2, <1>7 DEF FilesInv, DownloadSound, Untouched
  <2>2. /\ package[j][1] \in 0..MaxRuns /\ package[j][2] \in 0..MaxChunks
        /\ package[j][1] # None
    BY RunsAt, FilesConstants
  <2>3. \A i \in Indexes :
          chunks["output"][j][i] = IF i < package[j][2] THEN package[j][1] ELSE None
    BY <2>1 DEF Whole, Full
  <2>4. ChunkRemains(j)
    BY <2>3 DEF ChunkRemains
  <2>5. l = 0..package[j][2] - 1
    BY <1>3, <2>2, <2>3, FilesConstants DEF Held, Indexes
  <2> QED BY <1>6, <2>1, <2>2, <2>4, <2>5 DEF Still, ChunkRemains, rowVars, runVars
<1>8. d.got = <<>>
  BY <1>1, <1>2 DEF FilesInv, DownloadSound
<1>9. DownloadSound'
  BY <1>4, <1>5, <1>6, <1>7, <1>8 DEF DownloadSound, Repeat, runVars
<1> QED BY <1>6, <1>9, OnlyDownload

LEMMA DownloadReadStep ==
  ASSUME FilesInv, DownloadRead
  PROVE  FilesInv'
<1>1. PICK d \in Download : d = download
  BY DEF FilesInv, DownloadSound
<1>2. PICK j \in Jobs : j = d.job /\ d.pc = "reading"
  BY <1>1 DEF FilesInv, DownloadSound, DownloadRead
<1>3. d.left \subseteq Indexes /\ d.left # {} /\ d.got \in Seq(1..MaxRuns)
  BY <1>1 DEF DownloadRead, Download
<1>4. PICK i \in Indexes : i = Min(d.left) /\ i \in d.left /\ \A y \in d.left : i <= y
  <2>1. Indexes \subseteq Nat
    BY FilesConstants DEF Indexes
  <2> QED BY <1>3, <2>1, MinIn
<1>5. PICK c \in 1..MaxRuns : c = chunks["output"][j][i]
  <2>1. chunks["output"][j][i] \in (1..MaxRuns) \cup {None}
    BY RunsAt
  <2> QED BY <1>1, <1>2, <1>4, <2>1 DEF DownloadRead
<1> DEFINE d1 == [d EXCEPT !.left = d.left \ {i}]
           e == [d1 EXCEPT !.got = Append(d.got, c)]
<1>6. /\ e.pc = "reading" /\ e.job = j /\ (e.inTime <=> d.inTime)
      /\ e.left = d.left \ {i} /\ e.got = Append(d.got, c)
      /\ download' = e
  BY <1>1, <1>2, <1>4, <1>5 DEF Download, DownloadRead
<1>7. e \in Download
  <2>1. d1 \in Download
    BY <1>3 DEF Download
  <2>2. Append(d.got, c) \in Seq(1..MaxRuns)
    BY <1>3
  <2> HIDE DEF d1
  <2> QED BY <2>1, <2>2 DEF Download
<1>8. UNCHANGED <<rowVars, timeVars, chunks, runVars, request, cleaner>>
  BY DEF DownloadRead
<1> HIDE DEF e
<1>9. ASSUME d.inTime
      PROVE  /\ (Still(j) /\ ChunkRemains(j))'
             /\ \E k \in 0..package[j][2] :
                  /\ e.got = Repeat(package[j][1], k)
                  /\ e.left = k..package[j][2] - 1
  <2>1. Still(j) /\ ChunkRemains(j)
    BY <1>1, <1>2, <1>9 DEF FilesInv, DownloadSound
  <2>2. PICK k \in 0..package[j][2] :
          d.got = Repeat(package[j][1], k) /\ d.left = k..package[j][2] - 1
    BY <1>1, <1>2, <1>9 DEF FilesInv, DownloadSound
  <2>3. package[j][2] \in Nat
    BY RunsAt
  <2>4. k \in Nat /\ k < package[j][2] /\ i = k
    <3>1. k \in Nat /\ package[j][2] - 1 \in Int /\ i \in k..package[j][2] - 1
      BY <1>4, <2>2, <2>3
    <3>2. k \in d.left
      BY <2>2, <3>1
    <3> QED BY <1>4, <2>3, <3>1, <3>2
  <2>5. c = package[j][1]
    <3>1. c # None
      BY FilesConstants
    <3> QED BY <1>5, <2>1, <3>1 DEF ChunkRemains
  <2>6. e.got = Repeat(package[j][1], k + 1)
    BY <1>6, <2>2, <2>4, <2>5, RepeatMore
  <2>7. e.left = k + 1..package[j][2] - 1
    BY <1>6, <2>2, <2>3, <2>4
  <2>8. k + 1 \in 0..package[j][2]
    BY <2>3, <2>4
  <2> QED BY <1>8, <2>1, <2>6, <2>7, <2>8 DEF Still, ChunkRemains, rowVars, runVars
<1>10. package' = package
  BY <1>8 DEF runVars
<1>11. DownloadSound'
  BY <1>6, <1>7, <1>9, <1>10 DEF DownloadSound
<1> QED BY <1>8, <1>11, OnlyDownload

LEMMA DownloadEndStep ==
  ASSUME FilesInv, DownloadEnd
  PROVE  FilesInv'
<1>1. PICK d \in Download : d = download
  BY DEF FilesInv, DownloadSound
<1>2. PICK j \in Jobs : j = d.job /\ d.pc = "reading" /\ d.left = {}
  BY <1>1 DEF FilesInv, DownloadSound, DownloadEnd
<1> DEFINE e == [d EXCEPT !.pc = "complete"]
<1>3. /\ e.pc = "complete" /\ e.job = j /\ (e.inTime <=> d.inTime) /\ e.got = d.got
      /\ download' = e
  BY <1>1, <1>2 DEF Download, DownloadEnd
<1>4. e \in Download
  BY DEF Download
<1>5. UNCHANGED <<rowVars, timeVars, chunks, runVars, request, cleaner>>
  BY DEF DownloadEnd
<1> HIDE DEF e
<1>6. ASSUME d.inTime
      PROVE  Still(j)' /\ d.got = Repeat(package[j][1], package[j][2])
  <2>1. Still(j)
    BY <1>1, <1>2, <1>6 DEF FilesInv, DownloadSound
  <2>2. PICK k \in 0..package[j][2] :
          d.got = Repeat(package[j][1], k) /\ d.left = k..package[j][2] - 1
    BY <1>1, <1>2, <1>6 DEF FilesInv, DownloadSound
  <2>3. package[j][2] \in Nat
    BY RunsAt
  <2>4. k = package[j][2]
    <3>1. k..package[j][2] - 1 = {}
      BY <1>2, <2>2
    <3>2. k \in Nat /\ k <= package[j][2]
      BY <2>3
    <3>3. ~(k \in k..package[j][2] - 1)
      BY <3>1
    <3> QED BY <2>3, <3>2, <3>3
  <2> QED BY <1>5, <2>1, <2>2, <2>4 DEF Still, rowVars, runVars
<1>7. DownloadSound'
  BY <1>3, <1>4, <1>5, <1>6 DEF DownloadSound, runVars
<1> QED BY <1>5, <1>7, OnlyDownload

LEMMA DownloadCloseStep ==
  ASSUME FilesInv, DownloadClose
  PROVE  FilesInv'
<1>1. download' = NoDownload /\ NoDownload.pc = "idle"
  BY DEF DownloadClose, NoDownload
<1>2. DownloadSound'
  BY <1>1, FilesConstants DEF DownloadSound
<1> QED BY <1>2, OnlyDownload DEF DownloadClose

-----------------------------------------------------------------------------
(* Cleaners *)

\* What has expired will not run again.
LEMMA ExpiredOver ==
  ASSUME FilesInv, NEW j \in Jobs, ArtifactExpired(j)
  PROVE  Over(j) /\ ~Untouched(j)
<1>1. age[j] \in Nat /\ age[j] >= Retention(status[j]) /\ Retention(status[j]) \in Nat \ {0}
  BY FilesConstants DEF ArtifactExpired, Retention, FilesInv, ChunkRowsTyped
<1>2. Attempt(j)
  BY DEF FilesInv
<1>3. run[j] = "idle"
  BY <1>1, <1>2 DEF ArtifactExpired, Attempt, Terminal
<1>4. ~Untouched(j)
  BY <1>1, FilesConstants DEF Untouched, Still, ArtifactExpired, Retention, Terminal
<1> QED BY <1>3, <1>4 DEF Over

\* A step of a cleaner alone: it takes on nothing but jobs that have expired.
LEMMA OnlyCleaner ==
  ASSUME FilesInv, NEW c \in Cleaners, NEW q \in Cleanup,
         cleaner' = [cleaner EXCEPT ![c] = q],
         \A t \in q.todo : t \in cleaner[c].todo \/ ArtifactExpired(t[1]),
         UNCHANGED <<rowVars, timeVars, chunks, runVars, request, download>>
  PROVE  FilesInv'
<1> USE DEF rowVars, timeVars, runVars
<1>1. ChunkRowsTyped' /\ RunsTyped' /\ ChunksTyped' /\ UploadsSound'
  BY DEF FilesInv, ChunkRowsTyped, RunsTyped, ChunksTyped, UploadsSound
<1>2. (\A j \in Jobs : Attempt(j))'
  BY DEF FilesInv, Attempt, Whole, DownloadReady
<1>3. /\ cleaner \in [Cleaners -> Cleanup] /\ cleaner' \in [Cleaners -> Cleanup]
      /\ cleaner'[c] = q /\ \A b \in Cleaners \ {c} : cleaner'[b] = cleaner[b]
  BY DEF FilesInv, CleanersSound
<1>4. ASSUME NEW b \in Cleaners, NEW t \in cleaner'[b].todo
      PROVE  t[1] \in Jobs /\ (t \in cleaner[b].todo \/ ArtifactExpired(t[1]))
  <2>1. cleaner'[b].todo \subseteq Jobs \X Stores
    BY <1>3 DEF Cleanup
  <2> QED BY <1>3, <2>1
<1>5. CleanersSound'
  <2>1. ASSUME NEW b \in Cleaners, NEW t \in cleaner'[b].todo
        PROVE  Over(t[1])
    BY <1>4, ExpiredOver DEF FilesInv, CleanersSound
  <2>2. \A j \in Jobs : Over(j) => Over(j)'
    BY DEF Over, ArtifactExpired
  <2> QED BY <1>3, <1>4, <2>1, <2>2 DEF CleanersSound
<1>6. ASSUME NEW j \in Jobs, Untouched(j)
      PROVE  Untouched(j)'
  <2>1. \A b \in Cleaners : <<j, "output">> \notin cleaner'[b].todo
    BY <1>4, <1>6, ExpiredOver DEF Untouched
  <2> QED BY <1>6, <2>1 DEF Untouched, Still, Whole
<1>7. DownloadSound'
  BY <1>6 DEF FilesInv, DownloadSound, Still, ChunkRemains
<1> QED BY <1>1, <1>2, <1>5, <1>7 DEF FilesInv

LEMMA ScanStep ==
  ASSUME FilesInv, NEW c \in Cleaners, Scan(c)
  PROVE  FilesInv'
<1>1. PICK e \in SUBSET Jobs, o \in SUBSET Jobs :
        /\ e = {j \in Jobs : ArtifactExpired(j)}
        /\ o = {j \in Jobs : status[j] # "deleted" /\ life[j] >= JobTicks}
  OBVIOUS
<1> DEFINE q == [pc |-> "cleaning", todo |-> e \X Cleaned, overdue |-> o, failed |-> FALSE]
<1>2. cleaner' = [cleaner EXCEPT ![c] = q]
  BY <1>1 DEF Scan
<1>3. q \in Cleanup
  BY DEF Cleanup, Cleaned
<1>4. \A t \in q.todo : ArtifactExpired(t[1])
  BY <1>1
<1> HIDE DEF q
<1> QED BY <1>2, <1>3, <1>4, OnlyCleaner DEF Scan

\* Removed and RemoveFails: one store of one job less to delete.
LEMMA RemovedStep ==
  ASSUME FilesInv, NEW c \in Cleaners, NEW j \in Jobs, NEW s \in Stores,
         Removed(c, j, s) \/ RemoveFails(c, j, s)
  PROVE  FilesInv'
<1>1. PICK p \in Cleanup : p = cleaner[c]
  BY DEF FilesInv, CleanersSound
<1>2. PICK todo \in SUBSET (Jobs \X Stores) : todo = p.todo \ {<<j, s>>}
  BY DEF Cleanup
<1> DEFINE q1 == [p EXCEPT !.todo = todo]
           q2 == [q1 EXCEPT !.failed = TRUE]
<1>3. q1 \in Cleanup /\ q1.todo = todo
  BY DEF Cleanup
<1>4. q2 \in Cleanup /\ q2.todo = todo
  <2> HIDE DEF q1
  <2> QED BY <1>3 DEF Cleanup
<1>5. cleaner' = [cleaner EXCEPT ![c] = q1] \/ cleaner' = [cleaner EXCEPT ![c] = q2]
  BY <1>1, <1>2 DEF Removed, RemoveFails, FilesInv, CleanersSound
<1>6. todo \subseteq cleaner[c].todo
  BY <1>1, <1>2
<1> HIDE DEF q1, q2
<1> QED BY <1>3, <1>4, <1>5, <1>6, OnlyCleaner DEF Removed, RemoveFails

\* A cleaner deletes a chunk: of a package that is out of date, or of another store.
LEMMA RemoveChunkStep ==
  ASSUME FilesInv, NEW c \in Cleaners, NEW j \in Jobs, NEW s \in Stores, RemoveChunk(c, j, s)
  PROVE  FilesInv'
<1> USE DEF rowVars, timeVars, runVars
<1>1. PICK i \in Indexes : chunks' = [chunks EXCEPT ![s][j][i] = None]
  BY DEF RemoveChunk, Held
<1>2. <<j, s>> \in cleaner[c].todo /\ Over(j)
  BY DEF RemoveChunk, FilesInv, CleanersSound
<1>3. UNCHANGED <<rowVars, timeVars, runVars, request, download, cleaner>>
  BY DEF RemoveChunk
<1>4. /\ ChunksTyped'
      /\ \A t \in Stores, k \in Jobs : t # s \/ k # j => chunks'[t][k] = chunks[t][k]
  <2>1. None \in Holds(s)
    BY DEF Holds
  <2> QED BY <1>1, <2>1, ChunkPut DEF FilesInv
<1>5. "output" \in Stores
  BY DEF Stores
<1>6. ASSUME NEW k \in Jobs, k # j \/ s # "output"
      PROVE  chunks'["output"][k] = chunks["output"][k]
  BY <1>4, <1>5, <1>6
<1>7. ASSUME NEW k \in Jobs
      PROVE  Attempt(k)'
  <2>1. Attempt(k)
    BY DEF FilesInv
  <2>2. CASE k # j
    BY <1>3, <1>6, <2>1, <2>2 DEF Attempt, Whole, DownloadReady
  <2>3. CASE k = j
    <3>1. run[j] = "idle" /\ ~(DownloadReady(j) /\ age[j] < ShortTicks)
      <4>1. age[j] \in Nat
        BY FilesConstants DEF FilesInv, ChunkRowsTyped
      <4> QED BY <1>2, <4>1, FilesConstants DEF Over, ArtifactExpired, DownloadReady, Retention
    <3> QED BY <1>3, <2>3, <3>1 DEF Attempt, DownloadReady
  <2> QED BY <2>2, <2>3
<1>8. ASSUME NEW k \in Jobs, Untouched(k)
      PROVE  Untouched(k)'
  BY <1>2, <1>3, <1>6, <1>8 DEF Untouched, Still, Whole
<1>9. ASSUME NEW k \in Jobs, ChunkRemains(k)
      PROVE  ChunkRemains(k)'
  <2>1. CASE k # j \/ s # "output"
    BY <1>3, <1>6, <1>9, <2>1 DEF ChunkRemains
  <2>2. CASE k = j /\ s = "output"
    <3>1. \A x \in Indexes : chunks'["output"][j][x] # None =>
            chunks'["output"][j][x] = chunks["output"][j][x]
      BY <1>1, <1>5, <2>2 DEF FilesInv, ChunksTyped
    <3> QED BY <1>3, <1>9, <2>2, <3>1 DEF ChunkRemains
  <2> QED BY <2>1, <2>2
<1>10. DownloadSound'
  BY <1>3, <1>8, <1>9 DEF FilesInv, DownloadSound, Still
<1>11. ChunkRowsTyped' /\ RunsTyped' /\ UploadsSound'
  BY <1>3 DEF FilesInv, ChunkRowsTyped, RunsTyped, UploadsSound
<1>12. CleanersSound'
  BY <1>3 DEF FilesInv, CleanersSound, Over, ArtifactExpired
<1> QED BY <1>4, <1>7, <1>10, <1>11, <1>12 DEF FilesInv

\* The rows that are overdue go.
LEMMA PurgeStep ==
  ASSUME FilesInv, NEW c \in Cleaners, Purge(c)
  PROVE  FilesInv'
<1> USE DEF timeVars, runVars
<1>1. PICK gone \in SUBSET Jobs :
        status' = [j \in Jobs |-> IF j \in gone THEN "deleted" ELSE status[j]]
  <2>1. PICK gone \in SUBSET Jobs : gone = {j \in Purged(c) : status[j] # "deleted"}
    <3>1. Purged(c) \subseteq Jobs
      BY DEF Purged, FilesInv, CleanersSound, Cleanup
    <3> QED BY <3>1
  <2> QED BY <2>1 DEF Purge
<1>2. /\ UNCHANGED <<direction, uploaded, received, timeVars, chunks, runVars, request, download>>
      /\ cleaner' = [cleaner EXCEPT ![c] = NoCleanup]
  BY DEF Purge
<1>3. \A j \in Jobs : status'[j] = status[j] \/ status'[j] = "deleted"
  BY <1>1
<1>4. ChunkRowsTyped'
  <2>1. status' \in [Jobs -> Active \cup Terminal \cup {"deleted"}]
    BY <1>1 DEF FilesInv, ChunkRowsTyped
  <2> QED BY <1>2, <2>1 DEF FilesInv, ChunkRowsTyped
<1>5. RunsTyped' /\ ChunksTyped' /\ UploadsSound'
  BY <1>2 DEF FilesInv, RunsTyped, ChunksTyped, UploadsSound
<1>6. ASSUME NEW j \in Jobs
      PROVE  Attempt(j)'
  BY <1>2, <1>3 DEF FilesInv, Attempt, Whole, DownloadReady
<1>7. /\ cleaner' \in [Cleaners -> Cleanup]
      /\ \A b \in Cleaners : cleaner'[b].todo \subseteq cleaner[b].todo
  <2>1. NoCleanup.todo = {}
    BY DEF NoCleanup
  <2> QED BY <1>2, <2>1, FilesConstants DEF FilesInv, CleanersSound
<1>8. CleanersSound'
  <2>1. ASSUME NEW b \in Cleaners, NEW t \in cleaner'[b].todo
        PROVE  Over(t[1])'
    <3>1. t[1] \in Jobs /\ Over(t[1])
      BY <1>7 DEF FilesInv, CleanersSound, Cleanup
    <3> QED BY <1>2, <1>3, <3>1 DEF Over, ArtifactExpired
  <2> QED BY <1>7, <2>1 DEF CleanersSound
<1>9. ASSUME NEW j \in Jobs
      PROVE  /\ Still(j) => Still(j)'
             /\ Untouched(j) => Untouched(j)'
             /\ ChunkRemains(j) => ChunkRemains(j)'
  BY <1>2, <1>3, <1>7 DEF Still, Untouched, ChunkRemains, Whole
<1>10. DownloadSound'
  BY <1>2, <1>9 DEF FilesInv, DownloadSound
<1> QED BY <1>4, <1>5, <1>6, <1>8, <1>10 DEF FilesInv

\* A tick passes: what has expired stays expired, what is stopped has settled, and a
\* download that still has to list its package has done so.
LEMMA FilesTickStep ==
  ASSUME FilesInv, FilesTick
  PROVE  FilesInv'
<1> USE DEF rowVars, runVars
<1>1. /\ UNCHANGED <<rowVars, chunks, runVars, request, download, cleaner>>
      /\ age' = [j \in Jobs |-> Earlier(age[j], MaxAge)]
      /\ life' = [j \in Jobs |-> Earlier(life[j], JobTicks)]
  BY DEF FilesTick
<1>2. /\ age \in [Jobs -> 0..MaxAge] /\ life \in [Jobs -> 0..JobTicks]
      /\ MaxAge \in Nat /\ JobTicks \in Nat
  BY FilesConstants DEF FilesInv, ChunkRowsTyped
<1>3. \A j \in Jobs : age[j] \in 0..MaxAge /\ age'[j] \in 0..MaxAge /\ age[j] <= age'[j]
  BY <1>1, <1>2 DEF Earlier
<1>4. ChunkRowsTyped'
  <2>1. age' \in [Jobs -> 0..MaxAge]
    BY <1>1, <1>2 DEF Earlier
  <2>2. life' \in [Jobs -> 0..JobTicks]
    BY <1>1, <1>2 DEF Earlier
  <2> QED BY <1>1, <2>1, <2>2 DEF FilesInv, ChunkRowsTyped
<1>5. RunsTyped' /\ ChunksTyped' /\ UploadsSound'
  BY <1>1 DEF FilesInv, RunsTyped, ChunksTyped, UploadsSound
<1>6. ASSUME NEW j \in Jobs
      PROVE  Attempt(j)'
  <2>1. run[j] # "idle" => status[j] # "cancelled"
    BY DEF FilesTick, Prompt, Active
  <2>2. age'[j] < ShortTicks => age[j] < ShortTicks
    BY <1>3, FilesConstants
  <2> QED BY <1>1, <2>1, <2>2 DEF FilesInv, Attempt, Whole, DownloadReady
<1>7. CleanersSound'
  <2>1. ASSUME NEW j \in Jobs, Over(j)
        PROVE  Over(j)'
    <3>1. Retention(status[j]) \in Nat
      BY FilesConstants DEF Retention
    <3>2. age[j] >= Retention(status[j]) => age'[j] >= Retention(status[j])
      BY <1>2, <1>3, <3>1
    <3> QED BY <1>1, <2>1, <3>2 DEF Over, ArtifactExpired
  <2>2. \A b \in Cleaners : \A t \in cleaner[b].todo : t[1] \in Jobs /\ Over(t[1])
    BY DEF FilesInv, CleanersSound, Cleanup
  <2> QED BY <1>1, <2>1, <2>2 DEF FilesInv, CleanersSound
<1>8. DownloadSound'
  <2>1. download.pc # "listing"
    BY DEF FilesTick, Prompt
  <2> QED BY <1>1, <2>1 DEF FilesInv, DownloadSound, Still, ChunkRemains
<1> QED BY <1>4, <1>5, <1>6, <1>7, <1>8 DEF FilesInv

-----------------------------------------------------------------------------
(* The specification *)

LEMMA FilesInitially ==
  ASSUME FilesInit
  PROVE  FilesInv
<1> USE FilesConstants DEF FilesInit
<1>1. ChunkRowsTyped
  BY DEF ChunkRowsTyped, Active
<1>2. RunsTyped
  <2>1. <<0, 0>> \in (0..MaxRuns) \X (0..MaxChunks)
    OBVIOUS
  <2> QED BY <2>1 DEF RunsTyped
<1>3. ChunksTyped
  <2>1. /\ Empty \in [Indexes -> Chunk] /\ \A s \in Stores : Empty \in [Indexes -> Holds(s)]
    BY DEF Empty, Chunk, Holds
  <2>2. chunks \in [Stores -> [Jobs -> [Indexes -> Chunk]]]
    BY <2>1
  <2>3. \A s \in Stores, j \in Jobs : chunks[s][j] = Empty
    OBVIOUS
  <2> QED BY <2>1, <2>2, <2>3 DEF ChunksTyped
<1>4. UploadsSound
  <2>1. Resting.pc = "idle"
    BY DEF Resting
  <2> QED BY <2>1 DEF UploadsSound
<1>5. \A j \in Jobs : Attempt(j)
  BY DEF Attempt, DownloadReady
<1>6. CleanersSound
  <2>1. NoCleanup.todo = {}
    BY DEF NoCleanup
  <2> QED BY <2>1 DEF CleanersSound
<1>7. DownloadSound
  <2>1. NoDownload.pc = "idle"
    BY DEF NoDownload
  <2> QED BY <2>1 DEF DownloadSound
<1> QED BY <1>1, <1>2, <1>3, <1>4, <1>5, <1>6, <1>7 DEF FilesInv

LEMMA FilesStutter ==
  ASSUME FilesInv, UNCHANGED filesVars
  PROVE  FilesInv'
<1> USE DEF filesVars, rowVars, timeVars, runVars
<1>1. ChunkRowsTyped' /\ RunsTyped' /\ ChunksTyped' /\ UploadsSound'
  BY DEF FilesInv, ChunkRowsTyped, RunsTyped, ChunksTyped, UploadsSound
<1>2. (\A j \in Jobs : Attempt(j))'
  BY DEF FilesInv, Attempt, Whole, DownloadReady
<1>3. CleanersSound'
  BY DEF FilesInv, CleanersSound, Over, ArtifactExpired
<1>4. DownloadSound'
  BY DEF FilesInv, DownloadSound, Untouched, Still, Whole, ChunkRemains
<1> QED BY <1>1, <1>2, <1>3, <1>4 DEF FilesInv

LEMMA FilesStep ==
  ASSUME FilesInv, [FilesNext]_filesVars
  PROVE  FilesInv'
<1>1. ASSUME NEW r \in Requests, PutBegin(r) \/ CompleteBegin(r) \/ RequestStep(r)
      PROVE  FilesInv'
  BY <1>1, PutBeginStep, CompleteBeginStep, PutStoreStep, BytesReadStep, RecordStep, RefusedStep
     DEF RequestStep
<1>2. ASSUME NEW j \in Jobs, Preview(j) \/ Cancel(j) \/ Begin(j) \/ Crash(j)
      PROVE  FilesInv'
  BY <1>2, PreviewStep, FilesCancelStep, BeginStep, CrashStep
<1>3. ASSUME NEW j \in Jobs, RunStep(j)
      PROVE  FilesInv'
  BY <1>3, EraseStep, StageStep, ClearStep, WriteStep, EndWriteStep, OnlyMovesStep, FinishStep,
     BreakStep, SettleStep DEF RunStep
<1>4. ASSUME DownloadBegin \/ DownloadStep
      PROVE  FilesInv'
  BY <1>4, DownloadBeginStep, DownloadListStep, DownloadReadStep, DownloadEndStep,
     DownloadCloseStep DEF DownloadStep
<1>5. ASSUME NEW c \in Cleaners, CleanStep(c)
      PROVE  FilesInv'
  BY <1>5, ScanStep, PurgeStep, RemoveChunkStep, RemovedStep DEF CleanStep
<1> QED BY <1>1, <1>2, <1>3, <1>4, <1>5, FilesTickStep, FilesStutter DEF FilesNext

LEMMA FilesAlways == FilesSpec => []FilesInv
<1>1. FilesInit => FilesInv
  BY FilesInitially
<1>2. FilesInv /\ [FilesNext]_filesVars => FilesInv'
  BY FilesStep
<1> QED BY <1>1, <1>2, PTL DEF FilesSpec

\* Every variable of the file services keeps its type, the stores hold client contents in
\* "source" and chunks of numbered runs elsewhere, whatever fails, crashes or is deleted.
THEOREM FilesTyped == FilesSpec => []FilesTypeOK
<1>1. FilesInv => FilesTypeOK
  BY DEF FilesInv, ChunkRowsTyped, RunsTyped, ChunksTyped, FilesTypeOK, Stores, Holds
<1> QED BY <1>1, FilesAlways, PTL

\* The output store of a succeeded export holds, for the 24 h its package is kept, exactly
\* the package that its run completed: no chunk of a run that crashed or failed before, and
\* none lost to a cleanup (TransferCleanupService) or a handler that is too late.
THEOREM OutputIsKept == FilesSpec => []OutputKept
<1>1. FilesInv => OutputKept
  BY DEF FilesInv, Attempt, Whole, Full, OutputKept
<1> QED BY <1>1, FilesAlways, PTL

\* A download that opens within the 24 h ends in an error or yields the whole package, in
\* order, although a cleanup may delete its chunks while they are streamed.
THEOREM DownloadsAreWhole == FilesSpec => []WholeDownloads
<1>1. FilesInv => WholeDownloads
  BY DEF FilesInv, DownloadSound, Repeat, WholeDownloads
<1> QED BY <1>1, FilesAlways, PTL
=============================================================================
