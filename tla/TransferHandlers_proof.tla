----------------------- MODULE TransferHandlers_proof -----------------------
(* Theorems about the attempts of the transfer handlers.                      *)
EXTENDS TransferHandlers, FiniteSetTheorems, TLAPS

-----------------------------------------------------------------------------
(* The invariant.  SucceededComplete and StoppedReported speak of the end of *)
(* an attempt; what follows says the same of every place on the way.         *)

Settling == {"accepting", "recording", "finishing"}
Stopping == {"marking", "telling"}
Stopped == run.pc \in Stopping \/ (run.pc = "ended" /\ run.verdict \in {"failed", "cancelled"})

\* Before the data an attempt has done nothing.
Unstarted ==
  run.pc \in {"idle", "checking", "starting", "opening"} =>
    run.next = 1 /\ run.open = {} /\ run.applied = 0 /\ run.kept = 0 /\ ~run.murky

\* Which jobs come to which places, and with which verdict.
Placed ==
  /\ run.next \in 1..(Pieces + 1) /\ run.open \subseteq 1..(run.next - 1)
  /\ run.pc = "committing" => ~IsExport /\ (Batched \/ (Whole /\ run.next > Pieces))
  /\ run.pc = "packing" => task.kind \in Packaged
  /\ run.pc = "recording" => ~IsRestore
  /\ run.pc = "discarding" => IsExport
  /\ run.pc \in Stopping \cup {"discarding"} => run.verdict \in {"failed", "cancelled"}

\* Every piece an import or restore is through with is in the open transaction or in effect.
Written ==
  ~IsExport =>
    /\ run.pc \in {"working", "committing"} =>
         \A p \in 1..(run.next - 1) : p \in run.open \/ effect[p] > 0
    /\ run.pc = "working" /\ Batched => run.next <= Pieces
    /\ ~Whole /\ ~Batched => run.open = {}
    /\ run.pc \in Settling => \A p \in 1..Pieces : effect[p] > 0

\* The first n pieces, all of the attempt's snapshot.
Filled(store, n) ==
  store \in Seq(Nat) /\ Len(store) = n /\ \A i \in 1..n : store[i] = run.snapshot
Exported ==
  /\ run.snapshot \in 0..source
  /\ IsExport =>
       /\ run.pc = "working" =>
            Filled(IF task.kind \in Packaged THEN staging ELSE package, run.next - 1)
       /\ run.pc = "packing" => Filled(staging, Pieces)
       /\ run.pc \in Settling => Filled(package, Pieces)
       /\ run.pc = "finishing" => "success" \in trail

\* An export whose row says "succeeded", with no update that lied, is over and untouched.
Finished ==
  jobRow.status = "succeeded" =>
    IF ~IsExport THEN \A p \in 1..Pieces : effect[p] > 0
    ELSE run.lied \/ /\ run.pc = "ended" /\ run.verdict = "ok"
                     /\ \E v \in 0..source : package = [p \in 1..Pieces |-> v]
                     /\ "success" \in trail

\* What is left in the stores of an export.
Emptied ==
  /\ task.kind = "friendly-csv" => staging = <<>>
  /\ task.kind = "sql-dump" /\ run.pc \notin {"working", "packing"} =>
       run.litter \/ staging = <<>>
  /\ IsExport /\ Stopped => run.litter \/ (staging = <<>> /\ package = <<>>)

\* What an import or restore counts: the pieces that a restore has sent but not counted
\* are rows of an unfinished data entry.
Uncounted(n) == {q \in 1..(n - 1) : ~Counts(q)}
Counted ==
  ~IsExport /\ ~run.murky =>
    /\ Whole /\ run.pc \notin Settling /\ ~(run.pc = "ended" /\ run.verdict = "ok") =>
         run.kept = 0
    /\ Batched => run.applied = run.kept
    /\ ~Whole /\ ~Batched => run.kept = run.applied + Cardinality(Uncounted(run.next))

HandlersInv ==
  /\ HandlersTypeOK
  /\ Unstarted /\ Placed /\ Written /\ Exported /\ Finished /\ Emptied /\ Counted
-----------------------------------------------------------------------------
(* Facts about jobs and attempts *)

LEMMA TaskFacts ==
  ASSUME HandlersTypeOK
  PROVE  /\ task.transaction \in {"atomic", "batch"}
         /\ task.kind \in Packaged => IsExport
         /\ task.kind \in {"sql-dump", "json-export", "csv-export"} <=> task.kind \in Packaged
         /\ task.kind = "friendly-csv" => IsExport
         /\ IsExport <=> (task.kind \in Packaged \/ task.kind = "friendly-csv")
         /\ ~(IsExport /\ IsRestore) /\ ~(Whole /\ Batched) /\ ~(IsRestore /\ Batched)
         /\ ~IsExport /\ ~IsRestore => Whole \/ Batched
<1>1. TaskOK(task)
  BY HandlersAssumption DEF HandlersTypeOK
<1> QED BY <1>1 DEF TaskOK, IsExport, IsRestore, Whole, Batched, Exports, Packaged, Imports

LEMMA SameTask ==
  ASSUME task' = task
  PROVE  /\ (IsExport' <=> IsExport) /\ (IsRestore' <=> IsRestore)
         /\ (Whole' <=> Whole) /\ (Batched' <=> Batched)
  BY DEF IsExport, IsRestore, Whole, Batched

LEMMA AttemptFacts ==
  ASSUME NEW r \in Attempt
  PROVE  /\ r.next \in Nat /\ r.open \subseteq Nat /\ r.applied \in Nat /\ r.kept \in Nat
         /\ r.stop \in BOOLEAN /\ r.snapshot \in Nat /\ r.murky \in BOOLEAN /\ r.lied \in BOOLEAN
         /\ r.litter \in BOOLEAN
         /\ r.verdict \in {"none", "ok", "refused", "failed", "cancelled"}
  BY DEF Attempt

\* What can be counted is finite.
LEMMA OpenFinite ==
  ASSUME HandlersTypeOK, Placed
  PROVE  IsFiniteSet(run.open) /\ Cardinality(run.open) \in Nat
<1>1. run.next - 1 \in Int
  BY DEF HandlersTypeOK, Attempt
<1>2. IsFiniteSet(1..(run.next - 1))
  BY <1>1, FS_Interval
<1>3. IsFiniteSet(run.open)
  BY <1>2, FS_Subset DEF Placed
<1> QED BY <1>3, FS_CardinalityType

LEMMA FreshFacts ==
  ASSUME NEW pc \in {"idle", "checking"}, NEW lied \in BOOLEAN, NEW litter \in BOOLEAN,
         run' = Fresh(pc, lied, litter)
  PROVE  /\ run' \in Attempt /\ run'.pc = pc /\ run'.next = 1 /\ run'.open = {}
         /\ run'.applied = 0 /\ run'.kept = 0 /\ run'.verdict = "none" /\ run'.snapshot = 0
         /\ ~run'.murky /\ run'.lied = lied /\ run'.litter = litter
  BY DEF Fresh, Attempt

LEMMA GoFacts ==
  ASSUME run \in Attempt,
         NEW pc \in {"idle", "checking", "starting", "opening", "working", "committing", "packing",
                     "accepting", "recording", "finishing", "discarding", "marking", "telling",
                     "ended"},
         Go(pc)
  PROVE  /\ run' \in Attempt /\ run'.pc = pc /\ run'.next = run.next /\ run'.open = run.open
         /\ run'.applied = run.applied /\ run'.kept = run.kept /\ run'.verdict = run.verdict
         /\ run'.snapshot = run.snapshot /\ run'.murky = run.murky /\ run'.lied = run.lied
         /\ run'.litter = run.litter
  BY DEF Go, Attempt

LEMMA ThrowFacts ==
  ASSUME NEW r \in Attempt, Throw(r)
  PROVE  /\ run' \in Attempt /\ run'.pc = (IF IsExport THEN "discarding" ELSE "marking")
         /\ run'.open = {} /\ run'.verdict \in {"failed", "cancelled"}
         /\ run'.next = r.next /\ run'.applied = r.applied /\ run'.kept = r.kept
         /\ run'.snapshot = r.snapshot /\ run'.murky = r.murky /\ run'.lied = r.lied
         /\ run'.litter = r.litter
<1>1. run' = [r EXCEPT !.pc = IF IsExport THEN "discarding" ELSE "marking", !.open = {},
                       !.verdict = IF r.stop THEN "cancelled" ELSE "failed"]
  BY DEF Throw
<1>2. CASE IsExport /\ r.stop
  BY <1>1, <1>2 DEF Attempt
<1>3. CASE IsExport /\ ~r.stop
  BY <1>1, <1>3 DEF Attempt
<1>4. CASE ~IsExport /\ r.stop
  BY <1>1, <1>4 DEF Attempt
<1>5. CASE ~IsExport /\ ~r.stop
  BY <1>1, <1>5 DEF Attempt
<1> QED BY <1>2, <1>3, <1>4, <1>5

\* Effects are never undone.
LEMMA PersistFacts ==
  ASSUME HandlersTypeOK, NEW pieces, Persist(pieces)
  PROVE  /\ effect' \in [1..Pieces -> Nat]
         /\ \A p \in 1..Pieces : effect[p] > 0 \/ p \in pieces => effect'[p] > 0
<1>1. effect \in [1..Pieces -> Nat]
  BY DEF HandlersTypeOK
<1>2. effect' \in [1..Pieces -> Nat]
  BY <1>1 DEF Persist
<1>3. ASSUME NEW p \in 1..Pieces, effect[p] > 0 \/ p \in pieces PROVE effect'[p] > 0
  BY <1>1, <1>3 DEF Persist, Rewrites
<1> QED BY <1>2, <1>3

\* Of a status other than "succeeded" nothing is claimed.
LEMMA MovesFacts ==
  ASSUME HandlersTypeOK, NEW to, Moves(jobRow.status, to)
  PROVE  jobRow.status \in {"previewed", "running"}
  BY DEF Moves, HandlersTypeOK

-----------------------------------------------------------------------------
(* The invariant is kept *)

LEMMA HandlersInitially == HandlersInit => HandlersInv
<1> SUFFICES ASSUME HandlersInit PROVE HandlersInv
  OBVIOUS
<1>1. run \in Attempt /\ run.pc = "idle" /\ run.next = 1 /\ run.open = {} /\ run.applied = 0
      /\ run.kept = 0 /\ ~run.murky /\ run.verdict = "none" /\ run.snapshot = 0
  BY DEF HandlersInit, Fresh, Attempt
<1>2. HandlersTypeOK
  <2>1. /\ jobRow \in [status : {"previewed", "running", "succeeded", "failed", "cancelled"},
                       rows : Nat]
        /\ effect \in [1..Pieces -> Nat] /\ staging \in Seq(Nat) /\ package \in Seq(Nat)
    BY DEF HandlersInit
  <2>2. 0 \in 0..MaxEdits /\ 0 \in 0..MaxTries /\ 0 \in 0..MaxTroubles
    BY HandlersAssumption
  <2> QED BY <1>1, <2>1, <2>2 DEF HandlersInit, HandlersTypeOK
<1>3. Unstarted /\ Placed /\ Written
  BY <1>1, HandlersAssumption DEF Unstarted, Placed, Written, Settling, Stopping
<1>4. jobRow.status = "previewed" /\ staging = <<>> /\ source = 0
  BY DEF HandlersInit
<1>6. Exported /\ Finished
  BY <1>1, <1>4 DEF Exported, Finished, Settling
<1>7. Emptied
  BY <1>1, <1>4 DEF Emptied, Stopped, Stopping
<1>5. Counted
  <2>1. 1..(run.next - 1) = {}
    BY <1>1
  <2>2. Uncounted(run.next) = {}
    BY <2>1 DEF Uncounted
  <2> QED BY <1>1, <2>2, FS_EmptySet DEF Counted
<1> QED BY <1>2, <1>3, <1>5, <1>6, <1>7 DEF HandlersInv

\* A row that says "succeeded" of a job whose attempt is under way.
LEMMA Underway ==
  ASSUME HandlersInv, run.pc # "ended", jobRow.status = "succeeded"
  PROVE  IF IsExport THEN run.lied ELSE \A p \in 1..Pieces : effect[p] > 0
  BY DEF HandlersInv, Finished

\* An attempt stops: r is its record with what the error changes in it.
LEMMA Stops ==
  ASSUME HandlersInv, NEW r \in Attempt, Throw(r), HandlersTypeOK', UNCHANGED <<task, source>>,
         r.next = run.next, r.snapshot = run.snapshot, run.litter => r.litter,
         run.pc \notin {"idle", "checking", "ended"},
         jobRow'.status = "succeeded" =>
           IF IsExport THEN r.lied ELSE \A p \in 1..Pieces : effect'[p] > 0,
         task.kind = "friendly-csv" => staging' = <<>>,
         task.kind = "sql-dump" => r.litter \/ staging' = <<>>,
         ~IsExport /\ ~r.murky =>
           /\ Whole => r.kept = 0
           /\ Batched => r.applied = r.kept
           /\ ~Whole /\ ~Batched => r.kept = r.applied + Cardinality(Uncounted(r.next))
  PROVE  HandlersInv'
<1>1. /\ run'.pc = (IF IsExport THEN "discarding" ELSE "marking")
      /\ run'.open = {} /\ run'.verdict \in {"failed", "cancelled"}
      /\ run'.next = r.next /\ run'.applied = r.applied /\ run'.kept = r.kept
      /\ run'.snapshot = r.snapshot /\ run'.murky = r.murky /\ run'.lied = r.lied
      /\ run'.litter = r.litter
  BY ThrowFacts
<1>2. /\ (IsExport' <=> IsExport) /\ (IsRestore' <=> IsRestore)
      /\ (Whole' <=> Whole) /\ (Batched' <=> Batched)
  BY SameTask
<1>3. Unstarted' /\ Placed'
  BY <1>1, <1>2 DEF HandlersInv, Unstarted, Placed, Stopping
<1>4. Written'
  BY <1>1, <1>2 DEF Written, Settling
<1>5. Exported'
  BY <1>1, <1>2 DEF HandlersInv, Exported, Settling
<1>6. Finished'
  BY <1>1, <1>2 DEF Finished
<1>7. Emptied'
  BY <1>1, <1>2 DEF Emptied, Stopped, Stopping
<1>8. Counted'
  <2>1. Uncounted(run.next)' = Uncounted(r.next)
    BY <1>1 DEF Uncounted, Counts
  <2> QED BY <1>1, <1>2, <2>1 DEF Counted
<1> QED BY <1>3, <1>4, <1>5, <1>6, <1>7, <1>8 DEF HandlersInv

\* What the attempt has done so far, where no call has misled it.
LEMMA CountedNow ==
  ASSUME HandlersInv, run.pc \notin Settling, run.pc # "ended", ~IsExport, ~run.murky
  PROVE  /\ Whole => run.kept = 0
         /\ Batched => run.applied = run.kept
         /\ ~Whole /\ ~Batched => run.kept = run.applied + Cardinality(Uncounted(run.next))
  BY DEF HandlersInv, Counted

\* Steps that change only where the attempt is or who it is about.
LEMMA BeginKeeps ==
  ASSUME HandlersInv, BeginAttempt \/ RefuseAttempt \/ Register PROVE HandlersInv'
<1>1. /\ UNCHANGED <<task, jobRow, effect, staging, package, source, troubles>>
      /\ trail' \in {trail, {}} /\ tries' \in 0..MaxTries
  BY HandlersAssumption DEF BeginAttempt, RefuseAttempt, Register, World, stores, HandlersInv, HandlersTypeOK
<1>2. /\ (IsExport' <=> IsExport) /\ (IsRestore' <=> IsRestore)
      /\ (Whole' <=> Whole) /\ (Batched' <=> Batched)
  BY <1>1, SameTask
<1>3. /\ run' \in Attempt /\ run'.pc \in {"checking", "starting", "ended"} /\ run'.next = 1
      /\ run'.open = {} /\ run'.applied = 0 /\ run'.kept = 0 /\ ~run'.murky
      /\ run'.snapshot \in {0, run.snapshot} /\ run'.lied = run.lied /\ run'.litter = run.litter
      /\ run'.pc = "ended" => run'.verdict = "refused"
      /\ run.pc \in {"idle", "checking"}
  <2> USE DEF HandlersInv, HandlersTypeOK, Unstarted, At
  <2>1. CASE BeginAttempt
    BY <2>1, FreshFacts, AttemptFacts DEF BeginAttempt
  <2>2. CASE RefuseAttempt
    BY <2>2 DEF RefuseAttempt, Attempt
  <2>3. CASE Register
    BY <2>3 DEF Register, Go, Attempt
  <2> QED BY <2>1, <2>2, <2>3
<1>4. HandlersTypeOK'
  BY <1>1, <1>3 DEF HandlersInv, HandlersTypeOK
<1>5. Unstarted' /\ Placed' /\ Written'
  BY <1>2, <1>3, HandlersAssumption DEF Unstarted, Placed, Written, Settling, Stopping
<1>6. Exported'
  BY <1>1, <1>2, <1>3 DEF HandlersInv, HandlersTypeOK, Exported, Settling
<1>7. Finished'
  BY <1>1, <1>2, <1>3, Underway DEF Finished
<1>8. Emptied'
  BY <1>1, <1>2, <1>3 DEF HandlersInv, Emptied, Stopped, Stopping
<1>9. Counted'
  <2>1. 1..(run'.next - 1) = {}
    BY <1>3
  <2>2. Uncounted(run.next)' = {}
    BY <2>1 DEF Uncounted
  <2> QED BY <1>3, <2>2, FS_EmptySet DEF Counted
<1> QED BY <1>4, <1>5, <1>6, <1>7, <1>8, <1>9 DEF HandlersInv

LEMMA StartKeeps == ASSUME HandlersInv, StartRun PROVE HandlersInv'
<1>1. /\ UNCHANGED <<task, effect, staging, package, source, trail, tries, troubles>>
      /\ jobRow'.status = "running" /\ run.pc = "starting"
      /\ jobRow' \in [status : {"previewed", "running", "succeeded", "failed", "cancelled"},
                      rows : Nat]
  BY DEF StartRun, World, stores, At, HandlersInv, HandlersTypeOK
<1>2. /\ (IsExport' <=> IsExport) /\ (IsRestore' <=> IsRestore)
      /\ (Whole' <=> Whole) /\ (Batched' <=> Batched)
  BY <1>1, SameTask
<1>3. /\ run' \in Attempt /\ run'.pc = "opening" /\ run'.next = run.next /\ run'.open = run.open
      /\ run'.applied = run.applied /\ run'.kept = run.kept
      /\ run'.snapshot = run.snapshot /\ run'.murky = run.murky /\ run'.lied = run.lied
      /\ run'.litter = run.litter
  BY GoFacts DEF StartRun, HandlersInv, HandlersTypeOK
<1>4. HandlersTypeOK'
  BY <1>1, <1>3 DEF HandlersInv, HandlersTypeOK
<1>5. run.next = 1 /\ run.open = {} /\ run.applied = 0 /\ run.kept = 0 /\ ~run.murky
  BY <1>1 DEF HandlersInv, Unstarted
<1>6. Unstarted' /\ Placed' /\ Written'
  BY <1>2, <1>3, <1>5, HandlersAssumption DEF Unstarted, Placed, Written, Settling, Stopping
<1>7. Exported'
  BY <1>1, <1>2, <1>3 DEF HandlersInv, HandlersTypeOK, Exported, Settling
<1>8. Finished' /\ Emptied'
  BY <1>1, <1>2, <1>3 DEF HandlersInv, Finished, Emptied, Stopped, Stopping
<1>9. Counted'
  <2>1. 1..(run'.next - 1) = {}
    BY <1>3, <1>5
  <2>2. Uncounted(run.next)' = {}
    BY <2>1 DEF Uncounted
  <2> QED BY <1>3, <1>5, <2>2, FS_EmptySet DEF Counted
<1> QED BY <1>4, <1>6, <1>7, <1>8, <1>9 DEF HandlersInv

LEMMA OpenKeeps == ASSUME HandlersInv, OpenData PROVE HandlersInv'
<1>1. /\ UNCHANGED <<task, jobRow, effect, source, trail, tries, troubles>> /\ run.pc = "opening"
      /\ IF task.kind \in Packaged THEN staging' = <<>> /\ package' = package
         ELSE IF IsExport THEN package' = <<>> /\ staging' = staging
         ELSE staging' = staging /\ package' = package
  BY DEF OpenData, World, At
<1>2. /\ (IsExport' <=> IsExport) /\ (IsRestore' <=> IsRestore)
      /\ (Whole' <=> Whole) /\ (Batched' <=> Batched)
  BY <1>1, SameTask
<1>3. source \in Nat /\ run \in Attempt /\ run.next \in Nat
  BY HandlersAssumption DEF HandlersInv, HandlersTypeOK, Attempt
<1>4. /\ run' \in Attempt /\ run'.pc = "working" /\ run'.next = run.next /\ run'.open = run.open
      /\ run'.applied = run.applied /\ run'.kept = run.kept
      /\ run'.snapshot = source /\ run'.murky = run.murky /\ run'.lied = run.lied
      /\ run'.litter = run.litter
  BY <1>3 DEF OpenData, Attempt
<1>5. HandlersTypeOK'
  <2>1. staging' \in Seq(Nat) /\ package' \in Seq(Nat)
    <3>1. staging \in Seq(Nat) /\ package \in Seq(Nat) /\ <<>> \in Seq(Nat)
      BY DEF HandlersInv, HandlersTypeOK
    <3>2. CASE task.kind \in Packaged
      BY <1>1, <3>1, <3>2
    <3>3. CASE task.kind \notin Packaged
      BY <1>1, <3>1, <3>3
    <3> QED BY <3>2, <3>3
  <2> QED BY <1>1, <1>4, <2>1 DEF HandlersInv, HandlersTypeOK
<1>6. run.next = 1 /\ run.open = {} /\ run.applied = 0 /\ run.kept = 0 /\ ~run.murky
  BY <1>1 DEF HandlersInv, Unstarted
<1>7. 1..(run'.next - 1) = {} /\ Pieces \in Nat /\ 1 <= Pieces
  BY <1>4, <1>6, HandlersAssumption
<1>8. Unstarted' /\ Placed'
  BY <1>2, <1>4, <1>6, <1>7 DEF Unstarted, Placed, Stopping
<1>9. Written'
  BY <1>2, <1>4, <1>6, <1>7 DEF Written, Settling
<1>10. Exported'
  <2>1. IsExport =>
          (IF task.kind \in Packaged THEN staging ELSE package)' = <<>>
    BY <1>1
  <2>2. IsExport => Filled(IF task.kind \in Packaged THEN staging ELSE package, run.next - 1)'
    <3>1. <<>> \in Seq(Nat) /\ Len(<<>>) = run'.next - 1
      BY <1>4, <1>6
    <3> QED BY <1>7, <2>1, <3>1 DEF Filled
  <2> QED BY <1>1, <1>2, <1>3, <1>4, <2>2 DEF Exported, Settling
<1>11. Finished'
  BY <1>1, <1>2, <1>4, Underway DEF Finished
<1>12. Emptied'
  BY <1>1, <1>2, <1>4, TaskFacts DEF HandlersInv, Emptied, Stopped, Stopping
<1>13. Counted'
  <2>1. Uncounted(run.next)' = {}
    BY <1>7 DEF Uncounted
  <2> QED BY <1>4, <1>6, <2>1, FS_EmptySet DEF Counted
<1> QED BY <1>5, <1>8, <1>9, <1>10, <1>11, <1>12, <1>13 DEF HandlersInv

\* An error before anything was written.
LEMMA EarlyErrorKeeps ==
  ASSUME HandlersInv, StartFails \/ OpenFails PROVE HandlersInv'
<1>1. /\ UNCHANGED <<task, jobRow, effect, staging, package, source, trail, tries>>
      /\ Throw(run) /\ run.pc \in {"starting", "opening"} /\ troubles' \in 0..MaxTroubles
  BY HandlersAssumption
  DEF StartFails, OpenFails, Trouble, NoTrouble, World, stores, At, HandlersInv, HandlersTypeOK
<1>2. run \in Attempt
  BY DEF HandlersInv, HandlersTypeOK
<1>3. HandlersTypeOK'
  BY <1>1, <1>2, ThrowFacts DEF HandlersInv, HandlersTypeOK
<1>4. jobRow'.status = "succeeded" =>
        IF IsExport THEN run.lied ELSE \A p \in 1..Pieces : effect'[p] > 0
  BY <1>1, Underway
<1>5. /\ task.kind = "friendly-csv" => staging' = <<>>
      /\ task.kind = "sql-dump" => run.litter \/ staging' = <<>>
  BY <1>1 DEF HandlersInv, Emptied
<1>6. ~IsExport /\ ~run.murky =>
        /\ Whole => run.kept = 0
        /\ Batched => run.applied = run.kept
        /\ ~Whole /\ ~Batched => run.kept = run.applied + Cardinality(Uncounted(run.next))
  BY <1>1, CountedNow DEF Settling
<1> QED BY <1>1, <1>2, <1>3, <1>4, <1>5, <1>6, Stops

LEMMA AppendFacts ==
  ASSUME NEW store \in Seq(Nat), NEW v \in Nat
  PROVE  /\ Append(store, v) \in Seq(Nat) /\ Len(Append(store, v)) = Len(store) + 1
         /\ \A i \in 1..Len(store) : Append(store, v)[i] = store[i]
         /\ Append(store, v)[Len(store) + 1] = v
  OBVIOUS

\* An export's store is one piece longer.
LEMMA FilledFurther ==
  ASSUME NEW store, NEW n \in Nat, Filled(store, n), run.snapshot \in Nat
  PROVE  Filled(Append(store, run.snapshot), n + 1)
<1>1. store \in Seq(Nat) /\ Len(store) = n /\ \A i \in 1..n : store[i] = run.snapshot
  BY DEF Filled
<1>2. /\ Append(store, run.snapshot) \in Seq(Nat) /\ Len(Append(store, run.snapshot)) = n + 1
      /\ \A i \in 1..n : Append(store, run.snapshot)[i] = store[i]
      /\ Append(store, run.snapshot)[n + 1] = run.snapshot
  BY <1>1, AppendFacts
<1>3. \A i \in 1..(n + 1) : i \in 1..n \/ i = n + 1
  OBVIOUS
<1> QED BY <1>1, <1>2, <1>3 DEF Filled

LEMMA ReadKeeps == ASSUME HandlersInv, ReadPiece PROVE HandlersInv'
<1>1. /\ UNCHANGED <<task, jobRow, effect, source, trail, tries, troubles>>
      /\ run.pc = "working" /\ IsExport /\ run.next <= Pieces
      /\ IF task.kind \in Packaged
         THEN staging' = Append(staging, run.snapshot) /\ package' = package
         ELSE package' = Append(package, run.snapshot) /\ staging' = staging
  BY DEF ReadPiece, World, At
<1>2. /\ (IsExport' <=> IsExport) /\ (IsRestore' <=> IsRestore)
      /\ (Whole' <=> Whole) /\ (Batched' <=> Batched)
  BY <1>1, SameTask
<1>3. run \in Attempt /\ run.next \in Nat /\ run.snapshot \in Nat
  BY DEF HandlersInv, HandlersTypeOK, Attempt
<1>4. /\ run' \in Attempt /\ run'.pc = "working" /\ run'.next = run.next + 1
      /\ run'.open = run.open /\ run'.snapshot = run.snapshot /\ run'.lied = run.lied
      /\ run'.litter = run.litter
  BY <1>1, <1>3 DEF ReadPiece, Attempt
<1>5. HandlersTypeOK'
  <2>1. staging' \in Seq(Nat) /\ package' \in Seq(Nat)
    <3>1. /\ staging \in Seq(Nat) /\ package \in Seq(Nat)
          /\ Append(staging, run.snapshot) \in Seq(Nat)
          /\ Append(package, run.snapshot) \in Seq(Nat)
      BY <1>3, AppendFacts DEF HandlersInv, HandlersTypeOK
    <3>2. CASE task.kind \in Packaged
      BY <1>1, <3>1, <3>2
    <3>3. CASE task.kind \notin Packaged
      BY <1>1, <3>1, <3>3
    <3> QED BY <3>2, <3>3
  <2> QED BY <1>1, <1>4, <2>1 DEF HandlersInv, HandlersTypeOK
<1>6. Unstarted' /\ Placed' /\ Written'
  BY <1>1, <1>2, <1>3, <1>4, HandlersAssumption
  DEF HandlersInv, Unstarted, Placed, Written, Stopping
<1>7. Exported'
  <2> DEFINE store == IF task.kind \in Packaged THEN staging ELSE package
  <2>1. Filled(store, run.next - 1) /\ run.next - 1 \in Nat
    <3>1. Filled(store, run.next - 1)
      BY <1>1 DEF HandlersInv, Exported
    <3>2. store \in Seq(Nat) /\ Len(store) = run.next - 1
      BY <3>1 DEF Filled
    <3> HIDE DEF store
    <3>3. Len(store) \in Nat
      BY <3>2
    <3> QED BY <3>1, <3>2, <3>3
  <2>2. Filled(Append(store, run.snapshot), run.next)
    <3>1. (run.next - 1) + 1 = run.next
      BY <1>3
    <3> QED BY <1>3, <2>1, <3>1, FilledFurther
  <2>3. store' = Append(store, run.snapshot)
    BY <1>1
  <2>4. Filled(store, run.next - 1)'
    <3>1. run'.next - 1 = run.next
      BY <1>3, <1>4
    <3> QED BY <1>4, <2>2, <2>3, <3>1 DEF Filled
  <2> QED BY <1>1, <1>2, <1>4, <2>4 DEF HandlersInv, Exported, Settling
<1>8. Finished'
  BY <1>1, <1>2, <1>4, Underway DEF Finished
<1>9. Emptied'
  BY <1>1, <1>2, <1>4, TaskFacts DEF HandlersInv, Emptied, Stopped, Stopping
<1>10. Counted'
  BY <1>1, <1>2 DEF Counted
<1> QED BY <1>5, <1>6, <1>7, <1>8, <1>9, <1>10 DEF HandlersInv

LEMMA WriteKeeps == ASSUME HandlersInv, WritePiece PROVE HandlersInv'
<1> DEFINE r == [run EXCEPT !.next = run.next + 1, !.open = run.open \cup {run.next}]
<1>1. /\ UNCHANGED <<task, jobRow, effect, staging, package, source, trail, tries, troubles>>
      /\ run.pc = "working" /\ ~IsExport /\ (Whole \/ Batched) /\ run.next <= Pieces
  BY DEF WritePiece, World, stores, At
<1>2. /\ (IsExport' <=> IsExport) /\ (IsRestore' <=> IsRestore)
      /\ (Whole' <=> Whole) /\ (Batched' <=> Batched)
  BY <1>1, SameTask
<1>3. run \in Attempt /\ run.next \in Nat /\ run.open \subseteq Nat
  BY DEF HandlersInv, HandlersTypeOK, Attempt
<1>4. /\ r \in Attempt /\ r.next = run.next + 1 /\ r.open = run.open \cup {run.next}
      /\ r.pc = run.pc /\ r.applied = run.applied /\ r.kept = run.kept
      /\ r.verdict = run.verdict /\ r.snapshot = run.snapshot /\ r.murky = run.murky
      /\ r.lied = run.lied /\ r.litter = run.litter
  <2> DEFINE n == run.next + 1
             o == run.open \cup {run.next}
  <2>1. n \in Nat /\ o \in SUBSET Nat
    BY <1>3
  <2>2. r = [run EXCEPT !.next = n, !.open = o]
    OBVIOUS
  <2> HIDE DEF r, n, o
  <2>3. /\ r \in Attempt /\ r.next = n /\ r.open = o
        /\ r.pc = run.pc /\ r.applied = run.applied /\ r.kept = run.kept
        /\ r.verdict = run.verdict /\ r.snapshot = run.snapshot /\ r.murky = run.murky
        /\ r.lied = run.lied /\ r.litter = run.litter
    BY <1>3, <2>1, <2>2 DEF Attempt
  <2> QED BY <2>3 DEF n, o
<1>5. run' = [r EXCEPT !.pc = IF Batched /\ BatchFull(r) THEN "committing" ELSE @]
  BY DEF WritePiece
<1> HIDE DEF r
<1>6. /\ run' \in Attempt /\ run'.next = run.next + 1 /\ run'.open = run.open \cup {run.next}
      /\ run'.applied = run.applied /\ run'.kept = run.kept
      /\ run'.snapshot = run.snapshot /\ run'.murky = run.murky /\ run'.lied = run.lied
      /\ run'.litter = run.litter /\ run'.verdict = run.verdict
      /\ run'.pc \in {"working", "committing"}
      /\ run'.pc = "committing" => Batched
      /\ run'.pc = "working" /\ Batched => run.next + 1 <= Pieces
  <2>1. CASE Batched /\ BatchFull(r)
    BY <1>4, <1>5, <2>1 DEF Attempt
  <2>2. CASE ~(Batched /\ BatchFull(r))
    <3>1. Batched => ~(run.next + 1 > Pieces)
      BY <1>4, <2>2 DEF BatchFull
    <3>2. run' = r
      BY <1>4, <1>5, <2>2 DEF Attempt
    <3> QED BY <1>1, <1>3, <1>4, <3>1, <3>2, HandlersAssumption DEF Attempt
  <2> QED BY <2>1, <2>2
<1>7. HandlersTypeOK'
  BY <1>1, <1>6 DEF HandlersInv, HandlersTypeOK
<1>8. Unstarted' /\ Placed'
  BY <1>1, <1>2, <1>3, <1>6, HandlersAssumption DEF HandlersInv, Unstarted, Placed, Stopping
<1>9. Written'
  <2>1. \A p \in 1..(run'.next - 1) : p \in run'.open \/ effect'[p] > 0
    BY <1>1, <1>3, <1>6 DEF HandlersInv, Written
  <2> QED BY <1>1, <1>2, <1>6, <2>1 DEF Written, Settling
<1>10. Exported' /\ Emptied'
  BY <1>1, <1>2, <1>6, TaskFacts DEF HandlersInv, Exported, Emptied
<1>11. Finished'
  BY <1>1, <1>2, <1>6, Underway DEF Finished
<1>12. Counted'
  BY <1>1, <1>2, <1>6, CountedNow, TaskFacts DEF HandlersInv, Counted, Settling
<1> QED BY <1>7, <1>8, <1>9, <1>10, <1>11, <1>12 DEF HandlersInv

\* One more piece of a restore is counted, or is a row of an unfinished entry.
LEMMA UncountedFurther ==
  ASSUME NEW n \in Nat \ {0}
  PROVE  /\ IsFiniteSet(Uncounted(n)) /\ Cardinality(Uncounted(n)) \in Nat
         /\ Cardinality(Uncounted(n + 1)) =
              Cardinality(Uncounted(n)) + (IF Counts(n) THEN 0 ELSE 1)
<1>1. IsFiniteSet(1..(n - 1))
  BY FS_Interval
<1>2. IsFiniteSet(Uncounted(n))
  BY <1>1, FS_Subset DEF Uncounted
<1>3. Cardinality(Uncounted(n)) \in Nat
  BY <1>2, FS_CardinalityType
<1>4. 1..((n + 1) - 1) = (1..(n - 1)) \cup {n} /\ n \notin Uncounted(n)
  BY DEF Uncounted
<1>5. CASE Counts(n)
  <2>1. Uncounted(n + 1) = Uncounted(n)
    BY <1>4, <1>5 DEF Uncounted
  <2> QED BY <1>2, <1>3, <1>5, <2>1
<1>6. CASE ~Counts(n)
  <2>1. Uncounted(n + 1) = Uncounted(n) \cup {n}
    BY <1>4, <1>6 DEF Uncounted
  <2> QED BY <1>2, <1>3, <1>4, <1>6, <2>1, FS_AddElement
<1> QED BY <1>5, <1>6

LEMMA ApplyKeeps == ASSUME HandlersInv, ApplyPiece PROVE HandlersInv'
<1>1. /\ UNCHANGED <<task, jobRow, staging, package, source, trail, tries, troubles>>
      /\ run.pc = "working" /\ IsRestore /\ ~Whole /\ run.next <= Pieces /\ Persist({run.next})
  BY DEF ApplyPiece, World, At
<1>2. /\ (IsExport' <=> IsExport) /\ (IsRestore' <=> IsRestore)
      /\ (Whole' <=> Whole) /\ (Batched' <=> Batched) /\ ~IsExport /\ ~Batched
  BY <1>1, SameTask, TaskFacts DEF HandlersInv
<1>3. run \in Attempt /\ run.next \in Nat /\ run.applied \in Nat /\ run.kept \in Nat
  BY DEF HandlersInv, HandlersTypeOK, Attempt
<1>4. /\ run' \in Attempt /\ run'.pc = "working" /\ run'.next = run.next + 1
      /\ run'.open = run.open /\ run'.kept = run.kept + 1
      /\ run'.applied = run.applied + (IF Counts(run.next) THEN 1 ELSE 0)
      /\ run'.snapshot = run.snapshot /\ run'.murky = run.murky /\ run'.lied = run.lied
      /\ run'.litter = run.litter
  <2> DEFINE a == run.applied + (IF Counts(run.next) THEN 1 ELSE 0)
  <2>1. a \in Nat
    BY <1>3
  <2>2. run' = [run EXCEPT !.next = run.next + 1, !.kept = run.kept + 1, !.applied = a]
    <3>1. run' = [run EXCEPT !.next = run.next + 1, !.kept = run.kept + 1,
                             !.applied = IF Counts(run.next) THEN run.applied + 1 ELSE run.applied]
      BY <1>3 DEF ApplyPiece, Attempt
    <3>2. a = IF Counts(run.next) THEN run.applied + 1 ELSE run.applied
      BY <1>3
    <3> QED BY <3>1, <3>2
  <2>3. run.next + 1 \in Nat /\ run.kept + 1 \in Nat
    BY <1>3
  <2> DEFINE n == run.next + 1
             k == run.kept + 1
  <2>5. run' = [run EXCEPT !.next = n, !.kept = k, !.applied = a] /\ n \in Nat /\ k \in Nat
    BY <2>2, <2>3
  <2> HIDE DEF a, n, k
  <2>4. /\ run' \in Attempt /\ run'.next = n /\ run'.open = run.open
        /\ run'.pc = run.pc /\ run'.applied = a /\ run'.kept = k
        /\ run'.snapshot = run.snapshot /\ run'.murky = run.murky
        /\ run'.lied = run.lied /\ run'.litter = run.litter
    BY <1>3, <2>1, <2>5 DEF Attempt
  <2> QED BY <1>1, <2>4 DEF a, n, k
<1>5. /\ effect' \in [1..Pieces -> Nat]
      /\ \A p \in 1..Pieces : effect[p] > 0 \/ p = run.next => effect'[p] > 0
  BY <1>1, PersistFacts DEF HandlersInv
<1>6. HandlersTypeOK'
  BY <1>1, <1>4, <1>5 DEF HandlersInv, HandlersTypeOK
<1>7. Unstarted' /\ Placed'
  BY <1>1, <1>2, <1>3, <1>4, HandlersAssumption DEF HandlersInv, Unstarted, Placed, Stopping
<1>8. run.open = {}
  BY <1>1, <1>2 DEF HandlersInv, Written
<1>9. Written'
  <2>1. \A p \in 1..(run'.next - 1) : effect'[p] > 0
    BY <1>1, <1>2, <1>3, <1>4, <1>5, <1>8, HandlersAssumption DEF HandlersInv, Placed, Written
  <2> QED BY <1>2, <1>4, <1>8, <2>1 DEF Written, Settling
<1>10. Exported' /\ Emptied'
  BY <1>1, <1>2, <1>4, TaskFacts DEF HandlersInv, Exported, Emptied
<1>11. Finished'
  BY <1>1, <1>2, <1>4, <1>5, Underway DEF Finished
<1>12. Counted'
  <2>1. run.next \in Nat \ {0}
    BY HandlersAssumption DEF HandlersInv, Placed
  <2>2. ~run.murky => run.kept = run.applied + Cardinality(Uncounted(run.next))
    BY <1>1, <1>2, CountedNow DEF Settling
  <2>3. Cardinality(Uncounted(run.next)) \in Nat
        /\ Cardinality(Uncounted(run.next + 1)) =
             Cardinality(Uncounted(run.next)) + (IF Counts(run.next) THEN 0 ELSE 1)
    BY <2>1, UncountedFurther
  <2>4. Uncounted(run.next)' = Uncounted(run.next + 1)
    BY <1>4 DEF Uncounted, Counts
  <2>5. ~run.murky => run'.kept = run'.applied + Cardinality(Uncounted(run.next + 1))
    BY <1>3, <1>4, <2>2, <2>3
  <2> QED BY <1>1, <1>2, <1>4, <2>4, <2>5 DEF Counted
<1> QED BY <1>6, <1>7, <1>9, <1>10, <1>11, <1>12 DEF HandlersInv

LEMMA ThroughKeeps == ASSUME HandlersInv, DataThrough PROVE HandlersInv'
<1>1. /\ UNCHANGED <<task, jobRow, effect, staging, package, source, trail, tries, troubles>>
      /\ run.pc = "working" /\ run.next > Pieces
  BY DEF DataThrough, World, stores, At
<1>2. /\ (IsExport' <=> IsExport) /\ (IsRestore' <=> IsRestore)
      /\ (Whole' <=> Whole) /\ (Batched' <=> Batched)
  BY <1>1, SameTask
<1>3. PICK pc \in {"packing", "committing", "accepting"} :
        /\ Go(pc)
        /\ pc = "packing" <=> task.kind \in Packaged
        /\ pc = "committing" <=> ~IsExport /\ Whole
  BY TaskFacts DEF DataThrough, HandlersInv
<1>4. run \in Attempt /\ run.next = Pieces + 1 /\ run.next - 1 = Pieces
  BY <1>1, HandlersAssumption DEF HandlersInv, HandlersTypeOK, Placed
<1>5. /\ run' \in Attempt /\ run'.pc = pc /\ run'.next = run.next /\ run'.open = run.open
      /\ run'.applied = run.applied /\ run'.kept = run.kept
      /\ run'.snapshot = run.snapshot /\ run'.murky = run.murky /\ run'.lied = run.lied
      /\ run'.litter = run.litter
  BY <1>3, <1>4, GoFacts
<1>6. HandlersTypeOK'
  BY <1>1, <1>5 DEF HandlersInv, HandlersTypeOK
<1>7. Unstarted' /\ Placed'
  BY <1>1, <1>2, <1>3, <1>5 DEF HandlersInv, Unstarted, Placed, Stopping
<1>8. Written'
  <2>1. ~IsExport => \A p \in 1..Pieces : p \in run.open \/ effect[p] > 0
    BY <1>1, <1>4 DEF HandlersInv, Written
  <2>2. ~IsExport /\ pc = "accepting" => run.open = {}
    <3>1. ~(run.next <= Pieces)
      BY <1>4, HandlersAssumption
    <3> QED BY <1>1, <1>3, <3>1 DEF HandlersInv, Written
  <2> QED BY <1>1, <1>2, <1>3, <1>4, <1>5, <2>1, <2>2 DEF HandlersInv, Written, Settling
<1>9. Exported'
  <2>1. IsExport => Filled(IF task.kind \in Packaged THEN staging ELSE package, Pieces)
    BY <1>1, <1>4 DEF HandlersInv, Exported
  <2>2. IsExport => Filled(IF task.kind \in Packaged THEN staging ELSE package, Pieces)'
    BY <1>1, <1>5, <2>1 DEF Filled
  <2>3. Filled(staging, Pieces)' \/ task.kind \notin Packaged
    BY <1>1, <1>2, <2>2, TaskFacts DEF HandlersInv
  <2>4. IsExport /\ task.kind \notin Packaged => Filled(package, Pieces)'
    BY <1>1, <2>2
  <2> QED BY <1>1, <1>2, <1>3, <1>5, <2>3, <2>4 DEF HandlersInv, Exported, Settling
<1>10. Finished'
  BY <1>1, <1>2, <1>5, Underway DEF Finished
<1>11. Emptied'
  BY <1>1, <1>2, <1>3, <1>5, TaskFacts DEF HandlersInv, Emptied, Stopped, Stopping
<1>12. Counted'
  <2>1. Uncounted(run.next)' = Uncounted(run.next)
    BY <1>5 DEF Uncounted, Counts
  <2> QED BY <1>1, <1>2, <1>5, <2>1, CountedNow DEF Counted, Settling
<1> QED BY <1>6, <1>7, <1>8, <1>9, <1>10, <1>11, <1>12 DEF HandlersInv

LEMMA CommitKeeps == ASSUME HandlersInv, CommitData PROVE HandlersInv'
<1> DEFINE count == Cardinality(run.open)
<1>1. /\ UNCHANGED <<task, jobRow, staging, package, source, trail, tries, troubles>>
      /\ run.pc = "committing" /\ Persist(run.open)
  BY DEF CommitData, World, At
<1>2. /\ (IsExport' <=> IsExport) /\ (IsRestore' <=> IsRestore)
      /\ (Whole' <=> Whole) /\ (Batched' <=> Batched)
  BY <1>1, SameTask
<1>3. /\ ~IsExport /\ (Batched \/ (Whole /\ run.next > Pieces)) /\ run.next \in 1..(Pieces + 1)
      /\ run \in Attempt /\ run.applied \in Nat /\ run.kept \in Nat /\ count \in Nat
  BY <1>1, OpenFinite DEF HandlersInv, HandlersTypeOK, Attempt, Placed
<1>4. /\ run' \in Attempt /\ run'.pc = (IF run.next > Pieces THEN "accepting" ELSE "working")
      /\ run'.next = run.next /\ run'.open = {}
      /\ run'.applied = (IF IsRestore THEN run.applied ELSE run.applied + count)
      /\ run'.kept = run.kept + count
      /\ run'.snapshot = run.snapshot /\ run'.murky = run.murky /\ run'.lied = run.lied
      /\ run'.litter = run.litter
  <2> DEFINE k == run.kept + count
             a == IF IsRestore THEN run.applied ELSE run.applied + count
             pc == IF run.next > Pieces THEN "accepting" ELSE "working"
             w == [run EXCEPT !.open = {}, !.kept = k, !.applied = a]
  <2>1. k \in Nat /\ a \in Nat /\ pc \in {"accepting", "working"}
    BY <1>3
  <2>2. Committed(run) = w
    BY DEF Committed
  <2>3. run' = [Committed(run) EXCEPT !.pc = pc]
    BY DEF CommitData
  <2> HIDE DEF k, a, pc, count
  <2>4. /\ w \in Attempt /\ w.open = {} /\ w.kept = k /\ w.applied = a /\ w.next = run.next
        /\ w.snapshot = run.snapshot /\ w.murky = run.murky /\ w.lied = run.lied
        /\ w.litter = run.litter
    BY <1>3, <2>1 DEF Attempt
  <2> HIDE DEF w
  <2>5. /\ run' \in Attempt /\ run'.pc = pc /\ run'.open = {} /\ run'.kept = k
        /\ run'.applied = a /\ run'.next = run.next
        /\ run'.snapshot = run.snapshot /\ run'.murky = run.murky /\ run'.lied = run.lied
        /\ run'.litter = run.litter
    BY <2>1, <2>2, <2>3, <2>4 DEF Attempt
  <2> QED BY <2>5 DEF k, a, pc
<1>5. /\ effect' \in [1..Pieces -> Nat]
      /\ \A p \in 1..Pieces : effect[p] > 0 \/ p \in run.open => effect'[p] > 0
  BY <1>1, PersistFacts DEF HandlersInv
<1>6. HandlersTypeOK'
  BY <1>1, <1>4, <1>5 DEF HandlersInv, HandlersTypeOK
<1>7. Unstarted' /\ Placed'
  BY <1>1, <1>2, <1>3, <1>4 DEF HandlersInv, Unstarted, Placed, Stopping
<1>8. Written'
  <2>1. \A p \in 1..(run.next - 1) : effect'[p] > 0
    BY <1>1, <1>3, <1>5, HandlersAssumption DEF HandlersInv, Written
  <2>2. run.next > Pieces => \A p \in 1..Pieces : effect'[p] > 0
    BY <1>3, <2>1, HandlersAssumption
  <2>3. ~(run.next > Pieces) => run.next <= Pieces
    BY <1>3, HandlersAssumption
  <2> QED BY <1>2, <1>4, <2>1, <2>2, <2>3 DEF Written, Settling
<1>9. Exported' /\ Emptied'
  BY <1>1, <1>2, <1>3, <1>4, TaskFacts DEF HandlersInv, Exported, Emptied
<1>10. Finished'
  BY <1>1, <1>2, <1>3, <1>4, <1>5, Underway DEF Finished
<1>11. Counted'
  <2>1. ~run.murky /\ Batched => run.applied = run.kept /\ ~IsRestore
    BY <1>1, <1>3, CountedNow, TaskFacts DEF Settling, HandlersInv
  <2>2. Whole => run.next > Pieces /\ ~Batched
    BY <1>3, TaskFacts DEF HandlersInv
  <2> QED BY <1>2, <1>3, <1>4, <2>1, <2>2 DEF Counted, Settling
<1> QED BY <1>6, <1>7, <1>8, <1>9, <1>10, <1>11 DEF HandlersInv

LEMMA CommitErrorKeeps == ASSUME HandlersInv, CommitFails PROVE HandlersInv'
<1>1. /\ UNCHANGED <<task, jobRow, staging, package, source, trail, tries>>
      /\ run.pc = "committing" /\ troubles' \in 0..MaxTroubles
  BY HandlersAssumption DEF CommitFails, Trouble, World, At, HandlersInv, HandlersTypeOK
<1>2. /\ run \in Attempt /\ run.kept \in Nat /\ Cardinality(run.open) \in Nat /\ ~IsExport
  BY <1>1, OpenFinite DEF HandlersInv, HandlersTypeOK, Attempt, Placed
<1>3. /\ task.kind = "friendly-csv" => staging' = <<>>
      /\ task.kind = "sql-dump" => run.litter \/ staging' = <<>>
  BY <1>1 DEF HandlersInv, Emptied
<1>4. CASE Throw(run) /\ UNCHANGED effect
  <2>1. HandlersTypeOK'
    BY <1>1, <1>2, <1>4, ThrowFacts DEF HandlersInv, HandlersTypeOK
  <2>2. jobRow'.status = "succeeded" => \A p \in 1..Pieces : effect'[p] > 0
    BY <1>1, <1>2, <1>4, Underway
  <2>3. ~run.murky =>
          /\ Whole => run.kept = 0
          /\ Batched => run.applied = run.kept
          /\ ~Whole /\ ~Batched => run.kept = run.applied + Cardinality(Uncounted(run.next))
    BY <1>1, <1>2, CountedNow DEF Settling
  <2> QED BY <1>1, <1>2, <1>3, <1>4, <2>1, <2>2, <2>3, Stops
<1>5. CASE /\ Throw([run EXCEPT !.kept = @ + Cardinality(run.open), !.murky = TRUE])
           /\ Persist(run.open)
  <2> DEFINE k == run.kept + Cardinality(run.open)
             r == [run EXCEPT !.kept = k, !.murky = TRUE]
  <2>1. k \in Nat /\ Throw(r)
    BY <1>2, <1>5
  <2> HIDE DEF k
  <2>2. /\ r \in Attempt /\ r.next = run.next /\ r.snapshot = run.snapshot
        /\ r.litter = run.litter /\ r.lied = run.lied /\ r.murky
    BY <1>2, <2>1 DEF Attempt
  <2> HIDE DEF r
  <2>3. /\ effect' \in [1..Pieces -> Nat]
        /\ \A p \in 1..Pieces : effect[p] > 0 => effect'[p] > 0
    BY <1>5, PersistFacts DEF HandlersInv
  <2>4. HandlersTypeOK'
    BY <1>1, <2>1, <2>2, <2>3, ThrowFacts DEF HandlersInv, HandlersTypeOK
  <2>5. jobRow'.status = "succeeded" => \A p \in 1..Pieces : effect'[p] > 0
    BY <1>1, <1>2, <2>3, Underway
  <2> QED BY <1>1, <1>2, <1>3, <2>1, <2>2, <2>4, <2>5, Stops
<1> QED BY <1>4, <1>5 DEF CommitFails

\* An error in the data, or the signal seen there.
LEMMA DataErrorKeeps == ASSUME HandlersInv, DataFails PROVE HandlersInv'
<1>1. /\ UNCHANGED <<task, jobRow, effect, source, trail, tries>>
      /\ run.pc \in {"working", "packing"} /\ troubles' \in 0..MaxTroubles /\ Throw(run)
  BY HandlersAssumption
  DEF DataFails, Trouble, NoTrouble, World, HandlersInv, HandlersTypeOK
<1>2. run \in Attempt /\ staging \in Seq(Nat) /\ package \in Seq(Nat) /\ <<>> \in Seq(Nat)
  BY DEF HandlersInv, HandlersTypeOK
<1>3. /\ staging' \in Seq(Nat) /\ package' \in Seq(Nat)
      /\ IsExport => staging' = <<>>
  <2>1. CASE IsExport
    <3>1. PICK partial \in {<<>>, staging} :
            staging' = <<>> /\ package' = IF At("packing") THEN partial ELSE <<>>
      BY <2>1 DEF DataFails
    <3> QED BY <1>2, <3>1
  <2>2. CASE ~IsExport
    BY <1>2, <2>2 DEF DataFails
  <2> QED BY <2>1, <2>2
<1>4. HandlersTypeOK'
  BY <1>1, <1>2, <1>3, ThrowFacts DEF HandlersInv, HandlersTypeOK
<1>5. jobRow'.status = "succeeded" =>
        IF IsExport THEN run.lied ELSE \A p \in 1..Pieces : effect'[p] > 0
  BY <1>1, Underway
<1>6. task.kind \in {"friendly-csv", "sql-dump"} => staging' = <<>>
  BY <1>3, TaskFacts DEF HandlersInv
<1>7. ~IsExport /\ ~run.murky =>
        /\ Whole => run.kept = 0
        /\ Batched => run.applied = run.kept
        /\ ~Whole /\ ~Batched => run.kept = run.applied + Cardinality(Uncounted(run.next))
  BY <1>1, CountedNow DEF Settling
<1> QED BY <1>1, <1>2, <1>4, <1>5, <1>6, <1>7, Stops

LEMMA PackKeeps == ASSUME HandlersInv, Pack PROVE HandlersInv'
<1>1. /\ UNCHANGED <<task, jobRow, effect, source, trail, tries>> /\ run.pc = "packing"
      /\ package' = staging /\ troubles' \in 0..MaxTroubles
      /\ staging' \in {<<>>, staging}
      /\ task.kind \in Packaged
  BY HandlersAssumption
  DEF Pack, Trouble, NoTrouble, World, At, HandlersInv, HandlersTypeOK, Placed
<1>2. /\ (IsExport' <=> IsExport) /\ (IsRestore' <=> IsRestore)
      /\ (Whole' <=> Whole) /\ (Batched' <=> Batched) /\ IsExport /\ ~IsRestore
      /\ task.kind # "friendly-csv"
  BY <1>1, SameTask, TaskFacts DEF HandlersInv
<1>3. run \in Attempt /\ staging \in Seq(Nat) /\ <<>> \in Seq(Nat)
  BY DEF HandlersInv, HandlersTypeOK
<1>4. /\ run' \in Attempt /\ run'.pc = "accepting" /\ run'.next = run.next
      /\ run'.open = run.open
      /\ run'.snapshot = run.snapshot /\ run'.lied = run.lied
      /\ run'.litter \in BOOLEAN /\ (run'.litter \/ staging' = <<>>)
  <2>1. CASE Go("accepting") /\ staging' = <<>> /\ NoTrouble
    BY <1>3, <2>1 DEF Go, Attempt
  <2>2. CASE run' = [run EXCEPT !.pc = "accepting", !.litter = TRUE]
    BY <1>3, <2>2 DEF Attempt
  <2> QED BY <2>1, <2>2 DEF Pack
<1>5. HandlersTypeOK'
  BY <1>1, <1>3, <1>4 DEF HandlersInv, HandlersTypeOK
<1>6. Unstarted' /\ Placed' /\ Written'
  BY <1>1, <1>2, <1>4 DEF HandlersInv, Unstarted, Placed, Written, Stopping
<1>7. Exported'
  <2>1. Filled(package, Pieces)'
    BY <1>1, <1>2, <1>4 DEF HandlersInv, Exported, Filled
  <2> QED BY <1>1, <1>4, <2>1 DEF HandlersInv, Exported, Settling
<1>8. Finished'
  BY <1>1, <1>2, <1>4, Underway DEF Finished
<1>9. Emptied'
  BY <1>1, <1>2, <1>4 DEF Emptied, Stopped, Stopping
<1>10. Counted'
  BY <1>2 DEF Counted
<1> QED BY <1>5, <1>6, <1>7, <1>8, <1>9, <1>10 DEF HandlersInv

\* A step on the way to the settled row.
LEMMA SettleKeeps == ASSUME HandlersInv, Accept \/ RecordSuccess PROVE HandlersInv'
<1>1. /\ UNCHANGED <<task, jobRow, effect, staging, package, source, tries, troubles>>
      /\ trail \subseteq trail' /\ trail' \subseteq {"success", "failed"}
  BY DEF Accept, RecordSuccess, World, stores, HandlersInv, HandlersTypeOK
<1>2. /\ (IsExport' <=> IsExport) /\ (IsRestore' <=> IsRestore)
      /\ (Whole' <=> Whole) /\ (Batched' <=> Batched)
  BY <1>1, SameTask
<1>3. PICK pc \in {"recording", "finishing"} :
        /\ Go(pc) /\ run.pc \in Settling
        /\ pc = "recording" => ~IsRestore
        /\ pc = "finishing" /\ IsExport => "success" \in trail'
  BY TaskFacts DEF Accept, RecordSuccess, At, Settling, HandlersInv
<1>4. run \in Attempt
  BY DEF HandlersInv, HandlersTypeOK
<1>5. /\ run' \in Attempt /\ run'.pc = pc /\ run'.next = run.next /\ run'.open = run.open
      /\ run'.applied = run.applied /\ run'.kept = run.kept
      /\ run'.snapshot = run.snapshot /\ run'.murky = run.murky /\ run'.lied = run.lied
      /\ run'.litter = run.litter
  BY <1>3, <1>4, GoFacts
<1>6. HandlersTypeOK'
  BY <1>1, <1>5 DEF HandlersInv, HandlersTypeOK
<1>7. Unstarted' /\ Placed' /\ Written'
  BY <1>1, <1>2, <1>3, <1>5 DEF HandlersInv, Unstarted, Placed, Written, Settling, Stopping
<1>8. Exported'
  <2>1. IsExport => Filled(package, Pieces)'
    BY <1>1, <1>3, <1>5 DEF HandlersInv, Exported, Filled
  <2> QED BY <1>1, <1>2, <1>3, <1>5, <2>1 DEF HandlersInv, Exported, Settling
<1>9. Finished'
  <2>1. run.pc # "ended"
    BY <1>3 DEF Settling
  <2> QED BY <1>1, <1>2, <1>5, <2>1, Underway DEF Finished
<1>10. Emptied'
  BY <1>1, <1>2, <1>3, <1>5 DEF HandlersInv, Emptied, Stopped, Stopping, Settling
<1>11. Counted'
  <2>1. Uncounted(run.next)' = Uncounted(run.next)
    BY <1>5 DEF Uncounted, Counts
  <2> QED BY <1>2, <1>3, <1>5, <2>1 DEF HandlersInv, Counted, Settling
<1> QED BY <1>6, <1>7, <1>8, <1>9, <1>10, <1>11 DEF HandlersInv

\* What the late errors make of an attempt.
LEMMA LateFacts ==
  ASSUME run \in Attempt
  PROVE  /\ Late(run) \in Attempt /\ Late(run).next = run.next
         /\ Late(run).snapshot = run.snapshot /\ Late(run).litter = run.litter
         /\ Late(run).lied = run.lied /\ Late(run).murky
<1> DEFINE a == IF IsRestore /\ ~Whole THEN run.applied ELSE 0
<1>1. a \in Nat
  BY AttemptFacts
<1>2. Late(run) = [run EXCEPT !.applied = a, !.murky = TRUE]
  <2>1. CASE IsRestore /\ ~Whole
    BY <2>1 DEF Late
  <2>2. CASE ~(IsRestore /\ ~Whole)
    BY <2>2 DEF Late
  <2> QED BY <2>1, <2>2
<1> HIDE DEF a
<1> QED BY <1>1, <1>2 DEF Attempt

LEMMA SucceededFacts ==
  ASSUME HandlersTypeOK
  PROVE  /\ Succeeded(jobRow) \in
              [status : {"previewed", "running", "succeeded", "failed", "cancelled"}, rows : Nat]
         /\ Succeeded(jobRow).status = "succeeded"
<1> DEFINE n == jobRow.rows + Pieces
<1>1. n \in Nat
  BY HandlersAssumption DEF HandlersTypeOK
<1>2. Succeeded(jobRow) = [jobRow EXCEPT !.status = "succeeded", !.rows = n]
  BY DEF Succeeded
<1> HIDE DEF n
<1> QED BY <1>1, <1>2 DEF HandlersTypeOK

LEMMA LateErrorKeeps ==
  ASSUME HandlersInv, AcceptFails \/ RecordSuccessFails \/ FinishFails PROVE HandlersInv'
<1>1. /\ UNCHANGED <<task, effect, staging, package, source, tries>>
      /\ run.pc \in Settling /\ troubles' \in 0..MaxTroubles /\ trail' \subseteq {"success", "failed"}
  BY HandlersAssumption
  DEF AcceptFails, RecordSuccessFails, FinishFails, Trouble, NoTrouble, World, stores, At,
      Settling, HandlersInv, HandlersTypeOK
<1>2. run \in Attempt
  BY DEF HandlersInv, HandlersTypeOK
<1>3. /\ task.kind = "friendly-csv" => staging' = <<>>
      /\ task.kind = "sql-dump" => run.litter \/ staging' = <<>>
  BY <1>1 DEF HandlersInv, Emptied, Settling
<1>4. run.pc \notin {"idle", "checking", "ended"}
  BY <1>1 DEF Settling
<1>5. ~IsExport => \A p \in 1..Pieces : effect'[p] > 0
  BY <1>1 DEF HandlersInv, Written
<1>6. CASE Throw(Late(run)) /\ UNCHANGED jobRow
  <2> DEFINE r == Late(run)
  <2>1. /\ r \in Attempt /\ r.next = run.next /\ r.snapshot = run.snapshot
        /\ r.litter = run.litter /\ r.lied = run.lied /\ r.murky /\ Throw(r)
    BY <1>2, <1>6, LateFacts
  <2> HIDE DEF r
  <2>2. HandlersTypeOK'
    BY <1>1, <1>6, <2>1, ThrowFacts DEF HandlersInv, HandlersTypeOK
  <2>3. jobRow'.status = "succeeded" =>
          IF IsExport THEN r.lied ELSE \A p \in 1..Pieces : effect'[p] > 0
    BY <1>4, <1>5, <1>6, <2>1, Underway
  <2> QED BY <1>1, <1>3, <1>4, <2>1, <2>2, <2>3, Stops
<1>7. CASE Throw([Late(run) EXCEPT !.lied = TRUE]) /\ jobRow' = Succeeded(jobRow)
  <2> DEFINE r == [Late(run) EXCEPT !.lied = TRUE]
  <2>1. /\ r \in Attempt /\ r.next = run.next /\ r.snapshot = run.snapshot
        /\ r.litter = run.litter /\ r.lied /\ r.murky /\ Throw(r)
    BY <1>2, <1>7, LateFacts DEF Attempt
  <2> HIDE DEF r
  <2>2. jobRow' \in [status : {"previewed", "running", "succeeded", "failed", "cancelled"},
                     rows : Nat]
    BY <1>7, SucceededFacts DEF HandlersInv
  <2>3. HandlersTypeOK'
    BY <1>1, <2>1, <2>2, ThrowFacts DEF HandlersInv, HandlersTypeOK
  <2> QED BY <1>1, <1>3, <1>4, <1>5, <2>1, <2>3, Stops
<1> QED BY <1>6, <1>7 DEF AcceptFails, RecordSuccessFails, FinishFails, World, stores

LEMMA FinishKeeps == ASSUME HandlersInv, FinishRun PROVE HandlersInv'
<1>1. /\ UNCHANGED <<task, effect, staging, package, source, trail, tries, troubles>>
      /\ run.pc = "finishing" /\ jobRow' = Succeeded(jobRow)
  BY DEF FinishRun, World, stores, At
<1>2. /\ (IsExport' <=> IsExport) /\ (IsRestore' <=> IsRestore)
      /\ (Whole' <=> Whole) /\ (Batched' <=> Batched)
  BY <1>1, SameTask
<1>3. /\ jobRow' \in [status : {"previewed", "running", "succeeded", "failed", "cancelled"},
                      rows : Nat]
  BY <1>1, SucceededFacts DEF HandlersInv
<1>4. /\ run' \in Attempt /\ run'.pc = "ended" /\ run'.verdict = "ok" /\ run'.next = run.next
      /\ run'.open = run.open /\ run'.applied = run.applied /\ run'.kept = run.kept
      /\ run'.snapshot = run.snapshot /\ run'.murky = run.murky /\ run'.lied = run.lied
      /\ run'.litter = run.litter
  BY DEF FinishRun, HandlersInv, HandlersTypeOK, Attempt
<1>5. HandlersTypeOK'
  BY <1>1, <1>3, <1>4 DEF HandlersInv, HandlersTypeOK
<1>6. Unstarted' /\ Placed' /\ Written'
  BY <1>1, <1>2, <1>4 DEF HandlersInv, Unstarted, Placed, Written, Settling, Stopping
<1>7. Exported'
  BY <1>1, <1>2, <1>4 DEF HandlersInv, Exported, Settling
<1>8. Finished'
  <2>1. ~IsExport => \A p \in 1..Pieces : effect[p] > 0
    BY <1>1 DEF HandlersInv, Written, Settling
  <2>2. IsExport => package = [p \in 1..Pieces |-> run.snapshot] /\ "success" \in trail
    <3>1. IsExport => Filled(package, Pieces) /\ "success" \in trail
      BY <1>1 DEF HandlersInv, Exported, Settling
    <3> QED BY <3>1 DEF Filled
  <2>3. run.snapshot \in 0..source
    BY DEF HandlersInv, Exported
  <2> QED BY <1>1, <1>2, <1>4, <2>1, <2>2, <2>3 DEF Finished
<1>9. Emptied'
  BY <1>1, <1>2, <1>4 DEF HandlersInv, Emptied, Stopped, Stopping
<1>10. Counted'
  <2>1. Uncounted(run.next)' = Uncounted(run.next)
    BY <1>4 DEF Uncounted, Counts
  <2> QED BY <1>1, <1>2, <1>4, <2>1 DEF HandlersInv, Counted, Settling
<1> QED BY <1>5, <1>6, <1>7, <1>8, <1>9, <1>10 DEF HandlersInv

LEMMA DiscardKeeps == ASSUME HandlersInv, Discard PROVE HandlersInv'
<1>1. /\ UNCHANGED <<task, jobRow, effect, source, trail, tries>> /\ run.pc = "discarding"
      /\ troubles' \in 0..MaxTroubles /\ IsExport
      /\ staging' \in {staging, <<>>} /\ package' \in {package, <<>>}
  BY HandlersAssumption
  DEF Discard, Trouble, NoTrouble, World, At, HandlersInv, HandlersTypeOK, Placed
<1>2. /\ (IsExport' <=> IsExport) /\ (IsRestore' <=> IsRestore)
      /\ (Whole' <=> Whole) /\ (Batched' <=> Batched)
  BY <1>1, SameTask
<1>3. run \in Attempt /\ staging \in Seq(Nat) /\ package \in Seq(Nat) /\ <<>> \in Seq(Nat)
  BY DEF HandlersInv, HandlersTypeOK
<1>4. /\ run' \in Attempt /\ run'.pc = "marking" /\ run'.verdict = run.verdict
      /\ run'.next = run.next /\ run'.open = run.open /\ run'.snapshot = run.snapshot
      /\ run'.lied = run.lied /\ (run.litter => run'.litter)
      /\ \/ run'.litter
         \/ package' = <<>> /\ (task.kind \in {"json-export", "csv-export"} => staging' = <<>>)
  <2>1. CASE /\ staging' = IF task.kind \in {"json-export", "csv-export"} THEN <<>> ELSE staging
             /\ package' = <<>> /\ Go("marking")
    BY <1>3, <2>1 DEF Go, Attempt
  <2>2. CASE run' = [run EXCEPT !.pc = "marking", !.litter = TRUE]
    BY <1>3, <2>2 DEF Attempt
  <2> QED BY <2>1, <2>2 DEF Discard
<1>5. HandlersTypeOK'
  BY <1>1, <1>3, <1>4 DEF HandlersInv, HandlersTypeOK
<1>6. Unstarted' /\ Placed' /\ Written'
  BY <1>1, <1>2, <1>4 DEF HandlersInv, Unstarted, Placed, Written, Settling, Stopping
<1>7. Exported'
  BY <1>1, <1>2, <1>4 DEF HandlersInv, Exported, Settling
<1>8. Finished'
  BY <1>1, <1>2, <1>4, Underway DEF Finished
<1>9. Emptied'
  <2>1. /\ task.kind = "friendly-csv" => staging = <<>>
        /\ task.kind = "sql-dump" => run.litter \/ staging = <<>>
    BY <1>1 DEF HandlersInv, Emptied
  <2>2. task.kind \in {"sql-dump", "json-export", "csv-export", "friendly-csv"}
    BY <1>1, TaskFacts DEF HandlersInv
  <2> QED BY <1>1, <1>2, <1>4, <2>1, <2>2 DEF Emptied
<1>10. Counted'
  BY <1>1, <1>2 DEF Counted
<1> QED BY <1>5, <1>6, <1>7, <1>8, <1>9, <1>10 DEF HandlersInv

\* markStopped and what comes after it.
LEMMA MarkKeeps ==
  ASSUME HandlersInv, MarkStopped \/ MarkFails \/ Tell \/ TellFails PROVE HandlersInv'
<1>1. /\ UNCHANGED <<task, effect, staging, package, source, tries>>
      /\ run.pc \in Stopping /\ troubles' \in 0..MaxTroubles /\ trail' \subseteq {"success", "failed"}
  <2> USE HandlersAssumption DEF Trouble, World, stores, At, Stopping, HandlersInv, HandlersTypeOK
  <2>1. CASE MarkStopped
    <3>1. UNCHANGED <<World, stores, troubles>> /\ At("marking")
      BY <2>1 DEF MarkStopped
    <3> QED BY <3>1
  <2>4. CASE MarkFails
    BY <2>4 DEF MarkFails
  <2>2. CASE TellFails
    BY <2>2 DEF TellFails
  <2>3. CASE Tell
    <3>1. trail' = trail \/ trail' = trail \cup {"failed"}
      BY <2>3 DEF Tell
    <3> QED BY <2>3, <3>1 DEF Tell
  <2> QED BY <2>1, <2>2, <2>3, <2>4
<1>2. /\ (IsExport' <=> IsExport) /\ (IsRestore' <=> IsRestore)
      /\ (Whole' <=> Whole) /\ (Batched' <=> Batched)
  BY <1>1, SameTask
<1>3. run \in Attempt /\ run.verdict \in {"failed", "cancelled"}
  BY <1>1 DEF HandlersInv, HandlersTypeOK, Placed
<1>4. PICK pc \in {"telling", "ended"} : Go(pc)
  BY DEF MarkStopped, MarkFails, Tell, TellFails
<1>5. /\ run' \in Attempt /\ run'.pc = pc /\ run'.next = run.next /\ run'.open = run.open
      /\ run'.applied = run.applied /\ run'.kept = run.kept /\ run'.verdict = run.verdict
      /\ run'.snapshot = run.snapshot /\ run'.murky = run.murky /\ run'.lied = run.lied
      /\ run'.litter = run.litter
  BY <1>3, <1>4, GoFacts
<1>6. /\ jobRow' \in [status : {"previewed", "running", "succeeded", "failed", "cancelled"},
                      rows : Nat]
      /\ jobRow'.status = "succeeded" => jobRow.status = "succeeded"
  <2> DEFINE n == jobRow.rows + Reported
  <2>1. jobRow.rows \in Nat /\ n \in Nat
    <3>1. Reported \in Nat /\ jobRow.rows \in Nat
      BY <1>3, AttemptFacts DEF Reported, HandlersInv, HandlersTypeOK
    <3> QED BY <3>1
  <2>2. jobRow' = jobRow \/ jobRow' = [status |-> run.verdict, rows |-> n]
    BY DEF MarkStopped, MarkFails, Tell, TellFails
  <2> HIDE DEF n
  <2> QED BY <1>3, <2>1, <2>2 DEF HandlersInv, HandlersTypeOK
<1>7. HandlersTypeOK'
  BY <1>1, <1>5, <1>6 DEF HandlersInv, HandlersTypeOK
<1>8. Unstarted' /\ Placed' /\ Written'
  BY <1>1, <1>2, <1>3, <1>5 DEF HandlersInv, Unstarted, Placed, Written, Settling, Stopping
<1>9. Exported'
  BY <1>1, <1>2, <1>5 DEF HandlersInv, Exported, Settling
<1>10. Finished'
  <2>1. run.pc # "ended"
    BY <1>1 DEF Stopping
  <2> QED BY <1>1, <1>2, <1>5, <1>6, <2>1, Underway DEF Finished
<1>11. Emptied'
  BY <1>1, <1>2, <1>5 DEF HandlersInv, Emptied, Stopped, Stopping
<1>12. Counted'
  <2>1. Uncounted(run.next)' = Uncounted(run.next)
    BY <1>5 DEF Uncounted, Counts
  <2> QED BY <1>1, <1>2, <1>3, <1>5, <2>1 DEF HandlersInv, Counted, Settling, Stopping
<1> QED BY <1>7, <1>8, <1>9, <1>10, <1>11, <1>12 DEF HandlersInv

\* The next attempt, after the end of one or the death of the process.
LEMMA FreshKeeps == ASSUME HandlersInv, Again \/ DieInRun PROVE HandlersInv'
<1>1. /\ UNCHANGED <<task, effect, staging, package, trail, source, tries>>
      /\ troubles' \in 0..MaxTroubles
  BY HandlersAssumption
  DEF Again, DieInRun, Trouble, World, stores, HandlersInv, HandlersTypeOK
<1>2. /\ (IsExport' <=> IsExport) /\ (IsRestore' <=> IsRestore)
      /\ (Whole' <=> Whole) /\ (Batched' <=> Batched)
  BY <1>1, SameTask
<1>3. run \in Attempt /\ run.lied \in BOOLEAN /\ run.litter \in BOOLEAN
  BY DEF HandlersInv, HandlersTypeOK, Attempt
<1>4. PICK litter \in BOOLEAN : /\ run' = Fresh("idle", run.lied, litter)
                                /\ run.litter => litter
                                /\ DieInRun /\ task.kind = "sql-dump" => litter
  BY <1>3 DEF Again, DieInRun
<1>5. /\ run' \in Attempt /\ run'.pc = "idle" /\ run'.next = 1 /\ run'.open = {}
      /\ run'.applied = 0 /\ run'.kept = 0 /\ run'.snapshot = 0
      /\ ~run'.murky /\ run'.lied = run.lied /\ run'.litter = litter
  BY <1>3, <1>4, FreshFacts
<1>6. /\ jobRow' \in [status : {"previewed", "running", "succeeded", "failed", "cancelled"},
                      rows : Nat]
      /\ jobRow'.status = "succeeded" => jobRow.status = "succeeded" /\ run.pc # "ended"
  <2>1. jobRow \in [status : {"previewed", "running", "succeeded", "failed", "cancelled"},
                    rows : Nat]
    BY DEF HandlersInv, HandlersTypeOK
  <2>2. CASE Again
    <3>1. PICK status \in {"previewed", "failed"} : jobRow' = [jobRow EXCEPT !.status = status]
      BY <2>2 DEF Again
    <3> QED BY <2>1, <3>1
  <2>3. CASE DieInRun
    <3>1. run.pc # "ended"
      BY <2>3 DEF DieInRun
    <3>2. CASE jobRow.status = "running"
      BY <2>1, <2>3, <3>2 DEF DieInRun
    <3>3. CASE jobRow.status # "running"
      BY <2>1, <2>3, <3>1, <3>3 DEF DieInRun
    <3> QED BY <3>2, <3>3
  <2> QED BY <2>2, <2>3
<1>7. HandlersTypeOK'
  BY <1>1, <1>5, <1>6 DEF HandlersInv, HandlersTypeOK
<1>8. Unstarted' /\ Placed' /\ Written'
  BY <1>2, <1>5, HandlersAssumption DEF Unstarted, Placed, Written, Settling, Stopping
<1>9. Exported'
  BY <1>1, <1>2, <1>5, HandlersAssumption DEF HandlersInv, HandlersTypeOK, Exported, Settling
<1>10. Finished'
  BY <1>1, <1>2, <1>5, <1>6, Underway DEF Finished
<1>11. Emptied'
  <2>1. task.kind = "sql-dump" => litter \/ staging = <<>>
    BY <1>4 DEF HandlersInv, Emptied, Again, At
  <2> QED BY <1>1, <1>2, <1>5, <2>1 DEF HandlersInv, Emptied, Stopped, Stopping
<1>12. Counted'
  <2>1. 1..(run'.next - 1) = {}
    BY <1>5
  <2>2. Uncounted(run.next)' = {}
    BY <2>1 DEF Uncounted
  <2> QED BY <1>5, <2>2, FS_EmptySet DEF Counted
<1> QED BY <1>7, <1>8, <1>9, <1>10, <1>11, <1>12 DEF HandlersInv

\* What others do, and a step of somebody else.
LEMMA OthersKeep ==
  ASSUME HandlersInv, Abort \/ CancelRow \/ Edit \/ UNCHANGED handlerVars PROVE HandlersInv'
<1>1. /\ UNCHANGED <<task, effect, staging, package, trail, tries, troubles>>
      /\ source' \in 0..MaxEdits /\ source <= source' /\ source \in Nat
      /\ jobRow' \in [status : {"previewed", "running", "succeeded", "failed", "cancelled"},
                      rows : Nat]
      /\ jobRow'.status = "succeeded" => jobRow.status = "succeeded"
  BY HandlersAssumption
  DEF Abort, CancelRow, Edit, handlerVars, World, stores, HandlersInv, HandlersTypeOK
<1>2. /\ (IsExport' <=> IsExport) /\ (IsRestore' <=> IsRestore)
      /\ (Whole' <=> Whole) /\ (Batched' <=> Batched)
  BY <1>1, SameTask
<1>3. run \in Attempt
  BY DEF HandlersInv, HandlersTypeOK
<1>4. /\ run' \in Attempt /\ run'.pc = run.pc /\ run'.next = run.next /\ run'.open = run.open
      /\ run'.applied = run.applied /\ run'.kept = run.kept /\ run'.verdict = run.verdict
      /\ run'.snapshot = run.snapshot /\ run'.murky = run.murky /\ run'.lied = run.lied
      /\ run'.litter = run.litter
  <2>1. CASE run' = run
    BY <1>3, <2>1
  <2>2. CASE run' = [run EXCEPT !.stop = TRUE]
    BY <1>3, <2>2 DEF Attempt
  <2> QED BY <2>1, <2>2 DEF Abort, CancelRow, Edit, handlerVars
<1>5. HandlersTypeOK'
  BY <1>1, <1>4 DEF HandlersInv, HandlersTypeOK
<1>6. Unstarted' /\ Placed' /\ Written'
  BY <1>1, <1>2, <1>4 DEF HandlersInv, Unstarted, Placed, Written
<1>7. Exported'
  <2>1. \A n \in {run.next - 1, Pieces} :
          /\ Filled(staging, n) => Filled(staging, n)'
          /\ Filled(package, n) => Filled(package, n)'
    BY <1>1, <1>4 DEF Filled
  <2>2. run'.snapshot \in 0..source'
    BY <1>1, <1>4 DEF HandlersInv, Exported
  <2> QED BY <1>1, <1>2, <1>4, <2>2 DEF HandlersInv, Exported, Filled
<1>8. Finished'
  <2>1. 0..source \subseteq 0..source'
    BY <1>1
  <2> QED BY <1>1, <1>2, <1>4, <2>1 DEF HandlersInv, Finished
<1>9. Emptied'
  BY <1>1, <1>2, <1>4 DEF HandlersInv, Emptied, Stopped
<1>10. Counted'
  <2>1. Uncounted(run.next)' = Uncounted(run.next)
    BY <1>4 DEF Uncounted, Counts
  <2> QED BY <1>2, <1>4, <2>1 DEF HandlersInv, Counted
<1> QED BY <1>5, <1>6, <1>7, <1>8, <1>9, <1>10 DEF HandlersInv

LEMMA HandlersInductive == HandlersInv /\ [HandlersNext]_handlerVars => HandlersInv'
  BY BeginKeeps, StartKeeps, EarlyErrorKeeps, OpenKeeps, ReadKeeps, WriteKeeps, ApplyKeeps,
     ThroughKeeps, CommitKeeps, CommitErrorKeeps, DataErrorKeeps, PackKeeps, SettleKeeps,
     LateErrorKeeps, FinishKeeps, DiscardKeeps, MarkKeeps, FreshKeeps, OthersKeep
  DEF HandlersNext

-----------------------------------------------------------------------------
(* The theorems *)

THEOREM HandlersInvariant == HandlersSpec => []HandlersInv
  BY HandlersInitially, HandlersInductive, PTL DEF HandlersSpec

\* Every variable keeps its type.
THEOREM HandlersTyped == HandlersSpec => []HandlersTypeOK
<1>1. HandlersInv => HandlersTypeOK
  BY DEF HandlersInv
<1> QED BY <1>1, HandlersInvariant, PTL

\* A job that says "succeeded" is complete, for any number of pieces, attempts, errors and
\* edits of its source.
THEOREM SuccessComplete == HandlersSpec => []SucceededComplete
<1>1. HandlersInv => SucceededComplete
  BY DEF HandlersInv, Finished, SucceededComplete
<1> QED BY <1>1, HandlersInvariant, PTL

\* An attempt that stopped reports what it left, and an export leaves nothing.
THEOREM StopsReported == HandlersSpec => []StoppedReported
<1>1. ASSUME HandlersInv, run.pc = "ended", run.verdict \in {"failed", "cancelled"}, IsExport
      PROVE  run.litter \/ (staging = <<>> /\ package = <<>>)
  BY <1>1 DEF HandlersInv, Emptied, Stopped
<1>2. ASSUME HandlersInv, run.pc = "ended", run.verdict \in {"failed", "cancelled"}, ~IsExport,
             ~run.murky
      PROVE  \/ Whole /\ run.kept = 0
             \/ /\ ~Whole /\ run.applied <= run.kept
                /\ Batched => run.applied = run.kept
                /\ run.kept <= run.applied + Cardinality(Entry)
  <2>1. run.applied \in Nat /\ run.kept \in Nat /\ run.next \in Nat \ {0}
    BY <1>2, HandlersAssumption DEF HandlersInv, HandlersTypeOK, Attempt, Placed
  <2>2. IsFiniteSet(Entry) /\ Cardinality(Entry) \in Nat
    <3>1. IsFiniteSet(1..Pieces)
      BY FS_Interval, HandlersAssumption
    <3>2. IsFiniteSet(Entry)
      BY <3>1, FS_Subset, HandlersAssumption
    <3> QED BY <3>2, FS_CardinalityType
  <2>3. Cardinality(Uncounted(run.next)) \in 0..Cardinality(Entry)
    <3>1. Uncounted(run.next) \subseteq Entry
      BY DEF Uncounted, Counts
    <3>2. Cardinality(Uncounted(run.next)) <= Cardinality(Entry)
      BY <2>2, <3>1, FS_Subset
    <3>3. Cardinality(Uncounted(run.next)) \in Nat
      BY <2>1, UncountedFurther
    <3> QED BY <2>2, <3>2, <3>3
  <2>4. CASE Whole
    BY <1>2, <2>4 DEF HandlersInv, Counted, Settling
  <2>5. CASE Batched
    BY <1>2, <2>1, <2>2, <2>5, TaskFacts DEF HandlersInv, Counted
  <2>6. CASE ~Whole /\ ~Batched
    <3>1. run.kept = run.applied + Cardinality(Uncounted(run.next))
      BY <1>2, <2>6 DEF HandlersInv, Counted
    <3> QED BY <2>1, <2>2, <2>3, <2>6, <3>1
  <2> QED BY <2>4, <2>5, <2>6
<1>3. HandlersInv => StoppedReported
  BY <1>1, <1>2 DEF StoppedReported
<1> QED BY <1>3, HandlersInvariant, PTL

=============================================================================
