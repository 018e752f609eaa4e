------------------------------ MODULE SqlDumps ------------------------------
(***************************************************************************)
(* What a SQL dump holds of a database and what a restore makes of it: the *)
(* objects the snapshot sessions of PostgreSQL and MySQL list for a scope, *)
(* the dependencies they record, the manifest, the plan that the preview   *)
(* of a restore builds from it, and the plan's run against the target      *)
(* database, statement by statement.  TransferHandlers has the attempt     *)
(* around it (cancel, commit, job row) and Previews what the plan is       *)
(* checked against when it is run.                                         *)
(*                                                                         *)
(* An object is what the dump cannot see and what it can: `needs` is what  *)
(* its definition really uses, `traits` what the mapping code looks at.    *)
(* Objects are numbered in the order of their ids in the code, which start *)
(* with the kind.                                                          *)
(***************************************************************************)
EXTENDS Integers, FiniteSets, Sequences

CONSTANTS
  Sources,    \* databases to dump, see SourceOK
  Scopes,     \* what users dump: the database, a schema, a table
  Versions    \* of each engine, versions of target servers (major * 10000 + minor * 100 + patch)

ObjectKinds == {"schema", "type", "domain", "sequence", "table", "partition", "constraint", "index",
          "view", "materialized-view", "function", "procedure", "trigger", "event",
          "extension"}
ObjectOK(o, n) ==
  /\ o.kind \in ObjectKinds
  /\ o.on \in 0..n              \* the table it belongs to, or 0
  /\ o.needs \subseteq 1..n
  /\ o.on # 0 /\ o.kind # "sequence" => o.on \in o.needs
  /\ "foreign-key" \in o.traits => o.kind = "constraint"
  /\ "implicit" \in o.traits => o.kind = "index"
SourceOK(s) ==
  /\ s.engine \in {"mysql", "postgres"} /\ s.version \in Nat
  /\ s.objects \in Seq({s.objects[i] : i \in DOMAIN s.objects})
  /\ \A i \in DOMAIN s.objects : ObjectOK(s.objects[i], Len(s.objects))

ASSUME DumpsAssumption ==
  Versions \in [{"mysql", "postgres"} -> SUBSET Nat] /\ \A s \in Sources : SourceOK(s)

VARIABLES
  origin,     \* the database that is dumped
  manifest,   \* what the dump holds
  request,    \* how it is restored
  script,     \* the statements of the plan, in the order they are run
  next,       \* the one to run
  database,   \* the objects of the target database
  loaded,     \* tables whose rows were loaded
  before,     \* history: the target when the restore began
  stage

dumpVars == <<origin, manifest, request, script, next, database, loaded, before, stage>>

IsPostgres == origin.engine = "postgres"
Ids == DOMAIN origin.objects
Object(i) == origin.objects[i]
Of(kinds) == {i \in Ids : Object(i).kind \in kinds}
Trait(i, t) == t \in Object(i).traits
-----------------------------------------------------------------------------
(* What a dump lists *)

InScope(sc, i) ==
  CASE sc.kind = "database" -> TRUE
    [] sc.kind = "schema" -> Object(i).schema = sc.schema
    [] sc.kind = "table" -> Object(i).schema = sc.schema /\ (IF Object(i).kind = "table"
                            THEN Object(i).name ELSE Object(Object(i).on).name) = sc.table
Wide(sc) == sc.kind # "table"

\* listTables of both; partitions are objects of their own.
ListTables(sc) == {i \in Of({"table"}) : InScope(sc, i)}

\* The constraints and indexes of the tables: no exclusion constraint of PostgreSQL, no check
\* of MySQL before 8.0.16.
MapsConstraint(i) == ~Trait(i, "exclusion")
MysqlDescribes(i) == Trait(i, "check") => origin.version >= 80016
DescribeTables(sc) ==
  {i \in Of({"constraint", "index"}) :
     /\ Object(i).on \in ListTables(sc)
     /\ IF IsPostgres THEN MapsConstraint(i) ELSE MysqlDescribes(i)}

DescribeSchemas(sc) == {i \in Of({"schema"}) : Wide(sc) /\ InScope(sc, i)}

\* Of a table, the sequences it owns.
DescribeSequences(sc) ==
  {i \in Of({"sequence"}) : IF Wide(sc) THEN InScope(sc, i)
                            ELSE Object(i).on # 0 /\ InScope(sc, i)}

DescribeTypes(sc) == {i \in Of({"type", "domain"}) : Wide(sc) /\ InScope(sc, i)}

DescribeViews(sc) ==
  {i \in Of({"view", "materialized-view"}) : Wide(sc) /\ InScope(sc, i)}

\* Those of the system too.
DescribeExtensions(sc) == {i \in Of({"extension"}) : Wide(sc) /\ InScope(sc, i)}

\* In sql and plpgsql, and not of an extension.
DescribeRoutines(sc) ==
  {i \in Of({"function", "procedure"}) :
     /\ Wide(sc) /\ InScope(sc, i)
     /\ ~Trait(i, "foreign-language") /\ ~Trait(i, "of-extension")}

DescribeTriggers(sc) == {i \in Of({"trigger"}) : InScope(sc, i)}

DescribeEvents(sc) == {i \in Of({"event"}) : Wide(sc) /\ InScope(sc, i)}

\* Of PostgreSQL, the children of a table in scope.
DescribePartitions(sc) == {i \in Of({"partition"}) : InScope(sc, i)}

Listed(sc) ==
  ListTables(sc) \cup DescribeTables(sc) \cup DescribeSchemas(sc) \cup DescribeSequences(sc)
  \cup DescribeTypes(sc) \cup DescribeViews(sc) \cup DescribeExtensions(sc)
  \cup DescribeRoutines(sc) \cup DescribeTriggers(sc) \cup DescribeEvents(sc)
  \cup DescribePartitions(sc)

\* What the commands of a dump can express of an object; else there is no dump.
\* Columns have a type of the list (no enum or domain of PostgreSQL) and a simple default.
ColumnsFit(i) == ~Trait(i, "user-type") /\ ~Trait(i, "computed-default")
MysqlColumnsFit(i) == ~Trait(i, "user-type")
DomainFits(i) == ~Trait(i, "user-type") /\ ~Trait(i, "computed-default")
RoutineFits(i) == ~Trait(i, "user-type") /\ ~Trait(i, "variadic")
MysqlRoutineFits(i) == ~Trait(i, "user-type")
MysqlEventFits(i) == ~Trait(i, "odd-interval")
PartitionFits(i) == Object(i).schema = Object(Object(i).on).schema
MysqlPartitionFits(i) == ~Trait(i, "hash")
MysqlIndexFits(i) == ~Trait(i, "expression")
Expressible(i) ==
  CASE Object(i).kind = "table" -> IF IsPostgres THEN ColumnsFit(i) ELSE MysqlColumnsFit(i)
    [] Object(i).kind = "domain" -> DomainFits(i)
    [] Object(i).kind \in {"function", "procedure"} ->
         IF IsPostgres THEN RoutineFits(i) ELSE MysqlRoutineFits(i)
    [] Object(i).kind = "event" -> MysqlEventFits(i)
    [] Object(i).kind = "partition" ->
         IF IsPostgres THEN PartitionFits(i) ELSE MysqlPartitionFits(i)
    [] Object(i).kind = "index" -> IsPostgres \/ MysqlIndexFits(i)
    [] OTHER -> TRUE
-----------------------------------------------------------------------------
(* The dependencies it records; 0 is an id no object of the dump has *)

TableId(i) == IF Object(i).kind = "table" THEN i ELSE 0
TablesOf(i) == {TableId(j) : j \in Object(i).needs \cap Of({"table", "partition"})}

\* A constraint needs its table and the one its foreign key names, an index its table.
TableObjectDeps(i) ==
  IF Object(i).kind = "constraint" THEN TablesOf(i) ELSE {TableId(Object(i).on)}

\* Those of relations that are tables: neither views nor functions.
ViewDeps(i) == TablesOf(i)
TriggerDeps(i) == {TableId(Object(i).on)} \cup (Object(i).needs \cap Of({"function"}))
PartitionDeps(i) == {TableId(Object(i).on)}

PostgresDeps(sc, i) ==
  (CASE Object(i).kind = "table" -> Object(i).needs \cap DescribeSequences(sc)
     [] Object(i).kind \in {"constraint", "index"} -> TableObjectDeps(i)
     [] Object(i).kind \in {"view", "materialized-view"} -> ViewDeps(i)
     [] Object(i).kind = "trigger" -> TriggerDeps(i)
     [] Object(i).kind = "partition" -> PartitionDeps(i)
     [] OTHER -> {})
  \cup {s \in DescribeSchemas(sc) : s # i /\ Object(s).schema = Object(i).schema}

\* Before 8.0 a view is put after all tables; later the tables it uses are known, with the
\* views among them.
MysqlViewDeps(sc, i) ==
  IF origin.version < 80000 THEN ListTables(sc)
  ELSE {TableId(j) : j \in Object(i).needs \cap Of({"table", "view"})}
MysqlTriggerDeps(i) == {TableId(Object(i).on)}
MysqlDeps(sc, i) ==
  CASE Object(i).kind \in {"constraint", "index"} -> TableObjectDeps(i)
    [] Object(i).kind = "view" -> MysqlViewDeps(sc, i)
    [] Object(i).kind = "trigger" -> MysqlTriggerDeps(i)
    [] Object(i).kind = "partition" -> PartitionDeps(i)
    [] OTHER -> {}

Deps(sc, i) == IF IsPostgres THEN PostgresDeps(sc, i) ELSE MysqlDeps(sc, i)
-----------------------------------------------------------------------------
(* The dump *)

\* Functions with the same name have the same id whatever their arguments.
IdOf(i) == <<Object(i).kind, Object(i).schema, Object(i).on, Object(i).name>>

\* validateSqlDumpManifest
ManifestOK(sc) ==
  /\ \A i, j \in Listed(sc) : IdOf(i) = IdOf(j) => i = j
  /\ \A i \in Listed(sc) : i \notin Deps(sc, i)

\* inspect of both sessions.
Dumpable(sc) ==
  /\ ListTables(sc) # {}
  /\ \A i \in Listed(sc) : Expressible(i) /\ Deps(sc, i) \subseteq Listed(sc)
  /\ ManifestOK(sc)

Nothing == [ids |-> {}, deps |-> <<>>, data |-> FALSE]

\* A database, and a target that has some of its objects already, with what they use.
DumpsInit ==
  /\ origin \in Sources
  /\ database \in {t \in SUBSET Ids : \A i \in t : Object(i).needs \subseteq t}
  /\ manifest = Nothing /\ request = Nothing
  /\ script = <<>> /\ next = 1 /\ loaded = {} /\ before = database
  /\ stage = "catalog"

TakeDump ==
  /\ stage = "catalog"
  /\ \E sc \in Scopes, data \in BOOLEAN :
       IF Dumpable(sc)
       THEN /\ manifest' = [ids |-> Listed(sc), deps |-> [i \in Listed(sc) |-> Deps(sc, i)],
                            data |-> data]
            /\ stage' = "dumped"
       ELSE stage' = "undumpable" /\ UNCHANGED manifest
  /\ UNCHANGED <<origin, request, script, next, database, loaded, before>>
-----------------------------------------------------------------------------
(* The plan of a restore *)

Requests ==
  [version : Versions[origin.engine],
   mode : {"stop", "drop-and-recreate", "confirmed"},    \* with the database's name or without
   skip : BOOLEAN,
   elsewhere : IF IsPostgres THEN {FALSE} ELSE BOOLEAN]   \* the target is not named like the source

\* The objects of the dump that the target has, by kind, schema and name and not by
\* table.  A schema has a schema in the catalog and none in the dump; a partitioned
\* table is no relation of kind r.
NameOf(i) == <<Object(i).kind, Object(i).schema, Object(i).name>>
PostgresExisting ==
  {i \in manifest.ids :
     /\ Object(i).kind # "schema"
     /\ \E j \in database : NameOf(j) = NameOf(i) /\ ~Trait(j, "partitioned")}

\* Looked up in the target database, while the statements name the schema of the source.
MysqlExisting(r) ==
  IF r.elsewhere THEN {} ELSE {i \in manifest.ids : \E j \in database : NameOf(j) = NameOf(i)}
Existing(r) == IF IsPostgres THEN PostgresExisting ELSE MysqlExisting(r)

SupportedKinds(r) ==
  {"table", "index", "constraint", "view", "function", "trigger", "partition"}
  \cup IF IsPostgres
       THEN {"schema", "type", "domain", "sequence", "materialized-view", "extension"}
            \cup (IF r.version >= 110000 THEN {"procedure"} ELSE {})
       ELSE {"procedure", "event"}
Unsupported(r) == {i \in manifest.ids : Object(i).kind \notin SupportedKinds(r)}

\* determineSkipped: what cannot be made, and what needs it, until a round adds nothing.
SkipRounds(r) ==
  LET out[n \in Nat] ==
        IF n = 0 THEN Unsupported(r)
        ELSE LET last == out[n - 1]
             IN last \cup {i \in manifest.ids : manifest.deps[i] \cap last # {}}
  IN out
Skipped(r) ==
  LET out == SkipRounds(r)
  IN out[CHOOSE n \in 0..Cardinality(manifest.ids) : out[n + 1] = out[n]]
Included(r) == manifest.ids \ Skipped(r)

\* topologicalOrder: what is pending after n rounds; each takes the objects that wait for
\* none that is.
PendingRounds(ids) ==
  LET pending[n \in Nat] ==
        IF n = 0 THEN ids
        ELSE LET last == pending[n - 1]
             IN {i \in last : manifest.deps[i] \cap last # {}}
  IN pending
Cyclic(ids) == PendingRounds(ids)[Cardinality(ids)] # {}
Waves(ids) ==
  LET pending == PendingRounds(ids)
  IN [i \in ids |-> CHOOSE n \in 1..Cardinality(ids) :
                      i \notin pending[n] /\ \A m \in 1..(n - 1) : i \in pending[m]]

\* Faulty: the dependencies of an object are not waited for.
OrderedById(s, t) == s.id < t.id

\* Its order: by rounds; in a round the ids decide.
Ordered(s, t) == s.wave < t.wave \/ (s.wave = t.wave /\ s.id < t.id)

\* Faulty: a partition is made with what depends on its table.
PhaseForWithoutPartition(kind) ==
  IF kind \in {"schema", "type", "domain", "sequence", "table"} THEN 1 ELSE 3

\* phaseFor and phaseRank; 0 are the drops, 2 is the data.
PhaseFor(kind) ==
  IF kind \in {"schema", "type", "domain", "sequence", "table", "partition"} THEN 1 ELSE 3

PlanStep(phase, do, i, wave) == [phase |-> phase, do |-> do, id |-> i, wave |-> wave]
PlanSteps(existing, included) ==
  LET waves == Waves(included)
  IN {PlanStep(0, "drop", i, waves[i]) : i \in existing \cap included}
     \cup {PlanStep(PhaseFor(Object(i).kind), "create", i, waves[i]) : i \in included}
     \cup {PlanStep(2, "load", i, 0) :
             i \in IF manifest.data THEN included \cap Of({"table"}) ELSE {}}

\* The drops in reverse; the data as it comes in the package.
Ahead(s, t) ==
  \/ s.phase < t.phase
  \/ s.phase = t.phase /\ (IF s.do = "drop" THEN Ordered(t, s) ELSE Ordered(s, t))
Script(existing, included) ==
  LET all == PlanSteps(existing, included)
      placed == {<<Cardinality({t \in all : Ahead(t, s)}) + 1, s>> : s \in all}
  IN [n \in 1..Cardinality(all) |-> CHOOSE s \in all : <<n, s>> \in placed]

\* validateCommands: the server can do what the commands ask for.
Buildable(i, r) ==
  /\ Trait(i, "check") => IsPostgres \/ r.version >= 80016
  /\ Object(i).kind = "partition" \/ Trait(i, "partitioned") => ~IsPostgres \/ r.version >= 100000
  /\ ~Trait(i, "array")

\* buildSqlRestorePlan and the checks of the preview around it.
Restorable(r, existing, included) ==
  /\ existing # {} => r.mode = "confirmed"
  /\ Unsupported(r) # {} => r.skip
  /\ ~Cyclic(included)
  /\ \A i \in included : Buildable(i, r)

\* A preview with a plan that is run unchanged, see Previews.
PlanRestore ==
  /\ stage = "dumped"
  /\ \E r \in Requests :
       LET existing == Existing(r)
           included == Included(r)
       IN /\ request' = r
          /\ IF Restorable(r, existing, included)
             THEN script' = Script(existing, included) /\ stage' = "restoring"
             ELSE stage' = "refused" /\ UNCHANGED script
  /\ UNCHANGED <<origin, manifest, next, database, loaded, before>>
-----------------------------------------------------------------------------
(* The restore; what statements do is up to the servers *)

Belongs == {"constraint", "index", "trigger", "partition", "sequence"}
\* With a table goes what belongs to it.
Gone(i) == {i} \cup {j \in database : Object(j).on = i /\ Object(j).kind \in Belongs}

\* PostgreSQL drops nothing that something else uses, MySQL no table, index or unique key
\* that a foreign key uses and no last partition.
Droppable(i) ==
  /\ i \in database
  /\ IF IsPostgres THEN \A j \in database \ Gone(i) : i \notin Object(j).needs
     ELSE /\ \A j \in database \ Gone(i) : ~(Trait(j, "foreign-key") /\ i \in Object(j).needs)
          /\ Object(i).kind = "partition" =>
               \E j \in database \ {i} : Object(j).kind = "partition" /\ Object(j).on = Object(i).on

\* MySQL's first partition partitions the table, and a foreign key makes its index.
Creatable(i) ==
  /\ i \notin database
  /\ Object(i).needs \subseteq database
  /\ ~Trait(i, "expression")
  /\ ~IsPostgres /\ Object(i).kind = "partition" =>
       (Trait(i, "initialize") <=>
        ~\E j \in database : Object(j).kind = "partition" /\ Object(j).on = Object(i).on)
Made(i) ==
  {i} \cup {j \in Ids : /\ Trait(i, "foreign-key") /\ Trait(j, "implicit")
                        /\ Object(j).on = Object(i).on /\ Object(j).name = Object(i).name}

\* buildSqlRestoreDataPlan: a column that generates its values is in the primary key, and the
\* types are those of its list.
Loadable(i) == ~Trait(i, "generated-outside-key") /\ ~Trait(i, "unlisted-type")

Restoring == stage = "restoring" /\ next <= Len(script)
Upcoming == script[next]

RunDrop ==
  /\ Restoring /\ Upcoming.do = "drop" /\ Droppable(Upcoming.id)
  /\ database' = database \ Gone(Upcoming.id)
  /\ next' = next + 1
  /\ UNCHANGED <<origin, manifest, request, script, loaded, before, stage>>

RunCreate ==
  /\ Restoring /\ Upcoming.do = "create" /\ Creatable(Upcoming.id)
  /\ database' = database \cup Made(Upcoming.id)
  /\ next' = next + 1
  /\ UNCHANGED <<origin, manifest, request, script, loaded, before, stage>>

RunLoad ==
  /\ Restoring /\ Upcoming.do = "load" /\ Loadable(Upcoming.id)
  /\ loaded' = loaded \cup {Upcoming.id}
  /\ next' = next + 1
  /\ UNCHANGED <<origin, manifest, request, script, database, before, stage>>

\* A statement fails, for its own reasons or another: PostgreSQL rolls back.
RunFails ==
  /\ Restoring
  /\ stage' = "failed"
  /\ IF IsPostgres THEN database' = before /\ loaded' = {} ELSE UNCHANGED <<database, loaded>>
  /\ UNCHANGED <<origin, manifest, request, script, next, before>>

FinishRestore ==
  /\ stage = "restoring" /\ next > Len(script)
  /\ stage' = "restored"
  /\ UNCHANGED <<origin, manifest, request, script, next, database, loaded, before>>

DumpsNext ==
  TakeDump \/ PlanRestore \/ RunDrop \/ RunCreate \/ RunLoad \/ RunFails \/ FinishRestore

DumpsSpec == DumpsInit /\ [][DumpsNext]_dumpVars
-----------------------------------------------------------------------------
(* Properties *)

\* Every variable keeps its type.
DumpsTypeOK ==
  /\ origin \in Sources
  /\ manifest.ids \subseteq Ids /\ manifest.data \in BOOLEAN
  /\ request \in Requests \cup {Nothing}
  /\ \A n \in DOMAIN script : script[n].id \in Ids
  /\ next \in 1..Len(script) + 1
  /\ database \subseteq Ids /\ loaded \subseteq Ids /\ before \subseteq Ids
  /\ stage \in {"catalog", "undumpable", "dumped", "refused", "restoring", "failed", "restored"}

\* An object the target has and the preview does not see.
Unseen(i) ==
  \/ IF IsPostgres THEN Object(i).kind = "schema" \/ Trait(i, "partitioned") ELSE request.elsewhere
  \/ Trait(i, "implicit")

\* A statement of a restore finds what the manifest says it needs: an object is made when all
\* its dependencies of the dump are there and the old one is gone, and dropped
\* when nothing that depends on it is left, whatever part of the dump the target had,
\* the scope, the options and the versions (sql-restore-plan.test.ts).  What the dump
\* does not record is another matter: a view on a view or a function, an old object that
\* the catalog query does not see.
StatementsGrounded ==
  Restoring =>
    IF Upcoming.do = "drop"
    THEN \A j \in manifest.ids \cap database : Upcoming.id \in manifest.deps[j] => Unseen(j)
    ELSE /\ manifest.deps[Upcoming.id] \subseteq database
         /\ Upcoming.do = "create" /\ Upcoming.id \in database => Unseen(Upcoming.id)

\* Rows go into a table that is there with all the partitions of the dump, and with no
\* constraint, index or trigger of the dump yet that they could violate or fire
\* (agent/question.md:169, agent/deep_todos.md:94).
LoadsUndisturbed ==
  Restoring /\ Upcoming.do = "load" =>
    /\ Upcoming.id \in database \ loaded
    /\ \A i \in manifest.ids : Object(i).on = Upcoming.id =>
         CASE Object(i).kind = "partition" -> i \in database
           [] Object(i).kind \in {"constraint", "index", "trigger"} -> i \notin database
           [] OTHER -> TRUE
=============================================================================
