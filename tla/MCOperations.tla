---------------------------- MODULE MCOperations ----------------------------
(* One instance of each module about what is done to the target databases:     *)
(* the gate, changes and their rules, the handlers of transfers, dumps with    *)
(* their restores, previews, and the pages of a table.  They share no state,   *)
(* so a behaviour is one of a single module, picked in the initial state,      *)
(* while the others stand still.                                               *)
EXTENDS MCOperationGate, AuditedChanges, ChangeRules, TransferHandlers, SqlDumps, Previews,
        TablePages

VARIABLE part

operationsVars ==
  <<part, vars, changeVars, ruleVars, handlerVars, dumpVars, previewVars, pageVars>>

-----------------------------------------------------------------------------
(* Changes: two cells that hold 0 (nothing), 1 or 2. *)

St(cell, needs, puts) == [cell |-> cell, needs |-> needs, puts |-> puts]
Change2(kind, statements) == [kind |-> kind, statements |-> statements]

MCPlans == {
  Change2("mutation", <<St("x", {1}, 2), St("y", {1}, 0)>>),
  Change2("mutation", <<St("y", {1}, 2), St("x", {1}, 2)>>),
  Change2("mutation", <<St("x", {0}, 1)>>),
  Change2("ddl", <<St("x", {0}, 1)>>),
  Change2("ddl", <<St("x", {1, 2}, 0)>>),
  Change2("database", <<St("x", {0}, 1)>>),
  Change2("grant", <<St("x", {0, 1, 2}, 1), St("y", {0, 1, 2}, 0)>>)}

(* Rules: servers around the versions at which something changes. *)

MCServers ==
  [engine : {"postgres"}, version : {90600, 100000, 110000}]
  \cup [engine : {"mysql"}, version : {50600, 50708, 80000, 80016}]

(* Handlers: a job of each kind; `bad` is the piece that can not be read or stored. *)

T(kind, engin, transaction, conflict, keyed, bad) ==
  [kind |-> kind, engine |-> engin, transaction |-> transaction, conflict |-> conflict,
   keyed |-> keyed, bad |-> bad]

MCTasks == {
  T("sql-dump", "postgres", "atomic", "skip", TRUE, 0),
  T("json-export", "mysql", "atomic", "skip", TRUE, 0),
  T("friendly-csv", "mysql", "atomic", "skip", TRUE, 0),
  T("csv-export", "postgres", "atomic", "skip", TRUE, 2),
  T("json-import", "mysql", "atomic", "update", TRUE, 4),
  T("csv-import", "postgres", "atomic", "skip", TRUE, 0),
  T("json-import", "postgres", "batch", "skip", FALSE, 0),
  T("csv-import", "mysql", "batch", "skip", TRUE, 4),
  T("sql-restore", "mysql", "atomic", "skip", TRUE, 0),
  T("sql-restore", "mysql", "atomic", "skip", TRUE, 3),
  T("sql-restore", "postgres", "atomic", "skip", TRUE, 0)}

(* Dumps: a database of each engine; objects are numbered in the order of their *)
(* identifiers, <<kind, schema, name>>.                                        *)

O(kind, name, on, needs, traits) ==
  [kind |-> kind, schema |-> "app", name |-> name, on |-> on, needs |-> needs, traits |-> traits]

PostgresSource == [engine |-> "postgres", version |-> 110000, objects |-> <<
  O("constraint", "fk", 7, {6, 7}, {"foreign-key"}),      \* 1
  O("function", "f", 0, {4}, {}),                         \* 2
  O("index", "i", 8, {8}, {}),                            \* 3
  O("schema", "app", 0, {}, {}),                          \* 4
  O("sequence", "s", 0, {4}, {}),                         \* 5
  O("table", "t", 0, {4, 5}, {}),                         \* 6
  O("table", "u", 0, {4}, {"partitioned"}),               \* 7
  O("table", "x", 0, {4}, {}),                            \* 8
  O("trigger", "g", 6, {6, 2}, {}),                       \* 9
  O("view", "v", 0, {4, 6}, {}),                          \* 10
  O("partition", "p", 7, {7}, {})>>]                      \* 11

MysqlSource == [engine |-> "mysql", version |-> 80016, objects |-> <<
  O("constraint", "c", 6, {6}, {"check"}),                \* 1
  O("constraint", "k", 7, {6, 7}, {"foreign-key"}),       \* 2
  O("event", "e", 0, {}, {}),                             \* 3
  O("index", "k", 7, {7}, {"implicit"}),                  \* 4
  O("partition", "p", 6, {6}, {"initialize"}),            \* 5
  O("table", "t", 0, {}, {}),                             \* 6
  O("table", "u", 0, {}, {"unlisted-type"}),              \* 7
  O("trigger", "g", 6, {6}, {}),                          \* 8
  O("view", "v", 0, {6}, {})>>]                           \* 9

MCSources == {PostgresSource, MysqlSource}
MCScopes ==
  {[kind |-> "database"], [kind |-> "schema", schema |-> "app"]}
  \cup [kind : {"table"}, schema : {"app"}, table : {"t", "x"}]
MCVersions == [mysql |-> {50600, 80016}, postgres |-> {90600, 110000}]

(* Previews: a table with a generated key; without it, with a column of a type *)
(* nobody supports, with a name that may not be null.                          *)

Column(type, nullable, generated, default) ==
  [type |-> type, nullable |-> nullable, generated |-> generated, default |-> default]

Simple == [columns |-> ("id" :> Column("number", FALSE, TRUE, TRUE))
                      @@ ("name" :> Column("string", TRUE, FALSE, FALSE)),
          key |-> {"id"}]
Keyless == [Simple EXCEPT !.key = {}]
Extended == [Simple EXCEPT !.columns = @ @@ ("extra" :> Column("unsupported", TRUE, FALSE, FALSE))]
Named == [Simple EXCEPT !.columns["name"].nullable = FALSE]

Want(form) ==
  [form |-> form, map |-> <<>>, conflict |-> "skip", transaction |-> "batch", identity |-> FALSE,
   resume |-> FALSE, confirmed |-> FALSE, filters |-> {}, raw |-> FALSE, scope |-> "database"]
Like == [column |-> "name", test |-> "like", type |-> "string"]

Transfer(schemas, wants) ==
  [package |-> ("id" :> "number") @@ ("name" :> "string"), schemas |-> schemas, wants |-> wants]

MCTransfers == {
  Transfer({Simple, Extended}, {[Want("friendly-csv") EXCEPT !.raw = TRUE, !.confirmed = TRUE],
                               [Want("exact-csv") EXCEPT !.filters = {Like}]}),
  Transfer({Simple, NoTable}, {[Want("json-export") EXCEPT !.filters = {Like}]}),
  Transfer({Simple, Keyless}, {[Want("json-import") EXCEPT !.conflict = "replace", !.confirmed = TRUE,
                                                          !.identity = TRUE]}),
  Transfer({Simple, Named}, {[Want("csv-import") EXCEPT !.identity = TRUE, !.resume = TRUE],
                            [Want("csv-import") EXCEPT !.map = "id" :> "ignore"]}),
  Transfer({Simple}, {Want("sql-dump")}),
  Transfer({Simple, NoTable}, {[Want("sql-restore") EXCEPT !.conflict = "drop", !.confirmed = TRUE]})}

(* Pages: rows of two columns that are exact in a cursor, one that is a date and *)
(* one of bytes; indexes with a predicate, and on a column that may be null.    *)

Index(columns, whole, filled) == [columns |-> columns, whole |-> whole, filled |-> filled]

MCRows == {[a |-> x, b |-> y, t |-> 2 * x + y, d |-> 3 * x + y] : x \in 1..2, y \in 1..2}
MCGrain == [a |-> 1, b |-> 1, t |-> 2, d |-> 0]
MCIndexes == {
  <<Index(<<"a", "b">>, TRUE, TRUE)>>,
  <<Index(<<"b">>, FALSE, TRUE), Index(<<"b", "a">>, TRUE, TRUE)>>,
  <<Index(<<"a">>, TRUE, FALSE)>>,
  <<Index(<<"t">>, TRUE, TRUE)>>,
  <<Index(<<"d">>, TRUE, TRUE)>>}

-----------------------------------------------------------------------------
Picked(p) == part = p
Default(S) == CHOOSE x \in S : TRUE

OperationsInit ==
  /\ part \in {"gate", "changes", "rules", "handlers", "dumps", "previews", "pages"}
  /\ Init
  \* a module that stands still has one initial state
  /\ ChangesInit
  /\ \/ Picked("changes")
     \/ /\ engine = "mysql"
        /\ target = [x \in Cells |-> 0]
        /\ \A c \in Changes : change[c].plan = Default(Plans)
  /\ RulesInit
  /\ Picked("rules") \/ (server = Default(Servers) /\ command = Default(Forms))
  /\ HandlersInit
  /\ Picked("handlers") \/ task = Default(Tasks)
  /\ DumpsInit
  /\ Picked("dumps") \/ (origin = Default(Sources) /\ database = {})
  /\ PreviewsInit
  /\ \/ Picked("previews")
     \/ /\ transfer = Default(Transfers)
        /\ table = Default(transfer.schemas)
  /\ PagesInit
  /\ Picked("pages") \/ (content = {} /\ indexes = Default(IndexLists))

OperationsNext ==
  \/ /\ Picked("gate") /\ Next
     /\ UNCHANGED <<part, changeVars, ruleVars, handlerVars, dumpVars, previewVars, pageVars>>
  \/ /\ Picked("changes") /\ ChangesNext
     /\ UNCHANGED <<part, vars, ruleVars, handlerVars, dumpVars, previewVars, pageVars>>
  \/ /\ Picked("rules") /\ RulesNext
     /\ UNCHANGED <<part, vars, changeVars, handlerVars, dumpVars, previewVars, pageVars>>
  \/ /\ Picked("handlers") /\ HandlersNext
     /\ UNCHANGED <<part, vars, changeVars, ruleVars, dumpVars, previewVars, pageVars>>
  \/ /\ Picked("dumps") /\ DumpsNext
     /\ UNCHANGED <<part, vars, changeVars, ruleVars, handlerVars, previewVars, pageVars>>
  \/ /\ Picked("previews") /\ PreviewsNext
     /\ UNCHANGED <<part, vars, changeVars, ruleVars, handlerVars, dumpVars, pageVars>>
  \/ /\ Picked("pages") /\ PagesNext
     /\ UNCHANGED <<part, vars, changeVars, ruleVars, handlerVars, dumpVars, previewVars>>

OperationsSpec == OperationsInit /\ [][OperationsNext]_operationsVars

Symmetry == Permutations(Previewers)

\* Every variable of every module keeps its type (those that stand still have their
\* initial values).
OperationsTypeOK ==
  CASE Picked("gate") -> TypeOK
    [] Picked("changes") -> ChangesTypeOK
    [] Picked("rules") -> RulesTypeOK
    [] Picked("handlers") -> HandlersTypeOK
    [] Picked("dumps") -> DumpsTypeOK
    [] Picked("previews") -> PreviewsTypeOK
    [] Picked("pages") -> PagesTypeOK
=============================================================================
