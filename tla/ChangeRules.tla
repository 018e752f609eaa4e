----------------------------- MODULE ChangeRules -----------------------------
(***************************************************************************)
(* What DdlService, NativeGrantService and DataMutationService accept: the *)
(* checks that a command must pass, in the order of the code, against the  *)
(* capabilities detected for the server.  A command is its kind, the       *)
(* object, index method, scope or key it is about (`of`), and the options  *)
(* and faults it has; names and the text of the statements are left out.   *)
(***************************************************************************)
EXTENDS Naturals, Sequences

CONSTANT Servers    \* engine and version (major * 10000 + minor * 100 + patch)

ASSUME ServersAssumption ==
  Servers \subseteq [engine : {"mysql", "postgres"}, version : Nat]

VARIABLES
  server,    \* what the command is for
  command    \* what the user asks

ruleVars == <<server, command>>

Postgres(s) == s.engine = "postgres"
AtLeast(s, version) == s.version >= version

\* detectDdlCapabilities, with the index methods, the referential actions and the types
\* that one engine or version lacks.
Capabilities(s) ==
  IF Postgres(s)
  THEN {"rename-database", "rename-schema", "view", "materialized-view", "sequence",
        "enum", "domain", "function", "trigger", "extension", "btree", "hash", "gin",
        "gist", "brin", "expression", "predicate", "check", "rename-syntax",
        "sequence-default", "set-default", "json"}
       \cup (IF AtLeast(s, 100000) THEN {"partition", "identity", "partition-by"} ELSE {})
       \cup (IF AtLeast(s, 110000) THEN {"procedure"} ELSE {})
  ELSE {"view", "function", "procedure", "trigger", "partition", "event", "identity",
        "btree", "hash", "fulltext", "prefix", "storage"}
       \cup (IF AtLeast(s, 50708) THEN {"json"} ELSE {})
       \cup (IF AtLeast(s, 80000) THEN {"rename-syntax"} ELSE {})
       \cup (IF AtLeast(s, 80016) THEN {"check"} ELSE {})
-----------------------------------------------------------------------------
(* One check of a command: that a condition is met, or an error *)

Has(c, x) == x \in c.has
Need(met, code) == [met |-> met, code |-> code]
Able(s, x) == Need(x \in Capabilities(s), "DDL_CAPABILITY_UNSUPPORTED")
AbleIf(s, c, x) == Need(Has(c, x) => x \in Capabilities(s), "DDL_CAPABILITY_UNSUPPORTED")
Confirmed(c) == Need(Has(c, "confirmed"), "DDL_CONFIRMATION_REQUIRED")
Without(c, x, code) == Need(~Has(c, x), code)
Option(c, x) == Without(c, x, "DDL_INVALID_OPTION")
Sql(c) == Without(c, "bad-sql", "DDL_INVALID_FRAGMENT")

\* A type is on the list of its server and has the arguments it takes.
TypeNeeds(s, c) ==
  << Need(Has(c, "json") => "json" \in Capabilities(s), "DDL_TYPE_UNSUPPORTED"),
     Without(c, "bad-type-argument", "DDL_INVALID_TYPE_ARGUMENT") >>

DefaultNeeds(s, c) ==
  << Without(c, "bad-default", "DDL_INVALID_DEFAULT"), AbleIf(s, c, "sequence-default") >>

ColumnNeeds(s, c) == TypeNeeds(s, c) \o <<AbleIf(s, c, "identity")>> \o DefaultNeeds(s, c)

\* MySQL wants an AUTO_INCREMENT column in the primary key.
PrimaryKeyNeeds(s, c) ==
  << Option(c, "bad-primary-key"),
     Need(~Postgres(s) /\ Has(c, "identity") => Has(c, "identity-in-primary-key"),
          "DDL_INVALID_OPTION") >>

TableNeeds(s, c) ==
  <<Without(c, "no-columns", "DDL_INVALID_TYPE_ARGUMENT")>> \o ColumnNeeds(s, c)
  \o PrimaryKeyNeeds(s, c) \o <<AbleIf(s, c, "storage"), AbleIf(s, c, "partition-by"), Sql(c)>>

\* MySQL before 8.0 renames a column with its whole definition.
RenameColumnNeeds(s, c) ==
  IF "rename-syntax" \in Capabilities(s) THEN <<>>
  ELSE << Need(Has(c, "definition"), "DDL_COLUMN_DEFINITION_REQUIRED"),
          Without(c, "misnamed", "DDL_INVALID_IDENTIFIER") >> \o ColumnNeeds(s, c)

IndexPartNeeds(s, c) ==
  << Option(c, "bad-part"), AbleIf(s, c, "expression"), AbleIf(s, c, "prefix"),
     Option(c, "bad-prefix"), Sql(c) >>

UniqueMethods(s) == IF Postgres(s) THEN {"btree"} ELSE Capabilities(s) \ {"fulltext"}

\* Faulty: an expression or a predicate alone needs no confirmation.
IndexNeedsUnconfirmed(s, c) ==
  << Able(s, c.of),
     Need(Has(c, "unique") => c.of \in UniqueMethods(s), "DDL_CAPABILITY_UNSUPPORTED"),
     Option(c, "no-parts") >>
  \o (IF c.of # "btree" THEN <<Confirmed(c)>> ELSE <<>>)
  \o <<AbleIf(s, c, "predicate")>> \o IndexPartNeeds(s, c)

IndexNeeds(s, c) ==
  << Able(s, c.of),
     Need(Has(c, "unique") => c.of \in UniqueMethods(s), "DDL_CAPABILITY_UNSUPPORTED"),
     Option(c, "no-parts") >>
  \o (IF c.of # "btree" \/ Has(c, "expression") \/ Has(c, "predicate") THEN <<Confirmed(c)>>
      ELSE <<>>)
  \o <<AbleIf(s, c, "predicate")>> \o IndexPartNeeds(s, c)

ConstraintNeeds(s, c) ==
  (IF c.of = "unique" THEN <<>> ELSE <<Confirmed(c)>>)
  \o CASE c.of = "check" -> <<Able(s, "check"), Sql(c)>>
       [] c.of = "foreign-key" ->
            << Option(c, "no-columns"), Option(c, "bad-reference"), Option(c, "bad-action"),
               AbleIf(s, c, "set-default") >>
       [] OTHER -> <<Option(c, "no-columns")>>

\* The other constraints can be dropped everywhere.
DropConstraintNeeds(s, c) ==
  <<Confirmed(c)>> \o (IF ~Postgres(s) /\ c.of = "check" THEN <<Able(s, "check")>> ELSE <<>>)

Misfits(c, options) == Need(c.has \cap options = {}, "DDL_CAPABILITY_UNSUPPORTED")

\* A function returns something, a procedure nothing; the rest is up to the engine.
RoutineNeeds(s, c) ==
  << Able(s, c.of), Confirmed(c) >> \o TypeNeeds(s, c) \o << Sql(c) >> \o
  IF Postgres(s)
  THEN << Misfits(c, {"deterministic", "no-data", "writes-data"}),
          Need(Has(c, "language"), "DDL_INVALID_OPTION"),
          Need(c.of = "function" => Has(c, "returns"), "DDL_INVALID_OPTION"),
          Need(c.of = "procedure" => c.has \cap {"returns", "strict"} = {},
               "DDL_INVALID_OPTION") >>
  ELSE << Misfits(c, {"replace", "language", "strict"}),
          Need(c.of = "function" => Has(c, "returns"), "DDL_INVALID_OPTION"),
          Need(c.of = "function" => Has(c, "deterministic") \/ Has(c, "no-data"),
               "DDL_INVALID_OPTION"),
          Need(c.of = "procedure" => ~Has(c, "returns"), "DDL_INVALID_OPTION") >>

DropRoutineNeeds(s, c) ==
  << Able(s, c.of), Confirmed(c) >>
  \o (IF Postgres(s) THEN TypeNeeds(s, c) ELSE <<Misfits(c, {"arguments", "cascade"})>>)

\* A trigger calls a function on PostgreSQL and has a body on MySQL.
TriggerNeeds(s, c) ==
  << Able(s, "trigger"), Confirmed(c), Option(c, "bad-events") >> \o
  IF Postgres(s)
  THEN <<Need(Has(c, "function") /\ ~Has(c, "body"), "DDL_INVALID_OPTION"), Sql(c)>>
  ELSE << Misfits(c, {"function", "several-events", "instead-of", "when"}),
          Need(Has(c, "body"), "DDL_CAPABILITY_UNSUPPORTED"), Sql(c) >>

PartitionNeeds(s, c) ==
  << Able(s, "partition"), Confirmed(c),
     Need(Has(c, "initialize") => ~Postgres(s), "DDL_CAPABILITY_UNSUPPORTED"), Sql(c) >>

\* Objects with a capability of their own that is asked for first.
CapabilityOf(kind) ==
  CASE kind \in {"create-view", "drop-view"} -> "view"
    [] kind \in {"create-materialized-view", "refresh-materialized-view",
                 "drop-materialized-view"} -> "materialized-view"
    [] kind \in {"create-sequence", "drop-sequence"} -> "sequence"
    [] kind \in {"create-extension", "drop-extension"} -> "extension"
    [] kind \in {"create-event", "drop-event"} -> "event"
    [] kind = "drop-trigger" -> "trigger"
    [] kind = "drop-partition" -> "partition"
    [] kind = "create-enum" -> "enum"
    [] kind = "create-domain" -> "domain"
    [] kind = "drop-type" -> "enum"       \* or "domain": the same servers have both

\* The other objects: views, sequences, types, extensions, events.
ObjectNeeds(s, c) ==
  CASE c.kind \in {"create-view", "create-materialized-view"} -> <<Confirmed(c), Sql(c)>>
    [] c.kind = "drop-view" -> <<Confirmed(c), Need(Has(c, "cascade") => Postgres(s),
                                                    "DDL_CAPABILITY_UNSUPPORTED")>>
    [] c.kind \in {"create-sequence", "create-enum"} -> <<Option(c, "bad-value")>>
    [] c.kind = "create-domain" ->
         (IF Has(c, "check") THEN <<Confirmed(c)>> ELSE <<>>)
         \o DefaultNeeds(s, c) \o <<Sql(c)>> \o TypeNeeds(s, c)
    [] c.kind = "create-extension" -> <<Confirmed(c), Option(c, "bad-value")>>
    [] c.kind = "create-event" -> <<Confirmed(c), Option(c, "bad-value"), Sql(c)>>
    [] OTHER -> <<Confirmed(c)>>

\* buildDdlStatements: the cases of its switch.
DdlNeeds(s, c) ==
  CASE c.kind \in {"create-database", "create-schema", "rename-table"} -> <<>>
    [] c.kind \in {"rename-database", "rename-schema"} -> <<Able(s, c.kind)>>
    [] c.kind \in {"drop-database", "drop-schema", "drop-table", "drop-column", "drop-index"} ->
         <<Confirmed(c)>>
    [] c.kind = "create-table" -> TableNeeds(s, c)
    [] c.kind = "add-column" -> ColumnNeeds(s, c)
    [] c.kind = "rename-column" -> RenameColumnNeeds(s, c)
    [] c.kind = "create-index" -> IndexNeeds(s, c)
    [] c.kind = "add-constraint" -> ConstraintNeeds(s, c)
    [] c.kind = "drop-constraint" -> DropConstraintNeeds(s, c)
    [] c.kind = "create-routine" -> RoutineNeeds(s, c)
    [] c.kind = "drop-routine" -> DropRoutineNeeds(s, c)
    [] c.kind = "create-trigger" -> TriggerNeeds(s, c)
    [] c.kind = "create-partition" -> PartitionNeeds(s, c)
    [] OTHER -> <<Able(s, CapabilityOf(c.kind))>> \o ObjectNeeds(s, c)
-----------------------------------------------------------------------------
(* Privileges and rows *)

\* What GRANT knows of at each scope.
Grantable(s, scope) ==
  CASE Postgres(s) /\ scope = "database" -> {"connect", "create"}
    [] Postgres(s) /\ scope = "schema" -> {"usage", "create"}
    [] Postgres(s) /\ scope = "table" -> {"select", "references"}
    [] ~Postgres(s) /\ scope = "schema" -> {}
    [] OTHER -> {"select", "create", "alter", "references"}
Privileges == {"connect", "usage", "select", "create", "alter", "references"}

Invalid(c, x) == Without(c, x, "INVALID_NATIVE_GRANT")

\* validateChange; a table is in a schema on PostgreSQL and in no other place on MySQL.
GrantChangeNeeds(s, c) ==
  << Need(c.of = "schema" => Postgres(s), "UNSUPPORTED_NATIVE_PRIVILEGE"),
     Need(c.of = "table" => (Has(c, "in-schema") <=> Postgres(s)), "INVALID_NATIVE_GRANT"),
     Need(c.has \cap Privileges # {} /\ ~Has(c, "repeated"), "INVALID_NATIVE_GRANT"),
     Need(c.has \cap Privileges \subseteq Grantable(s, c.of), "UNSUPPORTED_NATIVE_PRIVILEGE") >>

\* buildNativeGrantPlan, then the account in NativeGrantService.execute.
GrantNeeds(s, c) ==
  << Invalid(c, "other-engine"),
     Need(c.kind = "revoke" => Has(c, "confirmed"), "NATIVE_GRANT_CONFIRMATION_REQUIRED"),
     Without(c, "system-database", "SYSTEM_DATABASE_PROTECTED"),
     Invalid(c, "two-databases") >>
  \o GrantChangeNeeds(s, c)
  \o << Without(c, "missing-account", "ACCOUNT_NOT_FOUND"),
        Without(c, "protected-account", "PROTECTED_ACCOUNT") >>

\* isStableKey; `of` is the best key of the table.
StableKey(key) == key \in {"primary", "unique"}

\* The values a row gets are of writable columns and of their types.
WritableNeeds(c) ==
  << Without(c, "read-only-column", "UNSUPPORTED_COLUMN"),
     Without(c, "bad-value", "INVALID_MUTATION") >>

\* The row is named by its key and by every column that can be compared.
RowReferenceNeeds(c) ==
  << Without(c, "other-identity", "INVALID_MUTATION"),
     Without(c, "partial-original", "INVALID_MUTATION"),
     Without(c, "null-identity", "INVALID_MUTATION") >>

\* mutate and validateOperations, of one operation.
RowNeeds(c) ==
  << Without(c, "over-100-rows", "INVALID_MUTATION") >> \o
  IF c.kind = "insert" THEN WritableNeeds(c)
  ELSE << Need(StableKey(c.of), "TABLE_WITHOUT_STABLE_KEY") >> \o
       CASE c.kind = "batch-update" ->
              << Without(c, "no-rows", "INVALID_MUTATION"),
                 Without(c, "empty-patch", "INVALID_MUTATION") >>
              \o WritableNeeds(c) \o RowReferenceNeeds(c)
         [] c.kind = "update" ->
              RowReferenceNeeds(c) \o << Without(c, "empty-patch", "INVALID_MUTATION") >>
              \o WritableNeeds(c)
         [] c.kind = "delete" ->
              RowReferenceNeeds(c) \o << Need(Has(c, "confirmed"), "CONFIRMATION_REQUIRED") >>

RowKinds == {"insert", "update", "batch-update", "delete"}
Needs(s, c) ==
  CASE c.kind \in {"grant", "revoke"} -> GrantNeeds(s, c)
    [] c.kind \in RowKinds -> RowNeeds(c)
    [] OTHER -> DdlNeeds(s, c)

\* The first check that fails throws.
Outcome(s, c) ==
  LET needs == Needs(s, c)
      First(i) == ~needs[i].met /\ \A j \in 1..(i - 1) : needs[j].met
  IN IF \A i \in DOMAIN needs : needs[i].met THEN "accepted"
     ELSE needs[CHOOSE i \in DOMAIN needs : First(i)].code
-----------------------------------------------------------------------------
(* The commands a user can send *)

Plain == {"create-database", "create-schema", "rename-table", "rename-database",
          "rename-schema", "drop-database", "drop-schema", "drop-table", "drop-column",
          "drop-index", "create-view", "drop-view", "create-materialized-view",
          "refresh-materialized-view", "drop-materialized-view", "create-sequence",
          "drop-sequence", "create-enum", "create-domain", "drop-type", "create-extension",
          "drop-extension", "create-event", "drop-event", "create-partition",
          "drop-partition", "create-trigger", "drop-trigger", "create-table", "add-column",
          "rename-column"}

Constraints == {"primary-key", "unique", "foreign-key", "check"}
Blank(kinds, about) == [kind : kinds, of : about, has : {{}}]
Forms ==
  Blank(Plain, {"-"})
  \cup Blank({"create-index"}, {"btree", "hash", "gin", "gist", "brin", "fulltext"})
  \cup Blank({"add-constraint", "drop-constraint"}, Constraints)
  \cup Blank({"create-routine", "drop-routine"}, {"function", "procedure"})
  \cup Blank({"grant", "revoke"}, {"database", "schema", "table"})
  \cup Blank(RowKinds, {"primary", "unique", "nullable", "none"})

ColumnOptions == {"json", "bad-type-argument", "identity", "bad-default", "sequence-default"}
Options(kind) ==
  CASE kind = "create-table" -> ColumnOptions \cup
         {"no-columns", "bad-primary-key", "identity-in-primary-key", "storage",
          "partition-by", "bad-sql"}
    [] kind = "add-column" -> ColumnOptions
    [] kind = "rename-column" -> ColumnOptions \cup {"definition", "misnamed"}
    [] kind = "create-index" ->
         {"confirmed", "unique", "no-parts", "expression", "predicate", "prefix", "bad-part",
          "bad-prefix", "bad-sql"}
    [] kind = "add-constraint" ->
         {"confirmed", "bad-sql", "no-columns", "bad-reference", "bad-action", "set-default"}
    [] kind = "create-routine" ->
         {"confirmed", "json", "bad-sql", "returns", "language", "replace", "strict",
          "deterministic", "no-data", "writes-data"}
    [] kind = "drop-routine" -> {"confirmed", "json", "arguments", "cascade"}
    [] kind = "create-trigger" ->
         {"confirmed", "bad-sql", "bad-events", "function", "body", "several-events",
          "instead-of", "when"}
    [] kind = "create-domain" ->
         {"confirmed", "check", "json", "bad-default", "sequence-default", "bad-sql"}
    [] kind \in {"grant", "revoke"} ->
         {"confirmed", "other-engine", "system-database", "two-databases", "in-schema",
          "missing-account", "protected-account"} \cup {"usage", "select", "create"}
    [] kind \in RowKinds ->
         {"confirmed", "over-100-rows", "read-only-column", "bad-value", "other-identity",
          "partial-original", "null-identity", "empty-patch", "no-rows"}
    [] OTHER -> {"confirmed", "bad-value", "bad-sql", "cascade", "initialize"}

RulesTypeOK ==
  /\ server \in Servers
  /\ [command EXCEPT !.has = {}] \in Forms
  /\ command.has \subseteq Options(command.kind)

RulesInit == server \in Servers /\ command \in Forms

\* A command with one option more.
Ask(x) ==
  /\ x \notin command.has
  /\ command' = [command EXCEPT !.has = @ \cup {x}]
  /\ UNCHANGED server

RulesNext == \E x \in Options(command.kind) : Ask(x)

RulesSpec == RulesInit /\ [][RulesNext]_ruleVars
-----------------------------------------------------------------------------
(* Properties *)

Accepted(c) == Outcome(server, c) = "accepted"

Drops == {"drop-database", "drop-schema", "drop-table", "drop-column", "drop-index",
          "drop-constraint", "drop-view", "drop-materialized-view", "drop-sequence",
          "drop-type", "drop-extension", "drop-routine", "drop-trigger", "drop-event",
          "drop-partition", "revoke", "delete"}

\* Statements with SQL that the user wrote: whole definitions, and the fragments of
\* indexes, partitioned tables, domains and check constraints.
CarriesSql(c) ==
  \/ c.kind \in {"create-view", "create-materialized-view", "create-routine", "create-event",
                 "create-trigger", "create-partition"}
  \/ c.kind = "add-constraint" /\ c.of = "check"
  \/ c.kind = "create-index" /\ c.has \cap {"expression", "predicate"} # {}
  \/ c.kind = "create-domain" /\ Has(c, "check")
  \/ c.kind = "create-table" /\ Has(c, "partition-by")

\* What may fail or block on the rows there are, or change what they hold: primary and
\* foreign keys, indexes of other kinds, and a column that MySQL renames by defining it
\* again (agent/question.md:102).
TouchesRows(c) ==
  \/ c.kind = "add-constraint" /\ c.of \in {"primary-key", "foreign-key"}
  \/ c.kind = "create-index" /\ c.of # "btree"
  \/ c.kind = "rename-column" /\ "rename-syntax" \notin Capabilities(server)

\* What the builder does not ask to be confirmed, although question.md:98 admits no SQL of
\* the user's there and question.md:102 has changes of a type confirmed
\* (ddl-sql-builder.ts:74 and 91).
Unasked(c) ==
  \/ c.kind = "create-table" /\ Has(c, "partition-by")
  \/ c.kind = "rename-column" /\ "rename-syntax" \notin Capabilities(server)

\* What takes something away, carries SQL of the user's or touches the rows was confirmed,
\* however the options are combined and whatever the server can do, with the two exceptions
\* of Unasked: of those this says nothing
\* (programmable-ddl-builder.test.ts:134, ddl-sql-builder.test.ts:165).
Guarded ==
  Accepted(command) /\ ~Unasked(command)
    /\ (command.kind \in Drops \/ CarriesSql(command) \/ TouchesRows(command)) =>
  Has(command, "confirmed")
=============================================================================
