----------------------------- MODULE TablePages -----------------------------
(* A user pages through a table that others change (database-explorer.ts,      *)
(* keyset-pagination.ts, the two gateways), while an administrator grants and  *)
(* revokes the right to (access/web-access-service.ts).  A page of a table     *)
(* with a stable key is cut out by a comparison with the key in the cursor; a  *)
(* table without one is read by offset, in no order.                           *)
EXTENDS Integers, SequencesExt

CONSTANTS
  TableRows,    \* the rows there may be: functions from columns to values
  IndexLists,   \* the unique indexes the table may have, primary key first
  Grain,        \* what a cursor keeps of a column: 1 exact, n rounded down, 0 nothing
  PageLimit,    \* page.limit
  MaxOffset,    \* the greatest offset
  Grants,       \* the sets of capabilities an administrator assigns
  MaxChurn      \* bound on the changes of rows, indexes and rights

ASSUME PagesAssumption ==
  /\ PageLimit \in Nat \ {0} /\ MaxOffset \in Nat /\ MaxChurn \in Nat
  /\ Grain \in [DOMAIN Grain -> Nat] /\ TableRows \subseteq [DOMAIN Grain -> Int]
  /\ \A list \in IndexLists :
       list \in Seq([columns : Seq(DOMAIN Grain), whole : BOOLEAN, filled : BOOLEAN])

VARIABLES
  content,      \* the rows of the table
  indexes,      \* its unique indexes: columns, `whole` (no predicate, no expression), `filled`
  rights,       \* the capabilities of the user on the connection
  asked,        \* his request: its place and what it asks for
  page,         \* the page before him
  walk,         \* (history) the pages read one after another from an end of the table
  churn         \* how often something was changed

pageVars == <<content, indexes, rights, asked, page, walk, churn>>

-----------------------------------------------------------------------------
(* The order of a key *)

\* Faulty: every column must grow by itself.
PrecedesColumnwise(key, u, v) ==
  \A i \in DOMAIN key : u[key[i]] < v[key[i]]

\* (a > $1) OR (a = $2 AND b > $3) ...
Precedes(key, u, v) ==
  \E i \in DOMAIN key :
    /\ u[key[i]] < v[key[i]]
    /\ \A j \in 1..(i - 1) : u[key[j]] = v[key[j]]

InOrder(key, direction, u, v) ==
  IF direction = "forward" THEN Precedes(key, u, v) ELSE Precedes(key, v, u)

\* The stable key: the first index that all rows are in and no null is.  This is the choice
\* made on PostgreSQL, of valid indexes; MySQL's query also takes a unique index on an
\* expression, which has no column names, and then no page can be read.
PageKey ==
  LET fit == {i \in DOMAIN indexes : indexes[i].whole /\ indexes[i].filled}
  IN IF fit = {} THEN <<>> ELSE indexes[CHOOSE i \in fit : \A j \in fit : i <= j].columns

-----------------------------------------------------------------------------
(* Pages and cursors *)

NoCursor == [key |-> <<>>, values |-> <<>>, direction |-> "none"]

\* cursorValue throws for bytes, and a date keeps its milliseconds.
Sendable(key) == \A i \in DOMAIN key : Grain[key[i]] > 0
Sent(column, value) == IF Grain[column] = 0 THEN 0 ELSE value - (value % Grain[column])

CursorFor(row, key, direction) ==
  [key |-> key,
   values |-> [c \in ToSet(key) |-> Sent(c, row[c])],
   direction |-> direction]

NoPage == [pc |-> "none", rows |-> <<>>, next |-> NoCursor, previous |-> NoCursor, offset |-> 0]

\* limit + 1 rows in the direction of the request, from its cursor on; rows with the same
\* key come in any order.
Selections(key, cursor, direction) ==
  LET beyond == {r \in content : cursor # NoCursor => InOrder(key, direction, cursor.values, r)}
  IN {q \in UNION {[1..n -> beyond] : n \in 0..(PageLimit + 1)} :
        /\ Len(q) = PageLimit + 1 \/ ToSet(q) = beyond
        /\ \A j \in DOMAIN q : \A i \in 1..(j - 1) :
             q[i] # q[j] /\ ~InOrder(key, direction, q[j], q[i])
        /\ \A r \in beyond \ ToSet(q) : \A i \in DOMAIN q : ~InOrder(key, direction, r, q[i])}

KeysetPage(raw, key, cursor, direction) ==
  LET more == Len(raw) > PageLimit
      cut == IF more THEN SubSeq(raw, 1, PageLimit) ELSE raw
      rows == IF direction = "backward" THEN Reverse(cut) ELSE cut
      forth == rows # <<>> /\ (direction = "backward" \/ more)
      back == rows # <<>> /\ (IF direction = "forward" THEN cursor # NoCursor ELSE more)
  IN [pc |-> IF (forth \/ back) /\ ~Sendable(key) THEN "error" ELSE "keyset",
      rows |-> rows,
      next |-> IF forth THEN CursorFor(Last(rows), key, "forward") ELSE NoCursor,
      previous |-> IF back THEN CursorFor(rows[1], key, "backward") ELSE NoCursor,
      offset |-> 0]

\* No ORDER BY: any rows in any order, as many as there are from the offset on.
OffsetPages(offset) ==
  LET left == Cardinality(content) - offset
      many == IF left < 0 THEN 0 ELSE IF left > PageLimit THEN PageLimit ELSE left
  IN {[pc |-> "offset", rows |-> q, next |-> NoCursor, previous |-> NoCursor,
       offset |-> IF left > PageLimit THEN offset + PageLimit ELSE 0] :
      q \in {f \in [1..many -> content] : IsInjective(f)}}

-----------------------------------------------------------------------------
(* Rights *)

WebCapabilities ==
  {"structure-read", "data-read", "query-read", "data-write", "ddl-write", "account-manage"}

ASSUME GrantsAssumption == Grants \subseteq SUBSET WebCapabilities

\* expandCapabilities: what a capability is of no use without.
Expand(requested) ==
  requested
  \cup (IF requested \cap {"data-read", "data-write", "ddl-write"} = {} THEN {} ELSE {"structure-read"})
  \cup (IF "data-write" \in requested THEN {"data-read"} ELSE {})

-----------------------------------------------------------------------------
Idle == [pc |-> "idle", cursor |-> NoCursor, direction |-> "none", offset |-> 0, key |-> <<>>]
NoWalk == [direction |-> "none", steady |-> {}, seen |-> <<>>, key |-> <<>>]

Distinct(S, columns) ==
  \A u, v \in S : u # v => \E i \in DOMAIN columns : u[columns[i]] # v[columns[i]]
UniqueIn(S, list) == \A i \in DOMAIN list : list[i].whole => Distinct(S, list[i].columns)

PagesTypeOK ==
  /\ content \subseteq TableRows /\ indexes \in IndexLists /\ rights \subseteq WebCapabilities
  /\ asked.pc \in {"idle", "keying", "reading"} /\ asked.offset \in 0..MaxOffset
  /\ asked.direction \in {"none", "forward", "backward"}
  /\ page.pc \in {"none", "keyset", "offset"}
  /\ \A i \in DOMAIN page.rows : page.rows[i] \in TableRows
  /\ walk.direction \in {"none", "forward", "backward"} /\ walk.steady \subseteq content
  /\ churn \in 0..MaxChurn

PagesInit ==
  /\ content \in SUBSET TableRows /\ indexes \in IndexLists /\ UniqueIn(content, indexes)
  /\ rights = Expand({"data-read"})
  /\ asked = Idle /\ page = NoPage /\ walk = NoWalk /\ churn = 0

Churned == churn < MaxChurn /\ churn' = churn + 1

\* Others insert and delete rows.
InsertRow(r) ==
  /\ Churned
  /\ r \notin content /\ UniqueIn(content \cup {r}, indexes)
  /\ content' = content \cup {r}
  /\ UNCHANGED <<indexes, rights, asked, page, walk>>

DeleteRow(r) ==
  /\ Churned
  /\ r \in content
  /\ content' = content \ {r}
  /\ walk' = [walk EXCEPT !.steady = @ \ {r}]
  /\ UNCHANGED <<indexes, rights, asked, page>>

\* DDL changes the indexes.
AlterIndexes(list) ==
  /\ Churned
  /\ list # indexes /\ UniqueIn(content, list)
  /\ indexes' = list
  /\ UNCHANGED <<content, rights, asked, page, walk>>

Assign(requested) ==
  /\ Churned
  /\ rights' = Expand(requested)
  /\ UNCHANGED <<content, indexes, asked, page, walk>>

Revoke ==
  /\ Churned
  /\ rights' = {}
  /\ UNCHANGED <<content, indexes, asked, page, walk>>

-----------------------------------------------------------------------------
(* A request for a page: the right, then the stable key, then the rows, each at *)
(* a time of its own.                                                          *)

\* The user keeps the page he has when a request is refused or fails, and may try again.
Deliver(answer) == page' = answer /\ asked' = Idle
Refuse == asked' = Idle /\ UNCHANGED page

AskPage(cursor, direction, offset) ==
  /\ asked.pc = "idle"
  /\ IF "data-read" \in rights
     THEN /\ asked' = [Idle EXCEPT !.pc = "keying", !.cursor = cursor, !.direction = direction,
                                   !.offset = offset]
          /\ UNCHANGED page
     ELSE Refuse
  /\ UNCHANGED <<content, indexes, rights, walk, churn>>

\* From the start or the end, or on from the page before him.
AskForPage ==
  \/ \E direction \in {"none", "forward", "backward"} : AskPage(NoCursor, direction, 0)
  \/ \E cursor \in {page.next, page.previous} \ {NoCursor} : AskPage(cursor, "none", 0)
  \/ page.offset \in 1..MaxOffset /\ AskPage(NoCursor, "none", page.offset)

\* findStableKey.  A cursor of another key is refused, and without a key any cursor.
FindKey ==
  /\ asked.pc = "keying"
  /\ IF \/ asked.cursor # NoCursor /\ asked.cursor.key # PageKey
        \/ PageKey = <<>> /\ asked.direction # "none"
     THEN Refuse
     ELSE /\ asked' = [asked EXCEPT !.pc = "reading", !.key = PageKey,
               !.direction = IF asked.cursor # NoCursor THEN asked.cursor.direction
                             ELSE IF asked.direction = "none" THEN "forward" ELSE asked.direction]
          /\ UNCHANGED page
  /\ UNCHANGED <<content, indexes, rights, walk, churn>>

Exact(key) == \A i \in DOMAIN key : Grain[key[i]] = 1

\* The walk a page begins or continues, if the values of the key survive in a cursor and
\* it is still the key when the rows are read.
Walked(answer) ==
  LET d == asked.direction
  IN IF ~Exact(asked.key) \/ PageKey # asked.key THEN NoWalk
     ELSE IF asked.cursor = NoCursor
     THEN [direction |-> d, steady |-> content, seen |-> answer.rows, key |-> asked.key]
     ELSE IF d # walk.direction THEN NoWalk
     ELSE [walk EXCEPT !.seen = IF d = "forward" THEN @ \o answer.rows ELSE answer.rows \o @]

ReadKeyset ==
  /\ asked.pc = "reading" /\ asked.key # <<>>
  /\ \E raw \in Selections(asked.key, asked.cursor, asked.direction) :
       LET answer == KeysetPage(raw, asked.key, asked.cursor, asked.direction)
       IN IF answer.pc = "error" THEN Refuse /\ UNCHANGED walk
          ELSE Deliver(answer) /\ walk' = Walked(answer)
  /\ UNCHANGED <<content, indexes, rights, churn>>

ReadOffset ==
  /\ asked.pc = "reading" /\ asked.key = <<>>
  /\ \E answer \in OffsetPages(asked.offset) : Deliver(answer)
  /\ walk' = NoWalk
  /\ UNCHANGED <<content, indexes, rights, churn>>

\* The target does not answer.
PageFails ==
  /\ asked.pc \in {"keying", "reading"}
  /\ Refuse
  /\ UNCHANGED <<content, indexes, rights, walk, churn>>

PagesNext ==
  \/ \E r \in TableRows : InsertRow(r) \/ DeleteRow(r)
  \/ \E list \in IndexLists : AlterIndexes(list)
  \/ \E requested \in Grants : Assign(requested)
  \/ Revoke
  \/ AskForPage
  \/ FindKey
  \/ ReadKeyset
  \/ ReadOffset
  \/ PageFails

PagesSpec == PagesInit /\ [][PagesNext]_pageVars

-----------------------------------------------------------------------------
(* What paging promises *)

WalkedToTheEnd ==
  /\ page.pc = "keyset" /\ walk.direction # "none" /\ asked.pc = "idle"
  /\ (IF walk.direction = "forward" THEN page.next ELSE page.previous) = NoCursor

\* Whoever reads a table from one end page by page until there is no further page has,
\* whatever was inserted, deleted or altered meanwhile, seen every row that was there
\* all the time, no row twice, and none before one that the key puts before it; unless a
\* value of the key does not survive in the cursor, or the key found for a page is no
\* longer that of the table when its rows are read (the two are queries of their own).
WalkComplete ==
  WalkedToTheEnd =>
    /\ walk.steady \subseteq ToSet(walk.seen)
    /\ \A i, j \in DOMAIN walk.seen :
         i < j => walk.seen[i] # walk.seen[j] /\ ~Precedes(walk.key, walk.seen[j], walk.seen[i])
=============================================================================
