---------------------------- MODULE SqlQueries ----------------------------
(***************************************************************************)
(* SqlQueryService in one API process: the map of running queries, the     *)
(* timeout and cancel that abort them, the gateway behind the operation    *)
(* gate, and the audit record that ends each query.  A query is answered   *)
(* at once or streamed; a stream stands at a yield until its reader takes  *)
(* the next row or leaves.  SQL text, rows and limits are abstracted.      *)
(***************************************************************************)
EXTENDS Naturals, Sequences

CONSTANTS
  Queries,     \* requests, each one call of execute or stream
  Names,       \* the identifiers the clients choose
  MaxFaults,   \* bound: calls that throw, or take effect and lose their answer
  NoQuery

ASSUME QueriesAssumption == NoQuery \notin Queries /\ Names # {} /\ MaxFaults \in Nat

VARIABLES
  query,    \* each query: where it is and what it has been told
  running,  \* active: the map from identifier to query
  records,  \* the audit records of each query, in order
  faults,   \* faults so far
  latest,   \* history: the last query to enter the map under each identifier
  unsure    \* history: queries whose audit record threw

queryVars == <<query, running, records, faults, latest, unsure>>

Registered ==
  {"sending", "entered", "releasing", "succeeding", "summary", "failing"}
Reasons == {"none", "timeout", "cancelled"}    \* of the abort signal
Codes == {"failed", "timeout", "cancelled"}
QueryRecord ==
  [pc : Registered \cup {"idle", "resolving", "leaving", "over"},
   name : Names, streamed : BOOLEAN, reason : Reasons, code : Codes,
   told : Codes \cup {"nothing", "invalid", "busy", "result", "left", "error"}]

\* Every variable keeps its type.
QueriesTypeOK ==
  /\ query \in [Queries -> QueryRecord]
  /\ running \in [Names -> Queries \cup {NoQuery}]
  /\ records \in [Queries -> Seq(Codes \cup {"success"})]
  /\ faults \in 0..MaxFaults
  /\ latest \in [Names -> Queries \cup {NoQuery}]
  /\ unsure \subseteq Queries

QueriesInit ==
  /\ query = [q \in Queries |-> [pc |-> "idle", name |-> CHOOSE n \in Names : TRUE,
                                 streamed |-> FALSE, reason |-> "none",
                                 code |-> "failed", told |-> "nothing"]]
  /\ running = [n \in Names |-> NoQuery]
  /\ records = [q \in Queries |-> <<>>]
  /\ faults = 0
  /\ latest = [n \in Names |-> NoQuery]
  /\ unsure = {}

At(q, pc) == query[q].pc = pc
Move(q, pc) == query' = [query EXCEPT ![q].pc = pc]
Tell(q, answer) == query' = [query EXCEPT ![q].pc = "over", ![q].told = answer]
Fault == faults < MaxFaults /\ faults' = faults + 1

\* Faulty: whatever is in the map goes.
DeregisterAny(q) == running' = [running EXCEPT ![query[q].name] = NoQuery]

\* The finally block: the entry goes, if it is still the query's own.
Deregister(q) ==
  running' = [running EXCEPT ![query[q].name] = IF @ = q THEN NoQuery ELSE @]

\* The error of a query: the reason of its signal, or that it failed.
Code(q) == IF query[q].reason = "none" THEN "failed" ELSE query[q].reason
-----------------------------------------------------------------------------
(* Entering *)

\* The map is looked at, the profile is read, and then the map is written.
Submit(q, n, streamed) ==
  /\ At(q, "idle")
  /\ query' = [query EXCEPT ![q] =
       [@ EXCEPT !.pc = IF running[n] = NoQuery THEN "resolving" ELSE "over",
                 !.told = IF running[n] = NoQuery THEN "nothing" ELSE "invalid",
                 !.name = n, !.streamed = streamed]]
  /\ UNCHANGED <<running, records, faults, latest, unsure>>

Resolve(q) ==
  /\ At(q, "resolving")
  /\ Move(q, IF query[q].streamed THEN "sending" ELSE "entered")
  /\ running' = [running EXCEPT ![query[q].name] = q]
  /\ latest' = [latest EXCEPT ![query[q].name] = q]
  /\ UNCHANGED <<records, faults, unsure>>

ResolveError(q) ==
  /\ At(q, "resolving")
  /\ Tell(q, "invalid") /\ Fault
  /\ UNCHANGED <<running, records, latest, unsure>>

\* The timer, or the cancel route, aborts the signal; the first reason stays.
Abort(q, reason) ==
  /\ query[q].pc \in Registered
  /\ query[q].reason = "none"
  /\ reason = "cancelled" => running[query[q].name] = q
  /\ query' = [query EXCEPT ![q].reason = reason]
  /\ UNCHANGED <<running, records, faults, latest, unsure>>
-----------------------------------------------------------------------------
(* The gateway, behind the operation gate *)

\* A row, unless the signal is aborted.
NextRow(q) ==
  /\ At(q, "entered") /\ query[q].streamed
  /\ query[q].reason = "none"
  /\ Move(q, "sending")
  /\ UNCHANGED <<running, records, faults, latest, unsure>>

\* The result, the end of the rows or the limit; the permit is given back ...
Answered(q) ==
  /\ At(q, "entered")
  /\ query[q].reason = "none"
  /\ Move(q, "releasing")
  /\ UNCHANGED <<running, records, faults, latest, unsure>>

\* ... and while it is, the signal is not looked at any more.
Released(q) ==
  /\ At(q, "releasing")
  /\ Move(q, "succeeding")
  /\ UNCHANGED <<running, records, faults, latest, unsure>>

\* catch: the error is that of the target or of the signal.
Fails(q) ==
  /\ query[q].pc \in {"entered", "releasing"}
  /\ \/ At(q, "entered") /\ query[q].reason # "none" /\ UNCHANGED faults
     \/ Fault
  /\ query' = [query EXCEPT ![q].pc = "failing", ![q].code = Code(q)]
  /\ UNCHANGED <<running, records, latest, unsure>>

\* DatabaseOperationGateError: no permit, or it was lost.  execute records nothing,
\* a stream is recorded as cancelled by the finally block.
Busy(q) ==
  /\ query[q].pc \in {"entered", "releasing"}
  /\ Fault
  /\ query' = [query EXCEPT ![q].pc = IF query[q].streamed THEN "leaving" ELSE "over",
                            ![q].told = "busy"]
  /\ Deregister(q)
  /\ UNCHANGED <<records, latest, unsure>>
-----------------------------------------------------------------------------
(* The reader of a stream *)

Read(q) ==
  /\ \/ At(q, "sending") /\ Move(q, "entered") /\ UNCHANGED running
     \/ At(q, "summary") /\ Tell(q, "result") /\ Deregister(q)
  /\ UNCHANGED <<records, faults, latest, unsure>>

\* return() at a yield: finally, and the record if there is none.
LeaveStream(q) ==
  /\ \/ /\ At(q, "sending")
        /\ query' = [query EXCEPT ![q].pc = "leaving", ![q].told = "left"]
     \/ At(q, "summary") /\ Tell(q, "result")
  /\ Deregister(q)
  /\ UNCHANGED <<records, faults, latest, unsure>>
-----------------------------------------------------------------------------
(* The audit *)

WriteRecord(q, status) == records' = [records EXCEPT ![q] = Append(@, status)]

RecordSuccess(q) ==
  /\ At(q, "succeeding")
  /\ WriteRecord(q, "success")
  /\ IF query[q].streamed
     THEN Move(q, "summary") /\ UNCHANGED running
     ELSE Tell(q, "result") /\ Deregister(q)
  /\ UNCHANGED <<faults, latest, unsure>>

\* Faulty: recorded is not set in the catch block.
RecordCodeTwice(q) ==
  /\ At(q, "failing")
  /\ WriteRecord(q, query[q].code)
  /\ query' = [query EXCEPT ![q].pc = IF query[q].streamed THEN "leaving" ELSE "over",
                            ![q].told = query[q].code]
  /\ Deregister(q)
  /\ UNCHANGED <<faults, latest, unsure>>

RecordCode(q) ==
  /\ At(q, "failing")
  /\ WriteRecord(q, query[q].code)
  /\ Tell(q, query[q].code)
  /\ Deregister(q)
  /\ UNCHANGED <<faults, latest, unsure>>

RecordLeft(q) ==
  /\ At(q, "leaving")
  /\ WriteRecord(q, "cancelled")
  /\ Move(q, "over")
  /\ UNCHANGED <<running, faults, latest, unsure>>

\* A record throws, before or after it took effect: success falls into the catch
\* block, the catch block into finally, which records a stream once more.
RecordError(q) ==
  /\ Fault
  /\ unsure' = unsure \cup {q}
  /\ \/ /\ At(q, "succeeding")
        /\ WriteRecord(q, "success") \/ UNCHANGED records
        /\ query' = [query EXCEPT ![q].pc = "failing", ![q].code = Code(q)]
        /\ UNCHANGED running
     \/ /\ At(q, "failing")
        /\ WriteRecord(q, query[q].code) \/ UNCHANGED records
        /\ query' = [query EXCEPT ![q].pc = IF query[q].streamed THEN "leaving" ELSE "over",
                                  ![q].told = "error"]
        /\ Deregister(q)
     \/ /\ At(q, "leaving")
        /\ WriteRecord(q, "cancelled") \/ UNCHANGED records
        /\ Move(q, "over")
        /\ UNCHANGED running
  /\ UNCHANGED latest

QueriesNext ==
  \E q \in Queries :
    \/ \E n \in Names, streamed \in BOOLEAN : Submit(q, n, streamed)
    \/ Resolve(q) \/ ResolveError(q)
    \/ \E reason \in {"timeout", "cancelled"} : Abort(q, reason)
    \/ NextRow(q) \/ Answered(q) \/ Released(q) \/ Fails(q) \/ Busy(q)
    \/ Read(q) \/ LeaveStream(q)
    \/ RecordSuccess(q) \/ RecordCode(q) \/ RecordLeft(q) \/ RecordError(q)

QueriesSpec == QueriesInit /\ [][QueriesNext]_queryVars
-----------------------------------------------------------------------------
(* What the queries promise *)

\* Whatever races with the end of a query (its timeout, a cancel, a reader who
\* leaves, the answer of the target): the audit holds one record of it, with the
\* status its user was told.  Its records did not throw, and the gate had room.
RecordedAsTold ==
  \A q \in Queries \ unsure :
    At(q, "over") /\ query[q].told \notin {"invalid", "busy"} =>
      records[q] = << CASE query[q].told = "result" -> "success"
                        [] query[q].told = "left" -> "cancelled"
                        [] OTHER -> query[q].told >>

\* The query that entered last under an identifier can be cancelled until it is
\* over, however an earlier one under the same identifier ends; then the
\* identifier is free.
LatestReachable ==
  \A n \in Names :
    running[n] = IF latest[n] # NoQuery /\ query[latest[n]].pc \in Registered
                 THEN latest[n] ELSE NoQuery
=============================================================================
