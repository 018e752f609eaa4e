--------------------------- MODULE OperationGate ---------------------------
(***************************************************************************)
(* The gate in front of the users' databases.  Every operation on a target *)
(* database first takes a lease, a row of database_operation_leases, which *)
(* all API processes share; a process that is denied polls until its queue *)
(* time is over.  While the operation runs a timer extends the lease, and  *)
(* an extension that fails aborts the operation's signal.                  *)
(*                                                                         *)
(* A metadata call reads the clock first and its transaction runs later    *)
(* (it waits for the row of database_operation_lock), so the time in a     *)
(* statement is `age` ticks old when the statement takes effect.  Expiry   *)
(* is relative, as in TransferQueue.                                       *)
(***************************************************************************)
EXTENDS Integers, FiniteSets

CONSTANTS
  Ops,              \* the operations; each enters the gate once
  Process,          \* Process[o]: the API process that runs o
  Connection,       \* Connection[o]: the connection profile o uses
  Sessions,         \* the operations gated by gateSessionFactory
  GlobalLimit,      \* globalLimit
  ConnectionLimit,  \* connectionLimit
  LeaseTicks,       \* leaseDurationMs
  BeatTicks,        \* heartbeatIntervalMs
  QueueTicks,       \* queueTimeoutMs
  PollTicks,        \* pollIntervalMs
  MaxLag,           \* the longest a metadata call may take
  Punctual,         \* does the heartbeat timer fire in time?
  TransientErrors,  \* may a metadata call throw, before or after it took effect?
  MaxCrashes        \* how many processes may die

ASSUME GateAssumption ==
  /\ IsFiniteSet(Ops)
  /\ Sessions \subseteq Ops
  /\ GlobalLimit \in Nat \ {0}
  /\ ConnectionLimit \in 1..GlobalLimit
  /\ LeaseTicks \in Nat \ {0}
  /\ BeatTicks \in Nat \ {0}
  /\ QueueTicks \in Nat \ {0}
  /\ PollTicks \in Nat \ {0}
  /\ MaxLag \in Nat
  /\ Punctual \in BOOLEAN
  /\ TransientErrors \in BOOLEAN
  /\ MaxCrashes \in Nat

VARIABLES
  lease,    \* the rows of database_operation_leases: lease[o] is the number of
            \* ticks until expires_at of o's row, negative once it has passed
  pc,       \* where each operation is in DatabaseOperationGate
  age,      \* ticks since the tryAcquire or release under way began
  waited,   \* ticks since enter
  nap,      \* ticks until the poll timer fires
  since,    \* ticks since the heartbeat timer last fired
  beats,    \* the heartbeats under way, each by the age of its clock reading
  signal,   \* the permit's signal: who aborted it, if anyone did
  outcome,  \* what became of the operation, and what its caller was told
  crashed   \* the processes that died

vars == <<lease, pc, age, waited, nap, since, beats, signal, outcome, crashed>>
timers == <<age, waited, nap, since>>
caller == <<signal, outcome, crashed>>

\* The positions of an operation.  From "granted" on the answer of tryAcquire
\* is under way or has arrived.
Queueing == {"asking", "granted", "denied", "sleeping"}
Positions == {"idle", "running", "releasing", "done", "dead"} \union Queueing

\* "failed": no effect, or a caller who gave up.  "misreported": it took effect, and
\* its caller, who had not given up, was told that it failed.
Outcomes == {"open", "result", "failed", "misreported"}

\* waited is not counted further than this.
WaitBound == QueueTicks + MaxLag + 1

TypeOK ==
  /\ DOMAIN lease \subseteq Ops
  /\ \A o \in DOMAIN lease : lease[o] \in -MaxLag..LeaseTicks
  /\ pc \in [Ops -> Positions]
  /\ age \in [Ops -> 0..MaxLag]
  /\ waited \in [Ops -> 0..WaitBound]
  /\ nap \in [Ops -> 0..PollTicks]
  /\ since \in [Ops -> 0..BeatTicks]
  /\ beats \in [Ops -> SUBSET (0..MaxLag)]
  /\ signal \in [Ops -> {"clear", "lost", "caller"}]
  /\ outcome \in [Ops -> Outcomes]
  /\ crashed \subseteq {Process[o] : o \in Ops}

Init ==
  /\ lease = <<>>
  /\ pc = [o \in Ops |-> "idle"]
  /\ age = [o \in Ops |-> 0]
  /\ waited = [o \in Ops |-> 0]
  /\ nap = [o \in Ops |-> 0]
  /\ since = [o \in Ops |-> 0]
  /\ beats = [o \in Ops |-> {}]
  /\ signal = [o \in Ops |-> "clear"]
  /\ outcome = [o \in Ops |-> "open"]
  /\ crashed = {}

\* Operation o moves on.
Goto(o, from, to) ==
  /\ pc[o] = from
  /\ pc' = [pc EXCEPT ![o] = to]

\* It leaves without a permit, and is over.
Leave(o, from) ==
  /\ Goto(o, from, "done")
  /\ outcome' = [outcome EXCEPT ![o] = "failed"]
  /\ age' = [age EXCEPT ![o] = 0]
  /\ waited' = [waited EXCEPT ![o] = 0]
  /\ nap' = [nap EXCEPT ![o] = 0]
  /\ signal' = [signal EXCEPT ![o] = "clear"]
  /\ UNCHANGED <<lease, since, beats, crashed>>

-----------------------------------------------------------------------------
(* Entering: the loop of enter *)

Enter(o) ==
  /\ Goto(o, "idle", "asking")
  /\ UNCHANGED <<lease, timers, beats, caller>>

\* Faulty: the age of the clock reading counts the wrong way.
UnexpiredLater(a) == {r \in DOMAIN lease : lease[r] > a}

\* The rows a statement with a clock reading of this age does not delete.
Unexpired(a) == {r \in DOMAIN lease : lease[r] > -a}

Keep(live) == [r \in live |-> lease[r]]

Fits(o, live) ==
  /\ Cardinality(live) < GlobalLimit
  /\ Cardinality({r \in live : Connection[r] = Connection[o]}) < ConnectionLimit

\* The transaction of tryAcquire: the expired rows go, and the operation gets a
\* row if both limits allow one more.
Acquire(o) ==
  LET live == Unexpired(age[o]) IN
  /\ \/ /\ Fits(o, live)
        /\ Goto(o, "asking", "granted")
        /\ lease' = [r \in live \union {o} |->
                       IF r = o THEN LeaseTicks - age[o] ELSE lease[r]]
     \/ /\ ~Fits(o, live)
        /\ Goto(o, "asking", "denied")
        /\ lease' = Keep(live)
  /\ UNCHANGED <<timers, beats, caller>>

\* tryAcquire throws before its transaction, or its answer is lost: then the row
\* stays behind until it expires.
AskError(o) ==
  /\ TransientErrors
  /\ \E from \in {"asking", "granted", "denied"} : Leave(o, from)

\* The permit is handed out and the heartbeat timer starts.
Admit(o) ==
  /\ Goto(o, "granted", "running")
  /\ age' = [age EXCEPT ![o] = 0]
  /\ waited' = [waited EXCEPT ![o] = 0]
  /\ UNCHANGED <<lease, nap, since, beats, caller>>

\* Faulty: no deadline.
DenyForever(o) ==
  /\ Goto(o, "denied", "sleeping")
  /\ nap' = [nap EXCEPT ![o] = PollTicks]
  /\ age' = [age EXCEPT ![o] = 0]
  /\ UNCHANGED <<lease, waited, since, beats, caller>>

\* No permit: busy after the queue time, else the poll timer is set for the
\* poll interval or what is left of the queue time.
Deny(o) ==
  \/ waited[o] >= QueueTicks /\ Leave(o, "denied")
  \/ /\ waited[o] < QueueTicks
     /\ Goto(o, "denied", "sleeping")
     /\ nap' = [nap EXCEPT ![o] = IF PollTicks < QueueTicks - waited[o]
                                  THEN PollTicks ELSE QueueTicks - waited[o]]
     /\ age' = [age EXCEPT ![o] = 0]
     /\ UNCHANGED <<lease, waited, since, beats, caller>>

Poll(o) ==
  /\ nap[o] = 0
  /\ signal[o] = "clear"
  /\ Goto(o, "sleeping", "asking")
  /\ UNCHANGED <<lease, timers, beats, caller>>

\* The wait is rejected at once when the caller gives up.
Desert(o) == signal[o] = "caller" /\ Leave(o, "sleeping")

-----------------------------------------------------------------------------
(* Holding the permit *)

\* The timer fires, whether or not the last heartbeat was answered.
Beat(o) ==
  /\ pc[o] = "running"
  /\ since[o] = BeatTicks
  /\ since' = [since EXCEPT ![o] = 0]
  /\ beats' = [beats EXCEPT ![o] = @ \union {0}]
  /\ UNCHANGED <<lease, pc, age, waited, nap, caller>>

\* controller.abort; the signal of a caller who gave up stays what it is, and
\* nobody looks at it once the operation has ended.
Aborted(o) ==
  IF pc[o] = "running" /\ signal[o] = "clear" THEN [signal EXCEPT ![o] = "lost"] ELSE signal

\* Faulty: a heartbeat puts the row back.
BeatUpserts(o, a) ==
  /\ a \in beats[o]
  /\ beats' = [beats EXCEPT ![o] = @ \ {a}]
  /\ lease' = [r \in DOMAIN lease \union {o} |-> IF r = o THEN LeaseTicks - a ELSE lease[r]]
  /\ UNCHANGED <<signal, pc, timers, outcome, crashed>>

\* Faulty: the row is found, and not written.
BeatForgets(o, a) ==
  /\ a \in beats[o]
  /\ beats' = [beats EXCEPT ![o] = @ \ {a}]
  /\ UNCHANGED <<lease, signal, pc, timers, outcome, crashed>>

\* The transaction of a heartbeat that read the clock a ticks ago: it extends the
\* row; or the row is expired at that time, and goes; or there is none.
BeatLands(o, a) ==
  /\ a \in beats[o]
  /\ beats' = [beats EXCEPT ![o] = @ \ {a}]
  /\ \/ /\ o \in Unexpired(a)
        /\ lease' = [lease EXCEPT ![o] = LeaseTicks - a]
        /\ signal' \in {signal} \union (IF TransientErrors THEN {Aborted(o)} ELSE {})
     \/ /\ o \notin Unexpired(a)
        /\ lease' = Keep(DOMAIN lease \ {o})
        /\ signal' = Aborted(o)
  /\ UNCHANGED <<pc, timers, outcome, crashed>>

\* A heartbeat that throws without effect.
BeatError(o, a) ==
  /\ TransientErrors
  /\ a \in beats[o]
  /\ beats' = [beats EXCEPT ![o] = @ \ {a}]
  /\ signal' = Aborted(o)
  /\ UNCHANGED <<lease, pc, timers, outcome, crashed>>

\* The operation ends, with its effect or with an error.  Only run and the stream
\* adapter look at the signal again; the timer is cleared and the release starts.
Finish(o) ==
  /\ Goto(o, "running", "releasing")
  /\ outcome' \in {[outcome EXCEPT ![o] = what] : what \in
       {"failed",
        IF signal[o] = "clear" \/ o \in Sessions THEN "result"
        ELSE IF signal[o] = "caller" THEN "failed" ELSE "misreported"}}
  /\ since' = [since EXCEPT ![o] = 0]
  /\ signal' = [signal EXCEPT ![o] = "clear"]
  /\ UNCHANGED <<lease, age, waited, nap, beats, crashed>>

\* release: a row that is already gone is an error, and so is a call that throws;
\* the services that close a session swallow it.
Release(o) ==
  /\ Goto(o, "releasing", "done")
  /\ \E works, answered \in {TRUE, ~TransientErrors} :
       /\ lease' = IF works THEN Keep(DOMAIN lease \ {o}) ELSE lease
       /\ outcome' = IF \/ outcome[o] # "result" \/ o \in Sessions
                        \/ works /\ answered /\ o \in DOMAIN lease
                     THEN outcome ELSE [outcome EXCEPT ![o] = "misreported"]
  /\ age' = [age EXCEPT ![o] = 0]
  /\ UNCHANGED <<waited, nap, since, beats, signal, crashed>>

-----------------------------------------------------------------------------
(* The environment *)

\* The caller gives up (its request is aborted, its job cancelled).  A session takes
\* no signal of its caller.
Abandon(o) ==
  /\ o \notin Sessions
  /\ pc[o] \in Queueing \union {"running"}
  /\ signal[o] # "caller"
  /\ signal' = [signal EXCEPT ![o] = "caller"]
  /\ UNCHANGED <<lease, pc, timers, beats, outcome, crashed>>

Crash(p) ==
  /\ p \notin crashed
  /\ Cardinality(crashed) < MaxCrashes
  /\ crashed' = crashed \union {p}
  /\ LET dying == {o \in Ops : Process[o] = p /\ pc[o] # "done"}
         Reset(f, n) == [o \in Ops |-> IF o \in dying THEN n ELSE f[o]]
     IN  /\ pc' = Reset(pc, "dead")
         /\ age' = Reset(age, 0)
         /\ waited' = Reset(waited, 0)
         /\ nap' = Reset(nap, 0)
         /\ since' = Reset(since, 0)
         /\ signal' = Reset(signal, "clear")
  /\ UNCHANGED <<lease, beats, outcome>>

InFlight(o) == pc[o] \in {"asking", "granted", "denied", "releasing"}

Sooner(n) == IF n = 0 THEN 0 ELSE n - 1
Later(n, bound) == IF n < bound THEN n + 1 ELSE bound

\* One tick passes.  No metadata call takes longer than MaxLag, a poll timer
\* fires when it is due, and a punctual heartbeat timer does too.
Tick ==
  /\ \A o \in Ops : /\ InFlight(o) => age[o] < MaxLag
                    /\ MaxLag \notin beats[o]
                    /\ pc[o] = "sleeping" => nap[o] > 0 /\ signal[o] = "clear"
                    /\ Punctual /\ pc[o] = "running" => since[o] < BeatTicks
  /\ lease' = [o \in DOMAIN lease |-> IF lease[o] > -MaxLag THEN lease[o] - 1 ELSE lease[o]]
  /\ age' = [o \in Ops |-> IF InFlight(o) THEN age[o] + 1 ELSE age[o]]
  /\ waited' = [o \in Ops |-> IF pc[o] \in Queueing THEN Later(waited[o], WaitBound) ELSE 0]
  /\ nap' = [o \in Ops |-> Sooner(nap[o])]
  /\ since' = [o \in Ops |-> IF pc[o] = "running" THEN Later(since[o], BeatTicks) ELSE 0]
  /\ beats' = [o \in Ops |-> {a + 1 : a \in beats[o]}]
  /\ UNCHANGED <<pc, caller>>

Landing(o) == \E a \in beats[o] : BeatLands(o, a) \/ BeatError(o, a)

\* What the process of o, or the metadata store on its behalf, does next.
Step(o) ==
  \/ Acquire(o) \/ AskError(o) \/ Admit(o) \/ Deny(o) \/ Poll(o) \/ Desert(o)
  \/ Release(o)

Next ==
  \/ \E o \in Ops :
       Enter(o) \/ Step(o) \/ Beat(o) \/ Landing(o) \/ Finish(o) \/ Abandon(o)
  \/ \E p \in {Process[o] : o \in Ops} : Crash(p)
  \/ Tick

Spec == Init /\ [][Next]_vars

\* Calls return, timers fire and time passes.  An operation that holds a permit
\* may run for ever.
Fairness ==
  /\ \A o \in Ops : /\ WF_vars(Step(o))
                    /\ WF_vars(Landing(o))
                    /\ WF_vars(Beat(o))
  /\ WF_vars(Tick)

FairSpec == Spec /\ Fairness
-----------------------------------------------------------------------------
(* What the gate promises *)

\* However slow the calls, however late the timers, whoever dies: the table never
\* holds more leases than the limits allow.
LeasesWithinLimits ==
  /\ Cardinality(DOMAIN lease) <= GlobalLimit
  /\ \A o \in Ops :
       Cardinality({r \in DOMAIN lease : Connection[r] = Connection[o]}) <= ConnectionLimit

\* The operations that are in the target databases.
Running == {o \in Ops : pc[o] = "running"}

\* While timers fire in time and the calls are quick enough for the lease, the
\* databases themselves never see more operations than that, over all processes.
RunningWithinLimits ==
  /\ Cardinality(Running) <= GlobalLimit
  /\ \A o \in Ops :
       Cardinality({r \in Running : Connection[r] = Connection[o]}) <= ConnectionLimit

\* Under the same conditions and with a metadata store that answers, an operation
\* that took effect is reported as failed only to a caller who gave up.
EffectReported ==
  \A o \in Ops : outcome[o] # "misreported"

\* With a metadata store that answers, an operation that is over leaves no lease
\* behind, though heartbeats of it may still be under way.
NothingLeaked ==
  \A o \in Ops : pc[o] = "done" => o \notin DOMAIN lease

\* Nobody queues longer than the queue time and one call.
QueueBounded ==
  \A o \in Ops : pc[o] \in Queueing => waited[o] <= QueueTicks + MaxLag

\* A request that enters the gate gets its permit or an error, unless its process
\* dies, even if no permit is ever given back.
Answered ==
  \A o \in Ops : pc[o] = "asking" ~> pc[o] \in {"running", "releasing", "done", "dead"}
=============================================================================
