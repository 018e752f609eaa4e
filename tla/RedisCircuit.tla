---------------------------- MODULE RedisCircuit ----------------------------
(* The circuit between a process and Redis (ha/redis-fallback-circuit.ts).     *)
(* Calls go to Redis until too many of them fail in a row; then they fall back *)
(* to the metadata database, for a cooldown, after which one call at a time    *)
(* tries Redis until enough of them succeed.  Calls that began before the      *)
(* circuit changed its mind end after it and change its counters.              *)
EXTENDS Integers, FiniteSets

CONSTANTS
  CircuitCalls,       \* the calls that may be under way
  FailureThreshold,   \* failures in a row that open the circuit
  OperationTicks,     \* operationTimeoutMs
  CooldownTicks,      \* recoveryCooldownMs
  RecoveryThreshold   \* successful probes that close it

ASSUME CircuitAssumption ==
  /\ IsFiniteSet(CircuitCalls)
  /\ {FailureThreshold, OperationTicks, CooldownTicks, RecoveryThreshold} \subseteq Nat \ {0}

VARIABLES
  degraded,             \* degradedAt # undefined
  cooldown,             \* ticks until recoveryCooldownMs have passed since degradedAt
  consecutiveFailures,
  recoverySuccesses,
  probeActive,
  call,                 \* each call: its place, its age in Redis, whether Redis lost it
  up                    \* whether Redis answers every call in time

circuitVars ==
  <<degraded, cooldown, consecutiveFailures, recoverySuccesses, probeActive, call, up>>

AtRest == [pc |-> "resting", age |-> 0, lost |-> FALSE]
Falling == [pc |-> "fallback", age |-> 0, lost |-> FALSE]
AtRedis == {c \in CircuitCalls : call[c].pc \in {"accelerated", "probing"}}

CircuitTypeOK ==
  /\ degraded \in BOOLEAN /\ probeActive \in BOOLEAN /\ up \in BOOLEAN
  /\ cooldown \in 0..CooldownTicks
  /\ consecutiveFailures \in 0..(FailureThreshold + Cardinality(CircuitCalls))
  /\ recoverySuccesses \in 0..(RecoveryThreshold - 1)
  /\ \A c \in CircuitCalls :
       /\ call[c].pc \in {"resting", "accelerated", "probing", "fallback"}
       /\ call[c].age \in 0..OperationTicks /\ call[c].lost \in BOOLEAN

CircuitInit ==
  /\ degraded = FALSE /\ cooldown = 0 /\ consecutiveFailures = 0 /\ recoverySuccesses = 0
  /\ probeActive = FALSE /\ up = TRUE
  /\ call = [c \in CircuitCalls |-> AtRest]

-----------------------------------------------------------------------------
(* run: where a call goes *)

SendTo(c, place) ==
  \E lost \in BOOLEAN :
    /\ up => ~lost
    /\ call' = [call EXCEPT ![c] = [pc |-> place, age |-> 0, lost |-> lost]]

RunAccelerated(c) ==
  /\ call[c].pc = "resting"
  /\ ~degraded
  /\ SendTo(c, "accelerated")
  /\ UNCHANGED <<degraded, cooldown, consecutiveFailures, recoverySuccesses, probeActive, up>>

MayProbe == (cooldown = 0 \/ recoverySuccesses > 0) /\ ~probeActive

RunFallback(c) ==
  /\ call[c].pc = "resting"
  /\ degraded /\ ~MayProbe
  /\ call' = [call EXCEPT ![c] = Falling]
  /\ UNCHANGED <<degraded, cooldown, consecutiveFailures, recoverySuccesses, probeActive, up>>

RunRecoveryProbe(c) ==
  /\ call[c].pc = "resting"
  /\ degraded /\ MayProbe
  /\ probeActive' = TRUE
  /\ SendTo(c, "probing")
  /\ UNCHANGED <<degraded, cooldown, consecutiveFailures, recoverySuccesses, up>>

-----------------------------------------------------------------------------
(* How a call ends: the circuit may have opened or closed since it began *)

CallAnswers(c) ==
  /\ call[c].pc = "accelerated" /\ ~call[c].lost
  /\ consecutiveFailures' = 0
  /\ call' = [call EXCEPT ![c] = AtRest]
  /\ UNCHANGED <<degraded, cooldown, recoverySuccesses, probeActive, up>>

\* An error, or the timeout.
CallFails(c) ==
  /\ call[c].pc = "accelerated" /\ call[c].lost
  /\ consecutiveFailures' = consecutiveFailures + 1
  /\ IF consecutiveFailures' >= FailureThreshold
     THEN degraded' = TRUE /\ cooldown' = CooldownTicks
     ELSE UNCHANGED <<degraded, cooldown>>
  /\ call' = [call EXCEPT ![c] = Falling]
  /\ UNCHANGED <<recoverySuccesses, probeActive, up>>

ProbeAnswers(c) ==
  /\ call[c].pc = "probing" /\ ~call[c].lost
  /\ IF recoverySuccesses + 1 >= RecoveryThreshold
     THEN /\ degraded' = FALSE /\ cooldown' = 0
          /\ consecutiveFailures' = 0 /\ recoverySuccesses' = 0
     ELSE /\ recoverySuccesses' = recoverySuccesses + 1
          /\ UNCHANGED <<degraded, cooldown, consecutiveFailures>>
  /\ probeActive' = FALSE
  /\ call' = [call EXCEPT ![c] = AtRest]
  /\ UNCHANGED up

\* Faulty: the probe stays active.
ProbeFailsActive(c) ==
  /\ call[c].pc = "probing" /\ call[c].lost
  /\ degraded' = TRUE /\ cooldown' = CooldownTicks
  /\ consecutiveFailures' = FailureThreshold /\ recoverySuccesses' = 0
  /\ call' = [call EXCEPT ![c] = Falling]
  /\ UNCHANGED <<probeActive, up>>

ProbeFails(c) ==
  /\ call[c].pc = "probing" /\ call[c].lost
  /\ degraded' = TRUE /\ cooldown' = CooldownTicks
  /\ consecutiveFailures' = FailureThreshold /\ recoverySuccesses' = 0
  /\ probeActive' = FALSE
  /\ call' = [call EXCEPT ![c] = Falling]
  /\ UNCHANGED up

\* The metadata database has answered, or thrown.
FallbackEnds(c) ==
  /\ call[c].pc = "fallback"
  /\ call' = [call EXCEPT ![c] = AtRest]
  /\ UNCHANGED <<degraded, cooldown, consecutiveFailures, recoverySuccesses, probeActive, up>>

-----------------------------------------------------------------------------
(* Redis: while it is not up, calls may be lost *)

RedisFails ==
  /\ up /\ up' = FALSE
  /\ \E S \in SUBSET AtRedis :
       call' = [c \in CircuitCalls |->
                  IF c \in S THEN [call[c] EXCEPT !.lost = TRUE] ELSE call[c]]
  /\ UNCHANGED <<degraded, cooldown, consecutiveFailures, recoverySuccesses, probeActive>>

RedisReturns ==
  /\ ~up /\ up' = TRUE
  /\ UNCHANGED <<degraded, cooldown, consecutiveFailures, recoverySuccesses, probeActive, call>>

CircuitTick ==
  /\ \A c \in AtRedis : call[c].age < OperationTicks
  /\ cooldown' = IF cooldown = 0 THEN 0 ELSE cooldown - 1
  /\ call' = [c \in CircuitCalls |->
                IF c \in AtRedis THEN [call[c] EXCEPT !.age = @ + 1] ELSE call[c]]
  /\ UNCHANGED <<degraded, consecutiveFailures, recoverySuccesses, probeActive, up>>

-----------------------------------------------------------------------------
RunCall(c) == RunAccelerated(c) \/ RunFallback(c) \/ RunRecoveryProbe(c)
EndCall(c) ==
  \/ CallAnswers(c)
  \/ CallFails(c)
  \/ ProbeAnswers(c)
  \/ ProbeFails(c)
  \/ FallbackEnds(c)

CircuitNext ==
  \/ \E c \in CircuitCalls : RunCall(c) \/ EndCall(c)
  \/ RedisFails
  \/ RedisReturns
  \/ CircuitTick

CircuitSpec == CircuitInit /\ [][CircuitNext]_circuitVars

\* A call is answered, fails or times out, and time passes.
CircuitFairness ==
  /\ \A c \in CircuitCalls : WF_circuitVars(EndCall(c))
  /\ WF_circuitVars(CircuitTick)

CircuitFairSpec == CircuitSpec /\ CircuitFairness

-----------------------------------------------------------------------------
(* What the circuit promises *)

\* When Redis is up for good and calls keep coming, the circuit is closed for good some
\* day, whatever calls of earlier times still end and in whatever order.
CircuitRecovers ==
  (<>[]up /\ []<>(\E c \in CircuitCalls : call[c].pc # "resting")) => <>[]~degraded
=============================================================================
