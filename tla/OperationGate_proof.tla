------------------------ MODULE OperationGate_proof ------------------------
(***************************************************************************)
(* What holds of OperationGate for every set of operations and connections *)
(* and every value of the limits, intervals and delays.                    *)
(***************************************************************************)
EXTENDS OperationGate, FiniteSetTheorems, TLAPS

\* The assumption on the constants, without the set of operations.
LEMMA Bounds ==
  /\ GlobalLimit \in Nat \ {0}
  /\ ConnectionLimit \in 1..GlobalLimit
  /\ LeaseTicks \in Nat \ {0}
  /\ BeatTicks \in Nat \ {0}
  /\ QueueTicks \in Nat \ {0}
  /\ PollTicks \in Nat \ {0}
  /\ MaxLag \in Nat
  /\ WaitBound \in Nat
  /\ WaitBound = QueueTicks + MaxLag + 1
  BY GateAssumption DEF WaitBound

LEMMA Updated ==
  ASSUME NEW S, NEW T, NEW f \in [S -> T], NEW x, NEW v \in T
  PROVE  [f EXCEPT ![x] = v] \in [S -> T]
  OBVIOUS

-----------------------------------------------------------------------------
(* Type correctness *)

\* The rows, and the rest.
LeaseTypes ==
  /\ DOMAIN lease \subseteq Ops
  /\ \A o \in DOMAIN lease : lease[o] \in -MaxLag..LeaseTicks

TimerTypes ==
  /\ age \in [Ops -> 0..MaxLag]
  /\ waited \in [Ops -> 0..WaitBound]
  /\ nap \in [Ops -> 0..PollTicks]
  /\ since \in [Ops -> 0..BeatTicks]

BeatTypes == beats \in [Ops -> SUBSET (0..MaxLag)]

CallerTypes ==
  /\ pc \in [Ops -> Positions]
  /\ signal \in [Ops -> {"clear", "lost", "caller"}]
  /\ outcome \in [Ops -> Outcomes]
  /\ crashed \subseteq {Process[o] : o \in Ops}

LEMMA TypeParts == TypeOK <=> LeaseTypes /\ TimerTypes /\ BeatTypes /\ CallerTypes
  BY DEF TypeOK, LeaseTypes, TimerTypes, BeatTypes, CallerTypes

LEMMA InitTypeOK == Init => TypeOK
  BY Bounds DEF Init, TypeOK, Positions, Queueing, Outcomes

LEMMA NextTypeOK == TypeOK /\ [Next]_vars => TypeOK'
  <1> SUFFICES ASSUME TypeOK, [Next]_vars PROVE TypeOK'
    OBVIOUS
  <1> USE Bounds, TypeParts
  <1>1. ASSUME NEW o \in Ops, Enter(o) PROVE TypeOK'
    <2>1. LeaseTypes'
      BY <1>1 DEF Enter, Goto, LeaseTypes, TimerTypes, BeatTypes, timers, caller
    <2>2. TimerTypes'
      BY <1>1 DEF Enter, Goto, TimerTypes, timers, caller
    <2>3. BeatTypes'
      BY <1>1 DEF Enter, Goto, BeatTypes, timers, caller
    <2>4. CallerTypes'
      BY <1>1 DEF Enter, Goto, CallerTypes, timers, caller, Positions, Queueing, Outcomes
    <2> QED
      BY <2>1, <2>2, <2>3, <2>4 DEF TypeOK, LeaseTypes, TimerTypes, BeatTypes, CallerTypes
  <1>2. ASSUME NEW o \in Ops, Acquire(o) PROVE TypeOK'
    <2>1. LeaseTypes'
      BY <1>2 DEF Acquire, Goto, Keep, Unexpired, LeaseTypes, TimerTypes, BeatTypes, timers, caller
    <2>2. TimerTypes'
      BY <1>2 DEF Acquire, Goto, Keep, Unexpired, TimerTypes, timers, caller
    <2>3. BeatTypes'
      BY <1>2 DEF Acquire, Goto, Keep, Unexpired, BeatTypes, timers, caller
    <2>4. CallerTypes'
      BY <1>2 DEF Acquire, Goto, Keep, Unexpired, CallerTypes, timers, caller, Positions, Queueing, Outcomes
    <2> QED
      BY <2>1, <2>2, <2>3, <2>4 DEF TypeOK, LeaseTypes, TimerTypes, BeatTypes, CallerTypes
  <1>3. ASSUME NEW o \in Ops, AskError(o) PROVE TypeOK'
    <2>1. LeaseTypes'
      BY <1>3 DEF AskError, Leave, Goto, LeaseTypes, TimerTypes, BeatTypes, timers, caller
    <2>2. TimerTypes'
      BY <1>3 DEF AskError, Leave, Goto, TimerTypes, timers, caller
    <2>3. BeatTypes'
      BY <1>3 DEF AskError, Leave, Goto, BeatTypes, timers, caller
    <2>4. CallerTypes'
      BY <1>3 DEF AskError, Leave, Goto, CallerTypes, timers, caller, Positions, Queueing, Outcomes
    <2> QED
      BY <2>1, <2>2, <2>3, <2>4 DEF TypeOK, LeaseTypes, TimerTypes, BeatTypes, CallerTypes
  <1>4. ASSUME NEW o \in Ops, Admit(o) PROVE TypeOK'
    <2>1. LeaseTypes'
      BY <1>4 DEF Admit, Goto, LeaseTypes, TimerTypes, BeatTypes, timers, caller
    <2>2. TimerTypes'
      BY <1>4 DEF Admit, Goto, TimerTypes, timers, caller
    <2>3. BeatTypes'
      BY <1>4 DEF Admit, Goto, BeatTypes, timers, caller
    <2>4. CallerTypes'
      BY <1>4 DEF Admit, Goto, CallerTypes, timers, caller, Positions, Queueing, Outcomes
    <2> QED
      BY <2>1, <2>2, <2>3, <2>4 DEF TypeOK, LeaseTypes, TimerTypes, BeatTypes, CallerTypes
  <1>5. ASSUME NEW o \in Ops, Deny(o) PROVE TypeOK'
    <2>1. LeaseTypes'
      BY <1>5 DEF Deny, Leave, Goto, LeaseTypes, TimerTypes, BeatTypes, timers, caller
    <2>2. TimerTypes'
      BY <1>5 DEF Deny, Leave, Goto, TimerTypes, timers, caller
    <2>3. BeatTypes'
      BY <1>5 DEF Deny, Leave, Goto, BeatTypes, timers, caller
    <2>4. CallerTypes'
      BY <1>5 DEF Deny, Leave, Goto, CallerTypes, timers, caller, Positions, Queueing, Outcomes
    <2> QED
      BY <2>1, <2>2, <2>3, <2>4 DEF TypeOK, LeaseTypes, TimerTypes, BeatTypes, CallerTypes
  <1>6. ASSUME NEW o \in Ops, Poll(o) PROVE TypeOK'
    <2>1. LeaseTypes'
      BY <1>6 DEF Poll, Goto, LeaseTypes, TimerTypes, BeatTypes, timers, caller
    <2>2. TimerTypes'
      BY <1>6 DEF Poll, Goto, TimerTypes, timers, caller
    <2>3. BeatTypes'
      BY <1>6 DEF Poll, Goto, BeatTypes, timers, caller
    <2>4. CallerTypes'
      BY <1>6 DEF Poll, Goto, CallerTypes, timers, caller, Positions, Queueing, Outcomes
    <2> QED
      BY <2>1, <2>2, <2>3, <2>4 DEF TypeOK, LeaseTypes, TimerTypes, BeatTypes, CallerTypes
  <1>7. ASSUME NEW o \in Ops, Desert(o) PROVE TypeOK'
    <2>1. LeaseTypes'
      BY <1>7 DEF Desert, Leave, Goto, LeaseTypes, TimerTypes, BeatTypes, timers, caller
    <2>2. TimerTypes'
      BY <1>7 DEF Desert, Leave, Goto, TimerTypes, timers, caller
    <2>3. BeatTypes'
      BY <1>7 DEF Desert, Leave, Goto, BeatTypes, timers, caller
    <2>4. CallerTypes'
      BY <1>7 DEF Desert, Leave, Goto, CallerTypes, timers, caller, Positions, Queueing, Outcomes
    <2> QED
      BY <2>1, <2>2, <2>3, <2>4 DEF TypeOK, LeaseTypes, TimerTypes, BeatTypes, CallerTypes
  <1>8. ASSUME NEW o \in Ops, Release(o) PROVE TypeOK'
    <2>1. LeaseTypes'
      BY <1>8 DEF Release, Goto, Keep, LeaseTypes, TimerTypes, BeatTypes, timers, caller
    <2>2. TimerTypes'
      BY <1>8 DEF Release, Goto, Keep, TimerTypes, timers, caller
    <2>3. BeatTypes'
      BY <1>8 DEF Release, Goto, Keep, BeatTypes, timers, caller
    <2>4. CallerTypes'
      BY <1>8 DEF Release, Goto, Keep, CallerTypes, timers, caller, Positions, Queueing, Outcomes
    <2> QED
      BY <2>1, <2>2, <2>3, <2>4 DEF TypeOK, LeaseTypes, TimerTypes, BeatTypes, CallerTypes
  <1>9. ASSUME NEW o \in Ops, Beat(o) PROVE TypeOK'
    <2>1. LeaseTypes'
      BY <1>9 DEF Beat, LeaseTypes, TimerTypes, BeatTypes, timers, caller
    <2>2. TimerTypes'
      BY <1>9 DEF Beat, TimerTypes, timers, caller
    <2>3. BeatTypes'
      BY <1>9 DEF Beat, BeatTypes, timers, caller
    <2>4. CallerTypes'
      BY <1>9 DEF Beat, CallerTypes, timers, caller, Positions, Queueing, Outcomes
    <2> QED
      BY <2>1, <2>2, <2>3, <2>4 DEF TypeOK, LeaseTypes, TimerTypes, BeatTypes, CallerTypes
  <1>10. ASSUME NEW o \in Ops, NEW a \in beats[o], BeatLands(o, a) PROVE TypeOK'
    <2>1. LeaseTypes'
      BY <1>10 DEF BeatLands, Aborted, Keep, Unexpired, LeaseTypes, TimerTypes, BeatTypes, timers, caller
    <2>2. TimerTypes'
      BY <1>10 DEF BeatLands, Aborted, Keep, Unexpired, TimerTypes, timers, caller
    <2>3. BeatTypes'
      BY <1>10 DEF BeatLands, Aborted, Keep, Unexpired, BeatTypes, timers, caller
    <2>4. CallerTypes'
      BY <1>10 DEF BeatLands, Aborted, Keep, Unexpired, CallerTypes, timers, caller, Positions, Queueing, Outcomes
    <2> QED
      BY <2>1, <2>2, <2>3, <2>4 DEF TypeOK, LeaseTypes, TimerTypes, BeatTypes, CallerTypes
  <1>11. ASSUME NEW o \in Ops, NEW a \in beats[o], BeatError(o, a) PROVE TypeOK'
    <2>1. LeaseTypes'
      BY <1>11 DEF BeatError, Aborted, LeaseTypes, TimerTypes, BeatTypes, timers, caller
    <2>2. TimerTypes'
      BY <1>11 DEF BeatError, Aborted, TimerTypes, timers, caller
    <2>3. BeatTypes'
      BY <1>11 DEF BeatError, Aborted, BeatTypes, timers, caller
    <2>4. CallerTypes'
      BY <1>11 DEF BeatError, Aborted, CallerTypes, timers, caller, Positions, Queueing, Outcomes
    <2> QED
      BY <2>1, <2>2, <2>3, <2>4 DEF TypeOK, LeaseTypes, TimerTypes, BeatTypes, CallerTypes
  <1>12. ASSUME NEW o \in Ops, Finish(o) PROVE TypeOK'
    <2>1. LeaseTypes'
      BY <1>12 DEF Finish, Goto, LeaseTypes, TimerTypes, BeatTypes, timers, caller
    <2>2. TimerTypes'
      BY <1>12 DEF Finish, Goto, TimerTypes, timers, caller
    <2>3. BeatTypes'
      BY <1>12 DEF Finish, Goto, BeatTypes, timers, caller
    <2>4. CallerTypes'
      BY <1>12 DEF Finish, Goto, CallerTypes, timers, caller, Positions, Queueing, Outcomes
    <2> QED
      BY <2>1, <2>2, <2>3, <2>4 DEF TypeOK, LeaseTypes, TimerTypes, BeatTypes, CallerTypes
  <1>13. ASSUME NEW o \in Ops, Abandon(o) PROVE TypeOK'
    <2>1. LeaseTypes'
      BY <1>13 DEF Abandon, LeaseTypes, TimerTypes, BeatTypes, timers, caller
    <2>2. TimerTypes'
      BY <1>13 DEF Abandon, TimerTypes, timers, caller
    <2>3. BeatTypes'
      BY <1>13 DEF Abandon, BeatTypes, timers, caller
    <2>4. CallerTypes'
      BY <1>13 DEF Abandon, CallerTypes, timers, caller, Positions, Queueing, Outcomes
    <2> QED
      BY <2>1, <2>2, <2>3, <2>4 DEF TypeOK, LeaseTypes, TimerTypes, BeatTypes, CallerTypes
  <1>14. ASSUME NEW p \in {Process[o] : o \in Ops}, Crash(p) PROVE TypeOK'
    <2>1. LeaseTypes'
      BY <1>14 DEF Crash, LeaseTypes, TimerTypes, BeatTypes, timers, caller
    <2>2. TimerTypes'
      BY <1>14 DEF Crash, TimerTypes, timers, caller
    <2>3. BeatTypes'
      BY <1>14 DEF Crash, BeatTypes, timers, caller
    <2>4. CallerTypes'
      BY <1>14 DEF Crash, CallerTypes, timers, caller, Positions, Queueing, Outcomes
    <2> QED
      BY <2>1, <2>2, <2>3, <2>4 DEF TypeOK, LeaseTypes, TimerTypes, BeatTypes, CallerTypes
  <1>15. ASSUME Tick PROVE TypeOK'
    <2>1. LeaseTypes'
      BY <1>15 DEF Tick, Later, Sooner, LeaseTypes, TimerTypes, BeatTypes, timers, caller
    <2>2. TimerTypes'
      BY <1>15 DEF Tick, Later, Sooner, TimerTypes, timers, caller
    <2>3. BeatTypes'
      BY <1>15 DEF Tick, Later, Sooner, BeatTypes, timers, caller
    <2>4. CallerTypes'
      BY <1>15 DEF Tick, Later, Sooner, CallerTypes, timers, caller, Positions, Queueing, Outcomes
    <2> QED
      BY <2>1, <2>2, <2>3, <2>4 DEF TypeOK, LeaseTypes, TimerTypes, BeatTypes, CallerTypes
  <1>16. CASE UNCHANGED vars
    BY <1>16 DEF vars, TypeOK
  <1> QED
    BY <1>1, <1>2, <1>3, <1>4, <1>5, <1>6, <1>7, <1>8, <1>9, <1>10, <1>11, <1>12, <1>13, <1>14, <1>15, <1>16 DEF Next, Step, Landing

\* Every variable keeps its type.
THEOREM TypeCorrect == Spec => []TypeOK
  BY InitTypeOK, NextTypeOK, PTL DEF Spec

-----------------------------------------------------------------------------
(* The table of leases: only Acquire adds a row, and it counts first. *)

OnConnection(S, o) == {r \in S : Connection[r] = Connection[o]}

LEMMA GateCounted ==
  ASSUME NEW S \in SUBSET Ops
  PROVE  /\ IsFiniteSet(S)
         /\ Cardinality(S) \in Nat
         /\ \A o \in Ops : /\ IsFiniteSet(OnConnection(S, o))
                           /\ Cardinality(OnConnection(S, o)) \in Nat
  <1>1. IsFiniteSet(S)
    BY GateAssumption, FS_Subset
  <1>2. \A o \in Ops : IsFiniteSet(OnConnection(S, o))
    BY <1>1, FS_Subset DEF OnConnection
  <1> QED
    BY <1>1, <1>2, FS_CardinalityType

\* A subset is counted no higher.
LEMMA CountedFewer ==
  ASSUME NEW S \in SUBSET Ops, NEW T \in SUBSET S
  PROVE  /\ Cardinality(T) <= Cardinality(S)
         /\ \A o \in Ops : Cardinality(OnConnection(T, o)) <= Cardinality(OnConnection(S, o))
  <1>1. \A o \in Ops : OnConnection(T, o) \subseteq OnConnection(S, o)
    BY DEF OnConnection
  <1> QED
    BY <1>1, GateCounted, FS_Subset

LEMMA PlusOne ==
  ASSUME NEW S, IsFiniteSet(S), NEW x
  PROVE  Cardinality(S \union {x}) <= Cardinality(S) + 1
  <1>1. Cardinality(S) \in Nat
    BY FS_CardinalityType
  <1>2. Cardinality(S \cup {x}) = IF x \in S THEN Cardinality(S) ELSE Cardinality(S) + 1
    BY FS_AddElement
  <1> QED
    BY <1>1, <1>2

\* What fits may be added.
LEMMA CountedOneMore ==
  ASSUME NEW S \in SUBSET Ops, NEW o \in Ops, Fits(o, S),
         \A q \in Ops : Cardinality(OnConnection(S, q)) <= ConnectionLimit
  PROVE  /\ Cardinality(S \union {o}) <= GlobalLimit
         /\ \A q \in Ops : Cardinality(OnConnection(S \union {o}, q)) <= ConnectionLimit
  <1>1. Cardinality(S \union {o}) <= GlobalLimit
    <2>1. Cardinality(S) \in Nat /\ Cardinality(S \union {o}) <= Cardinality(S) + 1
      BY GateCounted, PlusOne
    <2>2. Cardinality(S \union {o}) \in Nat
      BY GateCounted, S \union {o} \in SUBSET Ops
    <2> QED
      BY <2>1, <2>2, Bounds DEF Fits
  <1>2. ASSUME NEW q \in Ops, Connection[q] = Connection[o]
        PROVE  Cardinality(OnConnection(S \union {o}, q)) <= ConnectionLimit
    <2>1. OnConnection(S \union {o}, q) = OnConnection(S, o) \union {o}
      BY <1>2 DEF OnConnection
    <2>2. Cardinality(OnConnection(S, o)) < ConnectionLimit
      BY DEF Fits, OnConnection
    <2> QED
      <3>1. /\ Cardinality(OnConnection(S, o)) \in Nat
            /\ Cardinality(OnConnection(S, o) \union {o}) <= Cardinality(OnConnection(S, o)) + 1
        BY GateCounted, PlusOne
      <3>2. Cardinality(OnConnection(S, o) \union {o}) \in Nat
        BY <2>1, GateCounted, S \union {o} \in SUBSET Ops
      <3> QED
        BY <2>1, <2>2, <3>1, <3>2, Bounds
  <1>3. ASSUME NEW q \in Ops, Connection[q] # Connection[o]
        PROVE  OnConnection(S \union {o}, q) = OnConnection(S, q)
    BY <1>3 DEF OnConnection
  <1> QED
    BY <1>1, <1>2, <1>3

\* The rows after a step: at most one is new, and it fits.
LEMMA RowsAfter ==
  ASSUME TypeOK, [Next]_vars
  PROVE  \/ DOMAIN lease' \subseteq DOMAIN lease
         \/ \E o \in Ops : /\ Fits(o, Unexpired(age[o]))
                           /\ DOMAIN lease' = Unexpired(age[o]) \union {o}
  <1>1. ASSUME NEW o \in Ops, Acquire(o)
        PROVE  \/ DOMAIN lease' \subseteq DOMAIN lease
               \/ /\ Fits(o, Unexpired(age[o]))
                  /\ DOMAIN lease' = Unexpired(age[o]) \union {o}
    BY <1>1 DEF Acquire, Keep, Unexpired
  <1>2. ASSUME NEW o \in Ops,
               Enter(o) \/ AskError(o) \/ Admit(o) \/ Deny(o) \/ Poll(o) \/ Desert(o)
                 \/ Beat(o) \/ Finish(o) \/ Abandon(o)
        PROVE  lease' = lease
    BY <1>2 DEF Enter, AskError, Leave, Admit, Deny, Poll, Desert, Beat, Finish, Abandon
  <1>3. ASSUME NEW o \in Ops, Release(o) PROVE DOMAIN lease' \subseteq DOMAIN lease
    BY <1>3 DEF Release, Keep
  <1>4. ASSUME NEW o \in Ops, Landing(o) PROVE DOMAIN lease' \subseteq DOMAIN lease
    BY <1>4 DEF Landing, BeatLands, BeatError, Keep
  <1>5. ASSUME NEW p \in {Process[o] : o \in Ops}, Crash(p) PROVE lease' = lease
    BY <1>5 DEF Crash
  <1>6. ASSUME Tick PROVE DOMAIN lease' \subseteq DOMAIN lease
    BY <1>6 DEF Tick
  <1>7. CASE UNCHANGED vars
    BY <1>7 DEF vars
  <1> QED
    BY <1>1, <1>2, <1>3, <1>4, <1>5, <1>6, <1>7 DEF Next, Step

\* The table of leases never exceeds its limits, however many processes share it,
\* however old the clock readings are, and whatever is lost or dies.
THEOREM LeasesBounded == Spec => []LeasesWithinLimits
  <1>1. Init => LeasesWithinLimits
    <2> SUFFICES ASSUME Init PROVE LeasesWithinLimits
      OBVIOUS
    <2>1. DOMAIN lease = {}
      BY DEF Init
    <2>2. \A o \in Ops : {r \in {} : Connection[r] = Connection[o]} = {}
      OBVIOUS
    <2> QED
      BY <2>1, <2>2, FS_EmptySet, Bounds DEF LeasesWithinLimits
  <1>2. TypeOK /\ LeasesWithinLimits /\ [Next]_vars => LeasesWithinLimits'
    <2> SUFFICES ASSUME TypeOK, LeasesWithinLimits, [Next]_vars
                 PROVE  LeasesWithinLimits'
      OBVIOUS
    <2>1. DOMAIN lease \in SUBSET Ops
      BY DEF TypeOK
    <2>2. /\ Cardinality(DOMAIN lease) <= GlobalLimit
          /\ \A q \in Ops : Cardinality(OnConnection(DOMAIN lease, q)) <= ConnectionLimit
      BY DEF LeasesWithinLimits, OnConnection
    <2>3. SUFFICES /\ Cardinality(DOMAIN lease') <= GlobalLimit
                   /\ \A q \in Ops :
                        Cardinality(OnConnection(DOMAIN lease', q)) <= ConnectionLimit
      BY <2>3 DEF LeasesWithinLimits, OnConnection
    <2>4. CASE DOMAIN lease' \subseteq DOMAIN lease
      BY <2>1, <2>2, <2>4, CountedFewer, GateCounted, Bounds
    <2>5. ASSUME NEW o \in Ops, Fits(o, Unexpired(age[o])),
                 DOMAIN lease' = Unexpired(age[o]) \union {o}
          PROVE  /\ Cardinality(DOMAIN lease') <= GlobalLimit
                 /\ \A q \in Ops :
                      Cardinality(OnConnection(DOMAIN lease', q)) <= ConnectionLimit
      <3>1. Unexpired(age[o]) \subseteq DOMAIN lease
        BY DEF Unexpired
      <3>2. \A q \in Ops : Cardinality(OnConnection(Unexpired(age[o]), q)) <= ConnectionLimit
        <4>1. /\ Unexpired(age[o]) \in SUBSET (DOMAIN lease)
              /\ Unexpired(age[o]) \in SUBSET Ops
          BY <2>1, <3>1
        <4>2. \A q \in Ops : Cardinality(OnConnection(Unexpired(age[o]), q))
                              <= Cardinality(OnConnection(DOMAIN lease, q))
          BY <2>1, <4>1, CountedFewer
        <4>3. \A q \in Ops : /\ Cardinality(OnConnection(Unexpired(age[o]), q)) \in Nat
                             /\ Cardinality(OnConnection(DOMAIN lease, q)) \in Nat
          BY <2>1, <4>1, GateCounted
        <4> QED
          BY <2>2, <4>2, <4>3, Bounds
      <3> QED
        BY <2>1, <2>5, <3>1, <3>2, CountedOneMore
    <2> QED
      BY <2>4, <2>5, RowsAfter
  <1> QED
    BY <1>1, <1>2, TypeCorrect, PTL DEF Spec

-----------------------------------------------------------------------------
(* The queue *)

\* The wait so far, by position: a nap never reaches beyond the queue time, and a
\* call adds its own age to what was waited before it.
WaitSound ==
  \A o \in Ops :
    /\ pc[o] = "idle" => waited[o] = 0
    /\ pc[o] \in {"asking", "granted", "denied"} => waited[o] <= QueueTicks + age[o]
    /\ pc[o] = "sleeping" => waited[o] + nap[o] <= QueueTicks

LEMMA NextWaitSound == TypeOK /\ WaitSound /\ [Next]_vars => WaitSound'
  <1> SUFFICES ASSUME TypeOK, WaitSound, [Next]_vars PROVE WaitSound'
    OBVIOUS
  <1>t. TimerTypes /\ pc \in [Ops -> Positions]
    BY DEF TypeOK, TimerTypes
  <1>1. ASSUME NEW o \in Ops,
               \/ Enter(o) \/ Acquire(o) \/ Admit(o) \/ Poll(o)
               \/ Beat(o) \/ Finish(o) \/ Release(o)
        PROVE  WaitSound'
    BY <1>t, <1>1, Bounds
       DEF Enter, Acquire, Admit, Poll, Beat, Finish, Release, Goto, timers,
           TimerTypes, WaitSound
  <1>2. ASSUME NEW o \in Ops, NEW from, Leave(o, from) PROVE WaitSound'
    BY <1>t, <1>2 DEF Leave, Goto, TimerTypes, WaitSound
  <1>3. ASSUME NEW o \in Ops, Deny(o) PROVE WaitSound'
    BY <1>t, <1>2, <1>3, Bounds DEF Deny, Goto, TimerTypes, WaitSound
  <1>4. ASSUME NEW o \in Ops, Landing(o) \/ Abandon(o) PROVE WaitSound'
    BY <1>4 DEF Landing, BeatLands, BeatError, Abandon, timers, WaitSound
  <1>5. ASSUME NEW p \in {Process[o] : o \in Ops}, Crash(p) PROVE WaitSound'
    BY <1>t, <1>5 DEF Crash, TimerTypes, WaitSound
  <1>6. ASSUME Tick PROVE WaitSound'
    BY <1>t, <1>6, Bounds
       DEF Tick, InFlight, Queueing, Sooner, Later, TimerTypes, WaitSound
  <1>7. CASE UNCHANGED vars
    BY <1>7 DEF vars, WaitSound
  <1> QED
    BY <1>1, <1>2, <1>3, <1>4, <1>5, <1>6, <1>7 DEF Next, Step, AskError, Desert

\* Nobody queues longer than the queue time and one call of the metadata store.
THEOREM QueueingBounded == Spec => []QueueBounded
  <1>1. Init => WaitSound
    BY Bounds DEF Init, WaitSound
  <1>2. TypeOK /\ WaitSound => QueueBounded
    BY Bounds DEF TypeOK, WaitSound, QueueBounded, Queueing
  <1> QED
    BY <1>1, <1>2, NextWaitSound, TypeCorrect, PTL DEF Spec

-----------------------------------------------------------------------------
(* Leases and operations: a metadata store that answers *)

\* Who has no row.
Rowless ==
  \A o \in Ops :
    pc[o] \in {"idle", "asking", "denied", "sleeping", "done"} => o \notin DOMAIN lease

LEMMA NextRowless == ~TransientErrors /\ TypeOK /\ Rowless /\ [Next]_vars => Rowless'
  <1> SUFFICES ASSUME ~TransientErrors, TypeOK, Rowless, [Next]_vars PROVE Rowless'
    OBVIOUS
  <1>t. pc \in [Ops -> Positions] /\ DOMAIN lease \subseteq Ops
    BY DEF TypeOK
  <1>1. ASSUME NEW o \in Ops, Acquire(o) PROVE Rowless'
    <2>1. CASE pc' = [pc EXCEPT ![o] = "granted"] /\ DOMAIN lease' = Unexpired(age[o]) \union {o}
      BY <1>t, <2>1 DEF Rowless, Unexpired
    <2>2. CASE pc' = [pc EXCEPT ![o] = "denied"] /\ DOMAIN lease' = Unexpired(age[o])
               /\ pc[o] = "asking"
      BY <1>t, <2>2 DEF Rowless, Unexpired
    <2> QED
      BY <1>1, <2>1, <2>2 DEF Acquire, Goto, Keep
  <1>2. ASSUME NEW o \in Ops,
               \/ Enter(o) \/ Admit(o) \/ Deny(o) \/ Poll(o) \/ Desert(o)
               \/ Beat(o) \/ Finish(o) \/ Abandon(o)
        PROVE  Rowless'
    BY <1>t, <1>2
       DEF Enter, Admit, Deny, Poll, Desert, Leave, Beat, Finish, Abandon, Goto, Rowless
  <1>3. ASSUME NEW o \in Ops, Release(o) PROVE Rowless'
    <2>1. DOMAIN lease' = DOMAIN lease \ {o} /\ pc' = [pc EXCEPT ![o] = "done"]
      BY <1>3 DEF Release, Goto, Keep
    <2> QED
      BY <1>t, <2>1 DEF Rowless
  <1>4. ASSUME NEW o \in Ops, Landing(o) PROVE Rowless'
    <2>1. DOMAIN lease' \subseteq DOMAIN lease /\ pc' = pc
      BY <1>4 DEF Landing, BeatLands, BeatError, Keep
    <2> QED
      BY <2>1 DEF Rowless
  <1>5. ASSUME NEW p \in {Process[o] : o \in Ops}, Crash(p) PROVE Rowless'
    BY <1>t, <1>5 DEF Crash, Rowless
  <1>6. ASSUME Tick PROVE Rowless'
    BY <1>6 DEF Tick, caller, Rowless
  <1>7. CASE UNCHANGED vars
    BY <1>7 DEF vars, Rowless
  <1> QED
    BY <1>1, <1>2, <1>3, <1>4, <1>5, <1>6, <1>7 DEF Next, Step, AskError

\* With a metadata store that answers, an operation that is over leaves no lease
\* behind, whatever heartbeats of it are still under way.
THEOREM NoLeak == ASSUME ~TransientErrors PROVE Spec => []NothingLeaked
  <1>1. Init => Rowless
    BY DEF Init, Rowless
  <1>2. TypeOK /\ Rowless /\ [Next]_vars => Rowless'
    BY NextRowless
  <1>3. Rowless => NothingLeaked
    BY DEF Rowless, NothingLeaked
  <1> QED
    BY <1>1, <1>2, <1>3, TypeCorrect, PTL DEF Spec

-----------------------------------------------------------------------------
(* Leases and operations: timers in time and quick enough calls *)

\* The conditions under which a lease outlives its operation: 60 s against 20 s
\* and two calls, in the code's own numbers.
Timely ==
  /\ Punctual
  /\ ~TransientErrors
  /\ LeaseTicks > BeatTicks + 2 * MaxLag

\* What is left of the row of o: enough for n more ticks and a call, or a heartbeat
\* is under way that read the clock when there was.
Refreshed(o, n) ==
  \/ lease[o] >= LeaseTicks - MaxLag - n
  \/ \E a \in beats[o] : lease[o] >= LeaseTicks - MaxLag - BeatTicks - a

\* The operations that count on their row have it.
Held(o) ==
  /\ pc[o] \in Queueing \union {"idle"} => beats[o] = {}
  /\ pc[o] = "granted" => o \in DOMAIN lease /\ lease[o] >= LeaseTicks - age[o]
  /\ pc[o] = "running" => o \in DOMAIN lease /\ Refreshed(o, since[o])
  /\ pc[o] = "releasing" => o \in DOMAIN lease /\ Refreshed(o, BeatTicks + age[o])

\* No operation was told that its lease is lost.
Heard(o) ==
  /\ signal[o] # "lost"
  /\ outcome[o] # "misreported"

Safe == \A o \in Ops : Held(o) /\ Heard(o)

LEMMA InitSafe == Init => Safe
  BY DEF Init, Safe, Held, Heard, Queueing

\* A row that is counted on is never expired, by any clock reading a call can have.
LEMMA NotExpired ==
  ASSUME Timely, TypeOK, NEW o \in Ops, Held(o), pc[o] \in {"granted", "running", "releasing"}
  PROVE  /\ o \in DOMAIN lease
         /\ lease[o] > 0
         /\ \A a \in 0..MaxLag : o \in Unexpired(a)
  <1>1. /\ lease[o] \in Int
        /\ age[o] \in 0..MaxLag
        /\ since[o] \in 0..BeatTicks
        /\ beats[o] \subseteq 0..MaxLag
        /\ o \in DOMAIN lease
    BY Bounds DEF TypeOK, Held
  <1>2. lease[o] > 0
    BY <1>1, Bounds DEF Held, Refreshed, Timely
  <1> QED
    BY <1>1, <1>2, Bounds DEF Unexpired

LEMMA NextSafe == Timely /\ TypeOK /\ Safe /\ [Next]_vars => Safe'
  <1> SUFFICES ASSUME Timely, TypeOK, Safe, [Next]_vars PROVE Safe'
    OBVIOUS
  <1>t. /\ TimerTypes
        /\ BeatTypes
        /\ CallerTypes
        /\ LeaseTypes
    BY TypeParts
  \* An operation keeps what it has if its position, its row and its timers stay.
  <1>f. ASSUME NEW r \in Ops, pc'[r] = pc[r], age'[r] = age[r], since'[r] = since[r],
               r \in DOMAIN lease /\ pc[r] \in {"granted", "running", "releasing"}
                 => r \in DOMAIN lease' /\ lease'[r] = lease[r],
               beats'[r] = beats[r]
        PROVE  Held(r)'
    BY <1>f DEF Safe, Held, Refreshed, Queueing
  <1>g. ASSUME NEW r \in Ops, pc'[r] = pc[r], signal'[r] # "lost" \/ signal'[r] = signal[r],
               outcome'[r] = outcome[r]
        PROVE  Heard(r)'
    BY <1>g DEF Safe, Heard
  <1>1. ASSUME NEW o \in Ops, Acquire(o) PROVE Safe'
    <2> SUFFICES ASSUME NEW r \in Ops PROVE Held(r)' /\ Heard(r)'
      BY DEF Safe
    <2>1. /\ age' = age /\ since' = since /\ beats' = beats
          /\ signal' = signal /\ outcome' = outcome
      BY <1>1 DEF Acquire, timers, caller
    <2>2. age[o] \in 0..MaxLag
      BY <1>t DEF TimerTypes
    <2>3. CASE r = o
      <3>1. \/ pc'[o] = "granted" /\ o \in DOMAIN lease' /\ lease'[o] = LeaseTicks - age[o]
            \/ pc'[o] = "denied"
        BY <1>1, <1>t DEF Acquire, Goto, CallerTypes
      <3>2. LeaseTicks - age[o] \in Int /\ age'[o] = age[o]
        BY <2>1, <2>2, Bounds
      <3>3. beats[o] = {}
        BY <1>1 DEF Acquire, Goto, Safe, Held, Queueing
      <3>4. Held(o)'
        BY <2>1, <3>1, <3>2, <3>3 DEF Held, Queueing
      <3>5. Heard(o)'
        BY <2>1, <3>1 DEF Heard, Safe
      <3> QED
        BY <2>3, <3>4, <3>5
    <2>4. CASE r # o
      <3>1. pc'[r] = pc[r]
        BY <1>1, <1>t, <2>4 DEF Acquire, Goto, CallerTypes
      <3>2. pc[r] \in {"granted", "running", "releasing"} => r \in Unexpired(age[o])
        BY <2>2, NotExpired DEF Safe
      <3>3. r \in Unexpired(age[o]) => r \in DOMAIN lease' /\ lease'[r] = lease[r]
        BY <1>1, <2>4 DEF Acquire, Keep
      <3> QED
        BY <1>f, <1>g, <2>1, <3>1, <3>2, <3>3
    <2> QED
      BY <2>3, <2>4
  <1>2. ASSUME NEW o \in Ops, NEW from, Leave(o, from) PROVE Safe'
    BY <1>2, <1>t DEF Leave, Goto, Safe, Held, Heard, Refreshed, Queueing, CallerTypes
  <1>3. ASSUME NEW o \in Ops, Enter(o) \/ Deny(o) \/ Poll(o) \/ Abandon(o) PROVE Safe'
    BY <1>2, <1>3, <1>t
       DEF Enter, Deny, Poll, Abandon, Goto, timers, caller, Safe, Held, Heard, Refreshed, Queueing,
           TimerTypes, CallerTypes
  <1>4. ASSUME NEW o \in Ops, Admit(o) PROVE Safe'
    <2> SUFFICES ASSUME NEW r \in Ops PROVE Held(r)' /\ Heard(r)'
      BY DEF Safe
    <2>1. /\ lease' = lease /\ since' = since /\ beats' = beats
          /\ signal' = signal /\ outcome' = outcome
          /\ age' = [age EXCEPT ![o] = 0]
          /\ pc' = [pc EXCEPT ![o] = "running"]
          /\ pc[o] = "granted"
      BY <1>4 DEF Admit, Goto, caller
    <2>2. CASE r # o
      BY <1>f, <1>g, <1>t, <2>1, <2>2 DEF TimerTypes, CallerTypes
    <2>3. CASE r = o
      <3>1. /\ lease[o] \in Int /\ o \in DOMAIN lease
            /\ lease[o] >= LeaseTicks - age[o]
            /\ age[o] \in 0..MaxLag /\ since[o] \in 0..BeatTicks
            /\ outcome[o] # "misreported"
        BY <1>t, <2>1, Bounds DEF TimerTypes, LeaseTypes, Safe, Held, Heard
      <3>2. lease[o] >= LeaseTicks - MaxLag - since[o]
        BY <3>1, Bounds
      <3>3. pc'[o] = "running"
        BY <1>t, <2>1 DEF CallerTypes
      <3> QED
        BY <2>1, <2>3, <3>1, <3>2, <3>3 DEF Safe, Held, Heard, Refreshed, Queueing
    <2> QED
      BY <2>2, <2>3
  <1>5. ASSUME NEW o \in Ops, Beat(o) PROVE Safe'
    <2> SUFFICES ASSUME NEW r \in Ops PROVE Held(r)' /\ Heard(r)'
      BY DEF Safe
    <2>1. /\ lease' = lease /\ pc' = pc /\ age' = age
          /\ signal' = signal /\ outcome' = outcome
          /\ since' = [since EXCEPT ![o] = 0]
          /\ beats' = [beats EXCEPT ![o] = @ \union {0}]
          /\ pc[o] = "running" /\ since[o] = BeatTicks
      BY <1>5 DEF Beat, timers, caller
    <2>2. CASE r # o
      BY <1>f, <1>g, <1>t, <2>1, <2>2 DEF TimerTypes, BeatTypes
    <2>3. CASE r = o
      <3>1. o \in DOMAIN lease /\ Refreshed(o, BeatTicks)
        BY <2>1 DEF Safe, Held, Queueing
      <3>2. 0 \in beats'[o] /\ beats[o] \subseteq beats'[o]
        BY <1>t, <2>1 DEF BeatTypes
      <3>3. since'[o] = 0 /\ lease[o] \in Int
        BY <1>t, <2>1, <3>1, Bounds DEF TimerTypes, LeaseTypes
      <3>4. \E a \in beats'[o] : lease[o] >= LeaseTicks - MaxLag - BeatTicks - a
        BY <3>1, <3>2, <3>3, Bounds DEF Refreshed
      <3>5. Held(o)'
        BY <2>1, <3>1, <3>4 DEF Held, Refreshed, Queueing
      <3> QED
        BY <2>1, <2>3, <3>5 DEF Safe, Heard
    <2> QED
      BY <2>2, <2>3
  <1>6. ASSUME NEW o \in Ops, Landing(o) PROVE Safe'
    <2> SUFFICES ASSUME NEW r \in Ops PROVE Held(r)' /\ Heard(r)'
      BY DEF Safe
    <2>0. PICK a \in beats[o] : BeatLands(o, a)
      BY <1>6 DEF Landing, BeatError, Timely
    <2>1. /\ pc' = pc /\ age' = age /\ since' = since /\ outcome' = outcome
          /\ beats' = [beats EXCEPT ![o] = @ \ {a}]
          /\ a \in 0..MaxLag
      BY <1>t, <2>0 DEF BeatLands, timers, BeatTypes
    <2>2. \/ /\ o \in DOMAIN lease
             /\ lease' = [lease EXCEPT ![o] = LeaseTicks - a]
             /\ signal' = signal
          \/ /\ o \notin Unexpired(a)
             /\ lease' = [q \in DOMAIN lease \ {o} |-> lease[q]]
             /\ signal' = Aborted(o)
      BY <2>0 DEF BeatLands, Timely, Unexpired, Keep
    <2>3. CASE r # o
      <3>1. signal'[r] = signal[r]
        BY <1>t, <2>2, <2>3 DEF Aborted, CallerTypes
      <3>2. r \in DOMAIN lease => r \in DOMAIN lease' /\ lease'[r] = lease[r]
        BY <2>2, <2>3
      <3>3. beats'[r] = beats[r]
        BY <1>t, <2>1, <2>3 DEF BeatTypes
      <3> QED
        BY <1>f, <1>g, <2>1, <3>1, <3>2, <3>3
    <2>4. CASE r = o /\ pc[o] \in {"granted", "running", "releasing"}
      <3>0. pc[o] # "granted"
        BY <2>0 DEF Safe, Held, Queueing
      <3>1. /\ o \in DOMAIN lease'
            /\ lease'[o] = LeaseTicks - a
            /\ signal' = signal
        BY <2>1, <2>2, <2>4, NotExpired DEF Safe
      <3>2. age[o] \in 0..MaxLag /\ since[o] \in 0..BeatTicks
        BY <1>t DEF TimerTypes
      <3> QED
        <4>1. /\ lease'[o] >= LeaseTicks - MaxLag - since[o]
              /\ lease'[o] >= LeaseTicks - MaxLag - (BeatTicks + age[o])
          BY <2>1, <3>1, <3>2, Bounds
        <4>2. Held(o)'
          BY <2>1, <2>4, <3>0, <3>1, <4>1 DEF Held, Refreshed, Queueing
        <4> QED
          BY <2>1, <2>4, <3>1, <4>2 DEF Safe, Heard
    <2>5. CASE r = o /\ pc[o] \notin {"granted", "running", "releasing"}
      BY <2>0, <2>1, <2>2, <2>5 DEF Aborted, Safe, Held, Heard
    <2> QED
      BY <2>3, <2>4, <2>5
  <1>7. ASSUME NEW o \in Ops, Finish(o) PROVE Safe'
    <2> SUFFICES ASSUME NEW r \in Ops PROVE Held(r)' /\ Heard(r)'
      BY DEF Safe
    <2>1. /\ lease' = lease /\ age' = age /\ beats' = beats
          /\ since' = [since EXCEPT ![o] = 0]
          /\ signal' = [signal EXCEPT ![o] = "clear"]
          /\ pc' = [pc EXCEPT ![o] = "releasing"]
          /\ pc[o] = "running"
      BY <1>7 DEF Finish, Goto
    <2>2. /\ outcome'[o] # "misreported"
          /\ \A q \in Ops : q # o => outcome'[q] = outcome[q]
      BY <1>7, <1>t, <2>1 DEF Finish, Safe, Heard, CallerTypes
    <2>3. CASE r # o
      BY <1>f, <1>g, <1>t, <2>1, <2>2, <2>3 DEF TimerTypes, CallerTypes
    <2>4. CASE r = o
      <3>1. /\ age[o] \in 0..MaxLag /\ since[o] \in 0..BeatTicks
            /\ o \in DOMAIN lease /\ lease[o] \in Int
            /\ Refreshed(o, since[o])
        BY <1>t, <2>1, Bounds DEF TimerTypes, LeaseTypes, Safe, Held
      <3>2. Refreshed(o, BeatTicks + age[o])
        BY <3>1, Bounds DEF Refreshed
      <3>3. Refreshed(o, BeatTicks + age[o])'
        BY <2>1, <3>2 DEF Refreshed
      <3> QED
        BY <1>t, <2>1, <2>2, <2>4, <3>1, <3>3 DEF Held, Heard, Queueing, CallerTypes
    <2> QED
      BY <2>3, <2>4
  <1>8. ASSUME NEW o \in Ops, Release(o) PROVE Safe'
    <2> SUFFICES ASSUME NEW r \in Ops PROVE Held(r)' /\ Heard(r)'
      BY DEF Safe
    <2>1. /\ pc[o] = "releasing"
          /\ pc' = [pc EXCEPT ![o] = "done"]
          /\ lease' = [q \in DOMAIN lease \ {o} |-> lease[q]]
          /\ age' = [age EXCEPT ![o] = 0]
          /\ since' = since /\ beats' = beats /\ signal' = signal
          /\ outcome' = IF outcome[o] # "result" \/ o \in Sessions \/ o \in DOMAIN lease
                        THEN outcome ELSE [outcome EXCEPT ![o] = "misreported"]
      BY <1>8 DEF Release, Goto, Keep, Timely
    <2>2. outcome' = outcome
      BY <2>1, NotExpired DEF Safe
    <2>3. CASE r # o
      BY <1>f, <1>g, <1>t, <2>1, <2>2, <2>3 DEF TimerTypes, CallerTypes
    <2>4. CASE r = o
      BY <1>t, <2>1, <2>2, <2>4 DEF Safe, Held, Heard, Queueing, CallerTypes
    <2> QED
      BY <2>3, <2>4
  <1>9. ASSUME NEW p \in {Process[o] : o \in Ops}, Crash(p) PROVE Safe'
    BY <1>9, <1>t DEF Crash, Safe, Held, Heard, Refreshed, Queueing, CallerTypes
  <1>10. ASSUME Tick PROVE Safe'
    <2> SUFFICES ASSUME NEW r \in Ops PROVE Held(r)' /\ Heard(r)'
      BY DEF Safe
    <2>1. /\ pc' = pc /\ signal' = signal /\ outcome' = outcome
          /\ DOMAIN lease' = DOMAIN lease
      BY <1>10 DEF Tick, caller
    <2>2. Heard(r)'
      BY <1>g, <2>1
    <2>3. CASE pc[r] \in {"granted", "running", "releasing"}
      <3>1. /\ r \in DOMAIN lease /\ lease[r] > 0
            /\ lease[r] \in Int
            /\ age[r] \in 0..MaxLag /\ since[r] \in 0..BeatTicks
            /\ beats[r] \subseteq 0..MaxLag
        BY <1>t, <2>3, NotExpired, Bounds DEF Safe, TimerTypes, BeatTypes, LeaseTypes
      <3>2. lease'[r] = lease[r] - 1
        BY <1>10, <3>1, Bounds DEF Tick
      <3>3. /\ pc[r] \in {"granted", "releasing"} => age'[r] = age[r] + 1
            /\ pc[r] = "running" => since'[r] = since[r] + 1
        BY <1>10, <1>t, <3>1, Bounds DEF Tick, InFlight, Later, Timely, TimerTypes
      <3>4. \A a \in beats[r] : a + 1 \in beats'[r]
        BY <1>10 DEF Tick
      <3>5. ASSUME NEW n \in Nat, Refreshed(r, n)
            PROVE  \/ lease'[r] >= LeaseTicks - MaxLag - (n + 1)
                   \/ \E a \in beats'[r] : lease'[r] >= LeaseTicks - MaxLag - BeatTicks - a
        <4>1. CASE lease[r] >= LeaseTicks - MaxLag - n
          BY <3>1, <3>2, <4>1, Bounds
        <4>2. ASSUME NEW a \in beats[r], lease[r] >= LeaseTicks - MaxLag - BeatTicks - a
              PROVE  /\ a + 1 \in beats'[r]
                     /\ lease'[r] >= LeaseTicks - MaxLag - BeatTicks - (a + 1)
          BY <3>1, <3>2, <3>4, <4>2, Bounds
        <4> QED
          BY <3>5, <4>1, <4>2 DEF Refreshed
      <3>6. CASE pc[r] = "granted"
        <4>1. lease[r] >= LeaseTicks - age[r] /\ beats[r] = {}
          BY <3>6 DEF Safe, Held, Queueing
        <4>2. lease'[r] >= LeaseTicks - age'[r]
          BY <3>1, <3>2, <3>3, <3>6, <4>1, Bounds
        <4>3. beats'[r] = {}
          BY <1>10, <4>1 DEF Tick
        <4> QED
          BY <2>1, <2>2, <3>1, <3>6, <4>2, <4>3 DEF Held
      <3>7. CASE pc[r] = "running"
        <4>1. Refreshed(r, since[r]) /\ since[r] \in Nat
          BY <3>1, <3>7 DEF Safe, Held
        <4>2. since'[r] = since[r] + 1
          BY <3>3, <3>7
        <4>3. Refreshed(r, since[r])'
          BY <3>5, <4>1, <4>2 DEF Refreshed
        <4> QED
          BY <2>1, <2>2, <3>1, <3>7, <4>3 DEF Held, Queueing
      <3>8. CASE pc[r] = "releasing"
        <4>1. Refreshed(r, BeatTicks + age[r]) /\ BeatTicks + age[r] \in Nat
          BY <3>1, <3>8, Bounds DEF Safe, Held, Queueing
        <4>2. BeatTicks + age'[r] = (BeatTicks + age[r]) + 1
          BY <3>1, <3>3, <3>8, Bounds
        <4>3. Refreshed(r, BeatTicks + age[r])'
          BY <3>5, <4>1, <4>2 DEF Refreshed
        <4> QED
          BY <2>1, <2>2, <3>1, <3>8, <4>3 DEF Held, Queueing
      <3> QED
        BY <2>2, <2>3, <3>6, <3>7, <3>8
    <2>4. CASE pc[r] \notin {"granted", "running", "releasing"}
      <3>1. beats[r] = {} => beats'[r] = {}
        BY <1>10 DEF Tick
      <3> QED
        BY <2>1, <2>2, <2>4, <3>1 DEF Safe, Held
    <2> QED
      BY <2>3, <2>4
  <1>11. CASE UNCHANGED vars
    BY <1>11 DEF vars, Safe, Held, Heard, Refreshed, Queueing
  <1> QED
    BY <1>1, <1>2, <1>3, <1>4, <1>5, <1>6, <1>7, <1>8, <1>9, <1>10, <1>11
       DEF Next, Step, AskError, Desert, Timely
\* While timers fire in time and calls are quick enough for the lease, the operations
\* that are in the databases have a lease each, so they stay within its limits.
THEOREM RunningBounded == ASSUME Timely PROVE Spec => []RunningWithinLimits
  <1>1. TypeOK /\ Safe /\ [Next]_vars => Safe'
    BY NextSafe
  <1>2. TypeOK /\ Safe /\ LeasesWithinLimits => RunningWithinLimits
    <2> SUFFICES ASSUME TypeOK, Safe, LeasesWithinLimits PROVE RunningWithinLimits
      OBVIOUS
    <2>1. Running \in SUBSET (DOMAIN lease) /\ DOMAIN lease \in SUBSET Ops
      BY NotExpired DEF TypeOK, Safe, Running
    <2>2. /\ Cardinality(DOMAIN lease) <= GlobalLimit
          /\ \A q \in Ops : Cardinality(OnConnection(DOMAIN lease, q)) <= ConnectionLimit
      BY DEF LeasesWithinLimits, OnConnection
    <2>3. /\ Cardinality(Running) <= Cardinality(DOMAIN lease)
          /\ \A q \in Ops : Cardinality(OnConnection(Running, q))
                              <= Cardinality(OnConnection(DOMAIN lease, q))
      BY <2>1, CountedFewer
    <2>4. \A S \in SUBSET Ops : /\ Cardinality(S) \in Nat
                                /\ \A q \in Ops : Cardinality(OnConnection(S, q)) \in Nat
      BY GateCounted
    <2>5. Running \in SUBSET Ops
      BY DEF Running
    <2>6. /\ Cardinality(Running) <= GlobalLimit
          /\ \A q \in Ops : Cardinality(OnConnection(Running, q)) <= ConnectionLimit
      BY <2>1, <2>2, <2>3, <2>4, <2>5, Bounds
    <2> QED
      BY <2>6 DEF RunningWithinLimits, OnConnection
  <1> QED
    BY <1>1, <1>2, InitSafe, TypeCorrect, LeasesBounded, PTL DEF Spec

\* Under the same conditions nobody who still waits is told that an operation failed
\* that took effect.
THEOREM OperationReported == ASSUME Timely PROVE Spec => []EffectReported
  <1>1. TypeOK /\ Safe /\ [Next]_vars => Safe'
    BY NextSafe
  <1>2. Safe => EffectReported
    BY DEF Safe, Heard, EffectReported
  <1> QED
    BY <1>1, <1>2, InitSafe, TypeCorrect, PTL DEF Spec
=============================================================================
