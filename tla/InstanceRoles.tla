--------------------------- MODULE InstanceRoles ---------------------------
(***************************************************************************)
(* Active and standby API processes: the InstanceRoleCoordinator of each   *)
(* process and the rows of ha_instance_leases.  A process heartbeats, the  *)
(* answer is its role, and its transfer worker is started and stopped with *)
(* the role.  A heartbeat carries the clock reading of its start, which is *)
(* `reading` ticks old when the statement takes effect (it waits for       *)
(* ha_instance_lock).  Expiry is relative: a row has `left` ticks.  All    *)
(* processes share one clock, and a timer that is due fires at its tick.   *)
(***************************************************************************)
EXTENDS Integers, FiniteSets

CONSTANTS
  Processes,    \* instance ids
  ActiveLimit,  \* activeLimit
  RoleTicks,    \* leaseDurationMs
  RoleBeat,     \* heartbeatIntervalMs
  RoleLag,      \* the longest a metadata call takes
  MaxOutages,   \* bound: metadata calls that throw, with or without effect
  MaxEnds       \* bound: processes that die or are stopped

ASSUME RolesAssumption ==
  /\ IsFiniteSet(Processes)
  /\ ActiveLimit \in Nat \ {0} /\ RoleLag \in Nat
  /\ RoleTicks \in Nat /\ RoleBeat \in 1..(RoleTicks - 1)
  /\ MaxOutages \in Nat /\ MaxEnds \in Nat

VARIABLES
  roleRow,    \* the rows, or NoLease
  place,      \* where each coordinator is
  believed,   \* role; while it is active the transfer worker runs
  reading,    \* ticks since the metadata call under way began
  untilBeat,  \* ticks until the interval timer fires, or -1 when it is not set
  revived,    \* (ghost) processes that kept a place after its row had expired
  waited,     \* (ghost) ticks for which each standby process has waited for a free place
  outages, ends

roleVars ==
  <<roleRow, place, believed, reading, untilBeat, revived, waited, outages, ends>>

NoLease == [role |-> "none", left |-> -RoleLag]
Places ==
  {"off", "booting", "idle", "asking",   \* start, tick
   "demoting",                           \* changeRole waits for the worker
   "releasing", "retiring"}              \* stop

\* Until the lease has run out, the next timer has fired and its call has returned.  A
\* call that outlasts the interval holds up the timer's next one.
LongestWait == RoleTicks + RoleBeat + RoleLag + (IF RoleLag < RoleBeat THEN 0 ELSE RoleLag)

\* Every variable keeps its type.
RolesTypeOK ==
  /\ roleRow \in [Processes -> [role : {"active", "standby", "none"}, left : -RoleLag..RoleTicks]]
  /\ place \in [Processes -> Places]
  /\ believed \in [Processes -> {"active", "standby"}]
  /\ reading \in [Processes -> 0..RoleLag]
  /\ untilBeat \in [Processes -> -1..RoleBeat]
  /\ revived \subseteq Processes
  /\ waited \in [Processes -> 0..(LongestWait + 1)]
  /\ outages \in 0..MaxOutages /\ ends \in 0..MaxEnds

NoWait == [p \in Processes |-> 0]

RolesInit ==
  /\ roleRow = [p \in Processes |-> NoLease]
  /\ place = [p \in Processes |-> "off"]
  /\ believed = [p \in Processes |-> "standby"]
  /\ reading = [p \in Processes |-> 0]
  /\ untilBeat = [p \in Processes |-> -1]
  /\ revived = {}
  /\ waited = NoWait
  /\ outages = 0 /\ ends = 0

Calling == {"booting", "asking", "releasing"}

\* Where a tick ends: stop waits for it.
Settled(p) == IF untilBeat[p] = -1 /\ place[p] # "booting" THEN "releasing" ELSE "idle"

Outage == outages < MaxOutages /\ outages' = outages + 1
Ending == ends < MaxEnds /\ ends' = ends + 1
-----------------------------------------------------------------------------
(* start and tick *)

\* A process starts, or starts again under the same instance id.
Boot(p) ==
  /\ place[p] = "off"
  /\ place' = [place EXCEPT ![p] = "booting"]
  /\ UNCHANGED <<roleRow, believed, reading, untilBeat, revived, waited, outages, ends>>

\* trigger: a tick that is still under way is not joined by another.
Fire(p) ==
  /\ untilBeat[p] = 0
  /\ untilBeat' = [untilBeat EXCEPT ![p] = RoleBeat]
  /\ place' = [place EXCEPT ![p] = IF @ = "idle" THEN "asking" ELSE @]
  /\ UNCHANGED <<roleRow, believed, reading, revived, waited, outages, ends>>

\* Is row q unexpired for a statement whose clock reading is age ticks old?
UnexpiredRole(q, age) == roleRow[q].left + age > 0

\* Faulty: a row that once was active stays active.
GrantedAlways(p) ==
  IF \/ roleRow[p].role = "active"
     \/ Cardinality({q \in Processes \ {p} :
          roleRow[q].role = "active" /\ UnexpiredRole(q, reading[p])}) < ActiveLimit
  THEN "active" ELSE "standby"

\* Faulty: expired rows count.
GrantedLate(p) ==
  IF \/ roleRow[p].role = "active" /\ UnexpiredRole(p, reading[p])
     \/ Cardinality({q \in Processes \ {p} : roleRow[q].role = "active"}) < ActiveLimit
  THEN "active" ELSE "standby"

\* remainsActive
Remains(p) == roleRow[p].role = "active" /\ UnexpiredRole(p, reading[p])

\* heartbeat: who is active remains so, the others take what is left of the limit.
Granted(p) ==
  IF \/ Remains(p)
     \/ Cardinality({q \in Processes \ {p} :
          roleRow[q].role = "active" /\ UnexpiredRole(q, reading[p])}) < ActiveLimit
  THEN "active" ELSE "standby"

\* insert ... on conflict update.  A reading from before the row expired keeps the place
\* after it has expired.
Upsert(p) ==
  /\ roleRow' = [roleRow EXCEPT ![p] = [role |-> Granted(p), left |-> RoleTicks - reading[p]]]
  /\ revived' = IF ~Remains(p) THEN revived \ {p}
                ELSE IF UnexpiredRole(p, 0) THEN revived ELSE revived \union {p}

\* The heartbeat is answered.  A worker is started at once; the role of a process
\* that loses its place stays as it is until its worker has stopped.
Heartbeat(p) ==
  /\ place[p] \in {"booting", "asking"}
  /\ Upsert(p)
  /\ reading' = [reading EXCEPT ![p] = 0]
  /\ \/ /\ Granted(p) = "active" \/ believed[p] = "standby"
        /\ believed' = [believed EXCEPT ![p] = Granted(p)]
        /\ place' = [place EXCEPT ![p] = Settled(p)]
     \/ /\ Granted(p) = "standby" /\ believed[p] = "active"
        /\ place' = [place EXCEPT ![p] = "demoting"]
        /\ UNCHANGED believed
  /\ untilBeat' = IF place[p] = "booting" THEN [untilBeat EXCEPT ![p] = RoleBeat] ELSE untilBeat
  /\ waited' = IF Granted(p) = "active" /\ believed[p] = "standby" THEN NoWait ELSE waited
  /\ UNCHANGED <<outages, ends>>

\* The heartbeat throws.  The timer tries again; start gives up.
HeartbeatError(p) ==
  /\ place[p] \in {"booting", "asking"}
  /\ Outage
  /\ Upsert(p) \/ UNCHANGED <<roleRow, revived>>
  /\ reading' = [reading EXCEPT ![p] = 0]
  /\ place' = [place EXCEPT ![p] = IF @ = "booting" THEN "releasing" ELSE Settled(p)]
  /\ waited' = NoWait
  /\ UNCHANGED <<believed, untilBeat, ends>>

\* The job in flight is over.
WorkerStops(p) ==
  /\ place[p] = "demoting"
  /\ believed' = [believed EXCEPT ![p] = "standby"]
  /\ place' = [place EXCEPT ![p] = Settled(p)]
  /\ UNCHANGED <<roleRow, reading, untilBeat, revived, waited, outages, ends>>
-----------------------------------------------------------------------------
(* stop, and the end of a process *)

\* The timer is cleared; a tick under way is awaited.
StopRequested(p) ==
  /\ untilBeat[p] # -1
  /\ Ending
  /\ untilBeat' = [untilBeat EXCEPT ![p] = -1]
  /\ place' = [place EXCEPT ![p] = IF @ = "idle" THEN "releasing" ELSE @]
  /\ waited' = [waited EXCEPT ![p] = 0]
  /\ UNCHANGED <<roleRow, believed, reading, revived, outages>>

\* The row goes first, then the worker is stopped.
ReleaseRole(p) ==
  /\ place[p] = "releasing"
  /\ roleRow' = [roleRow EXCEPT ![p] = NoLease]
  /\ place' = [place EXCEPT ![p] = IF believed[p] = "active" THEN "retiring" ELSE "off"]
  /\ reading' = [reading EXCEPT ![p] = 0]
  /\ revived' = revived \ {p}
  /\ UNCHANGED <<believed, untilBeat, waited, outages, ends>>

Retire(p) ==
  /\ place[p] = "retiring"
  /\ place' = [place EXCEPT ![p] = "off"]
  /\ believed' = [believed EXCEPT ![p] = "standby"]
  /\ UNCHANGED <<roleRow, reading, untilBeat, revived, waited, outages, ends>>

Gone(p) ==
  /\ place' = [place EXCEPT ![p] = "off"]
  /\ believed' = [believed EXCEPT ![p] = "standby"]
  /\ reading' = [reading EXCEPT ![p] = 0]
  /\ untilBeat' = [untilBeat EXCEPT ![p] = -1]

\* release throws: the process exits.
ReleaseRoleError(p) ==
  /\ place[p] = "releasing"
  /\ Outage
  /\ roleRow' = [roleRow EXCEPT ![p] = NoLease] \/ UNCHANGED roleRow
  /\ Gone(p)
  /\ UNCHANGED <<revived, waited, ends>>

\* The process dies at any point; its row stays until it expires.
Die(p) ==
  /\ place[p] # "off"
  /\ Ending
  /\ Gone(p)
  /\ waited' = [waited EXCEPT ![p] = 0]
  /\ UNCHANGED <<roleRow, revived, outages>>
-----------------------------------------------------------------------------
\* The processes that do what an active one does and keep its row.
ActiveNow == {p \in Processes : believed[p] = "active" /\ place[p] # "retiring"}

\* A place is free and p is there to take it.
Waits(p) ==
  /\ Cardinality(ActiveNow) < ActiveLimit
  /\ untilBeat[p] # -1 /\ believed[p] = "standby"

RolesTick ==
  /\ \A p \in Processes : untilBeat[p] # 0 /\ (place[p] \in Calling => reading[p] < RoleLag)
  /\ roleRow' = [p \in Processes |-> [roleRow[p] EXCEPT !.left = IF @ = -RoleLag THEN @ ELSE @ - 1]]
  /\ reading' = [p \in Processes |-> IF place[p] \in Calling THEN reading[p] + 1 ELSE 0]
  /\ untilBeat' = [p \in Processes |-> IF untilBeat[p] = -1 THEN -1 ELSE untilBeat[p] - 1]
  /\ waited' = [p \in Processes |->
       IF ~Waits(p) THEN 0 ELSE IF waited[p] > LongestWait THEN waited[p] ELSE waited[p] + 1]
  /\ UNCHANGED <<place, believed, revived, outages, ends>>

RolesNext ==
  \/ \E p \in Processes :
       \/ Boot(p) \/ Fire(p) \/ Heartbeat(p) \/ HeartbeatError(p) \/ WorkerStops(p)
       \/ StopRequested(p) \/ ReleaseRole(p) \/ ReleaseRoleError(p) \/ Retire(p) \/ Die(p)
  \/ RolesTick

RolesSpec == RolesInit /\ [][RolesNext]_roleVars
-----------------------------------------------------------------------------
(* What the roles promise *)

\* Whatever processes start, stop, lose their leases, die and come back under their old
\* id: no more than ActiveLimit are active on a lease that has not run out.  Not counted
\* is one whose heartbeat waited while its row expired and kept the place all the same.
ActiveWithinLimit ==
  Cardinality({p \in ActiveNow \ revived : roleRow[p].role = "active" /\ UnexpiredRole(p, 0)})
    <= ActiveLimit

\* While a place is free, no standby process waits longer than the lease, one heartbeat
\* interval and one call (30 seconds with the defaults) before it or another one is
\* promoted: whoever stops, dies, or comes back and dies again, unless a heartbeat throws
\* meanwhile.
PromotedInTime == \A p \in Processes : waited[p] <= LongestWait
=============================================================================
