----------------------------- MODULE SshTunnels -----------------------------
(***************************************************************************)
(* SshTunnelPool: the callers who open a channel through SSH to a database *)
(* share one transport per endpoint, user and password, with a limited     *)
(* number of channels and a queue.  A transport whose channel cannot be    *)
(* opened is evicted, and the caller tries once more on a new one.  The    *)
(* model is one such key of the pool; keys share nothing but close.        *)
(*                                                                         *)
(* JavaScript runs one callback at a time: what a callback does before it  *)
(* awaits is one step.  The timers have no clock: one that is set may fire *)
(* at any time.                                                            *)
(***************************************************************************)
EXTENDS Integers, FiniteSets, Sequences, SequencesExt

CONSTANTS
  Callers,      \* calls of open in flight at the same time
  Transports,   \* PoolEntry objects; one that nobody refers to is used again
  MaxChannels,  \* maxChannels
  NoTransport

ASSUME TunnelsAssumption ==
  /\ IsFiniteSet(Callers) /\ IsFiniteSet(Transports)
  /\ Cardinality(Transports) > Cardinality(Callers)
  /\ MaxChannels \in Nat \ {0}
  /\ NoTransport \notin Transports

VARIABLES
  caller,    \* each caller: where it is in open, on which transport, which attempt
  transport, \* "connecting", "open" or "closed"
  active,    \* activeChannels
  waiters,   \* the queue
  idle,      \* is the idle timer set?
  closing,   \* close(): not called, under way, returned
  awaited    \* the connects that close() waits for

poolVars == <<transport, active, waiters, idle>>
tunnelVars == <<caller, poolVars, closing, awaited>>

CallerStates == {"out", "asking", "joining", "waiting", "forwarding", "open"}

\* Every variable keeps its type.
TunnelsTypeOK ==
  /\ caller \in [Callers -> [pc : CallerStates, on : Transports \cup {NoTransport},
                           attempt : 0..1]]
  /\ transport \in [Transports -> {"connecting", "open", "closed"}]
  /\ active \in [Transports -> 0..MaxChannels]
  /\ waiters \in [Transports -> Seq(Callers)]
  /\ idle \in [Transports -> BOOLEAN]
  /\ closing \in {"no", "closing", "closed"}
  /\ awaited \subseteq Transports

Out == [pc |-> "out", on |-> NoTransport, attempt |-> 0]

TunnelsInit ==
  /\ caller = [c \in Callers |-> Out]
  /\ transport = [t \in Transports |-> "closed"]
  /\ active = [t \in Transports |-> 0]
  /\ waiters = [t \in Transports |-> <<>>]
  /\ idle = [t \in Transports |-> FALSE]
  /\ closing = "no"
  /\ awaited = {}

On(t, pcs) == {c \in Callers : caller[c].on = t /\ caller[c].pc \in pcs}

\* Nobody refers to the entry any more.
Unreferenced(t) ==
  /\ transport[t] = "closed"
  /\ On(t, CallerStates) = {}

\* The catch block: a first attempt is followed by a second, then open throws.
Again(f, cs) ==
  [c \in Callers |->
     IF c \notin cs THEN f[c]
     ELSE IF f[c].attempt = 0
          THEN [pc |-> "asking", on |-> NoTransport, attempt |-> 1] ELSE Out]

OpenTunnel(c) ==
  /\ caller[c].pc = "out"
  /\ closing = "no"
  /\ caller' = [caller EXCEPT ![c].pc = "asking"]
  /\ UNCHANGED <<poolVars, closing, awaited>>
-----------------------------------------------------------------------------
(* getOrCreateEntry and acquireChannel *)

\* acquireChannel: a slot, or a place in the queue.
Take(c, t) ==
  /\ idle' = [idle EXCEPT ![t] = FALSE]
  /\ IF active[t] < MaxChannels
     THEN /\ active' = [active EXCEPT ![t] = @ + 1]
          /\ caller' = [caller EXCEPT ![c].pc = "forwarding", ![c].on = t]
          /\ UNCHANGED waiters
     ELSE /\ waiters' = [waiters EXCEPT ![t] = Append(@, c)]
          /\ caller' = [caller EXCEPT ![c].pc = "waiting", ![c].on = t]
          /\ UNCHANGED active
  /\ UNCHANGED <<transport, closing, awaited>>

\* An open transport, a connect that is under way, or a new one; either way the
\* caller goes on in a later callback.  A second attempt does not look at closing.
Ask(c) ==
  /\ caller[c].pc = "asking"
  /\ \E t \in Transports :
       /\ \/ transport[t] \in {"open", "connecting"} /\ UNCHANGED transport
          \/ /\ \A u \in Transports : transport[u] = "closed"
             /\ t = CHOOSE u \in Transports : Unreferenced(u)
             /\ transport' = [transport EXCEPT ![t] = "connecting"]
       /\ caller' = [caller EXCEPT ![c].pc = "joining", ![c].on = t]
  /\ UNCHANGED <<active, waiters, idle, closing, awaited>>

\* Faulty: closing is not looked at.
ConnectedAnyway(t) ==
  /\ transport[t] = "connecting"
  /\ transport' = [transport EXCEPT ![t] = "open"]
  /\ awaited' = awaited \ {t}
  /\ UNCHANGED <<caller, active, waiters, idle, closing>>

\* createEntry: the handshake is through; a pool that is closing closes it.
Connected(t) ==
  /\ transport[t] = "connecting"
  /\ IF closing = "no"
     THEN /\ transport' = [transport EXCEPT ![t] = "open"]
          /\ UNCHANGED caller
     ELSE /\ transport' = [transport EXCEPT ![t] = "closed"]
          /\ caller' = Again(caller, On(t, {"joining"}))
  /\ awaited' = awaited \ {t}
  /\ UNCHANGED <<active, waiters, idle, closing>>

\* An error, a foreign host key or the timeout of 30 s.
ConnectFails(t) ==
  /\ transport[t] = "connecting"
  /\ transport' = [transport EXCEPT ![t] = "closed"]
  /\ caller' = Again(caller, On(t, {"joining"}))
  /\ awaited' = awaited \ {t}
  /\ UNCHANGED <<active, waiters, idle, closing>>

\* The caller has a transport, which may have gone meanwhile.
Resume(c) ==
  LET t == caller[c].on IN
  /\ caller[c].pc = "joining"
  /\ \/ transport[t] = "open" /\ Take(c, t)
     \/ /\ transport[t] = "closed"
        /\ caller' = Again(caller, {c})
        /\ UNCHANGED <<poolVars, closing, awaited>>
-----------------------------------------------------------------------------
(* releaseChannel and evict *)

\* What evict leaves of transport t; f are the callers it finds, queue its waiters.
\* Nobody looks at activeChannels any more.
Evict(t, f, queue) ==
  /\ transport' = [transport EXCEPT ![t] = "closed"]
  /\ idle' = [idle EXCEPT ![t] = FALSE]
  /\ waiters' = [waiters EXCEPT ![t] = <<>>]
  /\ active' = [active EXCEPT ![t] = 0]
  /\ caller' = Again(f, Range(queue))

\* Faulty: the slot is free, and the first waiter has it too.
ReleaseTwice(t, f) ==
  /\ active' = [active EXCEPT ![t] = @ - 1]
  /\ idle' = [idle EXCEPT ![t] = @ \/ active[t] = 1]
  /\ IF waiters[t] = <<>>
     THEN caller' = f /\ UNCHANGED waiters
     ELSE /\ caller' = [f EXCEPT ![Head(waiters[t])].pc = "forwarding"]
          /\ waiters' = [waiters EXCEPT ![t] = Tail(@)]
  /\ UNCHANGED transport

\* releaseChannel: the first waiter inherits the slot, or it is free.
Release(t, f) ==
  IF waiters[t] = <<>>
  THEN /\ active' = [active EXCEPT ![t] = @ - 1]
       /\ idle' = [idle EXCEPT ![t] = @ \/ active[t] = 1]
       /\ caller' = f
       /\ UNCHANGED <<waiters, transport>>
  ELSE /\ caller' = [f EXCEPT ![Head(waiters[t])].pc = "forwarding"]
       /\ waiters' = [waiters EXCEPT ![t] = Tail(@)]
       /\ UNCHANGED <<active, idle, transport>>

\* forwardOut answers; for a transport that is being closed it may still.
Forwarded(c) ==
  /\ caller[c].pc = "forwarding"
  /\ caller' = [caller EXCEPT ![c].pc = "open"]
  /\ UNCHANGED <<poolVars, closing, awaited>>

\* forwardOut fails or takes 30 s: the slot goes to the first waiter, then the
\* transport is evicted under him and everybody else.
ForwardFails(c) ==
  LET t == caller[c].on
      f == Again(caller, {c})
  IN
  /\ caller[c].pc = "forwarding"
  /\ IF transport[t] = "closed"
     THEN caller' = f /\ UNCHANGED poolVars
     ELSE IF waiters[t] = <<>> THEN Evict(t, f, <<>>)
     ELSE Evict(t, [f EXCEPT ![Head(waiters[t])].pc = "forwarding"], Tail(waiters[t]))
  /\ UNCHANGED <<closing, awaited>>

\* The channel's close event.
ChannelCloses(c) ==
  LET t == caller[c].on IN
  /\ caller[c].pc = "open"
  /\ IF transport[t] = "closed"
     THEN caller' = [caller EXCEPT ![c] = Out] /\ UNCHANGED poolVars
     ELSE Release(t, [caller EXCEPT ![c] = Out])
  /\ UNCHANGED <<closing, awaited>>

\* Faulty: the waiter leaves the queue and is not told.
WaitTimeoutSilent(c) ==
  LET t == caller[c].on IN
  /\ caller[c].pc = "waiting"
  /\ \E i \in DOMAIN waiters[t] :
       waiters[t][i] = c /\ waiters' = [waiters EXCEPT ![t] = RemoveAt(@, i)]
  /\ UNCHANGED <<caller, transport, active, idle, closing, awaited>>

\* SSH_TUNNEL_BUSY after queueTimeoutMs; the transport stays.
WaitTimeout(c) ==
  LET t == caller[c].on IN
  /\ caller[c].pc = "waiting"
  /\ \E i \in DOMAIN waiters[t] :
       waiters[t][i] = c /\ waiters' = [waiters EXCEPT ![t] = RemoveAt(@, i)]
  /\ caller' = [caller EXCEPT ![c] = Out]
  /\ UNCHANGED <<transport, active, idle, closing, awaited>>

IdleTimeout(t) ==
  /\ transport[t] = "open" /\ idle[t]
  /\ Evict(t, caller, waiters[t])
  /\ UNCHANGED <<closing, awaited>>

\* The SSH server or the network ends the transport.
Drop(t) ==
  /\ transport[t] = "open"
  /\ Evict(t, caller, waiters[t])
  /\ UNCHANGED <<closing, awaited>>
-----------------------------------------------------------------------------
(* close *)

\* All entries are evicted, then the connects under way are awaited ...
CloseBegin ==
  /\ closing = "no"
  /\ closing' = "closing"
  /\ awaited' = {t \in Transports : transport[t] = "connecting"}
  /\ \/ \E t \in Transports : transport[t] = "open" /\ Evict(t, caller, waiters[t])
     \/ /\ \A t \in Transports : transport[t] # "open"
        /\ UNCHANGED <<caller, poolVars>>

\* ... and the entries are evicted again.
CloseEnd ==
  /\ closing = "closing"
  /\ awaited = {}
  /\ closing' = "closed"
  /\ \/ \E t \in Transports : transport[t] = "open" /\ Evict(t, caller, waiters[t])
     \/ /\ \A t \in Transports : transport[t] # "open"
        /\ UNCHANGED <<caller, poolVars>>
  /\ UNCHANGED awaited

Advance(c) == Ask(c) \/ Resume(c) \/ Forwarded(c) \/ ForwardFails(c) \/ WaitTimeout(c)
Connect(t) == Connected(t) \/ ConnectFails(t)

TunnelsNext ==
  \/ \E c \in Callers : OpenTunnel(c) \/ Advance(c) \/ ChannelCloses(c)
  \/ \E t \in Transports : Connect(t) \/ IdleTimeout(t) \/ Drop(t)
  \/ CloseBegin \/ CloseEnd

TunnelsSpec == TunnelsInit /\ [][TunnelsNext]_tunnelVars

\* Promises are resumed, and the timers of 30 s and of five minutes fire.
TunnelsFairness ==
  /\ \A c \in Callers : WF_tunnelVars(Advance(c))
  /\ \A t \in Transports : WF_tunnelVars(Connect(t)) /\ WF_tunnelVars(IdleTimeout(t))
-----------------------------------------------------------------------------
(* What the pool promises *)

\* A key has one transport at a time, its counter is the number of callers who hold
\* or await a channel, nobody queues while a slot is free, and a transport that
\* nobody refers to has its idle timer set, so it does not stay for ever.
SlotsMatchChannels ==
  /\ Cardinality({t \in Transports : transport[t] \in {"open", "connecting"}}) <= 1
  /\ \A t \in Transports : transport[t] = "open" =>
       /\ active[t] = Cardinality(On(t, {"forwarding", "open"}))
       /\ Range(waiters[t]) = On(t, {"waiting"})
       /\ waiters[t] # <<>> => active[t] = MaxChannels
       /\ On(t, CallerStates) = {} => idle[t]
       /\ idle[t] => active[t] = 0

\* When close has returned no transport is open, although callers whose first
\* attempt failed go on to a second one.
NothingOpenAfterClose ==
  closing = "closed" => \A t \in Transports : transport[t] # "open"

\* Every open gets its channel or an error, also when channels are never closed.
TunnelAnswered ==
  \A c \in Callers : caller[c].pc = "asking" ~> caller[c].pc \in {"open", "out"}
============================================================================
