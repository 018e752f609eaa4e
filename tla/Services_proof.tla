--------------------------- MODULE Services_proof ---------------------------
(* Theorems about the smaller services: the SSH pool and trust on first use,   *)
(* running queries, the roles of the processes, keep-alive probes and the      *)
(* Redis circuit; and about all of them side by side.                          *)
EXTENDS MCServices, TransferFiles_proof, Accounts_proof

-----------------------------------------------------------------------------
(* Known hosts *)

\* A handshake that has presented a key knows it.
KeySeen ==
  \A h \in Handshakes : handshake[h].pc # "idle" => handshake[h].key \in HostKeys

HostsInv == KnownHostsTypeOK /\ KeySeen /\ OneKeyTrusted

LEMMA HostsInitially == KnownHostsInit => HostsInv
  BY KnownHostsAssumption DEF KnownHostsInit, HostsInv, KnownHostsTypeOK, KeySeen, OneKeyTrusted

\* Trusting a key is safe when it is the one that is pinned, now and then.
LEMMA TrustPinned ==
  ASSUME HostsInv, NEW h \in Handshakes, handshake[h].pc # "idle", Trust(h),
         pinned' = handshake[h].key, epoch \subseteq {handshake[h].key}
  PROVE  HostsInv'
<1>1. /\ handshake[h].key \in HostKeys
      /\ handshake' = [handshake EXCEPT ![h].pc = "ready"]
      /\ epoch' = epoch \cup {handshake[h].key}
  BY DEF HostsInv, KeySeen, Trust
<1>2. KnownHostsTypeOK'
  BY <1>1 DEF HostsInv, KnownHostsTypeOK
<1>3. KeySeen'
  BY <1>1 DEF HostsInv, KeySeen, KnownHostsTypeOK
<1>4. OneKeyTrusted'
  BY <1>1 DEF OneKeyTrusted
<1> QED BY <1>2, <1>3, <1>4 DEF HostsInv

LEMMA HostsStep == HostsInv /\ [KnownHostsNext]_hostVars => HostsInv'
<1> SUFFICES ASSUME HostsInv, [KnownHostsNext]_hostVars PROVE HostsInv'
  OBVIOUS
<1>1. ASSUME NEW h \in Handshakes, NEW k \in HostKeys, Present(h, k) PROVE HostsInv'
  BY <1>1 DEF Present, HostsInv, KnownHostsTypeOK, KeySeen, OneKeyTrusted
<1>2. ASSUME NEW h \in Handshakes, ClaimInsert(h) PROVE HostsInv'
  <2>1. CASE pinned = NoKey /\ pinned' = handshake[h].key /\ Trust(h)
    <3>1. epoch = {}
      BY <2>1, KnownHostsAssumption DEF HostsInv, KnownHostsTypeOK, OneKeyTrusted
    <3> QED BY <1>2, <2>1, <3>1, TrustPinned DEF ClaimInsert
  <2>2. CASE /\ handshake' = [handshake EXCEPT ![h].pc = "finding"]
             /\ UNCHANGED <<pinned, epoch>>
    BY <1>2, <2>2 DEF ClaimInsert, HostsInv, KnownHostsTypeOK, KeySeen, OneKeyTrusted
  <2> QED BY <1>2, <2>1, <2>2 DEF ClaimInsert
<1>3. ASSUME NEW h \in Handshakes, ClaimFind(h) PROVE HostsInv'
  <2>1. CASE handshake[h].key = pinned /\ Trust(h)
    BY <1>3, <2>1, TrustPinned DEF ClaimFind, HostsInv, OneKeyTrusted
  <2>2. CASE handshake' = [handshake EXCEPT ![h].pc = "refused"] /\ UNCHANGED epoch
    BY <1>3, <2>2 DEF ClaimFind, HostsInv, KnownHostsTypeOK, KeySeen, OneKeyTrusted
  <2> QED BY <1>3, <2>1, <2>2 DEF ClaimFind
<1>4. ASSUME NEW h \in Handshakes, Disconnect(h) PROVE HostsInv'
  BY <1>4 DEF Disconnect, HostsInv, KnownHostsTypeOK, KeySeen, OneKeyTrusted
<1>5. CASE ResetHost
  BY <1>5 DEF ResetHost, HostsInv, KnownHostsTypeOK, KeySeen, OneKeyTrusted
<1>6. CASE UNCHANGED hostVars
  BY <1>6 DEF hostVars, HostsInv, KnownHostsTypeOK, KeySeen, OneKeyTrusted
<1> QED BY <1>1, <1>2, <1>3, <1>4, <1>5, <1>6 DEF KnownHostsNext

\* For any number of handshakes and keys: between two resets of an endpoint one
\* key is trusted and it is the pinned one, although a claim is an insert and a
\* select with resets in between (KyselySshKnownHostRepository.claim).
THEOREM OneKey == KnownHostsSpec => []OneKeyTrusted
<1>1. HostsInv => OneKeyTrusted
  BY DEF HostsInv
<1> QED BY <1>1, HostsInitially, HostsStep, PTL DEF KnownHostsSpec

-----------------------------------------------------------------------------
(* The pool *)

Established == {"open", "connecting"}

\* What close relies on: a key has one transport, and once closing is set none is
\* open.
PoolInv ==
  /\ transport \in [Transports -> {"connecting", "open", "closed"}]
  /\ \A t, u \in Transports :
       transport[t] \in Established /\ transport[u] \in Established => t = u
  /\ closing # "no" => \A t \in Transports : transport[t] # "open"

LEMMA PoolInitially == TunnelsInit => PoolInv
  BY DEF TunnelsInit, PoolInv, Established

\* Eviction closes one transport and touches no other.
LEMMA EvictCloses ==
  ASSUME PoolInv, NEW t, NEW f, NEW queue, Evict(t, f, queue)
  PROVE  /\ transport' \in [Transports -> {"connecting", "open", "closed"}]
         /\ \A u \in Transports : transport'[u] = IF u = t THEN "closed" ELSE transport[u]
  BY DEF Evict, PoolInv

LEMMA EvictKeeps ==
  ASSUME PoolInv, NEW t, NEW f, NEW queue, Evict(t, f, queue), UNCHANGED closing
  PROVE  PoolInv'
  BY EvictCloses DEF PoolInv, Established

\* Closing evicts the open transport, if there is one: then none is open.
LEMMA CloseKeeps ==
  ASSUME PoolInv,
         \/ \E t \in Transports : transport[t] = "open" /\ Evict(t, caller, waiters[t])
         \/ /\ \A t \in Transports : transport[t] # "open"
            /\ UNCHANGED <<caller, poolVars>>
  PROVE  PoolInv'
<1>1. ASSUME NEW t \in Transports, transport[t] = "open", Evict(t, caller, waiters[t])
      PROVE  PoolInv'
  <2>1. \A u \in Transports : transport'[u] # "open"
    BY <1>1, EvictCloses DEF PoolInv, Established
  <2> QED BY <1>1, <2>1, EvictCloses DEF PoolInv, Established
<1>2. CASE /\ \A t \in Transports : transport[t] # "open"
           /\ UNCHANGED <<caller, poolVars>>
  BY <1>2 DEF PoolInv, poolVars
<1> QED BY <1>1, <1>2

LEMMA PoolStep == PoolInv /\ [TunnelsNext]_tunnelVars => PoolInv'
<1> SUFFICES ASSUME PoolInv, [TunnelsNext]_tunnelVars PROVE PoolInv'
  OBVIOUS
<1>1. ASSUME UNCHANGED <<transport, closing>> PROVE PoolInv'
  BY <1>1 DEF PoolInv
<1>2. ASSUME NEW c \in Callers, OpenTunnel(c) PROVE PoolInv'
  BY <1>1, <1>2 DEF OpenTunnel, poolVars
<1>3. ASSUME NEW c \in Callers, Ask(c) PROVE PoolInv'
  <2> PICK t \in Transports :
         \/ UNCHANGED transport
         \/ /\ \A u \in Transports : transport[u] = "closed"
            /\ transport' = [transport EXCEPT ![t] = "connecting"]
    BY <1>3 DEF Ask
  <2> QED BY <1>3 DEF Ask, PoolInv, Established
<1>4. ASSUME NEW c \in Callers, Resume(c) PROVE PoolInv'
  BY <1>1, <1>4 DEF Resume, Take, poolVars
<1>5. ASSUME NEW c \in Callers, Forwarded(c) PROVE PoolInv'
  BY <1>1, <1>5 DEF Forwarded, poolVars
<1>6. ASSUME NEW c \in Callers, ForwardFails(c) PROVE PoolInv'
  <2> DEFINE t == caller[c].on
             f == Again(caller, {c})
             g == [f EXCEPT ![Head(waiters[t])].pc = "forwarding"]
  <2>1. /\ UNCHANGED closing
        /\ \/ UNCHANGED transport
           \/ Evict(t, f, <<>>)
           \/ Evict(t, g, Tail(waiters[t]))
    BY <1>6 DEF ForwardFails, poolVars
  <2> QED BY <1>1, <2>1, EvictKeeps
<1>7. ASSUME NEW c \in Callers, WaitTimeout(c) PROVE PoolInv'
  BY <1>1, <1>7 DEF WaitTimeout
<1>8. ASSUME NEW c \in Callers, ChannelCloses(c) PROVE PoolInv'
  BY <1>1, <1>8 DEF ChannelCloses, Release, poolVars
<1>9. ASSUME NEW t \in Transports, Connected(t) PROVE PoolInv'
  BY <1>9 DEF Connected, PoolInv, Established
<1>10. ASSUME NEW t \in Transports, ConnectFails(t) PROVE PoolInv'
  BY <1>10 DEF ConnectFails, PoolInv, Established
<1>11. ASSUME NEW t \in Transports, IdleTimeout(t) \/ Drop(t) PROVE PoolInv'
  BY <1>11, EvictKeeps DEF IdleTimeout, Drop
<1>12. CASE CloseBegin
  BY <1>12, CloseKeeps DEF CloseBegin
<1>13. CASE CloseEnd
  BY <1>13, CloseKeeps DEF CloseEnd
<1>14. CASE UNCHANGED tunnelVars
  BY <1>1, <1>14 DEF tunnelVars, poolVars
<1> QED
  BY <1>2, <1>3, <1>4, <1>5, <1>6, <1>7, <1>8, <1>9, <1>10, <1>11, <1>12, <1>13, <1>14
  DEF TunnelsNext, Advance, Connect

\* For any number of callers, transports and channels: once close has returned no
\* transport is open and none becomes open, although a second attempt of open
\* does not look at closing (SshTunnelPool.open, close, createEntry).
THEOREM ClosedStaysClosed == TunnelsSpec => []NothingOpenAfterClose
<1>1. PoolInv => NothingOpenAfterClose
  BY DEF PoolInv, NothingOpenAfterClose
<1> QED BY <1>1, PoolInitially, PoolStep, PTL DEF TunnelsSpec

-----------------------------------------------------------------------------
(* The channels of a transport *)

Calls == [Callers -> [pc : CallerStates, on : Transports \cup {NoTransport}, attempt : 0..1]]

PoolTypes ==
  /\ caller \in Calls
  /\ active \in [Transports -> Nat]
  /\ waiters \in [Transports -> Seq(Callers)]
  /\ idle \in [Transports -> BOOLEAN]

\* A caller is on a transport from the moment he waits for its handshake.
CallersPlaced ==
  \A c \in Callers : caller[c].on = NoTransport <=> caller[c].pc \in {"out", "asking"}

Holding(t) == On(t, {"forwarding", "open"})

\* An open transport.
Served(t) ==
  /\ active[t] = Cardinality(Holding(t))
  /\ Range(waiters[t]) = On(t, {"waiting"})
  /\ IsInjective(waiters[t])
  /\ waiters[t] # <<>> => active[t] = MaxChannels
  /\ active[t] <= MaxChannels
  /\ On(t, CallerStates) = {} => idle[t]
  /\ idle[t] => active[t] = 0

\* One that is not open serves nobody; one that connects has somebody who joins.
Unserved(t) ==
  /\ active[t] = 0 /\ waiters[t] = <<>> /\ ~idle[t]
  /\ On(t, {"waiting"}) = {}
  /\ transport[t] = "connecting" => On(t, {"joining"}) # {} /\ Holding(t) = {}

TransportKept(t) == IF transport[t] = "open" THEN Served(t) ELSE Unserved(t)

SlotsInv == PoolInv /\ PoolTypes /\ CallersPlaced /\ \A t \in Transports : TransportKept(t)

LEMMA SlotsInitially == TunnelsInit => SlotsInv
<1> SUFFICES ASSUME TunnelsInit PROVE SlotsInv
  OBVIOUS
<1>1. PoolTypes
  BY TunnelsAssumption DEF TunnelsInit, PoolTypes, Calls, Out, CallerStates
<1>2. CallersPlaced
  BY DEF TunnelsInit, CallersPlaced, Out
<1>3. \A t \in Transports : TransportKept(t)
  BY DEF TunnelsInit, TransportKept, Unserved, On, Out
<1> QED BY <1>1, <1>2, <1>3, PoolInitially DEF SlotsInv

LEMMA OnFinite ==
  ASSUME NEW t, NEW S PROVE IsFiniteSet(On(t, S))
  BY TunnelsAssumption, FS_Subset DEF On

\* A transport that neither its own state nor a caller on it changes.
LEMMA KeptElsewhere ==
  ASSUME NEW t \in Transports, TransportKept(t),
         transport'[t] = transport[t], active'[t] = active[t],
         waiters'[t] = waiters[t], idle'[t] = idle[t],
         \A c \in Callers : caller[c].on = t \/ caller'[c].on = t =>
           caller'[c].on = caller[c].on /\ caller'[c].pc = caller[c].pc
  PROVE  TransportKept(t)'
<1>1. \A S : On(t, S)' = On(t, S)
  BY DEF On
<1>2. Holding(t)' = Holding(t)
  BY <1>1 DEF Holding
<1>3. CASE transport[t] = "open"
  <2>1. Served(t)
    BY <1>3 DEF TransportKept
  <2>2. Served(t)'
    BY <2>1, <1>1, <1>2 DEF Served
  <2> QED BY <2>2, <1>3 DEF TransportKept
<1>4. CASE transport[t] # "open"
  BY <1>1, <1>2, <1>4 DEF TransportKept, Unserved
<1> QED BY <1>3, <1>4

\* The pool serves what it promises.
LEMMA SlotsSuffice == SlotsInv => SlotsMatchChannels
<1> SUFFICES ASSUME SlotsInv PROVE SlotsMatchChannels
  OBVIOUS
<1> DEFINE living == {t \in Transports : transport[t] \in {"open", "connecting"}}
<1>1. Cardinality(living) <= 1
  <2>1. CASE living = {}
    BY <2>1, FS_EmptySet
  <2>2. CASE living # {}
    <3>1. PICK t \in Transports : living = {t}
      BY <2>2 DEF SlotsInv, PoolInv, Established
    <3> QED BY <3>1, FS_Singleton
  <2> QED BY <2>1, <2>2
<1>2. \A t \in Transports : transport[t] = "open" => Served(t)
  BY DEF SlotsInv, TransportKept
<1> QED BY <1>1, <1>2 DEF SlotsMatchChannels, Served, Holding

\* The queue, which holds each waiter once.
LEMMA QueueGrows ==
  ASSUME NEW s \in Seq(Callers), NEW c \in Callers, IsInjective(s), c \notin Range(s)
  PROVE  /\ Append(s, c) \in Seq(Callers) /\ Append(s, c) # <<>>
         /\ IsInjective(Append(s, c)) /\ Range(Append(s, c)) = Range(s) \cup {c}
<1>1. /\ DOMAIN Append(s, c) = 1..(Len(s) + 1) /\ Len(s) \in Nat /\ DOMAIN s = 1..Len(s)
      /\ Append(s, c)[Len(s) + 1] = c
      /\ \A i \in 1..Len(s) : Append(s, c)[i] = s[i]
  OBVIOUS
<1>2. Range(Append(s, c)) = Range(s) \cup {c}
  BY <1>1 DEF Range
<1>3. IsInjective(Append(s, c))
  BY <1>1 DEF IsInjective, Range
<1> QED BY <1>2, <1>3

LEMMA Joined ==
  ASSUME NEW front \in Seq(Callers), NEW back \in Seq(Callers)
  PROVE  /\ front \o back \in Seq(Callers) /\ Len(front \o back) = Len(front) + Len(back)
         /\ \A k \in 1..Len(front) : (front \o back)[k] = front[k]
         /\ \A k \in 1..Len(back) : (front \o back)[Len(front) + k] = back[k]
<1>1. front \o back \in Seq(Callers) /\ Len(front \o back) = Len(front) + Len(back)
  OBVIOUS
<1>2. ASSUME NEW k \in 1..Len(front) PROVE (front \o back)[k] = front[k]
  OBVIOUS
<1>3. ASSUME NEW k \in 1..Len(back) PROVE (front \o back)[Len(front) + k] = back[k]
  OBVIOUS
<1> QED BY <1>1, <1>2, <1>3

LEMMA QueueShrinks ==
  ASSUME NEW s \in Seq(Callers), NEW i \in DOMAIN s, IsInjective(s)
  PROVE  /\ RemoveAt(s, i) \in Seq(Callers) /\ IsInjective(RemoveAt(s, i))
         /\ Range(RemoveAt(s, i)) = Range(s) \ {s[i]}
<1> DEFINE r == RemoveAt(s, i)
<1>1. /\ Len(s) \in Nat /\ DOMAIN s = 1..Len(s)
      /\ r \in Seq(Callers) /\ DOMAIN r = 1..(Len(s) - 1)
      /\ \A k \in 1..(Len(s) - 1) : r[k] = IF k < i THEN s[k] ELSE s[k + 1]
  <2> DEFINE front == SubSeq(s, 1, i - 1)
             back == SubSeq(s, i + 1, Len(s))
  <2>1. Len(s) \in Nat /\ DOMAIN s = 1..Len(s) /\ i \in 1..Len(s)
    OBVIOUS
  <2>2. /\ front \in Seq(Callers) /\ Len(front) = i - 1
        /\ \A k \in 1..(i - 1) : front[k] = s[k]
    BY <2>1
  <2>3. /\ back \in Seq(Callers) /\ Len(back) = Len(s) - i
        /\ \A k \in 1..(Len(s) - i) : back[k] = s[k + i]
    BY <2>1
  <2> HIDE DEF front, back
  <2>4. /\ front \o back \in Seq(Callers) /\ Len(front \o back) = (i - 1) + (Len(s) - i)
    BY <2>2, <2>3, Joined
  <2>5. ASSUME NEW k \in 1..(Len(s) - 1), k < i PROVE (front \o back)[k] = s[k]
    <3>1. k \in 1..(i - 1)
      BY <2>1, <2>5
    <3>2. (front \o back)[k] = front[k]
      BY <2>2, <2>3, <3>1, Joined
    <3> QED BY <2>2, <3>1, <3>2
  <2>6. ASSUME NEW k \in 1..(Len(s) - 1), ~(k < i) PROVE (front \o back)[k] = s[k + 1]
    <3> DEFINE m == k - (i - 1)
    <3>1. m \in 1..(Len(s) - i) /\ (i - 1) + m = k /\ m + i = k + 1
      BY <2>1, <2>6
    <3> HIDE DEF m
    <3>2. \A n \in 1..Len(back) : (front \o back)[Len(front) + n] = back[n]
      BY <2>2, <2>3, Joined
    <3>3. (front \o back)[Len(front) + m] = back[m]
      BY <2>3, <3>1, <3>2
    <3> QED BY <2>2, <2>3, <3>1, <3>3
  <2>7. r = front \o back
    BY DEF RemoveAt, front, back
  <2>8. Len(r) = Len(s) - 1 /\ r \in Seq(Callers)
    <3>1. (i - 1) + (Len(s) - i) = Len(s) - 1
      BY <2>1
    <3> HIDE DEF r
    <3> QED BY <2>4, <2>7, <3>1
  <2>9. DOMAIN r = 1..(Len(s) - 1)
    BY <2>8
  <2>10. \A k \in 1..(Len(s) - 1) : r[k] = IF k < i THEN s[k] ELSE s[k + 1]
    BY <2>5, <2>6, <2>7
  <2> HIDE DEF r
  <2> QED BY <2>1, <2>8, <2>9, <2>10
<1>2. IsInjective(r)
  BY <1>1 DEF IsInjective
<1>3. Range(r) \subseteq Range(s) \ {s[i]}
  BY <1>1 DEF Range, IsInjective
<1>4. ASSUME NEW c \in Range(s) \ {s[i]} PROVE c \in Range(r)
  <2>1. PICK k \in 1..Len(s) : s[k] = c /\ k # i
    BY <1>1, <1>4 DEF Range
  <2>2. CASE k < i
    BY <1>1, <2>1, <2>2 DEF Range
  <2>3. CASE k > i
    <3>1. k - 1 \in 1..(Len(s) - 1) /\ r[k - 1] = c
      BY <1>1, <2>1, <2>3
    <3> QED BY <1>1, <3>1 DEF Range
  <2> QED BY <1>1, <2>1, <2>2, <2>3
<1> QED BY <1>1, <1>2, <1>3, <1>4

LEMMA QueueServed ==
  ASSUME NEW s \in Seq(Callers), s # <<>>, IsInjective(s)
  PROVE  /\ Head(s) \in Range(s) /\ Head(s) \in Callers
         /\ Tail(s) \in Seq(Callers) /\ IsInjective(Tail(s))
         /\ Range(Tail(s)) = Range(s) \ {Head(s)}
<1>1. /\ Len(s) \in Nat /\ DOMAIN s = 1..Len(s) /\ Head(s) = s[1] /\ 1 \in DOMAIN s
      /\ Tail(s) \in Seq(Callers) /\ DOMAIN Tail(s) = 1..(Len(s) - 1)
      /\ \A k \in 1..(Len(s) - 1) : Tail(s)[k] = s[k + 1]
  OBVIOUS
<1>2. IsInjective(Tail(s))
  BY <1>1 DEF IsInjective
<1>3. Range(Tail(s)) \subseteq Range(s) \ {Head(s)}
  BY <1>1 DEF Range, IsInjective
<1>4. ASSUME NEW c \in Range(s) \ {Head(s)} PROVE c \in Range(Tail(s))
  <2>1. PICK k \in 1..Len(s) : s[k] = c /\ k # 1
    BY <1>1, <1>4 DEF Range
  <2>2. k - 1 \in 1..(Len(s) - 1) /\ Tail(s)[k - 1] = c
    BY <1>1, <2>1
  <2> QED BY <1>1, <2>2 DEF Range
<1>5. Head(s) \in Range(s)
  BY <1>1 DEF Range
<1> QED BY <1>1, <1>2, <1>3, <1>4, <1>5

\* The catch block leaves a caller nowhere.
LEMMA AgainLeaves ==
  ASSUME NEW f \in Calls, NEW S
  PROVE  /\ Again(f, S) \in Calls
         /\ \A c \in Callers \ S : Again(f, S)[c] = f[c]
         /\ \A c \in Callers \cap S : Again(f, S)[c].on = NoTransport
                                     /\ Again(f, S)[c].pc \in {"out", "asking"}
<1> DEFINE free == {Out, [pc |-> "asking", on |-> NoTransport, attempt |-> 1]}
<1>1. \A r \in free : /\ r.on = NoTransport /\ r.pc \in {"out", "asking"}
                      /\ r \in [pc : CallerStates, on : Transports \cup {NoTransport}, attempt : 0..1]
  BY DEF Out, CallerStates
<1>2. Again(f, S) = [c \in Callers |-> Again(f, S)[c]]
  BY DEF Again
<1>3. \A c \in Callers \ S : Again(f, S)[c] = f[c]
  BY DEF Again
<1>4. \A c \in Callers \cap S : Again(f, S)[c] \in free
  BY DEF Again
<1> HIDE DEF free
<1>5. \A c \in Callers :
       Again(f, S)[c] \in [pc : CallerStates, on : Transports \cup {NoTransport}, attempt : 0..1]
  BY <1>1, <1>3, <1>4 DEF Calls
<1>6. Again(f, S) \in Calls
  BY <1>2, <1>5 DEF Calls
<1> QED BY <1>1, <1>3, <1>4, <1>6

\* A step at one transport, with callers who come from nowhere or go there.
LEMMA OthersKept ==
  ASSUME SlotsInv, NEW t \in Transports,
         \A u \in Transports \ {t} :
           /\ transport'[u] = transport[u] /\ active'[u] = active[u]
           /\ waiters'[u] = waiters[u] /\ idle'[u] = idle[u],
         \A c \in Callers :
           \/ caller'[c] = caller[c]
           \/ {caller[c].on, caller'[c].on} \subseteq {t, NoTransport}
  PROVE  \A u \in Transports \ {t} : TransportKept(u)'
<1> SUFFICES ASSUME NEW u \in Transports \ {t} PROVE TransportKept(u)'
  OBVIOUS
<1>1. \A c \in Callers : caller[c].on = u \/ caller'[c].on = u => caller'[c] = caller[c]
  BY TunnelsAssumption
<1> QED BY <1>1, KeptElsewhere DEF SlotsInv

\* Evict, with the waiters that are still in the queue.
LEMMA EvictServes ==
  ASSUME SlotsInv, NEW t \in Transports, NEW f \in Calls, NEW queue, Evict(t, f, queue),
         \A c \in Callers : \/ f[c] = caller[c]
                            \/ {caller[c].on, f[c].on} \subseteq {t, NoTransport},
         \A c \in Callers : f[c].on = NoTransport <=> f[c].pc \in {"out", "asking"},
         \A c \in Callers : c \in Range(queue) => f[c].on = t,
         \A c \in Callers : f[c].on = t /\ f[c].pc = "waiting" => c \in Range(queue)
  PROVE  PoolTypes' /\ CallersPlaced' /\ \A u \in Transports : TransportKept(u)'
<1>1. caller' = Again(f, Range(queue))
  BY DEF Evict
<1>2. PoolTypes'
  BY <1>1, AgainLeaves DEF Evict, SlotsInv, PoolTypes
<1>3. CallersPlaced'
  BY <1>1, AgainLeaves DEF CallersPlaced
<1>4. \A u \in Transports \ {t} : TransportKept(u)'
  <2>1. \A c \in Callers : \/ caller'[c] = caller[c]
                           \/ {caller[c].on, caller'[c].on} \subseteq {t, NoTransport}
    BY <1>1, AgainLeaves
  <2>2. \A u \in Transports \ {t} :
          /\ transport'[u] = transport[u] /\ active'[u] = active[u]
          /\ waiters'[u] = waiters[u] /\ idle'[u] = idle[u]
    BY DEF Evict, SlotsInv, PoolTypes, PoolInv
  <2> QED BY <2>1, <2>2, OthersKept
<1>5. TransportKept(t)'
  <2>1. /\ transport'[t] = "closed" /\ active'[t] = 0 /\ waiters'[t] = <<>> /\ ~idle'[t]
    BY DEF Evict, SlotsInv, PoolTypes, PoolInv
  <2>2. On(t, {"waiting"})' = {}
    <3> SUFFICES ASSUME NEW c \in Callers, caller'[c].on = t, caller'[c].pc = "waiting"
                 PROVE FALSE
      BY DEF On
    <3>1. c \notin Range(queue)
      BY <1>1, AgainLeaves
    <3> QED BY <1>1, <3>1, AgainLeaves
  <2> QED BY <2>1, <2>2 DEF TransportKept, Unserved
<1> QED BY <1>2, <1>3, <1>4, <1>5

PoolSettled == PoolTypes /\ CallersPlaced /\ \A t \in Transports : TransportKept(t)

\* A caller who asks is on no transport, before and after.
LEMMA OpenTunnelKeeps ==
  ASSUME SlotsInv, NEW c \in Callers, OpenTunnel(c) PROVE PoolSettled'
<1> USE DEF SlotsInv
<1>1. /\ caller \in Calls /\ caller[c].on = NoTransport
      /\ caller' = [caller EXCEPT ![c].pc = "asking"]
      /\ UNCHANGED poolVars
  BY DEF OpenTunnel, PoolTypes, CallersPlaced
<1>2. PoolTypes'
  BY <1>1 DEF PoolTypes, Calls, CallerStates, poolVars
<1>3. /\ \A d \in Callers \ {c} : caller'[d] = caller[d]
      /\ caller'[c].on = NoTransport /\ caller'[c].pc = "asking"
  BY <1>1 DEF Calls
<1>4. CallersPlaced'
  BY <1>3 DEF CallersPlaced
<1>5. \A t \in Transports : TransportKept(t)'
  BY <1>1, <1>3, KeptElsewhere, TunnelsAssumption DEF poolVars
<1> QED BY <1>2, <1>4, <1>5 DEF PoolSettled

\* There is an entry that nobody refers to: there are more of them than callers.
LEMMA SpareTransport ==
  ASSUME SlotsInv, \A u \in Transports : transport[u] = "closed"
  PROVE  \E u \in Transports : Unreferenced(u)
<1> DEFINE used == {caller[c].on : c \in Callers}
<1>1. IsFiniteSet(used) /\ Cardinality(used) <= Cardinality(Callers)
  <2>1. [c \in Callers |-> caller[c].on] \in Surjection(Callers, used)
    BY DEF Surjection
  <2> HIDE DEF used
  <2> QED BY <2>1, FS_Surjection, TunnelsAssumption
<1>2. PICK u \in Transports : u \notin used
  <2>1. ASSUME Transports \subseteq used PROVE FALSE
    <3>1. Cardinality(Transports) <= Cardinality(used)
      BY <1>1, <2>1, FS_Subset
    <3>2. /\ Cardinality(Transports) \in Nat /\ Cardinality(used) \in Nat
          /\ Cardinality(Callers) \in Nat
      BY <1>1, FS_CardinalityType, TunnelsAssumption
    <3> QED BY <1>1, <3>1, <3>2, TunnelsAssumption
  <2> QED BY <2>1
<1>3. On(u, CallerStates) = {}
  BY <1>2 DEF On
<1> QED BY <1>3 DEF Unreferenced

\* A caller who joins a transport takes nothing yet.
LEMMA JoiningKeeps ==
  ASSUME SlotsInv, NEW c \in Callers, NEW t \in Transports, caller[c].on = NoTransport,
         caller' = [caller EXCEPT ![c].pc = "joining", ![c].on = t]
  PROVE  /\ caller' \in Calls /\ CallersPlaced'
         /\ \A S \in SUBSET {"waiting", "forwarding", "open"} : On(t, S)' = On(t, S)
         /\ c \in On(t, {"joining"})' /\ c \in On(t, CallerStates)'
         /\ \A d \in Callers : \/ caller'[d] = caller[d]
                               \/ {caller[d].on, caller'[d].on} \subseteq {t, NoTransport}
<1>1. /\ \A d \in Callers \ {c} : caller'[d] = caller[d]
      /\ caller'[c].on = t /\ caller'[c].pc = "joining"
  BY DEF SlotsInv, PoolTypes, Calls
<1>2. caller' \in Calls
  <2> DEFINE g == [caller EXCEPT ![c].pc = "joining"]
  <2>1. g \in Calls
    BY DEF SlotsInv, PoolTypes, Calls, CallerStates
  <2>2. [g EXCEPT ![c].on = t] \in Calls
    BY <2>1 DEF Calls
  <2>3. caller' = [g EXCEPT ![c].on = t]
    OBVIOUS
  <2> QED BY <2>2, <2>3
<1>3. CallersPlaced'
  BY <1>1, TunnelsAssumption DEF SlotsInv, CallersPlaced
<1>4. \A S \in SUBSET {"waiting", "forwarding", "open"} : On(t, S)' = On(t, S)
  BY <1>1, TunnelsAssumption DEF On
<1>5. c \in On(t, {"joining"})' /\ c \in On(t, CallerStates)'
  BY <1>1 DEF On, CallerStates
<1> QED BY <1>1, <1>2, <1>3, <1>4, <1>5

LEMMA AskKeeps ==
  ASSUME SlotsInv, NEW c \in Callers, Ask(c) PROVE PoolSettled'
<1>1. caller[c].on = NoTransport
  BY DEF Ask, SlotsInv, CallersPlaced
<1>2. PICK t \in Transports :
        /\ \/ transport[t] \in {"open", "connecting"} /\ UNCHANGED transport
           \/ /\ \A u \in Transports : transport[u] = "closed"
              /\ t = CHOOSE u \in Transports : Unreferenced(u)
              /\ transport' = [transport EXCEPT ![t] = "connecting"]
        /\ caller' = [caller EXCEPT ![c].pc = "joining", ![c].on = t]
  BY DEF Ask
<1>3. UNCHANGED <<active, waiters, idle>>
  BY DEF Ask
<1>4. PoolTypes' /\ CallersPlaced'
  BY <1>1, <1>2, <1>3, JoiningKeeps DEF SlotsInv, PoolTypes
<1>5. \A u \in Transports \ {t} : transport'[u] = transport[u]
  BY <1>2 DEF SlotsInv, PoolInv
<1>6. \A u \in Transports \ {t} : TransportKept(u)'
  BY <1>1, <1>2, <1>3, <1>5, JoiningKeeps, OthersKept, ZenonT(40)
<1>7. /\ Holding(t)' = Holding(t) /\ On(t, {"waiting"})' = On(t, {"waiting"})
      /\ On(t, {"joining"})' # {} /\ On(t, CallerStates)' # {}
  BY <1>1, <1>2, JoiningKeeps DEF Holding
<1>8. TransportKept(t)'
  <2>1. CASE transport[t] = "open" /\ UNCHANGED transport
    <3>1. Served(t)
      BY <2>1 DEF SlotsInv, TransportKept
    <3>2. Served(t)'
      BY <1>3, <1>7, <3>1 DEF Served
    <3> QED BY <2>1, <3>2 DEF TransportKept
  <2>2. CASE transport[t] = "connecting" /\ UNCHANGED transport
    <3>1. Unserved(t)
      BY <2>2 DEF SlotsInv, TransportKept
    <3>2. Unserved(t)'
      BY <1>3, <1>7, <2>2, <3>1 DEF Unserved
    <3> QED BY <2>2, <3>2 DEF TransportKept
  <2>3. CASE /\ \A u \in Transports : transport[u] = "closed"
             /\ t = CHOOSE u \in Transports : Unreferenced(u)
             /\ transport' = [transport EXCEPT ![t] = "connecting"]
    <3>1. Unreferenced(t)
      BY <2>3, SpareTransport
    <3>2. Holding(t) = {}
      BY <3>1 DEF Unreferenced, Holding, On, CallerStates
    <3>3. transport'[t] = "connecting" /\ Unserved(t)
      BY <2>3 DEF SlotsInv, PoolInv, TransportKept
    <3>4. Unserved(t)'
      BY <1>3, <1>7, <3>2, <3>3 DEF Unserved
    <3> QED BY <3>3, <3>4 DEF TransportKept
  <2> QED BY <1>2, <2>1, <2>2, <2>3
<1> QED BY <1>4, <1>6, <1>8 DEF PoolSettled

\* A connect that ends without a transport sends away who waited for it.
LEMMA RefusedKeeps ==
  ASSUME SlotsInv, NEW t \in Transports, transport[t] = "connecting",
         transport' = [transport EXCEPT ![t] = "closed"],
         caller' = Again(caller, On(t, {"joining"})),
         UNCHANGED <<active, waiters, idle>>
  PROVE  PoolSettled'
<1>1. caller \in Calls /\ CallersPlaced
  BY DEF SlotsInv, PoolTypes
<1>2. \A d \in Callers : \/ caller'[d] = caller[d]
                         \/ /\ caller[d].on = t /\ caller'[d].on = NoTransport
                            /\ caller'[d].pc \in {"out", "asking"}
  BY <1>1, AgainLeaves DEF On
<1>3. PoolTypes' /\ CallersPlaced'
  <2>1. caller' \in Calls
    BY <1>1, AgainLeaves
  <2> QED BY <1>1, <1>2, <2>1 DEF SlotsInv, PoolTypes, CallersPlaced
<1>4. transport'[t] = "closed" /\ \A u \in Transports \ {t} : transport'[u] = transport[u]
  BY DEF SlotsInv, PoolInv
<1>5. \A u \in Transports \ {t} : TransportKept(u)'
  BY <1>2, <1>4, OthersKept
<1>6. TransportKept(t)'
  <2>1. Unserved(t)
    BY DEF SlotsInv, TransportKept
  <2>2. On(t, {"waiting"})' = {}
    BY <1>2, <2>1 DEF Unserved, On
  <2> QED BY <1>4, <2>1, <2>2 DEF TransportKept, Unserved
<1> QED BY <1>3, <1>5, <1>6 DEF PoolSettled

LEMMA ConnectKeeps ==
  ASSUME SlotsInv, NEW t \in Transports, Connect(t) PROVE PoolSettled'
<1>1. CASE transport' = [transport EXCEPT ![t] = "closed"]
           /\ caller' = Again(caller, On(t, {"joining"}))
  BY <1>1, RefusedKeeps DEF Connect, Connected, ConnectFails
<1>2. CASE transport' = [transport EXCEPT ![t] = "open"] /\ UNCHANGED caller
  <2>1. transport[t] = "connecting" /\ UNCHANGED <<active, waiters, idle>>
    BY DEF Connect, Connected, ConnectFails
  <2>2. transport'[t] = "open" /\ \A u \in Transports \ {t} : transport'[u] = transport[u]
    BY <1>2 DEF SlotsInv, PoolInv
  <2>3. \A u \in Transports \ {t} : TransportKept(u)'
    BY <1>2, <2>1, <2>2, OthersKept
  <2>4. \A S : On(t, S)' = On(t, S)
    BY <1>2 DEF On
  <2>5. Unserved(t)
    BY <2>1 DEF SlotsInv, TransportKept
  <2>6. On(t, CallerStates) # {}
    BY <2>1, <2>5 DEF Unserved, On, CallerStates
  <2>7. Range(waiters[t]) = {} /\ IsInjective(waiters[t])
    BY <2>5 DEF Unserved, Range, IsInjective
  <2>8. Served(t)'
    <3>1. Holding(t)' = {} /\ On(t, {"waiting"})' = {} /\ On(t, CallerStates)' # {}
      BY <2>1, <2>4, <2>5, <2>6 DEF Unserved, Holding
    <3>2. active'[t] = 0 /\ waiters'[t] = <<>> /\ ~idle'[t] /\ waiters'[t] = waiters[t]
      BY <2>1, <2>5 DEF Unserved
    <3>3. Range(waiters[t])' = {} /\ IsInjective(waiters[t])'
      BY <2>7, <3>2
    <3>4. active'[t] = Cardinality(Holding(t)')
      BY <3>1, <3>2, FS_EmptySet
    <3>5. active'[t] <= MaxChannels
      BY <3>2, TunnelsAssumption
    <3> QED BY <3>1, <3>2, <3>3, <3>4, <3>5 DEF Served
  <2>9. PoolTypes' /\ CallersPlaced'
    BY <1>2, <2>1 DEF SlotsInv, PoolTypes, CallersPlaced
  <2>10. TransportKept(t)'
    BY <2>2, <2>8 DEF TransportKept
  <2> QED BY <2>3, <2>9, <2>10 DEF PoolSettled
<1> QED BY <1>1, <1>2 DEF Connect, Connected, ConnectFails

\* A caller who goes on at his transport, in another state.
LEMMA MovesOn ==
  ASSUME SlotsInv, NEW c \in Callers, NEW t \in Transports, caller[c].on = t,
         NEW p \in {"waiting", "forwarding", "open"},
         caller' = [caller EXCEPT ![c].pc = p]
  PROVE  /\ caller' \in Calls /\ CallersPlaced'
         /\ \A d \in Callers \ {c} : caller'[d] = caller[d]
         /\ caller'[c].on = t /\ caller'[c].pc = p
<1>1. /\ \A d \in Callers \ {c} : caller'[d] = caller[d]
      /\ caller'[c].on = t /\ caller'[c].pc = p
  BY DEF SlotsInv, PoolTypes, Calls
<1>2. caller' \in Calls
  BY DEF SlotsInv, PoolTypes, Calls, CallerStates
<1>3. CallersPlaced'
  BY <1>1, TunnelsAssumption DEF SlotsInv, CallersPlaced
<1> QED BY <1>1, <1>2, <1>3

LEMMA ForwardedKeeps ==
  ASSUME SlotsInv, NEW c \in Callers, Forwarded(c) PROVE PoolSettled'
<1>1. PICK t \in Transports : t = caller[c].on
  BY DEF Forwarded, SlotsInv, CallersPlaced, PoolTypes, Calls
<1>2. /\ caller[c].on = t /\ caller[c].pc = "forwarding"
      /\ caller' = [caller EXCEPT ![c].pc = "open"]
      /\ UNCHANGED <<transport, active, waiters, idle>>
  BY <1>1 DEF Forwarded, poolVars
<1>3. /\ caller' \in Calls /\ CallersPlaced'
      /\ \A d \in Callers \ {c} : caller'[d] = caller[d]
      /\ caller'[c].on = t /\ caller'[c].pc = "open"
  BY <1>2, MovesOn
<1>4. PoolTypes'
  BY <1>2, <1>3 DEF SlotsInv, PoolTypes
<1>5. \A u \in Transports \ {t} : TransportKept(u)'
  BY <1>2, <1>3, OthersKept
<1>6. \A S \in {{"waiting"}, {"joining"}, {"forwarding", "open"}, CallerStates} :
        On(t, S)' = On(t, S)
  <2> SUFFICES ASSUME NEW S \in {{"waiting"}, {"joining"}, {"forwarding", "open"}, CallerStates}
               PROVE  On(t, S)' = On(t, S)
    OBVIOUS
  <2>1. "forwarding" \in S <=> "open" \in S
    BY DEF CallerStates
  <2> QED BY <1>2, <1>3, <2>1 DEF On
<1>7. Holding(t)' = Holding(t)
  BY <1>6 DEF Holding
<1>8. TransportKept(t)'
  <2>1. CASE transport[t] = "open"
    <3>1. Served(t)
      BY <2>1 DEF SlotsInv, TransportKept
    <3>2. Served(t)'
      BY <1>2, <1>6, <1>7, <3>1 DEF Served
    <3> QED BY <1>2, <2>1, <3>2 DEF TransportKept
  <2>2. CASE transport[t] # "open"
    <3>1. Unserved(t)
      BY <2>2 DEF SlotsInv, TransportKept
    <3>2. Unserved(t)'
      BY <1>2, <1>6, <1>7, <3>1 DEF Unserved
    <3> QED BY <1>2, <2>2, <3>2 DEF TransportKept
  <2> QED BY <2>1, <2>2
<1> QED BY <1>3, <1>4, <1>5, <1>8 DEF PoolSettled

\* A caller who comes to a closed transport leaves it.
LEMMA MissedKeeps ==
  ASSUME SlotsInv, NEW c \in Callers, NEW t \in Transports, caller[c].on = t,
         transport[t] = "closed", caller' = Again(caller, {c}), UNCHANGED poolVars
  PROVE  PoolSettled'
<1>1. caller \in Calls
  BY DEF SlotsInv, PoolTypes
<1>2. /\ caller' \in Calls
      /\ \A d \in Callers \ {c} : caller'[d] = caller[d]
      /\ caller'[c].on = NoTransport /\ caller'[c].pc \in {"out", "asking"}
  BY <1>1, AgainLeaves
<1>3. UNCHANGED <<transport, active, waiters, idle>>
  BY DEF poolVars
<1>4. PoolTypes' /\ CallersPlaced'
  BY <1>2, <1>3 DEF SlotsInv, PoolTypes, CallersPlaced
<1>5. \A u \in Transports \ {t} : TransportKept(u)'
  BY <1>2, <1>3, OthersKept
<1>6. TransportKept(t)'
  <2>1. Unserved(t)
    BY DEF SlotsInv, TransportKept
  <2>2. On(t, {"waiting"})' = {}
    BY <1>2, <2>1 DEF Unserved, On
  <2> QED BY <1>3, <2>1, <2>2 DEF TransportKept, Unserved
<1> QED BY <1>4, <1>5, <1>6 DEF PoolSettled

\* acquireChannel
LEMMA TakeKeeps ==
  ASSUME SlotsInv, NEW c \in Callers, NEW t \in Transports, caller[c].on = t,
         caller[c].pc = "joining", transport[t] = "open", Take(c, t)
  PROVE  PoolSettled'
<1>1. Served(t) /\ caller \in Calls /\ UNCHANGED transport
  BY DEF SlotsInv, TransportKept, PoolTypes, Take
<1>2. \A p : [caller EXCEPT ![c].pc = p, ![c].on = t] = [caller EXCEPT ![c].pc = p]
  <2> SUFFICES ASSUME NEW p
               PROVE  [caller EXCEPT ![c].pc = p, ![c].on = t] = [caller EXCEPT ![c].pc = p]
    OBVIOUS
  <2> DEFINE g == [caller EXCEPT ![c].pc = p]
  <2>1. g[c] = [g[c] EXCEPT !.on = t]
    <3>1. g[c] = [caller[c] EXCEPT !.pc = p] /\ caller[c].on = t
      BY <1>1 DEF Calls
    <3>2. caller[c] = [pc |-> caller[c].pc, on |-> t, attempt |-> caller[c].attempt]
      BY <1>1 DEF Calls
    <3>3. g[c] = [pc |-> p, on |-> t, attempt |-> caller[c].attempt]
      BY <3>1, <3>2
    <3> HIDE DEF g
    <3> QED BY <3>3
  <2>2. g = [g EXCEPT ![c] = g[c]]
    BY <1>1 DEF Calls
  <2>3. g = [g EXCEPT ![c].on = t]
    BY <2>1, <2>2
  <2> QED BY <2>3
<1>3. c \notin On(t, {"waiting", "forwarding", "open"})
  BY DEF On
<1>4. \A u \in Transports \ {t} :
        idle'[u] = idle[u] /\ active'[u] = active[u] /\ waiters'[u] = waiters[u]
  BY DEF Take, SlotsInv, PoolTypes
<1>5. CASE active[t] < MaxChannels
  <2>1. /\ caller' = [caller EXCEPT ![c].pc = "forwarding"]
        /\ active' = [active EXCEPT ![t] = @ + 1] /\ waiters' = waiters
        /\ idle' = [idle EXCEPT ![t] = FALSE]
    BY <1>2, <1>5 DEF Take
  <2>2. /\ caller' \in Calls /\ CallersPlaced'
        /\ \A d \in Callers \ {c} : caller'[d] = caller[d]
        /\ caller'[c].on = t /\ caller'[c].pc = "forwarding"
    BY <2>1, MovesOn
  <2>3. PoolTypes'
    BY <2>1, <2>2 DEF SlotsInv, PoolTypes
  <2>4. \A u \in Transports \ {t} : TransportKept(u)'
    BY <1>1, <1>4, <2>2, OthersKept
  <2>5. /\ Holding(t)' = Holding(t) \cup {c} /\ c \notin Holding(t)
        /\ On(t, {"waiting"})' = On(t, {"waiting"}) /\ On(t, CallerStates)' # {}
    BY <1>3, <2>2 DEF Holding, On, CallerStates
  <2>6. active'[t] = active[t] + 1 /\ waiters'[t] = waiters[t] /\ ~idle'[t]
    BY <2>1 DEF SlotsInv, PoolTypes
  <2>7. active'[t] = Cardinality(Holding(t)')
    BY <1>1, <2>5, <2>6, OnFinite, FS_AddElement DEF Served, Holding
  <2>8. active[t] \in Nat /\ MaxChannels \in Nat
    BY TunnelsAssumption DEF SlotsInv, PoolTypes
  <2>9. waiters[t] = <<>> /\ active'[t] <= MaxChannels
    BY <1>1, <1>5, <2>6, <2>8 DEF Served
  <2>10. Served(t)'
    BY <1>1, <2>5, <2>6, <2>7, <2>9 DEF Served
  <2>11. TransportKept(t)'
    BY <1>1, <2>10 DEF TransportKept
  <2> QED BY <2>2, <2>3, <2>4, <2>11 DEF PoolSettled
<1>6. CASE ~(active[t] < MaxChannels)
  <2>1. /\ caller' = [caller EXCEPT ![c].pc = "waiting"] /\ active' = active
        /\ waiters' = [waiters EXCEPT ![t] = Append(@, c)]
        /\ idle' = [idle EXCEPT ![t] = FALSE]
    BY <1>2, <1>6 DEF Take
  <2>2. /\ caller' \in Calls /\ CallersPlaced'
        /\ \A d \in Callers \ {c} : caller'[d] = caller[d]
        /\ caller'[c].on = t /\ caller'[c].pc = "waiting"
    BY <2>1, MovesOn
  <2>3. waiters[t] \in Seq(Callers) /\ IsInjective(waiters[t]) /\ c \notin Range(waiters[t])
    BY <1>1, <1>3 DEF SlotsInv, PoolTypes, Served, On
  <2>4. /\ Append(waiters[t], c) \in Seq(Callers) /\ IsInjective(Append(waiters[t], c))
        /\ Range(Append(waiters[t], c)) = Range(waiters[t]) \cup {c}
    BY <2>3, QueueGrows
  <2>5. PoolTypes'
    BY <2>1, <2>2, <2>4 DEF SlotsInv, PoolTypes
  <2>6. \A u \in Transports \ {t} : TransportKept(u)'
    BY <1>1, <1>4, <2>2, OthersKept
  <2>7. /\ Holding(t)' = Holding(t) /\ On(t, {"waiting"})' = On(t, {"waiting"}) \cup {c}
        /\ On(t, CallerStates)' # {}
    BY <1>3, <2>2 DEF Holding, On, CallerStates
  <2>8. active'[t] = active[t] /\ waiters'[t] = Append(waiters[t], c) /\ ~idle'[t]
    BY <2>1 DEF SlotsInv, PoolTypes
  <2>9. active[t] = MaxChannels
    BY <1>1, <1>6, TunnelsAssumption DEF SlotsInv, PoolTypes, Served
  <2>10. Served(t)'
    BY <1>1, <2>4, <2>7, <2>8, <2>9 DEF Served
  <2>11. TransportKept(t)'
    BY <1>1, <2>10 DEF TransportKept
  <2> QED BY <2>2, <2>5, <2>6, <2>11 DEF PoolSettled
<1> QED BY <1>5, <1>6

LEMMA ResumeKeeps ==
  ASSUME SlotsInv, NEW c \in Callers, Resume(c) PROVE PoolSettled'
<1>1. PICK t \in Transports : t = caller[c].on
  BY DEF Resume, SlotsInv, CallersPlaced, PoolTypes, Calls
<1> QED BY <1>1, MissedKeeps, TakeKeeps DEF Resume

\* A waiter whose time is up leaves the queue.
LEMMA WaitTimeoutKeeps ==
  ASSUME SlotsInv, NEW c \in Callers, WaitTimeout(c) PROVE PoolSettled'
<1>1. PICK t \in Transports : t = caller[c].on
  BY DEF WaitTimeout, SlotsInv, CallersPlaced, PoolTypes, Calls
<1>2. PICK i \in DOMAIN waiters[t] :
        waiters[t][i] = c /\ waiters' = [waiters EXCEPT ![t] = RemoveAt(@, i)]
  BY <1>1 DEF WaitTimeout
<1>3. /\ caller \in Calls /\ caller[c].on = t /\ caller[c].pc = "waiting"
      /\ caller' = [caller EXCEPT ![c] = Out]
      /\ UNCHANGED <<transport, active, idle>>
  BY <1>1 DEF WaitTimeout, SlotsInv, PoolTypes
<1>4. /\ \A d \in Callers \ {c} : caller'[d] = caller[d]
      /\ caller'[c] = Out /\ Out.on = NoTransport /\ Out.pc = "out" /\ caller' \in Calls
  BY <1>3 DEF Calls, Out, CallerStates
<1>5. c \in On(t, {"waiting"}) /\ c \notin Holding(t)
  BY <1>3 DEF On, Holding
<1>6. transport[t] = "open" /\ Served(t)
  BY <1>5 DEF SlotsInv, TransportKept, Unserved
<1>7. /\ RemoveAt(waiters[t], i) \in Seq(Callers) /\ IsInjective(RemoveAt(waiters[t], i))
      /\ Range(RemoveAt(waiters[t], i)) = Range(waiters[t]) \ {c}
  BY <1>2, <1>6, QueueShrinks DEF SlotsInv, PoolTypes, Served
<1>8. PoolTypes' /\ CallersPlaced'
  BY <1>2, <1>3, <1>4, <1>7 DEF SlotsInv, PoolTypes, CallersPlaced
<1>9. /\ waiters'[t] = RemoveAt(waiters[t], i)
      /\ \A u \in Transports \ {t} : waiters'[u] = waiters[u]
  BY <1>2 DEF SlotsInv, PoolTypes
<1>10. \A u \in Transports \ {t} : TransportKept(u)'
  BY <1>3, <1>4, <1>9, OthersKept
<1>11. Holding(t)' = Holding(t) /\ On(t, {"waiting"})' = On(t, {"waiting"}) \ {c}
  BY <1>3, <1>4, TunnelsAssumption DEF Holding, On
<1>12. active[t] = MaxChannels /\ Holding(t)' # {}
  <2>1. active[t] = MaxChannels /\ active[t] # 0
    BY <1>2, <1>6, TunnelsAssumption DEF Served
  <2> QED BY <1>6, <1>11, <2>1, FS_EmptySet DEF Served
<1>13. On(t, CallerStates)' # {}
  BY <1>12 DEF Holding, On, CallerStates
<1>14. Served(t)'
  BY <1>3, <1>6, <1>7, <1>9, <1>11, <1>12, <1>13 DEF Served
<1>15. TransportKept(t)'
  BY <1>3, <1>6, <1>14 DEF TransportKept
<1> QED BY <1>8, <1>10, <1>15 DEF PoolSettled

\* The idle timer, the loss of the transport and close evict it as it is.
LEMMA EvictionKeeps ==
  ASSUME SlotsInv, NEW t \in Transports, transport[t] = "open",
         Evict(t, caller, waiters[t])
  PROVE  PoolSettled'
<1>1. Served(t) /\ caller \in Calls /\ CallersPlaced
  BY DEF SlotsInv, TransportKept, PoolTypes
<1>2. \A c \in Callers : c \in Range(waiters[t]) <=> caller[c].on = t /\ caller[c].pc = "waiting"
  BY <1>1 DEF Served, On
<1> QED BY <1>1, <1>2, EvictServes DEF PoolSettled, CallersPlaced

LEMMA ForwardFailsKeeps ==
  ASSUME SlotsInv, NEW c \in Callers, ForwardFails(c) PROVE PoolSettled'
<1>1. PICK t \in Transports : t = caller[c].on
  BY DEF ForwardFails, SlotsInv, CallersPlaced, PoolTypes, Calls
<1>2. PICK f : f = Again(caller, {c})
  OBVIOUS
<1>3. /\ caller[c].on = t /\ caller[c].pc = "forwarding" /\ caller \in Calls
      /\ IF transport[t] = "closed"
         THEN caller' = f /\ UNCHANGED poolVars
         ELSE IF waiters[t] = <<>> THEN Evict(t, f, <<>>)
         ELSE Evict(t, [f EXCEPT ![Head(waiters[t])].pc = "forwarding"], Tail(waiters[t]))
  BY <1>1, <1>2 DEF ForwardFails, SlotsInv, PoolTypes
<1>4. /\ f \in Calls /\ \A d \in Callers \ {c} : f[d] = caller[d]
      /\ f[c].on = NoTransport /\ f[c].pc \in {"out", "asking"}
  BY <1>2, <1>3, AgainLeaves
<1>5. CASE transport[t] = "closed"
  BY <1>2, <1>3, <1>5, MissedKeeps
<1>6. CASE transport[t] # "closed"
  <2>1. transport[t] = "open" /\ Served(t)
    BY <1>3, <1>6 DEF SlotsInv, PoolInv, TransportKept, Unserved, Holding, On
  <2>2. \A d \in Callers :
          d \in Range(waiters[t]) <=> caller[d].on = t /\ caller[d].pc = "waiting"
    BY <2>1 DEF Served, On
  <2>3. CASE waiters[t] = <<>>
    <3>1. Range(waiters[t]) = {} /\ Range(<<>>) = {}
      BY <2>3 DEF Range
    <3>2. Evict(t, f, <<>>)
      BY <1>3, <1>6, <2>3
    <3>3. \A d \in Callers : f[d].on = t /\ f[d].pc = "waiting" => d \in Range(<<>>)
      BY <1>4, <2>2, <3>1
    <3> QED BY <1>3, <1>4, <3>1, <3>2, <3>3, EvictServes DEF PoolSettled, SlotsInv, CallersPlaced
  <2>4. CASE waiters[t] # <<>>
    <3>1. PICK h \in Callers : h = Head(waiters[t])
      BY <2>1, <2>4, QueueServed DEF SlotsInv, PoolTypes, Served
    <3>2. /\ h \in Range(waiters[t]) /\ Range(Tail(waiters[t])) = Range(waiters[t]) \ {h}
      BY <2>1, <2>4, <3>1, QueueServed DEF SlotsInv, PoolTypes, Served
    <3>3. h # c /\ caller[h].on = t /\ f[h] = caller[h]
      BY <1>3, <1>4, <2>2, <3>2
    <3>4. PICK g : g = [f EXCEPT ![h].pc = "forwarding"]
      OBVIOUS
    <3>5. /\ g \in Calls /\ \A d \in Callers \ {h} : g[d] = f[d]
          /\ g[h].on = t /\ g[h].pc = "forwarding"
      BY <1>4, <3>3, <3>4 DEF Calls, CallerStates
    <3>6. Evict(t, g, Tail(waiters[t]))
      BY <1>3, <1>6, <2>4, <3>1, <3>4
    <3>7. \A d \in Callers : \/ g[d] = caller[d]
                             \/ {caller[d].on, g[d].on} \subseteq {t, NoTransport}
      BY <1>3, <1>4, <3>3, <3>5
    <3>8. \A d \in Callers : g[d].on = NoTransport <=> g[d].pc \in {"out", "asking"}
      BY <1>4, <3>5, TunnelsAssumption DEF SlotsInv, CallersPlaced
    <3>9. \A d \in Callers : d \in Range(Tail(waiters[t])) =>  g[d].on = t
      BY <1>3, <1>4, <2>2, <3>2, <3>5
    <3>10. \A d \in Callers :
             g[d].on = t /\ g[d].pc = "waiting" => d \in Range(Tail(waiters[t]))
      BY <1>4, <2>2, <3>2, <3>5, TunnelsAssumption
    <3> QED BY <3>5, <3>6, <3>7, <3>8, <3>9, <3>10, EvictServes DEF PoolSettled
  <2> QED BY <2>3, <2>4
<1> QED BY <1>5, <1>6

\* releaseChannel: the slot is free, or the first waiter has it.
LEMMA ReleaseKeeps ==
  ASSUME SlotsInv, NEW c \in Callers, NEW t \in Transports, NEW f,
         caller[c].on = t, caller[c].pc = "open", transport[t] = "open",
         f = [caller EXCEPT ![c] = Out], Release(t, f)
  PROVE  PoolSettled'
<1>1. Served(t) /\ caller \in Calls /\ CallersPlaced
  BY DEF SlotsInv, TransportKept, PoolTypes
<1>2. /\ f \in Calls /\ \A d \in Callers \ {c} : f[d] = caller[d]
      /\ f[c].on = NoTransport /\ f[c].pc = "out"
  BY <1>1 DEF Calls, Out, CallerStates
<1>3. c \in Holding(t) /\ IsFiniteSet(Holding(t))
  <2>1. c \in Holding(t)
    BY DEF Holding, On
  <2> QED BY <2>1, OnFinite DEF Holding
<1>4. Cardinality(Holding(t)) \in Nat \ {0}
  BY <1>3, FS_CardinalityType, FS_EmptySet
<1>5. active[t] \in Nat \ {0} /\ ~idle[t]
  BY <1>1, <1>4 DEF Served
<1>6. CASE waiters[t] = <<>>
  <2>1. /\ active' = [active EXCEPT ![t] = @ - 1]
        /\ idle' = [idle EXCEPT ![t] = @ \/ active[t] = 1]
        /\ caller' = f /\ UNCHANGED <<waiters, transport>>
    BY <1>6 DEF Release
  <2>2. PoolTypes' /\ CallersPlaced'
    BY <1>1, <1>2, <1>5, <2>1 DEF SlotsInv, PoolTypes, CallersPlaced
  <2>3. /\ active'[t] = active[t] - 1 /\ (idle'[t] <=> active[t] = 1)
        /\ \A u \in Transports \ {t} : active'[u] = active[u] /\ idle'[u] = idle[u]
    BY <1>5, <2>1 DEF SlotsInv, PoolTypes
  <2>4. \A u \in Transports \ {t} : TransportKept(u)'
    BY <1>2, <2>1, <2>3, OthersKept
  <2>5. Holding(t)' = Holding(t) \ {c} /\ On(t, {"waiting"})' = On(t, {"waiting"})
    BY <1>2, <2>1, TunnelsAssumption DEF Holding, On
  <2>6. active'[t] = Cardinality(Holding(t)')
    <3>1. Cardinality(Holding(t) \ {c}) = Cardinality(Holding(t)) - 1
      BY <1>3, FS_RemoveElement
    <3> QED BY <1>1, <2>3, <2>5, <3>1 DEF Served
  <2>7. On(t, CallerStates)' = {} => idle'[t]
    <3>1. Holding(t)' \subseteq On(t, CallerStates)'
      BY DEF Holding, On, CallerStates
    <3>2. On(t, CallerStates)' = {} => active'[t] = 0
      BY <2>6, <3>1, FS_EmptySet
    <3> QED BY <1>5, <2>3, <3>2
  <2>8. /\ waiters'[t] = <<>> /\ waiters'[t] = waiters[t]
        /\ idle'[t] => active'[t] = 0
        /\ active'[t] <= MaxChannels
    <3>1. active[t] <= MaxChannels /\ MaxChannels \in Nat
      BY <1>1, TunnelsAssumption DEF Served
    <3> QED BY <1>5, <1>6, <2>1, <2>3, <3>1
  <2>9. Served(t)'
    BY <1>1, <2>5, <2>6, <2>7, <2>8 DEF Served
  <2>10. TransportKept(t)'
    BY <2>1, <2>9 DEF TransportKept
  <2> QED BY <2>2, <2>4, <2>10 DEF PoolSettled
<1>7. CASE waiters[t] # <<>>
  <2>1. PICK h \in Callers : h = Head(waiters[t])
    BY <1>1, <1>7, QueueServed DEF SlotsInv, PoolTypes, Served
  <2>2. /\ h \in Range(waiters[t]) /\ Tail(waiters[t]) \in Seq(Callers)
        /\ IsInjective(Tail(waiters[t])) /\ Range(Tail(waiters[t])) = Range(waiters[t]) \ {h}
    BY <1>1, <1>7, <2>1, QueueServed DEF SlotsInv, PoolTypes, Served
  <2>3. h # c /\ caller[h].on = t /\ caller[h].pc = "waiting" /\ f[h] = caller[h]
    BY <1>1, <1>2, <2>2 DEF Served, On
  <2>4. /\ caller' = [f EXCEPT ![h].pc = "forwarding"]
        /\ waiters' = [waiters EXCEPT ![t] = Tail(@)]
        /\ UNCHANGED <<active, idle, transport>>
    BY <1>7, <2>1 DEF Release
  <2>5. /\ caller' \in Calls /\ \A d \in Callers \ {h} : caller'[d] = f[d]
        /\ caller'[h].on = t /\ caller'[h].pc = "forwarding"
    BY <1>2, <2>3, <2>4 DEF Calls, CallerStates
  <2>6. PoolTypes' /\ CallersPlaced'
    <3>1. PoolTypes'
      BY <2>2, <2>4, <2>5 DEF SlotsInv, PoolTypes
    <3>2. CallersPlaced'
      BY <1>1, <1>2, <2>5, TunnelsAssumption DEF CallersPlaced
    <3> QED BY <3>1, <3>2
  <2>7. /\ waiters'[t] = Tail(waiters[t])
        /\ \A u \in Transports \ {t} : waiters'[u] = waiters[u]
    BY <2>4 DEF SlotsInv, PoolTypes
  <2>8. \A d \in Callers : \/ caller'[d] = caller[d]
                           \/ {caller[d].on, caller'[d].on} \subseteq {t, NoTransport}
    BY <1>2, <2>3, <2>5
  <2>9. \A u \in Transports \ {t} : TransportKept(u)'
    BY <2>4, <2>7, <2>8, OthersKept
  <2>10. /\ Holding(t)' = (Holding(t) \ {c}) \cup {h} /\ h \notin Holding(t)
         /\ On(t, {"waiting"})' = On(t, {"waiting"}) \ {h} /\ On(t, CallerStates)' # {}
    BY <1>2, <2>3, <2>5, TunnelsAssumption DEF Holding, On, CallerStates
  <2>11. Cardinality(Holding(t)') = Cardinality(Holding(t))
    <3>1. /\ IsFiniteSet(Holding(t) \ {c})
          /\ Cardinality(Holding(t) \ {c}) = Cardinality(Holding(t)) - 1
      BY <1>3, FS_RemoveElement
    <3>2. Cardinality((Holding(t) \ {c}) \cup {h}) = Cardinality(Holding(t) \ {c}) + 1
      BY <2>10, <3>1, FS_AddElement
    <3> QED BY <1>4, <2>10, <3>1, <3>2
  <2>12. Served(t)'
    BY <1>1, <1>5, <1>7, <2>2, <2>4, <2>7, <2>10, <2>11 DEF Served
  <2>13. TransportKept(t)'
    BY <2>4, <2>12 DEF TransportKept
  <2> QED BY <2>6, <2>9, <2>13 DEF PoolSettled
<1> QED BY <1>6, <1>7

LEMMA ChannelClosesKeeps ==
  ASSUME SlotsInv, NEW c \in Callers, ChannelCloses(c) PROVE PoolSettled'
<1>1. PICK t \in Transports : t = caller[c].on
  BY DEF ChannelCloses, SlotsInv, CallersPlaced, PoolTypes, Calls
<1>2. /\ caller[c].on = t /\ caller[c].pc = "open" /\ caller \in Calls
      /\ IF transport[t] = "closed"
         THEN caller' = [caller EXCEPT ![c] = Out] /\ UNCHANGED poolVars
         ELSE Release(t, [caller EXCEPT ![c] = Out])
  BY <1>1 DEF ChannelCloses, SlotsInv, PoolTypes
<1>3. CASE transport[t] = "closed"
  <2>1. /\ caller' \in Calls /\ \A d \in Callers \ {c} : caller'[d] = caller[d]
        /\ caller'[c].on = NoTransport /\ caller'[c].pc = "out"
        /\ UNCHANGED <<transport, active, waiters, idle>>
    BY <1>2, <1>3 DEF Calls, Out, CallerStates, poolVars
  <2>2. PoolTypes' /\ CallersPlaced'
    BY <2>1 DEF SlotsInv, PoolTypes, CallersPlaced
  <2>3. \A u \in Transports \ {t} : TransportKept(u)'
    BY <1>2, <2>1, OthersKept
  <2>4. Unserved(t)
    BY <1>3 DEF SlotsInv, TransportKept
  <2>5. On(t, {"waiting"})' = {}
    BY <2>1, <2>4, TunnelsAssumption DEF Unserved, On
  <2>6. TransportKept(t)'
    BY <1>3, <2>1, <2>4, <2>5 DEF TransportKept, Unserved
  <2> QED BY <2>2, <2>3, <2>6 DEF PoolSettled
<1>4. CASE transport[t] # "closed"
  <2>1. transport[t] = "open"
    BY <1>2, <1>4 DEF SlotsInv, PoolInv, TransportKept, Unserved, Holding, On
  <2> QED BY <1>2, <2>1, ReleaseKeeps
<1> QED BY <1>3, <1>4

LEMMA SlotsStep == SlotsInv /\ [TunnelsNext]_tunnelVars => SlotsInv'
<1> SUFFICES ASSUME SlotsInv, [TunnelsNext]_tunnelVars PROVE SlotsInv'
  OBVIOUS
<1>1. PoolInv'
  BY PoolStep DEF SlotsInv
<1>2. ASSUME UNCHANGED <<caller, transport, active, waiters, idle>> PROVE PoolSettled'
  <2>1. \A t \in Transports : TransportKept(t)'
    BY <1>2, KeptElsewhere DEF SlotsInv
  <2> QED BY <1>2, <2>1 DEF SlotsInv, PoolSettled, PoolTypes, CallersPlaced
<1>3. ASSUME NEW c \in Callers, OpenTunnel(c) \/ Advance(c) \/ ChannelCloses(c)
      PROVE  PoolSettled'
  BY <1>3, OpenTunnelKeeps, AskKeeps, ResumeKeeps, ForwardedKeeps, ForwardFailsKeeps,
     WaitTimeoutKeeps, ChannelClosesKeeps DEF Advance
<1>4. ASSUME NEW t \in Transports, Connect(t) PROVE PoolSettled'
  BY <1>4, ConnectKeeps
<1>5. ASSUME NEW t \in Transports, IdleTimeout(t) \/ Drop(t) PROVE PoolSettled'
  BY <1>5, EvictionKeeps DEF IdleTimeout, Drop
<1>6. ASSUME CloseBegin \/ CloseEnd PROVE PoolSettled'
  <2>1. \/ \E t \in Transports : transport[t] = "open" /\ Evict(t, caller, waiters[t])
        \/ UNCHANGED <<caller, transport, active, waiters, idle>>
    BY <1>6 DEF CloseBegin, CloseEnd, poolVars
  <2> QED BY <1>2, <2>1, EvictionKeeps
<1>7. ASSUME UNCHANGED tunnelVars PROVE PoolSettled'
  BY <1>2, <1>7 DEF tunnelVars, poolVars
<1>8. PoolSettled'
  BY <1>3, <1>4, <1>5, <1>6, <1>7 DEF TunnelsNext
<1> QED BY <1>1, <1>8 DEF SlotsInv, PoolSettled

\* For any number of callers and channels: the counter of an open transport is the
\* number of callers who hold or await a channel, nobody queues while a slot is
\* free, and a transport that nobody refers to has its idle timer set, whatever
\* opens, fails, times out, is lost or is closed (acquireChannel, releaseChannel,
\* evict).
THEOREM SlotsCounted == TunnelsSpec => []SlotsMatchChannels
  BY SlotsInitially, SlotsStep, SlotsSuffice, PTL DEF TunnelsSpec

-----------------------------------------------------------------------------
(* Running queries and their audit *)


\* A step of q leaves the other queries and their records alone.
Alone(q) ==
  /\ \E r \in QueryRecord : query' = [query EXCEPT ![q] = r]
  /\ \/ UNCHANGED records
     \/ \E told \in Codes \cup {"success"} : WriteRecord(q, told)

LEMMA CodeTyped ==
  ASSUME QueriesTypeOK, NEW q \in Queries PROVE Code(q) \in Codes
  BY DEF QueriesTypeOK, QueryRecord, Code, Reasons, Codes

-----------------------------------------------------------------------------
(* Types *)

LEMMA TypedInitially == QueriesInit => QueriesTypeOK
<1> SUFFICES ASSUME QueriesInit PROVE QueriesTypeOK
  OBVIOUS
<1>1. (CHOOSE n \in Names : TRUE) \in Names
  BY QueriesAssumption
<1> QED BY <1>1, QueriesAssumption
      DEF QueriesInit, QueriesTypeOK, QueryRecord, Registered, Reasons, Codes

\* What a step makes of the rest of the state.
LEMMA Rest ==
  ASSUME QueriesTypeOK, NEW q \in Queries, Alone(q),
         \/ UNCHANGED running \/ Deregister(q) \/ running' = [running EXCEPT ![query[q].name] = q],
         \/ UNCHANGED latest \/ latest' = [latest EXCEPT ![query[q].name] = q],
         UNCHANGED faults \/ Fault,
         UNCHANGED unsure \/ unsure' = unsure \cup {q}
  PROVE  QueriesTypeOK'
<1>1. query' \in [Queries -> QueryRecord]
  BY DEF Alone, QueriesTypeOK
<1>2. records' \in [Queries -> Seq(Codes \cup {"success"})]
  <2>1. CASE UNCHANGED records
    BY <2>1 DEF QueriesTypeOK
  <2>2. ASSUME NEW told \in Codes \cup {"success"}, WriteRecord(q, told)
        PROVE  records' \in [Queries -> Seq(Codes \cup {"success"})]
    <3>1. /\ records \in [Queries -> Seq(Codes \cup {"success"})]
          /\ records[q] \in Seq(Codes \cup {"success"})
      BY DEF QueriesTypeOK
    <3>2. Append(records[q], told) \in Seq(Codes \cup {"success"})
      BY <3>1, <2>2
    <3> QED BY <3>1, <3>2, <2>2 DEF WriteRecord
  <2> QED BY <2>1, <2>2 DEF Alone
<1>3. faults' \in 0..MaxFaults
  BY QueriesAssumption DEF QueriesTypeOK, Fault
<1>4. /\ running' \in [Names -> Queries \cup {NoQuery}]
      /\ latest' \in [Names -> Queries \cup {NoQuery}]
      /\ unsure' \subseteq Queries
  BY ZenonT(40) DEF QueriesTypeOK, Deregister
<1> QED BY <1>1, <1>2, <1>3, <1>4 DEF QueriesTypeOK

\* Every step of a query is one of its own.
LEMMA TypedStep == QueriesTypeOK /\ [QueriesNext]_queryVars => QueriesTypeOK'
<1> SUFFICES ASSUME QueriesTypeOK, [QueriesNext]_queryVars PROVE QueriesTypeOK'
  OBVIOUS
<1>1. CASE UNCHANGED queryVars
  BY <1>1 DEF queryVars, QueriesTypeOK
<1>2. ASSUME NEW q \in Queries PROVE query[q] \in QueryRecord /\ Code(q) \in Codes
  BY CodeTyped DEF QueriesTypeOK
<1>3. ASSUME NEW q \in Queries, NEW n \in Names, NEW streamed \in BOOLEAN, Submit(q, n, streamed)
      PROVE  QueriesTypeOK'
  <2>1. Alone(q)
    BY <1>2, <1>3 DEF Submit, Alone, QueryRecord
  <2> QED BY <1>3, <2>1, Rest DEF Submit
<1>4. ASSUME NEW q \in Queries, Resolve(q) PROVE QueriesTypeOK'
  <2>1. Alone(q)
    BY <1>2, <1>4 DEF Resolve, Move, Alone, QueryRecord, Registered
  <2> QED BY <1>4, <2>1, Rest DEF Resolve
<1>5. ASSUME NEW q \in Queries, ResolveError(q) PROVE QueriesTypeOK'
  <2>1. Alone(q)
    BY <1>2, <1>5, ZenonT(40) DEF ResolveError, Tell, Alone, QueryRecord
  <2> QED BY <1>5, <2>1, Rest DEF ResolveError
<1>6. ASSUME NEW q \in Queries, NEW reason \in {"timeout", "cancelled"}, Abort(q, reason)
      PROVE  QueriesTypeOK'
  <2>1. Alone(q)
    BY <1>2, <1>6 DEF Abort, Alone, QueryRecord, Reasons
  <2> QED BY <1>6, <2>1, Rest DEF Abort
<1>7. ASSUME NEW q \in Queries, NextRow(q) \/ Answered(q) \/ Released(q) PROVE QueriesTypeOK'
  <2>1. Alone(q)
    BY <1>2, <1>7 DEF NextRow, Answered, Released, Move, Alone, QueryRecord, Registered
  <2> QED BY <1>7, <2>1, Rest DEF NextRow, Answered, Released
<1>8. ASSUME NEW q \in Queries, Fails(q) PROVE QueriesTypeOK'
  <2> DEFINE r == [query[q] EXCEPT !.pc = "failing", !.code = Code(q)]
  <2>1. r \in QueryRecord
    BY <1>2 DEF QueryRecord, Registered
  <2>2. query' = [query EXCEPT ![q] = r]
    BY <1>8 DEF Fails, QueriesTypeOK
  <2>3. Alone(q)
    BY <1>8, <2>1, <2>2 DEF Fails, Alone
  <2> QED BY <1>8, <2>3, Rest DEF Fails
<1>9. ASSUME NEW q \in Queries, Busy(q) PROVE QueriesTypeOK'
  <2> DEFINE pc == IF query[q].streamed THEN "leaving" ELSE "over"
             r == [query[q] EXCEPT !.pc = pc, !.told = "busy"]
  <2>1. r \in QueryRecord
    BY <1>2 DEF QueryRecord
  <2>2. query' = [query EXCEPT ![q] = r]
    BY <1>9 DEF Busy, QueriesTypeOK
  <2>3. Alone(q)
    BY <1>9, <2>1, <2>2 DEF Busy, Alone
  <2> QED BY <1>9, <2>3, Rest DEF Busy
<1>10. ASSUME NEW q \in Queries, Read(q) \/ LeaveStream(q) PROVE QueriesTypeOK'
  <2>1. Alone(q)
    BY <1>2, <1>10 DEF Read, LeaveStream, Move, Tell, Alone, QueryRecord, Registered
  <2> QED BY <1>10, <2>1, Rest DEF Read, LeaveStream
<1>11. ASSUME NEW q \in Queries, RecordSuccess(q) PROVE QueriesTypeOK'
  <2>1. Alone(q)
    BY <1>2, <1>11 DEF RecordSuccess, Move, Tell, Alone, QueryRecord, Registered
  <2> QED BY <1>11, <2>1, Rest DEF RecordSuccess
<1>12. ASSUME NEW q \in Queries, RecordCode(q) \/ RecordLeft(q) PROVE QueriesTypeOK'
  <2>1. Alone(q)
    BY <1>2, <1>12 DEF RecordCode, RecordLeft, Move, Tell, Alone, QueryRecord, Codes
  <2> QED BY <1>12, <2>1, Rest DEF RecordCode, RecordLeft
<1>13. ASSUME NEW q \in Queries, RecordError(q) PROVE QueriesTypeOK'
  <2>1. \E r \in QueryRecord : query' = [query EXCEPT ![q] = r]
    BY <1>2, <1>13 DEF RecordError, Move, QueryRecord, Registered
  <2>2. UNCHANGED records \/ \E told \in Codes \cup {"success"} : WriteRecord(q, told)
    BY <1>2, <1>13 DEF RecordError, QueryRecord, Codes
  <2> QED BY <1>13, <2>1, <2>2, Rest DEF RecordError, Alone
<1> QED BY <1>1, <1>3, <1>4, <1>5, <1>6, <1>7, <1>8, <1>9, <1>10, <1>11, <1>12, <1>13
        DEF QueriesNext

\* For any number of queries and identifiers every variable keeps its type.
THEOREM QueriesTyped == QueriesSpec => []QueriesTypeOK
  BY TypedInitially, TypedStep, PTL DEF QueriesSpec
-----------------------------------------------------------------------------
(* Cancelling *)

\* What is known of the last query under an identifier: it bears it, and it has
\* been in the map.
LatestNamed ==
  \A n \in Names : latest[n] # NoQuery =>
    /\ query[latest[n]].name = n
    /\ query[latest[n]].pc \notin {"idle", "resolving"}

CancelInv == QueriesTypeOK /\ LatestNamed /\ LatestReachable

LEMMA CancelInitially == QueriesInit => CancelInv
  BY TypedInitially DEF QueriesInit, CancelInv, LatestNamed, LatestReachable

\* A query that stays in the map.
LEMMA StaysCancellable ==
  ASSUME CancelInv, QueriesTypeOK', NEW q \in Queries, UNCHANGED <<running, latest>>,
         \A p \in Queries \ {q} : query'[p] = query[p],
         query[q].pc \in Registered, query'[q].pc \in Registered,
         query'[q].name = query[q].name
  PROVE  CancelInv'
<1>1. \A p \in Queries : query'[p].pc \in Registered <=> query[p].pc \in Registered
  OBVIOUS
<1>2. LatestReachable'
  BY <1>1 DEF CancelInv, QueriesTypeOK, LatestReachable
<1>3. LatestNamed'
  BY DEF CancelInv, QueriesTypeOK, LatestNamed, Registered
<1> QED BY <1>2, <1>3 DEF CancelInv

\* A query that is not in the map, before or after.
LEMMA StaysOutside ==
  ASSUME CancelInv, QueriesTypeOK', NEW q \in Queries, UNCHANGED <<running, latest>>,
         \A p \in Queries \ {q} : query'[p] = query[p],
         query[q].pc \notin Registered, query'[q].pc \notin Registered,
         \/ query[q].pc \in {"idle", "resolving"}
         \/ query'[q].name = query[q].name /\ query'[q].pc \notin {"idle", "resolving"}
  PROVE  CancelInv'
<1>1. \A p \in Queries : query'[p].pc \in Registered <=> query[p].pc \in Registered
  OBVIOUS
<1>2. LatestReachable'
  BY <1>1 DEF CancelInv, QueriesTypeOK, LatestReachable
<1>3. LatestNamed'
  BY DEF CancelInv, QueriesTypeOK, LatestNamed, Registered
<1> QED BY <1>2, <1>3 DEF CancelInv

\* The finally block takes the query's own entry, and that of no other.
LEMMA LeavesMap ==
  ASSUME CancelInv, QueriesTypeOK', NEW q \in Queries, UNCHANGED latest, Deregister(q),
         \A p \in Queries \ {q} : query'[p] = query[p],
         query[q].pc \in Registered, query'[q].pc \in {"over", "leaving"},
         query'[q].name = query[q].name
  PROVE  CancelInv'
<1>1. query[q].name \in Names
  BY DEF CancelInv, QueriesTypeOK, QueryRecord
<1>2. ASSUME NEW n \in Names
      PROVE  running'[n] = IF latest[n] # NoQuery /\ query'[latest[n]].pc \in Registered
                           THEN latest[n] ELSE NoQuery
  <2>1. CASE latest[n] = q
    <3>1. n = query[q].name /\ running[n] = q
      BY <2>1, QueriesAssumption DEF CancelInv, LatestNamed, LatestReachable
    <3> QED BY <2>1, <3>1 DEF Deregister, CancelInv, QueriesTypeOK, Registered
  <2>2. CASE latest[n] # q
    <3>1. running[n] # q
      BY <2>2, QueriesAssumption DEF CancelInv, LatestReachable
    <3>2. running'[n] = running[n]
      BY <3>1 DEF Deregister, CancelInv, QueriesTypeOK
    <3>3. latest[n] # NoQuery => query'[latest[n]] = query[latest[n]]
      BY <2>2 DEF CancelInv, QueriesTypeOK
    <3> QED BY <3>2, <3>3 DEF CancelInv, LatestReachable
  <2> QED BY <2>1, <2>2
<1>3. LatestReachable'
  BY <1>2 DEF LatestReachable
<1>4. LatestNamed'
  BY DEF CancelInv, QueriesTypeOK, LatestNamed, Registered
<1> QED BY <1>3, <1>4 DEF CancelInv
LEMMA CancelStep == CancelInv /\ [QueriesNext]_queryVars => CancelInv'
<1> SUFFICES ASSUME CancelInv, [QueriesNext]_queryVars PROVE CancelInv'
  OBVIOUS
<1>0. QueriesTypeOK /\ QueriesTypeOK'
  BY TypedStep DEF CancelInv
<1>1. CASE UNCHANGED queryVars
  BY <1>0, <1>1 DEF queryVars, CancelInv, LatestNamed, LatestReachable
<1>2. ASSUME NEW q \in Queries, NEW n \in Names, NEW streamed \in BOOLEAN, Submit(q, n, streamed)
      PROVE  CancelInv'
  BY <1>0, <1>2, StaysOutside, SMTT(30) DEF Submit, At, QueriesTypeOK, Registered
<1>3. ASSUME NEW q \in Queries, Resolve(q) PROVE CancelInv'
  <2>1. /\ query[q].pc = "resolving" /\ query'[q].pc \in Registered
        /\ query'[q].name = query[q].name /\ query[q].name \in Names
        /\ \A p \in Queries \ {q} : query'[p] = query[p]
    BY <1>0, <1>3 DEF Resolve, At, Move, QueriesTypeOK, QueryRecord, Registered
  <2>2. \A n \in Names : latest[n] # q
    BY <2>1, QueriesAssumption DEF CancelInv, LatestNamed
  <2>3. \A n \in Names :
          /\ latest'[n] = IF n = query[q].name THEN q ELSE latest[n]
          /\ running'[n] = IF n = query[q].name THEN q ELSE running[n]
    BY <1>0, <1>3 DEF Resolve, QueriesTypeOK
  <2>4. ASSUME NEW n \in Names
        PROVE  running'[n] = IF latest'[n] # NoQuery /\ query'[latest'[n]].pc \in Registered
                             THEN latest'[n] ELSE NoQuery
    <3>1. CASE n = query[q].name
      BY <2>1, <2>3, <3>1, QueriesAssumption
    <3>2. CASE n # query[q].name
      <4>1. latest'[n] = latest[n] /\ running'[n] = running[n]
        BY <2>3, <3>2
      <4>2. latest[n] # NoQuery => query'[latest[n]] = query[latest[n]]
        BY <1>0, <2>1, <2>2 DEF QueriesTypeOK
      <4> QED BY <4>1, <4>2 DEF CancelInv, LatestReachable
    <3> QED BY <3>1, <3>2
  <2>5. ASSUME NEW n \in Names, latest'[n] # NoQuery
        PROVE  /\ query'[latest'[n]].name = n
               /\ query'[latest'[n]].pc \notin {"idle", "resolving"}
    <3>1. CASE n = query[q].name
      BY <2>1, <2>3, <3>1 DEF Registered
    <3>2. CASE n # query[q].name
      <4>1. latest'[n] = latest[n]
        BY <2>3, <3>2
      <4>2. query'[latest[n]] = query[latest[n]]
        BY <1>0, <2>1, <2>2, <2>5, <4>1 DEF QueriesTypeOK
      <4> QED BY <2>5, <4>1, <4>2 DEF CancelInv, LatestNamed
    <3> QED BY <3>1, <3>2
  <2> QED BY <1>0, <2>4, <2>5 DEF CancelInv, LatestReachable, LatestNamed
<1>4. ASSUME NEW q \in Queries, ResolveError(q) \/ RecordLeft(q) PROVE CancelInv'
  <2>1. /\ query[q].pc \in {"resolving", "leaving"} /\ query'[q].pc = "over"
        /\ query'[q].name = query[q].name
        /\ \A p \in Queries \ {q} : query'[p] = query[p]
    BY <1>0, <1>4 DEF ResolveError, RecordLeft, At, Move, Tell, QueriesTypeOK, QueryRecord, Registered
  <2> QED BY <1>0, <1>4, <2>1, StaysOutside DEF ResolveError, RecordLeft, Registered
<1>5. ASSUME NEW q \in Queries, NEW reason \in {"timeout", "cancelled"}, Abort(q, reason)
      PROVE  CancelInv'
  <2>1. /\ query[q].pc \in Registered /\ query'[q].pc \in Registered
        /\ query'[q].name = query[q].name
        /\ \A p \in Queries \ {q} : query'[p] = query[p]
    BY <1>0, <1>5 DEF Abort, QueriesTypeOK, QueryRecord, Registered
  <2> QED BY <1>0, <1>5, <2>1, StaysCancellable DEF Abort
<1>6. ASSUME NEW q \in Queries, NextRow(q) \/ Answered(q) \/ Released(q) PROVE CancelInv'
  <2>1. /\ query[q].pc \in Registered /\ query'[q].pc \in Registered
        /\ query'[q].name = query[q].name
        /\ \A p \in Queries \ {q} : query'[p] = query[p]
    BY <1>0, <1>6 DEF NextRow, Answered, Released, At, Move, QueriesTypeOK, QueryRecord, Registered
  <2> QED BY <1>0, <1>6, <2>1, StaysCancellable DEF NextRow, Answered, Released
<1>7. ASSUME NEW q \in Queries, Fails(q) PROVE CancelInv'
  <2>1. /\ query[q].pc \in Registered /\ query'[q].pc \in Registered
        /\ query'[q].name = query[q].name
        /\ \A p \in Queries \ {q} : query'[p] = query[p]
    BY <1>0, <1>7 DEF Fails, QueriesTypeOK, QueryRecord, Registered
  <2> QED BY <1>0, <1>7, <2>1, StaysCancellable DEF Fails
<1>8. ASSUME NEW q \in Queries, Busy(q) PROVE CancelInv'
  <2>1. /\ query[q].pc \in Registered /\ query'[q].pc \in {"over", "leaving"}
        /\ query'[q].name = query[q].name
        /\ \A p \in Queries \ {q} : query'[p] = query[p]
    BY <1>0, <1>8 DEF Busy, QueriesTypeOK, QueryRecord, Registered
  <2> QED BY <1>0, <1>8, <2>1, LeavesMap DEF Busy
<1>9. ASSUME NEW q \in Queries, Read(q) PROVE CancelInv'
  <2>1. CASE At(q, "sending")
    <3>1. /\ query[q].pc \in Registered /\ query'[q].pc \in Registered
          /\ query'[q].name = query[q].name
          /\ \A p \in Queries \ {q} : query'[p] = query[p]
      BY <1>0, <1>9, <2>1 DEF Read, At, Move, QueriesTypeOK, QueryRecord, Registered
    <3> QED BY <1>0, <1>9, <2>1, <3>1, StaysCancellable DEF Read, At, Registered
  <2>2. CASE At(q, "summary")
    <3>1. /\ query[q].pc \in Registered /\ query'[q].pc \in {"over", "leaving"}
          /\ query'[q].name = query[q].name
          /\ \A p \in Queries \ {q} : query'[p] = query[p]
      BY <1>0, <1>9, <2>2 DEF Read, At, Tell, QueriesTypeOK, QueryRecord, Registered
    <3> QED BY <1>0, <1>9, <2>2, <3>1, LeavesMap DEF Read, At, Registered
  <2> QED BY <1>9, <2>1, <2>2 DEF Read
<1>10. ASSUME NEW q \in Queries, LeaveStream(q) \/ RecordCode(q) PROVE CancelInv'
  <2>1. /\ query[q].pc \in Registered /\ query'[q].pc \in {"over", "leaving"}
        /\ query'[q].name = query[q].name
        /\ \A p \in Queries \ {q} : query'[p] = query[p]
    BY <1>0, <1>10 DEF LeaveStream, RecordCode, At, Tell, QueriesTypeOK, QueryRecord, Registered
  <2> QED BY <1>0, <1>10, <2>1, LeavesMap DEF LeaveStream, RecordCode
<1>11. ASSUME NEW q \in Queries, RecordSuccess(q) PROVE CancelInv'
  <2>1. CASE query[q].streamed
    <3>1. /\ query[q].pc \in Registered /\ query'[q].pc \in Registered
          /\ query'[q].name = query[q].name
          /\ \A p \in Queries \ {q} : query'[p] = query[p]
      BY <1>0, <1>11, <2>1 DEF RecordSuccess, At, Move, QueriesTypeOK, QueryRecord, Registered
    <3> QED BY <1>0, <1>11, <2>1, <3>1, StaysCancellable DEF RecordSuccess, At, Registered
  <2>2. CASE ~query[q].streamed
    <3>1. /\ query[q].pc \in Registered /\ query'[q].pc \in {"over", "leaving"}
          /\ query'[q].name = query[q].name
          /\ \A p \in Queries \ {q} : query'[p] = query[p]
      BY <1>0, <1>11, <2>2 DEF RecordSuccess, At, Tell, QueriesTypeOK, QueryRecord, Registered
    <3> QED BY <1>0, <1>11, <2>2, <3>1, LeavesMap DEF RecordSuccess, At, Registered
  <2> QED BY <1>11, <2>1, <2>2 DEF RecordSuccess
<1>12. ASSUME NEW q \in Queries, RecordError(q) PROVE CancelInv'
  <2>1. CASE At(q, "succeeding")
    <3>1. /\ query[q].pc \in Registered /\ query'[q].pc \in Registered
          /\ query'[q].name = query[q].name
          /\ \A p \in Queries \ {q} : query'[p] = query[p]
      BY <1>0, <1>12, <2>1 DEF RecordError, At, QueriesTypeOK, QueryRecord, Registered
    <3> QED BY <1>0, <1>12, <2>1, <3>1, StaysCancellable DEF RecordError, At, Registered
  <2>2. CASE At(q, "failing")
    <3>1. /\ query[q].pc \in Registered /\ query'[q].pc \in {"over", "leaving"}
          /\ query'[q].name = query[q].name
          /\ \A p \in Queries \ {q} : query'[p] = query[p]
      BY <1>0, <1>12, <2>2 DEF RecordError, At, QueriesTypeOK, QueryRecord, Registered
    <3> QED BY <1>0, <1>12, <2>2, <3>1, LeavesMap DEF RecordError, At, Registered
  <2>3. CASE At(q, "leaving")
    <3>1. /\ query[q].pc \in {"resolving", "leaving"} /\ query'[q].pc = "over"
          /\ query'[q].name = query[q].name
          /\ \A p \in Queries \ {q} : query'[p] = query[p]
      BY <1>0, <1>12, <2>3 DEF RecordError, At, Move, QueriesTypeOK, QueryRecord, Registered
    <3> QED BY <1>0, <1>12, <2>3, <3>1, StaysOutside DEF RecordError, At, Registered
  <2> QED BY <1>12, <2>1, <2>2, <2>3 DEF RecordError
<1> QED BY <1>1, <1>2, <1>3, <1>4, <1>5, <1>6, <1>7, <1>8, <1>9, <1>10, <1>11, <1>12
        DEF QueriesNext

\* For any number of queries under any number of identifiers: the map finds the query
\* that entered last until it is over, whatever becomes of earlier ones
\* (SqlQueryService: the entry is set after an await, and taken out by its owner).
THEOREM LastCancellable == QueriesSpec => []LatestReachable
<1>1. CancelInv => LatestReachable
  BY DEF CancelInv
<1> QED BY <1>1, CancelInitially, CancelStep, PTL DEF QueriesSpec

-----------------------------------------------------------------------------
(* The audit *)

\* Up to its record a query has none; a stream that only has to send its summary is
\* recorded; one that is left without a record was left by its reader or the gate.
Unrecorded ==
  {"idle", "resolving", "sending", "entered", "releasing", "succeeding", "failing", "leaving"}

Trail ==
  \A q \in Queries \ unsure :
    /\ query[q].pc \in Unrecorded => records[q] = <<>>
    /\ query[q].pc = "summary" => records[q] = <<"success">>
    /\ query[q].pc = "leaving" => query[q].told \in {"left", "busy"}

AuditInv == QueriesTypeOK /\ Trail /\ RecordedAsTold

\* The three together, of one query.
SoundTrail(q) ==
  /\ query[q].pc \in Unrecorded => records[q] = <<>>
  /\ query[q].pc = "summary" => records[q] = <<"success">>
  /\ query[q].pc = "leaving" => query[q].told \in {"left", "busy"}
  /\ At(q, "over") /\ query[q].told \notin {"invalid", "busy"} =>
       records[q] = << CASE query[q].told = "result" -> "success"
                         [] query[q].told = "left" -> "cancelled"
                         [] OTHER -> query[q].told >>

LEMMA AuditByQuery == AuditInv <=> QueriesTypeOK /\ \A q \in Queries \ unsure : SoundTrail(q)
  BY DEF AuditInv, Trail, RecordedAsTold, SoundTrail

LEMMA AuditInitially == QueriesInit => AuditInv
  BY TypedInitially, AuditByQuery DEF QueriesInit, SoundTrail, At

\* A step need only look after the query it is of.
LEMMA AuditOfOne ==
  ASSUME AuditInv, QueriesTypeOK', NEW q \in Queries, UNCHANGED unsure,
         \A p \in Queries \ {q} : query'[p] = query[p] /\ records'[p] = records[p],
         q \notin unsure => SoundTrail(q)'
  PROVE  AuditInv'
<1>1. ASSUME NEW p \in Queries \ unsure PROVE SoundTrail(p)'
  <2>1. CASE p = q
    BY <1>1, <2>1
  <2>2. CASE p # q
    BY <1>1, <2>2, AuditByQuery DEF SoundTrail, At
  <2> QED BY <2>1, <2>2
<1> QED BY <1>1 DEF AuditInv, Trail, RecordedAsTold, SoundTrail
LEMMA AuditStep == AuditInv /\ [QueriesNext]_queryVars => AuditInv'
<1> SUFFICES ASSUME AuditInv, [QueriesNext]_queryVars PROVE AuditInv'
  OBVIOUS
<1>0. QueriesTypeOK /\ QueriesTypeOK' /\ \A q \in Queries \ unsure : SoundTrail(q)
  BY TypedStep, AuditByQuery DEF AuditInv
<1>1. CASE UNCHANGED queryVars
  BY <1>0, <1>1 DEF queryVars, AuditInv, Trail, RecordedAsTold, At
<1>2. ASSUME NEW q \in Queries PROVE query[q].code \in Codes
  BY <1>0 DEF QueriesTypeOK, QueryRecord
<1>3. ASSUME NEW q \in Queries, NEW n \in Names, NEW streamed \in BOOLEAN, Submit(q, n, streamed)
      PROVE  AuditInv'
  <2>1. /\ UNCHANGED unsure
        /\ \A p \in Queries \ {q} : query'[p] = query[p] /\ records'[p] = records[p]
    BY <1>0, <1>3 DEF Submit, QueriesTypeOK
  <2>2. ASSUME q \notin unsure PROVE SoundTrail(q)'
    BY <1>0, <1>3, <2>2 DEF Submit, SoundTrail, At, Unrecorded, QueriesTypeOK
  <2> QED BY <1>0, <2>1, <2>2, AuditOfOne
<1>4. ASSUME NEW q \in Queries, Resolve(q)
      PROVE  AuditInv'
  <2>1. /\ UNCHANGED unsure
        /\ \A p \in Queries \ {q} : query'[p] = query[p] /\ records'[p] = records[p]
    BY <1>0, <1>4 DEF Resolve, Move, QueriesTypeOK
  <2>2. ASSUME q \notin unsure PROVE SoundTrail(q)'
    BY <1>0, <1>4, <2>2 DEF Resolve, Move, SoundTrail, At, Unrecorded, QueriesTypeOK
  <2> QED BY <1>0, <2>1, <2>2, AuditOfOne
<1>5. ASSUME NEW q \in Queries, ResolveError(q)
      PROVE  AuditInv'
  <2>1. /\ UNCHANGED unsure
        /\ \A p \in Queries \ {q} : query'[p] = query[p] /\ records'[p] = records[p]
    BY <1>0, <1>5 DEF ResolveError, Tell, QueriesTypeOK
  <2>2. ASSUME q \notin unsure PROVE SoundTrail(q)'
    BY <1>0, <1>5, <2>2 DEF ResolveError, Tell, SoundTrail, At, Unrecorded, QueriesTypeOK
  <2> QED BY <1>0, <2>1, <2>2, AuditOfOne
<1>6. ASSUME NEW q \in Queries, NEW reason \in {"timeout", "cancelled"}, Abort(q, reason)
      PROVE  AuditInv'
  <2>1. /\ UNCHANGED unsure
        /\ \A p \in Queries \ {q} : query'[p] = query[p] /\ records'[p] = records[p]
    BY <1>0, <1>6 DEF Abort, QueriesTypeOK
  <2>2. ASSUME q \notin unsure PROVE SoundTrail(q)'
    BY <1>0, <1>6, <2>2 DEF Abort, SoundTrail, At, Unrecorded, QueriesTypeOK
  <2> QED BY <1>0, <2>1, <2>2, AuditOfOne
<1>7. ASSUME NEW q \in Queries, NextRow(q) \/ Answered(q) \/ Released(q)
      PROVE  AuditInv'
  <2>1. /\ UNCHANGED unsure
        /\ \A p \in Queries \ {q} : query'[p] = query[p] /\ records'[p] = records[p]
    BY <1>0, <1>7 DEF NextRow, Answered, Released, Move, QueriesTypeOK
  <2>2. ASSUME q \notin unsure PROVE SoundTrail(q)'
    <3>1. /\ query[q].pc \in {"entered", "releasing"}
          /\ query'[q].pc \in {"sending", "releasing", "succeeding"}
          /\ records'[q] = records[q]
      BY <1>0, <1>7 DEF NextRow, Answered, Released, At, Move, QueriesTypeOK, QueryRecord
    <3> QED BY <1>0, <2>2, <3>1 DEF SoundTrail, At, Unrecorded
  <2> QED BY <1>0, <2>1, <2>2, AuditOfOne
<1>8. ASSUME NEW q \in Queries, Fails(q)
      PROVE  AuditInv'
  <2>1. /\ UNCHANGED unsure
        /\ \A p \in Queries \ {q} : query'[p] = query[p] /\ records'[p] = records[p]
    BY <1>0, <1>8 DEF Fails, QueriesTypeOK
  <2>2. ASSUME q \notin unsure PROVE SoundTrail(q)'
    BY <1>0, <1>8, <2>2 DEF Fails, SoundTrail, At, Unrecorded, QueriesTypeOK
  <2> QED BY <1>0, <2>1, <2>2, AuditOfOne
<1>9. ASSUME NEW q \in Queries, Busy(q)
      PROVE  AuditInv'
  <2>1. /\ UNCHANGED unsure
        /\ \A p \in Queries \ {q} : query'[p] = query[p] /\ records'[p] = records[p]
    BY <1>0, <1>9 DEF Busy, QueriesTypeOK
  <2>2. ASSUME q \notin unsure PROVE SoundTrail(q)'
    BY <1>0, <1>9, <2>2 DEF Busy, SoundTrail, At, Unrecorded, QueriesTypeOK
  <2> QED BY <1>0, <2>1, <2>2, AuditOfOne
<1>10. ASSUME NEW q \in Queries, Read(q) \/ LeaveStream(q)
      PROVE  AuditInv'
  <2>1. /\ UNCHANGED unsure
        /\ \A p \in Queries \ {q} : query'[p] = query[p] /\ records'[p] = records[p]
    BY <1>0, <1>10 DEF Read, LeaveStream, Move, Tell, QueriesTypeOK
  <2>2. ASSUME q \notin unsure PROVE SoundTrail(q)'
    <3>1. /\ records'[q] = records[q]
          /\ \/ query[q].pc = "sending" /\ query'[q].pc = "entered"
             \/ query[q].pc = "sending" /\ query'[q].pc = "leaving" /\ query'[q].told = "left"
             \/ query[q].pc = "summary" /\ query'[q].pc = "over" /\ query'[q].told = "result"
      BY <1>0, <1>10 DEF Read, LeaveStream, At, Move, Tell, QueriesTypeOK, QueryRecord
    <3> QED BY <1>0, <2>2, <3>1 DEF SoundTrail, At, Unrecorded
  <2> QED BY <1>0, <2>1, <2>2, AuditOfOne
<1>11. ASSUME NEW q \in Queries, RecordSuccess(q)
      PROVE  AuditInv'
  <2>1. /\ UNCHANGED unsure
        /\ \A p \in Queries \ {q} : query'[p] = query[p] /\ records'[p] = records[p]
    BY <1>0, <1>11 DEF RecordSuccess, WriteRecord, Move, Tell, QueriesTypeOK
  <2>2. ASSUME q \notin unsure PROVE SoundTrail(q)'
    <3>1. /\ query[q].pc = "succeeding"
          /\ \/ query'[q].pc = "summary"
             \/ query'[q].pc = "over" /\ query'[q].told = "result"
      BY <1>0, <1>11 DEF RecordSuccess, At, Move, Tell, QueriesTypeOK, QueryRecord
    <3>2. records[q] = <<>>
      BY <1>0, <2>2, <3>1 DEF SoundTrail, Unrecorded
    <3>3. records'[q] = <<"success">>
      BY <1>0, <1>11, <3>2 DEF RecordSuccess, WriteRecord, QueriesTypeOK
    <3> QED BY <3>1, <3>3 DEF SoundTrail, At, Unrecorded
  <2> QED BY <1>0, <2>1, <2>2, AuditOfOne
<1>12. ASSUME NEW q \in Queries, RecordCode(q)
      PROVE  AuditInv'
  <2>1. /\ UNCHANGED unsure
        /\ \A p \in Queries \ {q} : query'[p] = query[p] /\ records'[p] = records[p]
    BY <1>0, <1>12 DEF RecordCode, WriteRecord, Tell, QueriesTypeOK
  <2>2. ASSUME q \notin unsure PROVE SoundTrail(q)'
    <3>1. query[q].pc = "failing" /\ query'[q].pc = "over" /\ query'[q].told = query[q].code
      BY <1>0, <1>12 DEF RecordCode, At, Tell, QueriesTypeOK
    <3>2. records[q] = <<>>
      BY <1>0, <2>2, <3>1 DEF SoundTrail, Unrecorded
    <3>3. records'[q] = <<query[q].code>>
      BY <1>0, <1>12, <3>2 DEF RecordCode, WriteRecord, QueriesTypeOK
    <3> QED BY <1>2, <3>1, <3>3 DEF SoundTrail, At, Unrecorded, Codes
  <2> QED BY <1>0, <2>1, <2>2, AuditOfOne
<1>13. ASSUME NEW q \in Queries, RecordLeft(q)
      PROVE  AuditInv'
  <2>1. /\ UNCHANGED unsure
        /\ \A p \in Queries \ {q} : query'[p] = query[p] /\ records'[p] = records[p]
    BY <1>0, <1>13 DEF RecordLeft, WriteRecord, Move, QueriesTypeOK
  <2>2. ASSUME q \notin unsure PROVE SoundTrail(q)'
    <3>1. /\ query[q].pc = "leaving" /\ query'[q].pc = "over"
          /\ query'[q].told = query[q].told
      BY <1>0, <1>13 DEF RecordLeft, At, Move, QueriesTypeOK
    <3>2. records[q] = <<>> /\ query[q].told \in {"left", "busy"}
      BY <1>0, <2>2, <3>1 DEF SoundTrail, Unrecorded
    <3>3. records'[q] = <<"cancelled">>
      BY <1>0, <1>13, <3>2 DEF RecordLeft, WriteRecord, QueriesTypeOK
    <3> QED BY <3>1, <3>2, <3>3 DEF SoundTrail, At, Unrecorded
  <2> QED BY <1>0, <2>1, <2>2, AuditOfOne
<1>14. ASSUME NEW q \in Queries, RecordError(q) PROVE AuditInv'
  <2>1. /\ unsure' = unsure \cup {q}
        /\ \A p \in Queries \ {q} : query'[p] = query[p] /\ records'[p] = records[p]
    BY <1>0, <1>14 DEF RecordError, WriteRecord, Move, QueriesTypeOK
  <2>2. ASSUME NEW p \in Queries \ unsure' PROVE SoundTrail(p)'
    BY <1>0, <2>1, <2>2 DEF SoundTrail, At
  <2> QED BY <1>0, <2>2 DEF AuditInv, Trail, RecordedAsTold, SoundTrail
<1> QED BY <1>1, <1>3, <1>4, <1>5, <1>6, <1>7, <1>8, <1>9, <1>10, <1>11, <1>12, <1>13, <1>14
        DEF QueriesNext

\* For any number of queries, faults and readers who leave: one record per query, with
\* the status its user was told, unless the record itself threw
\* (SqlQueryService: `recorded` between catch and finally).
THEOREM OneRecordAsTold == QueriesSpec => []RecordedAsTold
<1>1. AuditInv => RecordedAsTold
  BY DEF AuditInv
<1> QED BY <1>1, AuditInitially, AuditStep, PTL DEF QueriesSpec

-----------------------------------------------------------------------------
(* The roles of the API processes *)


-----------------------------------------------------------------------------
(* Types *)

LEMMA RolesTypedInitially == RolesInit => RolesTypeOK
  BY RolesAssumption DEF RolesInit, RolesTypeOK, NoLease, NoWait, Places, LongestWait

\* A heartbeat that takes effect writes a row.
LEMMA UpsertTyped ==
  ASSUME RolesTypeOK, NEW p \in Processes, Upsert(p)
  PROVE  /\ roleRow' \in [Processes -> [role : {"active", "standby", "none"}, left : -RoleLag..RoleTicks]]
         /\ revived' \subseteq Processes
<1>1. RoleTicks - reading[p] \in -RoleLag..RoleTicks
  BY RolesAssumption DEF RolesTypeOK
<1>2. Granted(p) \in {"active", "standby"}
  BY DEF Granted
<1> QED BY <1>1, <1>2 DEF Upsert, RolesTypeOK

LEMMA RolesTypedStep == RolesTypeOK /\ [RolesNext]_roleVars => RolesTypeOK'
<1> SUFFICES ASSUME RolesTypeOK, [RolesNext]_roleVars PROVE RolesTypeOK'
  OBVIOUS
<1> USE RolesAssumption
<1>0. /\ NoWait \in [Processes -> 0..(LongestWait + 1)]
      /\ LongestWait \in Nat
  BY DEF LongestWait, NoWait
<1>1. CASE UNCHANGED roleVars
  BY <1>1 DEF roleVars, RolesTypeOK
<1>2. ASSUME NEW p \in Processes, Boot(p) \/ Fire(p) PROVE RolesTypeOK'
  BY <1>2 DEF Boot, Fire, RolesTypeOK, Places
<1>3. ASSUME NEW p \in Processes, Heartbeat(p) PROVE RolesTypeOK'
  <2>1. Granted(p) \in {"active", "standby"} /\ Settled(p) \in Places
    BY DEF Granted, Settled, Places
  <2>2. /\ roleRow' \in [Processes -> [role : {"active", "standby", "none"}, left : -RoleLag..RoleTicks]]
        /\ revived' \subseteq Processes
    BY <1>3, UpsertTyped DEF Heartbeat
  <2>3. waited' \in [Processes -> 0..(LongestWait + 1)]
    BY <1>0, <1>3 DEF Heartbeat, RolesTypeOK
  <2>4. place' \in [Processes -> Places] /\ believed' \in [Processes -> {"active", "standby"}]
    BY <1>3, <2>1 DEF Heartbeat, RolesTypeOK, Places
  <2>5. reading' \in [Processes -> 0..RoleLag] /\ untilBeat' \in [Processes -> -1..RoleBeat]
    BY <1>3 DEF Heartbeat, RolesTypeOK
  <2> QED BY <1>3, <2>2, <2>3, <2>4, <2>5 DEF Heartbeat, RolesTypeOK
<1>4. ASSUME NEW p \in Processes, HeartbeatError(p) PROVE RolesTypeOK'
  <2>1. Settled(p) \in Places
    BY DEF Settled, Places
  <2>2. /\ roleRow' \in [Processes -> [role : {"active", "standby", "none"}, left : -RoleLag..RoleTicks]]
        /\ revived' \subseteq Processes
    BY <1>4, UpsertTyped DEF HeartbeatError, RolesTypeOK
  <2>3. place' \in [Processes -> Places]
    BY <1>4, <2>1 DEF HeartbeatError, RolesTypeOK, Places
  <2>4. reading' \in [Processes -> 0..RoleLag] /\ outages' \in 0..MaxOutages
    BY <1>4 DEF HeartbeatError, Outage, RolesTypeOK
  <2> QED BY <1>0, <1>4, <2>2, <2>3, <2>4 DEF HeartbeatError, RolesTypeOK
<1>5. ASSUME NEW p \in Processes, WorkerStops(p) \/ Retire(p) PROVE RolesTypeOK'
  <2>1. Settled(p) \in Places
    BY DEF Settled, Places
  <2> QED BY <1>5, <2>1 DEF WorkerStops, Retire, RolesTypeOK, Places
<1>6. ASSUME NEW p \in Processes, StopRequested(p) PROVE RolesTypeOK'
  BY <1>0, <1>6 DEF StopRequested, Ending, RolesTypeOK, Places
<1>7. ASSUME NEW p \in Processes, ReleaseRole(p) \/ ReleaseRoleError(p) \/ Die(p)
      PROVE  RolesTypeOK'
  <2>1. NoLease \in [role : {"active", "standby", "none"}, left : -RoleLag..RoleTicks]
    BY DEF NoLease
  <2>2. CASE ReleaseRole(p)
    BY <2>1, <2>2 DEF ReleaseRole, RolesTypeOK, Places
  <2>3. CASE ReleaseRoleError(p)
    BY <2>1, <2>3 DEF ReleaseRoleError, Gone, Outage, RolesTypeOK, Places
  <2>4. CASE Die(p)
    BY <1>0, <2>4 DEF Die, Gone, Ending, RolesTypeOK, Places
  <2> QED BY <1>7, <2>2, <2>3, <2>4
<1>8. CASE RolesTick
  <2>1. \A p \in Processes : roleRow[p].left # -RoleLag => roleRow[p].left - 1 \in -RoleLag..RoleTicks
    <3> TAKE p \in Processes
    <3>1. roleRow[p].left \in -RoleLag..RoleTicks
      BY DEF RolesTypeOK
    <3> QED BY <3>1
  <2>2. roleRow' \in [Processes -> [role : {"active", "standby", "none"}, left : -RoleLag..RoleTicks]]
    BY <1>8, <2>1 DEF RolesTick, RolesTypeOK
  <2>3. reading' \in [Processes -> 0..RoleLag] /\ untilBeat' \in [Processes -> -1..RoleBeat]
    <3>1. RoleLag \in Nat /\ RoleBeat \in Nat
      OBVIOUS
    <3>2. \A p \in Processes : reading[p] \in 0..RoleLag /\ untilBeat[p] \in -1..RoleBeat
      BY DEF RolesTypeOK
    <3> HIDE RolesAssumption
    <3> QED BY <1>8, <3>1, <3>2 DEF RolesTick
  <2>3a. \A p \in Processes : waited[p] \in 0..(LongestWait + 1)
    BY DEF RolesTypeOK
  <2>4. waited' \in [Processes -> 0..(LongestWait + 1)]
    BY <1>0, <1>8, <2>3a DEF RolesTick
  <2> QED BY <1>8, <2>2, <2>3, <2>4 DEF RolesTick, RolesTypeOK
<1> QED BY <1>1, <1>2, <1>3, <1>4, <1>5, <1>6, <1>7, <1>8 DEF RolesNext

-----------------------------------------------------------------------------
(* The limit *)

\* The places: rows that have not run out and were not kept too long.
PlacesHeld == {p \in Processes \ revived : roleRow[p].role = "active" /\ UnexpiredRole(p, 0)}

LimitInv == RolesTypeOK /\ Cardinality(PlacesHeld) <= ActiveLimit

LEMMA PlacesHeldFinite == IsFiniteSet(PlacesHeld) /\ Cardinality(PlacesHeld) \in Nat
  BY RolesAssumption, FS_Subset, FS_CardinalityType DEF PlacesHeld

\* Most steps only give places up.
LEMMA FewerPlacesHeld ==
  ASSUME LimitInv, RolesTypeOK', PlacesHeld' \subseteq PlacesHeld
  PROVE  LimitInv'
<1>1. /\ IsFiniteSet(PlacesHeld') /\ Cardinality(PlacesHeld') \in Nat
      /\ Cardinality(PlacesHeld') <= Cardinality(PlacesHeld)
  BY PlacesHeldFinite, FS_Subset, FS_CardinalityType
<1> QED BY <1>1, PlacesHeldFinite, RolesAssumption DEF LimitInv
\* A heartbeat counts the others' rows, more of them than are held, before it takes a
\* place; a place it keeps is either held or one of `revived`.
LEMMA UpsertHoldsLimit ==
  ASSUME LimitInv, RolesTypeOK', NEW p \in Processes, Upsert(p)
  PROVE  LimitInv'
<1> USE RolesAssumption
<1>1. /\ reading[p] \in Nat /\ RoleTicks - reading[p] \in Int
      /\ \A q \in Processes : roleRow[q].left \in Int
  BY DEF LimitInv, RolesTypeOK
<1>2. /\ roleRow'[p] = [role |-> Granted(p), left |-> RoleTicks - reading[p]]
      /\ \A q \in Processes \ {p} : roleRow'[q] = roleRow[q]
      /\ revived \subseteq revived' \cup {p}
  BY DEF Upsert, LimitInv, RolesTypeOK
<1>3. PlacesHeld' \subseteq PlacesHeld \cup {p}
  BY <1>2 DEF PlacesHeld, UnexpiredRole
<1>4. CASE Remains(p)
  <2>1. p \notin revived' => p \in PlacesHeld
    BY <1>4 DEF Upsert, Remains, PlacesHeld
  <2>2. PlacesHeld' \subseteq PlacesHeld
    BY <1>3, <2>1 DEF PlacesHeld
  <2> QED BY <2>2, FewerPlacesHeld
<1>5. CASE ~Remains(p) /\ Granted(p) = "standby"
  <2>1. p \notin PlacesHeld'
    BY <1>2, <1>5 DEF PlacesHeld
  <2> QED BY <1>3, <2>1, FewerPlacesHeld
<1>6. CASE ~Remains(p) /\ Granted(p) = "active"
  <2> DEFINE others == {q \in Processes \ {p} :
                          roleRow[q].role = "active" /\ UnexpiredRole(q, reading[p])}
  <2>1. Cardinality(others) < ActiveLimit
    BY <1>6 DEF Granted
  <2>2. IsFiniteSet(others) /\ Cardinality(others) \in Nat
    BY FS_Subset, FS_CardinalityType
  <2>3. PlacesHeld \ {p} \subseteq others
    BY <1>1 DEF PlacesHeld, UnexpiredRole
  <2>4. PlacesHeld' \subseteq others \cup {p}
    BY <1>3, <2>3
  <2>5. IsFiniteSet(others \cup {p}) /\ Cardinality(others \cup {p}) <= Cardinality(others) + 1
    <3>1. Cardinality(others \cup {p}) = IF p \in others THEN Cardinality(others)
                                          ELSE Cardinality(others) + 1
      BY <2>2, FS_AddElement
    <3> HIDE DEF others
    <3> QED BY <2>2, <3>1, FS_AddElement
  <2>6. /\ IsFiniteSet(PlacesHeld') /\ Cardinality(PlacesHeld') \in Nat
        /\ Cardinality(PlacesHeld') <= Cardinality(others \cup {p})
    BY <2>4, <2>5, FS_Subset, FS_CardinalityType
  <2>7. Cardinality(others \cup {p}) \in Nat
    BY <2>5, FS_CardinalityType
  <2> HIDE DEF others
  <2>8. Cardinality(PlacesHeld') <= ActiveLimit
    BY <2>1, <2>2, <2>5, <2>6, <2>7
  <2> QED BY <2>8 DEF LimitInv
<1> QED BY <1>4, <1>5, <1>6 DEF Granted

LEMMA LimitInitially == RolesInit => LimitInv
<1> SUFFICES ASSUME RolesInit PROVE LimitInv
  OBVIOUS
<1>1. PlacesHeld = {}
  BY DEF RolesInit, PlacesHeld, NoLease
<1> QED BY <1>1, RolesTypedInitially, RolesAssumption, FS_EmptySet DEF LimitInv

LEMMA LimitStep == LimitInv /\ [RolesNext]_roleVars => LimitInv'
<1> SUFFICES ASSUME LimitInv, [RolesNext]_roleVars PROVE LimitInv'
  OBVIOUS
<1>0. RolesTypeOK /\ RolesTypeOK'
  BY RolesTypedStep DEF LimitInv
<1>1. ASSUME UNCHANGED <<roleRow, revived>> PROVE LimitInv'
  BY <1>0, <1>1, FewerPlacesHeld DEF PlacesHeld, UnexpiredRole
<1>2. ASSUME NEW p \in Processes, Boot(p) \/ Fire(p) \/ WorkerStops(p) \/ StopRequested(p)
                                  \/ Retire(p) \/ Die(p)
      PROVE  LimitInv'
  BY <1>1, <1>2 DEF Boot, Fire, WorkerStops, StopRequested, Retire, Die
<1>3. ASSUME NEW p \in Processes, Heartbeat(p) \/ HeartbeatError(p) PROVE LimitInv'
  BY <1>0, <1>1, <1>3, UpsertHoldsLimit DEF Heartbeat, HeartbeatError
<1>4. ASSUME NEW p \in Processes, ReleaseRole(p) \/ ReleaseRoleError(p) PROVE LimitInv'
  <2>1. CASE ReleaseRoleError(p) /\ UNCHANGED roleRow
    BY <1>1, <2>1 DEF ReleaseRoleError
  <2>2. CASE roleRow' = [roleRow EXCEPT ![p] = NoLease]
    <3>1. roleRow'[p].role = "none" /\ \A q \in Processes \ {p} : roleRow'[q] = roleRow[q]
      BY <1>0, <2>2 DEF RolesTypeOK, NoLease
    <3>2. PlacesHeld' \subseteq PlacesHeld
      BY <1>4, <3>1 DEF ReleaseRole, ReleaseRoleError, PlacesHeld, UnexpiredRole
    <3> QED BY <1>0, <3>2, FewerPlacesHeld
  <2> QED BY <1>4, <2>1, <2>2 DEF ReleaseRole, ReleaseRoleError
<1>5. CASE RolesTick
  <2>1. \A q \in Processes :
          /\ roleRow'[q].role = roleRow[q].role
          /\ roleRow'[q].left + 0 > 0 => roleRow[q].left + 0 > 0
    BY <1>0, <1>5, RolesAssumption DEF RolesTick, RolesTypeOK
  <2>2. PlacesHeld' \subseteq PlacesHeld
    BY <1>5, <2>1 DEF RolesTick, PlacesHeld, UnexpiredRole
  <2> QED BY <1>0, <2>2, FewerPlacesHeld
<1>6. CASE UNCHANGED roleVars
  BY <1>1, <1>6 DEF roleVars
<1> QED BY <1>2, <1>3, <1>4, <1>5, <1>6 DEF RolesNext

\* For any number of processes, any limit, any lease and any lag of the metadata store,
\* whatever throws, stops or dies: the places that are held in time are no more than the
\* limit (KyselyInstanceRoleRepository.heartbeat).
THEOREM PlacesBounded == RolesSpec => []ActiveWithinLimit
<1>1. LimitInv => ActiveWithinLimit
  <2> SUFFICES ASSUME LimitInv PROVE ActiveWithinLimit
    OBVIOUS
  <2> DEFINE seen ==
        {p \in ActiveNow \ revived : roleRow[p].role = "active" /\ UnexpiredRole(p, 0)}
  <2>1. seen \subseteq PlacesHeld
    BY DEF ActiveNow, PlacesHeld
  <2>2. IsFiniteSet(seen) /\ Cardinality(seen) \in Nat /\ Cardinality(seen) <= Cardinality(PlacesHeld)
    BY <2>1, PlacesHeldFinite, FS_Subset, FS_CardinalityType
  <2>3. Cardinality(seen) <= ActiveLimit
    BY <2>2, PlacesHeldFinite, RolesAssumption DEF LimitInv
  <2> QED BY <2>3 DEF ActiveWithinLimit
<1> QED BY <1>1, LimitInitially, LimitStep, PTL DEF RolesSpec

-----------------------------------------------------------------------------
(* The wait of a standby process *)

\* The longest a process has waited when its next call begins.
WaitBound == RoleTicks + RoleBeat + (IF RoleLag < RoleBeat THEN 0 ELSE RoleLag)

\* Where a process is tells whether its timer is set and which role it believes in.
TimersPlaced ==
  \A p \in Processes :
    /\ place[p] \in {"off", "booting", "releasing", "retiring"} => untilBeat[p] = -1
    /\ place[p] \in {"off", "booting"} => believed[p] = "standby"
    /\ place[p] = "demoting" => believed[p] = "active"
    /\ waited[p] > 0 => untilBeat[p] # -1 /\ believed[p] = "standby"
    /\ place[p] \notin Calling => reading[p] = 0

\* Process q stands in the way of one that has waited w ticks: it is active, or it left a
\* row that has been renewed since the wait began.
Blocks(q, w) ==
  \/ believed[q] = "active" /\ place[q] # "retiring"
  \/ /\ roleRow[q].role = "active"
     /\ roleRow[q].left + w > RoleTicks /\ roleRow[q].left > -RoleLag

Blocking(w) == {q \in Processes : Blocks(q, w)}

\* Rows renewed since the wait began do not make up the limit.
Room == \A p \in Processes : waited[p] > 0 => Cardinality(Blocking(waited[p])) < ActiveLimit

\* The wait is short enough for the timer, and for the call that is under way.
Paced(p) ==
  untilBeat[p] # -1 /\ believed[p] = "standby" =>
    /\ place[p] = "idle" => waited[p] + untilBeat[p] <= WaitBound
    /\ place[p] = "asking" =>
         /\ waited[p] - reading[p] <= WaitBound
         /\ RoleLag < RoleBeat => untilBeat[p] + reading[p] = RoleBeat

WaitInv == RolesTypeOK /\ TimersPlaced /\ Room /\ \A p \in Processes : Paced(p)

\* What the types say of one process.
LEMMA ProcessTyped ==
  ASSUME RolesTypeOK, NEW p \in Processes
  PROVE  /\ roleRow[p].role \in {"active", "standby", "none"} /\ roleRow[p].left \in Int
         /\ roleRow[p].left >= -RoleLag /\ roleRow[p].left <= RoleTicks
         /\ place[p] \in Places /\ believed[p] \in {"active", "standby"}
         /\ reading[p] \in Nat /\ reading[p] <= RoleLag
         /\ untilBeat[p] \in Int /\ untilBeat[p] >= -1 /\ untilBeat[p] <= RoleBeat
         /\ waited[p] \in Nat
         /\ RoleTicks \in Nat /\ RoleBeat \in Nat /\ RoleLag \in Nat
<1>1. RoleTicks \in Nat /\ RoleBeat \in Nat /\ RoleLag \in Nat
  BY RolesAssumption
<1>2. roleRow[p] \in [role : {"active", "standby", "none"}, left : -RoleLag..RoleTicks]
  BY DEF RolesTypeOK
<1>3. LongestWait + 1 \in Int
  BY <1>1 DEF LongestWait
<1>4. /\ place[p] \in Places /\ believed[p] \in {"active", "standby"}
      /\ reading[p] \in 0..RoleLag /\ untilBeat[p] \in -1..RoleBeat
      /\ waited[p] \in 0..(LongestWait + 1)
  BY DEF RolesTypeOK
<1> QED BY <1>1, <1>2, <1>3, <1>4

LEMMA BoundTyped == WaitBound \in Nat /\ LongestWait = WaitBound + RoleLag /\ WaitBound >= RoleBeat
  BY RolesAssumption DEF WaitBound, LongestWait

LEMMA BlockingFinite ==
  \A w : IsFiniteSet(Blocking(w)) /\ Cardinality(Blocking(w)) \in Nat
  BY RolesAssumption, FS_Subset, FS_CardinalityType DEF Blocking

\* Who blocks after a step already did.
LEMMA RoomKept ==
  ASSUME NEW w, NEW S, S \subseteq Blocking(w), Cardinality(Blocking(w)) < ActiveLimit
  PROVE  Cardinality(S) < ActiveLimit
<1>1. Cardinality(S) <= Cardinality(Blocking(w)) /\ Cardinality(S) \in Nat
  BY BlockingFinite, FS_Subset, FS_CardinalityType
<1> QED BY <1>1, BlockingFinite, RolesAssumption

\* A call that is refused began before a lease had passed since the wait began.
LEMMA RefusedEarly ==
  ASSUME WaitInv, NEW p \in Processes, Granted(p) = "standby", waited[p] > 0
  PROVE  waited[p] - reading[p] < RoleTicks
<1> SUFFICES ASSUME ~(waited[p] - reading[p] < RoleTicks) PROVE FALSE
  OBVIOUS
<1>1. /\ waited[p] \in Nat /\ reading[p] \in Nat /\ reading[p] <= RoleLag
      /\ RoleTicks \in Nat /\ RoleLag \in Nat
  BY ProcessTyped DEF WaitInv
<1> DEFINE refusing == {q \in Processes \ {p} :
                          roleRow[q].role = "active" /\ UnexpiredRole(q, reading[p])}
<1>2. ~(Cardinality(refusing) < ActiveLimit)
  BY DEF Granted
<1>3. refusing \subseteq Blocking(waited[p])
  <2> SUFFICES ASSUME NEW q \in refusing PROVE q \in Blocking(waited[p])
    OBVIOUS
  <2>1. q \in Processes /\ roleRow[q].role = "active" /\ roleRow[q].left + reading[p] > 0
    BY DEF UnexpiredRole
  <2>2. roleRow[q].left \in Int
    BY <2>1, ProcessTyped DEF WaitInv
  <2>3. roleRow[q].left + waited[p] > RoleTicks /\ roleRow[q].left > -RoleLag
    BY <1>1, <2>1, <2>2
  <2> QED BY <2>1, <2>3 DEF Blocking, Blocks
<1>4. Cardinality(Blocking(waited[p])) < ActiveLimit
  BY DEF WaitInv, Room
<1> HIDE DEF refusing
<1> QED BY <1>2, <1>3, <1>4, RoomKept

LEMMA WaitInitially == RolesInit => WaitInv
<1> SUFFICES ASSUME RolesInit PROVE WaitInv
  OBVIOUS
<1>1. TimersPlaced /\ Room /\ \A p \in Processes : Paced(p)
  BY DEF RolesInit, NoWait, TimersPlaced, Room, Paced, Calling
<1> QED BY <1>1, RolesTypedInitially DEF WaitInv

\* Everybody's wait begins anew.
LEMMA WaitAnew ==
  ASSUME WaitInv, RolesTypeOK', TimersPlaced', waited' = NoWait,
         NEW p \in Processes, place[p] \in {"booting", "asking"},
         reading' = [reading EXCEPT ![p] = 0], place'[p] # "asking",
         \A q \in Processes \ {p} : /\ place'[q] = place[q] /\ untilBeat'[q] = untilBeat[q]
                                    /\ believed'[q] = believed[q]
  PROVE  WaitInv'
<1>1. \A q \in Processes : waited'[q] = 0
  BY DEF NoWait
<1>2. Room'
  BY <1>1 DEF Room
<1>3. ASSUME NEW q \in Processes PROVE Paced(q)'
  <2>1. /\ untilBeat'[q] \in Int /\ untilBeat'[q] <= RoleBeat
        /\ RoleBeat \in Nat /\ WaitBound \in Nat /\ WaitBound >= RoleBeat
        /\ reading[q] \in Nat /\ reading'[q] \in Nat
    BY ProcessTyped, BoundTyped DEF WaitInv, RolesTypeOK
  <2>2. CASE q = p
    BY <1>1, <2>1, <2>2 DEF Paced
  <2>3. CASE q # p
    <3>1. reading'[q] = reading[q] /\ Paced(q)
      BY <2>3 DEF WaitInv, RolesTypeOK
    <3> QED BY <1>1, <2>1, <2>3, <3>1 DEF Paced
  <2> QED BY <2>2, <2>3
<1> QED BY <1>2, <1>3 DEF WaitInv

\* Nobody's wait is touched but those that end, and nobody who did not block blocks.
LEMMA WaitKept ==
  ASSUME WaitInv, RolesTypeOK', TimersPlaced',
         \A q \in Processes : waited'[q] \in {0, waited[q]},
         \A q \in Processes, w \in Nat : Blocks(q, w)' => Blocks(q, w),
         \A q \in Processes : Paced(q)'
  PROVE  WaitInv'
<1>1. ASSUME NEW p \in Processes, waited'[p] > 0
      PROVE  Cardinality(Blocking(waited[p])') < ActiveLimit
  <2>1. waited[p] \in Nat
    BY ProcessTyped DEF WaitInv
  <2>2. waited[p] > 0
    BY <1>1, <2>1
  <2>3. Blocking(waited[p])' \subseteq Blocking(waited[p])
    BY <1>1, <2>1, <2>2 DEF Blocking
  <2> QED BY <2>2, <2>3, RoomKept DEF WaitInv, Room
<1> QED BY <1>1 DEF WaitInv, Room

LEMMA TimersPlacedStep ==
  ASSUME WaitInv, RolesTypeOK', [RolesNext]_roleVars
  PROVE  TimersPlaced'
<1> USE RolesAssumption
<1>0. /\ RolesTypeOK /\ TimersPlaced /\ RoleBeat # -1
      /\ \A p \in Processes : NoWait[p] = 0 /\ Granted(p) \in {"active", "standby"}
  BY DEF WaitInv, NoWait, Granted
<1>1. CASE UNCHANGED roleVars
  BY <1>0, <1>1 DEF roleVars, TimersPlaced, Calling
<1>2. ASSUME NEW p \in Processes, Boot(p) \/ Fire(p) PROVE TimersPlaced'
  BY <1>0, <1>2 DEF Boot, Fire, TimersPlaced, Calling, RolesTypeOK
<1>3. ASSUME NEW p \in Processes, Heartbeat(p) PROVE TimersPlaced'
  <2>1. place[p] \in {"booting", "asking"} /\ \A q \in Processes : waited'[q] \in {0, waited[q]}
    BY <1>0, <1>3 DEF Heartbeat
  <2>2. ASSUME NEW q \in Processes \ {p} 
        PROVE  /\ place'[q] = place[q] /\ believed'[q] = believed[q]
               /\ untilBeat'[q] = untilBeat[q] /\ reading'[q] = reading[q]
    BY <1>0, <1>3 DEF Heartbeat, RolesTypeOK
  <2>3. /\ untilBeat'[p] = IF place[p] = "booting" THEN RoleBeat ELSE untilBeat[p]
        /\ reading'[p] = 0
    BY <1>0, <1>3 DEF Heartbeat, RolesTypeOK
  <2>4. \/ /\ Granted(p) = "active" \/ believed[p] = "standby"
           /\ believed'[p] = Granted(p) /\ place'[p] = Settled(p)
        \/ Granted(p) = "standby" /\ believed[p] = "active"
           /\ place'[p] = "demoting" /\ believed'[p] = believed[p]
    BY <1>0, <1>3 DEF Heartbeat, RolesTypeOK
  <2>5. waited'[p] > 0 => untilBeat[p] # -1 /\ believed'[p] = "standby"
    <3>1. waited'[p] > 0 => waited[p] > 0 /\ ~(Granted(p) = "active" /\ believed[p] = "standby")
      BY <1>0, <1>3 DEF Heartbeat
    <3> QED BY <1>0, <2>4, <3>1 DEF TimersPlaced
  <2>6. \A q \in Processes \ {p} : waited'[q] > 0 => waited[q] > 0
    BY <2>1
  <2> QED BY <1>0, <2>1, <2>2, <2>3, <2>4, <2>5, <2>6 DEF TimersPlaced, Settled, Calling
<1>4. ASSUME NEW p \in Processes, HeartbeatError(p) PROVE TimersPlaced'
  <2>1. \A q \in Processes : waited'[q] = 0
    BY <1>0, <1>4 DEF HeartbeatError
  <2> QED BY <1>0, <1>4, <2>1 DEF HeartbeatError, TimersPlaced, Settled, Calling, RolesTypeOK
<1>5. ASSUME NEW p \in Processes, WorkerStops(p) \/ Retire(p) PROVE TimersPlaced'
  BY <1>0, <1>5 DEF WorkerStops, Retire, TimersPlaced, Settled, Calling, RolesTypeOK
<1>6. ASSUME NEW p \in Processes, StopRequested(p) PROVE TimersPlaced'
  BY <1>0, <1>6 DEF StopRequested, TimersPlaced, Calling, RolesTypeOK
<1>7. ASSUME NEW p \in Processes, ReleaseRole(p) \/ ReleaseRoleError(p) \/ Die(p)
      PROVE  TimersPlaced'
  BY <1>0, <1>7 DEF ReleaseRole, ReleaseRoleError, Die, Gone, TimersPlaced, Calling, RolesTypeOK
<1>8. CASE RolesTick
  <2> SUFFICES ASSUME NEW p \in Processes
               PROVE  /\ place'[p] = place[p] /\ believed'[p] = believed[p]
                      /\ untilBeat[p] = -1 <=> untilBeat'[p] = -1
                      /\ waited'[p] > 0 => untilBeat[p] # -1 /\ believed[p] = "standby"
                      /\ place[p] \notin Calling => reading'[p] = 0
    BY <1>0, <1>8 DEF RolesTick, TimersPlaced
  <2>1. untilBeat[p] \in Int /\ untilBeat[p] >= -1 /\ untilBeat[p] # 0
    BY <1>0, <1>8, ProcessTyped DEF RolesTick
  <2>2. untilBeat'[p] = IF untilBeat[p] = -1 THEN -1 ELSE untilBeat[p] - 1
    BY <1>8 DEF RolesTick
  <2>3. ~Waits(p) => waited'[p] = 0
    BY <1>8 DEF RolesTick
  <2>4. waited'[p] > 0 => untilBeat[p] # -1 /\ believed[p] = "standby"
    BY <2>3 DEF Waits
  <2> QED BY <1>8, <2>1, <2>2, <2>4 DEF RolesTick
<1> QED BY <1>1, <1>2, <1>3, <1>4, <1>5, <1>6, <1>7, <1>8 DEF RolesNext

LEMMA WaitBounded == WaitInv => PromotedInTime
<1> SUFFICES ASSUME WaitInv, NEW p \in Processes PROVE waited[p] <= LongestWait
  BY DEF PromotedInTime
<1>1. /\ waited[p] \in Nat /\ reading[p] \in Nat /\ reading[p] <= RoleLag /\ RoleLag \in Nat
      /\ untilBeat[p] \in Int /\ untilBeat[p] >= -1
      /\ place[p] \in Places /\ WaitBound \in Nat /\ LongestWait = WaitBound + RoleLag
  BY ProcessTyped, BoundTyped DEF WaitInv
<1>2. CASE waited[p] > 0
  <2>1. untilBeat[p] # -1 /\ believed[p] = "standby" /\ place[p] \in {"idle", "asking"}
    BY <1>1, <1>2 DEF WaitInv, TimersPlaced, Places
  <2>2. Paced(p)
    BY DEF WaitInv
  <2> QED BY <1>1, <2>1, <2>2 DEF Paced
<1> QED BY <1>1, <1>2

\* Time makes rows older by as much as it makes waits longer.
LEMMA WaitTick ==
  ASSUME WaitInv, RolesTypeOK', TimersPlaced', RolesTick
  PROVE  WaitInv'
<1>1. ASSUME NEW p \in Processes
      PROVE  /\ waited[p] \in Nat /\ waited[p] <= LongestWait /\ LongestWait \in Nat
             /\ waited'[p] = IF Waits(p) THEN waited[p] + 1 ELSE 0
  <2>1. waited[p] \in Nat /\ waited[p] <= LongestWait /\ LongestWait \in Nat
    BY WaitBounded, ProcessTyped, BoundTyped, RolesAssumption DEF WaitInv, PromotedInTime
  <2>2. waited'[p] = IF ~Waits(p) THEN 0
                     ELSE IF waited[p] > LongestWait THEN waited[p] ELSE waited[p] + 1
    BY DEF RolesTick
  <2> QED BY <2>1, <2>2
<1>2. ASSUME NEW q \in Processes, NEW w \in Nat, Blocks(q, w + 1)'
      PROVE  Blocks(q, w) /\ (w = 0 => q \in ActiveNow)
  <2>1. /\ roleRow[q].left \in Int /\ roleRow[q].left <= RoleTicks /\ roleRow[q].left >= -RoleLag
        /\ roleRow'[q].left \in Int /\ RoleTicks \in Nat /\ RoleLag \in Nat
    BY ProcessTyped DEF WaitInv, RolesTypeOK
  <2>2. /\ roleRow'[q].role = roleRow[q].role
        /\ roleRow'[q].left = IF roleRow[q].left = -RoleLag THEN roleRow[q].left
                              ELSE roleRow[q].left - 1
    BY DEF RolesTick, WaitInv, RolesTypeOK
  <2>3. place' = place /\ believed' = believed
    BY DEF RolesTick
  <2> QED BY <1>2, <2>1, <2>2, <2>3 DEF Blocks, ActiveNow
<1>3. ASSUME NEW p \in Processes, waited'[p] > 0
      PROVE  Cardinality(Blocking(waited[p])') < ActiveLimit
  <2>1. Waits(p) /\ waited'[p] = waited[p] + 1
    BY <1>1, <1>3
  <2>2. CASE waited[p] > 0
    <3>1. Blocking(waited[p])' \subseteq Blocking(waited[p])
      BY <1>1, <1>2, <2>1 DEF Blocking
    <3> QED BY <2>2, <3>1, RoomKept DEF WaitInv, Room
  <2>3. CASE waited[p] = 0
    <3>1. Blocking(waited[p])' \subseteq ActiveNow
      BY <1>2, <2>1, <2>3 DEF Blocking
    <3>2. /\ Cardinality(Blocking(waited[p])') \in Nat /\ Cardinality(ActiveNow) \in Nat
          /\ Cardinality(Blocking(waited[p])') <= Cardinality(ActiveNow)
      BY <3>1, RolesAssumption, FS_Subset, FS_CardinalityType DEF ActiveNow
    <3> QED BY <2>1, <3>2, RolesAssumption DEF Waits
  <2> QED BY <1>1, <2>2, <2>3
<1>4. ASSUME NEW p \in Processes PROVE Paced(p)'
  <2>1. /\ reading[p] \in Nat /\ untilBeat[p] \in Int /\ untilBeat[p] >= -1
        /\ untilBeat[p] # 0 /\ RoleBeat \in Nat /\ untilBeat[p] <= RoleBeat
        /\ WaitBound \in Nat /\ WaitBound >= RoleBeat
    BY ProcessTyped, BoundTyped, RolesAssumption DEF WaitInv, RolesTick
  <2>2. /\ untilBeat'[p] = IF untilBeat[p] = -1 THEN -1 ELSE untilBeat[p] - 1
        /\ reading'[p] = IF place[p] \in Calling THEN reading[p] + 1 ELSE 0
        /\ place' = place /\ believed' = believed
    BY DEF RolesTick
  <2>3. Paced(p)
    BY DEF WaitInv
  <2> QED BY <1>1, <2>1, <2>2, <2>3 DEF Paced, Calling
<1> QED BY <1>3, <1>4 DEF WaitInv, Room

LEMMA WaitStep == WaitInv /\ [RolesNext]_roleVars => WaitInv'
<1> SUFFICES ASSUME WaitInv, [RolesNext]_roleVars PROVE WaitInv'
  OBVIOUS
<1>0. /\ RolesTypeOK /\ RolesTypeOK' /\ TimersPlaced /\ TimersPlaced' /\ Room /\ \A q \in Processes : Paced(q)
      /\ \A q \in Processes : waited[q] \in Nat
      /\ RoleBeat \in Nat \ {0} /\ WaitBound \in Nat /\ WaitBound >= RoleBeat
  BY TimersPlacedStep, RolesTypedStep, ProcessTyped, BoundTyped, RolesAssumption DEF WaitInv
<1>1. CASE UNCHANGED roleVars
  BY <1>0, <1>1, WaitKept DEF roleVars, Paced, Blocks
<1>2. ASSUME NEW p \in Processes, Boot(p) PROVE WaitInv'
  <2>1. \A q \in Processes, w \in Nat : Blocks(q, w)' => Blocks(q, w)
    BY <1>0, <1>2 DEF Boot, Blocks, TimersPlaced, RolesTypeOK
  <2>2. \A q \in Processes : Paced(q)'
    BY <1>0, <1>2 DEF Boot, Paced, TimersPlaced, RolesTypeOK
  <2> QED BY <1>0, <1>2, <2>1, <2>2, WaitKept DEF Boot
<1>3. ASSUME NEW p \in Processes, Fire(p) PROVE WaitInv'
  <2>1. \A q \in Processes, w \in Nat : Blocks(q, w)' => Blocks(q, w)
    BY <1>0, <1>3 DEF Fire, Blocks, RolesTypeOK
  <2>2. ASSUME NEW q \in Processes \ {p} PROVE Paced(q)'
    <3>1. /\ untilBeat'[q] = untilBeat[q] /\ place'[q] = place[q] /\ Paced(q)
      BY <1>0, <1>3 DEF Fire, RolesTypeOK
    <3> QED BY <1>3, <3>1 DEF Fire, Paced
  <2>3. Paced(p)'
    <3>1. /\ untilBeat[p] = 0 /\ untilBeat'[p] = RoleBeat
          /\ place'[p] = IF place[p] = "idle" THEN "asking" ELSE place[p]
          /\ waited' = waited /\ reading' = reading /\ believed' = believed
      BY <1>0, <1>3 DEF Fire, RolesTypeOK
    <3>2. reading[p] \in Nat /\ reading[p] <= RoleLag /\ RoleLag \in Nat /\ Paced(p)
      BY <1>0, ProcessTyped
    <3>3. place[p] = "idle" => reading[p] = 0
      BY <1>0 DEF TimersPlaced, Calling
    <3> QED BY <1>0, <3>1, <3>2, <3>3 DEF Paced
  <2> QED BY <1>0, <1>3, <2>1, <2>2, <2>3, WaitKept DEF Fire
<1>4. ASSUME NEW p \in Processes, Heartbeat(p) PROVE WaitInv'
  <2>0. /\ \A q \in Processes \ {p} :
             /\ place'[q] = place[q] /\ believed'[q] = believed[q]
             /\ untilBeat'[q] = untilBeat[q] /\ reading'[q] = reading[q]
             /\ roleRow'[q] = roleRow[q]
        /\ place[p] \in {"booting", "asking"}
        /\ roleRow'[p].role = Granted(p)
        /\ untilBeat'[p] = IF place[p] = "booting" THEN RoleBeat ELSE untilBeat[p]
    BY <1>0, <1>4 DEF Heartbeat, Upsert, RolesTypeOK
  <2>1. \/ /\ Granted(p) = "active" \/ believed[p] = "standby"
           /\ believed'[p] = Granted(p) /\ place'[p] = Settled(p)
        \/ /\ Granted(p) = "standby" /\ believed[p] = "active"
           /\ place'[p] = "demoting" /\ believed'[p] = believed[p]
    BY <1>0, <1>4 DEF Heartbeat, RolesTypeOK
  <2>2. CASE Granted(p) = "active" /\ believed[p] = "standby"
    <3>1. waited' = NoWait /\ reading' = [reading EXCEPT ![p] = 0] /\ place'[p] # "asking"
      BY <1>4, <2>1, <2>2 DEF Heartbeat, Settled
    <3> QED BY <1>0, <2>0, <3>1, WaitAnew
  <2>3. CASE ~(Granted(p) = "active" /\ believed[p] = "standby")
    <3>1. waited' = waited
      BY <1>4, <2>3 DEF Heartbeat
    <3>2. Granted(p) = "active" \/ Granted(p) = "standby"
      BY DEF Granted
    <3>3. \A q \in Processes, w \in Nat : Blocks(q, w)' => Blocks(q, w)
      <4>1. \A w \in Nat : Blocks(p, w)' => Blocks(p, w)
        <5>0. believed[p] = "active" \/ believed[p] = "standby"
          BY <1>0, ProcessTyped
        <5>1. roleRow'[p].role = "active" => believed[p] = "active"
          BY <2>0, <2>3, <5>0
        <5>2. believed'[p] = "active" => believed[p] = "active"
          BY <2>1, <2>3, <3>2, <5>0
        <5>3. believed[p] = "active" => \A w \in Nat : Blocks(p, w)
          BY <2>0 DEF Blocks
        <5> QED BY <5>1, <5>2, <5>3 DEF Blocks
      <4>2. \A q \in Processes \ {p}, w \in Nat : Blocks(q, w)' => Blocks(q, w)
        BY <2>0 DEF Blocks
      <4> QED BY <4>1, <4>2
    <3>4. ASSUME NEW q \in Processes \ {p} PROVE Paced(q)'
      BY <1>0, <2>0, <3>1 DEF Paced
    <3>5. Paced(p)'
      <4> SUFFICES ASSUME untilBeat'[p] # -1, believed'[p] = "standby", place'[p] = "idle"
                   PROVE  waited[p] + untilBeat'[p] <= WaitBound
        BY <2>1, <3>1 DEF Paced, Settled
      <4>1. Granted(p) = "standby" /\ believed[p] = "standby"
        BY <2>1, <2>3, <3>2
      <4>2. /\ reading[p] \in Nat /\ reading[p] <= RoleLag /\ RoleLag \in Nat /\ RoleTicks \in Nat
            /\ untilBeat[p] \in Int /\ untilBeat[p] <= RoleBeat /\ untilBeat'[p] \in Int
        BY <1>0, <2>0, ProcessTyped
      <4>3. CASE waited[p] = 0
        BY <1>0, <2>0, <4>2, <4>3
      <4>4. CASE waited[p] > 0
        <5>1. untilBeat[p] # -1 /\ place[p] = "asking" /\ untilBeat'[p] = untilBeat[p]
          BY <1>0, <2>0, <4>4 DEF TimersPlaced
        <5>2. waited[p] - reading[p] < RoleTicks
          BY <4>1, <4>4, RefusedEarly
        <5>3. RoleLag < RoleBeat => untilBeat[p] + reading[p] = RoleBeat
          BY <1>0, <4>1, <5>1 DEF Paced
        <5> QED BY <1>0, <4>2, <5>1, <5>2, <5>3 DEF WaitBound
      <4> QED BY <1>0, <4>3, <4>4
    <3> QED BY <1>0, <3>1, <3>3, <3>4, <3>5, WaitKept
  <2> QED BY <2>2, <2>3
<1>5. ASSUME NEW p \in Processes, HeartbeatError(p) PROVE WaitInv'
  <2>1. /\ waited' = NoWait /\ reading' = [reading EXCEPT ![p] = 0] /\ place'[p] # "asking"
        /\ place[p] \in {"booting", "asking"}
        /\ \A q \in Processes \ {p} : /\ place'[q] = place[q] /\ untilBeat'[q] = untilBeat[q]
                                      /\ believed'[q] = believed[q]
    BY <1>0, <1>5 DEF HeartbeatError, Settled, RolesTypeOK
  <2> QED BY <1>0, <2>1, WaitAnew
<1>6. ASSUME NEW p \in Processes, WorkerStops(p) PROVE WaitInv'
  <2>1. \A q \in Processes, w \in Nat : Blocks(q, w)' => Blocks(q, w)
    BY <1>0, <1>6 DEF WorkerStops, Blocks, RolesTypeOK
  <2>2. ASSUME NEW q \in Processes \ {p} PROVE Paced(q)'
    BY <1>0, <1>6 DEF WorkerStops, Paced, RolesTypeOK
  <2>3. Paced(p)'
    <3>1. /\ waited[p] = 0 /\ waited' = waited /\ untilBeat' = untilBeat
          /\ place'[p] # "asking"
      BY <1>0, <1>6 DEF WorkerStops, TimersPlaced, Settled, RolesTypeOK
    <3>2. untilBeat[p] \in Int /\ untilBeat[p] <= RoleBeat
      BY <1>0, ProcessTyped
    <3> QED BY <1>0, <3>1, <3>2 DEF Paced
  <2> QED BY <1>0, <1>6, <2>1, <2>2, <2>3, WaitKept DEF WorkerStops
<1>7. ASSUME NEW p \in Processes, StopRequested(p) \/ Die(p) PROVE WaitInv'
  <2>1. \A q \in Processes, w \in Nat : Blocks(q, w)' => Blocks(q, w)
    BY <1>0, <1>7 DEF StopRequested, Die, Gone, Blocks, RolesTypeOK
  <2>2. untilBeat'[p] = -1
    BY <1>0, <1>7 DEF StopRequested, Die, Gone, RolesTypeOK
  <2>3. \A q \in Processes : waited'[q] \in {0, waited[q]}
    BY <1>0, <1>7 DEF StopRequested, Die, RolesTypeOK
  <2>4. ASSUME NEW q \in Processes \ {p} PROVE Paced(q)'
    <3>1. /\ place'[q] = place[q] /\ believed'[q] = believed[q] /\ waited'[q] = waited[q]
          /\ untilBeat'[q] = untilBeat[q] /\ reading'[q] = reading[q]
      BY <1>0, <1>7 DEF StopRequested, Die, Gone, RolesTypeOK
    <3> QED BY <1>0, <3>1 DEF Paced
  <2>5. Paced(p)'
    BY <2>2 DEF Paced
  <2> QED BY <1>0, <2>1, <2>3, <2>4, <2>5, WaitKept
<1>8. ASSUME NEW p \in Processes, ReleaseRole(p) \/ ReleaseRoleError(p) \/ Retire(p) PROVE WaitInv'
  <2>1. NoLease.role = "none"
    BY DEF NoLease
  <2>2. /\ waited' = waited /\ untilBeat[p] = -1 /\ untilBeat'[p] = -1
        /\ \A q \in Processes \ {p} :
             /\ place'[q] = place[q] /\ believed'[q] = believed[q] /\ roleRow'[q] = roleRow[q]
             /\ untilBeat'[q] = untilBeat[q] /\ reading'[q] = reading[q]
    BY <1>0, <1>8 DEF ReleaseRole, ReleaseRoleError, Retire, Gone, TimersPlaced, RolesTypeOK
  <2>3. \A w \in Nat : Blocks(p, w)' => Blocks(p, w)
    BY <1>0, <1>8, <2>1 DEF ReleaseRole, ReleaseRoleError, Retire, Gone, Blocks, RolesTypeOK
  <2>4. \A q \in Processes \ {p}, w \in Nat : Blocks(q, w)' => Blocks(q, w)
    BY <2>2 DEF Blocks
  <2>5. \A q \in Processes : Paced(q)'
    BY <1>0, <2>2 DEF Paced
  <2> QED BY <1>0, <2>2, <2>3, <2>4, <2>5, WaitKept
<1>9. CASE RolesTick
  BY <1>0, <1>9, WaitTick
<1> QED BY <1>1, <1>2, <1>3, <1>4, <1>5, <1>6, <1>7, <1>8, <1>9 DEF RolesNext

\* For any number of processes, any limit and any lease, interval and lag of the metadata
\* store, whatever stops, dies or comes back: a standby process that is there while a place
\* is free sees it taken in time (InstanceRoleCoordinator.start, tick and stop).
THEOREM PlacesTakenInTime == RolesSpec => []PromotedInTime
  BY WaitInitially, WaitStep, WaitBounded, PTL DEF RolesSpec

\* Every variable keeps its type, for all values of the constants.
THEOREM RolesTyped == RolesSpec => []RolesTypeOK
  BY RolesTypedInitially, RolesTypedStep, PTL DEF RolesSpec

-----------------------------------------------------------------------------
(* Keep-alive probes *)

\* At most one probe of a profile is in its target, and `running` names the profile as long.
OneInTarget(c) ==
  /\ \A i, j \in DOMAIN probe[c] :
       probe[c][i].pc # "recording" /\ probe[c][j].pc # "recording" => i = j
  /\ InTarget(c) => c \in probing

\* A profile that is due has waited; dueAt has entries of kept profiles only.
DueInTime(c) ==
  /\ profile[c] # "on" => dueIn[c] = Never
  /\ dueIn[c] # Never =>
       \/ probedAgo[c] = IntervalTicks
       \/ dueIn[c] + probedAgo[c] >= IntervalTicks - ListTicks

ProbesInv ==
  /\ KeepAliveTypeOK
  /\ probe \in [Profiles -> Seq(ProbeRecords)]
  /\ \A c \in Profiles : OneInTarget(c) /\ DueInTime(c)

LEMMA KeepAliveConstants ==
  /\ IntervalTicks \in Nat /\ ListTicks \in Nat /\ ListTicks < IntervalTicks
  /\ Never \in Int /\ Never = IntervalTicks + 1
  /\ MaxRecording \in Nat /\ MaxRecording > 0 /\ MaxThrows \in Nat
  BY KeepAliveAssumption DEF Never

LEMMA ProbeStarts == ProbeAt("resolving") \in ProbeRecords
  BY DEF ProbeAt, ProbeRecords

\* The probes of a profile after one of them has been taken out.
LEMMA ProbeRemoved ==
  ASSUME NEW S, NEW s \in Seq(S), NEW i \in DOMAIN s
  PROVE  /\ RemoveAt(s, i) \in Seq(S)
         /\ Len(RemoveAt(s, i)) = Len(s) - 1
         /\ \A n \in DOMAIN RemoveAt(s, i) :
              RemoveAt(s, i)[n] = s[IF n < i THEN n ELSE n + 1]
<1>1. i \in 1..Len(s) /\ Len(s) \in Nat
  OBVIOUS
<1> DEFINE front == SubSeq(s, 1, i - 1)
           back  == SubSeq(s, i + 1, Len(s))
<1>2. front \in Seq(S) /\ Len(front) = i - 1 /\ \A n \in 1..(i - 1) : front[n] = s[n]
  BY <1>1
<1>3. back \in Seq(S) /\ Len(back) = Len(s) - i /\ \A n \in 1..(Len(s) - i) : back[n] = s[n + i]
  BY <1>1
<1>4. RemoveAt(s, i) = front \o back
  BY DEF RemoveAt
<1> HIDE DEF front, back
<1>5. /\ front \o back \in Seq(S) /\ Len(front \o back) = Len(s) - 1
      /\ \A n \in 1..(Len(s) - 1) :
           (front \o back)[n] = IF n <= i - 1 THEN front[n] ELSE back[n - (i - 1)]
  <2>1. /\ front \o back \in Seq(S) /\ Len(front \o back) = Len(front) + Len(back)
        /\ \A n \in 1..(Len(front) + Len(back)) :
             (front \o back)[n] = IF n <= Len(front) THEN front[n] ELSE back[n - Len(front)]
    BY <1>2, <1>3, ConcatProperties
  <2>2. Len(front) + Len(back) = Len(s) - 1
    BY <1>1, <1>2, <1>3
  <2> QED BY <1>2, <2>1, <2>2
<1>6. ASSUME NEW n \in 1..(Len(s) - 1)
      PROVE  (front \o back)[n] = s[IF n < i THEN n ELSE n + 1]
  <2>1. CASE n <= i - 1
    BY <1>1, <1>2, <1>5, <2>1
  <2>2. CASE ~(n <= i - 1)
    <3>1. n - (i - 1) \in 1..(Len(s) - i) /\ n - (i - 1) + i = n + 1 /\ ~(n < i)
      BY <1>1, <2>2
    <3> QED BY <1>3, <1>5, <2>2, <3>1
  <2> QED BY <2>1, <2>2
<1>7. DOMAIN (front \o back) = 1..(Len(s) - 1)
  BY <1>1, <1>5
<1> QED BY <1>4, <1>5, <1>6, <1>7

LEMMA ProbesInitially == KeepAliveInit => ProbesInv
<1> SUFFICES ASSUME KeepAliveInit PROVE ProbesInv
  OBVIOUS
<1>1. KeepAliveTypeOK
  BY KeepAliveConstants DEF KeepAliveInit, KeepAliveTypeOK, NoRound
<1>2. probe \in [Profiles -> Seq(ProbeRecords)]
  BY DEF KeepAliveInit
<1>3. \A c \in Profiles : OneInTarget(c) /\ DueInTime(c)
  BY DEF KeepAliveInit, OneInTarget, InTarget, DueInTime
<1> QED BY <1>1, <1>2, <1>3 DEF ProbesInv

\* A profile whose probes are among those it had has at most one in its target.
LEMMA TargetKept ==
  ASSUME NEW d, OneInTarget(d),
         NEW at \in [DOMAIN probe'[d] -> DOMAIN probe[d]],
         \A m, n \in DOMAIN probe'[d] : at[m] = at[n] => m = n,
         \A n \in DOMAIN probe'[d] : probe'[d][n].pc = probe[d][at[n]].pc,
         d \in probing => d \in probing'
  PROVE  OneInTarget(d)'
<1>1. ASSUME NEW m \in DOMAIN probe'[d], NEW n \in DOMAIN probe'[d],
             probe'[d][m].pc # "recording", probe'[d][n].pc # "recording"
      PROVE  m = n
  <2>1. at[m] \in DOMAIN probe[d] /\ at[n] \in DOMAIN probe[d]
    OBVIOUS
  <2>2. at[m] = at[n]
    BY <1>1, <2>1 DEF OneInTarget
  <2> QED BY <2>2
<1>2. InTarget(d)' => d \in probing'
  <2> SUFFICES ASSUME NEW n \in DOMAIN probe'[d], probe'[d][n].pc # "recording"
               PROVE  d \in probing
    BY DEF InTarget
  <2>1. at[n] \in DOMAIN probe[d] /\ probe[d][at[n]].pc # "recording"
    OBVIOUS
  <2> QED BY <2>1 DEF OneInTarget, InTarget
<1> QED BY <1>1, <1>2 DEF OneInTarget

\* The two ways in which a probe moves on.
LEMMA ProbeMoves ==
  ASSUME ProbesInv, NEW c \in Profiles, NEW i \in DOMAIN probe[c], NEW stage,
         stage \in {"executing", "recording"}, probe[c][i].pc # "recording",
         probe' = [probe EXCEPT ![c][i].pc = stage],
         probing' = IF stage = "recording" THEN probing \ {c} ELSE probing
  PROVE  /\ probe' \in [Profiles -> Seq(ProbeRecords)]
         /\ \A d \in Profiles : Len(probe'[d]) = Len(probe[d]) /\ OneInTarget(d)'
<1>1. /\ probe[c] \in Seq(ProbeRecords) /\ probe[c][i] \in ProbeRecords
      /\ probe \in [Profiles -> Seq(ProbeRecords)]
  BY DEF ProbesInv
<1> DEFINE moved == [probe[c][i] EXCEPT !.pc = stage]
<1>2. moved \in ProbeRecords /\ moved.pc = stage
  BY <1>1 DEF ProbeRecords
<1>3. probe' = [probe EXCEPT ![c] = [probe[c] EXCEPT ![i] = moved]]
  OBVIOUS
<1> HIDE DEF moved
<1> DEFINE after == [probe[c] EXCEPT ![i] = moved]
<1>4. /\ after \in Seq(ProbeRecords) /\ Len(after) = Len(probe[c])
      /\ DOMAIN after = DOMAIN probe[c] /\ after[i].pc = stage
      /\ \A n \in DOMAIN probe[c] \ {i} : after[n] = probe[c][n]
  BY <1>1, <1>2
<1> HIDE DEF after
<1>5. probe'[c] = after /\ \A d \in Profiles \ {c} : probe'[d] = probe[d]
  BY <1>1, <1>3 DEF after
<1>6. probe' \in [Profiles -> Seq(ProbeRecords)]
  BY <1>1, <1>3, <1>4 DEF after
<1>7. OneInTarget(c)
  BY DEF ProbesInv
<1>8. \A n \in DOMAIN probe[c] : n = i \/ probe[c][n].pc = "recording"
  BY <1>7 DEF OneInTarget
<1>9. OneInTarget(c)'
  <2>1. \A n \in DOMAIN probe'[c] : n = i \/ probe'[c][n].pc = "recording"
    BY <1>4, <1>5, <1>8
  <2>2. InTarget(c)
    BY DEF InTarget
  <2>3. stage # "recording" => c \in probing'
    BY <1>7, <2>2 DEF OneInTarget
  <2>4. InTarget(c)' => stage # "recording"
    BY <1>4, <1>5, <2>1 DEF InTarget
  <2> QED BY <2>1, <2>3, <2>4 DEF OneInTarget
<1>10. ASSUME NEW d \in Profiles \ {c} PROVE OneInTarget(d)'
  BY <1>5 DEF ProbesInv, OneInTarget, InTarget
<1> QED BY <1>4, <1>5, <1>6, <1>9, <1>10

\* A record that is written, or is not, takes its probe out; the others stay in order.
LEMMA ProbeLeaves ==
  ASSUME ProbesInv, NEW c \in Profiles, NEW i \in DOMAIN probe[c], probing' = probing,
         \/ probe' = Without(c, i)
         \/ probe' = [d \in Profiles |->
              [n \in DOMAIN Without(c, i)[d] |-> [Without(c, i)[d][n] EXCEPT !.watched = FALSE]]]
  PROVE  /\ probe' \in [Profiles -> Seq(ProbeRecords)]
         /\ \A d \in Profiles : Len(probe'[d]) <= Len(probe[d]) /\ OneInTarget(d)'
<1>1. probe[c] \in Seq(ProbeRecords) /\ probe \in [Profiles -> Seq(ProbeRecords)]
  BY DEF ProbesInv
<1> DEFINE rest == Without(c, i)
<1>2. /\ rest \in [Profiles -> Seq(ProbeRecords)]
      /\ rest[c] = RemoveAt(probe[c], i)
      /\ \A d \in Profiles \ {c} : rest[d] = probe[d]
  BY <1>1, ProbeRemoved DEF Without
<1>3. \A d \in Profiles :
        /\ probe'[d] \in Seq(ProbeRecords) /\ Len(probe'[d]) = Len(rest[d])
        /\ DOMAIN probe'[d] = DOMAIN rest[d]
        /\ \A n \in DOMAIN rest[d] : probe'[d][n].pc = rest[d][n].pc
  <2>1. CASE probe' = rest
    BY <1>2, <2>1
  <2>2. CASE probe' = [d \in Profiles |->
               [n \in DOMAIN rest[d] |-> [rest[d][n] EXCEPT !.watched = FALSE]]]
    <3> TAKE d \in Profiles
    <3> DEFINE after == [n \in DOMAIN rest[d] |-> [rest[d][n] EXCEPT !.watched = FALSE]]
    <3>1. rest[d] \in Seq(ProbeRecords)
      BY <1>2
    <3>2. \A n \in DOMAIN rest[d] :
            /\ [rest[d][n] EXCEPT !.watched = FALSE] \in ProbeRecords
            /\ [rest[d][n] EXCEPT !.watched = FALSE].pc = rest[d][n].pc
      <4> TAKE n \in DOMAIN rest[d]
      <4>1. rest[d][n] \in ProbeRecords
        BY <3>1
      <4> QED BY <4>1 DEF ProbeRecords
    <3>3. probe'[d] = after
      BY <2>2
    <3>4. DOMAIN rest[d] = 1..Len(rest[d]) /\ Len(rest[d]) \in Nat
      BY <3>1
    <3> HIDE DEF rest
    <3>5. /\ after \in Seq(ProbeRecords) /\ Len(after) = Len(rest[d])
          /\ \A n \in DOMAIN rest[d] : after[n].pc = rest[d][n].pc
      BY <3>2, <3>4
    <3>6. DOMAIN after = DOMAIN rest[d]
      OBVIOUS
    <3> HIDE DEF after
    <3> QED BY <3>3, <3>5, <3>6
  <2> QED BY <2>1, <2>2
<1>4. probe' \in [Profiles -> Seq(ProbeRecords)]
  BY <1>2, <1>3
<1>5. ASSUME NEW d \in Profiles PROVE OneInTarget(d) /\ Len(probe[d]) \in Nat
  BY <1>1 DEF ProbesInv
<1> HIDE DEF rest
<1>6. ASSUME NEW d \in Profiles \ {c} PROVE Len(probe'[d]) <= Len(probe[d]) /\ OneInTarget(d)'
  <2>1. DOMAIN probe'[d] = DOMAIN probe[d] /\ Len(probe'[d]) = Len(probe[d])
    BY <1>2, <1>3
  <2>2. \A n \in DOMAIN probe[d] : probe'[d][n].pc = probe[d][n].pc
    BY <1>2, <1>3
  <2>3. OneInTarget(d)'
    BY <1>5, <2>1, <2>2 DEF OneInTarget, InTarget
  <2> QED BY <1>5, <2>1, <2>3
<1>7. Len(probe'[c]) <= Len(probe[c]) /\ OneInTarget(c)'
  <2>0. Len(probe[c]) \in Nat /\ DOMAIN probe[c] = 1..Len(probe[c]) /\ i \in 1..Len(probe[c])
    BY <1>1
  <2>1. /\ DOMAIN probe'[c] = 1..(Len(probe[c]) - 1) /\ Len(probe'[c]) = Len(probe[c]) - 1
        /\ \A n \in DOMAIN probe'[c] : probe'[c][n].pc = probe[c][IF n < i THEN n ELSE n + 1].pc
    <3>1. /\ RemoveAt(probe[c], i) \in Seq(ProbeRecords)
          /\ Len(RemoveAt(probe[c], i)) = Len(probe[c]) - 1
          /\ \A n \in DOMAIN RemoveAt(probe[c], i) :
               RemoveAt(probe[c], i)[n] = probe[c][IF n < i THEN n ELSE n + 1]
      BY <1>1, ProbeRemoved
    <3>2. DOMAIN rest[c] = 1..(Len(probe[c]) - 1)
      BY <1>2, <3>1
    <3>3. /\ DOMAIN probe'[c] = DOMAIN rest[c] /\ Len(probe'[c]) = Len(rest[c])
          /\ \A n \in DOMAIN rest[c] : probe'[c][n].pc = rest[c][n].pc
      BY <1>3
    <3> QED BY <1>2, <3>1, <3>2, <3>3
  <2> DEFINE at == [n \in DOMAIN probe'[c] |-> IF n < i THEN n ELSE n + 1]
  <2>2. at \in [DOMAIN probe'[c] -> DOMAIN probe[c]]
    BY <2>0, <2>1
  <2>3. \A m, n \in DOMAIN probe'[c] : at[m] = at[n] => m = n
    BY <2>0, <2>1
  <2>4. \A n \in DOMAIN probe'[c] : probe'[c][n].pc = probe[c][at[n]].pc
    BY <2>1
  <2> HIDE DEF at
  <2>5. OneInTarget(c)'
    BY <1>5, <2>2, <2>3, <2>4, TargetKept
  <2> QED BY <2>0, <2>1, <2>5
<1> QED BY <1>4, <1>6, <1>7

\* A round lists or probes; its age is that of its reading of the clock.
LEMMA RoundTyped ==
  ASSUME KeepAliveTypeOK
  PROVE  /\ round.pc \in {"none", "listing", "probing"} /\ round.age \in 0..ListTicks
         /\ NoRound \in [pc : {"none", "listing", "probing"}, age : 0..ListTicks]
         /\ [pc |-> "listing", age |-> 0] \in [pc : {"none", "listing", "probing"}, age : 0..ListTicks]
         /\ [round EXCEPT !.pc = "probing", !.age = 0]
              \in [pc : {"none", "listing", "probing"}, age : 0..ListTicks]
         /\ round.age < ListTicks => [round EXCEPT !.age = @ + 1]
              \in [pc : {"none", "listing", "probing"}, age : 0..ListTicks]
<1>1. round \in [pc : {"none", "listing", "probing"}, age : 0..ListTicks]
  BY DEF KeepAliveTypeOK
<1>2. round.age \in 0..ListTicks /\ ListTicks \in Nat
  BY <1>1, KeepAliveConstants
<1>3. /\ round.age < ListTicks => round.age + 1 \in 0..ListTicks
      /\ 0 \in 0..ListTicks
  BY <1>2
<1> QED BY <1>1, <1>2, <1>3 DEF NoRound

\* What a step has to keep for the invariant.
LEMMA ProbesKept ==
  ASSUME ProbesInv, KeepAliveTypeOK', probe' \in [Profiles -> Seq(ProbeRecords)],
         \A c \in Profiles : OneInTarget(c)',
         \/ \A c \in Profiles : DueInTime(c)'
         \/ UNCHANGED <<profile, dueIn, probedAgo>>
  PROVE  ProbesInv'
<1>1. \A c \in Profiles : DueInTime(c)'
  BY DEF ProbesInv, DueInTime
<1> QED BY <1>1 DEF ProbesInv

\* A tick of the service probes who is due and has no probe in the target.
LEMMA ListKeeps ==
  ASSUME ProbesInv, ListProfiles
  PROVE  /\ ProbesInv'
         /\ \A c \in Profiles :
              Len(probe'[c]) > Len(probe[c]) =>
                ~InTarget(c) /\ probedAgo[c] >= IntervalTicks - ListTicks
<1>0. /\ KeepAliveTypeOK /\ round.age \in Nat /\ round.age <= ListTicks
      /\ IntervalTicks \in Nat /\ ListTicks \in Nat /\ ListTicks < IntervalTicks
      /\ Never = IntervalTicks + 1
  BY RoundTyped, KeepAliveConstants DEF ProbesInv
<1>1. ASSUME NEW c \in Profiles
      PROVE  /\ probe[c] \in Seq(ProbeRecords) /\ Len(probe[c]) \in Nat
             /\ dueIn[c] \in Int /\ dueIn[c] >= -ListTicks /\ dueIn[c] <= Never
             /\ probedAgo[c] \in Nat /\ probedAgo[c] <= IntervalTicks
             /\ OneInTarget(c) /\ DueInTime(c)
  <2>1. dueIn[c] \in (-ListTicks)..Never /\ probedAgo[c] \in 0..IntervalTicks
    BY DEF ProbesInv, KeepAliveTypeOK
  <2> QED BY <1>0, <2>1 DEF ProbesInv
<1>2. ASSUME NEW c \in DueProfiles
      PROVE  /\ c \in Profiles /\ ~InTarget(c) /\ c \in probing'
             /\ probedAgo[c] >= IntervalTicks - ListTicks
             /\ Len(probe[c]) < MaxRecording
  <2>1. /\ c \in Profiles /\ c \notin probing /\ dueIn[c] # Never /\ dueIn[c] + round.age <= 0
        /\ c \in probing' /\ Len(probe[c]) < MaxRecording
    BY DEF DueProfiles, IntervalOver, Kept, ListProfiles
  <2>2. ~InTarget(c)
    BY <1>1, <2>1 DEF OneInTarget
  <2>3. \/ probedAgo[c] = IntervalTicks
        \/ dueIn[c] + probedAgo[c] >= IntervalTicks - ListTicks
    BY <1>1, <2>1 DEF DueInTime
  <2>4. probedAgo[c] >= IntervalTicks - ListTicks
    BY <1>0, <1>1, <2>1, <2>3
  <2> QED BY <2>1, <2>2, <2>4
<1>3. ASSUME NEW c \in Profiles
      PROVE  probe'[c] = IF c \in DueProfiles THEN Append(probe[c], ProbeAt("resolving"))
                         ELSE probe[c]
  BY DEF ListProfiles
<1>4. ASSUME NEW c \in Profiles
      PROVE  /\ probe'[c] \in Seq(ProbeRecords) /\ Len(probe'[c]) <= MaxRecording
             /\ Len(probe'[c]) > Len(probe[c]) => c \in DueProfiles
             /\ OneInTarget(c)'
  <2>1. CASE c \in DueProfiles
    <3> DEFINE first == ProbeAt("resolving")
    <3>1. first \in ProbeRecords
      BY ProbeStarts
    <3> HIDE DEF first
    <3>2. probe'[c] = Append(probe[c], first)
      BY <1>3, <2>1 DEF first
    <3>3. /\ probe'[c] \in Seq(ProbeRecords) /\ Len(probe'[c]) = Len(probe[c]) + 1
          /\ \A n \in 1..Len(probe[c]) : probe'[c][n] = probe[c][n]
          /\ DOMAIN probe[c] = 1..Len(probe[c]) /\ DOMAIN probe'[c] = 1..(Len(probe[c]) + 1)
      BY <1>1, <3>1, <3>2
    <3>4. \A n \in 1..Len(probe[c]) : probe'[c][n].pc = "recording"
      BY <1>2, <2>1, <3>3 DEF InTarget
    <3>5. \A n \in DOMAIN probe'[c] : n \in 1..Len(probe[c]) \/ n = Len(probe[c]) + 1
      BY <1>1, <3>3
    <3>6. OneInTarget(c)'
      BY <1>2, <2>1, <3>4, <3>5 DEF OneInTarget
    <3>7. MaxRecording \in Nat /\ Len(probe[c]) < MaxRecording
      BY <1>2, <2>1, KeepAliveConstants
    <3> QED BY <1>1, <2>1, <3>3, <3>6, <3>7
  <2>2. CASE c \notin DueProfiles
    <3>1. probe'[c] = probe[c] /\ (c \in probing => c \in probing')
      BY <1>3, <2>2 DEF ListProfiles
    <3>2. OneInTarget(c)'
      BY <1>1, <3>1 DEF OneInTarget, InTarget
    <3> QED BY <1>1, <3>1, <3>2 DEF ProbesInv, KeepAliveTypeOK
  <2> QED BY <2>1, <2>2
<1>5. ASSUME NEW c \in Profiles
      PROVE  /\ dueIn'[c] \in (-ListTicks)..Never /\ probedAgo'[c] \in 0..IntervalTicks
             /\ DueInTime(c)'
  <2>1. /\ dueIn'[c] = IF c \notin Kept THEN Never
                       ELSE IF dueIn[c] = Never \/ c \in DueProfiles
                            THEN IntervalTicks - round.age ELSE dueIn[c]
        /\ probedAgo'[c] = IF c \in DueProfiles THEN 0 ELSE probedAgo[c]
        /\ profile'[c] = profile[c]
    BY DEF ListProfiles
  <2>2. c \in DueProfiles => c \in Kept
    BY DEF DueProfiles, IntervalOver
  <2>3. c \in Kept <=> profile[c] = "on"
    BY DEF Kept
  <2>4. CASE c \notin Kept
    <3>1. dueIn'[c] = Never /\ probedAgo'[c] = probedAgo[c]
      BY <2>1, <2>2, <2>4
    <3> QED BY <1>0, <1>1, <3>1 DEF DueInTime
  <2>5. CASE c \in Kept /\ (dueIn[c] = Never \/ c \in DueProfiles)
    <3>1. dueIn'[c] = IntervalTicks - round.age /\ profile'[c] = "on"
      BY <2>1, <2>3, <2>5
    <3>2. probedAgo'[c] \in Nat /\ probedAgo'[c] <= IntervalTicks
      BY <1>0, <1>1, <2>1
    <3> QED BY <1>0, <3>1, <3>2 DEF DueInTime
  <2>6. CASE c \in Kept /\ ~(dueIn[c] = Never \/ c \in DueProfiles)
    <3>1. dueIn'[c] = dueIn[c] /\ profile'[c] = "on" /\ probedAgo'[c] = probedAgo[c]
      BY <2>1, <2>3, <2>6
    <3> QED BY <1>0, <1>1, <3>1 DEF DueInTime
  <2> QED BY <2>4, <2>5, <2>6
<1>6. /\ dueIn' \in [Profiles -> (-ListTicks)..Never] /\ probedAgo' \in [Profiles -> 0..IntervalTicks]
      /\ probe' \in [Profiles -> Seq(ProbeRecords)]
  <2>1. /\ dueIn' = [c \in Profiles |-> dueIn'[c]]
        /\ probedAgo' = [c \in Profiles |-> probedAgo'[c]]
        /\ probe' = [c \in Profiles |-> probe'[c]]
    BY DEF ListProfiles
  <2> QED BY <1>4, <1>5, <2>1
<1>7. probing' \subseteq Profiles
  BY <1>0 DEF ListProfiles, DueProfiles, IntervalOver, Kept, KeepAliveTypeOK
<1>8. round' \in [pc : {"none", "listing", "probing"}, age : 0..ListTicks]
  BY <1>0, RoundTyped DEF ListProfiles
<1>9. \A c \in Profiles : \A n \in DOMAIN probe'[c] : probe'[c][n] \in ProbeRecords
  BY <1>4
<1>10. KeepAliveTypeOK'
  BY <1>0, <1>4, <1>6, <1>7, <1>8, <1>9 DEF ListProfiles, KeepAliveTypeOK
<1>11. ProbesInv'
  BY <1>4, <1>5, <1>6, <1>10, ProbesKept
<1> QED BY <1>2, <1>4, <1>11

\* One step keeps the invariant, and probes are begun only by a tick of the service.
LEMMA ProbesStep ==
  ProbesInv /\ [KeepAliveNext]_keepAliveVars =>
    /\ ProbesInv'
    /\ \A c \in Profiles : Len(probe'[c]) > Len(probe[c]) =>
         ~InTarget(c) /\ probedAgo[c] >= IntervalTicks - ListTicks
<1> SUFFICES ASSUME ProbesInv, [KeepAliveNext]_keepAliveVars
             PROVE  /\ ProbesInv'
                    /\ \A c \in Profiles : Len(probe'[c]) > Len(probe[c]) =>
                         ~InTarget(c) /\ probedAgo[c] >= IntervalTicks - ListTicks
  OBVIOUS
<1> DEFINE Fewer == \A c \in Profiles : ~(Len(probe'[c]) > Len(probe[c]))
<1>0. /\ KeepAliveTypeOK /\ probe \in [Profiles -> Seq(ProbeRecords)]
      /\ \A c \in Profiles : OneInTarget(c) /\ DueInTime(c) /\ Len(probe[c]) \in Nat
      /\ IntervalTicks \in Nat /\ ListTicks \in Nat /\ ListTicks < IntervalTicks
      /\ Never = IntervalTicks + 1 /\ MaxThrows \in Nat
  BY KeepAliveConstants DEF ProbesInv
<1>1. ASSUME KeepAliveTypeOK', UNCHANGED <<probe, probing>>,
             \A c \in Profiles : DueInTime(c)'
      PROVE  ProbesInv' /\ Fewer
  <2>1. \A c \in Profiles : OneInTarget(c)'
    BY <1>0, <1>1 DEF OneInTarget, InTarget
  <2>2. Fewer
    BY <1>0, <1>1
  <2> QED BY <1>0, <1>1, <2>1, <2>2, ProbesKept
<1>2. ASSUME UNCHANGED <<probe, probing, profile, dueIn, probedAgo>>, KeepAliveTypeOK'
      PROVE  ProbesInv' /\ Fewer
  <2>1. \A c \in Profiles : DueInTime(c)'
    BY <1>0, <1>2 DEF DueInTime
  <2> QED BY <1>1, <1>2, <2>1
<1>3. ASSUME NEW c \in Profiles, CreateProfile(c) PROVE ProbesInv' /\ Fewer
  <2>1. KeepAliveTypeOK'
    BY <1>0, <1>3 DEF CreateProfile, KeepAliveTypeOK
  <2>2. ASSUME NEW d \in Profiles PROVE DueInTime(d)'
    <3>1. dueIn'[d] = dueIn[d] /\ (d = c => dueIn[d] = Never)
      BY <1>0, <1>3 DEF CreateProfile, DueInTime
    <3>2. d # c => profile'[d] = profile[d] /\ probedAgo'[d] = probedAgo[d]
      BY <1>3 DEF CreateProfile
    <3> QED BY <1>0, <3>1, <3>2 DEF DueInTime
  <2> QED BY <1>1, <1>3, <2>1, <2>2 DEF CreateProfile
<1>4. CASE StartScheduler \/ Refresh \/ StopScheduler \/ StopReturns \/ ListThrows
  <2>1. round' \in [pc : {"none", "listing", "probing"}, age : 0..ListTicks]
    BY <1>0, <1>4, RoundTyped
       DEF StartScheduler, Refresh, StopScheduler, StopReturns, ListThrows, BeginRound, KeepAliveTypeOK
  <2>2. KeepAliveTypeOK'
    BY <1>0, <1>4, <2>1
       DEF StartScheduler, Refresh, StopScheduler, StopReturns, ListThrows, KeepAliveTypeOK
  <2>3. ProbesInv' /\ Fewer
    BY <1>2, <1>4, <2>2 DEF StartScheduler, Refresh, StopScheduler, StopReturns, ListThrows
  <2> QED BY <2>3
<1>5. CASE ListProfiles
  BY <1>5, ListKeeps
<1>6. ASSUME NEW c \in Profiles, NEW i \in DOMAIN probe[c], ProbeStep(c, i)
      PROVE  ProbesInv' /\ Fewer
  <2>0. ASSUME probe' \in [Profiles -> Seq(ProbeRecords)],
               \A d \in Profiles : Len(probe'[d]) <= Len(probe[d]) /\ OneInTarget(d)',
               UNCHANGED <<profile, scheduler, dueIn, probedAgo>>,
               probing' \subseteq probing, thrown' \in 0..MaxThrows,
               round' \in {round, NoRound}
        PROVE  ProbesInv' /\ Fewer
    <3>1. ASSUME NEW d \in Profiles
          PROVE  /\ Len(probe'[d]) \in Nat /\ Len(probe'[d]) <= MaxRecording
                 /\ ~(Len(probe'[d]) > Len(probe[d]))
                 /\ \A n \in DOMAIN probe'[d] : probe'[d][n] \in ProbeRecords
      <4>1. probe'[d] \in Seq(ProbeRecords) /\ Len(probe'[d]) <= Len(probe[d])
        BY <2>0
      <4>2. Len(probe'[d]) \in Nat /\ \A n \in DOMAIN probe'[d] : probe'[d][n] \in ProbeRecords
        BY <4>1
      <4>3. Len(probe[d]) \in Nat /\ Len(probe[d]) <= MaxRecording /\ MaxRecording \in Nat
        BY <1>0, KeepAliveConstants DEF KeepAliveTypeOK
      <4> QED BY <4>1, <4>2, <4>3
    <3>2. round' \in [pc : {"none", "listing", "probing"}, age : 0..ListTicks]
      BY <1>0, <2>0, RoundTyped DEF KeepAliveTypeOK
    <3>3. KeepAliveTypeOK'
      BY <1>0, <2>0, <3>1, <3>2 DEF KeepAliveTypeOK
    <3> QED BY <2>0, <3>1, <3>3, ProbesKept
  <2>1. CASE SelectOne(c, i) \/ ProbeEnds(c, i)
    <3>1. CASE SelectOne(c, i)
      <4>1. /\ probe[c][i].pc # "recording" /\ probe' = [probe EXCEPT ![c][i].pc = "executing"]
            /\ probing' = IF "executing" = "recording" THEN probing \ {c} ELSE probing
        BY <3>1 DEF SelectOne
      <4>2. /\ probe' \in [Profiles -> Seq(ProbeRecords)]
            /\ \A d \in Profiles : Len(probe'[d]) = Len(probe[d]) /\ OneInTarget(d)'
        BY <4>1, ProbeMoves
      <4>3. \A d \in Profiles : Len(probe'[d]) <= Len(probe[d])
        BY <1>0, <4>2
      <4>4. thrown' \in 0..MaxThrows
        BY <1>0, <3>1 DEF SelectOne, KeepAliveTypeOK
      <4> QED BY <2>0, <3>1, <4>2, <4>3, <4>4 DEF SelectOne
    <3>2. CASE ProbeEnds(c, i)
      <4>1. /\ probe[c][i].pc # "recording" /\ probe' = [probe EXCEPT ![c][i].pc = "recording"]
            /\ probing' = IF "recording" = "recording" THEN probing \ {c} ELSE probing
        BY <3>2 DEF ProbeEnds
      <4>2. /\ probe' \in [Profiles -> Seq(ProbeRecords)]
            /\ \A d \in Profiles : Len(probe'[d]) = Len(probe[d]) /\ OneInTarget(d)'
        BY <4>1, ProbeMoves
      <4>3. \A d \in Profiles : Len(probe'[d]) <= Len(probe[d])
        BY <1>0, <4>2
      <4>4. thrown' \in 0..MaxThrows /\ probing' \subseteq probing
        BY <1>0, <3>2 DEF ProbeEnds, KeepAliveTypeOK
      <4> QED BY <2>0, <3>2, <4>2, <4>3, <4>4 DEF ProbeEnds
    <3> QED BY <2>1, <3>1, <3>2
  <2>2. CASE Record(c, i) \/ RecordThrows(c, i)
    <3>1. /\ \/ probe' = Without(c, i)
             \/ probe' = [d \in Profiles |->
                  [n \in DOMAIN Without(c, i)[d] |-> [Without(c, i)[d][n] EXCEPT !.watched = FALSE]]]
          /\ probing' = probing
      BY <2>2 DEF Record, RecordThrows
    <3>2. /\ probe' \in [Profiles -> Seq(ProbeRecords)]
          /\ \A d \in Profiles : Len(probe'[d]) <= Len(probe[d]) /\ OneInTarget(d)'
      BY <3>1, ProbeLeaves
    <3>3. thrown \in 0..MaxThrows
      BY <1>0 DEF KeepAliveTypeOK
    <3>4. thrown' \in 0..MaxThrows
      BY <1>0, <2>2, <3>3 DEF Record, RecordThrows
    <3>5. round' \in {round, NoRound} /\ UNCHANGED <<profile, scheduler, dueIn, probedAgo>>
      BY <2>2 DEF Record, RecordThrows
    <3> QED BY <2>0, <3>1, <3>2, <3>4, <3>5
  <2> QED BY <1>6, <2>1, <2>2 DEF ProbeStep
<1>7. CASE KeepAliveTick
  <2>1. ASSUME NEW c \in Profiles
        PROVE  /\ dueIn'[c] \in (-ListTicks)..Never /\ probedAgo'[c] \in 0..IntervalTicks
               /\ DueInTime(c)'
    <3>1. dueIn[c] \in (-ListTicks)..Never /\ probedAgo[c] \in 0..IntervalTicks /\ DueInTime(c)
      BY <1>0 DEF KeepAliveTypeOK
    <3>2. /\ dueIn'[c] = IF dueIn[c] \in {Never, -ListTicks} THEN dueIn[c] ELSE dueIn[c] - 1
          /\ probedAgo'[c] = IF probedAgo[c] < IntervalTicks THEN probedAgo[c] + 1
                             ELSE IntervalTicks
          /\ profile'[c] = profile[c]
      BY <1>7 DEF KeepAliveTick
    <3>3. /\ dueIn[c] \in Int /\ dueIn[c] >= -ListTicks /\ dueIn[c] <= Never
          /\ probedAgo[c] \in Nat /\ probedAgo[c] <= IntervalTicks
      BY <1>0, <3>1
    <3>4. CASE dueIn[c] = Never
      BY <1>0, <3>1, <3>2, <3>3, <3>4 DEF DueInTime
    <3>5. CASE dueIn[c] # Never
      <4>1. \/ dueIn'[c] = dueIn[c] /\ dueIn[c] = -ListTicks
            \/ dueIn'[c] = dueIn[c] - 1 /\ dueIn[c] > -ListTicks
        BY <1>0, <3>2, <3>3, <3>5
      <4>2. \/ probedAgo[c] = IntervalTicks
            \/ dueIn[c] + probedAgo[c] >= IntervalTicks - ListTicks
        BY <3>1, <3>5 DEF DueInTime
      <4>3. \/ probedAgo'[c] = IntervalTicks
            \/ dueIn'[c] + probedAgo'[c] >= IntervalTicks - ListTicks
        BY <1>0, <3>2, <3>3, <4>1, <4>2
      <4>4. profile[c] = "on"
        BY <3>1, <3>5 DEF DueInTime
      <4> QED BY <1>0, <3>2, <3>3, <4>1, <4>3, <4>4 DEF DueInTime
    <3> QED BY <3>4, <3>5
  <2>2. /\ dueIn' \in [Profiles -> (-ListTicks)..Never]
        /\ probedAgo' \in [Profiles -> 0..IntervalTicks]
    <3>1. /\ dueIn' = [c \in Profiles |-> dueIn'[c]]
          /\ probedAgo' = [c \in Profiles |-> probedAgo'[c]]
      BY <1>7 DEF KeepAliveTick
    <3> QED BY <2>1, <3>1
  <2>3. round' \in [pc : {"none", "listing", "probing"}, age : 0..ListTicks]
    BY <1>0, <1>7, RoundTyped DEF KeepAliveTick, KeepAliveTypeOK
  <2>4. KeepAliveTypeOK'
    BY <1>0, <1>7, <2>2, <2>3 DEF KeepAliveTick, KeepAliveTypeOK
  <2> QED BY <1>1, <1>7, <2>1, <2>4 DEF KeepAliveTick
<1>8. CASE UNCHANGED keepAliveVars
  <2>1. KeepAliveTypeOK'
    BY <1>0, <1>8 DEF keepAliveVars, KeepAliveTypeOK
  <2> QED BY <1>2, <1>8, <2>1 DEF keepAliveVars
<1> QED BY <1>3, <1>4, <1>5, <1>6, <1>7, <1>8 DEF KeepAliveNext

\* Every variable keeps its type, for any profiles, interval and lag.
THEOREM KeepAliveTyped == KeepAliveSpec => []KeepAliveTypeOK
<1>1. ProbesInv => KeepAliveTypeOK
  BY DEF ProbesInv
<1> QED BY <1>1, ProbesInitially, ProbesStep, PTL DEF KeepAliveSpec

\* Whatever throws, however long probes take and whenever the process starts and stops its
\* scheduler: no connection is probed while a probe of it is in the target, nor before its
\* interval has passed (SqlKeepAliveService.tick).
THEOREM ProbesStayApart == KeepAliveSpec => ProbesApart
<1> DEFINE Apart == \A c \in Profiles : Len(probe'[c]) > Len(probe[c]) =>
                      ~InTarget(c) /\ probedAgo[c] >= IntervalTicks - ListTicks
<1>1. ProbesInv /\ [KeepAliveNext]_keepAliveVars => ProbesInv' /\ [Apart]_keepAliveVars
  BY ProbesStep
<1> QED BY <1>1, ProbesInitially, PTL DEF KeepAliveSpec, ProbesApart

-----------------------------------------------------------------------------
(* The Redis circuit *)

Accelerated == {c \in CircuitCalls : call[c].pc = "accelerated"}
CallRecords == [pc : {"resting", "accelerated", "probing", "fallback"},
                age : 0..OperationTicks, lost : BOOLEAN]

\* A closed circuit is short of its threshold; each call that was under way when it opened
\* fails once.
CircuitInv ==
  /\ CircuitTypeOK /\ call \in [CircuitCalls -> CallRecords]
  /\ ~degraded => consecutiveFailures < FailureThreshold
  /\ consecutiveFailures + Cardinality(Accelerated)
       <= FailureThreshold + Cardinality(CircuitCalls)

LEMMA CircuitConstants ==
  /\ FailureThreshold \in Nat /\ FailureThreshold > 0 /\ RecoveryThreshold \in Nat
  /\ RecoveryThreshold > 0 /\ OperationTicks \in Nat /\ OperationTicks > 0
  /\ CooldownTicks \in Nat /\ CooldownTicks > 0
  /\ IsFiniteSet(CircuitCalls) /\ Cardinality(CircuitCalls) \in Nat
  /\ IsFiniteSet(Accelerated) /\ Cardinality(Accelerated) \in Nat
  /\ Cardinality(Accelerated) <= Cardinality(CircuitCalls)
<1>1. {FailureThreshold, OperationTicks, CooldownTicks, RecoveryThreshold} \subseteq Nat \ {0}
  BY CircuitAssumption
<1>2. /\ FailureThreshold \in Nat \ {0} /\ OperationTicks \in Nat \ {0}
      /\ CooldownTicks \in Nat \ {0} /\ RecoveryThreshold \in Nat \ {0}
  BY <1>1
<1>3. IsFiniteSet(CircuitCalls) /\ Cardinality(CircuitCalls) \in Nat
  BY CircuitAssumption, FS_CardinalityType
<1>4. /\ IsFiniteSet(Accelerated) /\ Cardinality(Accelerated) \in Nat
      /\ Cardinality(Accelerated) <= Cardinality(CircuitCalls)
  BY <1>3, FS_Subset, FS_CardinalityType DEF Accelerated
<1> QED BY <1>2, <1>3, <1>4

LEMMA CircuitInitially == CircuitInit => CircuitInv
<1> SUFFICES ASSUME CircuitInit PROVE CircuitInv
  OBVIOUS
<1>1. AtRest \in CallRecords
  BY CircuitConstants DEF AtRest, CallRecords
<1>2. call \in [CircuitCalls -> CallRecords]
  BY <1>1 DEF CircuitInit
<1>3. Accelerated = {}
  BY DEF CircuitInit, Accelerated, AtRest
<1>4. CircuitTypeOK
  <2>1. /\ 0 \in 0..CooldownTicks /\ 0 \in 0..(RecoveryThreshold - 1) /\ 0 \in 0..OperationTicks
        /\ 0 \in 0..(FailureThreshold + Cardinality(CircuitCalls))
    BY CircuitConstants
  <2> QED BY <2>1 DEF CircuitInit, CircuitTypeOK, AtRest
<1> QED BY <1>2, <1>3, <1>4, CircuitConstants, FS_EmptySet DEF CircuitInit, CircuitInv

\* What a step has to keep.
LEMMA CircuitKept ==
  ASSUME CircuitInv, call' \in [CircuitCalls -> CallRecords],
         degraded' \in BOOLEAN, probeActive' \in BOOLEAN, up' \in BOOLEAN,
         cooldown' \in 0..CooldownTicks, recoverySuccesses' \in 0..(RecoveryThreshold - 1),
         consecutiveFailures' \in Nat,
         ~degraded' => consecutiveFailures' < FailureThreshold,
         consecutiveFailures' + Cardinality(Accelerated')
           <= FailureThreshold + Cardinality(CircuitCalls)
  PROVE  CircuitInv'
<1>1. IsFiniteSet(Accelerated') /\ Cardinality(Accelerated') \in Nat
  <2>1. Accelerated' \subseteq CircuitCalls
    BY DEF Accelerated
  <2> QED BY <2>1, CircuitConstants, FS_Subset, FS_CardinalityType
<1>2. consecutiveFailures' \in 0..(FailureThreshold + Cardinality(CircuitCalls))
  BY <1>1, CircuitConstants
<1>3. \A c \in CircuitCalls :
        /\ call'[c].pc \in {"resting", "accelerated", "probing", "fallback"}
        /\ call'[c].age \in 0..OperationTicks /\ call'[c].lost \in BOOLEAN
  BY DEF CallRecords
<1>4. CircuitTypeOK'
  BY <1>2, <1>3 DEF CircuitTypeOK
<1> QED BY <1>4 DEF CircuitInv

LEMMA CircuitStep == CircuitInv /\ [CircuitNext]_circuitVars => CircuitInv'
<1> SUFFICES ASSUME CircuitInv, [CircuitNext]_circuitVars PROVE CircuitInv'
  OBVIOUS
<1> DEFINE N == Cardinality(CircuitCalls)
           A == Cardinality(Accelerated)
<1>0. /\ call \in [CircuitCalls -> CallRecords] /\ degraded \in BOOLEAN /\ probeActive \in BOOLEAN
      /\ up \in BOOLEAN /\ cooldown \in 0..CooldownTicks
      /\ recoverySuccesses \in 0..(RecoveryThreshold - 1)
      /\ consecutiveFailures \in Nat /\ consecutiveFailures + A <= FailureThreshold + N
      /\ ~degraded => consecutiveFailures < FailureThreshold
  BY CircuitConstants DEF CircuitInv, CircuitTypeOK
<1>1. /\ AtRest \in CallRecords /\ Falling \in CallRecords
      /\ AtRest.pc = "resting" /\ Falling.pc = "fallback"
      /\ \A lost \in BOOLEAN, stage \in {"accelerated", "probing"} :
           [pc |-> stage, age |-> 0, lost |-> lost] \in CallRecords
  BY CircuitConstants DEF AtRest, Falling, CallRecords
<1>2. ASSUME Accelerated' \subseteq Accelerated
      PROVE  Cardinality(Accelerated') \in Nat /\ Cardinality(Accelerated') <= A
  BY <1>2, CircuitConstants, FS_Subset, FS_CardinalityType
<1>3. Cardinality(Accelerated') \in Nat /\ Cardinality(Accelerated') <= N
  <2>1. Accelerated' \subseteq CircuitCalls
    BY DEF Accelerated
  <2> QED BY <2>1, CircuitConstants, FS_Subset, FS_CardinalityType
<1>4. ASSUME NEW c \in CircuitCalls, NEW r \in CallRecords, r.pc # "accelerated",
             call' = [call EXCEPT ![c] = r]
      PROVE  /\ call' \in [CircuitCalls -> CallRecords]
             /\ Accelerated' = Accelerated \ {c}
             /\ Cardinality(Accelerated') <= A
             /\ c \in Accelerated => Cardinality(Accelerated') = A - 1
  <2>1. call' \in [CircuitCalls -> CallRecords]
    BY <1>0, <1>4
  <2>2. Accelerated' = Accelerated \ {c}
    BY <1>0, <1>4 DEF Accelerated
  <2>3. c \in Accelerated => Cardinality(Accelerated \ {c}) = Cardinality(Accelerated) - 1
    BY CircuitConstants, FS_RemoveElement
  <2> QED BY <1>2, <2>1, <2>2, <2>3
<1> HIDE DEF N, A
<1>5. N \in Nat /\ A \in Nat /\ A <= N
  BY CircuitConstants DEF N, A
<1>6. ASSUME NEW c \in CircuitCalls, RunAccelerated(c) PROVE CircuitInv'
  <2>1. PICK lost \in BOOLEAN : call' = [call EXCEPT ![c] =
                                           [pc |-> "accelerated", age |-> 0, lost |-> lost]]
    BY <1>6 DEF RunAccelerated, SendTo
  <2>2. call' \in [CircuitCalls -> CallRecords]
    BY <1>0, <1>1, <2>1
  <2>3. consecutiveFailures + Cardinality(Accelerated') <= FailureThreshold + N
    BY <1>0, <1>3, <1>6, CircuitConstants DEF RunAccelerated, N
  <2> QED BY <1>0, <1>6, <2>2, <2>3, CircuitKept DEF RunAccelerated, N
<1>7. ASSUME NEW c \in CircuitCalls, RunFallback(c) \/ FallbackEnds(c) \/ CallAnswers(c)
                                     \/ RunRecoveryProbe(c)
      PROVE  CircuitInv'
  <2>1. PICK r \in CallRecords : r.pc # "accelerated" /\ call' = [call EXCEPT ![c] = r]
    <3>1. CASE RunRecoveryProbe(c)
      <4>1. PICK lost \in BOOLEAN : call' = [call EXCEPT ![c] =
                                               [pc |-> "probing", age |-> 0, lost |-> lost]]
        BY <3>1 DEF RunRecoveryProbe, SendTo
      <4> QED BY <1>1, <4>1
    <3>2. CASE ~RunRecoveryProbe(c)
      BY <1>1, <1>7, <3>2 DEF RunFallback, FallbackEnds, CallAnswers
    <3> QED BY <3>1, <3>2
  <2>2. /\ call' \in [CircuitCalls -> CallRecords]
        /\ Cardinality(Accelerated') \in Nat /\ Cardinality(Accelerated') <= A
    BY <1>3, <1>4, <2>1
  <2>3. /\ consecutiveFailures' \in {0, consecutiveFailures} /\ degraded' = degraded
        /\ cooldown' = cooldown /\ recoverySuccesses' = recoverySuccesses
        /\ probeActive' \in BOOLEAN /\ up' = up
    BY <1>0, <1>7 DEF RunFallback, FallbackEnds, CallAnswers, RunRecoveryProbe
  <2>4. /\ consecutiveFailures' \in Nat
        /\ consecutiveFailures' + Cardinality(Accelerated') <= FailureThreshold + N
        /\ ~degraded' => consecutiveFailures' < FailureThreshold
    BY <1>0, <1>5, <2>2, <2>3, CircuitConstants
  <2> QED BY <1>0, <2>2, <2>3, <2>4, CircuitKept DEF N
<1>8. ASSUME NEW c \in CircuitCalls, CallFails(c) PROVE CircuitInv'
  <2>1. /\ call' \in [CircuitCalls -> CallRecords]
        /\ Cardinality(Accelerated') = A - 1 
    <3>1. c \in Accelerated
      BY <1>8 DEF CallFails, Accelerated
    <3>2. Falling.pc # "accelerated" /\ Falling \in CallRecords /\ call' = [call EXCEPT ![c] = Falling]
      BY <1>1, <1>8 DEF CallFails
    <3> QED BY <1>4, <3>1, <3>2
  <2>2. /\ consecutiveFailures' = consecutiveFailures + 1
        /\ IF consecutiveFailures + 1 >= FailureThreshold
           THEN degraded' = TRUE /\ cooldown' = CooldownTicks
           ELSE degraded' = degraded /\ cooldown' = cooldown
        /\ recoverySuccesses' = recoverySuccesses /\ probeActive' = probeActive /\ up' = up
    BY <1>8 DEF CallFails
  <2>3. /\ consecutiveFailures' \in Nat
        /\ consecutiveFailures' + Cardinality(Accelerated') <= FailureThreshold + N
        /\ ~degraded' => consecutiveFailures' < FailureThreshold
        /\ degraded' \in BOOLEAN /\ cooldown' \in 0..CooldownTicks
    <3>1. /\ consecutiveFailures' \in Nat
          /\ consecutiveFailures' + Cardinality(Accelerated') <= FailureThreshold + N
      BY <1>0, <1>5, <2>1, <2>2, CircuitConstants
    <3>2. CooldownTicks \in 0..CooldownTicks
      BY CircuitConstants
    <3>3. CASE consecutiveFailures + 1 >= FailureThreshold
      BY <2>2, <3>1, <3>2, <3>3
    <3>4. CASE ~(consecutiveFailures + 1 >= FailureThreshold)
      <4>1. consecutiveFailures + 1 < FailureThreshold
        BY <1>0, <3>4, CircuitConstants
      <4> QED BY <1>0, <2>2, <3>1, <3>4, <4>1
    <3> QED BY <3>3, <3>4
  <2> QED BY <1>0, <2>1, <2>2, <2>3, CircuitKept DEF N
<1>9. ASSUME NEW c \in CircuitCalls, ProbeAnswers(c) \/ ProbeFails(c) PROVE CircuitInv'
  <2>1. PICK r \in CallRecords : r.pc # "accelerated" /\ call' = [call EXCEPT ![c] = r]
    BY <1>1, <1>9 DEF ProbeAnswers, ProbeFails
  <2>2. /\ call' \in [CircuitCalls -> CallRecords]
        /\ Cardinality(Accelerated') \in Nat /\ Cardinality(Accelerated') <= A
    BY <1>3, <1>4, <2>1
  <2>3. CASE ProbeFails(c)
    <3>1. /\ consecutiveFailures' = FailureThreshold /\ recoverySuccesses' = 0
          /\ degraded' = TRUE /\ cooldown' = CooldownTicks /\ probeActive' = FALSE /\ up' = up
      BY <2>3 DEF ProbeFails
    <3>2. consecutiveFailures' + Cardinality(Accelerated') <= FailureThreshold + N
      BY <1>5, <2>2, <3>1, CircuitConstants
    <3>3. /\ cooldown' \in 0..CooldownTicks /\ recoverySuccesses' \in 0..(RecoveryThreshold - 1)
          /\ consecutiveFailures' \in Nat
      BY <3>1, CircuitConstants
    <3> QED BY <1>0, <2>2, <3>1, <3>2, <3>3, CircuitKept DEF N
  <2>4. CASE ProbeAnswers(c)
    <3>1. /\ \/ degraded' = FALSE /\ cooldown' = 0 /\ consecutiveFailures' = 0
                /\ recoverySuccesses' = 0
             \/ /\ recoverySuccesses + 1 < RecoveryThreshold
                /\ recoverySuccesses' = recoverySuccesses + 1 /\ degraded' = degraded
                /\ cooldown' = cooldown /\ consecutiveFailures' = consecutiveFailures
          /\ probeActive' = FALSE /\ up' = up
      BY <1>0, <2>4, CircuitConstants DEF ProbeAnswers
    <3>2. /\ consecutiveFailures' + Cardinality(Accelerated') <= FailureThreshold + N
          /\ consecutiveFailures' \in Nat
          /\ ~degraded' => consecutiveFailures' < FailureThreshold
      BY <1>0, <1>5, <2>2, <3>1, CircuitConstants
    <3>3. /\ cooldown' \in 0..CooldownTicks /\ recoverySuccesses' \in 0..(RecoveryThreshold - 1)
          /\ degraded' \in BOOLEAN
      <4>1. 0 \in 0..CooldownTicks /\ 0 \in 0..(RecoveryThreshold - 1)
        BY CircuitConstants
      <4>2. recoverySuccesses + 1 < RecoveryThreshold
              => recoverySuccesses + 1 \in 0..(RecoveryThreshold - 1)
        BY <1>0, CircuitConstants
      <4> QED BY <1>0, <3>1, <4>1, <4>2
    <3> QED BY <1>0, <2>2, <3>1, <3>2, <3>3, CircuitKept DEF N
  <2> QED BY <1>9, <2>3, <2>4
<1>10. CASE RedisFails \/ RedisReturns \/ CircuitTick
  <2>1. ASSUME NEW c \in CircuitCalls
        PROVE  call'[c] \in CallRecords /\ call'[c].pc = call[c].pc
    <3>1. /\ call[c].pc \in {"resting", "accelerated", "probing", "fallback"}
          /\ call[c].age \in 0..OperationTicks /\ call[c].lost \in BOOLEAN
          /\ call[c] \in CallRecords
      BY <1>0 DEF CallRecords
    <3>2. call'[c] = call[c] \/ call'[c] = [call[c] EXCEPT !.lost = TRUE]
          \/ /\ call[c].age < OperationTicks
             /\ call'[c] = [call[c] EXCEPT !.age = @ + 1]
      BY <1>10 DEF RedisFails, RedisReturns, CircuitTick
    <3>3. call[c].age < OperationTicks => call[c].age + 1 \in 0..OperationTicks
      BY <3>1, CircuitConstants
    <3> QED BY <3>1, <3>2, <3>3 DEF CallRecords
  <2>2. call' \in [CircuitCalls -> CallRecords]
    <3>1. call' = [c \in CircuitCalls |-> call'[c]]
      BY <1>0, <1>10 DEF RedisFails, RedisReturns, CircuitTick
    <3> QED BY <2>1, <3>1
  <2>3. Accelerated' = Accelerated
    BY <2>1 DEF Accelerated
  <2>4. /\ consecutiveFailures' = consecutiveFailures /\ degraded' = degraded
        /\ recoverySuccesses' = recoverySuccesses /\ probeActive' = probeActive
        /\ up' \in BOOLEAN /\ cooldown' \in 0..CooldownTicks
    <3>1. /\ consecutiveFailures' = consecutiveFailures /\ degraded' = degraded
          /\ recoverySuccesses' = recoverySuccesses /\ probeActive' = probeActive
          /\ up' \in BOOLEAN
      BY <1>0, <1>10 DEF RedisFails, RedisReturns, CircuitTick
    <3>2. cooldown' = cooldown \/ cooldown' = (IF cooldown = 0 THEN 0 ELSE cooldown - 1)
      BY <1>10 DEF RedisFails, RedisReturns, CircuitTick
    <3>3. cooldown' \in 0..CooldownTicks
      BY <1>0, <3>2, CircuitConstants
    <3> QED BY <3>1, <3>3
  <2> QED BY <1>0, <2>2, <2>3, <2>4, CircuitKept DEF N, A
<1>11. CASE UNCHANGED circuitVars
  <2>1. Accelerated' = Accelerated
    BY <1>11 DEF circuitVars, Accelerated
  <2> QED BY <1>0, <1>11, <2>1, CircuitKept DEF circuitVars, N, A
<1> QED BY <1>6, <1>7, <1>8, <1>9, <1>10, <1>11 DEF CircuitNext, RunCall, EndCall

\* Every variable keeps its type: calls that end after the circuit has opened count no
\* further than one failure each (RedisFallbackCircuit.recordFailure).
THEOREM CircuitTyped == CircuitSpec => []CircuitTypeOK
<1>1. CircuitInv => CircuitTypeOK
  BY DEF CircuitInv
<1> QED BY <1>1, CircuitInitially, CircuitStep, PTL DEF CircuitSpec

-----------------------------------------------------------------------------
(* All services side by side *)

\* What closing says of itself.
CloseTyped == closing \in {"no", "closing", "closed"} /\ awaited \subseteq Transports

LEMMA CloseTypedStep == CloseTyped /\ [TunnelsNext]_tunnelVars => CloseTyped'
<1> SUFFICES ASSUME CloseTyped, [TunnelsNext]_tunnelVars PROVE CloseTyped'
  OBVIOUS
<1>1. CASE UNCHANGED tunnelVars
  BY <1>1 DEF tunnelVars, poolVars, CloseTyped
<1>2. ASSUME UNCHANGED <<closing, awaited>> PROVE CloseTyped'
  BY <1>2 DEF CloseTyped
<1>3. ASSUME NEW t \in Transports, Connect(t) PROVE CloseTyped'
  BY <1>3 DEF Connect, Connected, ConnectFails, CloseTyped
<1>4. CASE CloseBegin \/ CloseEnd
  BY <1>4 DEF CloseBegin, CloseEnd, CloseTyped
<1>5. ASSUME NEW c \in Callers, OpenTunnel(c) \/ Advance(c) \/ ChannelCloses(c) PROVE CloseTyped'
  BY <1>2, <1>5
     DEF OpenTunnel, Advance, Ask, Resume, Take, Forwarded, ForwardFails, WaitTimeout, ChannelCloses
<1>6. ASSUME NEW t \in Transports, IdleTimeout(t) \/ Drop(t) PROVE CloseTyped'
  BY <1>2, <1>6 DEF IdleTimeout, Drop
<1> QED BY <1>1, <1>3, <1>4, <1>5, <1>6 DEF TunnelsNext

LEMMA SlotsTyped == SlotsInv /\ CloseTyped => TunnelsTypeOK
<1> SUFFICES ASSUME SlotsInv, CloseTyped PROVE TunnelsTypeOK
  OBVIOUS
<1>1. ASSUME NEW t \in Transports PROVE active[t] \in 0..MaxChannels
  <2>1. active[t] \in Nat /\ TransportKept(t) /\ MaxChannels \in Nat
    BY TunnelsAssumption DEF SlotsInv, PoolTypes
  <2> QED BY <2>1 DEF TransportKept, Served, Unserved
<1>2. active \in [Transports -> 0..MaxChannels]
  BY <1>1 DEF SlotsInv, PoolTypes
<1> QED BY <1>2 DEF SlotsInv, PoolInv, PoolTypes, Calls, CloseTyped, TunnelsTypeOK

\* What every service keeps.
ServicesInv ==
  /\ FilesInv /\ SessionsInv /\ SessionsCurrent /\ AccountsInv /\ HostsInv
  /\ SlotsInv /\ CloseTyped /\ CancelInv /\ AuditInv /\ LimitInv /\ WaitInv
  /\ ProbesInv /\ CircuitInv

LEMMA ServicesInitially == ServicesInit => ServicesInv
<1> SUFFICES ASSUME ServicesInit PROVE ServicesInv
  OBVIOUS
<1>1. CloseTyped
  BY DEF ServicesInit, TunnelsInit, CloseTyped
<1> QED BY <1>1, FilesInitially, SessionsStart, AccountsStart, HostsInitially, SlotsInitially,
           CancelInitially, AuditInitially, LimitInitially, WaitInitially, ProbesInitially,
           CircuitInitially
        DEF ServicesInit, ServicesInv

\* A step is one of a service, and none for the others.
LEMMA ServicesApart ==
  ASSUME [ServicesNext]_servicesVars
  PROVE  /\ [FilesNext]_filesVars /\ [SessionsNext]_sessionsVars /\ [AccountsNext]_accountVars
         /\ [KnownHostsNext]_hostVars /\ [TunnelsNext]_tunnelVars /\ [QueriesNext]_queryVars
         /\ [RolesNext]_roleVars /\ [KeepAliveNext]_keepAliveVars /\ [CircuitNext]_circuitVars
  BY DEF ServicesNext, servicesVars

LEMMA ServicesStep == ServicesInv /\ [ServicesNext]_servicesVars => ServicesInv'
<1> SUFFICES ASSUME ServicesInv, [ServicesNext]_servicesVars PROVE ServicesInv'
  OBVIOUS
<1>1. /\ [FilesNext]_filesVars /\ [SessionsNext]_sessionsVars /\ [AccountsNext]_accountVars
      /\ [KnownHostsNext]_hostVars /\ [TunnelsNext]_tunnelVars /\ [QueriesNext]_queryVars
      /\ [RolesNext]_roleVars /\ [KeepAliveNext]_keepAliveVars /\ [CircuitNext]_circuitVars
  BY ServicesApart
<1>2. FilesInv'
  BY <1>1, FilesStep DEF ServicesInv
<1>3. SessionsInv' /\ SessionsCurrent'
  BY <1>1, SessionsStep, CurrentKept DEF ServicesInv
<1>4. AccountsInv' /\ HostsInv'
  BY <1>1, AccountsStep, HostsStep DEF ServicesInv
<1>5. SlotsInv' /\ CloseTyped'
  BY <1>1, SlotsStep, CloseTypedStep DEF ServicesInv
<1>6. CancelInv' /\ AuditInv'
  BY <1>1, CancelStep, AuditStep DEF ServicesInv
<1>7. LimitInv' /\ WaitInv'
  BY <1>1, LimitStep, WaitStep DEF ServicesInv
<1>8. ProbesInv' /\ CircuitInv'
  BY <1>1, ProbesStep, CircuitStep DEF ServicesInv
<1> QED BY <1>2, <1>3, <1>4, <1>5, <1>6, <1>7, <1>8 DEF ServicesInv

LEMMA ServicesAlways == ServicesSpec => []ServicesInv
  BY ServicesInitially, ServicesStep, PTL DEF ServicesSpec

\* Every variable of the pool keeps its type (SshTunnelPool).
THEOREM TunnelsTyped == TunnelsSpec => []TunnelsTypeOK
<1>1. TunnelsInit => CloseTyped
  BY DEF TunnelsInit, CloseTyped
<1> QED BY <1>1, SlotsInitially, SlotsStep, CloseTypedStep, SlotsTyped, PTL DEF TunnelsSpec

\* Side by side, and for all values of their constants, the services keep the types of all
\* their variables.
THEOREM ServicesTyped == ServicesSpec => []ServicesTypeOK
<1>1. SessionsInv => SessionsTypeOK
  BY RevisionBound DEF SessionsInv, UsersTyped, RowsSound, CopiesSound, RequestsSound,
                       SessionsTypeOK
<1>2. FilesInv => FilesTypeOK
  BY DEF FilesInv, ChunkRowsTyped, RunsTyped, ChunksTyped, FilesTypeOK, Stores, Holds
<1>3. ServicesInv => ServicesTypeOK
  BY <1>1, <1>2, SlotsTyped
     DEF ServicesInv, AccountsInv, HostsInv, CancelInv, LimitInv, ProbesInv, CircuitInv,
         ServicesTypeOK
<1> QED BY <1>3, ServicesAlways, PTL
=============================================================================
