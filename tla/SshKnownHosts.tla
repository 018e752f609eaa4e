--------------------------- MODULE SshKnownHosts ---------------------------
(***************************************************************************)
(* Trust on first use.  Every SSH handshake, in whichever API process,     *)
(* presents a host key; SshKnownHostService claims the endpoint for it in  *)
(* ssh_known_hosts (an insert that does nothing when there is a row, then  *)
(* a select) and the handshake goes on when the key is the pinned one.  An *)
(* administrator may reset the endpoint at any time.                       *)
(***************************************************************************)
EXTENDS FiniteSets

CONSTANTS
  Handshakes,  \* handshakes with one endpoint
  HostKeys,    \* the keys the endpoint may present
  NoKey

ASSUME KnownHostsAssumption == NoKey \notin HostKeys

VARIABLES
  pinned,     \* the fingerprint column, or NoKey
  handshake,  \* each handshake: how far it is, and the key it saw
  epoch       \* history: the keys trusted since the endpoint was last reset

hostVars == <<pinned, handshake, epoch>>

\* Every variable keeps its type.
KnownHostsTypeOK ==
  /\ pinned \in HostKeys \cup {NoKey}
  /\ handshake \in [Handshakes -> [pc : {"idle", "claiming", "finding", "ready", "refused"},
                                   key : HostKeys \cup {NoKey}]]
  /\ epoch \subseteq HostKeys

KnownHostsInit ==
  /\ pinned = NoKey
  /\ handshake = [h \in Handshakes |-> [pc |-> "idle", key |-> NoKey]]
  /\ epoch = {}

\* The SSH library calls hostVerifier.
Present(h, k) ==
  /\ handshake[h].pc = "idle"
  /\ handshake' = [handshake EXCEPT ![h] = [pc |-> "claiming", key |-> k]]
  /\ UNCHANGED <<pinned, epoch>>

Trust(h) ==
  /\ handshake' = [handshake EXCEPT ![h].pc = "ready"]
  /\ epoch' = epoch \cup {handshake[h].key}

\* Faulty: on conflict do update.
ClaimReplaces(h) ==
  /\ handshake[h].pc = "claiming"
  /\ pinned' = handshake[h].key
  /\ Trust(h)

\* insert ... on conflict do nothing: one claim wins.
ClaimInsert(h) ==
  /\ handshake[h].pc = "claiming"
  /\ \/ /\ pinned = NoKey
        /\ pinned' = handshake[h].key
        /\ Trust(h)
     \/ /\ pinned # NoKey
        /\ handshake' = [handshake EXCEPT ![h].pc = "finding"]
        /\ UNCHANGED <<pinned, epoch>>

\* find: the row may have been reset, and claimed again, since the insert.
ClaimFind(h) ==
  /\ handshake[h].pc = "finding"
  /\ \/ handshake[h].key = pinned /\ Trust(h)
     \/ /\ handshake[h].key # pinned
        /\ handshake' = [handshake EXCEPT ![h].pc = "refused"]
        /\ UNCHANGED epoch
  /\ UNCHANGED pinned

\* reset: the row goes, then the reset is recorded.
ResetHost ==
  /\ pinned # NoKey
  /\ pinned' = NoKey
  /\ epoch' = {}
  /\ UNCHANGED handshake

\* The transport is closed, and another may be made.
Disconnect(h) ==
  /\ handshake[h].pc \in {"ready", "refused"}
  /\ handshake' = [handshake EXCEPT ![h] = [pc |-> "idle", key |-> NoKey]]
  /\ UNCHANGED <<pinned, epoch>>

KnownHostsNext ==
  \/ \E h \in Handshakes :
       \/ \E k \in HostKeys : Present(h, k)
       \/ ClaimInsert(h) \/ ClaimFind(h) \/ Disconnect(h)
  \/ ResetHost

KnownHostsSpec == KnownHostsInit /\ [][KnownHostsNext]_hostVars
-----------------------------------------------------------------------------
(* What trust on first use promises *)

\* However handshakes of several processes and resets interleave: between two
\* resets only one key is ever trusted, and it is the pinned one.
OneKeyTrusted == epoch \subseteq {pinned}
============================================================================
