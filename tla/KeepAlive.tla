------------------------------ MODULE KeepAlive ------------------------------
(* The probes that keep the connections of the stored profiles alive           *)
(* (keepalive/sql-keepalive-service.ts), in one process.  A timer starts a     *)
(* tick unless one is under way; a tick lists the profiles and probes all that *)
(* are due at the same time.  It ends with its last record, or with the first  *)
(* that can not be written: then the other probes go on, and a new tick may    *)
(* find them running.                                                          *)
EXTENDS Integers, SequencesExt

CONSTANTS
  Profiles,       \* the connection profiles that may be created
  IntervalTicks,  \* keepAlive.intervalMs
  ListTicks,      \* no answer of connections.list takes longer
  MaxRecording,   \* bound on the probes of a profile that are not over
  MaxThrows       \* bound on the calls that throw

ASSUME KeepAliveAssumption ==
  /\ IntervalTicks \in Nat \ {0} /\ ListTicks \in Nat /\ ListTicks < IntervalTicks
  /\ MaxRecording \in Nat \ {0} /\ MaxThrows \in Nat

VARIABLES
  profile,    \* the row of each profile: "none", keep-alive "off" or "on"
  scheduler,  \* the KeepAliveScheduler: "idle", "started", "stopping", "stopped"
  round,      \* currentTick: "none", "listing", "probing", and the age of its `now`
  dueIn,      \* dueAt: ticks until a profile is due
  probing,    \* the set `running` of the service
  probe,      \* the probes of each profile, the latest last
  probedAgo,  \* (history) ticks since the last probe began, or the profile was created
  thrown      \* how many calls have thrown

keepAliveVars ==
  <<profile, scheduler, round, dueIn, probing, probe, probedAgo, thrown>>

Never == IntervalTicks + 1     \* no entry in dueAt

\* A probe resolves its connection, executes SELECT 1, then writes its event; the tick
\* that began it may have ended before it.
ProbeAt(place) == [pc |-> place, watched |-> TRUE]
ProbeRecords == [pc : {"resolving", "executing", "recording"}, watched : BOOLEAN]
InTarget(c) == \E i \in DOMAIN probe[c] : probe[c][i].pc # "recording"

KeepAliveTypeOK ==
  /\ profile \in [Profiles -> {"none", "off", "on"}]
  /\ scheduler \in {"idle", "started", "stopping", "stopped"}
  /\ round \in [pc : {"none", "listing", "probing"}, age : 0..ListTicks]
  /\ dueIn \in [Profiles -> (-ListTicks)..Never]
  /\ probing \subseteq Profiles
  /\ \A c \in Profiles :
       /\ Len(probe[c]) <= MaxRecording
       /\ \A i \in DOMAIN probe[c] : probe[c][i] \in ProbeRecords
  /\ probedAgo \in [Profiles -> 0..IntervalTicks]
  /\ thrown \in 0..MaxThrows

NoRound == [pc |-> "none", age |-> 0]

KeepAliveInit ==
  /\ profile = [c \in Profiles |-> "none"]
  /\ scheduler = "idle" /\ round = NoRound
  /\ dueIn = [c \in Profiles |-> Never]
  /\ probing = {}
  /\ probe = [c \in Profiles |-> <<>>]
  /\ probedAgo = [c \in Profiles |-> 0]
  /\ thrown = 0

-----------------------------------------------------------------------------
(* Profiles: once created they are neither changed nor deleted. *)

CreateProfile(c) ==
  /\ profile[c] = "none"
  /\ \E keep \in {"off", "on"} : profile' = [profile EXCEPT ![c] = keep]
  /\ probedAgo' = [probedAgo EXCEPT ![c] = 0]
  /\ UNCHANGED <<scheduler, round, dueIn, probing, probe, thrown>>

-----------------------------------------------------------------------------
(* The scheduler *)

BeginRound == round' = [pc |-> "listing", age |-> 0]

StartScheduler ==
  /\ scheduler = "idle"
  /\ scheduler' = "started" /\ BeginRound
  /\ UNCHANGED <<profile, dueIn, probing, probe, probedAgo, thrown>>

\* The interval fires; with a tick under way nothing happens.
Refresh ==
  /\ scheduler = "started" /\ round.pc = "none"
  /\ BeginRound
  /\ UNCHANGED <<profile, scheduler, dueIn, probing, probe, probedAgo, thrown>>

StopScheduler ==
  /\ scheduler = "started"
  /\ scheduler' = "stopping"
  /\ UNCHANGED <<profile, round, dueIn, probing, probe, probedAgo, thrown>>

StopReturns ==
  /\ scheduler = "stopping" /\ round.pc = "none"
  /\ scheduler' = "stopped"
  /\ UNCHANGED <<profile, round, dueIn, probing, probe, probedAgo, thrown>>

-----------------------------------------------------------------------------
(* A tick of the service: `now` was read before the profiles were listed. *)

Kept == {c \in Profiles : profile[c] = "on"}

\* The profiles whose interval is over, and those of them this tick probes.
IntervalOver == {c \in Kept : dueIn[c] # Never /\ dueIn[c] + round.age <= 0}

\* Faulty: profiles with a probe in the target are not left out.
DueOrProbing == IntervalOver
DueProfiles == IntervalOver \ probing

ListProfiles ==
  /\ round.pc = "listing"
  /\ \A c \in DueProfiles : Len(probe[c]) < MaxRecording
  /\ dueIn' = [c \in Profiles |->
       IF c \notin Kept THEN Never
       ELSE IF dueIn[c] = Never \/ c \in DueProfiles THEN IntervalTicks - round.age
       ELSE dueIn[c]]
  /\ probing' = probing \cup DueProfiles
  /\ probe' = [c \in Profiles |->
       IF c \in DueProfiles THEN Append(probe[c], ProbeAt("resolving")) ELSE probe[c]]
  /\ probedAgo' = [c \in Profiles |-> IF c \in DueProfiles THEN 0 ELSE probedAgo[c]]
  /\ round' = IF DueProfiles = {} THEN NoRound ELSE [round EXCEPT !.pc = "probing", !.age = 0]
  /\ UNCHANGED <<profile, scheduler, thrown>>

ListThrows ==
  /\ round.pc = "listing"
  /\ thrown < MaxThrows /\ thrown' = thrown + 1
  /\ round' = NoRound
  /\ UNCHANGED <<profile, scheduler, dueIn, probing, probe, probedAgo>>

-----------------------------------------------------------------------------
(* A probe.  Its gateway may take longer than the timeout that aborts it; how   *)
(* it ends is the status of its event.                                         *)

SelectOne(c, i) ==
  /\ probe[c][i].pc = "resolving"
  /\ probe' = [probe EXCEPT ![c][i].pc = "executing"]
  /\ UNCHANGED <<profile, scheduler, round, dueIn, probing, probedAgo, thrown>>

\* An answer or an error of the resolution or the statement.
ProbeEnds(c, i) ==
  /\ probe[c][i].pc \in {"resolving", "executing"}
  /\ probe' = [probe EXCEPT ![c][i].pc = "recording"]
  /\ probing' = probing \ {c}
  /\ UNCHANGED <<profile, scheduler, round, dueIn, probedAgo, thrown>>

Watched(probes) == \E c \in Profiles, i \in 1..MaxRecording :
  i \in DOMAIN probes[c] /\ probes[c][i].watched

Without(c, i) == [probe EXCEPT ![c] = RemoveAt(@, i)]

Record(c, i) ==
  /\ probe[c][i].pc = "recording"
  /\ probe' = Without(c, i)
  /\ round' = IF probe[c][i].watched /\ ~Watched(Without(c, i)) THEN NoRound ELSE round
  /\ UNCHANGED <<profile, scheduler, dueIn, probing, probedAgo, thrown>>

\* Promise.all rejects with the first record that throws; nobody waits for the others.
RecordThrows(c, i) ==
  /\ probe[c][i].pc = "recording"
  /\ thrown < MaxThrows /\ thrown' = thrown + 1
  /\ IF probe[c][i].watched
     THEN /\ round' = NoRound
          /\ probe' = [d \in Profiles |->
               [n \in DOMAIN Without(c, i)[d] |-> [Without(c, i)[d][n] EXCEPT !.watched = FALSE]]]
     ELSE /\ probe' = Without(c, i)
          /\ UNCHANGED round
  /\ UNCHANGED <<profile, scheduler, dueIn, probing, probedAgo>>

ProbeStep(c, i) ==
  \/ SelectOne(c, i)
  \/ ProbeEnds(c, i)
  \/ Record(c, i)
  \/ RecordThrows(c, i)

-----------------------------------------------------------------------------
KeepAliveTick ==
  /\ round.pc = "listing" => round.age < ListTicks
  /\ round' = IF round.pc = "listing" THEN [round EXCEPT !.age = @ + 1] ELSE round
  /\ dueIn' = [c \in Profiles |->
       IF dueIn[c] \in {Never, -ListTicks} THEN dueIn[c] ELSE dueIn[c] - 1]
  /\ probedAgo' = [c \in Profiles |-> IF probedAgo[c] < IntervalTicks THEN probedAgo[c] + 1
                                                                 ELSE IntervalTicks]
  /\ UNCHANGED <<profile, scheduler, probing, probe, thrown>>

KeepAliveNext ==
  \/ \E c \in Profiles : CreateProfile(c)
  \/ StartScheduler
  \/ Refresh
  \/ StopScheduler
  \/ StopReturns
  \/ ListProfiles
  \/ ListThrows
  \/ \E c \in Profiles : \E i \in DOMAIN probe[c] : ProbeStep(c, i)
  \/ KeepAliveTick

KeepAliveSpec == KeepAliveInit /\ [][KeepAliveNext]_keepAliveVars

-----------------------------------------------------------------------------
(* What the probes promise *)

\* Whatever throws and however long probes take: a process probes a connection only when
\* no probe of it is in the target, and not before the interval since the last probe (or
\* since the profile was created) has passed, but for the time the listing took.
ProbesApart ==
  [][\A c \in Profiles : Len(probe'[c]) > Len(probe[c]) =>
       ~InTarget(c) /\ probedAgo[c] >= IntervalTicks - ListTicks]_keepAliveVars
=============================================================================
