----------------------------- MODULE LeasedJobs -----------------------------
(***************************************************************************)
(* What the worker leases promise, with no rows, clocks or handlers: while *)
(* the lease of a job is live nobody else gets the job; a lease that has   *)
(* run out may for some time be renewed or given back by its holder, until *)
(* somebody else is let in, and not after that time; and a job is granted  *)
(* at most MaxGrants times in its life.                                    *)
(***************************************************************************)
EXTENDS Integers

CONSTANTS Jobs, Workers, MaxGrants, NoWorker

VARIABLES
  holder,   \* holder[j]: the worker j was last granted to, until it gives j back
  phase,    \* phase[j]: what has become of that lease
  grants    \* grants[j]: how often j was granted

Phases == {"live", "lapsed", "over"}

Init ==
  /\ holder = [j \in Jobs |-> NoWorker]
  /\ phase = [j \in Jobs |-> "over"]
  /\ grants = [j \in Jobs |-> 0]

\* A lease may have run out by the time it is granted.
Grant(j, w) ==
  /\ phase[j] # "live"
  /\ grants[j] < MaxGrants
  /\ holder' = [holder EXCEPT ![j] = w]
  /\ \E p \in {"live", "lapsed"} : phase' = [phase EXCEPT ![j] = p]
  /\ grants' = [grants EXCEPT ![j] = @ + 1]

\* The holder has a lease that ran out extended.
Renew(j) ==
  /\ phase[j] = "lapsed"
  /\ phase' = [phase EXCEPT ![j] = "live"]
  /\ UNCHANGED <<holder, grants>>

GiveBack(j) ==
  /\ phase[j] # "over"
  /\ holder' = [holder EXCEPT ![j] = NoWorker]
  /\ phase' = [phase EXCEPT ![j] = "over"]
  /\ UNCHANGED grants

\* Time passes: leases run out, several at the same instant.
Pass ==
  /\ phase' \in [Jobs -> Phases]
  /\ \A j \in Jobs : /\ phase'[j] = "live" => phase[j] = "live"
                     /\ phase[j] = "over" => phase'[j] = "over"
  /\ UNCHANGED <<holder, grants>>

Next ==
  \/ \E j \in Jobs, w \in Workers : Grant(j, w)
  \/ \E j \in Jobs : Renew(j) \/ GiveBack(j)
  \/ Pass

Spec == Init /\ [][Next]_<<holder, phase, grants>>
=============================================================================
