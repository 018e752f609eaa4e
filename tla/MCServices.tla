----------------------------- MODULE MCServices -----------------------------
(* One instance of each smaller service.  They share no state, so a behaviour  *)
(* is one of a single service, picked in the initial state, while the others   *)
(* stand still.                                                                *)
EXTENDS MCTransferFiles, MCSessions, NativeAccounts, SshTunnels, SshKnownHosts,
        SqlQueries, InstanceRoles, KeepAlive, RedisCircuit

CONSTANT Services   \* the services this run picks from

VARIABLE service

servicesVars ==
  <<service, filesVars, sessionsVars, accountVars, tunnelVars, hostVars, queryVars, roleVars,
    keepAliveVars, circuitVars>>

ServicesInit ==
  /\ service \in Services
  /\ FilesInit /\ SessionsInit /\ AccountsInit /\ TunnelsInit /\ KnownHostsInit
  /\ QueriesInit /\ RolesInit /\ KeepAliveInit /\ CircuitInit
  \* a service that stands still has one initial state
  /\ service # "files" => \A j \in Jobs : direction[j] = "export"
  /\ service # "sessions" => \A u \in Users \ {Admin} : role[u] = "new"
  /\ service # "accounts" => \A i \in Accounts : ~Exists(i)

ServicesNext ==
  \/ /\ service = "files" /\ FilesNext
     /\ UNCHANGED <<service, sessionsVars, accountVars, tunnelVars, hostVars, queryVars, roleVars,
                    keepAliveVars, circuitVars>>
  \/ /\ service = "sessions" /\ SessionsNext
     /\ UNCHANGED <<service, filesVars, accountVars, tunnelVars, hostVars, queryVars, roleVars,
                    keepAliveVars, circuitVars>>
  \/ /\ service = "accounts" /\ AccountsNext
     /\ UNCHANGED <<service, filesVars, sessionsVars, tunnelVars, hostVars, queryVars, roleVars,
                    keepAliveVars, circuitVars>>
  \/ /\ service = "tunnels" /\ TunnelsNext
     /\ UNCHANGED <<service, filesVars, sessionsVars, accountVars, hostVars, queryVars, roleVars,
                    keepAliveVars, circuitVars>>
  \/ /\ service = "hosts" /\ KnownHostsNext
     /\ UNCHANGED <<service, filesVars, sessionsVars, accountVars, tunnelVars, queryVars, roleVars,
                    keepAliveVars, circuitVars>>
  \/ /\ service = "queries" /\ QueriesNext
     /\ UNCHANGED <<service, filesVars, sessionsVars, accountVars, tunnelVars, hostVars, roleVars,
                    keepAliveVars, circuitVars>>
  \/ /\ service = "roles" /\ RolesNext
     /\ UNCHANGED <<service, filesVars, sessionsVars, accountVars, tunnelVars, hostVars, queryVars,
                    keepAliveVars, circuitVars>>
  \/ /\ service = "keepalive" /\ KeepAliveNext
     /\ UNCHANGED <<service, filesVars, sessionsVars, accountVars, tunnelVars, hostVars, queryVars,
                    roleVars, circuitVars>>
  \/ /\ service = "circuit" /\ CircuitNext
     /\ UNCHANGED <<service, filesVars, sessionsVars, accountVars, tunnelVars, hostVars, queryVars,
                    roleVars, keepAliveVars>>

ServicesSpec == ServicesInit /\ [][ServicesNext]_servicesVars

\* FilesFairness, AccountsFairness, TunnelsFairness and CircuitFairness, each for the behaviours
\* of its service.
ServicesFairness ==
  /\ \A r \in Requests : WF_filesVars(service = "files" /\ RequestStep(r))
  /\ \A j \in Jobs : WF_filesVars(service = "files" /\ RunStep(j))
  /\ WF_filesVars(service = "files" /\ DownloadStep)
  /\ SF_filesVars(service = "files" /\ FilesTick)
  /\ \A c \in Cleaners : WF_filesVars(service = "files" /\ CleanStep(c))
  /\ \A c \in Cleaners, j \in Jobs, s \in Stores :
       SF_filesVars(service = "files" /\ RemoveChunk(c, j, s))
  /\ \A p \in Operators \cup Verifiers : WF_accountVars(service = "accounts" /\ Proceed(p))
  /\ \A v \in Verifiers :
       /\ WF_accountVars(service = "accounts" /\ Sweep(v))
       /\ \A i \in Accounts : SF_accountVars(service = "accounts" /\ ListDue(v, i))
  /\ \A c \in Callers : WF_tunnelVars(service = "tunnels" /\ Advance(c))
  /\ \A t \in Transports :
       /\ WF_tunnelVars(service = "tunnels" /\ Connect(t))
       /\ WF_tunnelVars(service = "tunnels" /\ IdleTimeout(t))
  /\ \A c \in CircuitCalls : WF_circuitVars(service = "circuit" /\ EndCall(c))
  /\ WF_circuitVars(service = "circuit" /\ CircuitTick)

ServicesFairSpec == ServicesSpec /\ ServicesFairness

\* Every variable of every service keeps its type.
ServicesTypeOK ==
  /\ FilesTypeOK /\ SessionsTypeOK /\ AccountsTypeOK /\ TunnelsTypeOK /\ KnownHostsTypeOK
  /\ QueriesTypeOK /\ RolesTypeOK /\ KeepAliveTypeOK /\ CircuitTypeOK
=============================================================================
