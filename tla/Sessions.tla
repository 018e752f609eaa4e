------------------------------ MODULE Sessions ------------------------------
(***************************************************************************)
(* Web users and their sessions: AuthService over CachedAuthRepository,    *)
(* which reads and writes the metadata store (the authority) and keeps     *)
(* copies of session rows in Redis.  A request authenticates its token     *)
(* step by step, each step one await, and may then log out, change its own *)
(* password or, for an administrator, change, create or delete a user.     *)
(*                                                                         *)
(* RedisFallbackCircuit decides which Redis calls are tried; here every    *)
(* call may be skipped or fail, and one that timed out may still take      *)
(* effect later, so what is shown holds whatever the circuit decides.      *)
(*                                                                         *)
(* Time is relative: lastSeenAt is an age, an expiry a number of ticks     *)
(* left.  Ages are kept up to IdleTicks, where they have expired.          *)
(***************************************************************************)
EXTENDS Integers, FiniteSets

CONSTANTS
  Users,
  Admin,          \* the administrator bootstrapped at the first start
  Sessions,       \* the ids that logins may draw; never drawn twice
  Clients,       \* requests in flight at the same time
  IdleTicks,      \* idleTimeoutMs
  AbsoluteTicks,  \* absoluteTimeoutMs
  CacheTicks,     \* SESSION_CACHE_TTL_SECONDS
  MaxChanges,     \* bound: user changes asked for in one behaviour
  MaxLate,        \* bound: timed-out Redis writes still under way
  NoUser, NoSession

ASSUME SessionsAssumption ==
  /\ Admin \in Users
  /\ IdleTicks \in Nat \ {0}
  /\ AbsoluteTicks \in Nat \ {0}
  /\ CacheTicks \in Nat \ {0}
  /\ MaxChanges \in Nat
  /\ MaxLate \in Nat
  /\ NoUser \notin Users
  /\ NoSession \notin Sessions
  /\ IsFiniteSet(Users)
  /\ IsFiniteSet(Clients)

VARIABLES
  role,      \* role column; "new" before the row is inserted, "gone" after
  enabled,   \* enabled column
  temporary, \* the users with password_change_required
  revision,  \* session_revision column
  owner,     \* user_id of each session; NoUser until its id is drawn
  live,      \* the sessions that have a row
  seenAge,       \* ticks since last_seen_at of each row
  left,      \* ticks until absolute_expires_at
  cache,     \* Redis: the copy of each row, in Entry, or NoEntry
  late,      \* Redis writes that timed out and may still take effect
  req,       \* each request: where it is and what it has read
  changes,   \* user changes asked for so far
  opened,    \* history: the revision that the login of each session had read
  overtaken, \* history: sessions whose login was overtaken by a change
  quiet      \* history: ticks since a request last passed the expiry check

userVars == <<role, enabled, temporary, revision>>
sessionRows == <<owner, live, seenAge, left>>
redisVars == <<cache, late>>
historyVars == <<opened, overtaken, quiet>>
sessionsVars == <<userVars, sessionRows, redisVars, req, changes, historyVars>>

\* SET without the EXPIRE that follows it: the key stays.
Unlimited == CacheTicks + 1
Entry == [revision : 0..MaxChanges, age : 0..IdleTicks,
          ttl : 1..Unlimited]
NoEntry == [ttl |-> 0]
CacheWrite == [session : Sessions, revision : 0..MaxChanges, age : 0..IdleTicks]

Updates == {"disable", "enable", "promote", "demote", "reset"}
SessionRequest ==
  [pc : {"free", "verified", "get", "reread", "store", "check", "user", "touch",
         "touchGet", "touchSet", "in", "asked", "invalidate", "remove", "drop"},
   token : Sessions \cup {NoSession},        \* the session its token names
   actor : Users \cup {NoUser},              \* the user of that session
   rights : {"none", "admin", "user"},       \* the role it may act in
   seen : 0..MaxChanges,                     \* the revision it has read
   copy : 0..IdleTicks,                      \* the age of lastSeenAt it has read
   stamp : 0..IdleTicks,                     \* ticks since it read the clock
   task : Updates \cup {"visit", "logout", "create", "delete", "password"},
   target : Users \cup {NoUser},             \* the user it changes
   protect : BOOLEAN]                        \* protectLastEnabledAdmin
Free == [pc |-> "free", token |-> NoSession, actor |-> NoUser, rights |-> "none",
         seen |-> 0, copy |-> 0, stamp |-> 0, task |-> "visit",
         target |-> NoUser, protect |-> FALSE]

UserExists(u) == role[u] \in {"admin", "user"}
EnabledAdmins == {u \in Users : role[u] = "admin" /\ enabled[u]}

\* A start of the service: the users of earlier runs are there (revisions count
\* from here), nobody is logged in.
SessionsInit ==
  /\ role \in [Users -> {"new", "user", "admin"}]
  /\ \A u \in Users : role[u] = "admin" <=> u = Admin
  /\ enabled = [u \in Users |-> role[u] # "new"]
  /\ temporary = {}
  /\ revision = [u \in Users |-> 0]
  /\ owner = [s \in Sessions |-> NoUser]
  /\ live = {}
  /\ seenAge = [s \in Sessions |-> 0]
  /\ left = [s \in Sessions |-> 0]
  /\ cache = [s \in Sessions |-> NoEntry]
  /\ late = {}
  /\ req = [r \in Clients |-> Free]
  /\ changes = 0
  /\ opened = [s \in Sessions |-> 0]
  /\ overtaken = {}
  /\ quiet = [s \in Sessions |-> 0]
-----------------------------------------------------------------------------
(* login: the password is verified against a user row read before *)

LoginRead(r, u) ==
  /\ req[r].pc = "free"
  /\ UserExists(u) /\ enabled[u]
  /\ req' = [req EXCEPT ![r] = [Free EXCEPT !.pc = "verified", !.actor = u,
                                           !.seen = revision[u]]]
  /\ UNCHANGED <<userVars, sessionRows, redisVars, changes, historyVars>>

\* The foreign key refuses the row when the user was deleted meanwhile.
OpenSession(r, s) ==
  LET u == req[r].actor IN
  /\ req[r].pc = "verified"
  /\ owner[s] = NoUser
  /\ req' = [req EXCEPT ![r] = Free]
  /\ IF UserExists(u)
     THEN /\ owner' = [owner EXCEPT ![s] = u]
          /\ live' = live \cup {s}
          /\ seenAge' = [seenAge EXCEPT ![s] = 0]
          /\ left' = [left EXCEPT ![s] = AbsoluteTicks]
          /\ opened' = [opened EXCEPT ![s] = req[r].seen]
          /\ overtaken' = IF req[r].seen = revision[u] THEN overtaken
                          ELSE overtaken \cup {s}
          /\ quiet' = [quiet EXCEPT ![s] = 0]
     ELSE UNCHANGED <<sessionRows, historyVars>>
  /\ UNCHANGED <<userVars, redisVars, changes>>
-----------------------------------------------------------------------------
(* authenticate and logout: findSessionByTokenHash, then the checks *)

\* findSessionAuthority: the metadata store first, whatever the cache holds.
Lookup(r, s, task) ==
  /\ req[r].pc = "free"
  /\ s \in live
  /\ req' = [req EXCEPT ![r] = [Free EXCEPT !.pc = "get", !.token = s, !.task = task,
                                           !.actor = owner[s],
                                           !.seen = revision[owner[s]]]]
  /\ UNCHANGED <<userVars, sessionRows, redisVars, changes, historyVars>>

CacheHit(r) ==
  LET e == cache[req[r].token] IN
  /\ req[r].pc = "get"
  /\ e # NoEntry /\ e.revision = req[r].seen
  /\ req' = [req EXCEPT ![r].pc = "check", ![r].copy = e.age]
  /\ UNCHANGED <<userVars, sessionRows, redisVars, changes, historyVars>>

\* No entry, another revision, a call that failed or that the circuit skipped.
CacheMiss(r) ==
  /\ req[r].pc = "get"
  /\ req' = [req EXCEPT ![r].pc = "reread"]
  /\ UNCHANGED <<userVars, sessionRows, redisVars, changes, historyVars>>

Reread(r) ==
  /\ req[r].pc = "reread"
  /\ req' = IF req[r].token \notin live THEN [req EXCEPT ![r] = Free]
            ELSE [req EXCEPT ![r].pc = "store", ![r].copy = seenAge[req[r].token]]
  /\ UNCHANGED <<userVars, sessionRows, redisVars, changes, historyVars>>

PutCopy(w, ttl) ==
  cache' = [cache EXCEPT ![w.session] =
              [revision |-> w.revision, age |-> w.age, ttl |-> ttl]]

\* RedisSessionCache.set through the circuit.  SET and EXPIRE are two calls: both
\* take effect, or only SET, or none, or the call times out and is under way.
CacheSet(w) ==
  \/ \E ttl \in {CacheTicks, Unlimited} : PutCopy(w, ttl) /\ UNCHANGED late
  \/ UNCHANGED redisVars
  \/ Cardinality(late) < MaxLate /\ late' = late \cup {w} /\ UNCHANGED cache

StoreCopy(r) ==
  /\ req[r].pc = "store"
  /\ CacheSet([session |-> req[r].token, revision |-> req[r].seen, age |-> req[r].copy])
  /\ req' = [req EXCEPT ![r].pc = "check"]
  /\ UNCHANGED <<userVars, sessionRows, changes, historyVars>>

Fresh(r) == req[r].copy < IdleTicks /\ left[req[r].token] > 0

\* logout removes the session it found; authenticate one that has expired.
Admit(r) ==
  /\ req[r].pc = "check"
  /\ req[r].task # "logout"
  /\ Fresh(r)
  /\ req' = [req EXCEPT ![r].pc = "user", ![r].seen = 0, ![r].copy = 0]
  /\ quiet' = [quiet EXCEPT ![req[r].token] = 0]
  /\ UNCHANGED <<userVars, sessionRows, redisVars, changes, opened, overtaken>>

Expire(r) ==
  /\ req[r].pc = "check"
  /\ req[r].task = "logout" \/ ~Fresh(r)
  /\ req' = [req EXCEPT ![r] = [Free EXCEPT !.pc = "remove", !.token = req[r].token]]
  /\ UNCHANGED <<userVars, sessionRows, redisVars, changes, historyVars>>

\* A user with a temporary password may change it and log out, no more.
ReadUser(r) ==
  LET u == req[r].actor IN
  /\ req[r].pc = "user"
  /\ req' = IF UserExists(u) /\ enabled[u]
            THEN [req EXCEPT ![r].pc = "touch", ![r].rights = IF u \in temporary THEN "none" ELSE role[u]]
            ELSE [req EXCEPT ![r] = [Free EXCEPT !.pc = "remove", !.token = req[r].token]]
  /\ UNCHANGED <<userVars, sessionRows, redisVars, changes, historyVars>>

\* An UPDATE: it finds no row when the session was revoked meanwhile.
Touch(r) ==
  LET s == req[r].token IN
  /\ req[r].pc = "touch"
  /\ seenAge' = IF s \in live THEN [seenAge EXCEPT ![s] = req[r].stamp] ELSE seenAge
  /\ req' = [req EXCEPT ![r].pc = "touchGet"]
  /\ UNCHANGED <<userVars, owner, live, left, redisVars, changes, historyVars>>

\* authenticate returns the AuthUser it has read.
In(r) == [Free EXCEPT !.pc = "in", !.actor = req[r].actor, !.rights = req[r].rights]

\* RedisSessionCache.touch reads the entry and writes it back.
TouchGet(r) ==
  LET e == cache[req[r].token] IN
  /\ req[r].pc = "touchGet"
  /\ \/ /\ e # NoEntry
        /\ req' = [req EXCEPT ![r].pc = "touchSet", ![r].seen = e.revision]
     \/ req' = [req EXCEPT ![r] = In(r)]
  /\ UNCHANGED <<userVars, sessionRows, redisVars, changes, historyVars>>

\* Faulty: reads the clock again for the cache.
TouchSetNow(r) ==
  /\ req[r].pc = "touchSet"
  /\ CacheSet([session |-> req[r].token, revision |-> req[r].seen, age |-> 0])
  /\ req' = [req EXCEPT ![r] = In(r)]
  /\ UNCHANGED <<userVars, sessionRows, changes, historyVars>>

TouchSet(r) ==
  /\ req[r].pc = "touchSet"
  /\ CacheSet([session |-> req[r].token, revision |-> req[r].seen, age |-> req[r].stamp])
  /\ req' = [req EXCEPT ![r] = In(r)]
  /\ UNCHANGED <<userVars, sessionRows, changes, historyVars>>

RemoveRow(r) ==
  /\ req[r].pc = "remove"
  /\ live' = live \ {req[r].token}
  /\ req' = [req EXCEPT ![r].pc = "drop"]
  /\ UNCHANGED <<userVars, owner, seenAge, left, redisVars, changes, historyVars>>

DropCopy(r) ==
  /\ req[r].pc = "drop"
  /\ cache' \in {cache, [cache EXCEPT ![req[r].token] = NoEntry]}
  /\ req' = [req EXCEPT ![r] = Free]
  /\ UNCHANGED <<userVars, sessionRows, late, changes, historyVars>>
-----------------------------------------------------------------------------
(* the lifecycle of users *)

\* The checks before the transaction: requireAdmin, and for a deletion or a
\* password change what findUserById reads.
MayAsk(r, u, task) ==
  \/ task \in Updates /\ req[r].rights = "admin"
  \/ task = "create" /\ req[r].rights = "admin" /\ role[u] = "new"
  \/ task = "delete" /\ req[r].rights = "admin" /\ UserExists(u)
  \/ task = "password" /\ u = req[r].actor /\ UserExists(u) /\ enabled[u]

\* Faulty: forgets that a demotion takes an administrator away.
ProtectsEnabled(u, task) ==
  \/ task = "disable"
  \/ task = "delete" /\ u \in EnabledAdmins

Protects(u, task) ==
  \/ task \in {"disable", "demote"}
  \/ task = "delete" /\ u \in EnabledAdmins

AskChange(r, u, task) ==
  /\ req[r].pc = "in"
  /\ MayAsk(r, u, task)
  /\ changes < MaxChanges
  /\ changes' = changes + 1
  /\ req' = [req EXCEPT ![r] = [Free EXCEPT !.pc = "asked", !.task = task, !.target = u,
                                           !.protect = Protects(u, task)]]
  /\ UNCHANGED <<userVars, sessionRows, redisVars, historyVars>>

\* createManagedUser: the insertion, which the unique index refuses when the
\* user exists by now; then a transaction sets password_change_required.
Create(r, kind) ==
  LET u == req[r].target IN
  /\ req[r].pc = "asked" /\ req[r].task = "create"
  /\ IF role[u] = "new"
     THEN /\ role' = [role EXCEPT ![u] = kind]
          /\ enabled' = [enabled EXCEPT ![u] = TRUE]
          /\ req' = [req EXCEPT ![r].task = "reset"]
     ELSE UNCHANGED <<role, enabled>> /\ req' = [req EXCEPT ![r] = Free]
  /\ UNCHANGED <<temporary, revision, sessionRows, redisVars, changes, historyVars>>

\* Under the lifecycle lock: not-found and last-enabled-admin.
ChangeRefused(r) ==
  LET u == req[r].target IN
  \/ ~UserExists(u)
  \/ req[r].protect /\ u \in EnabledAdmins /\ Cardinality(EnabledAdmins) <= 1

RefuseChange(r) ==
  /\ req[r].pc = "asked" /\ req[r].task # "create"
  /\ ChangeRefused(r)
  /\ req' = [req EXCEPT ![r] = Free]
  /\ UNCHANGED <<userVars, sessionRows, redisVars, changes, historyVars>>

\* Faulty: closes the sessions that the cache knows.
RevokeCached(u) == live' = {s \in live : owner[s] # u \/ cache[s] = NoEntry}

Revoke(u) == live' = {s \in live : owner[s] # u}

\* updateUserAndRevokeSessions, one transaction
Update(r) ==
  LET u == req[r].target task == req[r].task IN
  /\ req[r].pc = "asked" /\ task \in Updates \cup {"password"}
  /\ ~ChangeRefused(r)
  /\ enabled' = [enabled EXCEPT ![u] = IF task \in {"enable", "disable"}
                                       THEN task = "enable" ELSE enabled[u]]
  /\ role' = [role EXCEPT ![u] = IF task = "promote" THEN "admin"
                                 ELSE IF task = "demote" THEN "user" ELSE role[u]]
  /\ temporary' = CASE task = "reset" -> temporary \cup {u}
                   [] task = "password" -> temporary \ {u}
                   [] OTHER -> temporary
  /\ revision' = [revision EXCEPT ![u] = revision[u] + 1]
  /\ Revoke(u)
  /\ req' = [req EXCEPT ![r] = [Free EXCEPT !.pc = "invalidate", !.target = u]]
  /\ UNCHANGED <<owner, seenAge, left, redisVars, changes, historyVars>>

\* deleteUserAndRevokeSessions; the sessions go by the foreign key
Delete(r) ==
  LET u == req[r].target IN
  /\ req[r].pc = "asked" /\ req[r].task = "delete"
  /\ ~ChangeRefused(r)
  /\ role' = [role EXCEPT ![u] = "gone"]
  /\ enabled' = [enabled EXCEPT ![u] = FALSE]
  /\ Revoke(u)
  /\ req' = [req EXCEPT ![r] = [Free EXCEPT !.pc = "invalidate", !.target = u]]
  /\ UNCHANGED <<temporary, revision, owner, seenAge, left, redisVars, changes, historyVars>>

\* The keys that the index of the user lists go: any of his entries may be
\* missing there, because SADD is a call of its own and the index expires too.
\* Reading the user again and the audit record that follow change nothing here.
Invalidate(r) ==
  LET u == req[r].target IN
  /\ req[r].pc = "invalidate"
  /\ \E listed \in SUBSET {s \in Sessions : owner[s] = u} :
       cache' = [s \in Sessions |-> IF s \in listed THEN NoEntry ELSE cache[s]]
  /\ req' = [req EXCEPT ![r] = Free]
  /\ UNCHANGED <<userVars, sessionRows, late, changes, historyVars>>

Leave(r) ==
  /\ req[r].pc = "in"
  /\ req' = [req EXCEPT ![r] = Free]
  /\ UNCHANGED <<userVars, sessionRows, redisVars, changes, historyVars>>
-----------------------------------------------------------------------------
(* Redis and time *)

Land(w) ==
  /\ w \in late
  /\ PutCopy(w, CacheTicks)
  /\ late' = late \ {w}
  /\ UNCHANGED <<userVars, sessionRows, req, changes, historyVars>>

\* A restart of Redis, an eviction, or a delete that timed out.
EvictKey(s) ==
  /\ cache[s] # NoEntry
  /\ cache' = [cache EXCEPT ![s] = NoEntry]
  /\ UNCHANGED <<userVars, sessionRows, late, req, changes, historyVars>>

Lower(n) == IF n > 0 THEN n - 1 ELSE 0
Older(n) == IF n < IdleTicks THEN n + 1 ELSE IdleTicks

SessionsTick ==
  /\ seenAge' = [s \in Sessions |-> IF s \in live THEN Older(seenAge[s]) ELSE 0]
  /\ left' = [s \in Sessions |-> Lower(left[s])]
  /\ quiet' = [s \in Sessions |-> IF owner[s] = NoUser THEN 0 ELSE Older(quiet[s])]
  /\ cache' = [s \in Sessions |->
       IF cache[s] = NoEntry \/ cache[s].ttl = 1 THEN NoEntry
       ELSE [cache[s] EXCEPT !.age = Older(@),
                             !.ttl = IF @ = Unlimited THEN @ ELSE @ - 1]]
  /\ late' = {[w EXCEPT !.age = Older(@)] : w \in late}
  /\ req' = [r \in Clients |->
       [req[r] EXCEPT
          !.copy = IF req[r].pc \in {"store", "check"} THEN Older(@) ELSE 0,
          !.stamp = IF req[r].pc \in {"user", "touch", "touchGet", "touchSet"}
                    THEN Older(@) ELSE 0]]
  /\ UNCHANGED <<userVars, owner, live, changes, opened, overtaken>>

Authenticate(r) ==
  \/ \E s \in Sessions, task \in {"visit", "logout"} : Lookup(r, s, task)
  \/ CacheHit(r) \/ CacheMiss(r) \/ Reread(r) \/ StoreCopy(r) \/ Admit(r) \/ Expire(r)
  \/ ReadUser(r) \/ Touch(r) \/ TouchGet(r) \/ TouchSet(r) \/ RemoveRow(r) \/ DropCopy(r)

ChangeUser(r) ==
  \/ \E u \in Users, task \in Updates \cup {"create", "delete", "password"} : AskChange(r, u, task)
  \/ \E kind \in {"admin", "user"} : Create(r, kind)
  \/ RefuseChange(r) \/ Update(r) \/ Delete(r) \/ Invalidate(r)

SessionsNext ==
  \/ \E r \in Clients :
       \/ \E u \in Users : LoginRead(r, u)
       \/ \E s \in Sessions : OpenSession(r, s)
       \/ Authenticate(r) \/ ChangeUser(r) \/ Leave(r)
  \/ \E w \in late : Land(w)
  \/ \E s \in Sessions : EvictKey(s)
  \/ SessionsTick

SessionsSpec == SessionsInit /\ [][SessionsNext]_sessionsVars
-----------------------------------------------------------------------------
(* What sessions promise *)

\* The shape of the state; in particular a user is changed MaxChanges times at
\* most and a Redis entry is never older than its key.
SessionsTypeOK ==
  /\ role \in [Users -> {"new", "admin", "user", "gone"}]
  /\ enabled \in [Users -> BOOLEAN]
  /\ temporary \subseteq Users
  /\ revision \in [Users -> 0..MaxChanges]
  /\ owner \in [Sessions -> Users \cup {NoUser}]
  /\ live \subseteq Sessions
  /\ seenAge \in [Sessions -> 0..IdleTicks]
  /\ left \in [Sessions -> 0..AbsoluteTicks]
  /\ cache \in [Sessions -> Entry \cup {NoEntry}]
  /\ late \subseteq CacheWrite
  /\ req \in [Clients -> SessionRequest]
  /\ changes \in 0..MaxChanges
  /\ opened \in [Sessions -> 0..MaxChanges]
  /\ overtaken \subseteq Sessions
  /\ quiet \in [Sessions -> 0..IdleTicks]

\* No session outlives a change of its user: an open session was opened under
\* the present revision, unless its login had read the user before the change
\* and wrote the row after it.
SessionsCurrent ==
  \A s \in live \ overtaken :
    /\ UserExists(owner[s])
    /\ opened[s] = revision[owner[s]]

\* A session ends, and for good: the copies in Redis never lengthen it (whoever passes
\* the expiry check does so less than IdleTicks after the last request that passed it),
\* and once closed or revoked it never opens again.
SessionsEnd ==
  [][/\ \A r \in Clients :
          Admit(r) => quiet[req[r].token] < IdleTicks /\ left[req[r].token] > 0
     /\ \A s \in Sessions : owner[s] # NoUser /\ s \notin live => s \notin live']_sessionsVars

\* However concurrent changes interleave, only a deletion that had read its
\* target as no enabled administrator can take the last one away.
LastAdminKept ==
  [][EnabledAdmins # {} /\ EnabledAdmins' = {} =>
       \E r \in Clients : Delete(r) /\ ~req[r].protect]_sessionsVars
-----------------------------------------------------------------------------
(* What the documents say and the code does not do *)

\* The lifecycle lock keeps concurrent operations from removing the last
\* enabled administrator (agent/memory.md:51).
AdminRemains == EnabledAdmins # {}
=============================================================================
