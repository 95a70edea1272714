------------------------------ MODULE Discovery ------------------------------
(***************************************************************************)
(* The server cache of client.rs: operations that find it stale refresh it *)
(* from DNS, then every operation takes its snapshot of it.                *)
(*                                                                         *)
(* The tokio mutexes `servers' and `last_dns_refresh' are not variables:   *)
(* who holds them follows from where the tasks are. A refresh holds both   *)
(* while it waits for DNS; the staleness check and the snapshot hold one   *)
(* for an instant.                                                         *)
(*                                                                         *)
(* External: the resolver, which may answer anything or fail at any query. *)
(***************************************************************************)
EXTENDS Integers, FiniteSets

CONSTANTS
    Tasks,     \* tasks in _check_rate_limit_with_retries or report_latency
    Targets,   \* SRV targets; s-<decimal> ones carry a server id
    WithId,    \* the targets parse_server_id_from_target accepts
    Ips,       \* Ips[target]: addresses a target may resolve to
    Interval,  \* dns_refresh_interval_s
    Sec,       \* ticks per second
    MaxTime    \* bound on the clock

Endpoints == UNION {Ips[target] \X {target} : target \in WithId}

ASSUME DiscoveryAssumption ==
    /\ WithId \subseteq Targets
    /\ Interval \in Nat /\ MaxTime \in Nat
    /\ Sec \in Nat \ {0}

VARIABLES
    pc,          \* [Tasks -> where the task is]
    now,         \* the clock
    servers,     \* servers
    lastRefresh, \* last_dns_refresh
    young,       \* the clock is too young for checked_sub in `new'
    checkedAt,   \* [Tasks -> time of the staleness check]
    askedAt,     \* [Tasks -> time of the SRV answer of the refresh under way]
    todo,        \* [Tasks -> SRV records whose addresses are still to be found]
    found,       \* [Tasks -> resolved_servers]
    cachedAsk    \* time of the SRV answer the cache was built from

vars == <<pc, now, servers, lastRefresh, young, checkedAt, askedAt, todo, found, cachedAsk>>

cacheVars  == <<servers, lastRefresh, cachedAsk>>
lookupVars == <<askedAt, todo, found>>

In(where) == {t \in Tasks : pc[t] \in where}

\* Mutant: the guard of the staleness check lives on in the refresh
BugRefreshLock == In({"refresh", "srv", "ip"})

\* who holds last_dns_refresh while it waits, and who holds servers
RefreshLock == In({"srv", "ip"})
ServersLock == In({"srv", "ip"})

Goto(t, where) == pc' = [pc EXCEPT ![t] = where]

\* the local variables of _refresh_servers are gone
Forget(t) ==
    /\ askedAt' = [askedAt EXCEPT ![t] = 0]
    /\ todo' = [todo EXCEPT ![t] = {}]
    /\ found' = [found EXCEPT ![t] = {}]

\* The operation is past discovery, or over
Return(t) ==
    /\ Goto(t, "idle")
    /\ checkedAt' = [checkedAt EXCEPT ![t] = 0]
    /\ Forget(t)

-----------------------------------------------------------------------------
\* `new' dates the last refresh back so that the first check finds it stale,
\* unless the platform's clock started too short a time ago
Init ==
    /\ pc = [t \in Tasks |-> "idle"]
    /\ now = 0
    /\ servers = {}
    /\ young \in BOOLEAN
    /\ lastRefresh = IF young THEN 0 ELSE -((Interval + 1) * Sec)
    /\ checkedAt = [t \in Tasks |-> 0]
    /\ askedAt = [t \in Tasks |-> 0]
    /\ todo = [t \in Tasks |-> {}]
    /\ found = [t \in Tasks |-> {}]
    /\ cachedAsk = 0

\* elapsed().as_secs() > dns_refresh_interval_s
Stale == (now - lastRefresh) \div Sec > Interval

\* maybe_periodic_dns_refresh, also at the head of report_latency
Check(t) ==
    /\ pc[t] = "idle"
    /\ RefreshLock = {}
    /\ checkedAt' = [checkedAt EXCEPT ![t] = now]
    /\ Goto(t, IF Stale THEN "refresh" ELSE "snap")
    /\ UNCHANGED <<now, cacheVars, young, lookupVars>>

\* Mutant: looks up first and locks only to store the answer
BugLock(t) ==
    /\ pc[t] = "refresh"
    /\ Goto(t, "srv")
    /\ found' = [found EXCEPT ![t] = {}]
    /\ UNCHANGED <<now, cacheVars, young, checkedAt, askedAt, todo>>

\* _refresh_servers takes both locks; it does not check again
Lock(t) ==
    /\ pc[t] = "refresh"
    /\ ServersLock = {} /\ RefreshLock = {}
    /\ Goto(t, "srv")
    /\ found' = [found EXCEPT ![t] = {}]
    /\ UNCHANGED <<now, cacheVars, young, checkedAt, askedAt, todo>>

\* Mutant: keeps records without a server id
BugSrvAnswer(t, records) ==
    /\ pc[t] = "srv"
    /\ Goto(t, "ip")
    /\ askedAt' = [askedAt EXCEPT ![t] = now]
    /\ todo' = [todo EXCEPT ![t] = records]
    /\ UNCHANGED <<now, cacheVars, young, checkedAt, found>>

\* srv_lookup answers; records without a server id are left out
SrvAnswer(t, records) ==
    /\ pc[t] = "srv"
    /\ Goto(t, "ip")
    /\ askedAt' = [askedAt EXCEPT ![t] = now]
    /\ todo' = [todo EXCEPT ![t] = records \cap WithId]
    /\ UNCHANGED <<now, cacheVars, young, checkedAt, found>>

SrvFails(t) ==
    /\ pc[t] = "srv"
    /\ Return(t)
    /\ UNCHANGED <<now, cacheVars, young>>

\* lookup_ip of one target: its addresses, or an error that is passed over
Resolve(t, target, ips) ==
    /\ pc[t] = "ip"
    /\ target \in todo[t]
    /\ todo' = [todo EXCEPT ![t] = @ \ {target}]
    /\ found' = [found EXCEPT ![t] = @ \cup (ips \X {target})]
    /\ UNCHANGED <<pc, now, cacheVars, young, checkedAt, askedAt>>

\* Mutant: a failed refresh is passed over
BugStoreFails(t) ==
    /\ pc[t] = "ip" /\ todo[t] = {} /\ found[t] = {}
    /\ Goto(t, "snap") /\ Forget(t)
    /\ UNCHANGED <<now, cacheVars, young, checkedAt>>

\* All targets were looked up, and a list that is not empty replaces the cache
Store(t) ==
    /\ pc[t] = "ip" /\ todo[t] = {} /\ found[t] # {}
    /\ Goto(t, "snap") /\ Forget(t)
    /\ servers' = found[t]
    /\ lastRefresh' = now
    /\ cachedAsk' = askedAt[t]
    /\ UNCHANGED <<now, young, checkedAt>>

\* ... or none was found: the operation ends with a DNS error
StoreFails(t) ==
    /\ pc[t] = "ip" /\ todo[t] = {} /\ found[t] = {}
    /\ Return(t)
    /\ UNCHANGED <<now, cacheVars, young>>

\* current_targets: the snapshot an operation works with. Every cached host is
\* an address, so no further lookup is made. Without a target a request ends
\* with an error; a report has nothing to send.
Snapshot(t) ==
    /\ pc[t] = "snap"
    /\ ServersLock = {}
    /\ Return(t)
    /\ UNCHANGED <<now, cacheVars, young>>

\* The caller drops the future at an await
Cancel(t) ==
    /\ pc[t] # "idle"
    /\ Return(t)
    /\ UNCHANGED <<now, cacheVars, young>>

Tick ==
    /\ now < MaxTime
    /\ now' = now + 1
    /\ UNCHANGED <<pc, cacheVars, young, checkedAt, lookupVars>>

\* what an operation does next, the resolver's answer included
Step(t) ==
    \/ Lock(t) \/ SrvFails(t) \/ Store(t) \/ StoreFails(t) \/ Snapshot(t)
    \/ \E records \in SUBSET Targets : SrvAnswer(t, records)
    \/ \E target \in WithId : \E ips \in SUBSET Ips[target] : Resolve(t, target, ips)

Next == Tick \/ \E t \in Tasks : Check(t) \/ Step(t) \/ Cancel(t)

Spec == Init /\ [][Next]_vars

\* A query is answered or times out in the resolver, and the mutexes are served
\* first come, first served
FairSpec == Spec /\ \A t \in Tasks : SF_vars(Step(t))

-----------------------------------------------------------------------------
(* Properties                                                              *)

TypeOK ==
    /\ pc \in [Tasks -> {"idle", "refresh", "srv", "ip", "snap"}]
    /\ now \in 0..MaxTime
    /\ servers \subseteq Endpoints
    /\ lastRefresh \in Int
    /\ young \in BOOLEAN
    /\ checkedAt \in [Tasks -> 0..MaxTime] /\ askedAt \in [Tasks -> 0..MaxTime]
    /\ todo \in [Tasks -> SUBSET WithId]
    /\ found \in [Tasks -> SUBSET Endpoints]
    /\ cachedAsk \in 0..MaxTime

\* An operation that gets as far as its snapshot finds a list that was stored
\* less than Interval + 1 seconds before its check, or later; it is empty only
\* on a clock too young for `new' to date the last refresh back.
ServedFresh ==
    \A t \in In({"snap"}) :
        /\ checkedAt[t] - lastRefresh < (Interval + 1) * Sec
        /\ servers # {} \/ young

\* Refreshes that overlap do not undo each other: an older SRV answer never
\* replaces a newer one.
NewestAnswerKept == [][cachedAsk' >= cachedAsk]_vars

\* Every operation that was begun gets its snapshot or an error: the two locks
\* and the DNS queries made under them do not block each other for ever.
OperationsEnd == \A t \in Tasks : pc[t] # "idle" ~> pc[t] = "idle"
=============================================================================
