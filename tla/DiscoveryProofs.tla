--------------------------- MODULE DiscoveryProofs ---------------------------
(***************************************************************************)
(* Proofs about Discovery, for any number of operations, any resolver, any *)
(* refresh interval and any length of time.                                *)
(***************************************************************************)
EXTENDS Discovery, TLAPS

\* The two mutexes are held by one refresh at a time.
LockInv == \A t, u \in Tasks : pc[t] \in {"srv", "ip"} /\ pc[u] \in {"srv", "ip"} => t = u

\* Nothing is dated in the future, and a refresh under way has a newer SRV
\* answer than the cached list. It stays newer only because of LockInv.
ClockInv ==
    /\ lastRefresh <= now /\ cachedAsk <= now
    /\ \A t \in Tasks : checkedAt[t] <= now /\ askedAt[t] <= now
    /\ \A t \in Tasks : pc[t] = "ip" => askedAt[t] >= cachedAsk

\* Only `new' leaves the list empty, and what it wrote as the time of the last
\* refresh is then still there.
EmptyInv == servers = {} => lastRefresh = IF young THEN 0 ELSE -((Interval + 1) * Sec)

IInv == TypeOK /\ LockInv /\ ClockInv /\ EmptyInv /\ ServedFresh

-----------------------------------------------------------------------------
(* Lemmas                                                                  *)

\* as_secs() rounds down: an age is not over Interval seconds exactly if it is
\* less than Interval + 1 seconds.
LEMMA Seconds ==
    ASSUME NEW age \in Nat
    PROVE  age \div Sec > Interval <=> age >= (Interval + 1) * Sec
<1> DEFINE q == age \div Sec
           r == age % Sec
<1>1. /\ Sec \in Nat /\ Sec > 0 /\ Interval \in Nat
      /\ q \in Int /\ r \in Int /\ age = Sec * q + r /\ 0 <= r /\ r < Sec
  BY DiscoveryAssumption
<1> HIDE DEF q, r
<1>2. CASE q > Interval
  <2>1. Sec * q >= Sec * (Interval + 1)
    BY <1>1, <1>2
  <2> QED
    BY <1>1, <1>2, <2>1 DEF q
<1>3. CASE q <= Interval
  <2>1. Sec * q <= Sec * Interval
    BY <1>1, <1>3
  <2> QED
    BY <1>1, <1>3, <2>1 DEF q
<1> QED
  BY <1>1, <1>2, <1>3

\* The list is served only when it is fresh, or by the refresh just made.
LEMMA FreshCheck ==
    ASSUME IInv, ~Stale
    PROVE  now - lastRefresh < (Interval + 1) * Sec /\ (servers # {} \/ young)
<1> DEFINE life == (Interval + 1) * Sec
<1>1. now \in Nat /\ lastRefresh \in Int /\ lastRefresh <= now /\ life \in Nat /\ young \in BOOLEAN
  BY DiscoveryAssumption DEF IInv, TypeOK, ClockInv
<1>2. now - lastRefresh \in Nat
  BY <1>1
<1>3. now - lastRefresh < life
  BY <1>1, <1>2, Seconds, DiscoveryAssumption DEF Stale
<1>4. ASSUME servers = {}, ~young PROVE FALSE
  <2>1. lastRefresh = -life
    BY <1>4 DEF IInv, EmptyInv
  <2> HIDE DEF life
  <2> QED
    BY <1>1, <1>3, <2>1
<1> QED
  BY <1>3, <1>4

\* What lookup_ip adds are endpoints of the target asked for.
LEMMA ResolvedEndpoints ==
    ASSUME NEW target \in WithId, NEW ips \in SUBSET Ips[target]
    PROVE  ips \X {target} \subseteq Endpoints
  BY DEF Endpoints

-----------------------------------------------------------------------------
(* The actions                                                             *)

\* An operation that ends or is dropped leaves the cache alone.
LEMMA ReturnStep ==
    ASSUME IInv, NEW t \in Tasks, Return(t), UNCHANGED <<now, cacheVars, young>>
    PROVE  IInv'
<1> USE DEF Return, Goto, Forget, cacheVars
<1>1. TypeOK'
  BY DiscoveryAssumption DEF IInv, TypeOK
<1>2. \A u \in Tasks : pc'[u] # "idle" =>
          /\ pc'[u] = pc[u]
          /\ checkedAt'[u] = checkedAt[u] /\ askedAt'[u] = askedAt[u]
  BY DEF IInv, TypeOK
<1>3. LockInv' /\ EmptyInv'
  BY <1>2 DEF IInv, LockInv, EmptyInv
<1>4. ClockInv'
  BY <1>2 DEF IInv, TypeOK, ClockInv
<1>5. ServedFresh'
  BY <1>2 DEF IInv, ServedFresh, In
<1> QED
  BY <1>1, <1>3, <1>4, <1>5 DEF IInv

\* The staleness check: a list that is not stale may be served.
LEMMA CheckStep ==
    ASSUME IInv, NEW t \in Tasks, Check(t)
    PROVE  IInv'
<1> USE DEF Check, Goto, cacheVars, lookupVars
<1>1. TypeOK'
  BY DEF IInv, TypeOK
<1>2. /\ pc'[t] = (IF Stale THEN "refresh" ELSE "snap") /\ checkedAt'[t] = now
      /\ \A u \in Tasks : u # t => pc'[u] = pc[u] /\ checkedAt'[u] = checkedAt[u]
  BY DEF IInv, TypeOK
<1>3. LockInv' /\ EmptyInv'
  BY <1>2 DEF IInv, LockInv, EmptyInv
<1>4. ClockInv'
  BY <1>2 DEF IInv, TypeOK, ClockInv
<1>5. ServedFresh'
  <2> SUFFICES ASSUME NEW u \in Tasks, pc'[u] = "snap"
               PROVE  checkedAt'[u] - lastRefresh < (Interval + 1) * Sec /\ (servers # {} \/ young)
    BY DEF ServedFresh, In
  <2>1. CASE u = t
    BY <1>2, <2>1, FreshCheck
  <2>2. CASE u # t
    BY <1>2, <2>2 DEF IInv, ServedFresh, In
  <2> QED
    BY <2>1, <2>2
<1> QED
  BY <1>1, <1>3, <1>4, <1>5 DEF IInv

\* Taking the locks, the answers of the resolver and the collection of
\* addresses change nothing that is served.
LEMMA LookupStep ==
    ASSUME IInv, NEW t \in Tasks,
           \/ Lock(t)
           \/ \E records \in SUBSET Targets : SrvAnswer(t, records)
           \/ \E target \in WithId : \E ips \in SUBSET Ips[target] : Resolve(t, target, ips)
    PROVE  IInv'
<1> USE DEF Goto, cacheVars
<1>1. CASE Lock(t)
  <2>1. TypeOK'
    BY <1>1 DEF Lock, IInv, TypeOK
  <2>2. pc'[t] = "srv" /\ \A u \in Tasks : u # t => pc'[u] = pc[u] /\ pc[u] \notin {"srv", "ip"}
    BY <1>1 DEF Lock, RefreshLock, In, IInv, TypeOK
  <2> QED
    BY <1>1, <2>1, <2>2 DEF Lock, IInv, LockInv, ClockInv, EmptyInv, ServedFresh, In
<1>2. ASSUME NEW records \in SUBSET Targets, SrvAnswer(t, records) PROVE IInv'
  <2>1. TypeOK'
    BY <1>2 DEF SrvAnswer, IInv, TypeOK
  <2>2. /\ pc[t] = "srv" /\ pc'[t] = "ip" /\ askedAt'[t] = now
        /\ \A u \in Tasks : u # t => pc'[u] = pc[u] /\ askedAt'[u] = askedAt[u]
    BY <1>2 DEF SrvAnswer, IInv, TypeOK
  <2>3. LockInv' /\ EmptyInv' /\ ServedFresh'
    BY <1>2, <2>2 DEF SrvAnswer, IInv, LockInv, EmptyInv, ServedFresh, In
  <2>4. ClockInv'
    BY <1>2, <2>2 DEF SrvAnswer, IInv, TypeOK, ClockInv
  <2> QED
    BY <2>1, <2>3, <2>4 DEF IInv
<1>3. ASSUME NEW target \in WithId, NEW ips \in SUBSET Ips[target], Resolve(t, target, ips)
      PROVE  IInv'
  <2>1. TypeOK'
    BY <1>3, ResolvedEndpoints DEF Resolve, IInv, TypeOK
  <2> QED
    BY <1>3, <2>1 DEF Resolve, IInv, LockInv, ClockInv, EmptyInv, ServedFresh, In
<1> QED
  BY <1>1, <1>2, <1>3

\* A refresh that stores its list dates it now, and its SRV answer is not older
\* than the one it replaces.
LEMMA StoreStep ==
    ASSUME IInv, NEW t \in Tasks, Store(t)
    PROVE  IInv' /\ cachedAsk' >= cachedAsk
<1> USE DEF Store, Goto, Forget
<1>1. TypeOK'
  BY DiscoveryAssumption DEF IInv, TypeOK
<1>2. /\ pc[t] = "ip" /\ pc'[t] = "snap" /\ askedAt'[t] = 0
      /\ \A u \in Tasks : u # t => pc'[u] = pc[u] /\ askedAt'[u] = askedAt[u]
      /\ \A u \in Tasks : u # t => pc[u] # "ip"
  BY DEF IInv, TypeOK, LockInv
<1>3. cachedAsk' >= cachedAsk
  BY <1>2 DEF IInv, ClockInv
<1>4. LockInv' /\ EmptyInv'
  BY <1>2 DEF IInv, LockInv, EmptyInv
<1>5. ClockInv'
  BY <1>2 DEF IInv, TypeOK, ClockInv
<1>6. ServedFresh'
  <2> SUFFICES ASSUME NEW u \in Tasks
               PROVE  checkedAt[u] - now < (Interval + 1) * Sec
    BY DEF ServedFresh, In
  <2>1. (Interval + 1) * Sec \in Nat /\ (Interval + 1) * Sec > 0
    BY DiscoveryAssumption
  <2> QED
    BY <2>1 DEF IInv, TypeOK, ClockInv
<1> QED
  BY <1>1, <1>3, <1>4, <1>5, <1>6 DEF IInv

\* Time passes.
LEMMA TickStep ==
    ASSUME IInv, Tick
    PROVE  IInv'
<1> USE DEF Tick, cacheVars, lookupVars
<1>1. TypeOK' /\ ClockInv'
  BY DiscoveryAssumption DEF IInv, TypeOK, ClockInv
<1> QED
  BY <1>1 DEF IInv, LockInv, EmptyInv, ServedFresh, In

\* Every step keeps the invariant and the newest answer.
LEMMA NextStep ==
    ASSUME IInv, [Next]_vars
    PROVE  IInv' /\ cachedAsk' >= cachedAsk
<1>0. cachedAsk \in Nat
  BY DiscoveryAssumption DEF IInv, TypeOK
<1>1. CASE Tick
  BY <1>0, <1>1, TickStep DEF Tick, cacheVars
<1>2. ASSUME NEW t \in Tasks, Check(t) PROVE IInv' /\ cachedAsk' >= cachedAsk
  <2>1. IInv'
    BY <1>2, CheckStep
  <2>2. cachedAsk' = cachedAsk
    BY <1>2 DEF Check, cacheVars
  <2> QED
    BY <1>0, <2>1, <2>2
<1>3. ASSUME NEW t \in Tasks, Cancel(t) PROVE IInv' /\ cachedAsk' >= cachedAsk
  BY <1>0, <1>3, ReturnStep DEF Cancel, cacheVars
<1>4. ASSUME NEW t \in Tasks, Step(t) PROVE IInv' /\ cachedAsk' >= cachedAsk
  <2>1. CASE SrvFails(t) \/ StoreFails(t) \/ Snapshot(t)
    BY <1>0, <2>1, ReturnStep DEF SrvFails, StoreFails, Snapshot, cacheVars
  <2>2. CASE Store(t)
    BY <2>2, StoreStep
  <2>3. CASE \/ Lock(t)
             \/ \E records \in SUBSET Targets : SrvAnswer(t, records)
             \/ \E target \in WithId : \E ips \in SUBSET Ips[target] : Resolve(t, target, ips)
    <3>1. IInv'
      BY <2>3, LookupStep
    <3>2. cachedAsk' = cachedAsk
      BY <2>3 DEF Lock, SrvAnswer, Resolve, cacheVars
    <3> QED
      BY <1>0, <3>1, <3>2
  <2> QED
    BY <1>4, <2>1, <2>2, <2>3 DEF Step
<1>5. CASE UNCHANGED vars
  BY <1>0, <1>5 DEF vars, IInv, TypeOK, LockInv, ClockInv, EmptyInv, ServedFresh, In
<1> QED
  BY <1>1, <1>2, <1>3, <1>4, <1>5 DEF Next

-----------------------------------------------------------------------------
(* Theorems                                                                *)

\* The inductive invariant holds in every behaviour of the cache.
THEOREM Invariance == Spec => []IInv
<1>1. Init => IInv
  <2> SUFFICES ASSUME Init PROVE IInv
    OBVIOUS
  <2>1. (Interval + 1) * Sec \in Nat /\ (Interval + 1) * Sec > 0
    BY DiscoveryAssumption
  <2>2. TypeOK /\ ClockInv
    BY <2>1, DiscoveryAssumption DEF Init, TypeOK, ClockInv
  <2> QED
    BY <2>2 DEF Init, IInv, LockInv, EmptyInv, ServedFresh, In
<1>2. IInv /\ [Next]_vars => IInv'
  BY NextStep
<1> QED
  BY <1>1, <1>2, PTL DEF Spec

\* The cache, the local state of the refreshes and the clock keep their types.
THEOREM TypeCorrect == Spec => []TypeOK
<1>1. IInv => TypeOK
  BY DEF IInv
<1> QED
  BY Invariance, <1>1, PTL

\* maybe_periodic_dns_refresh and _refresh_servers: what an operation takes its
\* snapshot of is at most an interval older than its check, whoever refreshed
\* it, failed to or was cancelled meanwhile.
THEOREM SnapshotsFresh == Spec => []ServedFresh
<1>1. IInv => ServedFresh
  BY DEF IInv
<1> QED
  BY Invariance, <1>1, PTL

\* _refresh_servers: overlapping refreshes never put an older SRV answer in the
\* place of a newer one.
THEOREM RefreshesOrdered == Spec => NewestAnswerKept
<1>1. IInv /\ [Next]_vars => [cachedAsk' >= cachedAsk]_vars
  BY NextStep
<1> QED
  BY <1>1, Invariance, PTL DEF Spec, NewestAnswerKept
=============================================================================
