--------------------------- MODULE ProxyCacheProofs ---------------------------
(***************************************************************************)
(* Theorems about ProxyCache, for any number of threads, tags, addresses   *)
(* and proxies, and for every choice of the exceptions that get() may meet.*)
(*                                                                         *)
(* ReachableIsCached and the ownership of impls are not inductive: they    *)
(* rest on what get() has in hand between find() and emplace(), which no   *)
(* other thread has seen, and on an entry never being filed under a key    *)
(* other than its proxy's.                                                 *)
(***************************************************************************)
EXTENDS ProxyCache, TLAPS

\* Whoever is inside get() has the mutex, and a key it was called with.
Locked ==
  \A t \in Threads : pc[t] # "idle" => mMutex = t /\ arg[t] \in Keys

\* A proxy that has a handle has been created, under a key.
Created ==
  \A p \in Proxies :
    /\ handle[p] # "none" => weak[p] # "unused"
    /\ weak[p] # "unused" => key[p] \in Keys

\* An entry is filed under its proxy's key, and the proxy owns its impl.
Entries ==
  \A k \in Keys : cache[k] # NoProxy =>
    /\ key[cache[k]] = k
    /\ weak[cache[k]] # "unused"
    /\ handle[cache[k]] = "owned"

\* After find() has missed there is no entry, and what alloc() made is unknown
\* to everybody else.
Missed ==
  \A t \in Threads :
    /\ pc[t] \in {"alloc", "emplace"} => cache[arg[t]] = NoProxy
    /\ pc[t] = "emplace" => /\ result[t] \in Proxies \ held
                            /\ weak[result[t]] = "live"
                            /\ handle[result[t]] = "owned"
                            /\ key[result[t]] = arg[t]
                            /\ \A k \in Keys : cache[k] # result[t]
    /\ pc[t] = "return" => result[t] \in Proxies

CacheInv ==
  /\ TypeOK
  /\ Locked
  /\ Created
  /\ Entries
  /\ Missed
  /\ ReachableIsCached
-----------------------------------------------------------------------------
\* The empty cache satisfies the invariant.
LEMMA CacheStart == CacheInit => CacheInv
BY CacheAssumption
   DEF CacheInit, CacheInv, TypeOK, Locked, Created, Entries, Missed, ReachableIsCached

\* No step of a client, of get() or of a handle's destructor breaks it.
LEMMA CacheStep == CacheInv /\ [CacheNext]_cacheVars => CacheInv'
<1> SUFFICES ASSUME CacheInv, [CacheNext]_cacheVars PROVE CacheInv'
  OBVIOUS
<1> USE CacheAssumption
        DEF CacheInv, TypeOK, Locked, Created, Entries, Missed, ReachableIsCached,
            callVars, proxyVars, At, Leave
<1>1. ASSUME NEW a \in Addrs, Create(a) PROVE CacheInv'
  BY <1>1 DEF Create
<1>2. ASSUME NEW a \in Addrs, Forget(a) PROVE CacheInv'
  BY <1>2 DEF Forget
<1>3. ASSUME NEW p \in Proxies, Unwrap(p) PROVE CacheInv'
  BY <1>3 DEF Unwrap, Keys
<1>4. ASSUME NEW p \in Proxies, Drop(p) PROVE CacheInv'
  BY <1>4 DEF Drop
<1>5. ASSUME NEW p \in Proxies, Expire(p) PROVE CacheInv'
  BY <1>5 DEF Expire
<1>6. ASSUME NEW p \in Proxies, Remove(p) PROVE CacheInv'
  <2> USE <1>6 DEF Remove, IsExpired
  \* The mutex is free, so that no get() has anything in hand.
  <2>1. \A t \in Threads : pc[t] = "idle"
    OBVIOUS
  <2>2. key[p] \in Keys
    OBVIOUS
  \* An entry of p's own is erased here, since p is gone.
  <2>3. \A k \in Keys : cache'[k] # NoProxy => cache'[k] = cache[k] /\ cache[k] # p
    BY <2>2
  <2>4. Entries'
    BY <2>3
  \* A proxy in use has a live entry, which is spared.
  <2>5. \A q \in held : cache'[key[q]] = q
    BY <2>2
  <2> QED
    BY <2>1, <2>2, <2>4, <2>5
<1>7. ASSUME NEW p \in Proxies, ReleaseImpl(p) PROVE CacheInv'
  BY <1>7 DEF ReleaseImpl
<1>8. ASSUME NEW t \in Threads, NEW k \in Keys, Get(t, k) PROVE CacheInv'
  BY <1>8 DEF Get, Fresh
<1>9. ASSUME NEW t \in Threads, Find(t) PROVE CacheInv'
  BY <1>9 DEF Find, Upgrades
<1>10. ASSUME NEW t \in Threads, Alloc(t) PROVE CacheInv'
  BY <1>10 DEF Alloc, Fresh
<1>11. ASSUME NEW t \in Threads, Emplace(t) PROVE CacheInv'
  BY <1>11 DEF Emplace
<1>12. ASSUME NEW t \in Threads, Return(t) PROVE CacheInv'
  BY <1>12 DEF Return
<1>13. ASSUME NEW t \in Threads, ThrowEarly(t) PROVE CacheInv'
  BY <1>13 DEF ThrowEarly
<1>14. ASSUME NEW t \in Threads, ThrowWithHandle(t) PROVE CacheInv'
  BY <1>14 DEF ThrowWithHandle
<1>15. ASSUME NEW t \in Threads, ThrowOrphan(t) PROVE CacheInv'
  BY <1>15 DEF ThrowOrphan
<1>16. ASSUME UNCHANGED cacheVars PROVE CacheInv'
  BY <1>16 DEF cacheVars
<1> QED
  BY <1>1, <1>2, <1>3, <1>4, <1>5, <1>6, <1>7, <1>8, <1>9, <1>10, <1>11, <1>12, <1>13, <1>14, <1>15, <1>16 DEF CacheNext, Step, Destructor

\* What get(), remove() and the map between them maintain.
THEOREM CacheInvariance == CacheSpec => []CacheInv
BY CacheStart, CacheStep, PTL DEF CacheSpec

\* Every variable of the cache keeps its type.
THEOREM CacheTypes == CacheSpec => []TypeOK
<1>1. CacheInv => TypeOK
  BY DEF CacheInv
<1> QED
  BY <1>1, CacheInvariance, PTL

\* The proxy that the other side has, or gets, is the one the cache would find.
THEOREM ReachableProxyIsCached == CacheSpec => []ReachableIsCached
<1>1. CacheInv => ReachableIsCached
  BY DEF CacheInv
<1> QED
  BY <1>1, CacheInvariance, PTL

\* No entry outlives the ownership of its impl.
THEOREM ImplsAreOwned == CacheSpec => []KeysAreOwned
<1>1. CacheInv => KeysAreOwned
  BY DEF CacheInv, TypeOK, Entries, KeysAreOwned
<1> QED
  BY <1>1, CacheInvariance, PTL

\* get() answers with a live proxy that owns the impl it was asked for.
THEOREM AnswersOwnTheirImpl == CacheSpec => []AnswerOwnsImpl
<1>1. CacheInv => AnswerOwnsImpl
  <2> SUFFICES ASSUME CacheInv, NEW t \in Threads, pc[t] = "return"
               PROVE  /\ handle[result[t]] = "owned"
                      /\ key[result[t]] = arg[t]
                      /\ weak[result[t]] = "live"
    BY DEF AnswerOwnsImpl
  <2>1. arg[t] \in Keys /\ result[t] \in Proxies /\ cache[arg[t]] = result[t]
    BY DEF CacheInv, Locked, Missed, ReachableIsCached
  <2> QED
    BY <2>1, CacheAssumption DEF CacheInv, Entries, ReachableIsCached
<1> QED
  BY <1>1, CacheInvariance, PTL

\* No entry is erased or replaced while its proxy may be in use.
THEOREM EvictsOnlyExpired == CacheSpec => OnlyExpiredEvicted
<1> DEFINE SparesLive ==
      \A k \in Keys : cache[k] # NoProxy /\ cache'[k] # cache[k] => weak[cache[k]] = "expired"
<1>1. ASSUME CacheInv, [CacheNext]_cacheVars PROVE SparesLive
  <2> USE <1>1 DEF CacheInv, TypeOK, Entries, Missed
  <2>1. ASSUME NEW t \in Threads, Find(t) PROVE SparesLive
    BY <2>1 DEF Find, Upgrades
  <2>2. ASSUME NEW t \in Threads, Emplace(t) PROVE SparesLive
    BY <2>2 DEF Emplace, At
  <2>3. ASSUME NEW p \in Proxies, Remove(p) PROVE SparesLive
    BY <2>3 DEF Remove, IsExpired
  <2>4. \/ UNCHANGED cache
        \/ \E t \in Threads : Find(t) \/ Emplace(t)
        \/ \E p \in Proxies : Remove(p)
    BY DEF CacheNext, Step, Destructor, cacheVars, Create, Forget, Unwrap, Drop,
           Expire, ReleaseImpl, Get, Alloc, Return, ThrowEarly, ThrowWithHandle, ThrowOrphan
  <2> QED
    BY <2>1, <2>2, <2>3, <2>4
<1> QED
  BY <1>1, CacheInvariance, PTL DEF CacheSpec, OnlyExpiredEvicted
-----------------------------------------------------------------------------
(* The cache implements ProxyIdentity.                                     *)

Reachable == [k \in Keys |-> {p \in held : key[p] = k}]

\* Returning gives the other side a proxy it knows already, or knew not at all.
LEMMA ReturnGives ==
  ASSUME CacheInv, NEW t \in Threads, Return(t),
         NEW k \in Keys, NEW p \in Proxies, arg[t] = k, result[t] = p
  PROVE  Identity!Give(k, p)
<1> DEFINE after(j) == {q \in held' : key'[q] = j}
<1>1. key[p] = k /\ cache[k] = p
  BY DEF CacheInv, ReachableIsCached, Return, Leave, At
<1>2. \A q \in held : key[q] = k => q = p
  BY <1>1 DEF CacheInv, ReachableIsCached
<1>3. held' = held \cup {p} /\ key' = key
  BY DEF Return, proxyVars
<1>4. after(k) = {p} /\ \A j \in Keys \ {k} : after(j) = Reachable[j]
  BY <1>1, <1>2, <1>3 DEF Reachable
<1>5. Reachable' = [j \in Keys |-> after(j)]
  BY DEF Reachable
<1>6. Reachable' = [Reachable EXCEPT ![k] = {p}]
  <2> HIDE DEF after
  <2> QED
    BY <1>4, <1>5 DEF Reachable
<1>7. /\ Reachable[k] \subseteq {p}
      /\ \A other \in Keys \ {k} : p \notin Reachable[other]
  BY <1>1, <1>2 DEF Reachable
<1> QED
  BY <1>6, <1>7 DEF Identity!Give, Reachable

\* When the other side drops a proxy, it loses it for that proxy's object.
LEMMA DropLoses ==
  ASSUME CacheInv, NEW p \in Proxies, Drop(p), NEW k \in Keys, key[p] = k
  PROVE  Identity!Lose(k, p)
<1> DEFINE after(j) == {q \in held' : key'[q] = j}
<1>1. held' = held \ {p} /\ key' = key
  BY DEF Drop, proxyVars
<1>2. after(k) = Reachable[k] \ {p} /\ \A j \in Keys \ {k} : after(j) = Reachable[j]
  BY <1>1 DEF Reachable
<1>3. Reachable' = [j \in Keys |-> after(j)]
  BY DEF Reachable
<1>4. Reachable' = [Reachable EXCEPT ![k] = @ \ {p}]
  <2> HIDE DEF after
  <2> QED
    BY <1>2, <1>3 DEF Reachable
<1>5. p \in Reachable[k]
  BY DEF Reachable, Drop
<1> QED
  BY <1>4, <1>5 DEF Identity!Lose, Reachable

\* No other step is seen by the other side: a new proxy is not reachable yet.
LEMMA OthersStutter ==
  ASSUME CacheInv, [CacheNext]_cacheVars,
         ~ \E t \in Threads : Return(t),
         ~ \E p \in Proxies : Drop(p)
  PROVE  UNCHANGED Reachable
<1>1. ASSUME NEW t \in Threads, Alloc(t) PROVE UNCHANGED Reachable
  <2>1. PICK p \in Fresh : key' = [key EXCEPT ![p] = arg[t]]
    BY <1>1 DEF Alloc
  <2>2. p \notin held
    BY <2>1 DEF CacheInv, ReachableIsCached, Fresh
  <2>3. held' = held /\ \A q \in held : key'[q] = key[q]
    BY <1>1, <2>1, <2>2 DEF Alloc, CacheInv, TypeOK
  <2> QED
    BY <2>3 DEF Reachable
<1>2. ASSUME UNCHANGED <<held, key>> PROVE UNCHANGED Reachable
  BY <1>2 DEF Reachable
<1>3. UNCHANGED <<held, key>> \/ \E t \in Threads : Alloc(t)
  BY DEF CacheNext, Step, Destructor, cacheVars, proxyVars, Create, Forget, Unwrap,
         Expire, Remove, ReleaseImpl, Get, Find, Emplace, ThrowEarly, ThrowWithHandle, ThrowOrphan
<1> QED
  BY <1>1, <1>2, <1>3

\* Across the boundary an object has one proxy at a time, whatever exceptions,
\* collections and destructors come between two calls of get().
THEOREM CacheKeepsIdentity == CacheSpec => OneProxyPerImpl
<1>1. CacheInit => Identity!IdentityInit
  BY DEF CacheInit, Identity!IdentityInit
<1>2. CacheInv /\ [CacheNext]_cacheVars => [Identity!IdentityNext]_Reachable
  <2> SUFFICES ASSUME CacheInv, [CacheNext]_cacheVars
               PROVE  [Identity!IdentityNext]_Reachable
    OBVIOUS
  <2>1. ASSUME NEW t \in Threads, Return(t) PROVE Identity!IdentityNext
    <3>1. PICK k \in Keys, p \in Proxies : arg[t] = k /\ result[t] = p
      BY <2>1 DEF CacheInv, Locked, Missed, Return, Leave, At
    <3>2. Identity!Give(k, p)
      BY <2>1, <3>1, ReturnGives
    <3> QED
      BY <3>2 DEF Identity!IdentityNext
  <2>2. ASSUME NEW p \in Proxies, Drop(p) PROVE Identity!IdentityNext
    <3>1. PICK k \in Keys : key[p] = k
      BY <2>2 DEF CacheInv, ReachableIsCached, Created, Drop
    <3>2. Identity!Lose(k, p)
      BY <2>2, <3>1, DropLoses
    <3> QED
      BY <3>2 DEF Identity!IdentityNext
  <2> QED
    BY <2>1, <2>2, OthersStutter
<1> QED
  BY <1>1, <1>2, CacheInvariance, PTL
     DEF CacheSpec, OneProxyPerImpl, Identity!IdentitySpec, Reachable
=============================================================================
