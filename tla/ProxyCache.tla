------------------------------ MODULE ProxyCache ------------------------------
(***************************************************************************)
(* ProxyCache<Traits>::Pimpl of proxy_cache_impl.hpp with the Handle of    *)
(* proxy_cache_interface.hpp, for both of its instantiations:              *)
(* JniCppProxyCache (the proxy is a Java object, the impl a C++ object)    *)
(* and JavaProxyCache (the proxy is a C++ object, the impl a Java object). *)
(*                                                                         *)
(* A proxy owns a handle and the handle owns the impl; the cache maps a    *)
(* key, the impl's type tag and address, to a weak reference to the proxy. *)
(* The weak reference expires when the last strong one goes, without the   *)
(* mutex; the handle's destructor calls remove() some time later.  An      *)
(* address is used again once nobody owns the impl that was there.         *)
(***************************************************************************)
EXTENDS Naturals, FiniteSets

CONSTANTS
  Threads,
  Tags,             \* std::type_index
  Addrs,            \* the addresses that impls are allocated at
  Proxies,          \* bound: the proxy objects a behaviour may create
  NoThread, NoKey, NoProxy,
  Failures          \* the exceptions that may be thrown inside get()

Keys == Tags \X Addrs

ASSUME CacheAssumption ==
  /\ NoThread \notin Threads
  /\ NoKey \notin Keys
  /\ NoProxy \notin Proxies
  /\ Failures \subseteq {"early", "unwind", "orphan"}

VARIABLES
  cache,            \* m_mapping: a key's proxy, or NoProxy if it has no entry
  mMutex,           \* the thread that holds m_mutex, or NoThread
  pc,               \* each thread's place in get()
  arg,              \* the key get() was called with; the caller owns the impl
  result,           \* the strong reference to a proxy that get() has in hand
  weak,             \* what a weak reference to the proxy finds
  handle,           \* the handle a proxy was created with, and its owned impl
  key,              \* the key of that handle
  held,             \* the proxies that the other side holds strongly
  clients           \* the addresses whose impl some client owns

callVars == <<mMutex, pc, arg, result>>
proxyVars == <<weak, handle, key>>
cacheVars == <<cache, callVars, proxyVars, held, clients>>

CacheInit ==
  /\ cache = [k \in Keys |-> NoProxy]
  /\ mMutex = NoThread
  /\ pc = [t \in Threads |-> "idle"]
  /\ arg = [t \in Threads |-> NoKey]
  /\ result = [t \in Threads |-> NoProxy]
  /\ weak = [p \in Proxies |-> "unused"]
  /\ handle = [p \in Proxies |-> "none"]
  /\ key = [p \in Proxies |-> NoKey]
  /\ held = {}
  /\ clients = {}

Fresh == {p \in Proxies : weak[p] = "unused"}

\* An impl exists as long as a client, a call or a handle owns it.
Alive(a) ==
  \/ a \in clients
  \/ \E t \in Threads : arg[t] # NoKey /\ arg[t][2] = a
  \/ \E p \in Proxies : handle[p] # "none" /\ key[p][2] = a

\* upgrade_weak() of an entry finds the proxy; is_expired() finds it gone.
Upgrades(p) == p # NoProxy /\ weak[p] = "live"
IsExpired(p) == p # NoProxy /\ weak[p] = "expired"

At(t, from, to) ==
  /\ pc[t] = from
  /\ pc' = [pc EXCEPT ![t] = to]

\* The unlock of get()'s unique_lock, with the end of the call.
Leave(t, from) ==
  /\ At(t, from, "idle")
  /\ mMutex' = NoThread
  /\ arg' = [arg EXCEPT ![t] = NoKey]
  /\ result' = [result EXCEPT ![t] = NoProxy]
-----------------------------------------------------------------------------
(* Mutants: the cache written wrong, which the properties below must       *)
(* notice.                                                                 *)

\* get() without its unique_lock.
GetUnlocked(t, k) ==
  /\ Fresh # {}
  /\ k[2] \in clients
  /\ At(t, "idle", "find")
  /\ arg' = [arg EXCEPT ![t] = k]
  /\ UNCHANGED <<cache, mMutex, result, proxyVars, held, clients>>

\* The entry returned without a look at its weak reference.
FindUnchecked(t) ==
  LET p == cache[arg[t]]
  IN /\ \/ /\ At(t, "find", "return")
           /\ p # NoProxy
           /\ result' = [result EXCEPT ![t] = p]
        \/ /\ At(t, "find", "alloc")
           /\ p = NoProxy
           /\ UNCHANGED result
     /\ UNCHANGED <<cache, mMutex, arg, proxyVars, held, clients>>

\* The expired entry not pruned, so that emplace() finds it there.
FindWithoutPruning(t) ==
  /\ \/ /\ At(t, "find", "return")
        /\ Upgrades(cache[arg[t]])
        /\ result' = [result EXCEPT ![t] = cache[arg[t]]]
     \/ /\ At(t, "find", "alloc")
        /\ ~Upgrades(cache[arg[t]])
        /\ UNCHANGED result
  /\ UNCHANGED <<cache, mMutex, arg, proxyVars, held, clients>>

\* The result taken after it has been moved from.
ReturnMoved(t) ==
  /\ Leave(t, "return")
  /\ held' = held \cup {result'[t]}
  /\ UNCHANGED <<cache, proxyVars, clients>>

\* get() with lock() and unlock() where it has its unique_lock.
ThrowEarlyLocked(t) ==
  /\ "early" \in Failures
  /\ At(t, "find", "idle") \/ At(t, "alloc", "idle")
  /\ arg' = [arg EXCEPT ![t] = NoKey]
  /\ UNCHANGED <<cache, mMutex, result, proxyVars, held, clients>>

\* remove() without the is_expired() test.
RemoveAlways(p) ==
  /\ handle[p] = "owned"
  /\ weak[p] = "expired"
  /\ mMutex = NoThread
  /\ handle' = [handle EXCEPT ![p] = "removed"]
  /\ cache' = [cache EXCEPT ![key[p]] = NoProxy]
  /\ UNCHANGED <<callVars, weak, key, held, clients>>

\* ~Handle() without cleanup(): the entry stays.
RemoveNothing(p) ==
  /\ handle[p] = "owned"
  /\ weak[p] = "expired"
  /\ mMutex = NoThread
  /\ handle' = [handle EXCEPT ![p] = "removed"]
  /\ UNCHANGED <<cache, callVars, weak, key, held, clients>>

\* remove() that leaves the destructor when the entry is not its own.
RemoveIfExpired(p) ==
  /\ handle[p] = "owned"
  /\ weak[p] = "expired"
  /\ mMutex = NoThread
  /\ IsExpired(cache[key[p]])
  /\ handle' = [handle EXCEPT ![p] = "removed"]
  /\ cache' = [cache EXCEPT ![key[p]] = NoProxy]
  /\ UNCHANGED <<callVars, weak, key, held, clients>>
-----------------------------------------------------------------------------
(* The clients on both sides *)

\* A new impl, at an address where none lives.
Create(a) ==
  /\ ~Alive(a)
  /\ clients' = clients \cup {a}
  /\ UNCHANGED <<cache, callVars, proxyVars, held>>

Forget(a) ==
  /\ a \in clients
  /\ clients' = clients \ {a}
  /\ UNCHANGED <<cache, callVars, proxyVars, held>>

\* A proxy passed back: objectFromHandleAddress copies the handle's reference.
Unwrap(p) ==
  /\ p \in held
  /\ handle[p] = "owned"
  /\ clients' = clients \cup {key[p][2]}
  /\ UNCHANGED <<cache, callVars, proxyVars, held>>

Drop(p) ==
  /\ p \in held
  /\ held' = held \ {p}
  /\ UNCHANGED <<cache, callVars, proxyVars, clients>>

\* The last strong reference is gone and the weak one is cleared: by the
\* collector for a Java proxy, by the reference count for a C++ one.
Expire(p) ==
  /\ weak[p] = "live"
  /\ p \notin held
  /\ \A t \in Threads : result[t] # p
  /\ weak' = [weak EXCEPT ![p] = "expired"]
  /\ UNCHANGED <<cache, callVars, handle, key, held, clients>>
-----------------------------------------------------------------------------
(* get(tag, impl, alloc) *)

Get(t, k) ==
  /\ Fresh # {}
  /\ k[2] \in clients
  /\ mMutex = NoThread
  /\ mMutex' = t
  /\ At(t, "idle", "find")
  /\ arg' = [arg EXCEPT ![t] = k]
  /\ UNCHANGED <<cache, result, proxyVars, held, clients>>

\* find() and the upgrade of the weak reference; an expired entry is pruned.
Find(t) ==
  LET p == cache[arg[t]]
  IN /\ \/ /\ At(t, "find", "return")
           /\ Upgrades(p)
           /\ result' = [result EXCEPT ![t] = p]
           /\ UNCHANGED cache
        \/ /\ At(t, "find", "alloc")
           /\ ~Upgrades(p)
           /\ cache' = [cache EXCEPT ![arg[t]] = NoProxy]
           /\ UNCHANGED result
     /\ UNCHANGED <<mMutex, arg, proxyVars, held, clients>>

\* alloc(impl): a proxy, and the handle that owns the impl.
Alloc(t) ==
  /\ At(t, "alloc", "emplace")
  /\ \E p \in Fresh :
       /\ result' = [result EXCEPT ![t] = p]
       /\ weak' = [weak EXCEPT ![p] = "live"]
       /\ handle' = [handle EXCEPT ![p] = "owned"]
       /\ key' = [key EXCEPT ![p] = arg[t]]
  /\ UNCHANGED <<cache, mMutex, arg, held, clients>>

\* emplace() leaves an entry alone that is there already.
Emplace(t) ==
  /\ At(t, "emplace", "return")
  /\ cache' = [cache EXCEPT ![arg[t]] = IF @ = NoProxy THEN result[t] ELSE @]
  /\ UNCHANGED <<mMutex, arg, result, proxyVars, held, clients>>

Return(t) ==
  /\ Leave(t, "return")
  /\ held' = held \cup {result[t]}
  /\ UNCHANGED <<cache, proxyVars, clients>>

\* Thrown by the hasher or the allocator while there is no handle yet.
ThrowEarly(t) ==
  /\ "early" \in Failures
  /\ Leave(t, "find") \/ Leave(t, "alloc")
  /\ UNCHANGED <<cache, proxyVars, held, clients>>

\* Thrown after the handle is built and while get() owns it: by newCppProxy's
\* jniExceptionCheck, by emplace()'s hasher in JavaProxyCache.  Unwinding
\* destroys the handle, whose destructor calls remove(), which waits for the
\* mutex that this very thread holds: "unwinding" has no step out of it.
ThrowWithHandle(t) ==
  /\ "unwind" \in Failures
  /\ At(t, "emplace", "unwinding")
  /\ weak' = [weak EXCEPT ![result[t]] = "expired"]
  /\ UNCHANGED <<cache, mMutex, arg, result, handle, key, held, clients>>

\* JavaWeakRef's constructor throws inside emplace(): the Java proxy owns the
\* handle already, and is left to the collector.
ThrowOrphan(t) ==
  /\ "orphan" \in Failures
  /\ Leave(t, "emplace")
  /\ UNCHANGED <<cache, proxyVars, held, clients>>
-----------------------------------------------------------------------------
(* ~Handle(), run by CppProxy.finalize(), if the JVM finds the native      *)
(* function for nativeDestroy, or by the last release of a C++ proxy.      *)

\* remove(tag, impl): locked, looked up, erased and unlocked.
Remove(p) ==
  /\ handle[p] = "owned"
  /\ weak[p] = "expired"
  /\ mMutex = NoThread
  /\ handle' = [handle EXCEPT ![p] = "removed"]
  /\ LET q == cache[key[p]]
     IN cache' = [cache EXCEPT ![key[p]] =
                    IF IsExpired(q) THEN NoProxy ELSE q]
  /\ UNCHANGED <<callVars, weak, key, held, clients>>

\* The destruction of m_obj, after the destructor's body.
ReleaseImpl(p) ==
  /\ handle[p] = "removed"
  /\ handle' = [handle EXCEPT ![p] = "none"]
  /\ UNCHANGED <<cache, callVars, weak, key, held, clients>>
-----------------------------------------------------------------------------
\* The steps of a call of get() that has the mutex.
Step(t) ==
  \/ Find(t) \/ Alloc(t) \/ Emplace(t) \/ Return(t)
  \/ ThrowEarly(t) \/ ThrowWithHandle(t) \/ ThrowOrphan(t)

Destructor(p) == Remove(p) \/ ReleaseImpl(p)

CacheNext ==
  \/ \E a \in Addrs : Create(a) \/ Forget(a)
  \/ \E p \in Proxies : Unwrap(p) \/ Drop(p) \/ Expire(p) \/ Destructor(p)
  \/ \E t \in Threads : Step(t) \/ \E k \in Keys : Get(t, k)

CacheSpec == CacheInit /\ [][CacheNext]_cacheVars

\* The scheduler runs a thread that can run, and a destructor that has begun
\* gets to its end; nobody need ever call get() again or drop a proxy.
CacheFairness ==
  /\ \A t \in Threads : WF_cacheVars(Step(t))
  /\ \A p \in Proxies : WF_cacheVars(Destructor(p))

FairCacheSpec == CacheSpec /\ CacheFairness
-----------------------------------------------------------------------------
(* What the cache guarantees.                                              *)

TypeOK ==
  /\ cache \in [Keys -> Proxies \cup {NoProxy}]
  /\ mMutex \in Threads \cup {NoThread}
  /\ pc \in [Threads -> {"idle", "find", "alloc", "emplace", "return", "unwinding"}]
  /\ arg \in [Threads -> Keys \cup {NoKey}]
  /\ result \in [Threads -> Proxies \cup {NoProxy}]
  /\ weak \in [Proxies -> {"unused", "live", "expired"}]
  /\ handle \in [Proxies -> {"none", "owned", "removed"}]
  /\ key \in [Proxies -> Keys \cup {NoKey}]
  /\ held \in SUBSET Proxies
  /\ clients \in SUBSET Addrs

\* A proxy that the other side can reach, or is about to receive, is the one
\* that the cache has for its key: the next get() will find it, whatever
\* proxies of the same impl are being collected meanwhile (get and remove in
\* proxy_cache_impl.hpp, the window that remove's comment describes).
ReachableIsCached ==
  /\ \A p \in held : weak[p] = "live" /\ cache[key[p]] = p
  /\ \A t \in Threads :
       pc[t] = "return" => /\ weak[result[t]] = "live"
                           /\ key[result[t]] = arg[t]
                           /\ cache[arg[t]] = result[t]

\* As long as an entry is in the map some handle keeps its impl, so that no
\* other impl can come to live at the address it is filed under
\* (djinni_support.hpp, on the keys of the JavaProxyCache).
KeysAreOwned ==
  \A k \in Keys : cache[k] # NoProxy =>
    \E p \in Proxies : key[p] = k /\ handle[p] = "owned"

\* What get() returns is a live proxy that owns the impl it was asked for, and
\* not one whose handle's destructor has begun.
AnswerOwnsImpl ==
  \A t \in Threads :
    pc[t] = "return" => /\ handle[result[t]] = "owned"
                        /\ key[result[t]] = arg[t]
                        /\ weak[result[t]] = "live"

\* No step takes an entry out of the map, or replaces it, while its proxy may
\* still be in use: a late remove() spares the proxy that took its place.
OnlyExpiredEvicted ==
  [][\A k \in Keys :
       cache[k] # NoProxy /\ cache'[k] # cache[k] => weak[cache[k]] = "expired"]_cacheVars

\* The cache keeps the identity of objects: the other side never reaches two
\* proxies under one key, nor one proxy under two.
Identity == INSTANCE ProxyIdentity
              WITH proxiesOf <- [k \in Keys |-> {p \in held : key[p] = k}]
OneProxyPerImpl == Identity!IdentitySpec

\* A call of get() that has the mutex gives it back, whatever it throws and
\* whichever proxies are being collected: all but the one exception that is
\* thrown while get() owns a handle (the unique_lock in get of
\* proxy_cache_impl.hpp; ExceptionsLeaveGet is about the other).
CallsReturn ==
  \A t \in Threads : (mMutex = t) ~> (mMutex # t \/ pc[t] = "unwinding")

\* An exception thrown while a proxy is made leaves get(), and the mutex with
\* it, to be translated for the caller (jniExceptionCheck in newCppProxy).
ExceptionsLeaveGet ==
  \A t \in Threads : (pc[t] = "unwinding") ~> (mMutex # t)

Quiet == <>[](\A t \in Threads : pc[t] = "idle")

\* Once calls of get() stop, every proxy that is gone gives up its impl
\* (proxy_cache_interface.hpp: Handle::~Handle() removes the reference).
HandlesGo == Quiet => <>[](\A p \in Proxies : weak[p] = "expired" => handle[p] = "none")

\* Once calls of get() stop, the entries of collected proxies go, so that the
\* map does not grow with the objects that ever crossed the boundary.
EntriesGo == Quiet => <>[](\A k \in Keys : ~IsExpired(cache[k]))
=============================================================================
