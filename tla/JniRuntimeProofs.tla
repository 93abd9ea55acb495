--------------------------- MODULE JniRuntimeProofs ---------------------------
(***************************************************************************)
(* Theorems about JniRuntime, for any classes, threads and references, in  *)
(* any order of registration, loading, shutdown and exit.                  *)
(*                                                                         *)
(* InitialisedPrefix needs to know where the loop stands, and the counting *)
(* of class references that no class is initialised twice, which is so     *)
(* because each is registered once.                                        *)
(***************************************************************************)
EXTENDS JniRuntime, TLAPS

\* Before the loop nothing is initialised; while a constructor runs the loop has a
\* class in hand; an exception is pending only behind the loop.
Places ==
  /\ stage = "unloaded" => next = 1 /\ s_singleton = {} /\ initializers = <<>>
  /\ stage \in {"constructing", "throwing"} => next <= Len(initializers)
  /\ stage \in {"unloaded", "initializing", "constructing", "throwing"} => ~pending

Ended == stage \in {"loaded", "unloading"}

\* jniInit is all or a prefix: the classes in front of the one whose constructor
\* threw are usable, that one and those behind it are not, and then the caller of
\* System.loadLibrary has an exception to tell it (jniInit, the catch behind the loop).
InitialisedPrefix ==
  /\ stage # "exiting" => s_singleton = {initializers[i] : i \in 1..(next - 1)}
  /\ Ended /\ ~pending => next = Len(initializers) + 1
  /\ Ended /\ pending => next <= Len(initializers)

Once(s) == \A i, j \in DOMAIN s : s[i] = s[j] => i = j

LoadInv ==
  /\ TypeOK
  /\ Places
  /\ Once(registrations) /\ Once(initializers)
  /\ InitialisedPrefix

\* A reference being released is held, and by one thread; before the exit no class
\* reference is released or given up.
Releases ==
  /\ \A t \in Threads : releasing[t] # NoRef =>
       /\ global[releasing[t]] = "held"
       /\ \A u \in Threads : releasing[u] = releasing[t] => u = t
  /\ stage # "exiting" => \A t \in Threads : releasing[t] \notin Classes

RuntimeInv == LoadInv /\ NoClassRefLeaks /\ Releases
-----------------------------------------------------------------------------
\* A library that is not yet loaded has nothing to keep.
LEMMA RuntimeStart == Init => RuntimeInv
<1> SUFFICES ASSUME Init PROVE RuntimeInv
  OBVIOUS
<1> USE RuntimeAssumption DEF Init
<1>1. TypeOK
  <2>1. registrations \in Seq(Classes) /\ initializers \in Seq(Classes) /\ Len(initializers) = 0
    OBVIOUS
  <2>2. /\ global \in [Refs -> {"none", "held", "deleted", "leaked"}]
        /\ releasing \in [Threads -> Refs \cup {NoRef}]
    OBVIOUS
  <2>3. crash \in ({"none", "get", "env", "release"} \X (Refs \cup {NoRef}))
    BY DEF NoCrash
  <2>4. next \in 1..(Len(initializers) + 1)
    BY <2>1
  <2>5. /\ g_cachedJVM \in BOOLEAN /\ pending \in BOOLEAN /\ stage \in Stages
        /\ s_singleton \subseteq Classes /\ attached \subseteq Threads /\ local \subseteq Threads
    BY DEF Stages
  <2> HIDE DEF Init
  <2> QED
    BY <2>1, <2>2, <2>3, <2>4, <2>5 DEF TypeOK
<1>2. Places /\ Once(registrations) /\ Once(initializers)
  BY DEF Places, Once
<1>3. InitialisedPrefix
  BY DEF InitialisedPrefix, Ended
<1>4. NoClassRefLeaks /\ Releases
  BY DEF NoClassRefLeaks, Releases, NoCrash, Refs
<1> QED
  BY <1>1, <1>2, <1>3, <1>4 DEF RuntimeInv, LoadInv

\* No step breaks the types.
LEMMA TypesStep == LoadInv /\ [Next]_vars => TypeOK'
<1> SUFFICES ASSUME LoadInv, [Next]_vars PROVE TypeOK'
  OBVIOUS
<1> USE RuntimeAssumption DEF LoadInv, TypeOK, Places, Stages, Refs, loading, guards, Alive, NoCrash
<1>1. ASSUME NEW c \in Classes, JniClassInitializer(c) PROVE TypeOK'
  BY <1>1 DEF JniClassInitializer
<1>2. CASE JniInit
  BY <1>2 DEF JniInit
<1>3. CASE FindClass
  BY <1>3 DEF FindClass
<1>4. CASE GetIDs
  <2>1. next \in Nat \ {0} /\ initializers[next] \in Classes
    BY <1>4 DEF GetIDs
  <2>2. s_singleton' \subseteq Classes /\ next' \in 1..(Len(initializers) + 1)
    BY <1>4, <2>1 DEF GetIDs
  <2>3. global' \in [Refs -> {"none", "held", "deleted", "leaked"}]
    BY <1>4 DEF GetIDs
  <2> QED
    BY <1>4, <2>2, <2>3 DEF GetIDs
<1>5. CASE CatchException \/ EndInit \/ JniShutdown \/ BeginExit
  BY <1>5 DEF CatchException, EndInit, JniShutdown, BeginExit
<1>6. ASSUME NEW c \in Classes, Get(c) PROVE TypeOK'
  BY <1>6 DEF Get
<1>7. ASSUME NEW t \in Threads, Attach(t) \/ Detach(t) \/ NewLocalRef(t) \/ DeleteLocalRef(t)
      PROVE  TypeOK'
  BY <1>7 DEF Attach, Detach, NewLocalRef, DeleteLocalRef
<1>8. ASSUME NEW t \in Threads, NEW x \in Objects, NewGlobalRef(t, x) PROVE TypeOK'
  <2>1. x \in Refs /\ UNCHANGED <<g_cachedJVM, stage, loading, attached, local, releasing>>
    BY <1>8 DEF NewGlobalRef
  <2>2. global' \in [Refs -> {"none", "held", "deleted", "leaked"}]
    BY <1>8 DEF NewGlobalRef
  <2>3. crash' \in ({"none", "get", "env", "release"} \X (Refs \cup {NoRef}))
    BY <1>8, <2>1 DEF NewGlobalRef
  <2> QED
    BY <2>1, <2>2, <2>3
<1>9. ASSUME NEW t \in Threads, NEW x \in Refs, ReadJVM(t, x), s_singleton' \subseteq s_singleton
      PROVE  TypeOK'
  <2>1. UNCHANGED <<g_cachedJVM, stage, registrations, initializers, next, pending, attached, local, crash>>
    BY <1>9 DEF ReadJVM
  <2>3. global' = global \/ global' = [global EXCEPT ![x] = "leaked"]
    BY <1>9 DEF ReadJVM
  <2>4. global' \in [Refs -> {"none", "held", "deleted", "leaked"}]
    BY <2>3
  <2>5. releasing' \in [Threads -> Refs \cup {NoRef}]
    BY <1>9 DEF ReadJVM
  <2> QED
    BY <1>9, <2>1, <2>4, <2>5
<1>10. ASSUME NEW t \in Threads, EndRelease(t) PROVE TypeOK'
  <2>1. UNCHANGED <<g_cachedJVM, stage, loading, attached, local>> /\ releasing[t] \in Refs
    BY <1>10 DEF EndRelease
  <2>2. releasing' \in [Threads -> Refs \cup {NoRef}]
    BY <1>10 DEF EndRelease
  <2>3. global' \in [Refs -> {"none", "held", "deleted", "leaked"}]
    BY <1>10 DEF EndRelease
  <2>4. crash' \in ({"none", "get", "env", "release"} \X (Refs \cup {NoRef}))
    BY <1>10, <2>1 DEF EndRelease
  <2> QED
    BY <2>1, <2>2, <2>3, <2>4
<1>11. CASE UNCHANGED vars
  BY <1>11 DEF vars
<1> QED
  BY <1>1, <1>2, <1>3, <1>4, <1>5, <1>6, <1>7, <1>8, <1>9, <1>10, <1>11
     DEF Next, BeginRelease, DestroySingleton

\* No step breaks what the loop maintains.
LEMMA LoadStep == LoadInv /\ [Next]_vars => LoadInv'
<1> SUFFICES ASSUME LoadInv, [Next]_vars PROVE LoadInv'
  OBVIOUS
<1>1. TypeOK'
  BY TypesStep
<1> USE RuntimeAssumption, <1>1 DEF LoadInv, Places, InitialisedPrefix, Ended, loading, guards
<1>2. ASSUME NEW c \in Classes, JniClassInitializer(c) PROVE LoadInv'
  BY <1>2 DEF JniClassInitializer, TypeOK, Once, Elements
<1>3. CASE JniInit
  BY <1>3 DEF JniInit, TypeOK
<1>4. CASE FindClass
  BY <1>4 DEF FindClass, TypeOK
<1>5. CASE GetIDs
  <2> USE <1>5 DEF GetIDs
  <2>1. CASE stage' = "throwing"
    BY <2>1
  <2>2. CASE stage' = "initializing"
    <3>1. next \in Nat \ {0} /\ next' = next + 1
      BY <2>2 DEF TypeOK
    <3>2. {initializers[i] : i \in 1..(next' - 1)}
            = {initializers[i] : i \in 1..(next - 1)} \cup {initializers[next]}
      BY <3>1
    <3> QED
      BY <2>2, <3>1, <3>2
  <2> QED
    BY <2>1, <2>2
<1>6. CASE CatchException
  BY <1>6 DEF CatchException
<1>7. CASE EndInit
  BY <1>7 DEF EndInit, TypeOK
<1>8. CASE JniShutdown \/ BeginExit
  BY <1>8 DEF JniShutdown, BeginExit
<1>9. ASSUME NEW c \in Classes, Get(c) PROVE LoadInv'
  BY <1>9 DEF Get
<1>10. ASSUME NEW t \in Threads, Attach(t) \/ Detach(t) \/ NewLocalRef(t) \/ DeleteLocalRef(t)
       PROVE  LoadInv'
  BY <1>10 DEF Attach, Detach, NewLocalRef, DeleteLocalRef
<1>11. ASSUME NEW t \in Threads, NEW x \in Objects, NewGlobalRef(t, x) \/ BeginRelease(t, x)
       PROVE  LoadInv'
  BY <1>11 DEF NewGlobalRef, BeginRelease, ReadJVM
<1>12. ASSUME NEW t \in Threads, NEW c \in Classes, DestroySingleton(t, c) PROVE LoadInv'
  BY <1>12 DEF DestroySingleton, ReadJVM
<1>13. ASSUME NEW t \in Threads, EndRelease(t) PROVE LoadInv'
  BY <1>13 DEF EndRelease
<1>14. CASE UNCHANGED vars
  BY <1>14 DEF vars
<1> QED
  BY <1>2, <1>3, <1>4, <1>5, <1>6, <1>7, <1>8, <1>9, <1>10, <1>11, <1>12, <1>13, <1>14 DEF Next

\* The class in hand is not yet initialised.
LEMMA InHandIsFresh ==
  ASSUME LoadInv, stage \in {"initializing", "constructing"}, next <= Len(initializers)
  PROVE  initializers[next] \in Classes \ s_singleton
<1>1. next \in Nat \ {0} /\ next \in DOMAIN initializers /\ initializers \in Seq(Classes)
  BY DEF LoadInv, TypeOK
<1>2. \A i \in 1..(next - 1) : i \in DOMAIN initializers /\ i # next
  BY <1>1
<1>3. s_singleton = {initializers[i] : i \in 1..(next - 1)}
  BY DEF LoadInv, InitialisedPrefix
<1> QED
  BY <1>1, <1>2, <1>3 DEF LoadInv, Once

\* No step breaks what is known of the references.
LEMMA ReferencesStep ==
  RuntimeInv /\ [Next]_vars => (NoClassRefLeaks /\ Releases)'
<1> DEFINE Goal == NoClassRefLeaks /\ Releases
<1> SUFFICES ASSUME RuntimeInv, [Next]_vars PROVE Goal'
  OBVIOUS
<1>1. LoadInv /\ LoadInv' /\ TypeOK /\ TypeOK'
  BY LoadStep DEF RuntimeInv, LoadInv
<1> USE RuntimeAssumption DEF RuntimeInv, NoClassRefLeaks, Releases, Refs, loading, guards, Alive, NoCrash
<1>2. ASSUME NEW c \in Classes, JniClassInitializer(c) PROVE Goal'
  BY <1>2, <1>1 DEF JniClassInitializer
<1>3. CASE JniInit
  <2>1. stage = "unloaded" /\ stage' = "initializing" /\ UNCHANGED <<s_singleton, global>>
    BY <1>3 DEF JniInit
  <2> QED
    BY <1>3, <2>1 DEF JniInit
<1>4. CASE FindClass
  <2> DEFINE c == initializers[next]
  <2>1. c \in Classes \ s_singleton
    BY <1>1, <1>4, InHandIsFresh DEF FindClass
  <2> HIDE DEF c
  <2>2. /\ stage = "initializing" /\ UNCHANGED <<next, initializers, s_singleton, releasing, crash, g_cachedJVM>>
        /\ \/ stage' = "constructing" /\ global' = [global EXCEPT ![c] = "held"]
           \/ stage' = "throwing" /\ global' = global
        /\ initializers'[next'] = c
    BY <1>4 DEF FindClass, c
  <2>3. /\ global \in [Refs -> {"none", "held", "deleted", "leaked"}]
        /\ releasing \in [Threads -> Refs \cup {NoRef}]
    BY <1>1 DEF TypeOK
  <2> QED
    BY <2>1, <2>2, <2>3
<1>5. CASE GetIDs
  <2> DEFINE c == initializers[next]
  <2>1. c \in Classes \ s_singleton
    BY <1>1, <1>5, InHandIsFresh DEF GetIDs, LoadInv, Places
  <2> HIDE DEF c
  <2>2. /\ stage = "constructing" /\ UNCHANGED <<releasing, crash, g_cachedJVM>>
        /\ \/ /\ stage' = "initializing" /\ s_singleton' = s_singleton \cup {c}
              /\ global' = global
           \/ /\ stage' = "throwing" /\ global' = [global EXCEPT ![c] = "deleted"]
              /\ s_singleton' = s_singleton
        /\ initializers[next] = c
    BY <1>5 DEF GetIDs, c
  <2>3. /\ global \in [Refs -> {"none", "held", "deleted", "leaked"}]
        /\ releasing \in [Threads -> Refs \cup {NoRef}]
    BY <1>1 DEF TypeOK
  <2> QED
    BY <2>1, <2>2, <2>3
<1>6. CASE CatchException \/ EndInit
  BY <1>6 DEF CatchException, EndInit
<1>7. CASE JniShutdown \/ BeginExit
  BY <1>7 DEF JniShutdown, BeginExit
<1>8. ASSUME NEW c \in Classes, Get(c) PROVE Goal'
  BY <1>8 DEF Get
<1>9. ASSUME NEW t \in Threads, Attach(t) \/ Detach(t) \/ NewLocalRef(t) \/ DeleteLocalRef(t)
      PROVE  Goal'
  BY <1>9 DEF Attach, Detach, NewLocalRef, DeleteLocalRef
<1>10. ASSUME NEW t \in Threads, NEW x \in Objects, NewGlobalRef(t, x) PROVE Goal'
  BY <1>10, <1>1 DEF NewGlobalRef, TypeOK
<1>11. ASSUME NEW t \in Threads, NEW x \in Refs, ReadJVM(t, x),
              \/ x \in Objects /\ UNCHANGED s_singleton
              \/ stage = "exiting"
       PROVE  Goal'
  <2> DEFINE keep == UNCHANGED <<g_cachedJVM, stage, initializers, next, crash>>
  <2>1. /\ global \in [Refs -> {"none", "held", "deleted", "leaked"}]
        /\ releasing \in [Threads -> Refs \cup {NoRef}]
    BY <1>1 DEF TypeOK
  <2>2. /\ keep /\ Alive /\ releasing[t] = NoRef /\ global[x] = "held"
        /\ \A u \in Threads : releasing[u] # x
    BY <1>11 DEF ReadJVM
  <2>3. stage # "exiting" => x \notin Classes /\ s_singleton' = s_singleton
    BY <1>11
  <2>4. CASE g_cachedJVM
    <3>1. releasing' = [releasing EXCEPT ![t] = x] /\ UNCHANGED global
      BY <1>11, <2>4 DEF ReadJVM
    <3>2. \A u \in Threads : releasing'[u] = IF u = t THEN x ELSE releasing[u]
      BY <2>1, <3>1
    <3> QED
      BY <2>1, <2>2, <2>3, <3>1, <3>2
  <2>5. CASE ~g_cachedJVM
    <3>1. global' = [global EXCEPT ![x] = "leaked"] /\ releasing' = releasing
      BY <1>11, <2>5 DEF ReadJVM
    <3>2. \A y \in Refs : global'[y] = IF y = x THEN "leaked" ELSE global[y]
      BY <2>1, <3>1
    <3>3. NoClassRefLeaks'
      BY <2>2, <2>3, <3>2
    <3>4. Releases'
      BY <2>1, <2>2, <2>3, <3>1, <3>2
    <3> QED
      BY <3>3, <3>4
  <2> QED
    BY <2>4, <2>5
<1>12. ASSUME NEW t \in Threads, EndRelease(t) PROVE Goal'
  BY <1>12, <1>1 DEF EndRelease, TypeOK
<1>13. CASE UNCHANGED vars
  BY <1>13 DEF vars
<1> QED
  BY <1>2, <1>3, <1>4, <1>5, <1>6, <1>7, <1>8, <1>9, <1>10, <1>11, <1>12, <1>13
     DEF Next, BeginRelease, DestroySingleton

\* What the loop, the classes and the guards maintain together.
THEOREM RuntimeInvariance == Spec => []RuntimeInv
<1>1. RuntimeInv /\ [Next]_vars => RuntimeInv'
  BY LoadStep, ReferencesStep DEF RuntimeInv
<1> QED
  BY RuntimeStart, <1>1, PTL DEF Spec
-----------------------------------------------------------------------------
\* Every variable keeps its type.
THEOREM RuntimeTypes == Spec => []TypeOK
<1>1. RuntimeInv => TypeOK
  BY DEF RuntimeInv, LoadInv
<1> QED
  BY <1>1, RuntimeInvariance, PTL

\* jniInit is all or a prefix, whatever registers meanwhile and whichever
\* constructor throws.
THEOREM InitIsPrefix == Spec => []InitialisedPrefix
<1>1. RuntimeInv => InitialisedPrefix
  BY DEF RuntimeInv, LoadInv
<1> QED
  BY <1>1, RuntimeInvariance, PTL

\* The class references in use are those of the initialised classes.
THEOREM ClassRefsAreOwned == Spec => []NoClassRefLeaks
<1>1. RuntimeInv => NoClassRefLeaks
  BY DEF RuntimeInv
<1> QED
  BY <1>1, RuntimeInvariance, PTL

\* References leak on detached threads and after the shutdown alone.
THEOREM LeaksAreAtTheEnd == Spec => LeaksOnlyAtTheEnd
<1> DEFINE Late ==
      \A x \in Refs : global[x] = "held" /\ global'[x] = "leaked" =>
        ~g_cachedJVM \/ \E t \in Threads \ attached : releasing[t] = x
<1>1. RuntimeInv /\ [Next]_vars => [Late]_vars
  <2> SUFFICES ASSUME RuntimeInv, Next, NEW x \in Refs,
                      global[x] = "held", global'[x] = "leaked", g_cachedJVM
               PROVE  \E t \in Threads \ attached : releasing[t] = x
    OBVIOUS
  <2>1. TypeOK
    BY DEF RuntimeInv, LoadInv
  <2> USE <2>1 DEF TypeOK, loading, guards
  <2>2. global' # global
    OBVIOUS
  <2>3. ~FindClass
    BY DEF FindClass
  <2>4. ~GetIDs
    BY DEF GetIDs
  <2>5. ASSUME NEW t \in Threads, NEW y \in Refs, ReadJVM(t, y) PROVE FALSE
    BY <2>5 DEF ReadJVM
  <2>6. ASSUME NEW t \in Threads, NEW y \in Objects, NewGlobalRef(t, y) PROVE FALSE
    BY <2>6 DEF NewGlobalRef, Refs
  <2>7. PICK t \in Threads : EndRelease(t)
    BY <2>2, <2>3, <2>4, <2>5, <2>6
       DEF Next, JniInit, CatchException, EndInit, JniShutdown, BeginExit, JniClassInitializer, Get,
           Attach, Detach, NewLocalRef, DeleteLocalRef, BeginRelease, DestroySingleton, Refs
  <2> QED
    BY <2>7 DEF EndRelease
<1> QED
  BY <1>1, RuntimeInvariance, PTL DEF Spec, LeaksOnlyAtTheEnd
=============================================================================
