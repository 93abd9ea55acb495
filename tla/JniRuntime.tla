----------------------------- MODULE JniRuntime -----------------------------
(***************************************************************************)
(* The process-wide state of djinni_support.cpp: the class initialisers    *)
(* that static initialisation registers, jniInit() that runs them under    *)
(* JNI_OnLoad, jniShutdown(), and the reference guards, whose destructors  *)
(* look for the JVM and for the thread's environment when they run.        *)
(***************************************************************************)
EXTENDS Naturals, Sequences

CONSTANTS
  Classes,          \* the types C for which JniClass<C> is instantiated
  Objects,          \* other C++ objects that own a GlobalRef
  Threads,
  Loader,           \* the Java thread that calls System.loadLibrary
  NoRef

Refs == Classes \cup Objects

ASSUME RuntimeAssumption ==
  /\ Loader \in Threads
  /\ NoRef \notin Refs
  /\ Classes \cap Objects = {}

VARIABLES
  registrations,    \* the vector of get_vec(), guarded by get_mutex()
  g_cachedJVM,      \* a plain global: is the pointer set?
  stage,            \* where the library is between its load and its end
  initializers,     \* jniInit's copy of the vector
  next,             \* the index its loop has come to
  s_singleton,      \* the classes whose unique_ptr is set
  pending,          \* a Java exception is pending on Loader
  attached,         \* the threads that the JVM knows
  global,           \* each global reference: none, held, deleted or leaked
  releasing,        \* the reference between getOptThreadEnv's two reads, per thread
  local,            \* the threads on which a LocalRef guard is alive
  crash             \* how the process ended, and over what

guards == <<attached, local, global, releasing>>
loading == <<registrations, initializers, next, s_singleton, pending>>
vars == <<registrations, g_cachedJVM, stage, initializers, next, s_singleton, pending,
          attached, local, global, releasing, crash>>

Elements(s) == {s[i] : i \in DOMAIN s}
NoCrash == <<"none", NoRef>>
Alive == crash = NoCrash

Init ==
  /\ registrations = <<>>
  /\ g_cachedJVM = FALSE
  /\ stage = "unloaded"
  /\ initializers = <<>>
  /\ next = 1
  /\ s_singleton = {}
  /\ pending = FALSE
  /\ attached = {Loader}
  /\ local = {}
  /\ global = [x \in Refs |-> "none"]
  /\ releasing = [t \in Threads |-> NoRef]
  /\ crash = NoCrash
-----------------------------------------------------------------------------
(* Mutants.                                                                *)

\* The loop skips a class.
GetIDsTwice ==
  /\ Alive /\ stage = "constructing"
  /\ stage' = "initializing"
  /\ s_singleton' = s_singleton \cup {initializers[next]}
  /\ next' = next + 2
  /\ UNCHANGED <<g_cachedJVM, registrations, initializers, pending, guards, crash>>

\* clazz is a bare jclass, which a constructor that throws does not release.
GetIDsUnguarded ==
  /\ Alive /\ stage = "constructing"
  /\ \/ /\ stage' = "initializing"
        /\ s_singleton' = s_singleton \cup {initializers[next]}
        /\ next' = next + 1
     \/ /\ stage' = "throwing"
        /\ UNCHANGED <<s_singleton, next>>
  /\ UNCHANGED <<g_cachedJVM, registrations, initializers, pending, guards, crash>>

\* Every answer of GetEnv but success is taken for JNI_EDETACHED, and the version
\* asked for is one the JVM does not have.
EndReleaseSkips(t) ==
  /\ Alive /\ releasing[t] # NoRef
  /\ releasing' = [releasing EXCEPT ![t] = NoRef]
  /\ global' = [global EXCEPT ![releasing[t]] = "leaked"]
  /\ UNCHANGED <<g_cachedJVM, stage, loading, attached, local, crash>>
-----------------------------------------------------------------------------
(* Registration and loading.                                               *)

\* JniClass<C>::s_initializer is constructed by static initialisation: of this
\* library before JNI_OnLoad, or of one that is loaded later, even by Java code
\* that an initialiser of the loop makes the JVM run.
JniClassInitializer(c) ==
  /\ Alive /\ stage # "exiting"
  /\ c \notin Elements(registrations)
  /\ registrations' = Append(registrations, c)
  /\ UNCHANGED <<g_cachedJVM, stage, initializers, next, s_singleton, pending, guards, crash>>

JniInit ==
  /\ Alive /\ stage = "unloaded"
  /\ stage' = "initializing"
  /\ g_cachedJVM' = TRUE
  /\ initializers' = registrations
  /\ UNCHANGED <<registrations, next, s_singleton, pending, guards, crash>>

\* allocate() runs C's constructor: its member clazz is jniFindClass, which holds
\* a global reference or throws.
FindClass ==
  /\ Alive /\ stage = "initializing" /\ next <= Len(initializers)
  /\ \/ /\ stage' = "constructing"
        /\ global' = [global EXCEPT ![initializers[next]] = "held"]
     \/ /\ stage' = "throwing"
        /\ UNCHANGED global
  /\ UNCHANGED <<g_cachedJVM, loading, attached, local, releasing, crash>>

\* The members behind clazz are jniGetMethodID, jniGetStaticMethodID and
\* jniGetFieldID: the object is complete, or one throws and clazz is destroyed.
GetIDs ==
  /\ Alive /\ stage = "constructing"
  /\ \/ /\ stage' = "initializing"
        /\ s_singleton' = s_singleton \cup {initializers[next]}
        /\ next' = next + 1
        /\ UNCHANGED global
     \/ /\ stage' = "throwing"
        /\ global' = [global EXCEPT ![initializers[next]] = "deleted"]
        /\ UNCHANGED <<s_singleton, next>>
  /\ UNCHANGED <<g_cachedJVM, registrations, initializers, pending, attached, local, releasing, crash>>

\* The catch of jniInit, behind the loop: JNI_OnLoad returns as if it had succeeded.
CatchException ==
  /\ Alive /\ stage = "throwing"
  /\ stage' = "loaded"
  /\ pending' = TRUE
  /\ UNCHANGED <<g_cachedJVM, registrations, initializers, next, s_singleton, guards, crash>>

EndInit ==
  /\ Alive /\ stage = "initializing" /\ next > Len(initializers)
  /\ stage' = "loaded"
  /\ UNCHANGED <<g_cachedJVM, loading, guards, crash>>

\* JNI_OnUnload
JniShutdown ==
  /\ Alive /\ stage = "loaded"
  /\ stage' = "unloading"
  /\ g_cachedJVM' = FALSE
  /\ UNCHANGED <<loading, guards, crash>>

\* The process exits, or the library is closed: static objects are destroyed.
BeginExit ==
  /\ Alive /\ stage \in {"loaded", "unloading"}
  /\ stage' = "exiting"
  /\ UNCHANGED <<g_cachedJVM, loading, guards, crash>>
-----------------------------------------------------------------------------
(* What any thread does meanwhile.                                         *)

\* Client code attaches its C++ threads and detaches them again.
Attach(t) ==
  /\ Alive /\ t # Loader /\ t \notin attached
  /\ attached' = attached \cup {t}
  /\ UNCHANGED <<g_cachedJVM, stage, loading, local, global, releasing, crash>>

Detach(t) ==
  /\ Alive /\ t # Loader /\ t \in attached
  /\ attached' = attached \ {t}
  /\ UNCHANGED <<g_cachedJVM, stage, loading, local, global, releasing, crash>>

\* JniClass<C>::get(), where it asserts.
Get(c) ==
  /\ Alive /\ c \in Elements(registrations) \ s_singleton
  /\ crash' = <<"get", c>>
  /\ UNCHANGED <<g_cachedJVM, stage, loading, guards>>

HasThreadEnv(t) == g_cachedJVM /\ t \in attached

\* A guard of either kind is made on the environment of jniGetThreadEnv(), which
\* ends the process on a thread that has none, and so does ~LocalRef.
NewLocalRef(t) ==
  /\ Alive /\ HasThreadEnv(t) /\ t \notin local
  /\ local' = local \cup {t}
  /\ UNCHANGED <<g_cachedJVM, stage, loading, attached, global, releasing, crash>>

DeleteLocalRef(t) ==
  /\ Alive /\ t \in local
  /\ local' = local \ {t}
  /\ crash' = IF HasThreadEnv(t) THEN crash ELSE <<"env", NoRef>>
  /\ UNCHANGED <<g_cachedJVM, stage, loading, attached, global, releasing>>

NewGlobalRef(t, x) ==
  /\ Alive /\ x \in Objects /\ global[x] = "none"
  /\ IF HasThreadEnv(t)
     THEN global' = [global EXCEPT ![x] = "held"] /\ UNCHANGED crash
     ELSE crash' = <<"env", x>> /\ UNCHANGED global
  /\ UNCHANGED <<g_cachedJVM, stage, loading, attached, local, releasing>>

\* getOptThreadEnv reads g_cachedJVM ...
ReadJVM(t, x) ==
  /\ Alive /\ releasing[t] = NoRef
  /\ global[x] = "held" /\ \A u \in Threads : releasing[u] # x
  /\ IF g_cachedJVM
     THEN releasing' = [releasing EXCEPT ![t] = x] /\ UNCHANGED global
     ELSE global' = [global EXCEPT ![x] = "leaked"] /\ UNCHANGED releasing
  /\ UNCHANGED <<g_cachedJVM, stage, registrations, initializers, next, pending, attached, local, crash>>

BeginRelease(t, x) == x \in Objects /\ ReadJVM(t, x) /\ UNCHANGED s_singleton

\* The destructor of s_singleton.
DestroySingleton(t, c) ==
  /\ stage = "exiting" /\ c \in s_singleton
  /\ ReadJVM(t, c)
  /\ s_singleton' = s_singleton \ {c}

\* ... and reads it again to call GetEnv, without asking whether it is still set.
EndRelease(t) ==
  /\ Alive /\ releasing[t] # NoRef
  /\ releasing' = [releasing EXCEPT ![t] = NoRef]
  /\ IF g_cachedJVM
     THEN /\ global' = [global EXCEPT ![releasing[t]] = IF t \in attached THEN "deleted" ELSE "leaked"]
          /\ UNCHANGED crash
     ELSE crash' = <<"release", releasing[t]>> /\ UNCHANGED global
  /\ UNCHANGED <<g_cachedJVM, stage, loading, attached, local>>
-----------------------------------------------------------------------------
Next ==
  \/ JniInit \/ FindClass \/ GetIDs \/ CatchException \/ EndInit \/ JniShutdown \/ BeginExit
  \/ \E c \in Classes : JniClassInitializer(c) \/ Get(c)
  \/ \E t \in Threads :
       \/ Attach(t) \/ Detach(t) \/ NewLocalRef(t) \/ DeleteLocalRef(t) \/ EndRelease(t)
       \/ \E x \in Objects : NewGlobalRef(t, x) \/ BeginRelease(t, x)
       \/ \E c \in Classes : DestroySingleton(t, c)

Spec == Init /\ [][Next]_vars
-----------------------------------------------------------------------------
(* Properties.                                                             *)

Stages == {"unloaded", "initializing", "constructing", "throwing", "loaded", "unloading", "exiting"}

\* The variables have their types.
TypeOK ==
  /\ registrations \in Seq(Classes) /\ initializers \in Seq(Classes)
  /\ g_cachedJVM \in BOOLEAN /\ pending \in BOOLEAN
  /\ stage \in Stages
  /\ next \in 1..(Len(initializers) + 1)
  /\ s_singleton \subseteq Classes /\ attached \subseteq Threads /\ local \subseteq Threads
  /\ global \in [Refs -> {"none", "held", "deleted", "leaked"}]
  /\ releasing \in [Threads -> Refs \cup {NoRef}]
  /\ crash \in ({"none", "get", "env", "release"} \X (Refs \cup {NoRef}))

\* Until the exit the class references in use are those of the initialised
\* classes: a constructor that throws halfway leaves none behind.
NoClassRefLeaks ==
  stage # "exiting" =>
    \A c \in Classes :
      global[c] = "held" <=>
        c \in s_singleton \/ (stage = "constructing" /\ c = initializers[next])

\* No reference leaks on an attached thread of a process that is not shut down.
LeaksOnlyAtTheEnd ==
  [][\A x \in Refs : global[x] = "held" /\ global'[x] = "leaked" =>
       ~g_cachedJVM \/ \E t \in Threads \ attached : releasing[t] = x]_vars

\* When jniInit has run without an exception, every type whose JniClass<T>::get()
\* is used is initialised (the comment on JniClass, "to guarantee that any T for
\* which JniClass<T>::get() is *used* anywhere in the program will be *initialized*").
UsedIsInitialised == stage = "loaded" /\ ~pending => crash[1] # "get"

\* A reference may be released on any thread and at any time: nobody changes
\* g_cachedJVM while another uses it (the comment on g_cachedJVM, "Set only once from
\* JNI_OnLoad before any other JNI calls, so no lock needed").
NoLockNeeded == crash[1] # "release"
=============================================================================
