# Mandolin in TLA+

Mandolin lets a Haxe program be a React Native module. Macros write a Java class and
its C++ counterpart for each module; a support library derived from Djinni carries
objects, strings and exceptions across the JNI boundary; a small runtime written in
Haxe runs jobs on a thread of its own. This directory holds TLA+ models of that
library and runtime, TLC configurations that check them on small instances, and
proofs that TLAPS checks for every value of the constants.

    tlc -config ProxyCache.cfg ProxyCache       # a run; PROJECT.json lists all of them
    tlapm ProxyCacheProofs.tla                  # a proof

`PROJECT.json` says for each definition which lines of `src/` it models, for each run
what it shows, for each property a plausible bug that would break it, and for each
hazard of the code which property watches it. The repository has no tests of its own and
its README explains only how to build; what the parts promise is taken from the code and
its comments.

## 1. Inventory

| Component | Source | State | Operations | What is hard |
|---|---|---|---|---|
| Job queue | `xnative/react/JobQueue.hx` | a list, a mutex, a condition variable | `poll`, `enqueue`, `interruptPoll` | one `notify_one` for two kinds of event, spurious wakeups, the gap between waking and taking |
| Job dispatcher | `xnative/react/JobDispatcher.hx` | `mDestroyed` (plain), a queue | `start`, `quit`, `mRunnable` | a stop flag that is read only between polls, stale reads, jobs that throw, a second `start` |
| Job | `xnative/react/Job.hx` | a `std::function` | `run` | none of its own |
| Proxy cache | `helpers/proxy_cache_*.hpp` | a map of weak references, a mutex; handles | `get`, `remove`, `~Handle` | expiry without the lock, late destructors, reused addresses, exceptions under the lock |
| JNI interfaces | `helpers/djinni_support.hpp` | per-interface class and method ids | `newCppProxy`, `_toJava`, `_fromJava` | four cases by owner and by type |
| Classes, `jniInit` | `helpers/djinni_support.cpp`, `djinni_main.cpp` | a registry of initialisers, the VM pointer, the singletons | register, `jniInit`, `jniShutdown`, `get` | registration after the loop's copy, an initialiser that throws, destructors against shutdown |
| Exceptions, references | `helpers/djinni_support.*` | local and global references, the pending exception | check, throw, translate, scope | which call may be made while an exception is pending |
| UTF conversion | `helpers/djinni_support.cpp` | none (a loop's place) | four conversions | ill-formed input, surrogates, boundaries |
| Marshalling | `helpers/Marshal.hpp` | none | primitives, boxes, optionals, containers | widths, null, mutation while iterating |
| JavaScript values | `helpers/JavascriptObjectImpl.*` | a tagged union, a bridge | construct, copy, destroy, read, `asHaxeObject` | tag against active member, containers shared with Java, a walk over what others change |
| Bridge wrappers | `xnative/react/Javascript*.hx`, `MandolinReact.hx`, `ReactBridge.hx` | a React Native object each | resolve, reject, call, iterate, push and put, `wrap`, `unwrap` | a promise settled exactly once, values copied by their type |
| Generated modules | `gen/` | a native handle, a `destroyed` flag | the module's methods, `finalize` | destruction against use, exceptions between call and answer |
| Code generators | `macros/*.hx` | files and type tables at compile time | generate Java and C++ | two generators that must agree |
| Object serializer | `xnative/react/MandolinObject.hx` | none | none | none |

How they interact. JavaScript calls a generated Java method, which calls its native
half; that half marshals the arguments, obtains proxies from a proxy cache, calls the
Haxe module and settles a promise. A module may hand work to a dispatcher, which takes
it from its queue on a Java thread attached to the VM. There are two proxy caches, one
for each direction, and both are reached from any thread: from calls, and from
destructors that the collector or a reference count runs. Strings cross by the UTF
conversions. A Java exception is found by a check after the JNI call (but for `GetStringChars`) and becomes a C++
exception; the generated methods turn C++ exceptions back.

What makes each component correct:

* queue: a FIFO, no lost wakeup, and no answer without a job;
* dispatcher: every job begins once, in order with one worker; the backlog drains; `quit` stops it;
* proxy cache: of one object the other side never reaches two proxies; an entry never outlives
  the object it is filed under; a late destructor never evicts a new proxy; no call keeps the mutex;
* JNI interfaces and modules: the handle of a proxy is released once, after its last use;
* `jniInit`: each class is initialised once, before use, or the failure is seen; no class reference leaks;
* reference guards: dropping one is safe on any thread and after the shutdown;
* exceptions: none is lost, replaced or outlived by a JNI call that may not follow it;
* UTF: text survives a round trip; damage stays where it is; what is written is well-formed;
* marshalling and JavaScript values: no value changes its meaning, the tag says which member lives;
* generators: both sides have the same methods, names and types.

`hazards` in PROJECT.json lists where in the code each of these can go wrong.

## 2. What is modelled

### Job queue: `JobFifo`, `JobQueue`, `MCJobQueue`, `JobQueueProofs`

`JobQueue` has one action per statement of `poll` (`PollEnter`, `TestPredicate`,
`Reacquire`, `Front`, `PopFront`, `PollReturn`), of `enqueue` (`EnqueueEnter`,
`PushBack`, `NotifyOne`, `Unlock`) and of `interruptPoll` (`InterruptEnter`, then the last
two). `pc[t]` is the thread's place and `mMutex` the holder of the lock.
`condition_variable::wait` frees the mutex and sleeps in one step, may wake for nothing
(`SpuriousWakeup`), and looks at its predicate again with the mutex held. `submitted` and
`taken` are history variables. `JobFifo` is the abstract specification, a list with
`Accept` and `Deliver`; `ImplementsFifo` is the refinement, with the locks hidden.

`NoLostWakeup` is the statement about `notify_one` that matters: while any thread sleeps,
the threads on their way to the list are at least as many as the jobs in it.
`PollReturnsJob` says that the `return nullptr` of `poll` is dead code: the predicate of
`wait` does not know of `interruptPoll`.

### Dispatcher: `JobDispatcher`, `JobDispatcherProofs`

Extends `JobQueue`: a worker's place in `mRunnable` is `loop[w]`, and the calls it makes are
the queue's own actions, so all interleavings of the statements remain. `start` may make
several workers, since nothing in the code remembers the first. `mDestroyed` is not volatile:
a worker may read the value that its creation made visible or the present one
(`TestDestroyed`). `quit` is two steps, the write and the call of `interruptPoll`. Jobs are
client code: their thread may enqueue and quit; a job in `Throwing` ends its thread.

`QuitCannotStopWorker` states what the code does, not what the name `quit` suggests: the
call wakes a worker, whose `wait` sees an empty list and sleeps again. Only a worker that has
not yet polled sees `mDestroyed`.

### Proxy cache: `ProxyIdentity`, `ProxyCache`, `ProxyCacheProofs`

`ProxyCache` models the code shared by both caches. A proxy owns a handle (`handle`, `key`),
the handle owns the impl; `cache` maps a type tag and an address to a weak reference, whose
state is `weak`. `get` is a chain of steps under the mutex (`Get`, `Find`, `Alloc`,
`Emplace`, `Return`), each with the exception it may end in: before there is a handle
(`ThrowEarly`), while `get` still owns the handle (`ThrowWithHandle`), and after the proxy has
taken it (`ThrowOrphan`). `Expire` needs no lock: the collector and the reference count clear
weak references when they like. `~Handle` is `Remove` and then `ReleaseImpl`. An address is
given to a new object as soon as nobody owns the old one (`Create`), which is what makes a
stale entry dangerous. `Unwrap` is a proxy that comes home.

The hash map, the hasher and type erasure are abstracted: a key is a pair, and equality of keys
is the caches' equality of tag and identity. One cache of one direction is modelled; the two
share no state.

The abstract specification is `ProxyIdentity`: of an object the other side knows at most one
proxy, and a proxy stands for at most one object. `OneProxyPerImpl` is the refinement.

### UTF conversion: `Utf`, `UtfCrossing`, `UtfProofs`

`Utf` has the decoders and encoders as operators, with shifts and masks as quotients and
remainders, and as reference the rows of well-formed sequences of the Unicode Standard
(tables 3-6 and 3-7), which contain no arithmetic on codepoints. `UtfCrossing` runs a
string through one of the four functions, one turn of the loop at a time, and then back through
its counterpart. Strings are any sequences of units. `behind` is the unit in memory past the end:
NUL for a `std::string` and for the copy that `jniUTF8FromString` makes, anything for the array
that `jniWStringFromString` reads. `wchar_t` has 32 bits; where it has 16 the functions copy.

### Classes and reference guards: `JniRuntime`, `MCJniRuntime`, `JniRuntimeProofs`

The process-wide state of `djinni_support.cpp`. `registrations` is the vector that the static
initialisers of `JniClass` append to; a library may be loaded at any time, so
`JniClassInitializer` is enabled at any time, also while `jniInit` runs, and the loop goes over
the copy `initializers`. A class is initialised in two steps, since its description is:
`FindClass` obtains the global reference of `clazz`, `GetIDs` the method ids behind it, and
either may throw. `CatchException` is the `catch` of `jniInit`, which is behind the loop: the
classes after the one that threw are never initialised, Java sees an exception, and
`JNI_OnLoad` returns success. `Get` is the assertion of `JniClass::get`.

Two comments say more than this code keeps, and each has a run that is expected to fail.
`JniClass` guarantees that any type whose `get()` is used is initialised (`UsedIsInitialised`):
the classes that register after `jniInit` has copied the vector are not. `g_cachedJVM` is said
to need no lock since it is set only once (`NoLockNeeded`): `jniShutdown` sets it again. What does
hold of the first is a theorem: the classes in use are a prefix of those in the copy, all of
them if no constructor threw (`InitIsPrefix`).

A `GlobalRef` may be dropped by any thread. `getOptThreadEnv` reads `g_cachedJVM`, a plain
global, twice: `ReadJVM` is the first read, `EndRelease` the second with the deletion behind
it, and `JniShutdown` may come between them, which is the violation of `NoLockNeeded`.
`LeaksOnlyAtTheEnd` says when a reference is given up instead of deleted. `LocalRef` and the making of a
reference use the environment that must be there; a detached thread, or one after the
shutdown, ends the process.

### Calls across the boundary: `BridgeMethods`, `JniCall`, `JniCallProofs`

`BridgeMethods` is the table of the generated code: for each method of the eight
wrapped interfaces and each native method of `TestModule` the kinds of its arguments and
its result, whether it runs Haxe code, and which method of the promise it then calls.
The generated functions all have one of two shapes, and `JniCall` models the shapes.

`stack` holds the calls of one Java thread. A native method converts its arguments in any order
(`ConvertArg`, `CheckArg`), runs the Haxe body, which may call proxies (`HaxeCalls`) or throw
(`CppThrows`), then calls its promise (`Resolve`) or converts its result. A proxy method pushes a
local frame (`PushLocalFrame`, `CheckPush`), converts, calls Java (`CallJava`), looks at the exception
(`CheckCall`) and pops the frame (`LeaveWrapper`). Java code may call a native method again, throw,
catch, return, or settle the promise it was called for. Every call into the JVM may leave an
exception `pending` (`CallsJvm`), also by an assertion that fails, which calls the JVM to make a `java.lang.Error`;
`inflight` is the C++ exception on its way, `current` the history of what was thrown last.

A check follows each call but one. `jniUTF8FromString` looks for no exception behind `GetStringChars`
(`GetStringCharsFails`): what it left stays pending (`unread`) while C++ goes on with an empty string, throws a
`std::exception` from the string's constructor, or reads through the null pointer, as the library has it. `LeaveNative` is
the translation at the boundary. A `jni_exception` is thrown in Java again; for any other `std::exception` the catch
clause calls `FindClass` and `ThrowNew`, which may raise another exception (`TranslationFails`), and when the class is not
found `ThrowNew` is called without one. A `haxe` throw, which is no `std::exception`, ends the process, as does an exception
in the destructor of a proxy (`Dies`).

`misuse` records whose exception was pending when the JVM was called. It is the hazard of this kind of code:
destructors run while exceptions pass, and the catch clause calls the JVM. `NoCallWhilePending` says that there are two
culprits only, `GetStringChars` and a `FindClass` that failed, in the catch clause or in an assertion. `ExceptionTravels` says that
the last exception thrown is the one on its way, whichever of these happens, and that two are there at a time only when
`GetStringChars` left one. `FramesBalanced` has one exception: when the unread exception meets `JniLocalScope`, the
assertion of its constructor throws although the frame was pushed, and nobody pops it before the native method returns.

`Settle` is the Java half of a promise. A number or a string goes to React Native; for an array or a map it calls
`MandolinReact.unwrap`, whose `getWriteableArray` and `getWriteableMap` no class has (they are called
`getWritable...`), so that the promises of `testArray` and `testMap` are never settled and Java throws.

The table gives the calls as they were written, so it has what the generator got wrong and the
model can express: results that are dropped with `return null` (`getType`, `keySetIterator`), and
modules that never call `reject`.

### Collections: `Marshal`, `MCMarshal`, `MarshalProofs`

`toCpp` reads `size()` and then asks so often for `get(i)` or the iterator's next element, while
another Java thread may change the collection (`ChangeList`, `ChangeSet`, `ChangeMap`). `Turn` is
one turn of the loop with the conversion of its element, `TurnThrows` an index out of bounds or
an iterator that fails fast or is at its end. The iterators of `HashMap` and `HashSet` notice
changes only at best effort, and then give anything that was in the collection; the one
of an `EnumSet` gives what it had. `ConvertBack` is `fromCpp`. The elements are those of
`Marshal.hpp` whose conversion does something: bytes become unsigned, dates are multiplied into
ticks and divided back, enums and optionals, and objects with or without each kind of proxy
class, which are the cases of `JniInterface::_fromJava` and `_toJava`.
Calls of `ArrayList` and `HashMap` are atomic: what such a class does when two threads are
inside it at once is Java's affair.

`refs` counts the local references that one call holds. `RefsBounded` has one exception, which
is what the code does: `_fromJava` leaves the result of `GetObjectClass` undeleted for each element.

### JavaScript values: `JavascriptValue`, `MCJavascriptValue`, `JavascriptValueProofs`

`obj[o]` is a value with its tag `mType`, the union's live member and its content. Values are held by
C++ code (`handles`), by the Java objects that stand for them (`java`) and by the call of `asHaxeObject`
(`walk`); `LetGo` is the destructor, of whoever is the last to let go. Containers are held by C++ code (`mine`) and by
values, and `uses` is their `use_count`. The constructors store what the code stores: numbers pass through a double,
and a number that comes from Haxe through `(bool)`, so that only whether it is zero is left (`ReadBack`), which is what
`TestModule.add` resolves its promise with. A Haxe `String` leaves `mType` unset: the model takes any tag, and
destructors and accessors may then touch a member that was never constructed. `mBridge` is set by no constructor, and is
dereferenced by the copy constructor and for Haxe objects and arrays; a Haxe null is dereferenced for its type before
it is compared with null. Those end the process.

A container holds no values. `pushObject` and `putObject` (`Push`, `PutAgain`) ask the value for its type and copy what the
accessor of that type answers (`Copied`) into the React Native object; for an array or a map they call `unwrap`, which throws.
`getObject` has `wrap` make a new value from what is there (`Fetch`). The Java object of a value that was pushed keeps it
until Java's collector comes (`Finalize`). The Java collector frees a container that nobody uses (`Collected`).

`asHaxeObject` of an array reads the size once, then takes one new element per turn (`GetElement`) and stores
it (`StoreElement`); `xarr` is a pointer to one array, so that from the second element on the store may end the process. Every
call of the walk may throw, which leaves it as its return does (`LeaveWalk`). For a map there is no walk: the generated
`keySetIterator` returns null, which the loop dereferences (`WalkMap`).

## 3. The runs

| Run | Instance | Shows |
|---|---|---|
| `JobQueue` | four threads, two jobs, three enqueues, symmetric threads | types, no null job, no lost wakeup, FIFO |
| `JobDispatcher` | a client, two workers, a job that throws, two enqueues | jobs neither lost nor repeated, order, `quit`, draining |
| `ProxyCache` | two threads, two tags, two addresses, three proxies, all failures | the cache's safety and its refinement; calls return, handles and entries go |
| `ProxyCacheUnwind` | two threads, one key, two proxies, failure `unwind` | violation: the exception never leaves `get` |
| `UtfCrossing` | all strings of up to four units over 12 bytes, 6 UTF-16 units, 7 wide units | text survives, damage does not spread |
| `UtfOverread` | strings of up to two units | violation: the decoder leaves the string |
| `JniRuntime` | three symmetric classes, one object, three threads, all orders of loading | no class reference leaks, references are given up only at the end |
| `JniRuntimeLate` | two classes, two threads | violation: a class in use that nobody initialises |
| `JniRuntimeShutdown` | two classes, one object, two threads | violation: `g_cachedJVM` changes between two reads |
| `JniCall` | stacks of up to seven calls, two throwables, all signatures | the last exception arrives, calls with one pending in two ways only, frames balanced, promises settled |
| `Marshal` | collections of up to two elements, two changes, integers and ticks from -4 to 3 | nothing invented, undisturbed collections exact and returned, references bounded |
| `JavascriptValue` | two addresses, an array and a map, up to two copies in them | counts, lifetimes, what accessors give back |

Bounds. `MaxEnqueues` limits the calls of `enqueue`; three jobs and four threads allow two
sleepers, a notifier and a thread that takes the job first, the smallest case in which a
wakeup goes to the wrong thread. `Proxies` limits the proxies ever created; an eviction by a
late destructor takes two proxies of one key, and the third is of a second key at the same or a reused address. `MaxLen` is four since the longest sequence has four
bytes; the sample bytes are the two ends of each class of the decoder's tests and
of the table's rows, and those that make an overlong form and an encoded surrogate.

Three classes let an initialiser throw with one class before it and one behind; three threads are
the loader, one that releases and one that detaches. `MaxDepth` of seven is Java, module, proxy, Java,
and the same three calls again, so that an exception can pass from a nested module method through Java code
that may replace it to the outer one; the stack goes no deeper (`CallNative` asks for room for three).
A collection of two, changed twice, lets an element be taken, removed and another one appear under a running
iterator; `Half` and `Scale` are small so that dates overflow and bytes wrap. In
`JavascriptValue` two addresses are a value and what was copied from it, or an array under `asHaxeObject` and its element, and two
copies (`MaxItems`) are the elements behind the first of one array, or one in each container; `Int32Bits` of 3 and `Mantissa`
of 8 put the integer 3 at the edge of the width, the long 9 between two doubles and beyond the integers, and the double
-7 is one that loses its half as an integer. The constants of these
modules only bound the instance: the code's widths are named beside their declarations.

Deadlock is checked for the queue, the dispatcher and `JniCall`, whose only end is that of the process (`ended`).
It is not for the cache, where a behaviour stops when the bounded supply of proxies is used up, or a thread waits
for itself, which is what `ProxyCacheUnwind` shows as a temporal property; nor for UTF and `Marshal`, where a
conversion ends, nor for `JniRuntime` and `JavascriptValue`, where the process may end.

Fairness. The queue is checked for safety without any. `JobDispatcher`: a worker that
can run does (weak fairness), a thread that wants the mutex obtains it when it becomes free again
and again (strong: `std::mutex` does not promise it but the platforms' mutexes do not starve a
waiter for ever), and a job ends after finitely many calls. No fairness makes a client call
anything. `ProxyCache`: a thread inside `get` goes on, and a destructor whose turn has come ends;
the finalizer does run, and `HandlesGo` and `EntriesGo` speak of the time after the last `get`, when nothing
competes for the mutex. A thread that unwinds under the lock has no step to be fair to: `CallsReturn` leaves it
out, and `ProxyCacheUnwind` shows it. The other modules are checked for safety and assume none.

Four runs find disagreements (`findings` in PROJECT.json):

* `newCppProxy` may throw while `get` holds the mutex and a `unique_ptr` holds the handle; unwinding
  destroys the handle, whose destructor locks the same mutex. The thread waits for itself for ever.
* `utf16_decode_check` reads the unit after a high surrogate without knowing where the string ends.
* A class that a library registers after `jniInit` has copied the registry is used and never initialised, although the
  comment on `JniClass` guarantees it.
* `jniShutdown` changes `g_cachedJVM` between the two reads of a thread that releases a reference, although the comment on it
  says that it is set only once and needs no lock.

## 4. The proofs

All theorems hold for any finite or infinite sets and any bounds that satisfy the modules'
named assumptions (`QueueAssumption`, `DispatcherAssumption`, `CacheAssumption`, `UtfAssumption`, `RuntimeAssumption`,
`CallAssumption`, `MarshalAssumption`, `JavascriptValueAssumption`: special values outside the sets they are
special to, finitely many threads and values, samples made of units and in the range of their type, a stack with room
for a call, a mantissa that holds every int). Every safety property of a passing run is stated by a theorem, action
properties and refinements included.

* `JobQueueProofs`. `QueueInv` adds to the types who holds the mutex (`Holding`) and what a
  thread inside knows (`Locals`: the job in hand is the head of the list, and the list is not empty). Without
  them a pop could meet an empty list, so neither the types nor `PollReturnsJob` is inductive.
  `NoLostWakeup` is preserved by counting: each step moves at most one thread in or
  out of `Coming`, and whenever the list grows a thread is at `notify`. From it follow
  `QueueTypes`, `PollAlwaysReturnsJob`, `WakeupsSuffice`, the refinement `QueueImplementsFifo`
  and `NothingLostOrInvented` (pushed = popped followed by the list).
* `JobDispatcherProofs`. `DispatcherInv` is `QueueInv` and a relation between the places of a worker in
  `mRunnable` and in `poll`; `QuitStopsNoWorker` follows. Every behaviour of the dispatcher is
  one of the queue (`DispatcherImplementsQueue`), so the queue's own theorems hold with the workers, the
  jobs and `quit` in play (`QueueHoldsUnderDispatcher`). `SingleWorkerKeepsOrder` adds that
  only workers poll and that the jobs begun are those taken, but for one in hand. `NoJobIsLost` counts: the
  occurrences of a job in `submitted` are those in the list, in the workers' hands and in what was begun
  (`Balanced`). It is inductive only with what `QueueInv` knows of the job in hand, and each step moves one
  occurrence from one of the places to the next (`PushBackBalance`, `PopFrontBalance`, `BeginJobBalance`).
* `ProxyCacheProofs`. `CacheInv` adds the locking discipline, that a handle belongs to a created
  proxy, that an entry is filed under its proxy's key and owned by it, and that a reachable proxy is
  cached. The last two need each other: a proxy can be handed out only from an entry or fresh, and an
  entry is dropped only when its proxy has expired. All five safety properties of the run follow, and the
  refinement `CacheKeepsIdentity`.
* `UtfProofs`. The four forms of UTF-8 and the pair of UTF-16 are inverted by the decoders
  (`Utf8RoundTrip`, `Utf16RoundTrip`). `CrossInv` is types, the reserved length and validity of what is
  written; the types are needed for concatenation and the decoders' results (`Turn8`, `Turn16`) for the
  other two. `NativeTextAlwaysValid` and `ReserveIsEnough` follow, and `DamageHidesNothing` from the fact
  that all a decoder consumes beyond the first unit begins no sequence. `JavaTextAlwaysValid` is a fact about one
  turn (`SurrogateSeen`: three bytes that encode a surrogate are the only way to one).
  `TextComesBack` needs the longest argument. Where a row of the table matches, some scalar value is spelt
  (`RowSpells`), and a decoder reads what is spelt whatever stands beside it (`SpellingRead`). `TextInv` keeps, on the way
  there, that the loop cuts no row of the text (`NoRowCut`, from `TurnPassesNothing`) and that one sequence of
  codepoints is spelt by what was consumed and by the result (`SpeltThere`); on the way back, that the loop is at the
  place of one of them and that the result is the text before it (`SpeltBack`). The sequence grows with the
  loop, so the induction is that over the steps and none over the string is needed.
  `OnlyOneReadsBeyond` says where the over-read that the run `UtfOverread` finds cannot happen: a NUL behind
  the string stops the three other functions on every string.
* `JniRuntimeProofs`. `RuntimeInv` adds to the properties where the loop of `jniInit` stands (`Places`: before
  it nothing is initialised, an exception is pending only behind it), that each class is registered once (`Once`),
  without which a second initialisation would leave a reference uncounted, and that a reference being released
  is held, by one thread (`Releases`), without which the second read could delete what is gone. `InitIsPrefix`,
  `ClassRefsAreOwned` and `LeaksAreAtTheEnd` follow, for any number of classes, objects and threads.
* `JniCallProofs`. `CallInv` and `FramesInv` are inductive together, at any depth and for any table of methods: nothing
  looks into `BridgeMethods`. `StackShape` says that frames alternate Java, module, proxy, Java. `Pending` says where an
  exception may be pending: where the code looks for one next, or anywhere in a native method and up to the push of a
  proxy method's frame if it is the one that `GetStringChars` left (`unread`). This is why a call of the JVM meets no
  other: when a call returns, the shape tells which frame is innermost then and that it looks next, and what `unread`
  adds is cleared by the next look and does not outlive the native method. `Promises` says that a promise is settled by the
  Java frame two above its method and by no other, and `Answers` that a proxy method past its call has settled it, or an
  exception is on its way. `NeverCalledWhilePending`, `ExceptionsTravel` and `ReturnsSettle` follow. `FramesInv` counts the
  local frames: one for each C++ call below the innermost (`Lower`), and the innermost one's if it has pushed it
  (`TopFramed`), which an exception on its way out or a failed push decides; one more is there only when the scope's constructor
  threw what `GetStringChars` had left, until the native method returns. It bounds what a proxy method's frame holds
  by the arguments converted, at most three. From it follows `FramesAreBalanced`.
* `MarshalProofs`. `MarshalInv` holds for collections of any length, any width of integers and any number of changes.
  `Seen` says that what can be given next was in the collection, which the collection of the moment need not
  show; `Split` that while nothing has changed the iterator divides the collection into what it has yet to give
  and what `c` stands for, so that nothing is left when the count is reached, and that a map's keys do not collide.
  `ElementBack` inverts each conversion (`ByteBack`, `DateBack`, `InterfaceBack`), and with it all four properties of the run follow.

* `JavascriptValueProofs`. `Lives` says that the memory of a value is what its constructor, or a copy of what it made, left there
  (`Made`), which tells the destructor's member; that what is in a container is a copy of a scalar (`Types`); that a count is the
  number of holders (`Counted`), from which a container that a value owns is in use and not collected (`OwnedIsUsed`); that a
  value exists as long as it is held (`Kept`), for the destructor and the count go in one step (`GoneIsCounted`, `LetGoKeeps`);
  and that the walk stays within its array (`WalkFits`), without which it would make a value of what is not there.
  `ValuesAreOwnedOnce` follows. `ValuesComeBack` adds the arithmetic of rounding to a mantissa and of truncation
  (`NearestIsNear`, `TruncatedHalves`) for any widths in which a double holds every int.

Only model-checked: the liveness properties (`BacklogDrains`, `CallsReturn`, `HandlesGo` and `EntriesGo`), since the prover
does not reach liveness under fairness or ENABLED; and the four violations, which are behaviours that TLC exhibits.

## 5. The plan

Done, in the order of their consequence: the queue and its dispatcher, the cache, UTF, the runtime, calls across the
boundary, collections, JavaScript values; and the proofs of the safety properties of the passing runs. Left, in this order:

| Work | Composes | Would show |
|---|---|---|
| `JniInterface` over both caches | `ProxyCache` twice, the cases of `Marshal` | an object that makes a round trip under collection is itself and not a proxy of its proxy |
| The answer of a module method | `JavascriptValue`, `JniCall` | which answers `fromHaxe` and the accessors let through to the promise |

No module that is proved about uses a RECURSIVE operator.

## 6. Not modelled

The build files and vendored libraries hold none of the program's logic, and `MandolinObject.hx` has no
operation. The code generators build strings at compile time and keep no state: where their two type tables disagree the
result does not compile, which the committed output in `gen/` shows (`Bool:toCpp`, `::::JavaProxy`, an empty argument,
`return null`, two namespaces). The models follow what the generated code means where it does not compile.
Of the Java classes behind the bridge wrappers, the promise and the creating, writing and reading of arrays and maps are
modelled, with what `wrap` and `unwrap` make of a value; for the rest they are what Java code may do in `JniCall`:
callbacks, events, `append` and `merge`, which copy whole containers, and React Native itself, which is outside the
repository. The containers of `JavascriptValue` are filled by `pushObject` and `putObject` alone: an array in an array, which only
JavaScript can send, is not met there. The caches' two directions share no state and one is modelled. The `EXPERIMENTAL_AUTO_CPP_THREAD_ATTACH` variant is not built. Constructors that only store method
ids, the formatting of messages and the 16-bit variant of `wchar_t`, which copies units, are left out.

Facts about the code that the models do not need or cannot show: `JNIPrefix` ends in an underscore (`ReactModuleCpp.hx:107`)
and line 121 adds another before `nativeDestroy`, so that the JVM does not find the function (`NativeTestModule.cpp:12`),
`finalize()` throws `UnsatisfiedLinkError`, and a collected proxy never releases its C++ object; `ProxyCache` assumes a
destructor that is found. `jniFindClass` passes the null of a failed `FindClass` to `NewGlobalRef` before it looks at
the exception (`djinni_support.cpp:209`), a call with one pending that happens only while classes are initialised, outside
`JniCall`. `TestModule` never rejects a promise. Methods that return primitives are called with `CallObjectMethod`; the Java
side declares `native_init` where C++ defines `native_1new`; `TestModule.ref` is never assigned; `asHaxeObject`
returns the address of a local variable.
