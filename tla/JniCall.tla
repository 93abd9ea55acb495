------------------------------- MODULE JniCall -------------------------------
(***************************************************************************)
(* One Java thread calling back and forth between Java and C++ through the *)
(* generated code: native methods of a module (Java calls C++), methods of *)
(* the C++-side proxies (C++ calls Java), the exceptions that travel over  *)
(* both kinds of boundary, and the local reference frames.  A call into    *)
(* the JVM may leave an exception pending, whatever it is for: no memory,  *)
(* a null where djinni asserts there is none, a class that is missing.     *)
(* The code looks for it at once, but not behind GetStringChars.           *)
(***************************************************************************)
EXTENDS Naturals, FiniteSets, BridgeMethods

CONSTANTS
  Throwables,       \* the Java exceptions that are thrown
  None,
  MaxDepth          \* bound on the stack: a native method needs room for two calls more

ASSUME CallAssumption ==
  /\ {None, "std", "haxe"} \cap Throwables = {} /\ None \notin {"std", "haxe", "RuntimeException"}
  /\ MaxDepth \in Nat \ {0}

VARIABLES
  stack,            \* the calls of the thread, the innermost last
  localFrames,      \* per JNI local frame the references it holds
  pending,          \* the exception pending in the JVM
  unread,           \* history: it is the one GetStringChars left, which nothing looked for
  inflight,         \* the C++ exception being thrown: a Java one, "std" or "haxe"
  current,          \* history: the exception the program is in the throes of
  misuse,           \* history: whose exception was pending when the JVM was called
  ended             \* the process has ended

exceptions == <<pending, unread, inflight, current>>
vars == <<stack, localFrames, exceptions, misuse, ended>>

\* promise: the native frame whose promise the call settles, or 0; frames: the local
\* frames there were before the JVM made one for the native method.
JavaFrame(p) == [code |-> "java", promise |-> p]
WrapperFrame(sig, p) ==
  [code |-> "wrapper", sig |-> sig, at |-> "push", done |-> {}, arg |-> 1, promise |-> p]
NativeFrame(m) ==
  [code |-> "native", sig |-> m, at |-> "args", done |-> {}, arg |-> 1, settled |-> 0,
   frames |-> Len(localFrames)]

Depth == Len(stack)
Top == stack[Depth]
PopOf(s) == SubSeq(s, 1, Len(s) - 1)
Goto(at) == stack' = [stack EXCEPT ![Depth].at = at]
Running == ~ended
InCpp == Running /\ Top.code # "java" /\ inflight = None

Init ==
  /\ stack = <<JavaFrame(0)>>
  /\ localFrames = <<>>
  /\ pending = None /\ unread = FALSE /\ inflight = None /\ current = None
  /\ misuse = {} /\ ended = FALSE

\* A JNI function that may run Java code is legal only while nothing is pending. An
\* assertion that fails throws a java.lang.Error: when that class is not found it aborts,
\* or ThrowNew is called with the exception of FindClass pending.
Culprits == IF pending = None THEN {} ELSE {IF unread THEN "GetStringChars" ELSE "other"}
CallsJvm ==
  \/ misuse' = misuse \cup Culprits /\ UNCHANGED <<pending, unread, current, ended>>
  \/ /\ \E e \in Throwables : pending' = e /\ current' = e /\ unread' = FALSE
     /\ \E culprit \in {{}, {"FindClass"}} : misuse' = misuse \cup Culprits \cup culprit
     /\ ended' \in BOOLEAN

\* The local references of the innermost frame.
Refs(n) == localFrames' = [localFrames EXCEPT ![Len(localFrames)] = n]
Held(kind) == IF kind = "plain" THEN 0 ELSE 1

\* While List::fromCpp runs, the element it adds has a reference too.
Peak(kind) == Held(kind) + IF kind = "list" THEN 1 ELSE 0
-----------------------------------------------------------------------------
(* Mutants.                                                                *)

\* The exception is thrown on without being cleared.
CheckWithoutClear == inflight' = pending /\ UNCHANGED <<pending, unread>>

\* The clauses are swapped: every std::exception becomes a RuntimeException.
AlwaysRuntimeException(e) == "RuntimeException"

\* A failed push is popped all the same.
FrameIsOpenRegardless(f) == TRUE

\* catch (...)
IsAnything(e) == TRUE

\* A std::exception is caught and forgotten.
OnlyThrowables(e) == IF e = "std" THEN None ELSE e
-----------------------------------------------------------------------------
(* The boundary.                                                           *)

JniExceptionCheck ==
  IF pending = None
  THEN UNCHANGED <<pending, unread, inflight>>
  ELSE inflight' = pending /\ pending' = None /\ unread' = FALSE

\* jniUTF8FromString makes a u16string of what GetStringChars returns and looks for no
\* exception. From a null pointer the string is empty, or its constructor throws, or
\* reading through it ends the process: that is the library's choice.
GetStringCharsFails ==
  /\ pending = None
  /\ \E e \in Throwables \cup {None} :
       /\ pending' = e /\ unread' = (e # None)
       /\ \/ current' = e /\ ended' \in BOOLEAN /\ UNCHANGED inflight
          \/ current' = "std" /\ inflight' = "std" /\ UNCHANGED ended

\* jniSetPendingFromCurrent: a jni_exception carries its throwable, any other
\* std::exception is told by a new RuntimeException.
JavaExceptionFor(e) == IF e = "std" THEN "RuntimeException" ELSE e

\* What JNI_TRANSLATE_EXCEPTIONS_RETURN catches: not what Haxe code throws.
IsStdException(e) == e # "haxe"

\* A scope whose constructor throws is not destroyed.
FrameIsOpen(f) == f.at \notin {"push", "pushed"}

-----------------------------------------------------------------------------
(* Java code.                                                              *)

InJava == Running /\ Top.code = "java"

CallNative(m) ==
  /\ InJava /\ pending = None /\ Depth + 3 <= MaxDepth
  /\ stack' = Append(stack, NativeFrame(m))
  /\ localFrames' = Append(localFrames, 0)
  /\ UNCHANGED <<exceptions, misuse, ended>>

\* The Java half of a promise tells React Native, unless it has an object to unwrap:
\* it would call a method that no object has, which throws.
Settle ==
  /\ InJava /\ pending = None /\ Top.promise # 0
  /\ stack[Top.promise].sig.settles.args # <<"object">>
  /\ stack' = [stack EXCEPT ![Top.promise].settled = @ + 1, ![Depth] = JavaFrame(0)]
  /\ UNCHANGED <<localFrames, exceptions, misuse, ended>>

JavaThrow(e) ==
  /\ InJava /\ pending = None
  /\ pending' = e /\ current' = e
  /\ UNCHANGED <<stack, localFrames, unread, inflight, misuse, ended>>

\* The Java half of a promise catches nothing.
JavaCatch ==
  /\ InJava /\ pending # None /\ Top.promise = 0
  /\ pending' = None /\ current' = None
  /\ UNCHANGED <<stack, localFrames, unread, inflight, misuse, ended>>

\* Returns, or ends with the pending exception.
JavaReturn ==
  /\ InJava /\ Depth > 1
  /\ pending = None => Top.promise = 0
  /\ stack' = PopOf(stack)
  /\ UNCHANGED <<localFrames, exceptions, misuse, ended>>
-----------------------------------------------------------------------------
(* C++ code, on both sides of the boundary: arguments, in any order, and results. *)

ConvertArg(i) ==
  LET kind == Top.sig.args[i] IN
  /\ InCpp /\ Top.at = "args" /\ i \in DOMAIN Top.sig.args \ Top.done
  /\ IF kind = "plain"
     THEN /\ stack' = [stack EXCEPT ![Depth].done = @ \cup {i}]
          /\ UNCHANGED <<localFrames, pending, unread, current, misuse, ended>>
     ELSE /\ stack' = [stack EXCEPT ![Depth].at = "arg check", ![Depth].arg = i]
          /\ IF Top.code = "wrapper"
             THEN Refs(localFrames[Len(localFrames)] + Peak(kind)) ELSE UNCHANGED localFrames
          /\ CallsJvm
  /\ UNCHANGED inflight

\* Behind the check a native method reads the characters of a string.
CheckArg ==
  LET kind == Top.sig.args[Top.arg] IN
  /\ InCpp /\ Top.at = "arg check"
  /\ \/ JniExceptionCheck /\ UNCHANGED <<current, ended>>
     \/ Top.code = "native" /\ kind = "string" /\ GetStringCharsFails
  /\ stack' = [stack EXCEPT ![Depth].at = "args", ![Depth].done = @ \cup {Top.arg}]
  /\ IF Top.code = "wrapper"
     THEN Refs(localFrames[Len(localFrames)] - Peak(kind) + Held(kind)) ELSE UNCHANGED localFrames
  /\ UNCHANGED misuse

Converted == Top.at = "args" /\ Top.done = DOMAIN Top.sig.args

\* A proxy method's result comes from Java, a native method's goes there.
ConvertResult ==
  /\ InCpp /\ Top.at = "result"
  /\ Goto("result check")
  /\ CallsJvm
  /\ UNCHANGED <<localFrames, inflight>>

CheckResult ==
  /\ InCpp /\ Top.at = "result check"
  /\ \/ JniExceptionCheck /\ UNCHANGED <<current, ended>>
     \/ Top.code = "wrapper" /\ Top.sig.result = "string" /\ GetStringCharsFails
  /\ Goto("leave")
  /\ UNCHANGED <<localFrames, misuse>>
-----------------------------------------------------------------------------
(* A method of a C++-side proxy.                                           *)

InWrapper == InCpp /\ Top.code = "wrapper"

\* JniLocalScope. PushLocalFrame may be called with an exception pending; when it fails,
\* the constructor of the scope throws what it has left.
PushLocalFrame ==
  /\ InWrapper /\ Top.at = "push"
  /\ \/ Goto("pushed") /\ localFrames' = Append(localFrames, 0) /\ UNCHANGED exceptions
     \/ /\ \E e \in Throwables : inflight' = e /\ current' = e
        /\ pending' = None /\ unread' = FALSE
        /\ UNCHANGED <<stack, localFrames>>
  /\ UNCHANGED <<misuse, ended>>

\* DJINNI_ASSERT(m_success) looks for an exception even if the frame was pushed.
CheckPush ==
  /\ InWrapper /\ Top.at = "pushed"
  /\ JniExceptionCheck
  /\ IF pending = None THEN Goto("args") ELSE UNCHANGED stack
  /\ UNCHANGED <<localFrames, current, misuse, ended>>

CallJava ==
  /\ InWrapper /\ Converted
  /\ stack' = Append([stack EXCEPT ![Depth].at = "called"], JavaFrame(Top.promise))
  /\ misuse' = misuse \cup Culprits
  /\ UNCHANGED <<localFrames, exceptions, ended>>

\* The end of the full expression deletes the arguments' references, of which none
\* needs that nothing be pending; then the exception is looked at.
CheckCall ==
  /\ InWrapper /\ Top.at = "called"
  /\ Refs(IF Top.sig.result = "void" THEN 0 ELSE 1)
  /\ JniExceptionCheck
  /\ Goto(IF Top.sig.result \in {"string", "object"} THEN "result" ELSE "leave")
  /\ UNCHANGED <<current, misuse, ended>>

\* The method returns, or an exception passes through it: ~JniLocalScope.
LeaveWrapper ==
  /\ Running /\ Top.code = "wrapper" /\ (Top.at = "leave" \/ inflight # None)
  /\ stack' = PopOf(stack)
  /\ localFrames' = IF FrameIsOpen(Top) THEN PopOf(localFrames) ELSE localFrames
  /\ UNCHANGED <<exceptions, misuse, ended>>
-----------------------------------------------------------------------------
(* A native method.                                                        *)

InNative == InCpp /\ Top.code = "native"

CallWrapper(sig, p) ==
  /\ UNCHANGED <<localFrames, exceptions, misuse, ended>>
  /\ stack' = Append([stack EXCEPT ![Depth].at = IF p = 0 THEN "args" ELSE "leave"],
                     WrapperFrame(sig, p))

\* The code of the Haxe object calls a proxy that it holds.
HaxeCalls(sig) ==
  /\ InNative /\ Converted /\ Top.sig.haxe
  /\ CallWrapper(sig, 0)

\* TestModule's method throws: what Haxe code threw, or a std::exception, the latter
\* also in asString() on the way from the answer to the promise.
CppThrows(e) ==
  /\ InNative /\ (Converted \/ Top.at = "resolve")
  /\ e = "haxe" => Top.sig.haxe /\ Converted
  /\ inflight' = e /\ current' = e
  /\ UNCHANGED <<stack, localFrames, pending, unread, misuse, ended>>

EndBody ==
  /\ InNative /\ Converted
  /\ Goto(IF Top.sig.settles # Nobody THEN "resolve"
          ELSE IF Top.sig.result = "object" THEN "result" ELSE "leave")
  /\ UNCHANGED <<localFrames, exceptions, misuse, ended>>

Resolve ==
  /\ InNative /\ Top.at = "resolve"
  /\ CallWrapper(Top.sig.settles, Depth)

\* The proxies made for the arguments are released when the method returns and also
\* when an exception leaves it, before the catch clause: ~Handle hashes the Java
\* object in the JVM, and if that throws, in a destructor, the process ends.
DestroysProxies == \E i \in Top.done : Top.sig.args[i] = "object"

UsesJvm == IF DestroysProxies \/ inflight # None THEN Culprits ELSE {}

\* The JVM takes every local frame made since the call; Java sees what is pending.
ReturnToJava ==
  /\ stack' = PopOf(stack)
  /\ localFrames' = SubSeq(localFrames, 1, Top.frames)
  /\ inflight' = None /\ unread' = FALSE
  /\ UNCHANGED ended

\* FindClass or ThrowNew raises another exception than the one it is to make; without
\* the class ThrowNew is called with the exception of FindClass pending.
TranslationFails ==
  /\ inflight = "std"
  /\ pending' \in Throwables \cup ({pending} \ {None}) /\ current' = pending'
  /\ \E culprit \in {{}, {"FindClass"}} : misuse' = misuse \cup UsesJvm \cup culprit

\* A destructor throws, no clause catches the exception, or ThrowNew is given no class.
Dies == DestroysProxies \/ inflight = "std" \/ ~IsStdException(inflight)

LeaveNative ==
  /\ Running /\ Top.code = "native" /\ (Top.at = "leave" \/ inflight # None)
  /\ \/ /\ ReturnToJava /\ IsStdException(inflight)
        /\ \/ /\ pending' = IF inflight = None THEN pending ELSE JavaExceptionFor(inflight)
              /\ misuse' = misuse \cup UsesJvm /\ UNCHANGED current
           \/ TranslationFails
     \/ /\ Dies /\ ended' = TRUE
        /\ misuse' = misuse \cup UsesJvm
        /\ UNCHANGED <<stack, localFrames, exceptions>>
-----------------------------------------------------------------------------
Next ==
  \/ \E m \in SigsOf(TestModule) : CallNative(m)
  \/ Settle \/ JavaCatch \/ JavaReturn
  \/ \E e \in Throwables : JavaThrow(e)
  \/ \E i \in 1..3 : ConvertArg(i)
  \/ CheckArg \/ ConvertResult \/ CheckResult
  \/ PushLocalFrame \/ CheckPush \/ CallJava \/ CheckCall \/ LeaveWrapper
  \/ \E sig \in Wrappers : HaxeCalls(sig)
  \/ \E e \in {"std", "haxe"} : CppThrows(e)
  \/ EndBody \/ Resolve \/ LeaveNative
  \/ ended /\ UNCHANGED vars

Spec == Init /\ [][Next]_vars
-----------------------------------------------------------------------------
(* Properties.                                                             *)

JavaExceptions == Throwables \cup {"RuntimeException"}

\* Only throwables are ever pending in the JVM, and a method's promise is told at
\* most once.
TypeOK ==
  /\ Depth \in 1..MaxDepth
  /\ \A i \in 1..Depth :
       /\ stack[i].code \in {"java", "wrapper", "native"}
       /\ stack[i].code = "native" => stack[i].settled \in {0, 1}
  /\ pending \in JavaExceptions \cup {None} /\ unread \in BOOLEAN
  /\ inflight \in JavaExceptions \cup {None, "std", "haxe"}
  /\ misuse \subseteq {"GetStringChars", "FindClass", "other"} /\ ended \in BOOLEAN

\* The JVM is called with an exception pending in two ways only: nobody looked for the
\* one GetStringChars left, or FindClass did not find the class of what the catch clause
\* or an assertion was to throw. The destructors that run as a C++ exception passes call
\* the JVM, and so does the catch clause: they may because every other exception was
\* cleared before it was thrown.
NoCallWhilePending == misuse \subseteq {"GetStringChars", "FindClass"}

\* However deep Java and C++ call each other, the exception on its way is the last one
\* thrown and not caught; a std::exception arrives as the RuntimeException that stands
\* for it (or as the one the JVM throws while that is made, the last one then). None
\* is lost or made up, and there are two at a time only if one is that of GetStringChars.
ExceptionTravels ==
  LET shown == IF inflight = None THEN pending ELSE inflight IN
  /\ pending # None /\ inflight # None => unread
  /\ Top.code = "java" => inflight = None /\ ~unread
  /\ shown = current \/ (shown = "RuntimeException" /\ current = "std")

\* Has the wrapper at i pushed its local frame?
HasFrame(i) == stack[i].code = "wrapper" /\ stack[i].at # "push"

\* Every local frame is popped once, by the call that pushed it, however that call
\* ends, and no proxy method needs more than the 10 references it asks for. Only the
\* frame of a scope whose constructor throws is left, for the native method's return:
\* an exception was pending before its push.
FramesBalanced ==
  LET held == Cardinality({i \in 1..Depth : stack[i].code = "native" \/ HasFrame(i)}) IN
  /\ Len(localFrames) \in {held, held + 1}
  /\ Len(localFrames) # held => Top.code = "native" /\ inflight # None
  /\ \A i \in DOMAIN localFrames : localFrames[i] \in 0..10

\* A module method that returns has settled its promise exactly once; one whose
\* exception Java sees has settled it at most once (before settling threw).
ReturnsMeanSettled ==
  [][Running /\ Top.code = "native" /\ Len(stack') < Depth =>
       /\ Top.settled \in {0, 1}
       /\ pending' = None => Top.settled = IF Top.sig.settles = Nobody THEN 0 ELSE 1]_vars
=============================================================================
