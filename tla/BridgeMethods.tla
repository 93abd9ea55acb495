---------------------------- MODULE BridgeMethods ----------------------------
(***************************************************************************)
(* What the generated JNI code of gen/cpp converts: for each method of the *)
(* C++-side proxies (C++ calls Java) and for each native method of         *)
(* TestModule (Java calls C++) the kinds of its arguments and result.      *)
(*   plain   a primitive: no reference, and no call into the JVM           *)
(*   string, object, list   a local reference while it crosses             *)
(*   void    no result;   nothing   a result the code drops: return null   *)
(***************************************************************************)
EXTENDS Sequences

Sig(args, result) == [args |-> args, result |-> result]
Reads(key, result) == Sig(<<key>>, result)
Puts(value) == Sig(<<"string", value>>, "void")
Takes(value) == Sig(<<value>>, "void")
Gives(result) == Sig(<<>>, result)

JavascriptMap == [
  hasKey |-> Reads("string", "plain"),      isNull |-> Reads("string", "plain"),
  getBoolean |-> Reads("string", "plain"),  getDouble |-> Reads("string", "plain"),
  getInt |-> Reads("string", "plain"),      getString |-> Reads("string", "string"),
  getArray |-> Reads("string", "object"),   getMap |-> Reads("string", "object"),
  getObject |-> Reads("string", "object"),  getType |-> Reads("string", "nothing"),
  keySetIterator |-> Gives("nothing"),      putNull |-> Takes("string"),
  putBoolean |-> Puts("plain"),  putDouble |-> Puts("plain"),  putInt |-> Puts("plain"),
  putString |-> Puts("string"),  putArray |-> Puts("object"),  putMap |-> Puts("object"),
  putObject |-> Puts("object"),  merge |-> Takes("object") ]

JavascriptArray == [
  size |-> Gives("plain"),
  isNull |-> Reads("plain", "plain"),      getBoolean |-> Reads("plain", "plain"),
  getDouble |-> Reads("plain", "plain"),   getInt |-> Reads("plain", "plain"),
  getString |-> Reads("plain", "string"),  getArray |-> Reads("plain", "object"),
  getMap |-> Reads("plain", "object"),     getObject |-> Reads("plain", "object"),
  getType |-> Reads("plain", "nothing"),   pushNull |-> Gives("void"),
  pushBoolean |-> Takes("plain"),  pushDouble |-> Takes("plain"),  pushInt |-> Takes("plain"),
  pushString |-> Takes("string"),  pushArray |-> Takes("object"),  pushMap |-> Takes("object"),
  pushObject |-> Takes("object"),  append |-> Takes("object") ]

JavascriptPromise == [
  resolveMap |-> Takes("object"),     resolveArray |-> Takes("object"),
  resolveObject |-> Takes("object"),  resolveDouble |-> Takes("plain"),
  resolveInt |-> Takes("plain"),      resolveString |-> Takes("string"),
  resolveNull |-> Gives("void"),      resolveBoolean |-> Takes("plain"),
  reject |-> Puts("string") ]

JavascriptCallback == [invoke |-> Takes("list"), invokeSingleArg |-> Takes("object")]

JavascriptMapKeyIterator == [hasNextKey |-> Gives("plain"), nextKey |-> Gives("string")]

Job == [run |-> Gives("void")]

JobQueue == [poll |-> Gives("object"), interruptPoll |-> Gives("void")]

ReactBridge == [
  createMap |-> Gives("object"),            createArray |-> Gives("object"),
  copyMap |-> Reads("object", "object"),    copyArray |-> Reads("object", "object"),
  emitEventWithMap |-> Puts("object"),      emitEventWithArray |-> Puts("object"),
  createJobDispatcher |-> Reads("object", "object") ]

SigsOf(methods) == {methods[m] : m \in DOMAIN methods}

\* The methods of the C++-side proxies, told apart by what they convert.
Wrappers ==
  SigsOf(JavascriptMap) \cup SigsOf(JavascriptArray) \cup SigsOf(JavascriptPromise)
    \cup SigsOf(JavascriptCallback) \cup SigsOf(JavascriptMapKeyIterator) \cup SigsOf(Job)
    \cup SigsOf(JobQueue) \cup SigsOf(ReactBridge)
-----------------------------------------------------------------------------
\* A native method of TestModule: what it converts, whether it runs code of the
\* Haxe object, and the method of its promise it then calls with the answer.
Native(args, result, haxe, settles) ==
  [args |-> args, result |-> result, haxe |-> haxe, settles |-> settles]
Nobody == Gives("none")

TestModule == [
  create |-> Native(<<"object">>, "object", FALSE, Nobody),
  native_1new |-> Native(<<>>, "void", FALSE, Nobody),
  native_1doSomething |-> Native(<<>>, "void", TRUE, Nobody),
  native_1getValue |-> Native(<<"object">>, "void", TRUE, JavascriptPromise.resolveString),
  native_1setValue |-> Native(<<"string", "object">>, "void", TRUE, JavascriptPromise.resolveString),
  native_1setUpdate |-> Native(<<"object">>, "void", TRUE, Nobody),
  native_1add |-> Native(<<"plain", "plain", "object">>, "void", TRUE, JavascriptPromise.resolveInt),
  native_1testArray |-> Native(<<"object", "object">>, "void", TRUE, JavascriptPromise.resolveArray),
  native_1testMap |-> Native(<<"object", "object">>, "void", TRUE, JavascriptPromise.resolveMap) ]
=============================================================================
