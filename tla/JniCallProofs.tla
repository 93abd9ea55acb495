---------------------------- MODULE JniCallProofs ----------------------------
(***************************************************************************)
(* Theorems about JniCall, for any depth of the stack, any exceptions and  *)
(* any table of methods: nothing here looks into BridgeMethods.            *)
(*                                                                         *)
(* What is known of the exception depends on where the innermost call      *)
(* stands (Pending), and stays known when a call returns because the       *)
(* frames alternate Java, native, wrapper, Java (StackShape). The one that *)
(* GetStringChars leaves is known to be pending nowhere but in a native    *)
(* method, or in a proxy method before its scope or behind its result.     *)
(* A promise is settled by the call two frames above its method, and by no *)
(* other. The local frames are as many as the C++ calls below the          *)
(* innermost one, and that one's own if it has pushed it (Counted).        *)
(***************************************************************************)
EXTENDS JniCall, FiniteSetTheorems, SequenceTheorems, TLAPS

\* Whatever the tables hold.
Signatures == Wrappers \cup SigsOf(TestModule) \cup {m.settles : m \in SigsOf(TestModule)}

BeforeCall == {"push", "pushed", "args", "arg check"}
JavaFrames == [code : {"java"}, promise : Nat]
WrapperFrames ==
  [code : {"wrapper"}, sig : Signatures, at : BeforeCall \cup {"called", "result", "result check", "leave"},
   done : SUBSET Nat, arg : Nat, promise : Nat]
NativeFrames ==
  [code : {"native"}, sig : SigsOf(TestModule),
   at : {"args", "arg check", "resolve", "result", "result check", "leave"},
   done : SUBSET Nat, arg : Nat, settled : {0, 1}, frames : Nat]
Frames == JavaFrames \cup WrapperFrames \cup NativeFrames

\* C++ runs over Java, a proxy method over a module method, Java over a proxy
\* method that is in its call.
Stands(i) ==
  /\ stack[i].code = "java" => stack[i-1].code = "wrapper" /\ stack[i-1].at = "called"
  /\ stack[i].code = "wrapper" => stack[i-1].code = "native"
  /\ stack[i].code = "native" => stack[i-1].code = "java"

StackShape ==
  /\ stack \in Seq(Frames) /\ Depth >= 1 /\ stack[1].code = "java"
  /\ \A i \in 2..Depth : Stands(i)

\* An exception is pending in Java code or where the code looks for one next; the one
\* that nobody looked for stays in native methods until a scope finds it.
CheckIsNext(f) == f.code = "java" \/ f.at \in {"arg check", "called", "result check"}
MayBeUnread(f) == f.code = "native" \/ (f.code = "wrapper" /\ f.at \in {"push", "pushed", "leave"})

Pending ==
  /\ pending # None => IF unread THEN MayBeUnread(Top) ELSE inflight = None /\ CheckIsNext(Top)
  /\ unread \in BOOLEAN /\ (unread => pending # None)
  /\ ExceptionTravels
  /\ misuse \subseteq {"GetStringChars", "FindClass"}
  /\ pending \in JavaExceptions \cup {None} /\ inflight \in JavaExceptions \cup {None, "std", "haxe"}

\* An exception is on its way, or will be when the code looks for it.
Throwing == inflight # None \/ (pending # None /\ ~unread)

\* A module method with a promise settles it last, through the two frames above.
Promises(i) ==
  /\ stack[i].code = "native" =>
       /\ i + 2 <= MaxDepth
       /\ stack[i].at # "leave" => stack[i].settled = 0
       /\ stack[i].at = "resolve" => stack[i].sig.settles # Nobody
       /\ stack[i].at \in {"result", "result check"} => stack[i].sig.settles = Nobody
  /\ stack[i].code = "wrapper" /\ stack[i].promise # 0 =>
       /\ i > 1 /\ stack[i].promise = i - 1
       /\ stack[i-1].at = "leave" /\ stack[i-1].sig.settles # Nobody
       /\ stack[i].at \in BeforeCall => stack[i-1].settled = 0
  /\ stack[i].code = "java" /\ stack[i].promise # 0 =>
       /\ i > 2 /\ stack[i].promise = i - 2 /\ stack[i-1].promise = i - 2
       /\ stack[i-2].settled = 0

\* Past its call a promise's method has settled, or an exception is on its way.
Answers(i) ==
  /\ stack[i].code = "wrapper" /\ stack[i].promise # 0 /\ stack[i].at \notin BeforeCall =>
       \/ stack[i-1].settled = 1
       \/ i = Depth /\ Throwing
       \/ i < Depth /\ stack[i+1].promise # 0
  /\ stack[i].code = "native" /\ stack[i].at = "leave" =>
       IF stack[i].sig.settles = Nobody THEN stack[i].settled = 0
       ELSE \/ stack[i].settled = 1
            \/ i = Depth /\ inflight # None
            \/ i < Depth /\ stack[i+1].promise # 0

CallInv ==
  /\ StackShape /\ Pending
  /\ \A i \in 1..Depth : Promises(i) /\ Answers(i)
-----------------------------------------------------------------------------
\* One item of a sequence is replaced.
LEMMA ItemReplaced ==
  ASSUME NEW S, NEW s \in Seq(S), NEW n \in Nat, n = Len(s), NEW i \in 1..n, NEW e \in S
  PROVE  /\ [s EXCEPT ![i] = e] \in Seq(S) /\ Len([s EXCEPT ![i] = e]) = n
         /\ \A j \in 1..n : [s EXCEPT ![i] = e][j] = IF j = i THEN e ELSE s[j]
OBVIOUS

\* How the stack changes: its last frame is replaced, taken away, or covered.
LEMMA FrameReplaced ==
  ASSUME StackShape, NEW f \in Frames, stack' = [stack EXCEPT ![Depth] = f]
  PROVE  /\ stack' \in Seq(Frames) /\ Depth' = Depth
         /\ \A i \in 1..Depth : stack'[i] = IF i = Depth THEN f ELSE stack[i]
BY DEF StackShape, Depth

\* The frame that is put in its place is the last one then.
LEMMA TopReplaced ==
  ASSUME StackShape, NEW f \in Frames, stack' = [stack EXCEPT ![Depth] = f]
  PROVE  Top' = f
<1>1. Depth' = Depth /\ \A i \in 1..Depth : stack'[i] = IF i = Depth THEN f ELSE stack[i]
  BY FrameReplaced
<1>2. Depth \in 1..Depth
  BY DEF StackShape, Depth
<1> QED
  BY <1>1, <1>2 DEF Top

\* Without its last frame the stack is one shorter and the same below.
LEMMA FramePopped ==
  ASSUME StackShape, Depth > 1, stack' = PopOf(stack)
  PROVE  /\ stack' \in Seq(Frames) /\ Depth' = Depth - 1
         /\ \A i \in 1..(Depth - 1) : stack'[i] = stack[i]
BY DEF StackShape, Depth, PopOf

\* The last frame changes and another one covers it.
LEMMA FramePushed ==
  ASSUME StackShape, NEW f \in Frames, NEW g \in Frames,
         stack' = Append([stack EXCEPT ![Depth] = f], g)
  PROVE  /\ stack' \in Seq(Frames) /\ Depth' = Depth + 1
         /\ \A i \in 1..Depth : stack'[i] = IF i = Depth THEN f ELSE stack[i]
         /\ stack'[Depth + 1] = g
<1> DEFINE s == [stack EXCEPT ![Depth] = f]
<1>1. /\ s \in Seq(Frames) /\ Len(s) = Depth /\ Depth \in Nat \ {0}
      /\ \A i \in 1..Depth : s[i] = IF i = Depth THEN f ELSE stack[i]
  BY DEF StackShape, Depth
<1>2. stack' = Append(s, g)
  OBVIOUS
<1> HIDE DEF s
<1>3. /\ Append(s, g) \in Seq(Frames) /\ Len(Append(s, g)) = Depth + 1
      /\ \A i \in 1..Depth : Append(s, g)[i] = s[i]
      /\ Append(s, g)[Depth + 1] = g
  BY <1>1
<1>4. Depth' = Len(Append(s, g))
  BY <1>2 DEF Depth
<1> QED
  BY <1>1, <1>2, <1>3, <1>4

\* The frames of the three kinds.
LEMMA FrameKinds ==
  ASSUME NEW f \in Frames
  PROVE  /\ f.code \in {"java", "wrapper", "native"}
         /\ f.code = "java" => f \in JavaFrames
         /\ f.code = "wrapper" => f \in WrapperFrames
         /\ f.code = "native" => f \in NativeFrames
BY DEF Frames, JavaFrames, WrapperFrames, NativeFrames
-----------------------------------------------------------------------------
\* A thread begins in Java code, with nothing thrown and nothing to settle.
LEMMA CallStart == Init => CallInv
<1> SUFFICES ASSUME Init PROVE CallInv
  OBVIOUS
<1>1. stack = <<JavaFrame(0)>> /\ Depth = 1 /\ stack[1] = JavaFrame(0)
  BY DEF Init, Depth
<1>2. JavaFrame(0) \in Frames /\ JavaFrame(0).code = "java" /\ JavaFrame(0).promise = 0
  BY DEF JavaFrame, Frames, JavaFrames
<1>3. StackShape
  BY <1>1, <1>2 DEF StackShape
<1>4. Pending
  BY <1>1, <1>2 DEF Init, Pending, Top, ExceptionTravels, JavaFrame
<1>5. Promises(1) /\ Answers(1)
  BY <1>1, <1>2 DEF Promises, Answers
<1> QED
  BY <1>1, <1>3, <1>4, <1>5 DEF CallInv

\* The innermost C++ frame goes to another place.
Moved(f, at) ==
  /\ f \in Frames /\ f.code = Top.code /\ f.sig = Top.sig /\ f.at = at
  /\ f.code = "wrapper" => f.promise = Top.promise
  /\ f.code = "native" => f.settled = Top.settled /\ f.frames = Top.frames

\* Where it may go: to its call it comes through CallJava alone, and a module method
\* that settles a promise does so before it leaves.
MayMove(at) ==
  /\ Top.code = "wrapper" =>
       (at \in BeforeCall <=> Top.at \in BeforeCall)
  /\ Top.code = "native" =>
       /\ Top.at # "leave"
       /\ at = "resolve" => Top.sig.settles # Nobody
       /\ at \in {"result", "result check", "leave"} => Top.sig.settles = Nobody

\* A move that takes no exception away keeps what is known of every frame.
LEMMA TopMoves ==
  ASSUME CallInv, Pending', Top.code # "java", inflight = None, NEW at, NEW f, Moved(f, at),
         MayMove(at), stack' = [stack EXCEPT ![Depth] = f],
         Throwing => Throwing'
  PROVE  CallInv'
<1>1. /\ stack' \in Seq(Frames) /\ Depth' = Depth /\ f \in Frames
      /\ \A i \in 1..Depth : stack'[i] = IF i = Depth THEN f ELSE stack[i]
  BY FrameReplaced DEF Moved, CallInv
<1>2. Depth \in Nat \ {0} /\ stack[1].code = "java" /\ \A i \in 2..Depth : Stands(i)
  BY DEF CallInv, StackShape, Depth
<1>3. Depth > 1 /\ stack'[1] = stack[1]
  BY <1>1, <1>2 DEF Top
<1>4. stack'[Depth] = f /\ f.code = stack[Depth].code
  BY <1>1, <1>2 DEF Moved, Top
<1>5. ASSUME NEW i \in 2..Depth PROVE Stands(i)'
  <2>1. Stands(i) /\ stack'[i-1] = stack[i-1] /\ stack'[i].code = stack[i].code
    BY <1>1, <1>2, <1>4, <1>5
  <2> QED
    BY <2>1 DEF Stands
<1>6. ASSUME NEW i \in 1..Depth PROVE Promises(i)' /\ Answers(i)'
  <2>1. Promises(i) /\ Answers(i)
    BY DEF CallInv
  <2>2. CASE i = Depth
    <3>1. stack'[i-1] = stack[i-1] /\ stack'[i-2] = stack[i-2] /\ stack'[i] = f
      BY <1>1, <1>2, <1>3, <2>2
    <3>2. CASE f.code = "wrapper"
      <4>1. f.promise = stack[i].promise /\ stack[i].code = "wrapper"
        BY <1>4, <2>2, <3>2 DEF Moved, Top
      <4>2. f.at \in BeforeCall <=> stack[i].at \in BeforeCall
        BY <2>2, <4>1 DEF Moved, MayMove, Top
      <4>3. Throwing => Throwing'
        OBVIOUS
      <4>4. Promises(i)'
        BY <2>1, <3>1, <3>2, <4>1, <4>2 DEF Promises
      <4>5. Answers(i)'
        BY <1>1, <2>1, <2>2, <3>1, <3>2, <4>1, <4>2, <4>3 DEF Answers
      <4> QED
        BY <4>4, <4>5
    <3>3. CASE f.code = "native"
      BY <1>1, <1>4, <2>1, <2>2, <3>1, <3>3 DEF Promises, Answers, Moved, MayMove, Top
    <3> QED
      BY <1>4, <3>2, <3>3, FrameKinds, <1>1 DEF Top
  <2>3. CASE i < Depth
    <3>1. stack'[i] = stack[i] /\ i + 1 \in 2..Depth /\ i \in Nat
      BY <1>1, <1>2, <2>3
    <3>2. stack'[i-1] = stack[i-1] /\ stack'[i-2] = stack[i-2]
      BY <1>1, <1>2, <2>3
    <3>3. Promises(i)'
      BY <2>1, <3>1, <3>2 DEF Promises
    <3>4. stack[i].code # "java" => stack'[i+1].promise = stack[i+1].promise
      <4>1. Stands(i + 1) /\ (i + 1) - 1 = i
        BY <1>2, <3>1
      <4>2. stack[i+1].code = "native" => stack[i].code = "java"
        BY <4>1 DEF Stands
      <4>3. i + 1 # Depth => stack'[i+1] = stack[i+1]
        BY <1>1, <3>1
      <4>4. i + 1 = Depth => stack'[i+1] = f /\ f.code = stack[i+1].code /\ f.code # "java"
        BY <1>4 DEF Top
      <4>5. f.code = "wrapper" => f.promise = stack[Depth].promise
        BY DEF Moved, Top
      <4> QED
        BY <4>2, <4>3, <4>4, <4>5, FrameKinds, <1>1
    <3>5. Answers(i)'
      BY <1>1, <1>2, <2>1, <2>3, <3>1, <3>2, <3>4 DEF Answers
    <3> QED
      BY <3>3, <3>5
  <2> QED
    BY <1>2, <2>2, <2>3
<1> QED
  BY <1>1, <1>2, <1>3, <1>5, <1>6 DEF CallInv, StackShape

\* What is known of the innermost frame.
LEMMA TopFacts ==
  ASSUME CallInv
  PROVE  /\ Top \in Frames /\ Depth \in Nat \ {0} /\ (Top.code # "java" => Depth > 1)
         /\ Promises(Depth) /\ Answers(Depth) /\ Top = stack[Depth]
<1>1. StackShape /\ \A i \in 1..Depth : Promises(i) /\ Answers(i)
  BY DEF CallInv
<1>2. Depth \in Nat \ {0} /\ stack[Depth] \in Frames /\ stack[1].code = "java"
  BY <1>1 DEF StackShape, Depth
<1> QED
  BY <1>1, <1>2 DEF Top

\* C++ code that is not about to look for an exception runs with none, or with the one
\* of GetStringChars; a proxy method runs with none once it has its frame.
LEMMA NonePending ==
  ASSUME CallInv, Top.code # "java", Top.at \notin {"arg check", "called", "result check"}
  PROVE  /\ pending # None => unread /\ MayBeUnread(Top)
         /\ inflight = None => ~Throwing
BY DEF CallInv, Pending, CheckIsNext, Throwing

\* The JVM is called with no exception pending but that one.
LEMMA CallsJvmUnread ==
  ASSUME Pending, inflight = None, pending # None => unread, CallsJvm
  PROVE  /\ misuse' \subseteq {"GetStringChars", "FindClass"} /\ unread' \in BOOLEAN
         /\ pending' \in JavaExceptions \cup {None} /\ (unread' => unread /\ pending' # None)
         /\ pending' = current' \/ (pending' = "RuntimeException" /\ current' = "std")
<1>1. /\ pending = current \/ (pending = "RuntimeException" /\ current = "std")
      /\ pending \in JavaExceptions \cup {None}
  BY DEF Pending, ExceptionTravels
<1>2. unread \in BOOLEAN /\ (unread => pending # None) /\ misuse \subseteq {"GetStringChars", "FindClass"}
  BY DEF Pending
<1>3. misuse' \subseteq {"GetStringChars", "FindClass"}
  <2>1. Culprits \subseteq {"GetStringChars"}
    BY Zenon DEF Culprits
  <2>2. CASE misuse' = misuse \cup Culprits
    BY <1>2, <2>1, <2>2
  <2>3. ASSUME NEW culprit \in {{}, {"FindClass"}}, misuse' = misuse \cup Culprits \cup culprit
        PROVE  misuse' \subseteq {"GetStringChars", "FindClass"}
    BY <1>2, <2>1, <2>3
  <2> QED
    BY <2>2, <2>3 DEF CallsJvm
<1>4. CASE UNCHANGED <<pending, unread, current>>
  BY <1>1, <1>2, <1>3, <1>4
<1>5. CASE \E e \in Throwables : pending' = e /\ current' = e /\ unread' = FALSE
  BY <1>3, <1>5 DEF JavaExceptions
<1> QED
  BY <1>4, <1>5 DEF CallsJvm

\* The code calls the JVM and will look for what that has left.
LEMMA TopCallsJvm ==
  ASSUME CallInv, Top.code # "java", inflight = None, pending # None => unread /\ Top.code = "native",
         inflight' = inflight, CallsJvm,
         NEW at \in {"arg check", "result check"}, NEW f, Moved(f, at), MayMove(at),
         stack' = [stack EXCEPT ![Depth] = f]
  PROVE  CallInv'
<1>1. Top' = f /\ f.code = Top.code
  BY TopReplaced DEF Moved, CallInv
<1>2. CheckIsNext(f)
  BY DEF Moved, CheckIsNext
<1>3. /\ misuse' \subseteq {"GetStringChars", "FindClass"} /\ unread' \in BOOLEAN
      /\ pending' \in JavaExceptions \cup {None} /\ (unread' => unread /\ pending' # None)
      /\ pending' = current' \/ (pending' = "RuntimeException" /\ current' = "std")
  BY CallsJvmUnread DEF CallInv
<1>4. unread' => MayBeUnread(f)
  <2>1. unread => Top.code = "native"
    BY DEF CallInv, Pending
  <2> QED
    BY <1>1, <1>3, <2>1 DEF MayBeUnread
<1>5. Pending'
  <2>1. ExceptionTravels'
    BY <1>1, <1>3 DEF ExceptionTravels
  <2>2. inflight' = None
    OBVIOUS
  <2> QED
    BY <1>1, <1>2, <1>3, <1>4, <2>1, <2>2 DEF Pending
<1>6. ~Throwing
  BY DEF Throwing
<1> QED
  BY <1>5, <1>6, TopMoves

\* The code looks for an exception, and goes on or throws it.
LEMMA TopChecks ==
  ASSUME CallInv, Top.code # "java", inflight = None, JniExceptionCheck, UNCHANGED <<current, misuse>>,
         NEW at, NEW f, Moved(f, at), MayMove(at), stack' = [stack EXCEPT ![Depth] = f]
  PROVE  CallInv'
<1>1. Top' = f /\ f.code = Top.code
  BY TopReplaced DEF Moved, CallInv
<1>2. pending' = None /\ inflight' = pending /\ unread' = FALSE
  BY DEF JniExceptionCheck, CallInv, Pending
<1>3. Pending'
  BY <1>1, <1>2 DEF CallInv, Pending, ExceptionTravels
<1>4. Throwing => Throwing'
  BY <1>2 DEF Throwing
<1> QED
  BY <1>3, <1>4, TopMoves

\* The code reads a string, and goes on or throws, or leaves what is pending unread.
LEMMA TopReads ==
  ASSUME CallInv, Top.code # "java", inflight = None, GetStringCharsFails, UNCHANGED misuse,
         NEW at, NEW f, Moved(f, at), MayMove(at), stack' = [stack EXCEPT ![Depth] = f],
         MayBeUnread(f)
  PROVE  CallInv'
<1>1. Top' = f /\ f.code = Top.code
  BY TopReplaced DEF Moved, CallInv
<1>2. PICK e \in Throwables \cup {None} :
        /\ pending' = e /\ unread' = (e # None)
        /\ \/ current' = e /\ inflight' = None
           \/ current' = "std" /\ inflight' = "std"
  BY DEF GetStringCharsFails
<1>3. ExceptionTravels'
  BY <1>1, <1>2, CallAssumption DEF ExceptionTravels
<1>4. Pending'
  BY <1>1, <1>2, <1>3 DEF CallInv, Pending, JavaExceptions
<1>5. ~Throwing
  BY DEF Throwing, GetStringCharsFails
<1> QED
  BY <1>4, <1>5, TopMoves

\* The frames stay, and what an exception stands for.
LEMMA StackKept ==
  ASSUME CallInv, Pending', UNCHANGED stack,
         \/ UNCHANGED <<pending, unread, inflight>>
         \/ Top.code = "java"
         \/ Top.code = "native" /\ Top.at # "leave"
         \/ Top.code = "wrapper" /\ Top.at \in BeforeCall
  PROVE  CallInv'
<1>1. StackShape' /\ Depth' = Depth
  BY DEF CallInv, StackShape, Stands, Depth
<1>2. ASSUME NEW i \in 1..Depth PROVE Promises(i)' /\ Answers(i)'
  <2>1. Promises(i) /\ Answers(i)
    BY DEF CallInv
  <2>2. Promises(i)'
    BY <2>1 DEF Promises
  <2>3. Answers(i)'
    BY <1>1, <2>1 DEF Answers, Top, Throwing
  <2> QED
    BY <2>2, <2>3
<1> QED
  BY <1>1, <1>2 DEF CallInv

\* A frame that has gone to another place.
CanBeAt(f, x) ==
  /\ f.code = "wrapper" => x \in BeforeCall \cup {"called", "result", "result check", "leave"}
  /\ f.code = "native" => x \in {"args", "arg check", "resolve", "result", "result check", "leave"}

\* What ConvertArg, CheckArg and Goto put in the place of the last frame is that
\* frame, moved.
LEMMA MovedFrame ==
  ASSUME CallInv, Top.code # "java", NEW x, CanBeAt(Top, x), NEW d \in SUBSET Nat, NEW a \in Nat, NEW g,
         \/ g = [Top EXCEPT !.at = x]
         \/ g = [Top EXCEPT !.at = x, !.done = d]
         \/ g = [Top EXCEPT !.at = x, !.arg = a]
         \/ g = [Top EXCEPT !.done = d] /\ x = Top.at
  PROVE  Moved(g, x)
<1> DEFINE f == Top
<1>1. f \in Frames /\ f.code # "java" /\ CanBeAt(f, x)
  BY TopFacts
<1>2. /\ f.code \in {"wrapper", "native"}
      /\ f.code = "wrapper" => f \in WrapperFrames
      /\ f.code = "native" => f \in NativeFrames
  BY <1>1, FrameKinds
<1>3. \/ g = [f EXCEPT !.at = x]
      \/ g = [f EXCEPT !.at = x, !.done = d]
      \/ g = [f EXCEPT !.at = x, !.arg = a]
      \/ g = [f EXCEPT !.done = d] /\ x = f.at
  OBVIOUS
<1> HIDE DEF f
<1>4. CASE f.code = "wrapper"
  BY <1>1, <1>2, <1>3, <1>4 DEF CanBeAt, Moved, Frames, WrapperFrames, f
<1>5. CASE f.code = "native"
  BY <1>1, <1>2, <1>3, <1>5 DEF CanBeAt, Moved, Frames, NativeFrames, f
<1> QED
  BY <1>2, <1>4, <1>5

\* The arguments that the innermost C++ frame has converted are numbered.
LEMMA TopDone ==
  ASSUME CallInv, Top.code # "java"
  PROVE  Top.done \in SUBSET Nat /\ Top.arg \in Nat
<1>1. Top \in WrapperFrames \/ Top \in NativeFrames
  BY TopFacts, FrameKinds
<1> QED
  BY <1>1 DEF WrapperFrames, NativeFrames
-----------------------------------------------------------------------------
\* Arguments and results.
LEMMA ConvertArgStep == ASSUME CallInv, NEW i \in 1..3, ConvertArg(i) PROVE CallInv'
<1>1. /\ Top.code # "java" /\ inflight = None /\ Top.at = "args" /\ inflight' = inflight
  BY DEF ConvertArg, InCpp
<1>2. (pending # None => unread /\ Top.code = "native") /\ ~Throwing
  BY <1>1, NonePending DEF MayBeUnread
<1>3. i \in Nat /\ Top.done \cup {i} \in SUBSET Nat
  BY <1>1, TopDone
<1>4. CASE Top.sig.args[i] = "plain"
  <2> DEFINE f == [Top EXCEPT !.done = @ \cup {i}]
  <2>1. stack' = [stack EXCEPT ![Depth] = f] /\ UNCHANGED <<pending, unread, current, misuse>>
    BY <1>4 DEF ConvertArg, Top
  <2>2. Moved(f, "args")
    BY <1>1, <1>3, MovedFrame DEF CanBeAt, BeforeCall
  <2>3. MayMove("args")
    BY <1>1 DEF MayMove
  <2> HIDE DEF f
  <2>4. Top' = f /\ f.code = Top.code
    BY <2>1, <2>2, TopReplaced DEF Moved, CallInv
  <2>5. Pending'
    BY <1>1, <1>2, <2>1, <2>4 DEF CallInv, Pending, ExceptionTravels, MayBeUnread
  <2> QED
    BY <1>1, <1>2, <2>1, <2>2, <2>3, <2>5, TopMoves
<1>5. CASE Top.sig.args[i] # "plain"
  <2> DEFINE f == [Top EXCEPT !.at = "arg check", !.arg = i]
  <2>1. stack' = [stack EXCEPT ![Depth].at = "arg check", ![Depth].arg = i] /\ CallsJvm
    BY <1>5 DEF ConvertArg
  <2>2. stack \in Seq(Frames) /\ Depth \in DOMAIN stack
    BY DEF CallInv, StackShape, Depth
  <2>3. stack' = [stack EXCEPT ![Depth] = f]
    BY <2>1, <2>2 DEF Top
  <2>4. Moved(f, "arg check")
    BY <1>1, <1>3, MovedFrame DEF CanBeAt, BeforeCall
  <2>5. MayMove("arg check")
    BY <1>1 DEF MayMove, BeforeCall
  <2> QED
    BY <1>1, <1>2, <2>1, <2>3, <2>4, <2>5, TopCallsJvm
<1> QED
  BY <1>4, <1>5

\* The check behind an argument throws what converting it raised, or goes on.
LEMMA CheckArgStep == ASSUME CallInv, CheckArg PROVE CallInv'
<1>1. /\ Top.code # "java" /\ inflight = None /\ Top.at = "arg check" /\ UNCHANGED misuse
      /\ \/ JniExceptionCheck /\ UNCHANGED current
         \/ Top.code = "native" /\ GetStringCharsFails
      /\ stack' = [stack EXCEPT ![Depth].at = "args", ![Depth].done = @ \cup {Top.arg}]
  BY DEF CheckArg, InCpp
<1> DEFINE f == [Top EXCEPT !.at = "args", !.done = Top.done \cup {Top.arg}]
<1>2. stack \in Seq(Frames) /\ Depth \in DOMAIN stack
  BY DEF CallInv, StackShape, Depth
<1>3. stack[Depth].at = "arg check" /\ stack[Depth].code # "java" /\ Top \in Frames
  BY <1>1, TopFacts DEF Top
<1>4. stack' = [stack EXCEPT ![Depth] = f]
  BY <1>1, <1>2, <1>3 DEF Top
<1>5. Moved(f, "args")
  BY <1>1, TopDone, MovedFrame DEF CanBeAt, BeforeCall
<1>6. MayMove("args")
  BY <1>1 DEF MayMove, BeforeCall
<1> HIDE DEF f
<1>7. CASE JniExceptionCheck /\ UNCHANGED current
  BY <1>1, <1>4, <1>5, <1>6, <1>7, TopChecks
<1>8. CASE Top.code = "native" /\ GetStringCharsFails
  <2>1. MayBeUnread(f)
    BY <1>5, <1>8 DEF Moved, MayBeUnread
  <2> QED
    BY <1>1, <1>4, <1>5, <1>6, <1>8, <2>1, TopReads
<1> QED
  BY <1>1, <1>7, <1>8

\* So it is with a result.
LEMMA ResultStep == ASSUME CallInv, ConvertResult \/ CheckResult PROVE CallInv'
<1>1. CASE ConvertResult
  <2> DEFINE f == [Top EXCEPT !.at = "result check"]
  <2>1. /\ Top.code # "java" /\ inflight = None /\ Top.at = "result" /\ inflight' = inflight
        /\ CallsJvm /\ stack' = [stack EXCEPT ![Depth] = f]
    BY <1>1 DEF ConvertResult, InCpp, Goto, Top
  <2>2. pending # None => unread /\ Top.code = "native"
    BY <2>1, NonePending DEF MayBeUnread
  <2>3. Moved(f, "result check")
    BY <2>1, MovedFrame DEF CanBeAt
  <2>4. MayMove("result check")
    BY <2>1, TopFacts DEF MayMove, BeforeCall, Promises
  <2> QED
    BY <2>1, <2>2, <2>3, <2>4, TopCallsJvm
<1>2. CASE CheckResult
  <2> DEFINE f == [Top EXCEPT !.at = "leave"]
  <2>1. /\ Top.code # "java" /\ inflight = None /\ Top.at = "result check" /\ UNCHANGED misuse
        /\ \/ JniExceptionCheck /\ UNCHANGED current
           \/ Top.code = "wrapper" /\ GetStringCharsFails
        /\ stack' = [stack EXCEPT ![Depth] = f]
    BY <1>2 DEF CheckResult, InCpp, Goto, Top
  <2>2. Moved(f, "leave")
    BY <2>1, MovedFrame DEF CanBeAt
  <2>3. MayMove("leave")
    BY <2>1, TopFacts DEF MayMove, BeforeCall, Promises
  <2> HIDE DEF f
  <2>4. CASE JniExceptionCheck /\ UNCHANGED current
    BY <2>1, <2>2, <2>3, <2>4, TopChecks
  <2>5. CASE Top.code = "wrapper" /\ GetStringCharsFails
    <3>1. MayBeUnread(f)
      BY <2>2, <2>5 DEF Moved, MayBeUnread
    <3> QED
      BY <2>1, <2>2, <2>3, <2>5, <3>1, TopReads
  <2> QED
    BY <2>1, <2>4, <2>5
<1> QED
  BY <1>1, <1>2
-----------------------------------------------------------------------------
\* A frame keeps what is known of its promise while it and the two below it stay.
LEMMA SamePromises ==
  ASSUME NEW i \in Nat \ {0}, Promises(i), stack'[i] = stack[i],
         i > 1 => stack'[i-1] = stack[i-1], i > 2 => stack'[i-2] = stack[i-2]
  PROVE  Promises(i)'
<1>1. CASE stack[i].code = "native"
  BY <1>1 DEF Promises
<1>2. CASE stack[i].code = "wrapper"
  BY <1>2 DEF Promises
<1>3. CASE stack[i].code = "java"
  BY <1>3 DEF Promises
<1>4. CASE stack[i].code \notin {"native", "wrapper", "java"}
  BY <1>4 DEF Promises
<1> QED
  BY <1>1, <1>2, <1>3, <1>4

\* A frame keeps what it has answered while the frames above and below it stay.
LEMMA SameAnswers ==
  ASSUME NEW i \in Nat \ {0}, Promises(i), Answers(i), Depth \in Nat, Depth' \in Nat, i < Depth, i < Depth',
         stack'[i] = stack[i], i > 1 => stack'[i-1] = stack[i-1],
         stack[i].code # "java" => stack'[i+1].promise = stack[i+1].promise
  PROVE  Answers(i)'
<1>1. CASE stack[i].code = "native"
  BY <1>1 DEF Answers
<1>2. CASE stack[i].code = "wrapper"
  BY <1>2 DEF Answers, Promises
<1>3. CASE stack[i].code \notin {"native", "wrapper"}
  BY <1>3 DEF Answers
<1> QED
  BY <1>1, <1>2, <1>3

\* A call is covered by the one it makes: what is known of the frames below it
\* stays true.
LEMMA Covered ==
  ASSUME CallInv, NEW f \in Frames, NEW g \in Frames,
         stack' = Append([stack EXCEPT ![Depth] = f], g),
         f.code = Top.code, f.code # "native" => f.promise = Top.promise,
         g.code = "java" => f.code = "wrapper" /\ f.at = "called",
         g.code = "wrapper" => f.code = "native",
         g.code = "native" => f.code = "java"
  PROVE  /\ StackShape' /\ Depth' = Depth + 1 /\ Top' = g
         /\ \A i \in 1..Depth : stack'[i] = IF i = Depth THEN f ELSE stack[i]
         /\ stack'[Depth + 1] = g
         /\ \A i \in 1..(Depth - 1) : Promises(i)' /\ Answers(i)'
<1>1. /\ stack' \in Seq(Frames) /\ Depth' = Depth + 1
      /\ \A i \in 1..Depth : stack'[i] = IF i = Depth THEN f ELSE stack[i]
      /\ stack'[Depth + 1] = g
  BY FramePushed DEF CallInv
<1>2. /\ Depth \in Nat \ {0} /\ stack[1].code = "java" /\ \A i \in 2..Depth : Stands(i)
      /\ f.code = stack[Depth].code
      /\ stack[Depth].code # "native" => f.promise = stack[Depth].promise
  BY DEF CallInv, StackShape, Depth, Top
<1>3. ASSUME NEW i \in 2..(Depth + 1) PROVE Stands(i)'
  <2>1. CASE i = Depth + 1
    <3>1. stack'[i] = g /\ stack'[i-1] = f
      BY <1>1, <1>2, <2>1
    <3> QED
      BY <3>1 DEF Stands
  <2>2. CASE i # Depth + 1
    <3>1. Stands(i) /\ i \in 1..Depth /\ i - 1 \in 1..Depth /\ i - 1 # Depth
      BY <1>2, <2>2
    <3>2. stack'[i].code = stack[i].code /\ stack'[i-1] = stack[i-1]
      BY <1>1, <1>2, <3>1
    <3> QED
      BY <3>1, <3>2 DEF Stands
  <2> QED
    BY <2>1, <2>2
<1>4. StackShape'
  BY <1>1, <1>2, <1>3 DEF StackShape
<1>5. ASSUME NEW i \in 1..(Depth - 1) PROVE Promises(i)' /\ Answers(i)'
  <2>1. Promises(i) /\ Answers(i) /\ Stands(i + 1) /\ (i + 1) - 1 = i
    BY <1>2 DEF CallInv
  <2>2. /\ stack'[i] = stack[i] /\ i \in Nat \ {0} /\ i < Depth /\ i < Depth'
        /\ i > 1 => stack'[i-1] = stack[i-1]
        /\ i > 2 => stack'[i-2] = stack[i-2]
    BY <1>1, <1>2
  <2>3. stack[i].code # "java" => stack'[i+1].promise = stack[i+1].promise
    <3>1. stack[i+1].code = "native" => stack[i].code = "java"
      BY <2>1 DEF Stands
    <3>2. i + 1 # Depth => stack'[i+1] = stack[i+1]
      BY <1>1, <1>2
    <3>3. i + 1 = Depth => stack'[i+1] = f
      BY <1>1, <1>2
    <3> QED
      BY <1>2, <3>1, <3>2, <3>3
  <2>4. Promises(i)'
    BY <2>1, <2>2, SamePromises
  <2>5. Depth \in Nat /\ Depth' \in Nat
    BY <1>1, <1>2
  <2>6. Answers(i)'
    BY <2>1, <2>2, <2>3, <2>5, SameAnswers
  <2> QED
    BY <2>4, <2>6
<1>6. Top' = g
  BY <1>1 DEF Top
<1> QED
  BY <1>1, <1>4, <1>5, <1>6

\* ... and the invariant, once the two frames on top are looked at.
LEMMA CoveredInv ==
  ASSUME CallInv, Pending', StackShape', NEW d \in Nat, d = Depth, Depth' = d + 1,
         \A i \in 1..(d - 1) : Promises(i)' /\ Answers(i)',
         Promises(d)', Answers(d)', Promises(d + 1)', Answers(d + 1)'
  PROVE  CallInv'
<1>1. ASSUME NEW i \in 1..(d + 1) PROVE Promises(i)' /\ Answers(i)'
  <2>1. i \in 1..(d - 1) \/ i = d \/ i = d + 1
    OBVIOUS
  <2> QED
    BY <2>1
<1> QED
  BY <1>1 DEF CallInv

\* When a call ends, what is known of the frames below it stays true, but for what
\* the frame that is now on top has answered.
LEMMA Uncovered ==
  ASSUME CallInv, Depth > 1, stack' = PopOf(stack)
  PROVE  /\ StackShape' /\ Depth' = Depth - 1 /\ Top' = stack[Depth - 1] /\ Stands(Depth)
         /\ \A i \in 1..(Depth - 1) : stack'[i] = stack[i]
         /\ \A i \in 1..(Depth - 1) : Promises(i)'
         /\ \A i \in 1..(Depth - 2) : Answers(i)'
<1>1. /\ stack' \in Seq(Frames) /\ Depth' = Depth - 1
      /\ \A i \in 1..(Depth - 1) : stack'[i] = stack[i]
  BY FramePopped DEF CallInv
<1>2. /\ Depth \in Nat \ {0} /\ stack[1].code = "java" /\ \A i \in 2..Depth : Stands(i)
  BY DEF CallInv, StackShape, Depth
<1>3. ASSUME NEW i \in 2..(Depth - 1) PROVE Stands(i)'
  <2>1. i \in 1..(Depth - 1) /\ i - 1 \in 1..(Depth - 1) /\ i \in 2..Depth
    BY <1>2
  <2>2. stack'[i] = stack[i] /\ stack'[i-1] = stack[i-1]
    BY <1>1, <2>1
  <2>3. Stands(i)
    BY <1>2, <2>1
  <2> QED
    BY <2>2, <2>3 DEF Stands
<1>4. StackShape'
  BY <1>1, <1>2, <1>3 DEF StackShape
<1>5. ASSUME NEW i \in 1..(Depth - 1) PROVE Promises(i)'
  <2>1. Promises(i) /\ i \in Nat \ {0}
    BY <1>2 DEF CallInv
  <2>2. stack'[i] = stack[i]
    BY <1>1
  <2>3. i > 1 => stack'[i-1] = stack[i-1]
    BY <1>1, <1>2
  <2>4. i > 2 => stack'[i-2] = stack[i-2]
    BY <1>1, <1>2
  <2> QED
    BY <2>1, <2>2, <2>3, <2>4, SamePromises
<1>6. ASSUME NEW i \in 1..(Depth - 2) PROVE Answers(i)'
  <2>1. /\ Promises(i) /\ Answers(i) /\ i \in Nat \ {0} /\ Depth \in Nat /\ Depth' \in Nat
        /\ i < Depth' /\ i < Depth
    BY <1>1, <1>2 DEF CallInv
  <2>2. stack'[i] = stack[i] /\ stack'[i+1] = stack[i+1]
    BY <1>1, <1>2
  <2>3. i > 1 => stack'[i-1] = stack[i-1]
    BY <1>1, <1>2
  <2> QED
    BY <2>1, <2>2, <2>3, SameAnswers
<1>7. Top' = stack[Depth - 1] /\ Stands(Depth)
  BY <1>1, <1>2 DEF Top
<1> QED
  BY <1>1, <1>4, <1>5, <1>6, <1>7
-----------------------------------------------------------------------------
\* A method of a proxy.
LEMMA PushStep == ASSUME CallInv, PushLocalFrame \/ CheckPush PROVE CallInv'
<1>1. CASE PushLocalFrame
  <2>1. /\ Top.code = "wrapper" /\ inflight = None /\ Top.at = "push" /\ UNCHANGED misuse
        /\ \/ /\ stack' = [stack EXCEPT ![Depth] = [Top EXCEPT !.at = "pushed"]]
              /\ UNCHANGED <<pending, unread, inflight, current>>
           \/ /\ UNCHANGED stack /\ pending' = None /\ unread' = FALSE
              /\ \E e \in Throwables : inflight' = e /\ current' = e
    BY <1>1 DEF PushLocalFrame, InWrapper, InCpp, Goto, Top, exceptions
  <2>2. (pending # None => unread) /\ ~Throwing
    BY <2>1, NonePending
  <2>3. CASE UNCHANGED stack
    <3>1. Top' = Top
      BY <2>3 DEF Top, Depth
    <3>2. CASE UNCHANGED <<pending, unread, inflight, current>>
      <4>1. Pending'
        BY <2>1, <3>1, <3>2 DEF CallInv, Pending, ExceptionTravels, CheckIsNext, MayBeUnread
      <4> QED
        BY <2>1, <2>3, <4>1, StackKept DEF BeforeCall
    <3>3. CASE /\ pending' = None /\ unread' = FALSE
               /\ \E e \in Throwables : inflight' = e /\ current' = e
      <4>1. Pending'
        BY <2>1, <3>1, <3>3 DEF CallInv, Pending, ExceptionTravels, JavaExceptions
      <4> QED
        BY <2>1, <2>3, <4>1, StackKept DEF BeforeCall
    <3> QED
      BY <2>1, <3>2, <3>3
  <2>4. CASE /\ stack' = [stack EXCEPT ![Depth] = [Top EXCEPT !.at = "pushed"]]
             /\ UNCHANGED <<pending, unread, inflight, current>>
    <3>1. Moved([Top EXCEPT !.at = "pushed"], "pushed")
      BY <2>1, MovedFrame DEF CanBeAt, BeforeCall
    <3>2. MayMove("pushed")
      BY <2>1 DEF MayMove, BeforeCall
    <3>3. Top'.code = "wrapper" /\ Top'.at = "pushed"
      BY <2>1, <2>4, <3>1, TopReplaced DEF Moved, CallInv
    <3>4. Pending'
      BY <2>1, <2>2, <2>4, <3>3 DEF CallInv, Pending, ExceptionTravels, MayBeUnread
    <3> QED
      BY <2>1, <2>2, <2>4, <3>1, <3>2, <3>4, TopMoves
  <2> QED
    BY <2>1, <2>3, <2>4
<1>2. CASE CheckPush
  <2>1. /\ Top.code # "java" /\ inflight = None /\ Top.at = "pushed" /\ Top.code = "wrapper"
        /\ JniExceptionCheck /\ UNCHANGED <<current, misuse>>
    BY <1>2 DEF CheckPush, InWrapper, InCpp
  <2>2. CASE pending = None
    <3>1. stack' = [stack EXCEPT ![Depth] = [Top EXCEPT !.at = "args"]]
      BY <1>2, <2>2 DEF CheckPush, Goto, Top
    <3>2. Moved([Top EXCEPT !.at = "args"], "args")
      BY <2>1, MovedFrame DEF CanBeAt, BeforeCall
    <3>3. MayMove("args")
      BY <2>1 DEF MayMove, BeforeCall
    <3> QED
      BY <2>1, <3>1, <3>2, <3>3, TopChecks
  <2>3. CASE pending # None
    <3>1. UNCHANGED stack /\ inflight' = pending /\ pending' = None /\ unread' = FALSE
      BY <1>2, <2>1, <2>3 DEF CheckPush, JniExceptionCheck
    <3>2. Top' = Top
      BY <3>1 DEF Top, Depth
    <3>3. Pending'
      BY <2>1, <3>1, <3>2 DEF CallInv, Pending, ExceptionTravels
    <3> QED
      BY <2>1, <3>1, <3>3, StackKept DEF BeforeCall
  <2> QED
    BY <2>2, <2>3
<1> QED
  BY <1>1, <1>2

\* The check behind the call into Java: what Java has thrown is thrown on.
LEMMA CheckCallStep == ASSUME CallInv, CheckCall PROVE CallInv'
<1>1. /\ Top.code = "wrapper" /\ inflight = None /\ Top.at = "called"
      /\ JniExceptionCheck /\ UNCHANGED <<current, misuse>>
  BY DEF CheckCall, InWrapper, InCpp
<1>2. PICK at \in {"result", "leave"} : stack' = [stack EXCEPT ![Depth] = [Top EXCEPT !.at = at]]
  BY DEF CheckCall, Goto, Top
<1>3. Moved([Top EXCEPT !.at = at], at)
  BY <1>1, MovedFrame DEF CanBeAt
<1>4. MayMove(at)
  BY <1>1 DEF MayMove, BeforeCall
<1> QED
  BY <1>1, <1>2, <1>3, <1>4, TopChecks

\* The call into Java hands the promise on.
LEMMA CallJavaStep == ASSUME CallInv, CallJava PROVE CallInv'
<1> DEFINE f == [Top EXCEPT !.at = "called"]
           g == JavaFrame(Top.promise)
<1>1. /\ Top.code = "wrapper" /\ inflight = None /\ Top.at = "args"
      /\ stack' = Append([stack EXCEPT ![Depth] = f], g)
      /\ misuse' = misuse \cup Culprits /\ UNCHANGED <<pending, unread, inflight, current>>
  BY DEF CallJava, InWrapper, InCpp, Converted, Top, exceptions
<1>2. pending = None /\ Culprits = {}
  BY <1>1, NonePending DEF MayBeUnread, Culprits
<1>3. Moved(f, "called")
  BY <1>1, MovedFrame DEF CanBeAt
<1>4. Top \in WrapperFrames
  BY <1>1, TopFacts, FrameKinds
<1>5. g \in Frames /\ g.code = "java" /\ g.promise = Top.promise
  BY <1>4 DEF Frames, JavaFrames, WrapperFrames, JavaFrame
<1>6. /\ f \in Frames /\ f.code = "wrapper" /\ f.at = "called" /\ f.promise = Top.promise
  BY <1>1, <1>3 DEF Moved
<1> HIDE DEF f, g
<1>7. /\ StackShape' /\ Depth' = Depth + 1 /\ Top' = g
      /\ \A i \in 1..Depth : stack'[i] = IF i = Depth THEN f ELSE stack[i]
      /\ stack'[Depth + 1] = g
      /\ \A i \in 1..(Depth - 1) : Promises(i)' /\ Answers(i)'
  BY <1>1, <1>5, <1>6, Covered
<1>8. Pending'
  BY <1>1, <1>2, <1>5, <1>7 DEF CallInv, Pending, ExceptionTravels, CheckIsNext
<1>9. PICK d \in Nat : d = Depth
  BY TopFacts
<1>10. /\ d > 1 /\ Promises(d) /\ Top = stack[d]
       /\ stack'[d] = f /\ stack'[d-1] = stack[d-1] /\ stack'[d+1] = g /\ Depth' = d + 1
  <2>1. d > 1 /\ Promises(d) /\ Top = stack[d] /\ d \in 1..Depth /\ d - 1 \in 1..Depth /\ d - 1 # d
    BY <1>1, <1>9, TopFacts
  <2>2. stack'[d] = f /\ stack'[d-1] = stack[d-1]
    BY <1>7, <1>9, <2>1
  <2> QED
    BY <1>7, <1>9, <2>1, <2>2
<1>11. Top.promise # 0 =>
         /\ Top.promise = d - 1 /\ stack[d-1].at = "leave"
         /\ stack[d-1].sig.settles # Nobody /\ stack[d-1].settled = 0
  BY <1>1, <1>10 DEF Promises, BeforeCall
<1>12. Promises(d)' /\ Answers(d)'
  <2>1. Promises(d)'
    BY <1>6, <1>10, <1>11 DEF Promises, BeforeCall
  <2>2. Answers(d)'
    BY <1>5, <1>6, <1>9, <1>10 DEF Answers
  <2> QED
    BY <2>1, <2>2
<1>13. Promises(d + 1)' /\ Answers(d + 1)'
  <2>1. (d + 1) - 1 = d /\ (d + 1) - 2 = d - 1
    BY <1>9
  <2>2. Promises(d + 1)'
    <3>1. g.promise # 0 =>
            d + 1 > 2 /\ g.promise = d - 1 /\ f.promise = d - 1 /\ stack'[d-1].settled = 0
      BY <1>5, <1>6, <1>9, <1>10, <1>11
    <3>2. stack'[d+1] = g /\ stack'[(d+1)-1] = f /\ stack'[(d+1)-2] = stack'[d-1]
      BY <1>10, <2>1
    <3> QED
      BY <1>5, <2>1, <3>1, <3>2 DEF Promises
  <2>3. Answers(d + 1)'
    BY <1>5, <1>10 DEF Answers
  <2> QED
    BY <2>2, <2>3
<1> QED
  BY <1>7, <1>8, <1>9, <1>10, <1>12, <1>13, CoveredInv
-----------------------------------------------------------------------------
\* A native method.
LEMMA CallNativeStep ==
  ASSUME CallInv, Len(localFrames) \in Nat, NEW m \in SigsOf(TestModule), CallNative(m)
  PROVE  CallInv'
<1> DEFINE g == NativeFrame(m)
<1>1. /\ Top.code = "java" /\ pending = None /\ stack' = Append(stack, g) /\ Depth + 3 <= MaxDepth
      /\ UNCHANGED <<pending, unread, inflight, current, misuse>>
  BY DEF CallNative, InJava, exceptions
<1>2. g \in Frames /\ g.code = "native" /\ g.at = "args" /\ g.settled = 0
  BY DEF Frames, NativeFrames, NativeFrame
<1> HIDE DEF g
<1>3. Top \in Frames /\ stack' = Append([stack EXCEPT ![Depth] = Top], g)
  BY <1>1, TopFacts DEF CallInv, StackShape, Top, Depth
<1>4. /\ StackShape' /\ Depth' = Depth + 1 /\ Top' = g
      /\ \A i \in 1..Depth : stack'[i] = IF i = Depth THEN Top ELSE stack[i]
      /\ stack'[Depth + 1] = g
      /\ \A i \in 1..(Depth - 1) : Promises(i)' /\ Answers(i)'
  BY <1>1, <1>2, <1>3, Covered
<1>5. inflight = None
  BY <1>1 DEF CallInv, Pending, ExceptionTravels
<1>6. Pending'
  BY <1>1, <1>2, <1>4, <1>5 DEF CallInv, Pending, ExceptionTravels
<1>7. PICK d \in Nat : d = Depth
  BY TopFacts
<1>8. /\ d > 0 /\ Promises(d) /\ stack[d].code = "java" /\ stack'[d] = stack[d] /\ stack'[d+1] = g
      /\ d > 1 => stack'[d-1] = stack[d-1]
      /\ d > 2 => stack'[d-2] = stack[d-2]
  <2>1. d > 0 /\ Promises(d) /\ Top = stack[d] /\ d \in 1..Depth
    BY <1>7, TopFacts
  <2>2. \A i \in 1..d : stack'[i] = stack[i]
    BY <1>4, <1>7, <2>1
  <2>3. stack'[d+1] = g
    BY <1>4, <1>7
  <2>4. stack'[d] = stack[d] /\ (d > 1 => stack'[d-1] = stack[d-1]) /\ (d > 2 => stack'[d-2] = stack[d-2])
    BY <2>1, <2>2
  <2> QED
    BY <1>1, <2>1, <2>3, <2>4
<1>9. Promises(d)' /\ Answers(d)'
  BY <1>7, <1>8, SamePromises DEF Answers
<1>10. Promises(d + 1)' /\ Answers(d + 1)'
  <2>1. (d + 1) + 2 <= MaxDepth
    BY <1>1, <1>7, CallAssumption
  <2> QED
    BY <1>2, <1>8, <2>1 DEF Promises, Answers
<1> QED
  BY <1>4, <1>6, <1>7, <1>9, <1>10, CoveredInv

\* A proxy is called with a promise to settle, or with none.
LEMMA CallWrapperStep ==
  ASSUME CallInv, NEW p \in Nat, NEW sig \in Signatures, CallWrapper(sig, p),
         Top.code = "native", inflight = None, Top.at \in {"args", "resolve"},
         p # 0 => p = Depth /\ Top.at = "resolve"
  PROVE  CallInv' /\ Depth' = Depth + 1
<1> DEFINE at == IF p = 0 THEN "args" ELSE "leave"
           f == [Top EXCEPT !.at = at]
           g == WrapperFrame(sig, p)
<1>1. /\ stack' = Append([stack EXCEPT ![Depth] = f], g)
      /\ UNCHANGED <<pending, unread, inflight, current, misuse>>
  BY DEF CallWrapper, exceptions, Top
<1>2. g \in Frames /\ g.code = "wrapper" /\ g.at = "push" /\ g.promise = p
  BY DEF Frames, WrapperFrames, WrapperFrame, BeforeCall
<1>3. at \in {"args", "leave"} /\ (at = "leave" => p # 0) /\ (p # 0 => at = "leave")
  OBVIOUS
<1> HIDE DEF at
<1>4. Moved(f, at)
  BY <1>3, MovedFrame DEF CanBeAt
<1> HIDE DEF f, g
<1>5. /\ f \in Frames /\ f.code = "native" /\ f.sig = Top.sig /\ f.at = at
      /\ f.settled = Top.settled
  BY <1>4 DEF Moved
<1>6. /\ StackShape' /\ Depth' = Depth + 1 /\ Top' = g
      /\ \A i \in 1..Depth : stack'[i] = IF i = Depth THEN f ELSE stack[i]
      /\ stack'[Depth + 1] = g
      /\ \A i \in 1..(Depth - 1) : Promises(i)' /\ Answers(i)'
  BY <1>1, <1>2, <1>5, Covered
<1>7. pending # None => unread
  BY NonePending
<1>8. Pending'
  BY <1>1, <1>2, <1>6, <1>7 DEF CallInv, Pending, ExceptionTravels, MayBeUnread
<1>9. PICK d \in Nat : d = Depth
  BY TopFacts
<1>10. /\ d > 1 /\ Top.settled = 0 /\ (Top.at = "resolve" => Top.sig.settles # Nobody)
       /\ d + 2 <= MaxDepth
       /\ stack'[d] = f /\ stack'[d+1] = g /\ Depth' = d + 1
  <2>1. d > 1 /\ Promises(d) /\ Top = stack[d] /\ d \in 1..Depth
    BY <1>9, TopFacts
  <2>2. stack'[d] = f
    BY <1>6, <1>9, <2>1
  <2>3. /\ Top.settled = 0 /\ (Top.at = "resolve" => Top.sig.settles # Nobody)
        /\ d + 2 <= MaxDepth
    BY <2>1 DEF Promises
  <2> QED
    BY <1>6, <1>9, <2>1, <2>2, <2>3
<1>11. Promises(d)' /\ Answers(d)'
  <2>1. Promises(d)'
    BY <1>3, <1>5, <1>10 DEF Promises
  <2>2. at = "leave" => g.promise # 0 /\ f.sig.settles # Nobody
    BY <1>2, <1>3, <1>5, <1>9, <1>10
  <2>3. Answers(d)'
    BY <1>5, <1>9, <1>10, <2>2 DEF Answers
  <2> QED
    BY <2>1, <2>3
<1>12. Promises(d + 1)' /\ Answers(d + 1)'
  <2>1. (d + 1) - 1 = d
    BY <1>9
  <2>2. g.promise # 0 =>
          g.promise = d /\ f.at = "leave" /\ f.sig.settles # Nobody /\ f.settled = 0
    BY <1>2, <1>3, <1>5, <1>9, <1>10
  <2>3. stack'[d+1] = g /\ stack'[(d+1)-1] = f /\ d + 1 > 1
    BY <1>9, <1>10, <2>1
  <2>4. Promises(d + 1)'
    BY <1>2, <2>1, <2>2, <2>3 DEF Promises
  <2>5. Answers(d + 1)'
    BY <1>2, <2>3 DEF Answers, BeforeCall
  <2> QED
    BY <2>4, <2>5
<1> QED
  BY <1>6, <1>8, <1>9, <1>11, <1>12, CoveredInv

\* What the code between a native method's arguments and its result does; it takes
\* no frame away.
LEMMA BodyStep ==
  ASSUME CallInv,
         EndBody \/ Resolve \/ \E sig \in Wrappers : HaxeCalls(sig)
  PROVE  CallInv' /\ Depth' >= Depth
<1>1. Top.code = "native" /\ inflight = None /\ Top.at \in {"args", "resolve"}
  BY DEF EndBody, Resolve, HaxeCalls, InNative, InCpp, Converted
<1>2. ASSUME NEW sig \in Wrappers, HaxeCalls(sig) PROVE CallInv' /\ Depth' >= Depth
  BY <1>1, <1>2, CallWrapperStep, TopFacts DEF HaxeCalls, Signatures
<1>3. CASE Resolve
  <2>1. Top.at = "resolve" /\ CallWrapper(Top.sig.settles, Depth)
    BY <1>3 DEF Resolve
  <2>2. Top \in NativeFrames /\ Depth \in Nat
    BY <1>1, TopFacts, FrameKinds
  <2>3. Top.sig.settles \in Signatures
    BY <2>2 DEF NativeFrames, Signatures
  <2> QED
    BY <1>1, <2>1, <2>2, <2>3, CallWrapperStep
<1>4. CASE EndBody
  <2>1. /\ Top.at = "args" /\ UNCHANGED <<pending, unread, inflight, current, misuse>>
        /\ Goto(IF Top.sig.settles # Nobody THEN "resolve"
                ELSE IF Top.sig.result = "object" THEN "result" ELSE "leave")
    BY <1>4 DEF EndBody, Converted, exceptions
  <2>2. PICK at \in {"resolve", "result", "leave"} :
          /\ stack' = [stack EXCEPT ![Depth] = [Top EXCEPT !.at = at]]
          /\ at = "resolve" <=> Top.sig.settles # Nobody
    BY <2>1 DEF Goto, Top
  <2>3. Moved([Top EXCEPT !.at = at], at)
    BY <1>1, MovedFrame DEF CanBeAt
  <2>4. MayMove(at)
    BY <1>1, <2>1, <2>2 DEF MayMove
  <2>5. (pending # None => unread) /\ ~Throwing
    BY <1>1, NonePending
  <2>6. Top'.code = "native"
    BY <1>1, <2>2, <2>3, TopReplaced DEF Moved, CallInv
  <2>7. Pending'
    BY <1>1, <2>1, <2>5, <2>6 DEF CallInv, Pending, ExceptionTravels, MayBeUnread
  <2>8. Depth' = Depth
    BY <2>2, <2>3, FrameReplaced DEF Moved, CallInv
  <2> QED
    <3>1. CallInv'
      BY <1>1, <2>2, <2>3, <2>4, <2>5, <2>7, TopMoves
    <3> QED
      BY <2>8, <3>1, TopFacts
<1> QED
  BY <1>2, <1>3, <1>4
-----------------------------------------------------------------------------
\* A call ends.
LEMMA UncoveredInv ==
  ASSUME CallInv, Pending', Depth > 1, stack' = PopOf(stack), NEW d \in Nat, d = Depth - 1, Answers(d)'
  PROVE  CallInv'
<1>1. /\ StackShape' /\ Depth' = Depth - 1
      /\ \A i \in 1..(Depth - 1) : Promises(i)'
      /\ \A i \in 1..(Depth - 2) : Answers(i)'
  BY Uncovered
<1>2. ASSUME NEW i \in 1..d PROVE Promises(i)' /\ Answers(i)'
  <2>1. i \in 1..(Depth - 1) /\ (i = d \/ i \in 1..(Depth - 2))
    BY TopFacts
  <2> QED
    BY <1>1, <2>1
<1> QED
  BY <1>1, <1>2 DEF CallInv

\* The call below is at hand again.
LEMMA Below ==
  ASSUME CallInv, Depth > 1, stack' = PopOf(stack)
  PROVE  \E d \in Nat \ {0} :
           /\ d = Depth - 1 /\ d = Depth' /\ Top' = stack[d] /\ stack'[d] = stack[d]
           /\ Promises(d) /\ Answers(d) /\ Stands(d + 1) /\ stack[d+1] = Top /\ stack[d] \in Frames
           /\ d > 1 => stack'[d-1] = stack[d-1]
<1>1. PICK d \in Nat \ {0} : d = Depth - 1
  BY TopFacts
<1>2. /\ Depth' = d /\ Top' = stack[d] /\ Stands(d + 1)
      /\ \A i \in 1..d : stack'[i] = stack[i]
  BY <1>1, TopFacts, Uncovered
<1>3. d \in 1..Depth /\ d + 1 = Depth
  BY <1>1, TopFacts
<1>4. stack[d] \in Frames /\ Promises(d) /\ Answers(d)
  BY <1>3 DEF CallInv, StackShape, Depth
<1>5. stack'[d] = stack[d] /\ (d > 1 => stack'[d-1] = stack[d-1])
  BY <1>2
<1>6. stack[d+1] = Top
  BY <1>3, TopFacts
<1> QED
  BY <1>1, <1>2, <1>4, <1>5, <1>6

\* What Answers says of a proxy method that returns.
LEMMA TopAnswers ==
  ASSUME NEW j \in Nat \ {0}, NEW d, d = j - 1, Answers(j), j = Depth, stack[j].code = "wrapper",
         stack[j].promise # 0, stack[j].at = "leave", ~Throwing
  PROVE  stack[d].settled = 1
BY DEF Answers, BeforeCall

\* A Java method returns, or throws, to the proxy method that called it.
LEMMA JavaReturnStep == ASSUME CallInv, JavaReturn PROVE CallInv'
<1>1. /\ Top.code = "java" /\ Depth > 1 /\ (pending = None => Top.promise = 0)
      /\ stack' = PopOf(stack) /\ UNCHANGED <<pending, unread, inflight, current, misuse>>
      /\ ~unread
  BY DEF JavaReturn, InJava, exceptions, CallInv, Pending, ExceptionTravels
<1>2. PICK d \in Nat \ {0} :
        /\ d = Depth - 1 /\ d = Depth' /\ Top' = stack[d] /\ stack'[d] = stack[d]
        /\ Promises(d) /\ Answers(d) /\ Stands(d + 1) /\ stack[d+1] = Top /\ stack[d] \in Frames
        /\ d > 1 => stack'[d-1] = stack[d-1]
  BY <1>1, Below
<1>3. stack[d].code = "wrapper" /\ stack[d].at = "called" /\ d < Depth /\ d # Depth
  <2>1. stack[(d+1)-1].code = "wrapper" /\ stack[(d+1)-1].at = "called"
    BY <1>1, <1>2 DEF Stands
  <2> QED
    BY <1>2, <2>1, TopFacts
<1>4. Pending'
  BY <1>1, <1>2, <1>3 DEF CallInv, Pending, ExceptionTravels, CheckIsNext
<1>5. stack[d].promise # 0 => d > 1 /\ (stack[d-1].settled = 1 \/ Top.promise # 0)
  BY <1>2, <1>3 DEF Promises, Answers, BeforeCall
<1>6. Answers(d)'
  BY <1>1, <1>2, <1>3, <1>5 DEF Answers, Throwing
<1> QED
  BY <1>1, <1>2, <1>4, <1>6, UncoveredInv

\* A proxy method returns, or throws, to the native method.
LEMMA LeaveWrapperStep == ASSUME CallInv, LeaveWrapper PROVE CallInv'
<1>1. /\ Top.code = "wrapper" /\ (Top.at = "leave" \/ inflight # None)
      /\ stack' = PopOf(stack) /\ UNCHANGED <<pending, unread, inflight, current, misuse>>
  BY DEF LeaveWrapper, exceptions
<1>2. Depth > 1 /\ Depth \in Nat /\ Answers(Depth) /\ Promises(Depth)
  BY <1>1, TopFacts
<1>3. (pending # None => unread) /\ (inflight = None => ~Throwing)
  BY <1>1 DEF CallInv, Pending, CheckIsNext, Throwing
<1>4. PICK d \in Nat \ {0} :
        /\ d = Depth - 1 /\ d = Depth' /\ Top' = stack[d] /\ stack'[d] = stack[d]
        /\ Promises(d) /\ Answers(d) /\ Stands(d + 1) /\ stack[d+1] = Top /\ stack[d] \in Frames
        /\ d > 1 => stack'[d-1] = stack[d-1]
  BY <1>1, <1>2, Below
<1>5. stack[d].code = "native" /\ d # Depth /\ Depth = d + 1
  <2>1. stack[(d+1)-1].code = "native"
    BY <1>1, <1>4 DEF Stands
  <2> QED
    BY <1>2, <1>4, <2>1
<1>6. Pending'
  BY <1>1, <1>3, <1>4, <1>5 DEF CallInv, Pending, ExceptionTravels, MayBeUnread
<1>7. Top.promise # 0 /\ inflight = None => stack[d].settled = 1
  <2>1. Promises(d + 1) /\ Answers(d + 1) /\ (d + 1) - 1 = d
    BY <1>2, <1>4, <1>5
  <2>2. SUFFICES ASSUME Top.promise # 0, inflight = None PROVE stack[d].settled = 1
    OBVIOUS
  <2>3. d + 1 \in Nat \ {0} /\ stack[d+1].code = "wrapper" /\ stack[d+1].promise # 0 /\ stack[d+1].at = "leave"
    BY <1>1, <1>4, <2>2
  <2> HIDE <1>4
  <2> QED
    BY <1>3, <1>5, <2>1, <2>2, <2>3, TopAnswers
<1>8. Answers(d)'
  BY <1>1, <1>4, <1>5, <1>7 DEF Answers
<1> QED
  BY <1>1, <1>2, <1>4, <1>6, <1>8, UncoveredInv

\* What a native method does as it leaves calls the JVM with no exception pending but
\* the one of GetStringChars.
LEMMA LeaveMisuse ==
  ASSUME Pending, Top.code = "native", Top.at = "leave" \/ inflight # None
  PROVE  /\ pending # None => unread
         /\ misuse \cup UsesJvm \subseteq {"GetStringChars", "FindClass"}
<1>1. pending # None => unread
  BY DEF Pending, CheckIsNext
<1>2. UsesJvm \subseteq {"GetStringChars"}
  BY <1>1, Zenon DEF UsesJvm, Culprits
<1> QED
  BY <1>1, <1>2 DEF Pending

\* What Java then finds pending: what was, or the exception translated, or the one that
\* its translation raised.
LEMMA LeaveShows ==
  ASSUME Pending, Top.code = "native", Top.at = "leave" \/ inflight # None, IsStdException(inflight),
         \/ /\ pending' = IF inflight = None THEN pending ELSE JavaExceptionFor(inflight)
            /\ misuse' = misuse \cup UsesJvm /\ UNCHANGED current
         \/ TranslationFails
  PROVE  /\ pending' \in JavaExceptions \cup {None}
         /\ inflight # None => pending' # None
         /\ pending' = current' \/ (pending' = "RuntimeException" /\ current' = "std")
         /\ misuse' \subseteq {"GetStringChars", "FindClass"}
<1> DEFINE shown == IF inflight = None THEN pending ELSE inflight
<1>1. /\ shown = current \/ (shown = "RuntimeException" /\ current = "std")
      /\ pending \in JavaExceptions \cup {None}
      /\ inflight \in JavaExceptions \cup {None, "std"}
  BY DEF Pending, ExceptionTravels, IsStdException
<1>2. misuse \cup UsesJvm \subseteq {"GetStringChars", "FindClass"}
  BY LeaveMisuse
<1>3. CASE /\ pending' = IF inflight = None THEN pending ELSE JavaExceptionFor(inflight)
           /\ misuse' = misuse \cup UsesJvm /\ UNCHANGED current
  <2>1. CASE inflight = None
    BY <1>1, <1>2, <1>3, <2>1
  <2>2. CASE inflight = "std"
    BY <1>1, <1>2, <1>3, <2>2, CallAssumption DEF JavaExceptionFor, JavaExceptions
  <2>3. CASE inflight \notin {None, "std"}
    BY <1>1, <1>2, <1>3, <2>3, CallAssumption DEF JavaExceptionFor, JavaExceptions
  <2> QED
    BY <2>1, <2>2, <2>3
<1>4. CASE TranslationFails
  <2>1. pending' \in Throwables \cup ({pending} \ {None}) /\ current' = pending'
    BY <1>4 DEF TranslationFails
  <2>2. pending' \in JavaExceptions /\ pending' # None
    BY <1>1, <2>1, CallAssumption DEF JavaExceptions
  <2>3. misuse' \subseteq {"GetStringChars", "FindClass"}
    BY <1>2, <1>4 DEF TranslationFails
  <2> QED
    BY <2>1, <2>2, <2>3
<1> QED
  BY <1>3, <1>4

\* A native method returns to Java, with the exception translated.
LEMMA LeaveNativeStep == ASSUME CallInv, LeaveNative PROVE CallInv'
<1>1. Top.code = "native" /\ (Top.at = "leave" \/ inflight # None)
  BY DEF LeaveNative
<1>2. CASE UNCHANGED <<stack, localFrames, exceptions>> /\ misuse' = misuse \cup UsesJvm
  <2>1. UNCHANGED <<stack, pending, unread, inflight, current>> /\ Top' = Top
    BY <1>2 DEF exceptions, Top, Depth
  <2>2. misuse' \subseteq {"GetStringChars", "FindClass"}
    BY <1>1, <1>2, LeaveMisuse DEF CallInv
  <2>3. Pending'
    BY <2>1, <2>2 DEF CallInv, Pending, ExceptionTravels, CheckIsNext, MayBeUnread
  <2> QED
    BY <2>1, <2>3, StackKept
<1>3. CASE /\ ReturnToJava /\ IsStdException(inflight)
           /\ \/ /\ pending' = IF inflight = None THEN pending ELSE JavaExceptionFor(inflight)
                 /\ misuse' = misuse \cup UsesJvm /\ UNCHANGED current
              \/ TranslationFails
  <2>1. /\ pending' \in JavaExceptions \cup {None}
        /\ pending' = current' \/ (pending' = "RuntimeException" /\ current' = "std")
        /\ misuse' \subseteq {"GetStringChars", "FindClass"}
    BY <1>1, <1>3, LeaveShows DEF CallInv
  <2>2. stack' = PopOf(stack) /\ inflight' = None /\ unread' = FALSE
    BY <1>3 DEF ReturnToJava
  <2>3. Depth > 1
    BY <1>1, TopFacts
  <2>4. PICK d \in Nat \ {0} :
          /\ d = Depth - 1 /\ d = Depth' /\ Top' = stack[d] /\ stack'[d] = stack[d]
          /\ Promises(d) /\ Answers(d) /\ Stands(d + 1) /\ stack[d+1] = Top /\ stack[d] \in Frames
          /\ d > 1 => stack'[d-1] = stack[d-1]
    BY <2>2, <2>3, Below
  <2>5. stack[d].code = "java"
    <3>1. stack[(d+1)-1].code = "java"
      BY <1>1, <2>4 DEF Stands
    <3> QED
      BY <2>4, <3>1
  <2>6. Pending'
    BY <2>1, <2>2, <2>4, <2>5 DEF Pending, ExceptionTravels, CheckIsNext
  <2>7. Answers(d)'
    BY <2>4, <2>5 DEF Answers
  <2> QED
    BY <2>2, <2>3, <2>4, <2>6, <2>7, UncoveredInv
<1> QED
  BY <1>2, <1>3 DEF LeaveNative
-----------------------------------------------------------------------------
\* Java code, and what C++ code throws.
LEMMA ThrowStep ==
  ASSUME CallInv,
         JavaCatch \/ (\E e \in Throwables : JavaThrow(e)) \/ \E e \in {"std", "haxe"} : CppThrows(e)
  PROVE  CallInv'
<1> USE DEF InJava, InNative, InCpp
<1>1. UNCHANGED <<stack, misuse>> /\ Top' = Top
  BY DEF JavaCatch, JavaThrow, CppThrows, Top, Depth
<1>2. CASE JavaCatch \/ \E e \in Throwables : JavaThrow(e)
  <2>1. /\ Top.code = "java" /\ pending' = current' /\ UNCHANGED <<unread, inflight>>
        /\ pending' \in JavaExceptions \cup {None}
    BY <1>2 DEF JavaCatch, JavaThrow, JavaExceptions
  <2>2. Pending'
    BY <1>1, <2>1 DEF CallInv, Pending, ExceptionTravels, CheckIsNext
  <2> QED
    BY <1>1, <2>1, <2>2, StackKept
<1>3. CASE \E e \in {"std", "haxe"} : CppThrows(e)
  <2>1. /\ Top.code = "native" /\ Top.at \in {"args", "resolve"}
        /\ inflight' = current' /\ inflight' \in {"std", "haxe"} /\ UNCHANGED <<pending, unread>>
    BY <1>3 DEF CppThrows, Converted
  <2>2. pending # None => unread
    BY <2>1, NonePending
  <2>3. Pending'
    BY <1>1, <2>1, <2>2, CallAssumption DEF CallInv, Pending, ExceptionTravels, MayBeUnread
  <2> QED
    BY <1>1, <2>1, <2>3, StackKept
<1> QED
  BY <1>2, <1>3

\* The Java half of a promise settles it for the native method two frames below.
LEMMA SettleStep == ASSUME CallInv, Settle PROVE CallInv'
<1>1. /\ Top.code = "java" /\ Top.promise # 0 /\ UNCHANGED <<pending, unread, inflight, current, misuse>>
      /\ stack' = [stack EXCEPT ![Top.promise].settled = @ + 1, ![Depth] = JavaFrame(0)]
  BY DEF Settle, InJava, exceptions
<1>2. PICK d \in Nat : d = Depth
  BY TopFacts
<1>3. /\ d > 2 /\ Top.promise = d - 2 /\ stack[d-1].promise = d - 2 /\ stack[d-2].settled = 0
      /\ stack[d].code = "java"
  BY <1>1, <1>2, TopFacts DEF Promises
<1>4. stack \in Seq(Frames) /\ stack[1].code = "java" /\ \A i \in 2..d : Stands(i)
  BY <1>2 DEF CallInv, StackShape
<1>5. /\ stack[d-1].code = "wrapper" /\ stack[d-1].at = "called"
      /\ stack[d-2].code = "native"
  <2>1. Stands(d) /\ Stands(d - 1) /\ (d - 1) - 1 = d - 2
    BY <1>2, <1>3, <1>4
  <2> QED
    BY <1>3, <2>1 DEF Stands
<1>6. stack[d-2].at = "leave" /\ stack[d-2].sig.settles # Nobody
  <2>1. Promises(d - 1) /\ (d - 1) - 1 = d - 2
    BY <1>2, <1>3 DEF CallInv
  <2> QED
    BY <1>3, <1>5, <2>1 DEF Promises
<1> DEFINE f == [stack[d-2] EXCEPT !.settled = 1]
<1>7. /\ f \in Frames /\ f.code = "native" /\ f.at = "leave" /\ f.settled = 1
      /\ f.sig = stack[d-2].sig
  <2>1. stack[d-2] \in Frames
    BY <1>2, <1>3, <1>4 DEF Depth
  <2>2. stack[d-2] \in NativeFrames
    BY <1>5, <2>1, FrameKinds
  <2> QED
    BY <1>5, <1>6, <2>2 DEF NativeFrames, Frames
<1> DEFINE g == JavaFrame(0)
<1>8. g \in Frames /\ g.code = "java" /\ g.promise = 0
  BY DEF Frames, JavaFrames, JavaFrame
<1>9. stack' = [stack EXCEPT ![d-2] = f, ![d] = g]
  BY <1>1, <1>2, <1>3
<1> HIDE DEF f, g
<1>10. /\ stack' \in Seq(Frames) /\ Depth' = d
       /\ \A i \in 1..d : stack'[i] = IF i = d THEN g ELSE IF i = d - 2 THEN f ELSE stack[i]
  <2> DEFINE s == [stack EXCEPT ![d-2] = f]
  <2>1. Len(stack) = d /\ stack' = [s EXCEPT ![d] = g]
    BY <1>2, <1>9 DEF Depth
  <2>2. /\ s \in Seq(Frames) /\ Len(s) = d
        /\ \A i \in 1..d : s[i] = IF i = d - 2 THEN f ELSE stack[i]
    BY <1>3, <1>4, <1>7, <2>1, ItemReplaced
  <2> HIDE DEF s
  <2>3. /\ stack' \in Seq(Frames) /\ Len(stack') = d
        /\ \A i \in 1..d : stack'[i] = IF i = d THEN g ELSE s[i]
    BY <1>3, <1>8, <2>1, <2>2, ItemReplaced
  <2> QED
    BY <2>2, <2>3 DEF Depth
<1>11. \A i \in 1..d : stack'[i].code = stack[i].code
  BY <1>3, <1>5, <1>7, <1>8, <1>10
<1>12. ASSUME NEW i \in 2..d PROVE Stands(i)'
  <2>1. Stands(i) /\ stack'[i].code = stack[i].code /\ stack'[i-1].code = stack[i-1].code
    BY <1>2, <1>4, <1>11
  <2>2. i - 1 # d /\ i - 1 \in 1..d
    BY <1>2
  <2>3. stack[i-1].code = "wrapper" => stack'[i-1] = stack[i-1]
    BY <1>5, <1>10, <2>2
  <2> QED
    BY <2>1, <2>3 DEF Stands
<1>13. Top' = g
  BY <1>3, <1>10 DEF Top
<1>14. Pending'
  BY <1>1, <1>8, <1>13 DEF CallInv, Pending, ExceptionTravels, CheckIsNext
<1>15. ASSUME NEW i \in 1..d PROVE Promises(i)' /\ Answers(i)'
  <2>1. Promises(i) /\ Answers(i) /\ i \in Nat \ {0}
    BY <1>2 DEF CallInv
  <2>2. CASE i = d
    BY <1>8, <1>10, <2>2 DEF Promises, Answers
  <2>3. CASE i = d - 1
    <3>1. stack'[i] = stack[d-1] /\ stack'[i-1] = f /\ i - 1 = d - 2 /\ i > 1
      BY <1>3, <1>10, <2>3
    <3> QED
      BY <1>3, <1>5, <1>6, <1>7, <3>1 DEF Promises, Answers, BeforeCall
  <2>4. CASE i = d - 2
    <3>1. stack'[i] = f /\ stack[i].code = "native"
      BY <1>3, <1>5, <1>10, <2>4
    <3>2. i + 2 <= MaxDepth
      BY <2>1, <3>1 DEF Promises
    <3> QED
      BY <1>6, <1>7, <2>4, <3>1, <3>2 DEF Promises, Answers
  <2>5. CASE i < d - 2
    <3>1. /\ stack'[i] = stack[i] /\ i < Depth /\ i < Depth'
          /\ i > 1 => stack'[i-1] = stack[i-1]
          /\ i > 2 => stack'[i-2] = stack[i-2]
      BY <1>2, <1>10, <2>5
    <3>2. stack[i].code # "java" => stack'[i+1] = stack[i+1]
      <4>1. Stands(i + 1) /\ (i + 1) - 1 = i
        BY <1>2, <1>4, <2>5
      <4>2. stack[i].code # "java" => i + 1 # d - 2
        BY <1>5, <4>1 DEF Stands
      <4> QED
        BY <1>2, <1>10, <2>5, <4>2
    <3> QED
      BY <1>2, <1>10, <2>1, <3>1, <3>2, SamePromises, SameAnswers
  <2> QED
    BY <1>2, <2>2, <2>3, <2>4, <2>5
<1> QED
  BY <1>2, <1>3, <1>4, <1>10, <1>11, <1>12, <1>14, <1>15 DEF CallInv, StackShape
-----------------------------------------------------------------------------
\* Every step of the thread keeps the invariant.
LEMMA CallStep == CallInv /\ Len(localFrames) \in Nat /\ [Next]_vars => CallInv'
<1> SUFFICES ASSUME CallInv, Len(localFrames) \in Nat, [Next]_vars PROVE CallInv'
  OBVIOUS
<1>1. CASE UNCHANGED vars
  <2>1. UNCHANGED <<stack, pending, unread, inflight, current, misuse>> /\ Top' = Top
    BY <1>1 DEF vars, exceptions, Top, Depth
  <2>2. Pending'
    BY <2>1 DEF CallInv, Pending, ExceptionTravels
  <2> QED
    BY <2>1, <2>2, StackKept
<1>2. CASE Next
  BY <1>1, <1>2, CallNativeStep, SettleStep, ThrowStep, JavaReturnStep, ConvertArgStep, CheckArgStep,
     ResultStep, PushStep, CallJavaStep, CheckCallStep, LeaveWrapperStep, BodyStep, LeaveNativeStep
  DEF Next
<1> QED
  BY <1>1, <1>2

\* A native method's frame goes when it leaves, and not before.
LEMMA OnlyLeavingPops ==
  ASSUME CallInv, Len(localFrames) \in Nat, Next, Top.code = "native", Len(stack') < Depth
  PROVE  LeaveNative
<1>1. stack \in Seq(Frames) /\ stack' \in Seq(Frames)
  BY CallStep DEF CallInv, StackShape
<1>2. DOMAIN stack' # DOMAIN stack
  <2>1. DOMAIN stack = 1..Len(stack) /\ DOMAIN stack' = 1..Len(stack')
    BY <1>1
  <2>2. Len(stack) \in Nat /\ Len(stack') \in Nat /\ Len(stack') < Len(stack)
    BY <1>1 DEF Depth
  <2>3. Len(stack) \in 1..Len(stack) /\ Len(stack) \notin 1..Len(stack')
    BY <2>2
  <2> QED
    BY <2>1, <2>3
<1>3. ~EndBody /\ ~Resolve /\ \A sig \in Wrappers : ~HaxeCalls(sig)
  BY BodyStep, TopFacts, <1>1 DEF Depth
<1>4. ASSUME NEW i \in 1..3 PROVE ~ConvertArg(i)
  BY <1>2 DEF ConvertArg
<1>5. ~CheckArg /\ ~ConvertResult /\ ~CheckResult
  BY <1>2 DEF CheckArg, ConvertResult, CheckResult, Goto
<1>6. ASSUME NEW e \in {"std", "haxe"} PROVE ~CppThrows(e)
  BY <1>2 DEF CppThrows
<1>7. ASSUME NEW m \in SigsOf(TestModule) PROVE ~CallNative(m)
  BY DEF CallNative, InJava
<1>8. ~Settle /\ ~JavaCatch /\ ~JavaReturn /\ \A e \in Throwables : ~JavaThrow(e)
  BY DEF Settle, JavaCatch, JavaReturn, JavaThrow, InJava
<1>9. ~PushLocalFrame /\ ~CheckPush /\ ~CallJava /\ ~CheckCall /\ ~LeaveWrapper
  BY DEF PushLocalFrame, CheckPush, CallJava, CheckCall, LeaveWrapper, InWrapper
<1>10. ~UNCHANGED vars
  BY <1>2 DEF vars
<1> QED
  BY <1>3, <1>4, <1>5, <1>6, <1>7, <1>8, <1>9, <1>10 DEF Next

EndedType == ended \in BOOLEAN

\* Whether the process has ended is a Boolean after every step.
LEMMA EndedStep == EndedType /\ [Next]_vars => EndedType'
BY DEF EndedType, Next, vars, CallNative, Settle, JavaCatch, JavaReturn, JavaThrow, ConvertArg, CheckArg, ConvertResult,
       CheckResult, PushLocalFrame, CheckPush, CallJava, CheckCall, LeaveWrapper, HaxeCalls, CppThrows,
       EndBody, Resolve, CallWrapper, LeaveNative, GetStringCharsFails, ReturnToJava, CallsJvm

\* The stack never outgrows its room: a native method leaves some for two calls more.
LEMMA StackFits == CallInv => Depth \in 1..MaxDepth
<1> SUFFICES ASSUME CallInv PROVE Depth <= MaxDepth
  BY CallAssumption, TopFacts
<1>1. PICK d \in Nat \ {0} : d = Depth
  BY TopFacts
<1>2. /\ stack[d] \in Frames /\ stack[1].code = "java" /\ \A i \in 2..d : Stands(i)
      /\ \A i \in 1..d : Promises(i)
  BY <1>1, TopFacts DEF CallInv, StackShape
<1>3. \A i \in 1..d : stack[i].code = "native" => i + 2 <= MaxDepth
  BY <1>2 DEF Promises
<1>4. \A i \in 2..d : stack[i].code = "wrapper" => i + 1 <= MaxDepth
  <2> SUFFICES ASSUME NEW i \in 2..d, stack[i].code = "wrapper" PROVE i + 1 <= MaxDepth
    OBVIOUS
  <2>1. stack[i-1].code = "native" /\ i - 1 \in 1..d
    BY <1>2 DEF Stands
  <2> QED
    BY <1>3, <2>1, CallAssumption
<1>5. CASE d = 1
  BY <1>1, <1>5, CallAssumption
<1>6. CASE d > 1 /\ stack[d].code = "java"
  <2>1. Stands(d) /\ d - 1 \in 1..d
    BY <1>2, <1>6
  <2>2. stack[d-1].code = "wrapper"
    BY <1>6, <2>1 DEF Stands
  <2>3. d - 1 \in 2..d
    BY <1>2, <2>1, <2>2
  <2> QED
    BY <1>1, <1>4, <2>2, <2>3, CallAssumption
<1>7. CASE d > 1 /\ stack[d].code # "java"
  <2>1. stack[d].code = "native" \/ stack[d].code = "wrapper"
    BY <1>2, <1>7, FrameKinds
  <2>2. d + 1 <= MaxDepth \/ d + 2 <= MaxDepth
    BY <1>3, <1>4, <1>7, <2>1
  <2> QED
    BY <1>1, <2>2, CallAssumption
<1> QED
  BY <1>1, <1>5, <1>6, <1>7

-----------------------------------------------------------------------------
(* The local reference frames.                                             *)

\* The calls below the innermost one that have a local frame: all C++ ones, since
\* a proxy method makes its call only once it has pushed its frame.
Lower == {i \in 1..(Depth - 1) : stack[i].code # "java"}

TopFramed == Top.code = "native" \/ (Top.code = "wrapper" /\ Top.at # "push")

\* There are as many frames, but for the one of a scope whose constructor has thrown.
Counted ==
  LET n == Cardinality(Lower) + (IF TopFramed THEN 1 ELSE 0) IN
  /\ Len(localFrames) \in {n, n + 1}
  /\ Len(localFrames) # n => Top.code = "native" /\ inflight # None

\* A native method remembers how many there were below it: it returns to those.
Under(i) == {j \in 1..(i - 1) : stack[j].code # "java"}
Based(n) == \A i \in 1..n : stack[i].code = "native" => stack[i].frames = Cardinality(Under(i))

\* What a proxy method has made references for: one for each argument it has
\* converted, and the peak of the one it is converting.
Last == localFrames[Len(localFrames)]
WrapperRefs ==
  Top.code = "wrapper" =>
    /\ Top.at \in BeforeCall => Top.done \subseteq 1..3
    /\ Top.at = "push" => Top.done = {}
    /\ Top.at = "pushed" => Top.done = {} /\ Last = 0
    /\ Top.at = "args" => Last <= Cardinality(Top.done)
    /\ Top.at = "arg check" =>
         /\ Top.arg \in (1..3) \ Top.done
         /\ Last - Peak(Top.sig.args[Top.arg]) \in 0..Cardinality(Top.done)

FramesInv == Counted /\ Based(Depth) /\ localFrames \in Seq(0..10) /\ WrapperRefs

\* The frames below a call stay, and so does what the native methods remember.
LEMMA StillBased ==
  ASSUME NEW n \in Nat, NEW m \in Nat, m <= n, Based(n),
         \A i \in 1..m : /\ stack'[i].code = stack[i].code
                         /\ stack[i].code = "native" => stack'[i].frames = stack[i].frames
  PROVE  Based(m)' /\ \A i \in 1..(m + 1) : Under(i)' = Under(i)
<1>1. ASSUME NEW i \in 1..(m + 1) PROVE Under(i)' = Under(i)
  <2>1. \A j \in 1..(i - 1) : j \in 1..m
    OBVIOUS
  <2> QED
    BY <2>1 DEF Under
<1>2. ASSUME NEW i \in 1..m, stack'[i].code = "native"
      PROVE  stack'[i].frames = Cardinality(Under(i)')
  <2>1. i \in 1..n /\ i \in 1..(m + 1)
    OBVIOUS
  <2>2. stack[i].code = "native" /\ stack'[i].frames = stack[i].frames
    BY <1>2
  <2>3. stack[i].frames = Cardinality(Under(i))
    BY <2>1, <2>2 DEF Based
  <2> QED
    BY <1>1, <2>1, <2>2, <2>3
<1> QED
  BY <1>1, <1>2 DEF Based

\* A set of numbers up to d, without its number d.
LEMMA OneMore ==
  ASSUME NEW d \in Nat \ {0}, NEW A \in SUBSET (1..d), NEW B \in SUBSET (1..(d - 1)),
         \A i \in 1..(d - 1) : i \in A <=> i \in B
  PROVE  /\ Cardinality(A) = Cardinality(B) + (IF d \in A THEN 1 ELSE 0)
         /\ Cardinality(B) \in Nat
<1>1. IsFiniteSet(1..(d - 1)) /\ d \notin B
  BY FS_Interval
<1>2. IsFiniteSet(B) /\ Cardinality(B) \in Nat
  BY <1>1, FS_Subset, FS_CardinalityType
<1>3. \A i \in 1..d : i \in 1..(d - 1) \/ i = d
  OBVIOUS
<1>4. CASE d \in A
  <2>1. A = B \cup {d}
    BY <1>1, <1>3, <1>4
  <2> QED
    BY <1>1, <1>2, <1>4, <2>1, FS_AddElement
<1>5. CASE d \notin A
  <2>1. A = B
    BY <1>1, <1>3, <1>5
  <2> QED
    BY <1>2, <1>5, <2>1
<1> QED
  BY <1>2, <1>4, <1>5

\* The frames that lie below are finitely many.
LEMMA LowerFinite == CallInv => Cardinality(Lower) \in Nat
<1> SUFFICES ASSUME CallInv PROVE Cardinality(Lower) \in Nat
  OBVIOUS
<1>1. IsFiniteSet(1..(Depth - 1)) /\ Lower \in SUBSET (1..(Depth - 1))
  BY TopFacts, FS_Interval DEF Lower
<1> QED
  BY <1>1, FS_Subset, FS_CardinalityType

\* FramesBalanced counts the frames below and the innermost one.
LEMMA HeldFrames ==
  ASSUME CallInv
  PROVE  Cardinality({i \in 1..Depth : stack[i].code = "native" \/ HasFrame(i)})
           = Cardinality(Lower) + (IF TopFramed THEN 1 ELSE 0)
<1> DEFINE held == {i \in 1..Depth : stack[i].code = "native" \/ HasFrame(i)}
<1>1. PICK d \in Nat \ {0} : d = Depth
  BY TopFacts
<1>2. stack \in Seq(Frames) /\ \A i \in 2..d : Stands(i)
  BY <1>1 DEF CallInv, StackShape
<1>3. ASSUME NEW i \in 1..(d - 1) PROVE i \in held <=> i \in Lower
  <2>1. stack[i] \in Frames /\ Stands(i + 1) /\ (i + 1) - 1 = i /\ stack[i+1] \in Frames
    BY <1>1, <1>2 DEF Depth
  <2>2. stack[i].code = "wrapper" => stack[i].at = "called"
    BY <2>1, FrameKinds DEF Stands
  <2>3. stack[i].code \in {"java", "wrapper", "native"}
    BY <2>1, FrameKinds
  <2> QED
    BY <1>1, <2>2, <2>3 DEF HasFrame, Lower
<1>4. d \in held <=> TopFramed
  BY <1>1 DEF TopFramed, HasFrame, Top
<1>5. held \subseteq 1..d /\ Lower \subseteq 1..(d - 1)
  BY <1>1 DEF Lower
<1> HIDE DEF held
<1>6. Cardinality(held) = Cardinality(Lower) + (IF d \in held THEN 1 ELSE 0)
  BY <1>3, <1>5, OneMore
<1> QED
  BY <1>4, <1>6 DEF held

\* The innermost call goes on, in the same frame.
LEMMA TopRewritten ==
  ASSUME CallInv, NEW f, f.code = Top.code, stack' = [stack EXCEPT ![Depth] = f]
  PROVE  /\ Depth' = Depth /\ Top' = f /\ Lower' = Lower
         /\ Based(Depth) /\ (f.code = "native" => f.frames = Top.frames) => Based(Depth)'
<1>1. PICK d \in Nat \ {0} : d = Depth
  BY TopFacts
<1>2. stack \in Seq(Frames \cup {f}) /\ Len(stack) = d /\ d \in 1..d
  BY <1>1 DEF CallInv, StackShape, Depth
<1>3. Len(stack') = d /\ \A j \in 1..d : stack'[j] = IF j = d THEN f ELSE stack[j]
  BY <1>1, <1>2
<1>4. Depth' = d
  BY <1>3 DEF Depth
<1>5. Top' = f /\ Lower' = Lower
  BY <1>1, <1>3, <1>4 DEF Top, Lower
<1>6. ASSUME Based(Depth), f.code = "native" => f.frames = Top.frames PROVE Based(Depth)'
  <2>1. \A i \in 1..d : /\ stack'[i].code = stack[i].code
                        /\ stack[i].code = "native" => stack'[i].frames = stack[i].frames
    BY <1>1, <1>3, <1>6 DEF Top
  <2>2. Based(d)'
    BY <1>1, <1>6, <2>1, StillBased
  <2> QED
    BY <1>4, <2>2
<1> QED
  BY <1>1, <1>4, <1>5, <1>6

\* The innermost call is covered by another one.
LEMMA TopCovered ==
  ASSUME CallInv, NEW f, NEW g, f.code = Top.code,
         stack' = Append([stack EXCEPT ![Depth] = f], g)
  PROVE  /\ Top' = g
         /\ Cardinality(Lower') = Cardinality(Lower) + (IF Top.code = "java" THEN 0 ELSE 1)
         /\ /\ Based(Depth) /\ (f.code = "native" => f.frames = Top.frames)
            /\ g.code = "native" => g.frames = Cardinality(Lower')
            => Based(Depth)'
<1>1. PICK d \in Nat \ {0} : d = Depth
  BY TopFacts
<1> DEFINE s == [stack EXCEPT ![d] = f]
<1>2. stack \in Seq(Frames \cup {f, g}) /\ Len(stack) = d /\ d \in 1..d
  BY <1>1 DEF CallInv, StackShape, Depth
<1>3. s \in Seq(Frames \cup {f, g}) /\ Len(s) = d /\ \A j \in 1..d : s[j] = IF j = d THEN f ELSE stack[j]
  BY <1>2
<1>4. stack' = Append(s, g)
  BY <1>1
<1> HIDE DEF s
<1>5. Len(stack') = d + 1 /\ stack'[d + 1] = g /\ \A j \in 1..d : stack'[j] = s[j]
  BY <1>3, <1>4
<1>6. Depth' = d + 1
  BY <1>5 DEF Depth
<1>7. Top' = g
  BY <1>5, <1>6 DEF Top
<1>8. \A j \in 1..d : stack'[j].code = stack[j].code
  BY <1>1, <1>3, <1>5 DEF Top
<1>9. Lower \subseteq 1..(d - 1) /\ Lower' \subseteq 1..d
  BY <1>1, <1>6 DEF Lower
<1>10. \A j \in 1..d : j \in Lower' <=> stack[j].code # "java"
  <2>1. Depth' - 1 = d /\ \A j \in 1..d : j \in 1..(Depth' - 1)
    BY <1>6
  <2> QED
    BY <1>8, <2>1 DEF Lower
<1>11. /\ \A j \in 1..(d - 1) : j \in Lower' <=> j \in Lower
       /\ d \in Lower' <=> Top.code # "java"
  <2>1. \A j \in 1..(d - 1) : j \in 1..d
    OBVIOUS
  <2>2. Top = stack[d] /\ d \in 1..d
    BY <1>1 DEF Top
  <2> QED
    BY <1>1, <1>10, <2>1, <2>2 DEF Lower
<1>12. Cardinality(Lower') = Cardinality(Lower) + (IF d \in Lower' THEN 1 ELSE 0)
  BY <1>9, <1>11, OneMore
<1>13. Cardinality(Lower) \in Nat
  BY <1>9, <1>11, OneMore
<1>14. ASSUME Based(Depth), f.code = "native" => f.frames = Top.frames,
              g.code = "native" => g.frames = Cardinality(Lower')
       PROVE  Based(Depth)'
  <2>1. \A i \in 1..d : /\ stack'[i].code = stack[i].code
                        /\ stack[i].code = "native" => stack'[i].frames = stack[i].frames
    BY <1>1, <1>3, <1>5, <1>8, <1>14 DEF Top
  <2>2. Based(d)'
    <3>1. Based(d) /\ d \in Nat /\ d <= d
      BY <1>1, <1>14
    <3> HIDE <1>14
    <3> QED
      BY <2>1, <3>1, StillBased
  <2>3. Under(d + 1)' = Lower'
    BY <1>6 DEF Under, Lower
  <2>4. ASSUME NEW i \in 1..(d + 1), stack'[i].code = "native"
        PROVE  stack'[i].frames = Cardinality(Under(i)')
    <3>1. CASE i = d + 1
      BY <1>5, <1>14, <2>3, <2>4, <3>1
    <3>2. CASE i # d + 1
      <4>1. i \in 1..d
        BY <3>2
      <4> QED
        BY <2>2, <2>4, <4>1 DEF Based
    <3> QED
      BY <3>1, <3>2
  <2> QED
    BY <1>6, <2>4 DEF Based
<1> QED
  BY <1>7, <1>11, <1>12, <1>13, <1>14

\* The innermost call ends: the one below it has its frame, if it is C++ code, and
\* makes no references where it stands.
LEMMA TopUncovered ==
  ASSUME CallInv, Depth > 1, stack' = PopOf(stack)
  PROVE  /\ Cardinality(Lower) = Cardinality(Lower') + (IF TopFramed' THEN 1 ELSE 0)
         /\ WrapperRefs' /\ (Based(Depth) => Based(Depth)')
         /\ Top.code # "java" => Top'.code # "wrapper" /\ (Top.code = "wrapper" => Top'.code = "native")
<1>1. PICK d \in Nat \ {0} :
        /\ d = Depth - 1 /\ d = Depth' /\ Top' = stack[d] /\ stack'[d] = stack[d]
        /\ Promises(d) /\ Answers(d) /\ Stands(d + 1) /\ stack[d+1] = Top /\ stack[d] \in Frames
        /\ d > 1 => stack'[d-1] = stack[d-1]
  BY Below
<1>2. \A i \in 1..d : stack'[i] = stack[i]
  BY <1>1, Uncovered
<1>3. /\ stack[d].code \in {"java", "wrapper", "native"}
      /\ stack[d].code = "wrapper" => stack[d].at = "called" /\ Top.code = "java"
      /\ Top.code = "wrapper" => stack[d].code = "native"
  <2>1. (d + 1) - 1 = d /\ Top.code \in {"java", "wrapper", "native"}
    BY <1>1, TopFacts, FrameKinds
  <2> QED
    BY <1>1, <2>1, FrameKinds DEF Stands
<1>4. TopFramed' <=> stack[d].code # "java"
  BY <1>1, <1>3 DEF TopFramed
<1>5. WrapperRefs'
  BY <1>1, <1>3 DEF WrapperRefs, BeforeCall
<1>6. Depth = d + 1
  BY <1>1, TopFacts
<1>7. Lower \subseteq 1..d /\ Lower' \subseteq 1..(d - 1)
  BY <1>1, <1>6 DEF Lower
<1>8. \A i \in 1..(d - 1) : i \in Lower <=> i \in Lower'
  <2>1. Depth - 1 = d
    BY <1>6
  <2>2. \A i \in 1..(d - 1) : i \in 1..d
    OBVIOUS
  <2>3. Depth' - 1 = d - 1
    BY <1>1
  <2> QED
    BY <1>2, <2>1, <2>2, <2>3 DEF Lower
<1>9. d \in Lower <=> stack[d].code # "java"
  BY <1>6 DEF Lower
<1>10. Cardinality(Lower) = Cardinality(Lower') + (IF d \in Lower THEN 1 ELSE 0)
  BY <1>7, <1>8, OneMore
<1>11. ASSUME Based(Depth) PROVE Based(Depth)'
  <2>1. d <= d + 1 /\ d + 1 \in Nat /\ Based(d + 1)
    BY <1>6, <1>11
  <2>2. Based(d)'
    BY <1>2, <2>1, StillBased
  <2> QED
    BY <1>1, <2>2
<1> QED
  BY <1>1, <1>3, <1>4, <1>5, <1>9, <1>10, <1>11
-----------------------------------------------------------------------------
\* The references of the innermost frame are given their number.
LEMMA RefsSet ==
  ASSUME localFrames \in Seq(0..10), Len(localFrames) > 0, NEW n \in 0..10, Refs(n)
  PROVE  localFrames' \in Seq(0..10) /\ Len(localFrames') = Len(localFrames) /\ Last' = n
<1> DEFINE l == Len(localFrames)
<1>1. l \in Nat \ {0} /\ l \in 1..l /\ localFrames' = [localFrames EXCEPT ![l] = n]
  BY DEF Refs
<1> HIDE DEF l
<1>2. localFrames' \in Seq(0..10) /\ Len(localFrames') = l /\ localFrames'[l] = n
  BY <1>1 DEF l
<1> QED
  BY <1>2 DEF l, Last

\* A C++ call that has its frame finds it on top.
LEMMA FrameOnTop ==
  ASSUME CallInv, FramesInv, TopFramed
  PROVE  Len(localFrames) \in Nat /\ Len(localFrames) > 0 /\ Last \in 0..10
<1>1. Cardinality(Lower) \in Nat
  BY LowerFinite
<1>2. Len(localFrames) \in Nat /\ Len(localFrames) > 0
  BY <1>1 DEF FramesInv, Counted
<1> QED
  BY <1>2 DEF FramesInv, Last

\* The innermost call goes on and its frame stays: the frames still count up.
LEMMA SameFrame ==
  ASSUME CallInv, FramesInv, inflight = None, NEW f, f.code = Top.code,
         f.code = "native" => f.frames = Top.frames, stack' = [stack EXCEPT ![Depth] = f],
         TopFramed' <=> TopFramed, Len(localFrames') = Len(localFrames)
  PROVE  Counted' /\ Based(Depth)'
<1>1. Lower' = Lower /\ Based(Depth)'
  BY TopRewritten DEF FramesInv
<1>2. Cardinality(Lower) \in Nat
  BY LowerFinite
<1> QED
  BY <1>1, <1>2 DEF FramesInv, Counted

\* Before an exception is thrown no frame is left over.
LEMMA NoneLeft ==
  ASSUME FramesInv, inflight = None \/ Top.code # "native"
  PROVE  Len(localFrames) = Cardinality(Lower) + (IF TopFramed THEN 1 ELSE 0)
BY DEF FramesInv, Counted

\* Of three arguments one is left to convert.
LEMMA DoneCount ==
  ASSUME NEW done \in SUBSET (1..3)
  PROVE  /\ Cardinality(done) \in 0..3 /\ Cardinality({}) = 0
         /\ \A i \in (1..3) \ done :
              /\ done \cup {i} \subseteq 1..3
              /\ Cardinality(done) \in 0..2 /\ Cardinality(done \cup {i}) = Cardinality(done) + 1
<1>1. IsFiniteSet(1..3) /\ Cardinality(1..3) = 3
  <2>1. 1 \in Int /\ 3 \in Int /\ ~(1 > 3) /\ 3 - 1 + 1 = 3
    OBVIOUS
  <2> QED
    BY <2>1, FS_Interval
<1>2. IsFiniteSet(done) /\ Cardinality(done) \in Nat /\ Cardinality(done) <= 3
  BY <1>1, FS_Subset, FS_CardinalityType
<1>3. ASSUME NEW i \in (1..3) \ done
      PROVE  /\ done \cup {i} \subseteq 1..3
             /\ Cardinality(done) \in 0..2 /\ Cardinality(done \cup {i}) = Cardinality(done) + 1
  <2>1. Cardinality(done \cup {i}) = Cardinality(done) + 1
    BY <1>2, FS_AddElement
  <2>2. done \cup {i} \in SUBSET (1..3)
    OBVIOUS
  <2>3. Cardinality(done \cup {i}) <= 3
    BY <1>1, <2>2, FS_Subset
  <2> QED
    BY <1>2, <2>1, <2>2, <2>3
<1> QED
  BY <1>2, <1>3, FS_EmptySet

\* The fields of a frame of C++ code that goes to another place.
LEMMA RewrittenFields ==
  ASSUME CallInv, Top.code # "java", NEW x, NEW d, NEW a
  PROVE  /\ LET f == [Top EXCEPT !.at = x] IN
              /\ f.code = Top.code /\ f.at = x /\ f.done = Top.done
              /\ f.code = "native" => f.frames = Top.frames
         /\ LET f == [Top EXCEPT !.done = d] IN
              /\ f.code = Top.code /\ f.at = Top.at /\ f.done = d
              /\ f.code = "native" => f.frames = Top.frames
         /\ LET f == [Top EXCEPT !.at = x, !.arg = a] IN
              /\ f.code = Top.code /\ f.at = x /\ f.done = Top.done /\ f.arg = a /\ f.sig = Top.sig
              /\ f.code = "native" => f.frames = Top.frames
<1>1. Top \in WrapperFrames \/ Top \in NativeFrames
  BY TopFacts, FrameKinds
<1> QED
  BY <1>1 DEF WrapperFrames, NativeFrames

\* How an argument's references come and go.
LEMMA PeakHeld ==
  ASSUME NEW kind
  PROVE  /\ Peak(kind) \in 0..2 /\ Held(kind) \in 0..1
         /\ Held(kind) <= Peak(kind) /\ (kind = "plain" => Peak(kind) = 0)
BY DEF Peak, Held

\* Converting an argument.
LEMMA ConvertArgFrames ==
  ASSUME CallInv, FramesInv, NEW i \in 1..3, ConvertArg(i)
  PROVE  FramesInv'
<1> DEFINE kind == Top.sig.args[i]
<1>1. /\ Top.code # "java" /\ inflight = None /\ Top.at = "args" /\ inflight' = inflight
      /\ i \notin Top.done
  BY DEF ConvertArg, InCpp
<1>2. Top.code \in {"wrapper", "native"} /\ TopFramed
  BY <1>1, TopFacts, FrameKinds DEF TopFramed
<1>3. Last \in 0..10 /\ Len(localFrames) > 0 /\ localFrames \in Seq(0..10)
  BY <1>2, FrameOnTop DEF FramesInv
<1>4. Top.code = "wrapper" =>
        /\ Top.done \subseteq 1..3 /\ Last <= Cardinality(Top.done)
        /\ Cardinality(Top.done) \in 0..2
        /\ Top.done \cup {i} \subseteq 1..3
        /\ Cardinality(Top.done \cup {i}) = Cardinality(Top.done) + 1
  BY <1>1, DoneCount DEF FramesInv, WrapperRefs, BeforeCall
<1>5. CASE kind = "plain"
  <2> DEFINE f == [Top EXCEPT !.done = Top.done \cup {i}]
  <2>1. stack' = [stack EXCEPT ![Depth] = f] /\ UNCHANGED <<localFrames, pending>>
    BY <1>5 DEF ConvertArg, Top
  <2>2. /\ f.code = Top.code /\ f.at = "args" /\ f.done = Top.done \cup {i}
        /\ f.code = "native" => f.frames = Top.frames
    BY <1>1, RewrittenFields
  <2> HIDE DEF f
  <2>3. Top' = f
    BY <2>1, <2>2, TopRewritten
  <2>4. TopFramed'
    BY <1>2, <2>2, <2>3 DEF TopFramed
  <2>5. Counted' /\ Based(Depth)'
    BY <1>1, <1>2, <2>1, <2>2, <2>4, SameFrame
  <2>6. Last' = Last
    BY <2>1 DEF Last
  <2>7. WrapperRefs'
    <3>1. Top'.code = Top.code /\ Top'.at = "args" /\ Top'.done = Top.done \cup {i}
      BY <2>2, <2>3
    <3>2. Top.code = "wrapper" => Top'.done \subseteq 1..3 /\ Last' <= Cardinality(Top'.done)
      BY <1>3, <1>4, <2>6, <3>1
    <3> QED
      BY <3>1, <3>2 DEF WrapperRefs
  <2> QED
    BY <1>3, <2>1, <2>5, <2>7 DEF FramesInv
<1>6. CASE kind # "plain"
  <2> DEFINE f == [Top EXCEPT !.at = "arg check", !.arg = i]
  <2>1. stack' = [stack EXCEPT ![Depth].at = "arg check", ![Depth].arg = i]
    BY <1>6 DEF ConvertArg
  <2>2. stack \in Seq(Frames) /\ Depth \in DOMAIN stack
    BY DEF CallInv, StackShape, Depth
  <2>3. stack' = [stack EXCEPT ![Depth] = f]
    BY <2>1, <2>2 DEF Top
  <2>4. /\ f.code = Top.code /\ f.at = "arg check" /\ f.done = Top.done /\ f.arg = i /\ f.sig = Top.sig
        /\ f.code = "native" => f.frames = Top.frames
    BY <1>1, RewrittenFields
  <2> HIDE DEF f
  <2>5. Top' = f
    BY <2>3, <2>4, TopRewritten
  <2>6. TopFramed'
    BY <1>2, <2>4, <2>5 DEF TopFramed
  <2>7. CASE Top.code = "native"
    <3>1. UNCHANGED localFrames
      BY <1>6, <2>7 DEF ConvertArg
    <3>2. Counted' /\ Based(Depth)'
      BY <1>1, <1>2, <2>3, <2>4, <2>6, <3>1, SameFrame
    <3> QED
      BY <1>3, <2>4, <2>5, <2>7, <3>1, <3>2 DEF FramesInv, WrapperRefs
  <2>8. CASE Top.code = "wrapper"
    <3> DEFINE n == Last + Peak(kind)
    <3>1. Refs(n)
      BY <1>6, <2>8 DEF ConvertArg, Last
    <3>2. n \in 0..10 /\ n - Peak(kind) \in 0..Cardinality(Top.done)
      BY <1>3, <1>4, <2>8, PeakHeld
    <3> HIDE DEF n
    <3>3. localFrames' \in Seq(0..10) /\ Len(localFrames') = Len(localFrames) /\ Last' = n
      BY <1>3, <3>1, <3>2, RefsSet
    <3>4. Counted' /\ Based(Depth)'
      BY <1>1, <1>2, <2>3, <2>4, <2>6, <3>3, SameFrame
    <3>5. WrapperRefs'
      BY <1>1, <1>4, <2>4, <2>5, <2>8, <3>2, <3>3 DEF WrapperRefs, BeforeCall
    <3> QED
      BY <3>3, <3>4, <3>5 DEF FramesInv
  <2> QED
    BY <1>2, <2>7, <2>8
<1> QED
  BY <1>5, <1>6

\* The check behind it, after which the references of the list's element are gone.
LEMMA CheckArgFrames ==
  ASSUME CallInv, FramesInv, CheckArg
  PROVE  FramesInv'
<1> DEFINE kind == Top.sig.args[Top.arg]
           d == Top.done \cup {Top.arg}
           f == [Top EXCEPT !.at = "args", !.done = d]
<1>1. /\ Top.code # "java" /\ Top.at = "arg check" /\ inflight = None
      /\ stack' = [stack EXCEPT ![Depth].at = "args", ![Depth].done = @ \cup {Top.arg}]
  BY DEF CheckArg, InCpp
<1>2. stack \in Seq(Frames) /\ Depth \in DOMAIN stack
  BY DEF CallInv, StackShape, Depth
<1>3. stack[Depth].at = "arg check" /\ stack[Depth].code # "java" /\ Top \in Frames
  BY <1>1, TopFacts DEF Top
<1>4. stack' = [stack EXCEPT ![Depth] = f]
  BY <1>1, <1>2, <1>3 DEF Top
<1>5. /\ f.code = Top.code /\ f.at = "args" /\ f.done = Top.done \cup {Top.arg}
      /\ f.code = "native" => f.frames = Top.frames
  <2>1. Top \in WrapperFrames \/ Top \in NativeFrames
    BY <1>1, TopFacts, FrameKinds
  <2> QED
    BY <2>1 DEF WrapperFrames, NativeFrames
<1> HIDE DEF f, d
<1>6. Top' = f
  BY <1>4, <1>5, TopRewritten
<1>7. Top.code \in {"wrapper", "native"} /\ TopFramed
  BY <1>1, TopFacts, FrameKinds DEF TopFramed
<1>8. TopFramed'
  BY <1>5, <1>6, <1>7 DEF TopFramed
<1>9. Last \in 0..10 /\ Len(localFrames) > 0 /\ localFrames \in Seq(0..10)
  BY <1>7, FrameOnTop DEF FramesInv
<1>10. CASE Top.code = "native"
  <2>1. UNCHANGED localFrames
    BY <1>10 DEF CheckArg
  <2>2. Counted' /\ Based(Depth)'
    BY <1>1, <1>4, <1>5, <1>7, <1>8, <2>1, SameFrame
  <2> QED
    BY <1>5, <1>6, <1>9, <1>10, <2>1, <2>2 DEF FramesInv, WrapperRefs
<1>11. CASE Top.code = "wrapper"
  <2> DEFINE n == Last - Peak(kind) + Held(kind)
  <2>1. Refs(n)
    BY <1>11 DEF CheckArg, Last
  <2>2. /\ Top.done \subseteq 1..3 /\ Top.arg \in (1..3) \ Top.done
        /\ Last - Peak(kind) \in 0..Cardinality(Top.done)
    BY <1>1, <1>11 DEF FramesInv, WrapperRefs, BeforeCall
  <2>3. /\ Cardinality(Top.done) \in 0..2 /\ f.done \subseteq 1..3
        /\ Cardinality(f.done) = Cardinality(Top.done) + 1
    BY <1>5, <2>2, DoneCount
  <2>4. n \in 0..10 /\ n <= Cardinality(f.done)
    <3> DEFINE c == Cardinality(Top.done)
               m == Last - Peak(kind)
    <3>1. c \in 0..2 /\ m \in 0..c /\ Cardinality(f.done) = c + 1
      BY <2>2, <2>3
    <3>2. Held(kind) \in 0..1
      BY PeakHeld
    <3>3. n = m + Held(kind)
      OBVIOUS
    <3> HIDE DEF c, m, n
    <3> QED
      BY <3>1, <3>2, <3>3
  <2> HIDE DEF n
  <2>5. localFrames' \in Seq(0..10) /\ Len(localFrames') = Len(localFrames) /\ Last' = n
    BY <1>9, <2>1, <2>4, RefsSet
  <2>6. Counted' /\ Based(Depth)'
    BY <1>1, <1>4, <1>5, <1>7, <1>8, <2>5, SameFrame
  <2>7. WrapperRefs'
    BY <1>5, <1>6, <2>3, <2>4, <2>5 DEF WrapperRefs, BeforeCall
  <2> QED
    BY <2>5, <2>6, <2>7 DEF FramesInv
<1> QED
  BY <1>7, <1>10, <1>11

\* The innermost C++ call leaves its arguments behind: it makes no more references.
LEMMA GotoFrames ==
  ASSUME CallInv, FramesInv, inflight = None, Top.code # "java", TopFramed, NEW x, x \notin BeforeCall, Goto(x),
         localFrames' \in Seq(0..10), Len(localFrames') = Len(localFrames)
  PROVE  FramesInv'
<1> DEFINE f == [Top EXCEPT !.at = x]
<1>1. stack' = [stack EXCEPT ![Depth] = f]
  BY DEF Goto, Top
<1>2. f.code = Top.code /\ f.at = x /\ (f.code = "native" => f.frames = Top.frames)
  BY RewrittenFields
<1> HIDE DEF f
<1>3. Top' = f
  BY <1>1, <1>2, TopRewritten
<1>4. TopFramed' /\ WrapperRefs'
  BY <1>2, <1>3, TopFacts, FrameKinds DEF TopFramed, WrapperRefs, BeforeCall
<1>5. Counted' /\ Based(Depth)'
  BY <1>1, <1>2, <1>4, SameFrame
<1> QED
  BY <1>4, <1>5 DEF FramesInv

\* Results, and the end of a native method's body.
LEMMA ResultFrames ==
  ASSUME CallInv, FramesInv, ConvertResult \/ CheckResult \/ EndBody
  PROVE  FramesInv'
<1>1. PICK x \in {"resolve", "result", "result check", "leave"} : Goto(x)
  BY DEF ConvertResult, CheckResult, EndBody
<1>2. /\ Top.code # "java" /\ Top.at # "push" /\ inflight = None /\ UNCHANGED localFrames
      /\ localFrames \in Seq(0..10)
  BY DEF ConvertResult, CheckResult, EndBody, InNative, InCpp, Converted, FramesInv
<1>3. TopFramed
  BY <1>2, TopFacts, FrameKinds DEF TopFramed
<1>4. x \notin BeforeCall
  BY DEF BeforeCall
<1> QED
  BY <1>1, <1>2, <1>3, <1>4, GotoFrames

\* After the call into Java only the result's reference is left.
LEMMA CheckCallFrames ==
  ASSUME CallInv, FramesInv, CheckCall
  PROVE  FramesInv'
<1>1. PICK x \in {"result", "leave"} : Goto(x)
  BY DEF CheckCall
<1>2. PICK n \in 0..1 : Refs(n)
  BY DEF CheckCall
<1>3. Top.code = "wrapper" /\ Top.at = "called" /\ inflight = None
  BY DEF CheckCall, InWrapper, InCpp
<1>4. TopFramed /\ x \notin BeforeCall
  BY <1>3 DEF TopFramed, BeforeCall
<1>5. Len(localFrames) > 0 /\ localFrames \in Seq(0..10) /\ n \in 0..10
  BY <1>4, FrameOnTop DEF FramesInv
<1>6. localFrames' \in Seq(0..10) /\ Len(localFrames') = Len(localFrames)
  BY <1>2, <1>5, RefsSet
<1> QED
  BY <1>1, <1>3, <1>4, <1>6, GotoFrames

\* The call stays where it is, and its exception is thrown.
LEMMA ThrownFrames ==
  ASSUME CallInv, FramesInv, inflight = None, UNCHANGED <<stack, localFrames>>
  PROVE  FramesInv'
<1>1. Top' = Top /\ Depth' = Depth
  BY DEF Top, Depth
<1>2. Lower' = Lower /\ Based(Depth)' /\ (TopFramed' <=> TopFramed) /\ WrapperRefs'
  BY <1>1 DEF Lower, Based, Under, TopFramed, WrapperRefs, Last, FramesInv
<1>3. Cardinality(Lower) \in Nat
  BY LowerFinite
<1> QED
  BY <1>2, <1>3 DEF FramesInv, Counted

\* The frame is pushed, or the call fails and its scope throws.
LEMMA PushFrames ==
  ASSUME CallInv, FramesInv, PushLocalFrame
  PROVE  FramesInv'
<1> DEFINE f == [Top EXCEPT !.at = "pushed"]
<1>1. /\ Top.code = "wrapper" /\ Top.at = "push" /\ inflight = None
      /\ \/ stack' = [stack EXCEPT ![Depth] = f] /\ localFrames' = Append(localFrames, 0)
         \/ UNCHANGED <<stack, localFrames>>
  BY DEF PushLocalFrame, InWrapper, InCpp, Goto, Top
<1>2. CASE UNCHANGED <<stack, localFrames>>
  BY <1>1, <1>2, ThrownFrames
<1>3. CASE stack' = [stack EXCEPT ![Depth] = f] /\ localFrames' = Append(localFrames, 0)
  <2>1. f.code = "wrapper" /\ f.at = "pushed" /\ f.done = Top.done
    BY <1>1, RewrittenFields
  <2> HIDE DEF f
  <2>2. Top' = f /\ Lower' = Lower /\ Based(Depth)'
    BY <1>1, <1>3, <2>1, TopRewritten DEF FramesInv
  <2>3. ~TopFramed /\ TopFramed'
    BY <1>1, <2>1, <2>2 DEF TopFramed
  <2>4. localFrames \in Seq(0..10) /\ 0 \in 0..10
    BY DEF FramesInv
  <2>5. /\ localFrames' \in Seq(0..10) /\ Len(localFrames') = Len(localFrames) + 1
        /\ Last' = 0
    <3>1. /\ Append(localFrames, 0) \in Seq(0..10)
          /\ Len(Append(localFrames, 0)) = Len(localFrames) + 1
          /\ Append(localFrames, 0)[Len(localFrames) + 1] = 0
      BY <2>4
    <3> QED
      BY <1>3, <3>1 DEF Last
  <2>6. Counted'
    <3>1. Cardinality(Lower) \in Nat
      BY LowerFinite
    <3>2. Len(localFrames) = Cardinality(Lower)
      BY <1>1, <2>3, <3>1, NoneLeft
    <3> QED
      BY <2>2, <2>3, <2>5, <3>1, <3>2 DEF Counted
  <2>7. WrapperRefs'
    <3>1. Top.done = {}
      BY <1>1 DEF FramesInv, WrapperRefs
    <3> QED
      BY <2>1, <2>2, <2>5, <3>1 DEF WrapperRefs
  <2> QED
    BY <2>2, <2>5, <2>6, <2>7 DEF FramesInv
<1> QED
  BY <1>1, <1>2, <1>3

\* The assertion behind the push.
LEMMA CheckPushFrames ==
  ASSUME CallInv, FramesInv, CheckPush
  PROVE  FramesInv'
<1>1. /\ Top.code = "wrapper" /\ Top.at = "pushed" /\ inflight = None /\ UNCHANGED localFrames
  BY DEF CheckPush, InWrapper, InCpp
<1>2. localFrames' \in Seq(0..10) /\ Top.done = {} /\ Last = 0
  BY <1>1 DEF FramesInv, WrapperRefs
<1>3. CASE pending = None
  <2> DEFINE f == [Top EXCEPT !.at = "args"]
  <2>1. stack' = [stack EXCEPT ![Depth] = f]
    BY <1>3 DEF CheckPush, Goto, Top
  <2>2. f.code = "wrapper" /\ f.at = "args" /\ f.done = {}
    BY <1>1, <1>2, RewrittenFields
  <2> HIDE DEF f
  <2>3. Top' = f
    BY <1>1, <2>1, <2>2, TopRewritten
  <2>4. TopFramed /\ TopFramed'
    BY <1>1, <2>2, <2>3 DEF TopFramed
  <2>5. Counted' /\ Based(Depth)'
    BY <1>1, <2>1, <2>2, <2>4, SameFrame
  <2>6. Last' = 0 /\ Cardinality({}) = 0
    BY <1>1, <1>2, FS_EmptySet DEF Last
  <2>7. WrapperRefs'
    <3>1. Top'.at = "args" /\ Top'.done = {} /\ Last' <= Cardinality(Top'.done)
      BY <2>2, <2>3, <2>6
    <3>2. Top'.done \subseteq 1..3
      BY <3>1
    <3> QED
      BY <3>1, <3>2 DEF WrapperRefs
  <2> QED
    BY <1>2, <2>5, <2>7 DEF FramesInv
<1>4. CASE pending # None
  <2>1. UNCHANGED stack
    BY <1>4 DEF CheckPush
  <2> QED
    BY <1>1, <2>1, ThrownFrames
<1> QED
  BY <1>3, <1>4

\* A native method's frame is there when it is called, a proxy method's not yet.
LEMMA CoverFrames ==
  ASSUME CallInv, FramesInv,
         CallJava \/ (\E m \in SigsOf(TestModule) : CallNative(m))
           \/ Resolve \/ \E sig \in Wrappers : HaxeCalls(sig)
  PROVE  FramesInv'
<1>1. /\ localFrames \in Seq(0..10) /\ Len(localFrames) \in Nat /\ Cardinality(Lower) \in Nat
      /\ Based(Depth)
  BY LowerFinite DEF FramesInv
<1>2. ASSUME NEW m \in SigsOf(TestModule), CallNative(m) PROVE FramesInv'
  <2> DEFINE g == NativeFrame(m)
  <2>1. Top.code = "java" /\ stack' = Append(stack, g) /\ localFrames' = Append(localFrames, 0)
    BY <1>2 DEF CallNative, InJava
  <2>2. g.code = "native" /\ g.frames = Len(localFrames)
    BY DEF NativeFrame
  <2> HIDE DEF g
  <2>3. stack' = Append([stack EXCEPT ![Depth] = Top], g)
    BY <2>1, TopFacts DEF CallInv, StackShape, Top, Depth
  <2>4. ~TopFramed /\ Len(localFrames) = Cardinality(Lower)
    <3>1. ~TopFramed
      BY <2>1 DEF TopFramed
    <3> QED
      BY <1>1, <2>1, <3>1, NoneLeft
  <2>5. Top' = g /\ Cardinality(Lower') = Cardinality(Lower) /\ Based(Depth)'
    BY <1>1, <2>1, <2>2, <2>3, <2>4, TopCovered
  <2>6. TopFramed' /\ WrapperRefs'
    BY <2>1, <2>2, <2>5 DEF TopFramed, WrapperRefs
  <2>7. localFrames' \in Seq(0..10) /\ Len(localFrames') = Len(localFrames) + 1
    BY <1>1, <2>1
  <2> QED
    BY <1>1, <2>4, <2>5, <2>6, <2>7 DEF FramesInv, Counted
<1>3. CASE CallJava
  <2> DEFINE f == [Top EXCEPT !.at = "called"]
             g == JavaFrame(Top.promise)
  <2>1. /\ Top.code = "wrapper" /\ Top.at = "args" /\ UNCHANGED localFrames /\ inflight = None
        /\ stack' = Append([stack EXCEPT ![Depth] = f], g)
    BY <1>3 DEF CallJava, InWrapper, InCpp, Converted, Top
  <2>2. f.code = Top.code /\ g.code = "java"
    BY <2>1, RewrittenFields DEF JavaFrame
  <2> HIDE DEF f, g
  <2>3. Top' = g /\ Cardinality(Lower') = Cardinality(Lower) + 1 /\ Based(Depth)'
    BY <1>1, <2>1, <2>2, TopCovered
  <2>4. TopFramed /\ ~TopFramed' /\ WrapperRefs'
    BY <2>1, <2>2, <2>3 DEF TopFramed, WrapperRefs
  <2>5. Len(localFrames) = Cardinality(Lower) + 1
    BY <1>1, <2>1, <2>4, NoneLeft
  <2> QED
    BY <1>1, <2>1, <2>3, <2>4, <2>5 DEF FramesInv, Counted
<1>4. ASSUME NEW sig, NEW p, InNative, CallWrapper(sig, p) PROVE FramesInv'
  <2> DEFINE f == [Top EXCEPT !.at = IF p = 0 THEN "args" ELSE "leave"]
             g == WrapperFrame(sig, p)
  <2>1. /\ Top.code = "native" /\ inflight = None /\ UNCHANGED <<localFrames, inflight>>
        /\ stack' = Append([stack EXCEPT ![Depth] = f], g)
    BY <1>4 DEF InNative, InCpp, CallWrapper, Top, exceptions
  <2>2. /\ f.code = Top.code /\ f.frames = Top.frames
        /\ g.code = "wrapper" /\ g.at = "push" /\ g.done = {}
    BY <2>1, RewrittenFields DEF WrapperFrame
  <2> HIDE DEF f, g
  <2>3. Top' = g /\ Cardinality(Lower') = Cardinality(Lower) + 1 /\ Based(Depth)'
    BY <1>1, <2>1, <2>2, TopCovered
  <2>4. TopFramed /\ ~TopFramed'
    BY <2>1, <2>2, <2>3 DEF TopFramed
  <2>5. WrapperRefs'
    BY <2>1, <2>2, <2>3 DEF WrapperRefs, BeforeCall
  <2>6. Len(localFrames) = Cardinality(Lower) + 1
    BY <1>1, <2>1, <2>4, NoneLeft
  <2> QED
    BY <1>1, <2>1, <2>3, <2>4, <2>5, <2>6 DEF FramesInv, Counted
<1> QED
  BY <1>2, <1>3, <1>4 DEF Resolve, HaxeCalls

\* A sequence without its last item.
LEMMA LastDropped ==
  ASSUME NEW S, NEW s \in Seq(S), Len(s) > 0
  PROVE  PopOf(s) \in Seq(S) /\ Len(PopOf(s)) = Len(s) - 1
<1>1. PICK n \in Nat : n = Len(s) - 1
  BY LenProperties
<1>2. 1 \in Int /\ n \in Int /\ (1 <= n => n - 1 + 1 = n) /\ (~(1 <= n) => n = 0)
  OBVIOUS
<1>3. \A i \in 1..n : s[i] \in S
  BY <1>1, ElementOfSeq, LenProperties
<1>4. SubSeq(s, 1, n) \in Seq(S) /\ Len(SubSeq(s, 1, n)) = n
  BY <1>2, <1>3, SubSeqProperties
<1> QED
  BY <1>1, <1>4 DEF PopOf

\* The first items of a sequence.
LEMMA FirstKept ==
  ASSUME NEW S, NEW s \in Seq(S), NEW n \in Nat, n <= Len(s)
  PROVE  SubSeq(s, 1, n) \in Seq(S) /\ Len(SubSeq(s, 1, n)) = n
<1>1. 1 \in Int /\ n \in Int /\ (1 <= n => n - 1 + 1 = n) /\ (~(1 <= n) => n = 0)
  OBVIOUS
<1>2. \A i \in 1..n : s[i] \in S
  BY ElementOfSeq, LenProperties
<1> QED
  BY <1>1, <1>2, SubSeqProperties

\* A call takes its own frame away when it ends, however it ends, but for that of a
\* scope whose constructor has thrown.
LEMMA LeaveFrames ==
  ASSUME CallInv, FramesInv, JavaReturn \/ LeaveWrapper \/ LeaveNative
  PROVE  FramesInv'
<1>1. /\ localFrames \in Seq(0..10) /\ Len(localFrames) \in Nat /\ Cardinality(Lower) \in Nat
      /\ Based(Depth)
  BY LowerFinite DEF FramesInv
<1>2. Depth > 1 /\ stack' = PopOf(stack) =>
        /\ Cardinality(Lower) = Cardinality(Lower') + (IF TopFramed' THEN 1 ELSE 0)
        /\ WrapperRefs' /\ Based(Depth)'
        /\ Top.code = "wrapper" => Top'.code = "native"
  BY <1>1, TopUncovered
<1>3. CASE JavaReturn
  <2>1. /\ Top.code = "java" /\ Depth > 1 /\ stack' = PopOf(stack) /\ UNCHANGED localFrames
    BY <1>3 DEF JavaReturn, InJava
  <2>2. ~TopFramed
    BY <2>1 DEF TopFramed
  <2>3. Len(localFrames) = Cardinality(Lower)
    BY <1>1, <2>1, <2>2, NoneLeft
  <2> QED
    BY <1>1, <1>2, <2>1, <2>3 DEF FramesInv, Counted
<1>4. CASE LeaveWrapper
  <2>1. /\ Top.code = "wrapper" /\ (Top.at = "leave" \/ inflight # None) /\ UNCHANGED inflight
        /\ stack' = PopOf(stack)
        /\ localFrames' = IF FrameIsOpen(Top) THEN PopOf(localFrames) ELSE localFrames
    BY <1>4 DEF LeaveWrapper, exceptions
  <2>2. Depth > 1
    BY <2>1, TopFacts
  <2>3. Len(localFrames) = Cardinality(Lower) + (IF TopFramed THEN 1 ELSE 0)
    BY <2>1, NoneLeft
  <2>4. CASE FrameIsOpen(Top)
    <3>1. TopFramed
      BY <2>1, <2>4 DEF FrameIsOpen, TopFramed
    <3>2. localFrames' = PopOf(localFrames) /\ Len(localFrames) > 0
      BY <1>1, <2>1, <2>3, <2>4, <3>1
    <3>3. localFrames' \in Seq(0..10) /\ Len(localFrames') = Len(localFrames) - 1
      BY <1>1, <3>2, LastDropped
    <3> QED
      BY <1>1, <1>2, <2>1, <2>2, <2>3, <3>1, <3>3 DEF FramesInv, Counted
  <2>5. CASE ~FrameIsOpen(Top)
    <3>1. inflight' # None /\ UNCHANGED localFrames
      BY <2>1, <2>5 DEF FrameIsOpen
    <3> QED
      BY <1>1, <1>2, <2>1, <2>2, <2>3, <3>1 DEF FramesInv, Counted
  <2> QED
    BY <2>4, <2>5
<1>5. CASE LeaveNative
  <2>1. Top.code = "native" /\ Depth > 1 /\ TopFramed
    BY <1>5, TopFacts DEF LeaveNative, TopFramed
  <2>2. CASE UNCHANGED <<stack, localFrames, exceptions>>
    <3>1. Top' = Top /\ Depth' = Depth /\ UNCHANGED <<stack, localFrames, inflight>>
      BY <2>2 DEF Top, Depth, exceptions
    <3> QED
      BY <3>1 DEF FramesInv, Counted, Based, Under, Lower, TopFramed, WrapperRefs, Last
  <2>3. CASE ReturnToJava
    <3>1. stack' = PopOf(stack) /\ localFrames' = SubSeq(localFrames, 1, Top.frames)
      BY <2>3 DEF ReturnToJava
    <3>2. Top.frames = Cardinality(Lower) /\ Cardinality(Lower) <= Len(localFrames)
      <4>1. Top = stack[Depth] /\ Depth \in 1..Depth /\ Under(Depth) = Lower
        BY TopFacts DEF Under, Lower
      <4>2. Top.frames = Cardinality(Lower)
        BY <1>1, <2>1, <4>1 DEF Based
      <4> QED
        BY <1>1, <4>2 DEF FramesInv, Counted
    <3>3. localFrames' \in Seq(0..10) /\ Len(localFrames') = Cardinality(Lower)
      BY <1>1, <3>1, <3>2, FirstKept
    <3> QED
      BY <1>1, <1>2, <2>1, <3>1, <3>3 DEF FramesInv, Counted
  <2> QED
    BY <1>5, <2>2, <2>3 DEF LeaveNative
<1> QED
  BY <1>3, <1>4, <1>5

\* Java code, and what native methods throw, leave the frames alone.
LEMMA OtherFrames ==
  ASSUME CallInv, FramesInv,
         \/ Settle \/ JavaCatch \/ \E e \in Throwables : JavaThrow(e)
         \/ \E e \in {"std", "haxe"} : CppThrows(e)
  PROVE  FramesInv'
<1>1. CASE UNCHANGED stack
  <2>1. UNCHANGED localFrames /\ (Top.code = "java" \/ inflight = None)
    BY DEF Settle, JavaCatch, JavaThrow, CppThrows, InJava, InNative, InCpp
  <2>2. inflight = None
    BY <2>1 DEF CallInv, Pending, ExceptionTravels
  <2> QED
    BY <1>1, <2>1, <2>2, ThrownFrames
<1>2. CASE Settle
  <2>1. PICK d \in Nat : d = Depth
    BY TopFacts
  <2>2. /\ Top.code = "java" /\ Top.promise # 0 /\ UNCHANGED localFrames
        /\ stack' = [stack EXCEPT ![Top.promise].settled = @ + 1, ![Depth] = JavaFrame(0)]
    BY <1>2 DEF Settle, InJava
  <2>3. d > 2 /\ Top.promise = d - 2 /\ stack \in Seq(Frames) /\ Len(stack) = d
    BY <2>1, <2>2, TopFacts DEF Promises, CallInv, StackShape, Depth
  <2> DEFINE h == [stack[d-2] EXCEPT !.settled = @ + 1]
             g == JavaFrame(0)
  <2>4. stack' = [stack EXCEPT ![d-2] = h, ![d] = g]
    BY <2>1, <2>2, <2>3
  <2>5. /\ h.code = stack[d-2].code /\ g.code = "java"
        /\ stack[d-2].code = "native" => h.frames = stack[d-2].frames
    <3>1. d - 2 \in 1..Len(stack)
      BY <2>3
    <3>2. stack[d-2] \in Frames
      BY <2>3, <3>1
    <3> QED
      BY <3>2 DEF Frames, JavaFrames, WrapperFrames, NativeFrames, JavaFrame
  <2> HIDE DEF h, g
  <2>6. Len(stack') = d /\ \A i \in 1..d : stack'[i] = IF i = d THEN g ELSE IF i = d - 2 THEN h ELSE stack[i]
    BY <2>3, <2>4
  <2>7. Depth' = d
    BY <2>6 DEF Depth
  <2>8. stack[d].code = "java"
    BY <2>1, <2>2, TopFacts
  <2>9. \A i \in 1..d : /\ stack'[i].code = stack[i].code
                        /\ stack[i].code = "native" => stack'[i].frames = stack[i].frames
    BY <2>3, <2>5, <2>6, <2>8
  <2>10. Top'.code = "java"
    BY <2>3, <2>5, <2>6, <2>7 DEF Top
  <2>11. Lower' = Lower
    BY <2>1, <2>7, <2>9 DEF Lower
  <2>12. Based(Depth)'
    <3>1. Based(d)'
      BY <2>1, <2>9, StillBased DEF FramesInv
    <3> QED
      BY <2>7, <3>1
  <2>13. ~TopFramed /\ ~TopFramed' /\ WrapperRefs'
    BY <2>2, <2>10 DEF TopFramed, WrapperRefs
  <2>14. Len(localFrames) = Cardinality(Lower)
    BY <2>2, <2>13, LowerFinite, NoneLeft
  <2> QED
    BY <2>2, <2>11, <2>12, <2>13, <2>14, LowerFinite DEF FramesInv, Counted
<1> QED
  BY <1>1, <1>2 DEF JavaCatch, JavaThrow, CppThrows

\* A thread begins with no local frames of its own.
LEMMA FramesStart == Init => FramesInv
<1> SUFFICES ASSUME Init PROVE FramesInv
  OBVIOUS
<1>1. Top.code = "java" /\ Depth = 1 /\ stack[1].code = "java" /\ localFrames = <<>>
  BY DEF Init, Top, Depth, JavaFrame
<1>2. Lower = {} /\ ~TopFramed /\ Based(Depth)
  BY <1>1 DEF Lower, TopFramed, Based
<1> QED
  BY <1>1, <1>2, FS_EmptySet DEF FramesInv, Counted, WrapperRefs

\* Every step of the thread keeps its frames in order.
LEMMA FramesStep == CallInv /\ FramesInv /\ [Next]_vars => FramesInv'
<1> SUFFICES ASSUME CallInv, FramesInv, [Next]_vars PROVE FramesInv'
  OBVIOUS
<1>1. CASE UNCHANGED vars
  <2>1. Top' = Top /\ Depth' = Depth /\ UNCHANGED <<stack, localFrames, inflight>>
    BY <1>1 DEF vars, exceptions, Top, Depth
  <2> QED
    BY <2>1 DEF FramesInv, Counted, Based, Under, Lower, TopFramed, WrapperRefs, Last
<1>2. CASE Next
  BY <1>1, <1>2, ConvertArgFrames, CheckArgFrames, ResultFrames, CheckCallFrames, PushFrames,
     CheckPushFrames, CoverFrames, LeaveFrames, OtherFrames DEF Next
<1> QED
  BY <1>1, <1>2
-----------------------------------------------------------------------------
\* What holds of the frames, the exceptions and the promises together, however deep
\* Java and C++ call each other. A native method remembers how many local frames it
\* found, so neither half is inductive without the other.
THEOREM CallInvariance == Spec => [](CallInv /\ FramesInv)
<1>1. Init => CallInv /\ FramesInv
  BY CallStart, FramesStart
<1>2. CallInv /\ FramesInv /\ [Next]_vars => (CallInv /\ FramesInv)'
  <2> SUFFICES ASSUME CallInv, FramesInv, [Next]_vars PROVE (CallInv /\ FramesInv)'
    OBVIOUS
  <2>1. Len(localFrames) \in Nat
    BY DEF FramesInv
  <2> QED
    BY <2>1, CallStep, FramesStep
<1> QED
  BY <1>1, <1>2, PTL DEF Spec

\* Only throwables are ever pending, and a promise is told at most once.
THEOREM CallTypes == Spec => []TypeOK
<1>1. Init => EndedType
  BY DEF Init, EndedType
<1>2. CallInv /\ EndedType => TypeOK
  <2> SUFFICES ASSUME CallInv, EndedType PROVE TypeOK
    OBVIOUS
  <2>1. ASSUME NEW i \in 1..Depth
        PROVE  /\ stack[i].code \in {"java", "wrapper", "native"}
               /\ stack[i].code = "native" => stack[i].settled \in {0, 1}
    <3>1. stack[i] \in Frames
      BY DEF CallInv, StackShape, Depth
    <3> QED
      BY <3>1, FrameKinds DEF NativeFrames
  <2> QED
    BY <2>1, StackFits DEF TypeOK, CallInv, Pending, EndedType
<1> QED
  BY <1>1, <1>2, EndedStep, CallInvariance, PTL DEF Spec

\* No JNI function that may run code is called while an exception is pending that the
\* code has looked for or will: not by the conversions, nor by the destructors and
\* catch clauses as one unwinds. Only the unread exception of GetStringChars and a
\* class that is not found for the catch clause are met.
THEOREM NeverCalledWhilePending == Spec => []NoCallWhilePending
<1>1. CallInv => NoCallWhilePending
  BY DEF CallInv, Pending, NoCallWhilePending
<1> QED
  BY <1>1, CallInvariance, PTL

\* Over any number of boundaries an exception arrives as what was last thrown, or as the
\* RuntimeException that stands for a std::exception, also where the JVM throws one of
\* its own while C++ makes that, or while C++ reads a string.
THEOREM ExceptionsTravel == Spec => []ExceptionTravels
<1>1. CallInv => ExceptionTravels
  BY DEF CallInv, Pending
<1> QED
  BY <1>1, CallInvariance, PTL

\* A module method that returns has settled its promise exactly once.
THEOREM ReturnsSettle == Spec => ReturnsMeanSettled
<1> DEFINE Settles ==
      Running /\ Top.code = "native" /\ Len(stack') < Depth =>
        /\ Top.settled \in {0, 1}
        /\ pending' = None => Top.settled = IF Top.sig.settles = Nobody THEN 0 ELSE 1
<1>1. CallInv /\ FramesInv /\ [Next]_vars => [Settles]_vars
  <2> SUFFICES ASSUME CallInv, FramesInv, Next, Running, Top.code = "native", Len(stack') < Depth
               PROVE  /\ Top.settled \in {0, 1}
                      /\ pending' = None => Top.settled = IF Top.sig.settles = Nobody THEN 0 ELSE 1
    OBVIOUS
  <2>1. /\ Top \in NativeFrames /\ Depth \in Nat \ {0} /\ Top = stack[Depth] /\ Answers(Depth)
        /\ stack \in Seq(Frames) /\ Len(localFrames) \in Nat
    BY TopFacts, FrameKinds DEF CallInv, StackShape, FramesInv
  <2>2. Top.settled \in {0, 1}
    BY <2>1 DEF NativeFrames
  <2>3. ASSUME pending' = None PROVE Top.settled = IF Top.sig.settles = Nobody THEN 0 ELSE 1
    <3>1. LeaveNative
      BY <2>1, OnlyLeavingPops
    <3>2. Top.at = "leave" \/ inflight # None
      BY <3>1 DEF LeaveNative
    <3>3. ~UNCHANGED stack
      BY <2>1 DEF Depth
    <3>4. /\ IsStdException(inflight)
          /\ \/ /\ pending' = IF inflight = None THEN pending ELSE JavaExceptionFor(inflight)
                /\ misuse' = misuse \cup UsesJvm /\ UNCHANGED current
             \/ TranslationFails
      BY <3>1, <3>3 DEF LeaveNative
    <3>5. inflight = None
      BY <2>3, <3>2, <3>4, LeaveShows DEF CallInv
    <3> QED
      BY <2>1, <3>2, <3>5 DEF Answers
  <2> QED
    BY <2>2, <2>3
<1> QED
  BY <1>1, CallInvariance, PTL DEF Spec, ReturnsMeanSettled

\* Every local frame is popped once, by the call that pushed it, however that call
\* ends, but for the frame of a scope whose constructor throws, and no proxy method
\* ever holds more references than it asked room for.
THEOREM FramesAreBalanced == Spec => []FramesBalanced
<1>1. CallInv /\ FramesInv => FramesBalanced
  <2> SUFFICES ASSUME CallInv, FramesInv PROVE FramesBalanced
    OBVIOUS
  <2>1. localFrames \in Seq(0..10) /\ Counted
    BY DEF FramesInv
  <2>2. \A i \in DOMAIN localFrames : localFrames[i] \in 0..10
    BY <2>1
  <2> QED
    BY <2>1, <2>2, HeldFrames DEF FramesBalanced, Counted
<1> QED
  BY <1>1, CallInvariance, PTL
=============================================================================
