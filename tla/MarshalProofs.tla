---------------------------- MODULE MarshalProofs ----------------------------
(***************************************************************************)
(* Theorems about Marshal, for collections of any length, integers of any  *)
(* width and any number of changes by the other thread.                    *)
(*                                                                         *)
(* What is in c is not bounded by the Java collection, which may be gone,  *)
(* but by ever; while nothing has changed, the iterator splits the         *)
(* collection in what it has yet to give and what c stands for.            *)
(***************************************************************************)
EXTENDS Marshal, FiniteSetTheorems, SequenceTheorems, TLAPS

JavaValue == JavaValues(form.type)
CppValue == UNION {ToCpp(form.type, j) : j \in JavaValue}
IsList == form.kind = "list"

\* Where toCpp stands and what its counters say of it.
Loop ==
  /\ form \in Forms
  /\ place \in {"size", "iterator", "turn", "done", "thrown", "aborted", "returned", "aborted back"}
  /\ size \in Nat /\ i \in 0..size /\ changes \in Nat /\ refs \in Nat
  /\ place \in {"size", "iterator"} => i = 0 /\ c = Fresh
  /\ place = "size" => refs = 0 /\ ~stale /\ coll \in Collections(form)
  /\ Complete => i = size

\* A list grows by one each turn, anything else by at most one.
Contents ==
  /\ IsList => place # "iterator" /\ coll \in Seq(JavaValue) /\ c \in Seq(CppValue) /\ Len(c) = i
  /\ ~IsList => IsFiniteSet(c) /\ Cardinality(c) <= i

\* What can be given was in the collection, and is of its type.
Seen ==
  /\ IsList => \A f \in ever : f[2] \in JavaValue
  /\ ~IsList => \A e \in ever : Value(e) \in JavaValue
  /\ place \in {"iterator", "turn"} => Facts(coll) \subseteq ever
  /\ place = "turn" /\ ~IsList => left \subseteq ever

\* A map has one entry per key.
Functional(m) ==
  form.kind = "map" =>
    /\ \A e \in m : e = <<e[1], e[2]>>
    /\ \A e, d \in m : e[1] = d[1] => e = d

\* What the iterator has given, and only that, is in c.
Split ==
  /\ left \subseteq original /\ Cardinality(left) = size - i
  /\ \A e \in original \ left : \E x \in c : Matches(e, x)
  /\ \A x \in c : \E e \in original \ left : Matches(e, x)

Undisturbed ==
  changes = 0 /\ (place \in {"iterator", "turn"} \/ Complete) =>
    /\ coll = original /\ ~stale /\ size = Count(original)
    /\ IsList => \A k \in DOMAIN c : Matches(original[k], c[k])
    /\ ~IsList => IsFiniteSet(original) /\ Functional(original)
    /\ ~IsList => \A e \in original : Value(e) \in JavaValue
    /\ ~IsList /\ place # "iterator" => Split

MarshalInv ==
  /\ Loop /\ Contents /\ Seen /\ Undisturbed
  /\ NothingInvented /\ RefsBounded /\ RoundTrip
-----------------------------------------------------------------------------
\* Arithmetic of the conversions.
LEMMA ByteBack == \A b \in Word : FromByte(ToByte(b)) = b
<1> SUFFICES ASSUME NEW b \in Word PROVE FromByte(ToByte(b)) = b
  OBVIOUS
<1> DEFINE N == 2 * Half
<1>1. Half \in Nat \ {0} /\ N \in Nat \ {0} /\ b \in Int /\ -Half <= b /\ b < Half
  BY MarshalAssumption DEF Word
<1>2. b >= 0 => b % N = b
  BY <1>1
<1>3. b < 0 => b % N = b + N
  BY <1>1
<1> QED
  BY <1>1, <1>2, <1>3 DEF FromByte, ToByte

LEMMA DateBack == \A j \in Int : DateFromCpp(j * Scale) = j
<1> SUFFICES ASSUME NEW j \in Int PROVE DateFromCpp(j * Scale) = j
  OBVIOUS
<1>1. Scale \in Nat \ {0}
  BY MarshalAssumption
<1>2. j >= 0 => j * Scale >= 0 /\ (j * Scale) \div Scale = j
  BY <1>1
<1>3. j < 0 => j * Scale < 0 /\ -(j * Scale) = (-j) * Scale /\ ((-j) * Scale) \div Scale = -j
  BY <1>1
<1> QED
  BY <1>1, <1>2, <1>3 DEF DateFromCpp

\* The values of a type, without CASE.
LEMMA ValuesOf ==
  ASSUME NEW t \in Types, NEW j \in JavaValues(t)
  PROVE  /\ t.name \in {"I32", "Byte", "Date", "Enum", "Interface"}
         /\ t.name = "Interface" => j \in {Null, <<"java", 1>>, <<"CppProxy", 1>>}
         /\ t.name = "Interface" /\ j = <<"CppProxy", 1>> => t.hasCppProxy
         /\ t.name # "Interface" => j = Null \/ j \in Int
         /\ t.name \in {"Byte", "Date"} => j = Null \/ j \in Word
<1>1. t.name \in {"I32", "Byte", "Date", "Enum", "Interface"}
  BY DEF Types, Type
<1>2. Word \subseteq Int /\ Samples \subseteq Word
  BY MarshalAssumption DEF Word
<1>3. t.name = "Interface" => j \in {Null, <<"java", 1>>, <<"CppProxy", 1>>}
  BY DEF JavaValues
<1>4. t.name = "Interface" /\ j = <<"CppProxy", 1>> => t.hasCppProxy
  <2>1. <<"java", 1>> # <<"CppProxy", 1>> /\ Null # <<"CppProxy", 1>>
    BY MarshalAssumption
  <2> QED
    BY <2>1 DEF JavaValues
<1>5. t.name # "Interface" => j = Null \/ j \in Int
  <2>1. CASE t.name = "Enum"
    <3>1. j \in 0..2
      BY <2>1 DEF JavaValues
    <3> QED
      BY <3>1
  <2>2. CASE t.name \notin {"Enum", "Interface"}
    <3>1. j \in Samples \cup {Null}
      BY <2>2 DEF JavaValues
    <3> QED
      BY <3>1, <1>2
  <2> QED
    BY <2>1, <2>2
<1>6. t.name \in {"Byte", "Date"} => j = Null \/ j \in Word
  BY <1>2 DEF JavaValues
<1> QED
  BY <1>1, <1>3, <1>4, <1>5, <1>6

\* C++ can give back whatever it was given; what fits comes back the same.
LEMMA InterfaceBack ==
  ASSUME NEW t \in Types, t.name = "Interface", NEW j \in JavaValues(t), NEW x \in InterfaceToCpp(t, j)
  PROVE  InterfaceFromCpp(t, x) = {j}
<1>1. j \in {Null, <<"java", 1>>, <<"CppProxy", 1>>} /\ (j = <<"CppProxy", 1>> => t.hasCppProxy)
  BY ValuesOf
<1>2. CASE j = Null
  BY <1>2 DEF InterfaceToCpp, InterfaceFromCpp
<1>3. CASE j # Null /\ t.hasCppProxy /\ j = <<"CppProxy", 1>>
  <2>1. x = <<"cpp", 1>> /\ x # Null /\ x[1] = "cpp" /\ x[2] = 1
    BY <1>3, MarshalAssumption DEF InterfaceToCpp
  <2> QED
    BY <1>3, <2>1 DEF InterfaceFromCpp
<1>4. CASE j = <<"java", 1>> /\ j # Null
  <2>1. x = <<"JavaProxy", j>> /\ t.hasJavaProxy
    BY <1>4 DEF InterfaceToCpp
  <2>2. x # Null /\ x[1] = "JavaProxy" /\ x[2] = j
    BY <1>4, <2>1, MarshalAssumption
  <2> QED
    BY <2>1, <2>2 DEF InterfaceFromCpp
<1> QED
  BY <1>1, <1>2, <1>3, <1>4

LEMMA ElementBack ==
  ASSUME NEW t \in Types, NEW j \in JavaValues(t), NEW x \in ToCpp(t, j)
  PROVE  /\ FromCpp(t, x) # {}
         /\ (t.name = "Date" /\ j # Null => j * Scale \in Word) => FromCpp(t, x) = {j}
<1> USE ValuesOf
<1>1. CASE t.name = "Interface"
  <2>1. x \in InterfaceToCpp(t, j) /\ FromCpp(t, x) = InterfaceFromCpp(t, x)
    BY <1>1 DEF ToCpp, FromCpp
  <2> QED
    BY <1>1, <2>1, InterfaceBack
<1>2. CASE t.name # "Interface" /\ j = Null
  <2>1. x = Null
    BY <1>2 DEF ToCpp
  <2> QED
    BY <1>2, <2>1 DEF FromCpp
<1>3. CASE t.name = "Date" /\ j # Null
  <2>1. /\ x \in Int /\ x # Null /\ FromCpp(t, x) = {DateFromCpp(x)}
        /\ j * Scale \in Word => x = j * Scale
    <3>1. x \in DateToCpp(j)
      BY <1>3 DEF ToCpp
    <3>2. x \in Word /\ (j * Scale \in Word => x = j * Scale)
      BY <3>1 DEF DateToCpp
    <3>3. x \in Int /\ x # Null
      BY <3>2, MarshalAssumption DEF Word
    <3> QED
      BY <1>3, <3>2, <3>3 DEF FromCpp
  <2>2. j \in Int
    BY <1>3
  <2> QED
    BY <1>3, <2>1, <2>2, DateBack
<1>4. CASE t.name = "Byte" /\ j # Null
  <2>1. x = ToByte(j) /\ j \in Word
    BY <1>4 DEF ToCpp
  <2>2. x \in Int /\ x # Null
    BY <2>1, MarshalAssumption DEF ToByte, Word
  <2> QED
    BY <1>4, <2>1, <2>2, ByteBack DEF FromCpp
<1>5. CASE t.name \in {"I32", "Enum"} /\ j # Null
  <2>1. x = j
    BY <1>5 DEF ToCpp
  <2> QED
    BY <1>5, <2>1 DEF FromCpp
<1> QED
  BY <1>1, <1>2, <1>3, <1>4, <1>5

\* An element that matches converts back to a single value, its own.
LEMMA MatchBack ==
  ASSUME form \in Forms, NEW e, NEW x, Value(e) \in JavaValue, Matches(e, x)
  PROVE  /\ FromCpp(form.type, Value(x)) # {}
         /\ (form.type.name = "Date" /\ Value(e) # Null => Value(e) * Scale \in Word) =>
              Java(Value(x)) = Value(e)
<1>1. form.type \in Types
  BY DEF Forms
<1> QED
  BY <1>1, ElementBack DEF Matches, JavaValue, Java
-----------------------------------------------------------------------------
\* The collections that toCpp is called with.
LEMMA ListsAre ==
  ASSUME form \in Forms, IsList, coll \in Collections(form)
  PROVE  coll \in Seq(JavaValue) /\ Count(coll) \in Nat
<1>1. coll \in UNION {[1..n -> JavaValue] : n \in 0..MaxSize}
  BY DEF Collections, IsList, JavaValue
<1>2. PICK n \in 0..MaxSize : coll \in [1..n -> JavaValue]
  BY <1>1
<1>3. n \in Nat
  BY MarshalAssumption
<1>4. coll \in Seq(JavaValue)
  BY <1>2, <1>3, SeqDef
<1> QED
  BY <1>4, LenProperties DEF Count, IsList

LEMMA FiniteValues == ASSUME form \in Forms PROVE IsFiniteSet(JavaValue)
<1>1. IsFiniteSet({Null, <<"java", 1>>}) /\ IsFiniteSet({<<"CppProxy", 1>>}) /\ IsFiniteSet({})
  <2>1. IsFiniteSet({Null} \cup {<<"java", 1>>})
    BY FS_Singleton, FS_AddElement
  <2>2. {Null} \cup {<<"java", 1>>} = {Null, <<"java", 1>>}
    OBVIOUS
  <2> QED
    BY <2>1, <2>2, FS_Singleton, FS_EmptySet
<1>2. IsFiniteSet(IF form.type.hasCppProxy THEN {<<"CppProxy", 1>>} ELSE {})
  BY <1>1
<1>3. IsFiniteSet({Null, <<"java", 1>>} \cup IF form.type.hasCppProxy THEN {<<"CppProxy", 1>>} ELSE {})
  BY <1>1, <1>2, FS_Union, Zenon
<1>4. IsFiniteSet(0..2)
  <2>1. 0 \in Int /\ 2 \in Int
    OBVIOUS
  <2> QED
    BY <2>1, FS_Interval, Zenon
<1>5. IsFiniteSet(Samples \cup {Null})
  BY FS_AddElement, MarshalAssumption
<1> QED
  BY <1>3, <1>4, <1>5, Zenon DEF JavaValue, JavaValues

LEMMA SetsAre ==
  ASSUME form \in Forms, ~IsList, coll \in Collections(form)
  PROVE  /\ IsFiniteSet(coll) /\ Functional(coll) /\ Count(coll) \in Nat
         /\ \A e \in coll : Value(e) \in JavaValue
<1>1. CASE form.kind = "map"
  <2>1. /\ coll \in SUBSET ({1, 2} \X JavaValue)
        /\ \A e, d \in coll : e[1] = d[1] => e = d
    BY <1>1 DEF Collections, JavaValue
  <2>2. IsFiniteSet({1, 2})
    <3>1. 1 \in Int /\ 2 \in Int /\ 1..2 = {1, 2}
      OBVIOUS
    <3>2. IsFiniteSet(1..2)
      BY <3>1, FS_Interval, Zenon
    <3> QED
      BY <3>1, <3>2
  <2>3. IsFiniteSet({1, 2} \X JavaValue)
    BY <2>2, FiniteValues, FS_Product
  <2>4. IsFiniteSet(coll)
    BY <2>1, <2>3, FS_Subset
  <2> QED
    BY <1>1, <2>1, <2>4, FS_CardinalityType DEF Functional, Value, Count
<1>2. CASE form.kind # "map"
  <2>1. coll \in SUBSET JavaValue
    BY <1>2 DEF Collections, JavaValue, IsList
  <2>2. IsFiniteSet(coll)
    BY <2>1, FiniteValues, FS_Subset
  <2> QED
    BY <1>2, <2>1, <2>2, FS_CardinalityType DEF Functional, Value, Count, IsList
<1> QED
  BY <1>1, <1>2
-----------------------------------------------------------------------------
\* Before the call nothing has been seen.
LEMMA MarshalStart == Init => MarshalInv
<1> SUFFICES ASSUME Init PROVE MarshalInv
  OBVIOUS
<1> USE DEF Init
<1>1. Loop
  <2>1. size = 0 /\ i = 0 /\ changes = 0 /\ refs = 0
    OBVIOUS
  <2>2. form \in Forms /\ place = "size" /\ c = Fresh /\ ~stale /\ coll \in Collections(form)
    OBVIOUS
  <2> HIDE DEF Init
  <2> QED
    BY <2>1, <2>2 DEF Loop, Complete
<1>2. Contents
  <2>1. CASE IsList
    <3>1. coll \in Seq(JavaValue)
      BY <2>1, ListsAre
    <3>2. c = <<>>
      BY <2>1 DEF IsList, Fresh
    <3> QED
      BY <2>1, <3>1, <3>2, EmptySeq DEF Contents
  <2>2. CASE ~IsList
    <3>1. c = {}
      BY <2>2 DEF IsList, Fresh
    <3> QED
      BY <2>2, <3>1, FS_EmptySet DEF Contents
  <2> QED
    BY <2>1, <2>2
<1>3. Seen
  BY DEF Seen
<1>4. Undisturbed
  BY DEF Undisturbed, Complete
<1>5. NothingInvented
  <2>1. CASE IsList
    <3>1. c = <<>>
      BY <2>1 DEF IsList, Fresh
    <3>2. Count(c) = 0 /\ DOMAIN c = {}
      BY <2>1, <3>1 DEF IsList, Count
    <3> QED
      BY <2>1, <3>2 DEF NothingInvented, IsList, Complete
  <2>2. CASE ~IsList
    <3>1. c = {}
      BY <2>2 DEF IsList, Fresh
    <3>2. Count(c) = 0
      BY <2>2, <3>1, FS_EmptySet DEF IsList, Count
    <3> QED
      BY <2>2, <3>1, <3>2 DEF NothingInvented, IsList
  <2> QED
    BY <2>1, <2>2
<1>6. RefsBounded /\ RoundTrip
  BY DEF RefsBounded, RoundTrip
<1> QED
  BY <1>1, <1>2, <1>3, <1>4, <1>5, <1>6 DEF MarshalInv

\* size() is called, and the history begins.
LEMMA CallSizeStep == ASSUME MarshalInv, CallSize PROVE MarshalInv'
<1>1. /\ place = "size" /\ size' = Count(coll) /\ original' = coll /\ ever' = Facts(coll)
      /\ place' = (IF IsList THEN "turn" ELSE "iterator")
      /\ UNCHANGED <<form, i, c, left, stale, refs, coll, changes, back>>
  BY DEF CallSize, java, IsList
<1>2. /\ form \in Forms /\ coll \in Collections(form) /\ ~stale /\ refs = 0 /\ i = 0 /\ c = Fresh
      /\ changes \in Nat
  BY <1>1 DEF MarshalInv, Loop
<1>3. IsList' = IsList /\ JavaValue' = JavaValue /\ CppValue' = CppValue /\ Fresh' = Fresh
  BY <1>1 DEF IsList, JavaValue, CppValue, Fresh
<1>4. size' \in Nat
  BY <1>1, <1>2, ListsAre, SetsAre
<1>5. Loop'
  BY <1>1, <1>2, <1>3, <1>4 DEF Loop, Complete
<1>6. Contents'
  BY <1>1, <1>2, <1>3 DEF MarshalInv, Contents
<1>7. CASE IsList
  <2>1. coll \in Seq(JavaValue) /\ DOMAIN coll = 1..Len(coll)
    BY <1>2, <1>7, ListsAre, LenProperties
  <2>2. c = <<>> /\ DOMAIN c = {} /\ Len(c) = 0
    BY <1>2, <1>7 DEF IsList, Fresh
  <2>3. Seen'
    <3>1. \A f \in ever' : f[2] \in JavaValue
      BY <1>1, <1>7, <2>1, ElementOfSeq DEF IsList, Facts
    <3>2. Facts(coll)' = ever'
      BY <1>1 DEF Facts
    <3> QED
      BY <1>3, <1>7, <3>1, <3>2 DEF Seen
  <2>4. Undisturbed'
    <3>1. size' = Count(original)'
      BY <1>1 DEF Count
    <3> QED
      BY <1>1, <1>2, <1>3, <1>7, <2>2, <3>1 DEF Undisturbed
  <2>5. NothingInvented'
    <3>1. Count(c)' = 0
      BY <1>1, <1>7, <2>2 DEF IsList, Count
    <3> QED
      BY <1>1, <1>4, <1>7, <2>2, <3>1 DEF NothingInvented, IsList, Complete
  <2>6. RefsBounded' /\ RoundTrip'
    BY <1>1, <1>2, <1>7 DEF RefsBounded, RoundTrip
  <2> QED
    BY <1>5, <1>6, <2>3, <2>4, <2>5, <2>6 DEF MarshalInv
<1>8. CASE ~IsList
  <2>1. IsFiniteSet(coll) /\ Functional(coll) /\ \A e \in coll : Value(e) \in JavaValue
    BY <1>2, <1>8, SetsAre
  <2>2. c = {} /\ Count(c) = 0
    BY <1>2, <1>8, FS_EmptySet DEF IsList, Fresh, Count
  <2>3. ever' = coll /\ Facts(coll)' = coll
    BY <1>1, <1>8 DEF Facts, IsList
  <2>4. Seen'
    <3>1. \A e \in ever' : Value(e)' \in JavaValue
      BY <1>1, <2>1, <2>3 DEF Value
    <3> QED
      BY <1>1, <1>3, <1>8, <2>3, <3>1 DEF Seen
  <2>5. Undisturbed'
    <3>1. size' = Count(original)' /\ Functional(original)'
      BY <1>1, <2>1 DEF Count, Functional
    <3>2. \A e \in original' : Value(e)' \in JavaValue
      BY <1>1, <2>1 DEF Value
    <3> QED
      BY <1>1, <1>2, <1>3, <1>8, <2>1, <3>1, <3>2 DEF Undisturbed
  <2>6. NothingInvented'
    <3>1. Count(c)' = 0
      BY <1>1, <2>2 DEF Count
    <3> QED
      BY <1>1, <1>4, <1>8, <2>2, <3>1 DEF NothingInvented, IsList
  <2>7. RefsBounded' /\ RoundTrip'
    BY <1>1, <1>2, <1>8 DEF RefsBounded, RoundTrip
  <2> QED
    BY <1>5, <1>6, <2>4, <2>5, <2>6, <2>7 DEF MarshalInv
<1> QED
  BY <1>7, <1>8

\* The iterator has everything yet to give.
LEMMA CallIteratorStep == ASSUME MarshalInv, CallIterator PROVE MarshalInv'
<1>1. /\ place = "iterator" /\ place' = "turn" /\ left' = coll /\ stale' = FALSE
      /\ refs' \in {1, 2}
      /\ UNCHANGED <<form, size, i, c, coll, changes, back, original, ever>>
  BY DEF CallIterator, java
<1>2. /\ ~IsList /\ IsList' = IsList /\ JavaValue' = JavaValue /\ CppValue' = CppValue
      /\ i = 0 /\ c = {} /\ Facts(coll) = coll /\ coll \subseteq ever
  BY <1>1 DEF MarshalInv, Loop, Contents, Seen, IsList, JavaValue, CppValue, Fresh, Facts
<1>3. Loop'
  BY <1>1 DEF MarshalInv, Loop, Complete
<1>4. Contents' /\ Seen'
  <2>1. \A e \in ever' : Value(e)' \in JavaValue
    BY <1>1, <1>2 DEF MarshalInv, Seen, Value
  <2>2. Facts(coll)' = coll
    BY <1>1, <1>2 DEF Facts, IsList
  <2> QED
    BY <1>1, <1>2, <2>1, <2>2 DEF MarshalInv, Contents, Seen
<1>5. Undisturbed'
  <2> SUFFICES ASSUME changes = 0 PROVE Undisturbed'
    BY <1>1 DEF Undisturbed
  <2>1. /\ coll = original /\ size = Count(original) /\ IsFiniteSet(original) /\ Functional(original)
        /\ \A e \in original : Value(e) \in JavaValue
    BY <1>1, <1>2 DEF MarshalInv, Undisturbed
  <2>2. Cardinality(left') = size' - i'
    <3>1. size = Cardinality(left') /\ size \in Nat
      BY <1>1, <1>2, <2>1 DEF Count, IsList, MarshalInv, Loop
    <3> QED
      BY <1>1, <1>2, <3>1
  <2>3. Split'
    BY <1>1, <1>2, <2>1, <2>2 DEF Split
  <2>4. size' = Count(original)' /\ Functional(original)' /\ \A e \in original' : Value(e)' \in JavaValue
    BY <1>1, <2>1 DEF Count, Functional, Value
  <2> QED
    BY <1>1, <1>2, <2>1, <2>3, <2>4 DEF Undisturbed
<1>6. NothingInvented'
  <2>1. Count(c)' <= size'
    BY <1>1 DEF MarshalInv, NothingInvented, Count
  <2> QED
    BY <1>1, <1>2, <2>1 DEF NothingInvented, IsList
<1>7. RefsBounded' /\ RoundTrip'
  BY <1>1 DEF RefsBounded, RoundTrip
<1> QED
  BY <1>3, <1>4, <1>5, <1>6, <1>7 DEF MarshalInv

\* A call that ends keeps what it has.
LEMMA EndStep == ASSUME MarshalInv, JvmThrows \/ TurnThrows \/ EndTurns PROVE MarshalInv'
<1>1. /\ place \in {"size", "iterator", "turn", "done"}
      /\ place' = "thrown" \/ (place' = "done" /\ place = "turn" /\ i >= size)
      /\ refs' \in {0, refs}
      /\ UNCHANGED <<form, size, i, c, left, stale, coll, changes, back, original, ever>>
  <2>1. CASE JvmThrows
    BY <2>1 DEF JvmThrows, java
  <2>2. CASE TurnThrows
    BY <2>2 DEF TurnThrows, java
  <2>3. CASE EndTurns
    <3>1. size \in Nat /\ i \in 0..size
      BY DEF MarshalInv, Loop
    <3>2. i \in Nat
      BY <3>1
    <3> QED
      BY <2>3, <3>1, <3>2 DEF EndTurns, java, More
  <2> QED
    BY <2>1, <2>2, <2>3
<1>2. IsList' = IsList /\ JavaValue' = JavaValue /\ CppValue' = CppValue
  BY <1>1 DEF IsList, JavaValue, CppValue
<1>3. Loop'
  <2>1. /\ size \in Nat /\ i \in 0..size /\ refs \in Nat /\ changes \in Nat /\ form \in Forms
        /\ size' = size /\ i' = i /\ changes' = changes /\ form' = form
    BY <1>1 DEF MarshalInv, Loop
  <2>2. place' = "done" => i = size
    BY <1>1, <2>1
  <2>3. refs' \in Nat
    BY <1>1, <2>1
  <2> QED
    BY <1>1, <2>1, <2>2, <2>3 DEF Loop, Complete
<1>4. Contents' /\ Seen'
  <2>1. \A e : Value(e)' = Value(e)
    BY <1>1 DEF Value
  <2> QED
    BY <1>1, <1>2, <2>1 DEF MarshalInv, Contents, Seen
<1>5. \A e, x : Matches(e, x)' = Matches(e, x)
  BY <1>1 DEF Matches, Value
<1>6. Undisturbed'
  <2>1. \A e : Value(e)' = Value(e)
    BY <1>1 DEF Value
  <2>2. Split' = Split
    BY <1>1, <1>5 DEF Split
  <2>3. Count(original)' = Count(original) /\ Functional(original)' = Functional(original)
    BY <1>1 DEF Count, Functional
  <2> QED
    BY <1>1, <1>2, <1>5, <2>1, <2>2, <2>3 DEF MarshalInv, Undisturbed, Complete
<1>7. NothingInvented'
  <2>1. Count(c)' = Count(c)
    BY <1>1 DEF Count
  <2>2. place' = "done" /\ IsList => Len(c) = size
    BY <1>1 DEF MarshalInv, Contents, Loop
  <2> QED
    BY <1>1, <1>5, <2>1, <2>2 DEF MarshalInv, NothingInvented, Complete, IsList
<1>8. RefsBounded'
  BY <1>1 DEF MarshalInv, RefsBounded
<1>9. RoundTrip'
  BY <1>1 DEF RoundTrip
<1> QED
  BY <1>3, <1>4, <1>6, <1>7, <1>8, <1>9 DEF MarshalInv

\* The other thread may change anything of the right type; what it adds has been seen.
LEMMA ChangeStep ==
  ASSUME MarshalInv, Busy, NEW new, NEW structural \in BOOLEAN, NEW newLeft,
         Change(new, structural, newLeft),
         IsList => new \in Seq(JavaValue),
         ~IsList => \A e \in new : Value(e) \in JavaValue,
         newLeft \subseteq left \cup new \/ IsList
  PROVE  MarshalInv'
<1>1. /\ place \in {"iterator", "turn"} /\ coll' = new /\ ever' = ever \cup Facts(new)
      /\ changes' = changes + 1 /\ left' = newLeft
      /\ UNCHANGED <<form, place, size, i, c, refs, back, original>>
  BY DEF Change, Busy
<1>2. IsList' = IsList /\ JavaValue' = JavaValue /\ CppValue' = CppValue /\ Fresh' = Fresh
  BY <1>1 DEF IsList, JavaValue, CppValue, Fresh
<1>3. Loop' /\ changes' # 0
  <2>1. /\ form \in Forms /\ size \in Nat /\ i \in 0..size /\ changes \in Nat /\ refs \in Nat
        /\ place = "iterator" => i = 0 /\ c = Fresh
    BY <1>1 DEF MarshalInv, Loop
  <2>2. changes' \in Nat /\ changes' # 0
    BY <1>1, <2>1
  <2> QED
    BY <1>1, <1>2, <2>1, <2>2 DEF Loop, Complete
<1>4. Contents'
  BY <1>1, <1>2 DEF MarshalInv, Contents
<1>5. \A e, x : Matches(e, x)' = Matches(e, x) /\ Value(e)' = Value(e)
  BY <1>1 DEF Matches, Value
<1>6. Facts(coll)' = Facts(new)
  BY <1>1 DEF Facts
<1>7. Seen'
  <2>1. CASE IsList
    <3>1. \A f \in Facts(new) : f[2] \in JavaValue
      <4>1. new \in Seq(JavaValue) /\ DOMAIN new = 1..Len(new)
        BY <2>1, LenProperties
      <4> QED
        BY <2>1, <4>1, ElementOfSeq DEF IsList, Facts
    <3> QED
      BY <1>1, <1>2, <1>6, <2>1, <3>1 DEF MarshalInv, Seen
  <2>2. CASE ~IsList
    <3>1. Facts(new) = new
      BY <2>2 DEF IsList, Facts
    <3>2. /\ \A e \in ever : Value(e) \in JavaValue
          /\ place = "turn" => left \subseteq ever
      BY <2>2 DEF MarshalInv, Seen
    <3> QED
      BY <1>1, <1>2, <1>5, <1>6, <2>2, <3>1, <3>2 DEF Seen
  <2> QED
    BY <2>1, <2>2
<1>8. Undisturbed'
  BY <1>3 DEF Undisturbed
<1>9. NothingInvented'
  <2>1. Count(c)' = Count(c)
    BY <1>1 DEF Count
  <2> QED
    BY <1>1, <1>5, <2>1 DEF MarshalInv, NothingInvented, Complete
<1>10. RefsBounded' /\ RoundTrip'
  BY <1>1 DEF MarshalInv, RefsBounded, RoundTrip
<1> QED
  BY <1>3, <1>4, <1>7, <1>8, <1>9, <1>10 DEF MarshalInv

LEMMA OtherThreadStep == ASSUME MarshalInv, ChangeList \/ ChangeSet \/ ChangeMap PROVE MarshalInv'
<1>1. CASE ChangeList
  <2>1. IsList /\ Busy /\ coll \in Seq(JavaValue) /\ DOMAIN coll = 1..Len(coll) /\ Len(coll) \in Nat
    BY <1>1, LenProperties DEF ChangeList, IsList, MarshalInv, Contents
  <2>2. ASSUME NEW v \in JavaValue, Change(Append(coll, v), TRUE, left) PROVE MarshalInv'
    <3>1. Append(coll, v) \in Seq(JavaValue)
      BY <2>1, AppendProperties
    <3> QED
      BY <2>1, <2>2, <3>1, ChangeStep
  <2>3. ASSUME NEW k \in DOMAIN coll,
               Change(SubSeq(coll, 1, k - 1) \o SubSeq(coll, k + 1, Len(coll)), TRUE, left)
        PROVE  MarshalInv'
    <3>1. k \in Nat /\ k \in 1..Len(coll) /\ \A n \in 1..Len(coll) : coll[n] \in JavaValue
      BY <2>1, <2>3, ElementOfSeq
    <3>2. SubSeq(coll, 1, k - 1) \in Seq(JavaValue)
      BY <2>1, <3>1, SubSeqProperties
    <3>3. SubSeq(coll, k + 1, Len(coll)) \in Seq(JavaValue)
      BY <2>1, <3>1, SubSeqProperties
    <3>4. SubSeq(coll, 1, k - 1) \o SubSeq(coll, k + 1, Len(coll)) \in Seq(JavaValue)
      BY <3>2, <3>3, ConcatProperties
    <3> QED
      BY <2>1, <2>3, <3>4, ChangeStep
  <2>4. ASSUME NEW k \in DOMAIN coll, NEW v \in JavaValue,
               Change([coll EXCEPT ![k] = v], FALSE, left)
        PROVE  MarshalInv'
    <3>1. [coll EXCEPT ![k] = v] \in Seq(JavaValue)
      BY <2>1, <2>4, ExceptSeq
    <3> QED
      BY <2>1, <2>4, <3>1, ChangeStep
  <2> QED
    BY <1>1, <2>2, <2>3, <2>4 DEF ChangeList, JavaValue
<1>2. ASSUME ~IsList, Busy PROVE \A e \in coll : Value(e) \in JavaValue
  BY <1>2 DEF MarshalInv, Seen, Facts, IsList, Busy
<1>3. CASE ChangeSet
  <2>1. /\ ~IsList /\ Busy /\ \A e \in coll : Value(e) \in JavaValue
        /\ \A e : Value(e) = e
    BY <1>2, <1>3 DEF ChangeSet, IsList, Value
  <2>2. ASSUME NEW v \in JavaValue, Change(coll \cup {v}, TRUE, left) PROVE MarshalInv'
    <3>1. \A e \in coll \cup {v} : Value(e) \in JavaValue
      BY <2>1, <2>2
    <3> QED
      BY <2>1, <2>2, <3>1, ChangeStep
  <2>3. ASSUME NEW v \in coll, Change(coll \ {v}, TRUE, left) PROVE MarshalInv'
    <3>1. \A e \in coll \ {v} : Value(e) \in JavaValue
      BY <2>1
    <3> QED
      BY <2>1, <2>3, <3>1, ChangeStep
  <2> QED
    BY <1>3, <2>2, <2>3 DEF ChangeSet, JavaValue
<1>4. CASE ChangeMap
  <2>1. /\ ~IsList /\ Busy /\ \A e \in coll : Value(e) \in JavaValue
        /\ \A k, v : Value(<<k, v>>) = v
    BY <1>2, <1>4 DEF ChangeMap, IsList, Value
  <2>2. ASSUME NEW k \in {1, 2}, NEW v \in JavaValue, Change(coll \cup {<<k, v>>}, TRUE, left)
        PROVE  MarshalInv'
    <3>1. \A e \in coll \cup {<<k, v>>} : Value(e) \in JavaValue
      BY <2>1, <2>2
    <3> QED
      BY <2>1, <2>2, <3>1, ChangeStep
  <2>3. ASSUME NEW e \in coll, Change(coll \ {e}, TRUE, left) PROVE MarshalInv'
    <3>1. \A d \in coll \ {e} : Value(d) \in JavaValue
      BY <2>1
    <3> QED
      BY <2>1, <2>3, <3>1, ChangeStep
  <2>4. ASSUME NEW e \in coll, NEW v \in JavaValue,
               Change((coll \ {e}) \cup {<<e[1], v>>}, FALSE,
                      IF e \in left THEN (left \ {e}) \cup {<<e[1], v>>} ELSE left)
        PROVE  MarshalInv'
    <3>1. \A d \in (coll \ {e}) \cup {<<e[1], v>>} : Value(d) \in JavaValue
      BY <2>1, <2>4
    <3>2. (IF e \in left THEN (left \ {e}) \cup {<<e[1], v>>} ELSE left)
             \subseteq left \cup ((coll \ {e}) \cup {<<e[1], v>>})
      OBVIOUS
    <3> QED
      BY <2>1, <2>4, <3>1, <3>2, ChangeStep
  <2> QED
    BY <1>4, <2>2, <2>3, <2>4 DEF ChangeMap, JavaValue
<1> QED
  BY <1>1, <1>3, <1>4

\* A turn: its element, and what it becomes.
Takes(e, x) ==
  /\ place = "turn" /\ i < size /\ e \in Given /\ x \in ToCpp(form.type, Value(e))
  /\ c' = Put(e, x) /\ left' = left \ {e} /\ refs' = refs + Kept(e) /\ i' = i + 1
  /\ UNCHANGED <<form, place, size, stale, coll, changes, back, original, ever>>

LEMMA TakesLoop ==
  ASSUME MarshalInv, NEW e, NEW x, Takes(e, x)
  PROVE  Loop' /\ RefsBounded' /\ RoundTrip' /\ i + 1 <= size
<1>1. /\ form \in Forms /\ size \in Nat /\ i \in 0..size /\ changes \in Nat /\ refs \in Nat
      /\ place = "turn" /\ i < size
  BY DEF MarshalInv, Loop, Takes
<1>2. i + 1 \in 0..size
  BY <1>1
<1>3. Kept(e) \in {0, 1}
  BY DEF Kept
<1>4. refs' \in Nat
  BY <1>1, <1>3 DEF Takes
<1>5. Loop'
  BY <1>1, <1>2, <1>4 DEF Loop, Complete, Takes
<1>6. RefsBounded'
  <2>1. Kept(e) # 0 => form.type.name = "Interface" /\ form.type.hasCppProxy
    BY DEF Kept
  <2> QED
    BY <1>1, <1>3, <2>1 DEF MarshalInv, RefsBounded, Takes
<1>7. RoundTrip'
  BY <1>1 DEF RoundTrip, Takes
<1> QED
  BY <1>2, <1>5, <1>6, <1>7

\* Of a list the turn takes the element at its index.
LEMMA TakesFromList == ASSUME MarshalInv, NEW e, NEW x, Takes(e, x), IsList PROVE MarshalInv'
<1>1. /\ c \in Seq(CppValue) /\ Len(c) = i /\ coll \in Seq(JavaValue) /\ i \in Nat
      /\ DOMAIN c = 1..i /\ Facts(coll) \subseteq ever
  BY LenProperties DEF MarshalInv, Contents, Loop, Seen, Takes
<1>2. /\ IsList' = IsList /\ JavaValue' = JavaValue /\ CppValue' = CppValue
      /\ \A d, y : Matches(d, y)' = Matches(d, y) /\ Value(d)' = Value(d)
  BY DEF Takes, IsList, JavaValue, CppValue, Matches, Value
<1>3. i < Len(coll) /\ e = coll[i + 1]
  BY DEF Takes, Given, IsList
<1>4. i + 1 \in 1..Len(coll) /\ i + 1 \in DOMAIN coll /\ e \in JavaValue
  BY <1>1, <1>3, LenProperties, ElementOfSeq
<1>5. Matches(e, x) /\ x \in CppValue
  BY <1>4 DEF Takes, Matches, Value, IsList, CppValue
<1>6. c' = Append(c, x)
  BY DEF Takes, Put, IsList
<1>7. /\ c' \in Seq(CppValue) /\ Len(c') = i + 1 /\ DOMAIN c' = 1..(i + 1)
      /\ \A k \in 1..i : c'[k] = c[k]
      /\ c'[i + 1] = x
  BY <1>1, <1>5, <1>6, AppendProperties, LenProperties
<1>8. Contents'
  BY <1>1, <1>2, <1>7 DEF Contents, Takes
<1>9. Seen'
  <2>1. Facts(coll)' = Facts(coll)
    BY DEF Facts, Takes
  <2> QED
    BY <1>1, <1>2, <2>1 DEF MarshalInv, Seen, Takes
<1>10. \A k \in DOMAIN c' : k \in 1..i \/ k = i + 1
  BY <1>1, <1>7
<1>11. NothingInvented'
  <2>1. <<i + 1, coll[i + 1]>> \in ever
    BY <1>1, <1>4 DEF Facts, IsList
  <2>2. \A k \in DOMAIN c' : \E f \in ever : f[1] = k /\ Matches(f[2], c'[k])
    <3>1. \A k \in 1..i : \E f \in ever : f[1] = k /\ Matches(f[2], c[k])
      BY <1>1 DEF MarshalInv, NothingInvented, IsList
    <3>2. \E f \in ever : f[1] = i + 1 /\ Matches(f[2], c'[i + 1])
      BY <1>3, <1>5, <1>7, <2>1
    <3> QED
      BY <1>7, <1>10, <3>1, <3>2
  <2>3. Count(c)' = i + 1
    BY <1>7 DEF Count, IsList, Takes
  <2> QED
    BY <1>2, <2>2, <2>3, TakesLoop DEF NothingInvented, Complete, Takes, IsList
<1>12. Undisturbed'
  <2> SUFFICES ASSUME changes = 0 PROVE Undisturbed'
    BY DEF Undisturbed, Takes
  <2>1. /\ coll = original /\ ~stale /\ size = Count(original)
        /\ \A k \in DOMAIN c : Matches(original[k], c[k])
    BY DEF MarshalInv, Undisturbed, Takes
  <2>2. \A k \in DOMAIN c' : Matches(original[k], c'[k])
    BY <1>1, <1>3, <1>5, <1>7, <1>10, <2>1
  <2>3. Count(original)' = Count(original)
    BY DEF Count, Takes
  <2> QED
    BY <1>2, <2>1, <2>2, <2>3 DEF Undisturbed, Takes
<1> QED
  BY <1>8, <1>9, <1>11, <1>12, TakesLoop DEF MarshalInv

\* Of anything else it takes what the iterator gives.
LEMMA TakesFromIterator == ASSUME MarshalInv, NEW e, NEW x, Takes(e, x), ~IsList PROVE MarshalInv'
<1> DEFINE item == IF form.kind = "map" THEN <<e[1], x>> ELSE x
<1>1. /\ IsFiniteSet(c) /\ Cardinality(c) <= i /\ i \in Nat /\ left \subseteq ever
      /\ Facts(coll) \subseteq ever /\ Cardinality(c) \in Nat
      /\ \A d \in ever : Value(d) \in JavaValue
  BY FS_CardinalityType DEF MarshalInv, Contents, Loop, Seen, Takes
<1>2. /\ IsList' = IsList /\ JavaValue' = JavaValue /\ CppValue' = CppValue
      /\ \A d, y : Matches(d, y)' = Matches(d, y) /\ Value(d)' = Value(d)
  BY DEF Takes, IsList, JavaValue, CppValue, Matches, Value
<1>3. e \in ever
  BY <1>1 DEF Takes, Given, IsList
<1>4. Matches(e, item)
  BY DEF Takes, Matches, Value
<1>5. c' = c \/ c' = c \cup {item}
  BY DEF Takes, Put, IsList
<1>6. IsFiniteSet(c') /\ Cardinality(c') <= i + 1
  <2>1. /\ IsFiniteSet(c \cup {item})
        /\ Cardinality(c \cup {item}) = IF item \in c THEN Cardinality(c) ELSE Cardinality(c) + 1
    BY <1>1, FS_AddElement
  <2> QED
    BY <1>1, <1>5, <2>1
<1>7. Contents' /\ Seen'
  <2>1. Facts(coll)' = Facts(coll)
    BY DEF Facts, Takes
  <2> QED
    BY <1>1, <1>2, <1>6, <2>1 DEF Contents, Seen, Takes
<1>8. NothingInvented'
  <2>1. \A y \in c' : \E d \in ever : Matches(d, y)
    BY <1>3, <1>4, <1>5 DEF MarshalInv, NothingInvented, IsList
  <2>2. Count(c)' <= i + 1
    BY <1>6 DEF Count, IsList, Takes
  <2>3. Count(c)' <= size
    <3>1. Count(c)' \in Nat /\ i + 1 <= size /\ size \in Nat
      BY <1>6, TakesLoop, FS_CardinalityType DEF Count, IsList, Takes, MarshalInv, Loop
    <3> QED
      BY <1>1, <2>2, <3>1
  <2> QED
    BY <1>2, <2>1, <2>3 DEF NothingInvented, Takes, IsList
<1>9. Undisturbed'
  <2> SUFFICES ASSUME changes = 0 PROVE Undisturbed'
    BY DEF Undisturbed, Takes
  <2>1. /\ coll = original /\ ~stale /\ size = Count(original)
        /\ IsFiniteSet(original) /\ Functional(original)
        /\ \A d \in original : Value(d) \in JavaValue
        /\ Split
    BY DEF MarshalInv, Undisturbed, Takes
  <2>2. e \in left /\ e \in original
    BY <2>1 DEF Takes, Given, IsList, Split
  <2>3. Cardinality(left') = size - (i + 1)
    <3>1. IsFiniteSet(left)
      BY <2>1, FS_Subset DEF Split
    <3>2. Cardinality(left \ {e}) = Cardinality(left) - 1
      BY <2>2, <3>1, FS_RemoveElement
    <3>3. size \in Nat /\ Cardinality(left) = size - i /\ left' = left \ {e}
      BY <2>1 DEF MarshalInv, Loop, Split, Takes
    <3> QED
      BY <1>1, <3>2, <3>3
  <2>4. c' = c \cup {item}
    <3>1. CASE form.kind = "map"
      <4>1. ASSUME NEW d \in c, d[1] = e[1] PROVE FALSE
        <5>1. PICK f \in original \ left : Matches(f, d)
          BY <2>1 DEF Split
        <5>2. f[1] = e[1]
          BY <3>1, <4>1, <5>1 DEF Matches
        <5>3. f = e
          BY <2>1, <2>2, <3>1, <5>1, <5>2 DEF Functional
        <5> QED
          BY <2>2, <5>1, <5>3
      <4> QED
        BY <3>1, <4>1 DEF Takes, Put
    <3>2. CASE form.kind # "map"
      BY <3>2 DEF Takes, Put, IsList
    <3> QED
      BY <3>1, <3>2
  <2>5. left' = left \ {e} /\ original \ left' = (original \ left) \cup {e}
    BY <2>2 DEF Takes
  <2>6. \A d \in original \ left' : \E y \in c' : Matches(d, y)
    BY <1>4, <2>1, <2>4, <2>5 DEF Split
  <2>7. \A y \in c' : \E d \in original \ left' : Matches(d, y)
    BY <1>4, <2>1, <2>4, <2>5 DEF Split
  <2>8. Split'
    BY <1>2, <2>1, <2>3, <2>5, <2>6, <2>7 DEF Split, Takes
  <2>9. Count(original)' = Count(original) /\ Functional(original)' = Functional(original)
    BY DEF Count, Functional, Takes
  <2> QED
    BY <1>2, <2>1, <2>8, <2>9 DEF Undisturbed, Takes
<1> QED
  BY <1>7, <1>8, <1>9, TakesLoop DEF MarshalInv

\* A turn whose element fails an assertion ends the process.
LEMMA TurnStep == ASSUME MarshalInv, Turn PROVE MarshalInv'
<1>1. PICK e \in Given :
        /\ place = "turn" /\ More /\ left' = left \ {e}
        /\ IF ToCpp(form.type, Value(e)) = {}
           THEN place' = "aborted" /\ UNCHANGED <<i, c, refs>>
           ELSE /\ \E x \in ToCpp(form.type, Value(e)) : c' = Put(e, x)
                /\ refs' = refs + Kept(e) /\ i' = i + 1 /\ UNCHANGED place
        /\ UNCHANGED <<form, size, stale, coll, changes, back, original, ever>>
  BY DEF Turn, java
<1>2. CASE ToCpp(form.type, Value(e)) = {}
  <2>1. /\ place' = "aborted" /\ place = "turn"
        /\ UNCHANGED <<form, size, i, c, refs, stale, coll, changes, back, original, ever>>
    BY <1>1, <1>2
  <2>2. IsList' = IsList /\ JavaValue' = JavaValue /\ CppValue' = CppValue
    BY <2>1 DEF IsList, JavaValue, CppValue
  <2>3. \A d, y : Matches(d, y)' = Matches(d, y) /\ Value(d)' = Value(d)
    BY <2>1 DEF Matches, Value
  <2>4. Loop'
    BY <2>1 DEF MarshalInv, Loop, Complete
  <2>5. Contents' /\ Seen' /\ Undisturbed'
    BY <2>1, <2>2, <2>3 DEF MarshalInv, Contents, Seen, Undisturbed, Complete
  <2>6. NothingInvented'
    <3>1. Count(c)' = Count(c)
      BY <2>1 DEF Count
    <3> QED
      BY <2>1, <2>3, <3>1 DEF MarshalInv, NothingInvented, Complete
  <2>7. RefsBounded' /\ RoundTrip'
    BY <2>1 DEF MarshalInv, RefsBounded, RoundTrip
  <2> QED
    BY <2>4, <2>5, <2>6, <2>7 DEF MarshalInv
<1>3. CASE ToCpp(form.type, Value(e)) # {}
  <2>1. PICK x \in ToCpp(form.type, Value(e)) : c' = Put(e, x)
    BY <1>1, <1>3
  <2>2. Takes(e, x)
    BY <1>1, <1>3, <2>1 DEF Takes, More
  <2> QED
    BY <2>2, TakesFromList, TakesFromIterator
<1> QED
  BY <1>2, <1>3

\* Whatever is in c can be given back, an undisturbed collection as it was.
LEMMA AllConvertible == ASSUME MarshalInv PROVE Convertible
<1>1. SUFFICES ASSUME NEW x \in Elems(c) PROVE FromCpp(form.type, Value(x)) # {}
  BY DEF Convertible
<1>2. form \in Forms
  BY DEF MarshalInv, Loop
<1>3. CASE IsList
  <2>1. PICK k \in DOMAIN c : x = c[k]
    BY <1>1, <1>3 DEF Elems, IsList
  <2>2. PICK f \in ever : Matches(f[2], x)
    BY <1>3, <2>1 DEF MarshalInv, NothingInvented, IsList
  <2>3. Value(f[2]) \in JavaValue
    BY <1>3, <2>2 DEF MarshalInv, Seen, Value, IsList
  <2> QED
    BY <1>2, <2>2, <2>3, MatchBack
<1>4. CASE ~IsList
  <2>1. PICK e \in ever : Matches(e, x)
    BY <1>1, <1>4 DEF MarshalInv, NothingInvented, IsList, Elems
  <2>2. Value(e) \in JavaValue
    BY <1>4, <2>1 DEF MarshalInv, Seen
  <2> QED
    BY <1>2, <2>1, <2>2, MatchBack
<1> QED
  BY <1>3, <1>4

DatesFit ==
  form.type.name = "Date" => \A e \in Elems(original) : Value(e) # Null => Value(e) * Scale \in Word

LEMMA SameAgain ==
  ASSUME MarshalInv, Complete, changes = 0, DatesFit
  PROVE  ToJava = original
<1>1. /\ form \in Forms /\ i = size /\ size \in Nat /\ coll = original /\ size = Count(original)
      /\ place # "iterator" /\ place # "size"
  BY DEF MarshalInv, Loop, Undisturbed, Complete
<1>2. CASE IsList
  <2>1. /\ original \in Seq(JavaValue) /\ c \in Seq(CppValue) /\ Len(c) = size /\ Len(original) = size
        /\ \A k \in DOMAIN c : Matches(original[k], c[k])
    BY <1>1, <1>2 DEF MarshalInv, Contents, Undisturbed, Complete, Count, IsList
  <2>2. DOMAIN c = 1..size /\ DOMAIN original = 1..size /\ original = [k \in 1..size |-> original[k]]
    BY <2>1, LenProperties
  <2>3. ASSUME NEW k \in 1..size PROVE Java(c[k]) = original[k]
    <3>1. original[k] \in JavaValue /\ original[k] \in Elems(original)
      BY <1>2, <2>1, <2>2, ElementOfSeq DEF Elems, IsList
    <3>2. Value(original[k]) = original[k] /\ Value(c[k]) = c[k]
      BY <1>2 DEF Value, IsList
    <3>3. form.type.name = "Date" /\ original[k] # Null => original[k] * Scale \in Word
      BY <3>1, <3>2 DEF DatesFit
    <3> QED
      BY <1>1, <2>1, <2>2, <3>1, <3>2, <3>3, MatchBack
  <2>4. ToJava = [k \in 1..size |-> Java(c[k])]
    BY <1>2, <2>2 DEF ToJava, IsList
  <2> QED
    BY <2>2, <2>3, <2>4
<1>3. CASE ~IsList
  <2>1. /\ IsFiniteSet(original) /\ Functional(original) /\ Split
        /\ \A e \in original : Value(e) \in JavaValue
    BY <1>1, <1>3 DEF MarshalInv, Undisturbed
  <2>2. left = {}
    <3>1. IsFiniteSet(left) /\ Cardinality(left) = 0
      BY <1>1, <2>1, FS_Subset DEF Split
    <3> QED
      BY <3>1, FS_EmptySet
  <2>3. ASSUME NEW e \in original, NEW x \in c, Matches(e, x) PROVE Java(Value(x)) = Value(e)
    <3>1. e \in Elems(original)
      BY <1>3 DEF Elems, IsList
    <3>2. form.type.name = "Date" /\ Value(e) # Null => Value(e) * Scale \in Word
      BY <3>1 DEF DatesFit
    <3> QED
      BY <1>1, <2>1, <2>3, <3>2, MatchBack
  <2>4. /\ \A e \in original : \E x \in c : Matches(e, x)
        /\ \A x \in c : \E e \in original : Matches(e, x)
    BY <2>1, <2>2 DEF Split
  <2>5. CASE form.kind = "map"
    <3>1. ToJava = {<<x[1], Java(x[2])>> : x \in c}
      BY <2>5 DEF ToJava
    <3>2. ASSUME NEW e \in original, NEW x \in c, Matches(e, x) PROVE <<x[1], Java(x[2])>> = e
      <4>1. e = <<e[1], e[2]>> /\ x[1] = e[1] /\ Value(x) = x[2] /\ Value(e) = e[2]
        BY <2>1, <2>5, <3>2 DEF Functional, Matches, Value
      <4> QED
        BY <2>3, <3>2, <4>1
    <3> QED
      BY <2>4, <3>1, <3>2
  <2>6. CASE form.kind # "map"
    <3>1. ToJava = {Java(x) : x \in c} /\ \A e : Value(e) = e
      BY <1>3, <2>6 DEF ToJava, IsList, Value
    <3> QED
      BY <2>3, <2>4, <3>1
  <2> QED
    BY <2>5, <2>6
<1> QED
  BY <1>2, <1>3

LEMMA ConvertBackStep == ASSUME MarshalInv, ConvertBack PROVE MarshalInv'
<1>1. /\ place = "done" /\ place' = "returned" /\ back' = ToJava /\ refs' = 0
      /\ UNCHANGED <<form, size, i, c, left, stale, coll, changes, original, ever>>
  BY AllConvertible DEF ConvertBack, java
<1>2. IsList' = IsList /\ JavaValue' = JavaValue /\ CppValue' = CppValue
  BY <1>1 DEF IsList, JavaValue, CppValue
<1>3. /\ \A d, y : Matches(d, y)' = Matches(d, y)
      /\ \A d : Value(d)' = Value(d)
  BY <1>1 DEF Matches, Value
<1>4. Loop'
  BY <1>1 DEF MarshalInv, Loop, Complete
<1>5. Contents' /\ Seen'
  BY <1>1, <1>2, <1>3 DEF MarshalInv, Contents, Seen
<1>6. Undisturbed'
  <2>1. Split' = Split
    BY <1>1, <1>3 DEF Split
  <2>2. Count(original)' = Count(original) /\ Functional(original)' = Functional(original)
    BY <1>1 DEF Count, Functional
  <2> QED
    BY <1>1, <1>2, <1>3, <2>1, <2>2 DEF MarshalInv, Undisturbed, Complete
<1>7. NothingInvented'
  <2>1. Count(c)' = Count(c)
    BY <1>1 DEF Count
  <2> QED
    BY <1>1, <1>3, <2>1 DEF MarshalInv, NothingInvented, Complete
<1>8. RefsBounded'
  BY <1>1 DEF RefsBounded
<1>9. RoundTrip'
  <2>1. Complete /\ DatesFit' = DatesFit
    BY <1>1, <1>3 DEF Complete, DatesFit, Elems
  <2>2. changes = 0 /\ DatesFit => back' = original
    BY <1>1, <2>1, SameAgain
  <2> QED
    BY <1>1, <2>1, <2>2 DEF RoundTrip, DatesFit
<1> QED
  BY <1>4, <1>5, <1>6, <1>7, <1>8, <1>9 DEF MarshalInv
-----------------------------------------------------------------------------
LEMMA MarshalStutters == ASSUME MarshalInv, UNCHANGED vars PROVE MarshalInv'
<1>1. UNCHANGED <<form, place, size, i, c, left, stale, refs, coll, back, changes, original, ever>>
  BY DEF vars
<1>2. /\ IsList' = IsList /\ JavaValue' = JavaValue /\ CppValue' = CppValue /\ Fresh' = Fresh
      /\ Facts(coll)' = Facts(coll) /\ Count(c)' = Count(c) /\ Complete' = Complete
  BY <1>1 DEF IsList, JavaValue, CppValue, Fresh, Facts, Count, Complete
<1>3. /\ \A d, y : Matches(d, y)' = Matches(d, y)
      /\ \A d : Value(d)' = Value(d)
  BY <1>1 DEF Matches, Value
<1>4. Loop'
  BY <1>1, <1>2 DEF MarshalInv, Loop
<1>5. Contents' /\ Seen'
  BY <1>1, <1>2, <1>3 DEF MarshalInv, Contents, Seen
<1>6. Undisturbed'
  <2>1. Split' = Split
    BY <1>1, <1>3 DEF Split
  <2>2. Count(original)' = Count(original) /\ Functional(original)' = Functional(original)
    BY <1>1 DEF Count, Functional
  <2> QED
    BY <1>1, <1>2, <1>3, <2>1, <2>2 DEF MarshalInv, Undisturbed
<1>7. NothingInvented' /\ RefsBounded'
  BY <1>1, <1>2, <1>3 DEF MarshalInv, NothingInvented, RefsBounded
<1>8. RoundTrip'
  <2>1. Elems(original)' = Elems(original)
    BY <1>1 DEF Elems
  <2> QED
    BY <1>1, <1>3, <2>1 DEF MarshalInv, RoundTrip
<1> QED
  BY <1>4, <1>5, <1>6, <1>7, <1>8 DEF MarshalInv

LEMMA MarshalStep == MarshalInv /\ [Next]_vars => MarshalInv'
<1> SUFFICES ASSUME MarshalInv, [Next]_vars PROVE MarshalInv'
  OBVIOUS
<1>1. CASE CallSize
  BY <1>1, CallSizeStep
<1>2. CASE CallIterator
  BY <1>2, CallIteratorStep
<1>3. CASE Turn
  BY <1>3, TurnStep
<1>4. CASE TurnThrows \/ JvmThrows \/ EndTurns
  BY <1>4, EndStep
<1>5. CASE ConvertBack
  BY <1>5, ConvertBackStep
<1>6. CASE ChangeList \/ ChangeSet \/ ChangeMap
  BY <1>6, OtherThreadStep
<1>7. CASE UNCHANGED vars
  BY <1>7, MarshalStutters
<1> QED
  BY <1>1, <1>2, <1>3, <1>4, <1>5, <1>6, <1>7 DEF Next

\* The invariant holds in every state of every behaviour.
THEOREM MarshalInvariance == Spec => []MarshalInv
<1>1. Init => MarshalInv
  BY MarshalStart
<1>2. MarshalInv /\ [Next]_vars => MarshalInv'
  BY MarshalStep
<1> QED
  BY <1>1, <1>2, PTL DEF Spec

\* Marshal.hpp: what arrives in C++ was in the collection during the call, at its index
\* in a list, and never more of it than size() said.
THEOREM NothingIsInvented == Spec => []NothingInvented
<1>1. MarshalInv => NothingInvented
  BY DEF MarshalInv
<1> QED
  BY <1>1, MarshalInvariance, PTL

\* Marshal.hpp: without _fromJava's leak a call holds two local references at most,
\* however long the collection.
THEOREM ReferencesAreBounded == Spec => []RefsBounded
<1>1. MarshalInv => RefsBounded
  BY DEF MarshalInv
<1> QED
  BY <1>1, MarshalInvariance, PTL

\* Marshal.hpp: C++ can give back all it was given, and an undisturbed collection goes
\* back as it was, with its dates if they fit the clock and its objects the same.
THEOREM WhatCameGoesBack == Spec => []RoundTrip
<1>1. MarshalInv => RoundTrip
  BY DEF MarshalInv
<1> QED
  BY <1>1, MarshalInvariance, PTL

\* Marshal.hpp: a collection that nobody changes meanwhile arrives whole.
THEOREM UndisturbedArrivesWhole == Spec => []UndisturbedIsExact
<1>1. MarshalInv => UndisturbedIsExact
  <2> SUFFICES ASSUME MarshalInv, Complete, changes = 0 PROVE UndisturbedIsExact
    BY DEF UndisturbedIsExact
  <2>1. /\ i = size /\ size \in Nat /\ coll = original /\ size = Count(original)
        /\ place # "iterator" /\ place # "size"
    BY DEF MarshalInv, Loop, Undisturbed, Complete
  <2>2. CASE IsList
    <3>1. /\ original \in Seq(JavaValue) /\ c \in Seq(CppValue) /\ Len(c) = Len(original)
          /\ \A k \in DOMAIN c : Matches(original[k], c[k])
      BY <2>1, <2>2 DEF MarshalInv, Contents, Undisturbed, Complete, Count, IsList
    <3>2. DOMAIN c = DOMAIN original
      BY <3>1, LenProperties
    <3> QED
      BY <2>2, <3>1, <3>2 DEF UndisturbedIsExact, Elems, IsList
  <2>3. CASE ~IsList
    <3>1. IsFiniteSet(original) /\ Split
      BY <2>1, <2>3 DEF MarshalInv, Undisturbed
    <3>2. IsFiniteSet(left) /\ Cardinality(left) = 0
      BY <2>1, <3>1, FS_Subset DEF Split
    <3>3. left = {}
      BY <3>2, FS_EmptySet
    <3> QED
      BY <2>3, <3>1, <3>3 DEF UndisturbedIsExact, Elems, IsList, Split
  <2> QED
    BY <2>2, <2>3
<1> QED
  BY <1>1, MarshalInvariance, PTL
=============================================================================
