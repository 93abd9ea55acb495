------------------------------- MODULE Marshal -------------------------------
(***************************************************************************)
(* Marshal.hpp, the enums of djinni_support.cpp and the object cases of    *)
(* JniInterface: a Java collection goes to C++ (toCpp) while another Java  *)
(* thread may still change it, and what came out goes back (fromCpp).      *)
(* toCpp reads size() first and then asks that often for an element.       *)
(*                                                                         *)
(* Elements are integers, Null, or for an interface <<"java", n>> (an      *)
(* object of a Java class) and <<"CppProxy", n>> (Java's proxy of the C++  *)
(* object n); in C++ <<"cpp", n>> and <<"JavaProxy", j>>.                  *)
(***************************************************************************)
EXTENDS Integers, Sequences, FiniteSets

CONSTANTS
  Samples,          \* the Java integers tried
  Half,             \* half the range of the integers and of the clock's ticks (2^63 in the code)
  Scale,            \* ticks per millisecond (1000000 or 1000)
  Null,
  MaxSize,          \* bound on the collection
  MaxChanges        \* bound on the other thread's changes

Word == -Half .. (Half - 1)

\* Null is none of the values it stands beside.
ASSUME MarshalAssumption ==
  /\ Half \in Nat \ {0} /\ Scale \in Nat \ {0} /\ MaxSize \in Nat
  /\ Samples \subseteq Word /\ IsFiniteSet(Samples)
  /\ Null \notin Int
  /\ Null \notin ({"java", "CppProxy", "cpp"} \X {1}) \cup ({"JavaProxy"} \X {<<"java", 1>>, <<"CppProxy", 1>>})

VARIABLES
  form,             \* what is converted: kind of collection and type of element
  place, size, i, c,  \* toCpp and its local variables
  left,             \* what the Java iterator has yet to give
  stale,            \* the collection has changed under the iterator
  refs,             \* the local references that toCpp holds
  coll,             \* the Java collection
  back,             \* what fromCpp made of c
  changes,          \* how often the other thread has changed the collection
  original, ever    \* history: the collection when size() was read, and all since

vars == <<form, place, size, i, c, left, stale, refs, coll, back, changes, original, ever>>

Elems(x) == IF form.kind = "list" THEN {x[k] : k \in DOMAIN x} ELSE x
Count(x) == IF form.kind = "list" THEN Len(x) ELSE Cardinality(x)
Fresh == IF form.kind = "list" THEN <<>> ELSE {}

\* The positions count too: an element of a list is at an index, one of a map is a
\* pair of a key and a value.
Facts(x) == IF form.kind = "list" THEN {<<k, x[k]>> : k \in DOMAIN x} ELSE x
Value(e) == IF form.kind = "map" THEN e[2] ELSE e
-----------------------------------------------------------------------------
(* Mutants.                                                                *)

\* The loop stops one short.
MoreButOne == i + 1 < size

\* The JVM's exception is not looked at: the element is what a null makes.
TurnGoesOn ==
  /\ place = "turn" /\ i < size /\ form.kind = "list" /\ i >= Len(coll)
  /\ c' = Append(c, Null)
  /\ i' = i + 1
  /\ UNCHANGED <<form, place, size, left, stale, refs, coll, changes, back, original, ever>>

\* A byte is not made signed again.
UnsignedByte(b) == b

\* Each element's reference is kept to the end of the native method.
KeepsAll(e) == 1
-----------------------------------------------------------------------------
(* Elements.                                                               *)

\* Primitive, String and WString keep the value; Binary reinterprets bytes.
ToByte(b) == b % (2 * Half)
FromByte(b) == IF b < Half THEN b ELSE b - 2 * Half

\* Milliseconds become ticks of the same width: beyond it signed overflow, any value.
DateToCpp(ms) == IF ms * Scale \in Word THEN {ms * Scale} ELSE Word

\* duration_cast truncates toward zero.
DateFromCpp(t) == IF t >= 0 THEN t \div Scale ELSE -((-t) \div Scale)

\* _fromJava: null, CppProxy, JavaProxy, or an assertion.
InterfaceToCpp(t, j) ==
  IF j = Null THEN {Null}
  ELSE IF t.hasCppProxy /\ j[1] = "CppProxy" THEN {<<"cpp", j[2]>>}
  ELSE IF t.hasJavaProxy THEN {<<"JavaProxy", j>>} ELSE {}

\* _toJava
InterfaceFromCpp(t, x) ==
  IF x = Null THEN {Null}
  ELSE IF t.hasJavaProxy /\ x[1] = "JavaProxy" THEN {x[2]}
  ELSE IF t.hasCppProxy /\ x[1] = "cpp" THEN {<<"CppProxy", x[2]>>} ELSE {}

\* T::Boxed::toCpp, with the results the code can give; none: an assertion fails.
ToCpp(t, j) ==
  CASE t.name = "Interface" -> InterfaceToCpp(t, j)
    [] t.name # "Interface" /\ j = Null -> IF t.optional THEN {Null} ELSE {}
    [] t.name = "Date" /\ j # Null -> DateToCpp(j)
    [] t.name = "Byte" /\ j # Null -> {ToByte(j)}
    [] OTHER -> {j}

FromCpp(t, x) ==
  CASE t.name = "Interface" -> InterfaceFromCpp(t, x)
    [] t.name # "Interface" /\ x = Null -> {Null}
    [] t.name = "Date" /\ x # Null -> {DateFromCpp(x)}
    [] t.name = "Byte" /\ x # Null -> {FromByte(x)}
    [] OTHER -> {x}

JavaValues(t) ==
  IF t.name = "Interface"
  THEN {Null, <<"java", 1>>} \cup IF t.hasCppProxy THEN {<<"CppProxy", 1>>} ELSE {}
  ELSE IF t.name = "Enum" THEN 0..2 ELSE Samples \cup {Null}

Type(name, opt, cpp, java) ==
  [name |-> name, optional |-> opt, hasCppProxy |-> cpp, hasJavaProxy |-> java]
Types ==
  {Type(n, o, FALSE, FALSE) : n \in {"I32", "Byte", "Date", "Enum"}, o \in BOOLEAN}
    \cup {Type("Interface", FALSE, p, q) : p, q \in BOOLEAN}

\* EnumSet holds enums alone; a map's keys are integers, one value each.
Forms ==
  {[kind |-> k, type |-> t] : k \in {"list", "set", "map", "flags"}, t \in Types}
Sensible(f) == f.kind = "flags" => f.type.name = "Enum" /\ ~f.type.optional

Collections(f) ==
  LET v == JavaValues(f.type) IN
  CASE f.kind = "list" -> UNION {[1..n -> v] : n \in 0..MaxSize}
    [] f.kind = "map" -> {m \in SUBSET ({1, 2} \X v) : \A e, d \in m : e[1] = d[1] => e = d}
    [] OTHER -> {s \in SUBSET v : Cardinality(s) <= MaxSize}
-----------------------------------------------------------------------------
Init ==
  /\ form \in {f \in Forms : Sensible(f)}
  /\ coll \in Collections(form)
  /\ place = "size" /\ size = 0 /\ i = 0
  /\ c = Fresh /\ back = Fresh /\ left = {} /\ original = Fresh /\ ever = {}
  /\ stale = FALSE /\ refs = 0 /\ changes = 0

java == <<coll, changes>>

CallSize ==
  /\ place = "size"
  /\ size' = Count(coll)
  /\ original' = coll /\ ever' = Facts(coll)
  /\ place' = IF form.kind = "list" THEN "turn" ELSE "iterator"
  /\ UNCHANGED <<form, i, c, left, stale, refs, java, back>>

\* A map has an entry set in between.
CallIterator ==
  /\ place = "iterator"
  /\ left' = coll /\ stale' = FALSE
  /\ refs' = IF form.kind = "map" THEN 2 ELSE 1
  /\ place' = "turn"
  /\ UNCHANGED <<form, size, i, c, java, back, original, ever>>

More == i < size

\* Any call into the JVM may throw (no memory): toCpp ends with that.
JvmThrows ==
  /\ place \in {"size", "iterator", "turn", "done"}
  /\ place' = "thrown" /\ refs' = 0
  /\ UNCHANGED <<form, size, i, c, left, stale, java, back, original, ever>>

\* What get(i) or next() gives: an element, or an exception.  The iterators of HashSet
\* and HashMap try to notice that the collection has changed, and where they do not,
\* give anything that was in it; the one of EnumSet goes on with what it has.
Given ==
  CASE form.kind = "list" -> IF i < Len(coll) THEN {coll[i + 1]} ELSE {}
    [] form.kind \in {"set", "map"} /\ stale -> ever
    [] OTHER -> left
MayThrow == Given = {} \/ (stale /\ form.kind \in {"set", "map"})

\* What the element costs once it is converted: the references of its own are gone, but
\* not the one to the class that _fromJava compares with that of the CppProxy.
Kept(e) ==
  IF form.type.name = "Interface" /\ form.type.hasCppProxy /\ Value(e) # Null THEN 1 ELSE 0

Put(e, x) ==
  CASE form.kind = "list" -> Append(c, x)
    [] form.kind = "map" -> IF \E d \in c : d[1] = e[1] THEN c ELSE c \cup {<<e[1], x>>}
    [] OTHER -> c \cup {x}

Turn ==
  /\ place = "turn" /\ More
  /\ \E e \in Given :
       /\ left' = left \ {e}
       /\ IF ToCpp(form.type, Value(e)) = {}
          THEN place' = "aborted" /\ UNCHANGED <<i, c, refs>>
          ELSE /\ \E x \in ToCpp(form.type, Value(e)) : c' = Put(e, x)
               /\ refs' = refs + Kept(e)
               /\ i' = i + 1
               /\ UNCHANGED place
  /\ UNCHANGED <<form, size, stale, java, back, original, ever>>

TurnThrows ==
  /\ place = "turn" /\ More /\ MayThrow
  /\ place' = "thrown" /\ refs' = 0
  /\ UNCHANGED <<form, size, i, c, left, stale, java, back, original, ever>>

EndTurns ==
  /\ place = "turn" /\ ~More
  /\ place' = "done"
  /\ UNCHANGED <<form, size, i, c, left, stale, refs, java, back, original, ever>>

\* What FromCpp makes of a whole container; a map and a set are filled in any order.
Convertible == \A x \in Elems(c) : FromCpp(form.type, Value(x)) # {}
Java(x) == CHOOSE j \in FromCpp(form.type, x) : TRUE
ToJava ==
  CASE form.kind = "list" -> [k \in DOMAIN c |-> Java(c[k])]
    [] form.kind = "map" -> {<<e[1], Java(e[2])>> : e \in c}
    [] OTHER -> {Java(x) : x \in c}

ConvertBack ==
  /\ place = "done"
  /\ IF Convertible THEN place' = "returned" /\ back' = ToJava
                    ELSE place' = "aborted back" /\ UNCHANGED back
  /\ refs' = 0
  /\ UNCHANGED <<form, size, i, c, left, stale, java, original, ever>>
-----------------------------------------------------------------------------
(* The other Java thread.                                                  *)

Busy == place \in {"iterator", "turn"} /\ changes < MaxChanges

\* new differs in its number of elements (structural) or not; an entry of a map that is
\* overwritten is the same object for the iterator.
Change(new, structural, newLeft) ==
  /\ coll' = new
  /\ ever' = ever \cup Facts(new)
  /\ changes' = changes + 1
  /\ stale' = (stale \/ (structural /\ place = "turn"))
  /\ left' = newLeft
  /\ UNCHANGED <<form, place, size, i, c, refs, back, original>>

ChangeList ==
  /\ Busy /\ form.kind = "list"
  /\ \/ \E v \in JavaValues(form.type) : Change(Append(coll, v), TRUE, left)
     \/ \E k \in DOMAIN coll :
          Change(SubSeq(coll, 1, k - 1) \o SubSeq(coll, k + 1, Len(coll)), TRUE, left)
     \/ \E k \in DOMAIN coll, v \in JavaValues(form.type) :
          Change([coll EXCEPT ![k] = v], FALSE, left)

ChangeSet ==
  /\ Busy /\ form.kind \in {"set", "flags"}
  /\ \/ \E v \in JavaValues(form.type) \ coll : Change(coll \cup {v}, TRUE, left)
     \/ \E v \in coll : Change(coll \ {v}, TRUE, left)

KeysOf(m) == {e[1] : e \in m}
ChangeMap ==
  /\ Busy /\ form.kind = "map"
  /\ \/ \E k \in {1, 2} \ KeysOf(coll), v \in JavaValues(form.type) :
          Change(coll \cup {<<k, v>>}, TRUE, left)
     \/ \E e \in coll : Change(coll \ {e}, TRUE, left)
     \/ \E e \in coll, v \in JavaValues(form.type) :
          Change((coll \ {e}) \cup {<<e[1], v>>}, FALSE,
                 IF e \in left THEN (left \ {e}) \cup {<<e[1], v>>} ELSE left)
-----------------------------------------------------------------------------
Next ==
  \/ CallSize \/ CallIterator \/ Turn \/ TurnThrows \/ JvmThrows \/ EndTurns \/ ConvertBack
  \/ ChangeList \/ ChangeSet \/ ChangeMap

Spec == Init /\ [][Next]_vars
-----------------------------------------------------------------------------
(* Properties.                                                             *)

Complete == place \in {"done", "returned", "aborted back"}

\* Is x what C++ makes of the Java element e?
Matches(e, x) ==
  /\ Value(x) \in ToCpp(form.type, Value(e))
  /\ form.kind = "map" => e[1] = x[1]

\* A collection that nobody changes meanwhile arrives whole, in order if it is a list.
UndisturbedIsExact ==
  Complete /\ changes = 0 =>
    /\ form.kind = "list" =>
         Len(c) = Len(original) /\ \A k \in DOMAIN c : Matches(original[k], c[k])
    /\ \A e \in Elems(original) : \E x \in Elems(c) : Matches(e, x)
    /\ \A x \in Elems(c) : \E e \in Elems(original) : Matches(e, x)

\* Whatever the other thread does, what arrives was in the collection at some time of
\* the call, in a list at its index, and never more than size() said: a list has
\* exactly that length or there is an exception.
NothingInvented ==
  /\ form.kind = "list" => \A k \in DOMAIN c : \E f \in ever : f[1] = k /\ Matches(f[2], c[k])
  /\ form.kind # "list" => \A x \in c : \E e \in ever : Matches(e, x)
  /\ Count(c) <= size
  /\ Complete /\ form.kind = "list" => Len(c) = size

\* What Java gave to C++ can always be given back, and is the same value or the same
\* object again; a date as long as the clock's ticks can count to it.
RoundTrip ==
  /\ place # "aborted back"
  /\ LET kept == form.type.name = "Date" =>
                   \A e \in Elems(original) : Value(e) # Null => Value(e) * Scale \in Word
     IN place = "returned" /\ changes = 0 /\ kept => back = original

\* However long the collection, toCpp holds a fixed number of local references; the
\* one exception is a collection of objects whose interface has a CppProxy.
RefsBounded ==
  ~(form.type.name = "Interface" /\ form.type.hasCppProxy) => refs <= 2
=============================================================================
