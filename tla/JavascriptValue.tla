--------------------------- MODULE JavascriptValue ---------------------------
(***************************************************************************)
(* JavascriptObjectImpl: a tagged union on the C++ heap, held by the       *)
(* shared_ptrs of C++ code, of asHaxeObject and of the Java objects that   *)
(* stand for it.  An array or a map is a Java object, which C++ holds by a *)
(* shared_ptr to its JavaProxy; what is pushed into it is copied out of    *)
(* the value, and what is read from it is a new value.  One thread may be  *)
(* in asHaxeObject while the others go on.                                 *)
(*                                                                         *)
(* A bool is 0 or 1.  A double is counted in halves: 3 is 1.5, and the int *)
(* n becomes 2n.                                                           *)
(***************************************************************************)
EXTENDS Integers, Sequences, FiniteSets

CONSTANTS
  Objects,          \* the addresses of the values
  Arrays, Maps,     \* the JavascriptArrays and JavascriptMaps of the Java side
  Ints, Longs, Doubles,  \* the numbers tried (Doubles in halves)
  Int32Bits,        \* width of int32_t (32 in the code)
  Mantissa,         \* halves up to which a double is exact (2^53 in the code)
  MaxItems          \* bound on what is in the containers

Containers == Arrays \cup Maps
Int32 == -(2^(Int32Bits - 1)) .. (2^(Int32Bits - 1) - 1)
Abs(n) == IF n < 0 THEN -n ELSE n

\* There are finitely many addresses, an int32_t is exact as a double, and no
\* container is the null pointer.
ASSUME JavascriptValueAssumption ==
  /\ IsFiniteSet(Objects)
  /\ Int32Bits \in Nat \ {0} /\ Mantissa \in Nat \ {0}
  /\ 2^(Int32Bits - 1) <= Mantissa
  /\ Ints \subseteq Int32 /\ Longs \subseteq Int /\ Doubles \subseteq Int
  /\ \A n \in Longs : Abs(n) <= 2 * Mantissa
  /\ Arrays \cap Maps = {} /\ "nullptr" \notin Arrays \cup Maps

VARIABLES
  obj,              \* the values: mType, the union's live member and what is in it
  given,            \* history: what each value was made from
  handles,          \* the values that C++ code holds
  java,             \* the values that a Java object holds
  mine,             \* the containers that C++ code holds
  uses,             \* use_count of the shared_ptrs to a container
  items,            \* what was copied into a container, by index or in key order
  walk,             \* the call of asHaxeObject that is in an array
  fault             \* how the process died

vars == <<obj, given, handles, java, mine, uses, items, walk, fault>>

Owning == {"STRING", "ARRAY", "MAP"}       \* members with a destructor
Tags == {"NIL", "BOOLEAN", "NUMBER"} \cup Owning
Gone == [mType |-> "NIL", live |-> "destroyed", in |-> 0]
NoFault == <<"none">>
NoOrigin == <<"nothing", 0>>
HaxeString == <<"haxe String", 0>>
NoWalk == [of |-> {}, at |-> 0, size |-> 0, elem |-> {}]

Exists(o) == obj[o].live /= "destroyed"

\* mType names a member that was never constructed.
Wild(o) == obj[o].mType \in Owning /\ obj[o].live /= obj[o].mType

\* What the member that mType names holds: anything, when it was never written.
Content(o) ==
  CASE obj[o].live = obj[o].mType -> {obj[o].in}
    [] obj[o].live /= obj[o].mType /\ obj[o].mType = "NUMBER" -> Doubles
    [] OTHER -> {0, 1}

Truncated(h) == IF h < 0 THEN -((-h) \div 2) ELSE h \div 2

HeldBy(hs, js, w) == hs \cup js \cup w.of \cup w.elem
-----------------------------------------------------------------------------
(* Mutants.                                                                *)

\* pushObject copies a number by pushInt(asInt()).
CopiedAsInt(o) ==
  IF obj[o].mType \in {"ARRAY", "MAP"} THEN {}
  ELSE {[given |-> given[o], tag |-> obj[o].mType,
         in |-> IF obj[o].mType = "NUMBER" THEN 2 * Truncated(n) ELSE n] : n \in Content(o)}

\* The destructor's switch has no case for a map.
ForgetsMaps(v) == v.live = "ARRAY" /\ v.mType = v.live
-----------------------------------------------------------------------------
(* What the constructors store.                                            *)

\* The nearest double, an even one when two are as near.
Nearest(h) ==
  IF Abs(h) <= Mantissa THEN h
  ELSE LET s == IF Abs(h) <= 2 * Mantissa THEN 2 ELSE 4
           low == (h \div s) * s
       IN  IF 2 * (h - low) < s \/ (2 * (h - low) = s /\ (low \div s) % 2 = 0)
           THEN low ELSE low + s

Stored(g) ==
  CASE g[1] \in {"int", "long"} -> Nearest(2 * g[2])
    [] g[1] = "haxe" -> IF g[2] = 0 THEN 0 ELSE 2   \* (bool) value
    [] OTHER -> g[2]

TagOf(g) ==
  CASE g[1] = "null" -> "NIL"
    [] g[1] = "bool" -> "BOOLEAN"
    [] g[1] \in {"int", "long", "double", "haxe"} -> "NUMBER"
    [] g[1] = "string" -> "STRING"
    [] g[1] = "array" -> "ARRAY"
    [] g[1] = "map" -> "MAP"

Typed ==
  {<<"null", 0>>, <<"bool", 0>>, <<"bool", 1>>, <<"string", 1>>}
    \cup ({"int"} \X Ints) \cup ({"long"} \X Longs) \cup ({"double"} \X Doubles)
    \cup ({"array"} \X (Arrays \cap mine)) \cup ({"map"} \X (Maps \cap mine))

\* A Haxe Bool is stored as one of C++ is.
HaxeValues == {<<"bool", 0>>, <<"bool", 1>>} \cup ({"haxe"} \X (Ints \cup {0}))

Alive == fault = NoFault

\* A value at the free address o.
Place(o, v, g) ==
  /\ Alive /\ ~Exists(o)
  /\ obj' = [obj EXCEPT ![o] = v]
  /\ given' = [given EXCEPT ![o] = g]

\* The constructors, and with them fromNull, fromBoolean and the others.
Make(o, g) ==
  /\ Place(o, [mType |-> TagOf(g), live |-> TagOf(g), in |-> Stored(g)], g)
  /\ handles' = handles \cup {o}
  /\ uses' = IF g[1] \in {"array", "map"} THEN [uses EXCEPT ![g[2]] = @ + 1] ELSE uses
  /\ UNCHANGED <<java, mine, items, walk, fault>>

FromTyped(o) == \E g \in Typed : Make(o, g)

\* fromHaxe for what sets mType.
FromHaxe(o) == \E g \in HaxeValues : Make(o, g)

\* fromHaxe of a String (or function, or enum): no branch sets mType, and the
\* union stays as it was allocated.
FromHaxeOther(o) ==
  /\ \E t \in Tags : Place(o, [mType |-> t, live |-> "NIL", in |-> 0], HaxeString)
  /\ handles' = handles \cup {o}
  /\ UNCHANGED <<java, mine, uses, items, walk, fault>>

\* The process dies over o, and its memory is gone.
Dies(why, o) ==
  /\ fault' = <<why, given[o][1]>>
  /\ obj' = [x \in Objects |-> Gone]
  /\ given' = [x \in Objects |-> NoOrigin]
  /\ handles' = {} /\ java' = {} /\ mine' = {} /\ walk' = NoWalk
  /\ uses' = [c \in Containers |-> 0]
  /\ items' = [c \in Containers |-> <<>>]

\* A Haxe null is dereferenced for its type before that is compared with vtNull.
FromHaxeNull == Alive /\ \E o \in Objects : ~Exists(o) /\ Dies("null Dynamic", o)

\* What no constructor ever sets is dereferenced: mBridge, for a Haxe object or
\* array and in every copy.
FromHaxeContainer == Alive /\ \E o \in Objects : ~Exists(o) /\ Dies("null bridge", o)
Copy(o) == Alive /\ o \in handles /\ Dies("null bridge", o)
-----------------------------------------------------------------------------
(* The end of a value.                                                     *)

\* The member's destructor gives up a use of a container.
Releases(v) == v.live \in {"ARRAY", "MAP"} /\ v.mType = v.live

\* Java collects a container that has no use left.
Collected(us) == [c \in Containers |-> IF us[c] = 0 THEN <<>> ELSE items[c]]

\* What the shared_ptr of o does when it is the last that is let go.
LetGo(o) ==
  IF o \in HeldBy(handles', java', walk')
  THEN UNCHANGED <<obj, given, uses, items, fault>>
  ELSE \/ /\ obj' = [obj EXCEPT ![o] = Gone]
          /\ given' = [given EXCEPT ![o] = NoOrigin]
          /\ uses' = IF Releases(obj[o]) THEN [uses EXCEPT ![obj[o].in] = @ - 1] ELSE uses
          /\ items' = Collected(uses')
          /\ UNCHANGED fault
       \/ /\ Wild(o)
          /\ fault' = <<"dead member", given[o][1]>>
          /\ UNCHANGED <<obj, given, uses, items>>

Drop(o) ==
  /\ Alive /\ o \in handles
  /\ handles' = handles \ {o}
  /\ UNCHANGED <<java, mine, walk>>
  /\ LetGo(o)

\* A value comes back from Java, as an argument or a result.
FromJava(o) ==
  /\ Alive /\ o \in java
  /\ handles' = handles \cup {o}
  /\ UNCHANGED <<obj, given, java, mine, uses, items, walk, fault>>

\* The collector, a thread of its own, finds the Java object that stands for o.
Finalize(o) ==
  /\ Alive /\ o \in java
  /\ java' = java \ {o}
  /\ UNCHANGED <<handles, mine, walk>>
  /\ LetGo(o)
-----------------------------------------------------------------------------
(* The containers.                                                         *)

\* createArray and createMap.
Create(c) ==
  /\ Alive /\ uses[c] = 0
  /\ mine' = mine \cup {c}
  /\ uses' = [uses EXCEPT ![c] = 1]
  /\ UNCHANGED <<obj, given, handles, java, items, walk, fault>>

\* C++ code lets go of a container.
Release(c) ==
  /\ Alive /\ c \in mine
  /\ mine' = mine \ {c}
  /\ uses' = [uses EXCEPT ![c] = @ - 1]
  /\ items' = Collected(uses')
  /\ UNCHANGED <<obj, given, handles, java, walk, fault>>

\* What pushObject and putObject copy out of o, by its type.  For an array or a map
\* they call unwrap, whose getWriteableArray and getWriteableMap do not exist.
Copied(o) ==
  IF obj[o].mType \in {"ARRAY", "MAP"} THEN {}
  ELSE {[given |-> given[o], tag |-> obj[o].mType, in |-> n] : n \in Content(o)}

\* The Java method holds o, asks it for its type and content and writes the copy; or
\* it throws, and the container is as it was.
Write(c, o, written) ==
  /\ Alive /\ c \in mine /\ o \in handles
  /\ \/ Wild(o) /\ Dies("dead member", o)
     \/ /\ ~Wild(o)
        /\ java' = java \cup {o}
        /\ \E s \in {items[c]} \cup written : items' = [items EXCEPT ![c] = s]
        /\ UNCHANGED <<obj, given, handles, mine, uses, walk, fault>>

Copies == UNION {{d} \X DOMAIN items[d] : d \in Containers}

\* pushObject, and putObject with a new key.
Push(c, o) ==
  /\ Cardinality(Copies) < MaxItems
  /\ Write(c, o, {Append(items[c], x) : x \in Copied(o)})

\* putObject with a key that the map has.
PutAgain(c, o) ==
  /\ c \in Maps /\ items[c] /= <<>>
  /\ Write(c, o, {[items[c] EXCEPT ![k] = x] : k \in DOMAIN items[c], x \in Copied(o)})

\* Java makes a value from what is at k, which C++ then holds in e; it may throw
\* instead, and then nothing is made.
Fetch(c, k, e) ==
  LET x == items[c][k] IN
  /\ Place(e, [mType |-> x.tag, live |-> x.tag, in |-> x.in], x.given)
  /\ java' = java \cup {e}

GetObject(c, e) ==
  /\ c \in mine
  /\ \E k \in DOMAIN items[c] : Fetch(c, k, e)
  /\ handles' = handles \cup {e}
  /\ UNCHANGED <<mine, uses, items, walk, fault>>
-----------------------------------------------------------------------------
(* The accessors: what they return, or the set of what they may.           *)

IsNull(o) == obj[o].mType = "NIL"
AsBoolean(o) == IF obj[o].mType = "BOOLEAN" THEN Content(o) ELSE {0}
AsDouble(o) == IF obj[o].mType = "NUMBER" THEN Content(o) ELSE {0}

\* A double out of the range of int32_t may become any int32_t.
AsInt(o) ==
  UNION {IF Truncated(h) \in Int32 THEN {Truncated(h)} ELSE Int32 : h \in AsDouble(o)}

\* return nullptr makes a std::string of a null pointer, which throws.
AsString(o) == IF obj[o].mType = "STRING" THEN "text" ELSE "throws"

AsContainer(o, tag) == IF obj[o].mType = tag THEN obj[o].in ELSE "nullptr"

\* asHaxeObject, but for an array or a map.
AsHaxeScalar(o) ==
  CASE obj[o].mType \in {"BOOLEAN", "NUMBER"} -> Content(o)
    [] obj[o].mType = "STRING" -> {"text"}
    [] OTHER -> {"null"}

\* The caller of asArray or asMap keeps the copy of the shared_ptr.
KeepContainer(o) ==
  /\ Alive /\ o \in handles /\ obj[o].mType \in {"ARRAY", "MAP"} /\ ~Wild(o)
  /\ LET c == obj[o].in IN
     /\ mine' = mine \cup {c}
     /\ uses' = IF c \in mine THEN uses ELSE [uses EXCEPT ![c] = @ + 1]
  /\ UNCHANGED <<obj, given, handles, java, items, walk, fault>>

\* A member that is not there is read, by an accessor or asHaxeObject.
ReadWild(o) == Alive /\ o \in handles /\ Wild(o) /\ Dies("dead member", o)
-----------------------------------------------------------------------------
(* asHaxeObject of an array or a map.                                      *)

\* The generated keySetIterator returns null, which the loop over a map
\* dereferences; when the JVM's call threw, it throws before that.
WalkMap(o) ==
  Alive /\ o \in handles /\ obj[o].mType = "MAP" /\ ~Wild(o) /\ Dies("null iterator", o)

\* The size is asked for once (or throws, and nothing is begun).
WalkArray(o) ==
  /\ Alive /\ walk = NoWalk /\ o \in handles /\ obj[o].mType = "ARRAY" /\ ~Wild(o)
  /\ walk' = [of |-> {o}, at |-> 0, size |-> Len(items[obj[o].in]), elem |-> {}]
  /\ UNCHANGED <<obj, given, handles, java, mine, uses, items, fault>>

GetElement(e) ==
  /\ walk.elem = {} /\ walk.at < walk.size
  /\ \E o \in walk.of : Fetch(obj[o].in, walk.at + 1, e)
  /\ walk' = [walk EXCEPT !.elem = {e}]
  /\ UNCHANGED <<handles, mine, uses, items, fault>>

\* xarr[i] = obj->asHaxeObject(), and obj goes out of scope.  xarr is one pointer:
\* from the second element on, xarr[i] is behind it.
StoreElement(e) ==
  /\ Alive /\ e \in walk.elem
  /\ \/ /\ walk' = [walk EXCEPT !.at = @ + 1, !.elem = {}]
        /\ UNCHANGED <<handles, java, mine>>
        /\ LetGo(e)
     \/ walk.at > 0 /\ Dies("array overrun", e)

\* asHaxeObject returns, or an exception of getObject leaves it.
LeaveWalk(o) ==
  /\ Alive /\ o \in walk.of /\ walk.elem = {}
  /\ walk' = NoWalk
  /\ UNCHANGED <<handles, java, mine>>
  /\ LetGo(o)
-----------------------------------------------------------------------------
Init ==
  /\ obj = [o \in Objects |-> Gone]
  /\ given = [o \in Objects |-> NoOrigin]
  /\ handles = {} /\ java = {} /\ mine = {} /\ walk = NoWalk
  /\ uses = [c \in Containers |-> 0]
  /\ items = [c \in Containers |-> <<>>]
  /\ fault = NoFault

Life(o) ==
  \/ FromTyped(o) \/ FromHaxe(o) \/ FromHaxeOther(o) \/ Copy(o)
  \/ Drop(o) \/ FromJava(o) \/ Finalize(o) \/ KeepContainer(o) \/ ReadWild(o)

Walk(o) == WalkMap(o) \/ WalkArray(o) \/ GetElement(o) \/ StoreElement(o) \/ LeaveWalk(o)

Contain(c) ==
  Create(c) \/ Release(c) \/ \E o \in Objects : Push(c, o) \/ PutAgain(c, o) \/ GetObject(c, o)

Next ==
  \/ \E o \in Objects : Life(o) \/ Walk(o)
  \/ FromHaxeNull \/ FromHaxeContainer
  \/ \E c \in Containers : Contain(c)

Spec == Init /\ [][Next]_vars
-----------------------------------------------------------------------------
(* Properties.                                                             *)

\* Every container's use_count is the number of shared_ptrs to it, a value lives
\* exactly as long as C++ code, a Java object or asHaxeObject holds it, and only a
\* value made from a Haxe String makes a member be used that is not there.
OwnedOnce ==
  /\ \A c \in Containers :
       uses[c] = Cardinality(mine \cap {c})
                 + Cardinality({o \in Objects : obj[o].live \in {"ARRAY", "MAP"} /\ obj[o].in = c})
  /\ Alive => \A o \in Objects : Exists(o) <=> o \in HeldBy(handles, java, walk)
  /\ fault[1] = "dead member" => fault[2] = "haxe String"

\* Accessors and asHaxeObject give back what a value was made from, also when it was
\* copied into a container and read from it: an int or a double exactly, a long up
\* to the rounding of a double, and what is of another type as the default.  Of a
\* Haxe number only whether it is zero comes back.
ReadBack ==
  \A o \in Objects :
    LET kind == given[o][1]  n == given[o][2]
    IN  /\ kind \in {"int", "long"} /\ n \in Int32 => AsInt(o) = {n}
        /\ kind = "int" => AsDouble(o) = {2 * n} /\ AsHaxeScalar(o) = {2 * n}
        /\ kind = "long" =>
             \A r \in AsDouble(o) \cup AsHaxeScalar(o) : Abs(r - 2 * n) * Mantissa <= 2 * Abs(n)
        /\ kind = "double" => AsDouble(o) = {n} /\ AsHaxeScalar(o) = {n}
        /\ kind = "haxe" => \A r \in AsDouble(o) : (r = 0) = (n = 0)
        /\ kind = "bool" => AsBoolean(o) = {n} /\ AsHaxeScalar(o) = {n}
        /\ kind = "string" => AsHaxeScalar(o) = {"text"}
        /\ kind = "array" => AsContainer(o, "ARRAY") = n /\ AsContainer(o, "MAP") = "nullptr"
        /\ kind = "map" => AsContainer(o, "MAP") = n /\ AsContainer(o, "ARRAY") = "nullptr"
        /\ kind \in {"null", "bool", "string", "array", "map"} => AsInt(o) = {0} /\ AsDouble(o) = {0}
        /\ kind \notin {"nothing", "haxe String"} =>
             /\ AsString(o) = IF kind = "string" THEN "text" ELSE "throws"
             /\ IsNull(o) <=> kind = "null"
=============================================================================
