------------------------- MODULE JavascriptValueProofs -------------------------
(***************************************************************************)
(* The values of the bridge: use counts, lifetimes and what is read back.  *)
(*                                                                         *)
(* The inductive invariant says more than OwnedOnce and ReadBack: what is  *)
(* in the memory of a value is what its constructor put there (Made),      *)
(* which tells what its destructor does; what was copied into a container  *)
(* is what a constructor would have stored (Types, by Items); and an array *)
(* never gets shorter than the walk over it expects (WalkFits).            *)
(***************************************************************************)
EXTENDS JavascriptValue, FiniteSetTheorems, SequenceTheorems, TLAPS

\* What a constructor may be given.
Origins ==
  {<<"null", 0>>, <<"bool", 0>>, <<"bool", 1>>, <<"string", 1>>}
    \cup ({"int"} \X Ints) \cup ({"long"} \X Longs) \cup ({"double"} \X Doubles)
    \cup ({"haxe"} \X (Ints \cup {0}))
    \cup ({"array"} \X Arrays) \cup ({"map"} \X Maps)

Scalars == {"NIL", "BOOLEAN", "NUMBER", "STRING"}

\* What may be copied into a container.
Items ==
  {[given |-> g, tag |-> TagOf(g), in |-> Stored(g)] : g \in {h \in Origins : TagOf(h) \in Scalars}}
    \cup [given : {HaxeString}, tag : Scalars, in : Int]

\* The memory of a value is what its constructor made of its argument.
MadeFrom(o) ==
  \/ obj[o] = Gone /\ given[o] = NoOrigin
  \/ /\ given[o] = HaxeString
     /\ obj[o] \in [mType : Tags, live : Scalars, in : Int]
  \/ /\ given[o] \in Origins
     /\ obj[o] = [mType |-> TagOf(given[o]), live |-> TagOf(given[o]), in |-> Stored(given[o])]

Types ==
  /\ DOMAIN obj = Objects /\ DOMAIN given = Objects /\ DOMAIN uses = Containers
  /\ handles \subseteq Objects /\ java \subseteq Objects /\ mine \subseteq Containers
  /\ items \in [Containers -> Seq(Items)]
  /\ walk \in [of : SUBSET Objects, at : Nat, size : Nat, elem : SUBSET Objects]

Made == \A o \in Objects : MadeFrom(o)

Owners(c) == {o \in Objects : obj[o].live \in {"ARRAY", "MAP"} /\ obj[o].in = c}

Counted ==
  \A c \in Containers : uses[c] = (IF c \in mine THEN 1 ELSE 0) + Cardinality(Owners(c))

Held == HeldBy(handles, java, walk)
Kept == Alive => \A o \in Objects : Exists(o) <=> o \in Held

OnlyHaxeStrings == fault[1] = "dead member" => fault[2] = "haxe String"

WalkFits ==
  /\ \A o \in walk.of :
       walk.of = {o} /\ obj[o].live = "ARRAY" /\ walk.size <= Len(items[obj[o].in])
  /\ \A e \in walk.elem : walk.elem = {e}

Lives == Types /\ Made /\ Counted /\ Kept /\ OnlyHaxeStrings /\ WalkFits
-----------------------------------------------------------------------------
(* What a constructor stores.                                              *)

\* What every argument of a constructor becomes: its tag, and what the union holds.
LEMMA OriginFacts ==
  ASSUME NEW g \in Origins
  PROVE  /\ g[1] \in {"null", "bool", "string", "int", "long", "double", "haxe", "array", "map"}
         /\ g[1] = "null" => TagOf(g) = "NIL" /\ Stored(g) = g[2]
         /\ g[1] = "bool" => TagOf(g) = "BOOLEAN" /\ Stored(g) = g[2]
         /\ g[1] = "string" => TagOf(g) = "STRING" /\ Stored(g) = g[2]
         /\ g[1] = "int" => TagOf(g) = "NUMBER" /\ Stored(g) = Nearest(2 * g[2]) /\ g[2] \in Ints
         /\ g[1] = "long" => TagOf(g) = "NUMBER" /\ Stored(g) = Nearest(2 * g[2]) /\ g[2] \in Longs
         /\ g[1] = "double" => TagOf(g) = "NUMBER" /\ Stored(g) = g[2] /\ g[2] \in Doubles
         /\ g[1] = "haxe" => TagOf(g) = "NUMBER" /\ Stored(g) = IF g[2] = 0 THEN 0 ELSE 2
         /\ g[1] = "array" => TagOf(g) = "ARRAY" /\ Stored(g) = g[2] /\ g[2] \in Arrays
         /\ g[1] = "map" => TagOf(g) = "MAP" /\ Stored(g) = g[2] /\ g[2] \in Maps
<1>1. CASE g \in {<<"null", 0>>, <<"bool", 0>>, <<"bool", 1>>, <<"string", 1>>}
  BY <1>1 DEF TagOf, Stored
<1>2. CASE g \in {"int"} \X Ints
  BY <1>2 DEF TagOf, Stored
<1>3. CASE g \in {"long"} \X Longs
  BY <1>3 DEF TagOf, Stored
<1>4. CASE g \in {"double"} \X Doubles
  BY <1>4 DEF TagOf, Stored
<1>5. CASE g \in {"haxe"} \X (Ints \cup {0})
  BY <1>5 DEF TagOf, Stored
<1>6. CASE g \in {"array"} \X Arrays
  BY <1>6 DEF TagOf, Stored
<1>7. CASE g \in {"map"} \X Maps
  BY <1>7 DEF TagOf, Stored
<1> QED
  BY <1>1, <1>2, <1>3, <1>4, <1>5, <1>6, <1>7 DEF Origins

\* A value that owns a container was made from it, and its tag says so.
LEMMA OwnerFacts ==
  ASSUME Made, NEW o \in Objects, obj[o].live \in {"ARRAY", "MAP"}
  PROVE  /\ obj[o].mType = obj[o].live /\ obj[o].in \in Containers
         /\ obj[o].live = "ARRAY" => obj[o].in \in Arrays
         /\ obj[o].live = "MAP" => obj[o].in \in Maps
<1>1. MadeFrom(o)
  BY DEF Made
<1>2. /\ given[o] \in Origins
      /\ obj[o] = [mType |-> TagOf(given[o]), live |-> TagOf(given[o]), in |-> Stored(given[o])]
  <2>1. obj[o] /= Gone
    BY DEF Gone
  <2>2. obj[o] \notin [mType : Tags, live : Scalars, in : Int]
    BY DEF Scalars
  <2> QED
    BY <1>1, <2>1, <2>2 DEF MadeFrom
<1>3. TagOf(given[o]) \in {"ARRAY", "MAP"}
  BY <1>2
<1>4. \/ TagOf(given[o]) = "ARRAY" /\ Stored(given[o]) \in Arrays
      \/ TagOf(given[o]) = "MAP" /\ Stored(given[o]) \in Maps
  <2>1. given[o][1] \in {"array", "map"}
    BY <1>2, <1>3, OriginFacts
  <2> QED
    BY <1>2, <2>1, OriginFacts
<1> QED
  BY <1>2, <1>4 DEF Containers


\* A value is wild only when it was made from a Haxe String.
LEMMA WildFacts ==
  ASSUME Made, NEW o \in Objects, Wild(o)
  PROVE  given[o][1] = "haxe String"
<1>1. MadeFrom(o)
  BY DEF Made
<1>2. obj[o] /= Gone
  BY DEF Wild, Gone, Owning
<1>3. ASSUME obj[o] = [mType |-> TagOf(given[o]), live |-> TagOf(given[o]), in |-> Stored(given[o])]
      PROVE  FALSE
  BY <1>3 DEF Wild
<1>4. given[o] = HaxeString
  BY <1>1, <1>2, <1>3 DEF MadeFrom
<1>5. HaxeString[1] = "haxe String"
  BY DEF HaxeString
<1> QED
  BY <1>4, <1>5
\* The sets of owners are finite.
LEMMA OwnersFinite ==
  ASSUME NEW c
  PROVE  IsFiniteSet(Owners(c)) /\ Cardinality(Owners(c)) \in Nat
<1>1. Owners(c) \subseteq Objects /\ IsFiniteSet(Objects)
  BY JavascriptValueAssumption DEF Owners
<1> QED
  BY <1>1, FS_Subset, FS_CardinalityType

\* A container that a value owns is in use.
OwnedInUse ==
  \A o \in Objects : obj[o].live \in {"ARRAY", "MAP"} =>
    obj[o].in \in Containers /\ uses[obj[o].in] /= 0

LEMMA OwnedIsUsed == Made /\ Counted => OwnedInUse
<1> SUFFICES ASSUME Made, Counted, NEW o \in Objects, obj[o].live \in {"ARRAY", "MAP"}
             PROVE  obj[o].in \in Containers /\ uses[obj[o].in] /= 0
  BY DEF OwnedInUse
<1> DEFINE c == obj[o].in
<1>1. c \in Containers
  BY OwnerFacts
<1>2. o \in Owners(c)
  BY DEF Owners
<1>3. IsFiniteSet(Owners(c)) /\ Cardinality(Owners(c)) \in Nat
  BY OwnersFinite
<1>4. Cardinality(Owners(c)) /= 0
  BY <1>2, <1>3, FS_EmptySet
<1>5. uses[c] = (IF c \in mine THEN 1 ELSE 0) + Cardinality(Owners(c))
  BY <1>1 DEF Counted
<1> HIDE DEF c
<1>6. uses[c] /= 0
  BY <1>3, <1>4, <1>5
<1> QED
  BY <1>1, <1>6 DEF c

\* What Java collects is still a container's content.
LEMMA CollectedFacts ==
  ASSUME items \in [Containers -> Seq(Items)], NEW us
  PROVE  Collected(us) \in [Containers -> Seq(Items)]
<1>1. <<>> \in Seq(Items)
  BY EmptySeq
<1> QED
  BY <1>1 DEF Collected
-----------------------------------------------------------------------------
(* The end of a value.                                                     *)

\* An object goes, and the use of a container that it owned with it.
LEMMA GoneIsCounted ==
  ASSUME Types, Made, Counted, NEW o \in Objects,
         obj' = [obj EXCEPT ![o] = Gone], mine' = mine,
         uses' = IF Releases(obj[o]) THEN [uses EXCEPT ![obj[o].in] = @ - 1] ELSE uses
  PROVE  Counted' /\ DOMAIN uses' = Containers
<1>1. DOMAIN obj = Objects /\ DOMAIN uses = Containers
  BY DEF Types
<1>2. DOMAIN uses' = Containers
  BY <1>1
<1>3. \A c \in Containers : Owners(c)' = Owners(c) \ {o}
  BY <1>1 DEF Owners, Gone
<1>4. ASSUME NEW c \in Containers
      PROVE  uses'[c] = (IF c \in mine' THEN 1 ELSE 0) + Cardinality(Owners(c)')
  <2>1. uses[c] = (IF c \in mine THEN 1 ELSE 0) + Cardinality(Owners(c))
    BY DEF Counted
  <2>2. IsFiniteSet(Owners(c)) /\ Cardinality(Owners(c)) \in Nat
    BY OwnersFinite
  <2>3. CASE o \in Owners(c)
    <3>1. obj[o].live \in {"ARRAY", "MAP"} /\ obj[o].in = c
      BY <2>3 DEF Owners
    <3>2. Releases(obj[o])
      BY <3>1, OwnerFacts DEF Releases
    <3>3. uses'[c] = uses[c] - 1
      BY <1>1, <3>1, <3>2
    <3>4. Cardinality(Owners(c)') = Cardinality(Owners(c)) - 1
      BY <1>3, <2>2, <2>3, FS_RemoveElement
    <3>5. \A u, v \in Nat : u = v + Cardinality(Owners(c)) => u - 1 = v + Cardinality(Owners(c)')
      BY <2>2, <3>4
    <3> QED
      BY <2>1, <2>2, <3>3, <3>5
  <2>4. CASE o \notin Owners(c)
    <3>1. Owners(c)' = Owners(c)
      BY <1>3, <2>4
    <3>2. uses'[c] = uses[c]
      <4>1. CASE Releases(obj[o])
        <5>1. obj[o].in /= c
          BY <2>4, <4>1 DEF Owners, Releases
        <5> QED
          BY <1>1, <4>1, <5>1
      <4> QED
        BY <4>1
    <3> QED
      BY <2>1, <3>1, <3>2
  <2> QED
    BY <2>3, <2>4
<1> QED
  BY <1>2, <1>4 DEF Counted

\* A holder of o lets go, and the others keep what they had: use counts, lifetimes
\* and the walk stay right, whether o was held elsewhere or not.
LEMMA LetGoKeeps ==
  ASSUME Lives, Alive, NEW o \in Objects, LetGo(o), mine' = mine,
         handles' \subseteq Objects, java' \subseteq Objects,
         walk' \in [of : SUBSET Objects, at : Nat, size : Nat, elem : SUBSET Objects],
         walk'.of = {} \/ (walk'.of = walk.of /\ walk'.size = walk.size),
         walk'.elem \in {{}, walk.elem},
         o \in Held, Held' \subseteq Held, Held \ {o} \subseteq Held'
  PROVE  Lives'
<1>1. /\ Types /\ Made /\ Counted /\ Kept /\ OnlyHaxeStrings /\ WalkFits
      /\ DOMAIN obj = Objects /\ DOMAIN given = Objects /\ DOMAIN uses = Containers
  BY DEF Lives, Types
<1>2. \A x \in Objects : Exists(x) <=> x \in Held
  BY <1>1 DEF Kept
<1>3. ASSUME \A x \in Objects : x \in Held' => obj'[x] = obj[x],
             \A x \in walk'.of : items'[obj[x].in] = items[obj[x].in]
      PROVE  WalkFits'
  <2>1. \A e \in walk'.elem : walk'.elem = {e}
    BY <1>1 DEF WalkFits
  <2>2. SUFFICES ASSUME NEW x \in walk'.of
                 PROVE  walk'.of = {x} /\ obj'[x].live = "ARRAY" /\ walk'.size <= Len(items'[obj'[x].in])
    BY <2>1 DEF WalkFits
  <2>3. x \in walk.of /\ walk'.of = walk.of /\ walk'.size = walk.size /\ x \in Held' /\ x \in Objects
    BY <2>2 DEF Held, HeldBy
  <2> QED
    BY <1>1, <1>3, <2>3 DEF WalkFits
<1>4. CASE o \in Held'
  <2>1. UNCHANGED <<obj, given, uses, items, fault>>
    BY <1>4 DEF LetGo, Held
  <2>2. Types' /\ Made' /\ OnlyHaxeStrings'
    BY <1>1, <2>1 DEF Types, Made, MadeFrom, OnlyHaxeStrings
  <2>3. Counted'
    BY <1>1, <2>1 DEF Counted, Owners
  <2>4. \A x \in Objects : Exists(x)' <=> x \in Held'
    BY <1>2, <1>4, <2>1 DEF Exists
  <2>5. WalkFits'
    BY <1>3, <2>1
  <2> QED
    BY <2>2, <2>3, <2>4, <2>5 DEF Kept, Lives
<1>5. CASE o \notin Held'
  <2>1. o \notin HeldBy(handles', java', walk')
    BY <1>5 DEF Held
  <2>2. CASE /\ obj' = [obj EXCEPT ![o] = Gone]
             /\ given' = [given EXCEPT ![o] = NoOrigin]
             /\ uses' = IF Releases(obj[o]) THEN [uses EXCEPT ![obj[o].in] = @ - 1] ELSE uses
             /\ items' = Collected(uses')
             /\ UNCHANGED fault
    <3>1. Counted' /\ DOMAIN uses' = Containers
      BY <1>1, <2>2, GoneIsCounted
    <3>2. items' \in [Containers -> Seq(Items)]
      BY <1>1, <2>2, CollectedFacts DEF Types
    <3>3. Types'
      BY <1>1, <2>2, <3>1, <3>2 DEF Types
    <3>4. /\ obj'[o] = Gone /\ given'[o] = NoOrigin
          /\ \A x \in Objects \ {o} : obj'[x] = obj[x] /\ given'[x] = given[x]
      BY <1>1, <2>2
    <3>5. Made'
      BY <1>1, <3>4 DEF Made, MadeFrom
    <3>6. \A x \in Objects : Exists(x)' <=> x \in Held'
      BY <1>2, <1>5, <3>4 DEF Exists, Gone
    <3>7. WalkFits'
      <4>1. ASSUME NEW x \in walk'.of
            PROVE  items'[obj[x].in] = items[obj[x].in]
        <5>1. x \in Objects \ {o} /\ x \in walk.of
          BY <1>5, <4>1 DEF Held, HeldBy
        <5>2. obj[x].live = "ARRAY" /\ obj'[x] = obj[x]
          BY <1>1, <3>4, <5>1 DEF WalkFits
        <5>3. (Made /\ Counted => OwnedInUse)'
          BY OwnedIsUsed, PTL
        <5>4. obj[x].in \in Containers /\ uses'[obj[x].in] /= 0
          BY <3>1, <3>5, <5>1, <5>2, <5>3 DEF OwnedInUse
        <5> QED
          BY <2>2, <5>4 DEF Collected
      <4> QED
        BY <1>3, <1>5, <3>4, <4>1
    <3>8. OnlyHaxeStrings'
      BY <1>1, <2>2 DEF OnlyHaxeStrings
    <3> QED
      BY <3>1, <3>3, <3>5, <3>6, <3>7, <3>8 DEF Kept, Lives
  <2>3. CASE /\ Wild(o)
             /\ fault' = <<"dead member", given[o][1]>>
             /\ UNCHANGED <<obj, given, uses, items>>
    <3>1. Types' /\ Made'
      BY <1>1, <2>3 DEF Types, Made, MadeFrom
    <3>2. Counted'
      BY <1>1, <2>3 DEF Counted, Owners
    <3>3. fault'[2] = "haxe String"
      <4>1. given[o][1] = "haxe String"
        BY <1>1, <2>3, WildFacts
      <4>2. fault' = <<"dead member", given[o][1]>>
        BY <2>3
      <4> QED
        BY <4>1, <4>2
    <3>4. ~Alive'
      BY <2>3 DEF Alive, NoFault
    <3>5. WalkFits'
      BY <1>3, <2>3
    <3> QED
      BY <3>1, <3>2, <3>3, <3>4, <3>5 DEF Kept, OnlyHaxeStrings, Lives
  <2> QED
    BY <2>1, <2>2, <2>3 DEF LetGo
<1> QED
  BY <1>4, <1>5

\* When no value comes or goes and what is held stays held, lifetimes stay right.
LEMMA SharedKeeps ==
  ASSUME Lives, UNCHANGED <<obj, given, mine, uses, fault>>, Held' = Held, Types', WalkFits'
  PROVE  Lives'
<1>1. Made' /\ OnlyHaxeStrings'
  BY DEF Lives, Made, MadeFrom, OnlyHaxeStrings
<1>2. Counted'
  BY DEF Lives, Counted, Owners
<1>3. Kept'
  BY DEF Lives, Kept, Exists, Alive
<1> QED
  BY <1>1, <1>2, <1>3 DEF Lives

LEMMA EmptyFacts ==
  ASSUME NEW S
  PROVE  <<>> \in Seq(S)
BY EmptySeq

LEMMA NoWalkFacts ==
  /\ NoWalk \in [of : SUBSET Objects, at : Nat, size : Nat, elem : SUBSET Objects]
  /\ NoWalk.of = {} /\ NoWalk.elem = {}
BY DEF NoWalk

\* Who dies of a dead member dies over a wild value.
Blamed(why, o) == why = "dead member" => Wild(o)

Nothing ==
  /\ obj = [x \in Objects |-> Gone] /\ given = [x \in Objects |-> NoOrigin]
  /\ handles = {} /\ java = {} /\ mine = {} /\ walk = NoWalk
  /\ uses = [c \in Containers |-> 0] /\ items = [c \in Containers |-> <<>>]

\* With nothing in memory all is in order, whatever the process died of.
LEMMA NothingLives == Nothing /\ OnlyHaxeStrings => Lives
<1> SUFFICES ASSUME Nothing, OnlyHaxeStrings
             PROVE  Lives
  OBVIOUS
<1> USE DEF Nothing
<1>1. Types
  <2>1. items \in [Containers -> Seq(Items)]
    <3>1. <<>> \in Seq(Items)
      BY EmptyFacts
    <3> QED
      BY <3>1
  <2> QED
    BY <2>1, NoWalkFacts DEF Types
<1>2. Made
  BY DEF Made, MadeFrom
<1>3. Counted
  <2>1. SUFFICES ASSUME NEW c \in Containers
                 PROVE  uses[c] = (IF c \in mine THEN 1 ELSE 0) + Cardinality(Owners(c))
    BY DEF Counted
  <2>2. Owners(c) = {}
    BY DEF Owners, Gone
  <2>3. Cardinality(Owners(c)) = 0
    BY <2>2, FS_EmptySet
  <2> QED
    BY <2>3
<1>4. Kept
  <2>1. Held = {}
    BY NoWalkFacts DEF Held, HeldBy
  <2>2. \A x \in Objects : ~Exists(x)
    BY DEF Exists, Gone
  <2> QED
    BY <2>1, <2>2 DEF Kept
<1>5. WalkFits
  BY NoWalkFacts DEF WalkFits
<1> QED
  BY <1>1, <1>2, <1>3, <1>4, <1>5 DEF Lives

\* When the process dies, everything it had goes.
LEMMA DeathKeeps ==
  ASSUME Lives, NEW why, NEW o \in Objects, Dies(why, o), Blamed(why, o)
  PROVE  Lives'
<1>1. OnlyHaxeStrings'
  <2>1. fault' = <<why, given[o][1]>>
    BY DEF Dies
  <2>2. CASE why = "dead member"
    <3>1. given[o][1] = "haxe String"
      BY <2>2, WildFacts DEF Blamed, Lives
    <3> QED
      BY <2>1, <3>1 DEF OnlyHaxeStrings
  <2>3. CASE why /= "dead member"
    BY <2>1, <2>3 DEF OnlyHaxeStrings
  <2> QED
    BY <2>2, <2>3
<1>2. Nothing'
  BY DEF Dies, Nothing
<1>3. (Nothing /\ OnlyHaxeStrings => Lives)'
  BY NothingLives, PTL
<1> QED
  BY <1>1, <1>2, <1>3
-----------------------------------------------------------------------------
(* The steps.                                                              *)

\* A new value is held by who made it, and counts as an owner of what it was given.
LEMMA BornKeeps ==
  ASSUME Lives, NEW o \in Objects, NEW v, NEW g, Place(o, v, g),
         UNCHANGED <<mine, items, fault>>, handles' \subseteq Objects, java' \subseteq Objects,
         walk' \in [of : SUBSET Objects, at : Nat, size : Nat, elem : SUBSET Objects],
         walk'.of = walk.of, walk'.size = walk.size, walk'.elem \in {{o}, walk.elem},
         Held' = Held \cup {o}, MadeFrom(o)', v.live /= "destroyed", DOMAIN uses' = Containers,
         \A c \in Containers :
           uses'[c] = IF v.live \in {"ARRAY", "MAP"} /\ v.in = c THEN uses[c] + 1 ELSE uses[c]
  PROVE  Lives'
<1>1. Types /\ Made /\ Counted /\ Kept /\ OnlyHaxeStrings /\ WalkFits /\ Alive /\ ~Exists(o)
  BY DEF Lives, Place
<1>2. DOMAIN obj = Objects /\ DOMAIN given = Objects
  BY <1>1 DEF Types
<1>3. /\ obj' = [obj EXCEPT ![o] = v] /\ given' = [given EXCEPT ![o] = g]
      /\ obj'[o] = v /\ \A x \in Objects \ {o} : obj'[x] = obj[x] /\ given'[x] = given[x]
  BY <1>2 DEF Place
<1>4. Types'
  BY <1>1, <1>2, <1>3 DEF Types
<1>5. Made'
  <2>1. ASSUME NEW x \in Objects, x /= o
        PROVE  MadeFrom(x)'
    <3>1. obj'[x] = obj[x] /\ given'[x] = given[x]
      BY <1>3, <2>1
    <3>2. MadeFrom(x)
      BY <1>1 DEF Made
    <3> QED
      BY <3>1, <3>2 DEF MadeFrom
  <2> QED
    BY <2>1 DEF Made
<1>6. Counted'
  <2>1. SUFFICES ASSUME NEW c \in Containers
                 PROVE  uses'[c] = (IF c \in mine' THEN 1 ELSE 0) + Cardinality(Owners(c)')
    BY DEF Counted
  <2>2. uses[c] = (IF c \in mine THEN 1 ELSE 0) + Cardinality(Owners(c))
    BY <1>1 DEF Counted
  <2>3. IsFiniteSet(Owners(c)) /\ Cardinality(Owners(c)) \in Nat
    BY OwnersFinite
  <2>4. o \notin Owners(c)
    BY <1>1 DEF Owners, Exists
  <2>5. CASE v.live \in {"ARRAY", "MAP"} /\ v.in = c
    <3>1. Owners(c)' = Owners(c) \cup {o}
      BY <1>3, <2>5 DEF Owners
    <3>2. Cardinality(Owners(c)') = Cardinality(Owners(c)) + 1
      BY <2>3, <2>4, <3>1, FS_AddElement
    <3>3. uses'[c] = uses[c] + 1
      BY <2>5
    <3>4. \A m, n \in Nat : n = m + Cardinality(Owners(c)) => n + 1 = m + Cardinality(Owners(c)')
      BY <2>3, <3>2
    <3> QED
      BY <2>2, <2>3, <3>3, <3>4
  <2>6. CASE ~(v.live \in {"ARRAY", "MAP"} /\ v.in = c)
    <3>1. Owners(c)' = Owners(c)
      BY <1>3, <2>4, <2>6 DEF Owners
    <3> QED
      BY <2>2, <2>6, <3>1
  <2> QED
    BY <2>5, <2>6
<1>7. Kept'
  <2>1. \A x \in Objects : Exists(x)' <=> x = o \/ Exists(x)
    BY <1>3 DEF Exists
  <2> QED
    BY <1>1, <2>1 DEF Kept
<1>8. OnlyHaxeStrings'
  BY <1>1 DEF OnlyHaxeStrings
<1>9. WalkFits'
  <2>1. o \notin walk.of
    BY <1>1 DEF Kept, Held, HeldBy
  <2>2. \A x \in walk.of : x \in Objects /\ obj'[x] = obj[x]
    BY <1>1, <1>3, <2>1 DEF Types
  <2> QED
    BY <1>1, <2>2 DEF WalkFits
<1> QED
  BY <1>4, <1>5, <1>6, <1>7, <1>8, <1>9 DEF Lives

LEMMA MakeKeeps ==
  ASSUME Lives, NEW o \in Objects, NEW g \in Origins, Make(o, g)
  PROVE  Lives'
<1> DEFINE v == [mType |-> TagOf(g), live |-> TagOf(g), in |-> Stored(g)]
<1>1. /\ Place(o, v, g) /\ handles' = handles \cup {o}
      /\ UNCHANGED <<java, mine, items, walk, fault>>
      /\ uses' = IF g[1] \in {"array", "map"} THEN [uses EXCEPT ![g[2]] = @ + 1] ELSE uses
  BY DEF Make
<1>2. Types /\ DOMAIN obj = Objects /\ DOMAIN given = Objects /\ DOMAIN uses = Containers
  BY DEF Lives, Types
<1>3. v.live = TagOf(g) /\ v.in = Stored(g)
  OBVIOUS
<1>4. TagOf(g) /= "destroyed"
  BY OriginFacts
<1>5. MadeFrom(o)'
  <2>1. obj'[o] = v /\ given'[o] = g
    BY <1>1, <1>2 DEF Place
  <2> QED
    BY <2>1 DEF MadeFrom
<1>6. ASSUME NEW c \in Containers
      PROVE  uses'[c] = IF v.live \in {"ARRAY", "MAP"} /\ v.in = c THEN uses[c] + 1 ELSE uses[c]
  <2>1. CASE g[1] \in {"array", "map"}
    <3>1. TagOf(g) \in {"ARRAY", "MAP"} /\ Stored(g) = g[2]
      BY <2>1, OriginFacts
    <3>2. uses'[c] = IF c = g[2] THEN uses[c] + 1 ELSE uses[c]
      BY <1>1, <1>2, <2>1
    <3> QED
      BY <1>3, <3>1, <3>2
  <2>2. CASE g[1] \notin {"array", "map"}
    <3>1. TagOf(g) \notin {"ARRAY", "MAP"}
      BY <2>2, OriginFacts
    <3> QED
      BY <1>1, <1>3, <2>2, <3>1
  <2> QED
    BY <2>1, <2>2
<1>7. DOMAIN uses' = Containers
  BY <1>1, <1>2
<1>8. handles' \subseteq Objects /\ java' \subseteq Objects /\ Held' = Held \cup {o} /\ walk' = walk
  BY <1>1, <1>2 DEF Types, Held, HeldBy
<1>9. walk' \in [of : SUBSET Objects, at : Nat, size : Nat, elem : SUBSET Objects]
  BY <1>2, <1>8 DEF Types
<1> HIDE DEF v
<1> QED
  BY <1>1, <1>3, <1>4, <1>5, <1>6, <1>7, <1>8, <1>9, BornKeeps

\* A value that owns no container is born.
LEMMA ScalarKeeps ==
  ASSUME Lives, NEW o \in Objects, NEW v, NEW g, Place(o, v, g),
         v.live \in Scalars, MadeFrom(o)', UNCHANGED <<mine, uses, items, fault>>,
         handles' \subseteq Objects, java' \subseteq Objects,
         walk' \in [of : SUBSET Objects, at : Nat, size : Nat, elem : SUBSET Objects],
         walk'.of = walk.of, walk'.size = walk.size, walk'.elem \in {{o}, walk.elem},
         Held' = Held \cup {o}
  PROVE  Lives'
<1>1. v.live \notin {"ARRAY", "MAP", "destroyed"}
  BY DEF Scalars
<1>2. DOMAIN uses' = Containers
  BY DEF Lives, Types
<1> QED
  BY <1>1, <1>2, BornKeeps

LEMMA FromHaxeOtherKeeps ==
  ASSUME Lives, NEW o \in Objects, FromHaxeOther(o)
  PROVE  Lives'
<1>1. PICK t \in Tags : Place(o, [mType |-> t, live |-> "NIL", in |-> 0], HaxeString)
  BY DEF FromHaxeOther
<1> DEFINE v == [mType |-> t, live |-> "NIL", in |-> 0]
<1>2. handles' = handles \cup {o} /\ UNCHANGED <<java, mine, uses, items, walk, fault>>
  BY DEF FromHaxeOther
<1>3. Types /\ DOMAIN obj = Objects /\ DOMAIN given = Objects
  BY DEF Lives, Types
<1>4. v.live \in Scalars /\ v \in [mType : Tags, live : Scalars, in : Int]
  BY DEF Scalars
<1>5. MadeFrom(o)'
  <2>1. obj'[o] = v /\ given'[o] = HaxeString
    BY <1>1, <1>3 DEF Place
  <2> QED
    BY <1>4, <2>1 DEF MadeFrom
<1>6. /\ handles' \subseteq Objects /\ java' \subseteq Objects /\ Held' = Held \cup {o}
      /\ walk' \in [of : SUBSET Objects, at : Nat, size : Nat, elem : SUBSET Objects]
      /\ walk'.of = walk.of /\ walk'.size = walk.size /\ walk'.elem = walk.elem
  BY <1>2, <1>3 DEF Types, Held, HeldBy
<1> HIDE DEF v
<1> QED
  BY <1>1, <1>2, <1>4, <1>5, <1>6, ScalarKeeps DEF v

\* A value that Java makes from a copy is as the value that was copied was made.
LEMMA FetchFacts ==
  ASSUME Lives, NEW c \in Containers, NEW k \in DOMAIN items[c], NEW e \in Objects, Fetch(c, k, e)
  PROVE  \E v, g : Place(e, v, g) /\ v.live \in Scalars /\ MadeFrom(e)' /\ java' = java \cup {e}
<1> DEFINE x == items[c][k]
<1> DEFINE v == [mType |-> x.tag, live |-> x.tag, in |-> x.in]
<1>1. Place(e, v, x.given) /\ java' = java \cup {e}
  BY DEF Fetch
<1>2. x \in Items
  <2>1. items[c] \in Seq(Items)
    BY DEF Lives, Types
  <2> QED
    BY <2>1
<1>3. obj'[e] = v /\ given'[e] = x.given
  BY <1>1 DEF Place, Lives, Types
<1> HIDE DEF x
<1>4. CASE x \in [given : {HaxeString}, tag : Scalars, in : Int]
  <2>1. v.live \in Scalars /\ v \in [mType : Tags, live : Scalars, in : Int]
    BY <1>4 DEF Scalars, Tags, Owning
  <2>2. x.given = HaxeString
    BY <1>4
  <2>3. MadeFrom(e)'
    BY <1>3, <2>1, <2>2 DEF MadeFrom
  <2> QED
    BY <1>1, <2>1, <2>3
<1>5. ASSUME NEW g \in Origins, TagOf(g) \in Scalars,
             x = [given |-> g, tag |-> TagOf(g), in |-> Stored(g)]
      PROVE  v.live \in Scalars /\ MadeFrom(e)'
  BY <1>3, <1>5 DEF MadeFrom
<1> HIDE DEF v
<1> QED
  BY <1>1, <1>2, <1>4, <1>5 DEF Items

LEMMA GetObjectKeeps ==
  ASSUME Lives, NEW c \in Containers, NEW e \in Objects, GetObject(c, e)
  PROVE  Lives'
<1>1. PICK k \in DOMAIN items[c] : Fetch(c, k, e)
  BY DEF GetObject
<1>2. PICK v, g : Place(e, v, g) /\ v.live \in Scalars /\ MadeFrom(e)' /\ java' = java \cup {e}
  BY <1>1, FetchFacts
<1>3. handles' = handles \cup {e} /\ UNCHANGED <<mine, uses, items, walk, fault>>
  BY DEF GetObject
<1>4. /\ handles' \subseteq Objects /\ java' \subseteq Objects /\ Held' = Held \cup {e}
      /\ walk' \in [of : SUBSET Objects, at : Nat, size : Nat, elem : SUBSET Objects]
      /\ walk'.of = walk.of /\ walk'.size = walk.size /\ walk'.elem = walk.elem
  BY <1>2, <1>3 DEF Lives, Types, Held, HeldBy
<1> QED
  BY <1>2, <1>3, <1>4, ScalarKeeps

LEMMA GetElementKeeps ==
  ASSUME Lives, NEW e \in Objects, GetElement(e)
  PROVE  Lives'
<1>1. PICK o \in walk.of : Fetch(obj[o].in, walk.at + 1, e)
  BY DEF GetElement
<1>2. /\ walk.elem = {} /\ walk.at < walk.size /\ walk' = [walk EXCEPT !.elem = {e}]
      /\ UNCHANGED <<handles, mine, uses, items, fault>>
  BY DEF GetElement
<1>3. /\ Types /\ Made /\ o \in Objects /\ obj[o].live = "ARRAY"
      /\ walk \in [of : SUBSET Objects, at : Nat, size : Nat, elem : SUBSET Objects]
      /\ walk.size <= Len(items[obj[o].in])
  BY DEF Lives, Types, WalkFits
<1>4. obj[o].in \in Containers
  BY <1>3, OwnerFacts
<1>5. items[obj[o].in] \in Seq(Items)
  BY <1>3, <1>4 DEF Types
<1>6. walk.at + 1 \in DOMAIN items[obj[o].in]
  <2>1. walk.at \in Nat /\ walk.size \in Nat /\ Len(items[obj[o].in]) \in Nat
    BY <1>3, <1>5
  <2> QED
    BY <1>2, <1>3, <1>5, <2>1
<1>7. PICK v, g : Place(e, v, g) /\ v.live \in Scalars /\ MadeFrom(e)' /\ java' = java \cup {e}
  BY <1>1, <1>4, <1>6, FetchFacts
<1>8. /\ walk' \in [of : SUBSET Objects, at : Nat, size : Nat, elem : SUBSET Objects]
      /\ walk'.of = walk.of /\ walk'.size = walk.size /\ walk'.elem = {e}
  BY <1>2, <1>3
<1>9. handles' \subseteq Objects /\ java' \subseteq Objects /\ Held' = Held \cup {e}
  BY <1>2, <1>3, <1>7, <1>8 DEF Types, Held, HeldBy
<1> QED
  BY <1>2, <1>7, <1>8, <1>9, ScalarKeeps

\* The ends of a hold: of C++ code, of Java, of the walk on an element and on its array.
LEMMA EndsKeep ==
  ASSUME Lives, NEW o \in Objects, Drop(o) \/ Finalize(o) \/ LeaveWalk(o)
  PROVE  Lives'
<1>1. /\ handles \subseteq Objects /\ java \subseteq Objects
      /\ walk \in [of : SUBSET Objects, at : Nat, size : Nat, elem : SUBSET Objects]
  BY DEF Lives, Types
<1>2. CASE Drop(o)
  BY <1>1, <1>2, LetGoKeeps DEF Drop, Held, HeldBy
<1>3. CASE Finalize(o)
  BY <1>1, <1>3, LetGoKeeps DEF Finalize, Held, HeldBy
<1>4. CASE LeaveWalk(o)
  <2>1. walk'.of = {} /\ walk'.elem = {} /\ walk.elem = {} /\ o \in walk.of
    BY <1>4, NoWalkFacts DEF LeaveWalk
  <2>2. walk' \in [of : SUBSET Objects, at : Nat, size : Nat, elem : SUBSET Objects]
    BY <1>4, NoWalkFacts DEF LeaveWalk
  <2>3. walk.of = {o}
    BY <2>1 DEF Lives, WalkFits
  <2> QED
    BY <1>1, <1>4, <2>1, <2>2, <2>3, LetGoKeeps DEF LeaveWalk, Held, HeldBy
<1> QED
  BY <1>2, <1>3, <1>4

\* From the second element on, the walk may die behind its array; else it goes on.
LEMMA StoreElementKeeps ==
  ASSUME Lives, NEW e \in Objects, StoreElement(e)
  PROVE  Lives'
<1>1. /\ handles \subseteq Objects /\ java \subseteq Objects
      /\ walk \in [of : SUBSET Objects, at : Nat, size : Nat, elem : SUBSET Objects]
      /\ Alive /\ e \in walk.elem
  BY DEF Lives, Types, StoreElement
<1>2. CASE /\ walk' = [walk EXCEPT !.at = @ + 1, !.elem = {}]
           /\ UNCHANGED <<handles, java, mine>>
           /\ LetGo(e)
  <2> DEFINE w == [walk EXCEPT !.at = @ + 1]
  <2>1. /\ walk' \in [of : SUBSET Objects, at : Nat, size : Nat, elem : SUBSET Objects]
        /\ walk'.of = walk.of /\ walk'.size = walk.size /\ walk'.elem = {}
    <3>1. /\ w \in [of : SUBSET Objects, at : Nat, size : Nat, elem : SUBSET Objects]
          /\ w.of = walk.of /\ w.size = walk.size
      BY <1>1
    <3>2. walk' = [w EXCEPT !.elem = {}]
      BY <1>2
    <3> HIDE DEF w
    <3> QED
      BY <3>1, <3>2
  <2>2. walk.elem = {e}
    BY <1>1 DEF Lives, WalkFits
  <2> QED
    BY <1>1, <1>2, <2>1, <2>2, LetGoKeeps DEF Held, HeldBy
<1>3. CASE Dies("array overrun", e)
  BY <1>3, DeathKeeps DEF Blamed
<1> QED
  BY <1>2, <1>3 DEF StoreElement

LEMMA FromJavaKeeps ==
  ASSUME Lives, NEW o \in Objects, FromJava(o)
  PROVE  Lives'
<1>1. Held' = Held
  BY DEF FromJava, Held, HeldBy
<1>2. Types' /\ WalkFits'
  BY DEF FromJava, Lives, Types, WalkFits
<1> QED
  BY <1>1, <1>2, SharedKeeps DEF FromJava

LEMMA WalkArrayKeeps ==
  ASSUME Lives, NEW o \in Objects, WalkArray(o)
  PROVE  Lives'
<1>1. /\ Types /\ Made /\ walk = NoWalk /\ o \in handles
      /\ obj[o].mType = "ARRAY" /\ ~Wild(o)
      /\ walk' = [of |-> {o}, at |-> 0, size |-> Len(items[obj[o].in]), elem |-> {}]
      /\ UNCHANGED <<obj, given, handles, java, mine, uses, items, fault>>
  BY DEF WalkArray, Lives
<1>2. obj[o].live = "ARRAY"
  BY <1>1 DEF Wild, Owning
<1>3. obj[o].in \in Containers
  BY <1>1, <1>2, OwnerFacts
<1>4. Len(items[obj[o].in]) \in Nat
  BY <1>1, <1>3 DEF Types
<1> DEFINE n == Len(items[obj[o].in])
<1>5. n \in Nat /\ n = Len(items'[obj'[o].in])
  BY <1>1, <1>4
<1> HIDE DEF n
<1>6. /\ walk' \in [of : SUBSET Objects, at : Nat, size : Nat, elem : SUBSET Objects]
      /\ walk'.of = {o} /\ walk'.elem = {} /\ walk'.size = n
  BY <1>1, <1>4 DEF n
<1>7. Types'
  BY <1>1, <1>6 DEF Types
<1>8. WalkFits'
  BY <1>1, <1>2, <1>5, <1>6 DEF WalkFits
<1>9. Held' = Held
  BY <1>1, <1>6, NoWalkFacts DEF Held, HeldBy
<1> QED
  BY <1>1, <1>7, <1>8, <1>9, SharedKeeps

\* What is copied out of a value is as a constructor would have stored it.
LEMMA CopiedFacts ==
  ASSUME Lives, NEW o \in Objects, Exists(o), ~Wild(o)
  PROVE  Copied(o) \subseteq Items
<1>1. SUFFICES ASSUME obj[o].mType \notin {"ARRAY", "MAP"}, NEW n \in Content(o)
               PROVE  [given |-> given[o], tag |-> obj[o].mType, in |-> n] \in Items
  BY DEF Copied
<1>2. MadeFrom(o) /\ obj[o] /= Gone
  BY DEF Lives, Made, Exists, Gone
<1>3. CASE given[o] = HaxeString /\ obj[o] \in [mType : Tags, live : Scalars, in : Int]
  <2>1. obj[o].mType \in Scalars
    BY <1>1, <1>3 DEF Tags, Scalars, Owning
  <2>2. n \in Int
    <3>1. obj[o].in \in Int /\ Doubles \subseteq Int
      BY <1>3, JavascriptValueAssumption
    <3> QED
      BY <1>1, <3>1 DEF Content
  <2> QED
    BY <1>3, <2>1, <2>2 DEF Items
<1>4. CASE /\ given[o] \in Origins
           /\ obj[o] = [mType |-> TagOf(given[o]), live |-> TagOf(given[o]), in |-> Stored(given[o])]
  <2>1. obj[o].live = obj[o].mType /\ obj[o].mType = TagOf(given[o]) /\ obj[o].in = Stored(given[o])
    BY <1>4
  <2>2. n = Stored(given[o])
    BY <1>1, <2>1 DEF Content
  <2>3. TagOf(given[o]) \in Scalars
    <3>1. TagOf(given[o]) \in Tags
      BY <1>4, OriginFacts DEF Tags, Owning
    <3> QED
      BY <1>1, <2>1, <3>1 DEF Tags, Owning, Scalars
  <2> QED
    BY <1>4, <2>1, <2>2, <2>3 DEF Items
<1> QED
  BY <1>2, <1>3, <1>4 DEF MadeFrom

\* A container that does not get shorter leaves the walk over it as it was.
LEMMA WriteKeeps ==
  ASSUME Lives, NEW c \in Containers, NEW o \in Objects, NEW written, Write(c, o, written),
         Exists(o) /\ ~Wild(o) =>
           \A s \in written : s \in Seq(Items) /\ Len(s) >= Len(items[c])
  PROVE  Lives'
<1>1. CASE Wild(o) /\ Dies("dead member", o)
  BY <1>1, DeathKeeps DEF Blamed
<1>2. CASE /\ ~Wild(o) /\ java' = java \cup {o}
           /\ \E s \in {items[c]} \cup written : items' = [items EXCEPT ![c] = s]
           /\ UNCHANGED <<obj, given, handles, mine, uses, walk, fault>>
  <2>1. Types /\ Made /\ o \in handles /\ o \in Objects /\ Exists(o)
    BY DEF Write, Lives, Kept, Held, HeldBy
  <2>2. items \in [Containers -> Seq(Items)] /\ items[c] \in Seq(Items)
    BY <2>1 DEF Types
  <2>3. PICK s \in {items[c]} \cup written : items' = [items EXCEPT ![c] = s]
    BY <1>2
  <2>4. s \in Seq(Items) /\ Len(s) >= Len(items[c])
    <3>1. Len(items[c]) \in Nat
      BY <2>2
    <3> QED
      BY <1>2, <2>1, <2>2, <2>3, <3>1
  <2>5. /\ items' \in [Containers -> Seq(Items)]
        /\ \A d \in Containers : Len(items[d]) \in Nat /\ Len(items'[d]) \in Nat
        /\ \A d \in Containers : Len(items'[d]) >= Len(items[d])
    BY <2>2, <2>3, <2>4
  <2>6. Types'
    BY <1>2, <2>1, <2>5 DEF Types
  <2>7. Held' = Held
    BY <1>2, <2>1 DEF Held, HeldBy
  <2>8. WalkFits'
    <3>1. SUFFICES ASSUME NEW x \in walk.of
                   PROVE  walk.size <= Len(items'[obj[x].in])
      BY <1>2 DEF Lives, WalkFits
    <3>2. x \in Objects /\ obj[x].live = "ARRAY" /\ walk.size <= Len(items[obj[x].in])
      BY <2>1, <3>1 DEF Lives, WalkFits, Types
    <3>3. obj[x].in \in Containers
      BY <2>1, <3>2, OwnerFacts
    <3>4. walk.size \in Nat
      BY <2>1 DEF Types
    <3> QED
      BY <2>5, <3>2, <3>3, <3>4
  <2> QED
    BY <1>2, <2>6, <2>7, <2>8, SharedKeeps
<1> QED
  BY <1>1, <1>2 DEF Write

LEMMA PushKeeps ==
  ASSUME Lives, NEW c \in Containers, NEW o \in Objects, Push(c, o) \/ PutAgain(c, o)
  PROVE  Lives'
<1>1. items[c] \in Seq(Items)
  BY DEF Lives, Types
<1>2. Exists(o) /\ ~Wild(o) => Copied(o) \subseteq Items
  BY CopiedFacts
<1>3. CASE Push(c, o)
  <2>1. ASSUME NEW x \in Items
        PROVE  Append(items[c], x) \in Seq(Items) /\ Len(Append(items[c], x)) >= Len(items[c])
    BY <1>1
  <2> DEFINE written == {Append(items[c], x) : x \in Copied(o)}
  <2>2. Exists(o) /\ ~Wild(o) => \A s \in written : s \in Seq(Items) /\ Len(s) >= Len(items[c])
    BY <1>2, <2>1
  <2>3. Write(c, o, written)
    BY <1>3 DEF Push
  <2> HIDE DEF written
  <2> QED
    BY <2>2, <2>3, WriteKeeps
<1>4. CASE PutAgain(c, o)
  <2>1. ASSUME NEW k \in DOMAIN items[c], NEW x \in Items
        PROVE  /\ [items[c] EXCEPT ![k] = x] \in Seq(Items)
               /\ Len([items[c] EXCEPT ![k] = x]) >= Len(items[c])
    BY <1>1
  <2> DEFINE written == {[items[c] EXCEPT ![k] = x] : k \in DOMAIN items[c], x \in Copied(o)}
  <2>2. Exists(o) /\ ~Wild(o) => \A s \in written : s \in Seq(Items) /\ Len(s) >= Len(items[c])
    BY <1>2, <2>1
  <2>3. Write(c, o, written)
    BY <1>4 DEF PutAgain
  <2> HIDE DEF written
  <2> QED
    BY <2>2, <2>3, WriteKeeps
<1> QED
  BY <1>3, <1>4

\* The uses of a container follow whether C++ code holds it.
LEMMA UsesKeep ==
  ASSUME Lives, NEW c \in Containers, UNCHANGED <<obj, given, handles, java, walk, fault>>,
         mine' \subseteq Containers, items' \in [Containers -> Seq(Items)], WalkFits',
         DOMAIN uses' = Containers,
         uses'[c] = (IF c \in mine' THEN 1 ELSE 0) + Cardinality(Owners(c)),
         \A d \in Containers \ {c} : uses'[d] = uses[d] /\ (d \in mine' <=> d \in mine)
  PROVE  Lives'
<1>1. Types' /\ Made' /\ OnlyHaxeStrings'
  BY DEF Lives, Types, Made, MadeFrom, OnlyHaxeStrings
<1>2. Kept'
  BY DEF Lives, Kept, Exists, Alive, Held
<1>3. Counted'
  <2>1. \A d \in Containers : uses[d] = (IF d \in mine THEN 1 ELSE 0) + Cardinality(Owners(d))
    BY DEF Lives, Counted
  <2>2. \A d \in Containers : Owners(d)' = Owners(d)
    BY DEF Owners
  <2>3. ASSUME NEW d \in Containers
        PROVE  uses'[d] = (IF d \in mine' THEN 1 ELSE 0) + Cardinality(Owners(d))
    <3>1. CASE d = c
      BY <3>1
    <3>2. CASE d /= c
      <4>1. uses'[d] = uses[d] /\ (d \in mine' <=> d \in mine)
        BY <3>2
      <4> QED
        BY <2>1, <4>1
    <3> QED
      BY <3>1, <3>2
  <2> QED
    BY <2>2, <2>3 DEF Counted
<1> QED
  BY <1>1, <1>2, <1>3 DEF Lives

LEMMA CreateKeeps ==
  ASSUME Lives, NEW c \in Containers, Create(c)
  PROVE  Lives'
<1>1. /\ Types /\ uses[c] = 0
      /\ mine' = mine \cup {c} /\ uses' = [uses EXCEPT ![c] = 1]
      /\ UNCHANGED <<obj, given, handles, java, items, walk, fault>>
  BY DEF Lives, Create
<1>2. Cardinality(Owners(c)) \in Nat
  BY OwnersFinite
<1>3. Cardinality(Owners(c)) = 0
  <2>1. 0 = (IF c \in mine THEN 1 ELSE 0) + Cardinality(Owners(c))
    BY <1>1 DEF Lives, Counted
  <2> QED
    BY <1>2, <2>1
<1>4. items' \in [Containers -> Seq(Items)] /\ WalkFits'
  BY <1>1 DEF Lives, WalkFits, Types
<1>5. DOMAIN uses' = Containers /\ uses'[c] = 1 /\ mine' \subseteq Containers /\ c \in mine'
  BY <1>1 DEF Types
<1>6. \A d \in Containers \ {c} : uses'[d] = uses[d] /\ (d \in mine' <=> d \in mine)
  BY <1>1 DEF Types
<1>7. uses'[c] = (IF c \in mine' THEN 1 ELSE 0) + Cardinality(Owners(c))
  BY <1>3, <1>5
<1> QED
  BY <1>1, <1>4, <1>5, <1>6, <1>7, UsesKeep

LEMMA ReleaseKeeps ==
  ASSUME Lives, NEW c \in Containers, Release(c)
  PROVE  Lives'
<1>1. /\ Types /\ Made /\ Counted /\ WalkFits
      /\ c \in mine /\ mine' = mine \ {c} /\ uses' = [uses EXCEPT ![c] = @ - 1]
      /\ items' = Collected(uses')
      /\ UNCHANGED <<obj, given, handles, java, walk, fault>>
  BY DEF Lives, Release
<1>2. IsFiniteSet(Owners(c)) /\ Cardinality(Owners(c)) \in Nat
  BY OwnersFinite
<1>3. uses[c] = 1 + Cardinality(Owners(c))
  BY <1>1 DEF Counted
<1>4. DOMAIN uses' = Containers /\ uses'[c] = uses[c] - 1 /\ mine' \subseteq Containers /\ c \notin mine'
  BY <1>1 DEF Types
<1>5. \A d \in Containers \ {c} : uses'[d] = uses[d] /\ (d \in mine' <=> d \in mine)
  BY <1>1 DEF Types
<1>6. uses'[c] = Cardinality(Owners(c))
  BY <1>2, <1>3, <1>4
<1>7. items' \in [Containers -> Seq(Items)]
  BY <1>1, CollectedFacts DEF Types
<1>8. WalkFits'
  <2>1. SUFFICES ASSUME NEW x \in walk.of
                 PROVE  items'[obj[x].in] = items[obj[x].in]
    BY <1>1 DEF WalkFits
  <2>2. x \in Objects /\ obj[x].live = "ARRAY"
    BY <1>1, <2>1 DEF WalkFits, Types
  <2>3. obj[x].in \in Containers /\ uses[obj[x].in] /= 0
    BY <1>1, <2>2, OwnedIsUsed DEF OwnedInUse
  <2>4. obj[x].in = c => Cardinality(Owners(c)) /= 0
    BY <1>2, <2>2, FS_EmptySet DEF Owners
  <2>5. uses'[obj[x].in] /= 0
    BY <1>5, <1>6, <2>3, <2>4
  <2> QED
    BY <1>1, <2>3, <2>5 DEF Collected
<1>9. uses'[c] = (IF c \in mine' THEN 1 ELSE 0) + Cardinality(Owners(c))
  BY <1>2, <1>4, <1>6
<1> QED
  BY <1>1, <1>4, <1>5, <1>7, <1>8, <1>9, UsesKeep

LEMMA KeepContainerKeeps ==
  ASSUME Lives, NEW o \in Objects, KeepContainer(o)
  PROVE  Lives'
<1> DEFINE c == obj[o].in
<1>1. /\ Types /\ Made /\ obj[o].mType \in {"ARRAY", "MAP"} /\ ~Wild(o)
      /\ mine' = mine \cup {c}
      /\ uses' = IF c \in mine THEN uses ELSE [uses EXCEPT ![c] = @ + 1]
      /\ UNCHANGED <<obj, given, handles, java, items, walk, fault>>
  BY DEF Lives, KeepContainer
<1>2. obj[o].live \in {"ARRAY", "MAP"}
  BY <1>1 DEF Wild, Owning
<1>3. c \in Containers
  BY <1>1, <1>2, OwnerFacts
<1> HIDE DEF c
<1>4. Cardinality(Owners(c)) \in Nat
  BY OwnersFinite
<1>5. uses[c] = (IF c \in mine THEN 1 ELSE 0) + Cardinality(Owners(c))
  BY <1>3 DEF Lives, Counted
<1>6. /\ DOMAIN uses' = Containers /\ mine' \subseteq Containers /\ c \in mine'
      /\ uses'[c] = IF c \in mine THEN uses[c] ELSE uses[c] + 1
  BY <1>1, <1>3 DEF Types
<1>7. \A d \in Containers \ {c} : uses'[d] = uses[d] /\ (d \in mine' <=> d \in mine)
  BY <1>1, <1>3 DEF Types
<1>8. uses'[c] = (IF c \in mine' THEN 1 ELSE 0) + Cardinality(Owners(c))
  BY <1>4, <1>5, <1>6
<1>9. WalkFits' /\ items' \in [Containers -> Seq(Items)]
  BY <1>1 DEF Lives, WalkFits, Types
<1> QED
  BY <1>1, <1>3, <1>6, <1>7, <1>8, <1>9, UsesKeep

LEMMA KillersKeep ==
  ASSUME Lives,
         FromHaxeNull \/ FromHaxeContainer \/ \E o \in Objects : Copy(o) \/ ReadWild(o) \/ WalkMap(o)
  PROVE  Lives'
<1>1. ASSUME NEW why, NEW o \in Objects, Dies(why, o), why /= "dead member" \/ Wild(o)
      PROVE  Lives'
  BY <1>1, DeathKeeps DEF Blamed
<1> QED
  BY <1>1 DEF FromHaxeNull, FromHaxeContainer, Copy, ReadWild, WalkMap

LEMMA FromTypedKeeps ==
  ASSUME Lives, NEW o \in Objects, FromTyped(o) \/ FromHaxe(o)
  PROVE  Lives'
<1>1. Typed \subseteq Origins /\ HaxeValues \subseteq Origins
  BY DEF Typed, HaxeValues, Origins
<1> QED
  BY <1>1, MakeKeeps DEF FromTyped, FromHaxe

LEMMA InitLives ==
  ASSUME Init
  PROVE  Lives
<1>1. Nothing
  BY DEF Init, Nothing
<1>2. fault[1] = "none"
  BY DEF Init, NoFault
<1>3. "none" /= "dead member"
  OBVIOUS
<1>4. OnlyHaxeStrings
  BY <1>2, <1>3 DEF OnlyHaxeStrings
<1> QED
  BY <1>1, <1>4, NothingLives

LEMMA StepLives ==
  ASSUME Lives, [Next]_vars
  PROVE  Lives'
<1>1. ASSUME NEW o \in Objects, Life(o)
      PROVE  Lives'
  BY <1>1, FromTypedKeeps, FromHaxeOtherKeeps, KillersKeep, EndsKeep, FromJavaKeeps,
     KeepContainerKeeps DEF Life
<1>2. ASSUME NEW o \in Objects, Walk(o)
      PROVE  Lives'
  BY <1>2, KillersKeep, WalkArrayKeeps, GetElementKeeps, StoreElementKeeps, EndsKeep DEF Walk
<1>3. CASE FromHaxeNull \/ FromHaxeContainer
  BY <1>3, KillersKeep
<1>4. ASSUME NEW c \in Containers, Contain(c)
      PROVE  Lives'
  BY <1>4, CreateKeeps, ReleaseKeeps, PushKeeps, GetObjectKeeps DEF Contain
<1>5. CASE UNCHANGED vars
  <2>1. UNCHANGED <<obj, given, handles, java, mine, uses, items, walk, fault>>
    BY <1>5 DEF vars
  <2>2. Types' /\ WalkFits' /\ Held' = Held
    BY <2>1 DEF Lives, Types, WalkFits, Held
  <2> QED
    BY <2>1, <2>2, SharedKeeps
<1> QED
  BY <1>1, <1>2, <1>3, <1>4, <1>5 DEF Next

\* The inductive invariant: through all constructors, copies into containers and out
\* of them, walks and destructors, memory is as it was made and counts are the holders.
THEOREM ValueInvariance == Spec => []Lives
<1> QED
  BY InitLives, StepLives, PTL DEF Spec

\* A use_count counts the holders of its container, a value lives exactly as long
\* as C++ code, Java or asHaxeObject holds it, and only a value made from a Haxe
\* String can make a member be used that is not there: for all numbers of values,
\* containers and threads.
THEOREM ValuesAreOwnedOnce == Spec => []OwnedOnce
<1>1. ASSUME Lives
      PROVE  OwnedOnce
  <2>1. Types /\ Counted /\ Kept /\ OnlyHaxeStrings
    BY <1>1 DEF Lives
  <2>2. ASSUME NEW c \in Containers
        PROVE  uses[c] = Cardinality(mine \cap {c}) + Cardinality(Owners(c))
    <3>1. uses[c] = (IF c \in mine THEN 1 ELSE 0) + Cardinality(Owners(c))
      BY <2>1 DEF Counted
    <3>2. CASE c \in mine
      <4>1. mine \cap {c} = {c}
        BY <3>2
      <4>2. Cardinality(mine \cap {c}) = 1
        BY <4>1, FS_Singleton
      <4> QED
        BY <3>1, <3>2, <4>2
    <3>3. CASE c \notin mine
      <4>1. mine \cap {c} = {}
        BY <3>3
      <4>2. Cardinality(mine \cap {c}) = 0
        BY <4>1, FS_EmptySet
      <4> QED
        BY <3>1, <3>3, <4>2
    <3> QED
      BY <3>2, <3>3
  <2> QED
    BY <2>1, <2>2 DEF OwnedOnce, OnlyHaxeStrings, Owners, Kept, Held
<1> QED
  BY <1>1, ValueInvariance, PTL
-----------------------------------------------------------------------------
(* What is read back.                                                      *)

\* There is an int32_t, and each is exact as a double.
LEMMA Int32Facts ==
  /\ 2^(Int32Bits - 1) \in Nat /\ 2^(Int32Bits - 1) >= 1 /\ Int32 \subseteq Int /\ 0 \in Int32
  /\ \A n \in Int32 : Abs(n) <= Mantissa
<1> DEFINE S == 1 .. (Int32Bits - 1)
<1>1. Int32Bits \in Nat /\ Int32Bits >= 1 /\ Mantissa \in Nat /\ 2^(Int32Bits - 1) <= Mantissa
  BY JavascriptValueAssumption
<1>2. IsFiniteSet(S) /\ Cardinality(S) = Int32Bits - 1
  <2>1. 1 \in Int /\ Int32Bits - 1 \in Int
    BY <1>1
  <2>2. IsFiniteSet(S) /\ Cardinality(S) = IF 1 > Int32Bits - 1 THEN 0 ELSE (Int32Bits - 1) - 1 + 1
    BY <2>1, FS_Interval
  <2> QED
    BY <1>1, <2>2
<1>3. IsFiniteSet(SUBSET S) /\ Cardinality(SUBSET S) = 2^(Int32Bits - 1)
  BY <1>2, FS_SUBSET
<1>4. SUBSET S /= {}
  OBVIOUS
<1>5. Cardinality(SUBSET S) \in Nat /\ Cardinality(SUBSET S) /= 0
  BY <1>3, <1>4, FS_CardinalityType, FS_EmptySet
<1> DEFINE p == 2^(Int32Bits - 1)
<1>6. p \in Nat /\ p >= 1 /\ p <= Mantissa
  BY <1>1, <1>3, <1>5
<1>7. Int32 = -p .. (p - 1)
  BY DEF Int32
<1> HIDE DEF p
<1>8. Int32 \subseteq Int /\ 0 \in Int32 /\ \A n \in Int32 : Abs(n) <= Mantissa
  BY <1>1, <1>6, <1>7 DEF Abs
<1> QED
  BY <1>6, <1>8 DEF p

\* An even number of halves up to twice the mantissa is exact.
LEMMA NearestExact ==
  ASSUME NEW n \in Int, Abs(n) <= Mantissa
  PROVE  Nearest(2 * n) = 2 * n
<1>1. Mantissa \in Nat /\ Abs(2 * n) <= 2 * Mantissa
  BY JavascriptValueAssumption DEF Abs
<1>2. ((2 * n) \div 2) * 2 = 2 * n
  OBVIOUS
<1> QED
  BY <1>1, <1>2 DEF Nearest

\* Beyond, the nearest double is at most two halves away.
LEMMA NearestIsNear ==
  ASSUME NEW n \in Int, Abs(n) > Mantissa
  PROVE  Nearest(2 * n) \in Int /\ Abs(Nearest(2 * n) - 2 * n) <= 2
<1> DEFINE h == 2 * n
<1> DEFINE low == (h \div 4) * 4
<1>1. Mantissa \in Nat /\ ~(Abs(h) <= Mantissa) /\ ~(Abs(h) <= 2 * Mantissa)
  BY JavascriptValueAssumption DEF Abs
<1>2. Nearest(h) = IF 2 * (h - low) < 4 \/ (2 * (h - low) = 4 /\ (low \div 4) % 2 = 0)
                   THEN low ELSE low + 4
  BY <1>1 DEF Nearest
<1>3. low \in Int /\ h \in Int /\ 0 <= h - low /\ h - low <= 3
  OBVIOUS
<1> HIDE DEF low, h
<1>4. CASE 2 * (h - low) < 4 \/ (2 * (h - low) = 4 /\ (low \div 4) % 2 = 0)
  <2>1. Nearest(h) = low /\ h - low <= 2
    BY <1>2, <1>3, <1>4
  <2> QED
    BY <1>3, <2>1 DEF Abs, h
<1>5. CASE ~(2 * (h - low) < 4 \/ (2 * (h - low) = 4 /\ (low \div 4) % 2 = 0))
  <2>1. Nearest(h) = low + 4 /\ h - low >= 2
    BY <1>2, <1>3, <1>5
  <2> QED
    BY <1>3, <2>1 DEF Abs, h
<1> QED
  BY <1>4, <1>5

\* The rounding of a long is less than its share of the mantissa.
LEMMA LongIsNear ==
  ASSUME NEW n \in Int
  PROVE  Abs(Nearest(2 * n) - 2 * n) * Mantissa <= 2 * Abs(n)
<1>1. Mantissa \in Nat
  BY JavascriptValueAssumption
<1>2. CASE Abs(n) <= Mantissa
  <2>1. Abs(Nearest(2 * n) - 2 * n) = 0
    BY <1>2, NearestExact DEF Abs
  <2>2. 0 * Mantissa = 0 /\ 0 <= 2 * Abs(n)
    BY <1>1 DEF Abs
  <2> QED
    BY <2>1, <2>2
<1>3. CASE Abs(n) > Mantissa
  <2>1. Abs(Nearest(2 * n) - 2 * n) \in {0, 1, 2}
    BY <1>3, NearestIsNear DEF Abs
  <2>2. Abs(n) \in Nat
    BY DEF Abs
  <2>3. \A d \in {0, 1, 2} : d * Mantissa <= 2 * Abs(n)
    BY <1>1, <1>3, <2>2
  <2> QED
    BY <2>1, <2>3
<1>4. Abs(n) \in Int
  BY DEF Abs
<1> QED
  BY <1>1, <1>2, <1>3, <1>4
LEMMA TruncatedHalves ==
  ASSUME NEW n \in Int
  PROVE  Truncated(2 * n) = n
BY DEF Truncated

\* What the accessors return of a value that is as it was made.
LEMMA ReadFacts ==
  ASSUME NEW o, NEW g \in Origins,
         obj[o].mType = TagOf(g), obj[o].live = TagOf(g), obj[o].in = Stored(g)
  PROVE  /\ AsDouble(o) = IF TagOf(g) = "NUMBER" THEN {Stored(g)} ELSE {0}
         /\ AsBoolean(o) = IF TagOf(g) = "BOOLEAN" THEN {Stored(g)} ELSE {0}
         /\ TagOf(g) \in {"BOOLEAN", "NUMBER"} => AsHaxeScalar(o) = {Stored(g)}
         /\ TagOf(g) = "STRING" => AsHaxeScalar(o) = {"text"}
         /\ AsContainer(o, "ARRAY") = IF TagOf(g) = "ARRAY" THEN Stored(g) ELSE "nullptr"
         /\ AsContainer(o, "MAP") = IF TagOf(g) = "MAP" THEN Stored(g) ELSE "nullptr"
         /\ AsString(o) = IF TagOf(g) = "STRING" THEN "text" ELSE "throws"
<1>1. Content(o) = {Stored(g)}
  BY DEF Content
<1> QED
  BY <1>1 DEF AsDouble, AsBoolean, AsHaxeScalar, AsContainer, AsString

\* An int that is in the range of int32_t comes back from its double.
LEMMA IntFacts ==
  ASSUME NEW o, NEW n \in Int32, AsDouble(o) = {2 * n}
  PROVE  AsInt(o) = {n}
<1>1. n \in Int
  BY Int32Facts
<1>2. Truncated(2 * n) = n
  BY <1>1, TruncatedHalves
<1> QED
  BY <1>2 DEF AsInt

\* ReadBack for one value, with what it was made from as a parameter.
NumbersBack(o, kind, n) ==
  /\ kind \in {"int", "long"} /\ n \in Int32 => AsInt(o) = {n}
  /\ kind = "int" => AsDouble(o) = {2 * n} /\ AsHaxeScalar(o) = {2 * n}
  /\ kind = "long" =>
       \A r \in AsDouble(o) \cup AsHaxeScalar(o) : Abs(r - 2 * n) * Mantissa <= 2 * Abs(n)
  /\ kind = "double" => AsDouble(o) = {n} /\ AsHaxeScalar(o) = {n}
  /\ kind = "haxe" => \A r \in AsDouble(o) : (r = 0) = (n = 0)
  /\ kind = "bool" => AsBoolean(o) = {n} /\ AsHaxeScalar(o) = {n}
  /\ kind \in {"null", "bool", "string", "array", "map"} => AsInt(o) = {0} /\ AsDouble(o) = {0}

OthersBack(o, kind, n) ==
  /\ kind = "string" => AsHaxeScalar(o) = {"text"}
  /\ kind = "array" => AsContainer(o, "ARRAY") = n /\ AsContainer(o, "MAP") = "nullptr"
  /\ kind = "map" => AsContainer(o, "MAP") = n /\ AsContainer(o, "ARRAY") = "nullptr"
  /\ kind \notin {"nothing", "haxe String"} =>
       /\ AsString(o) = IF kind = "string" THEN "text" ELSE "throws"
       /\ IsNull(o) <=> kind = "null"

LEMMA NumbersComeBack ==
  ASSUME NEW o, NEW g \in Origins,
         obj[o].mType = TagOf(g), obj[o].live = TagOf(g), obj[o].in = Stored(g)
  PROVE  NumbersBack(o, g[1], g[2])
<1>1. /\ Ints \subseteq Int32 /\ Int32 \subseteq Int /\ 0 \in Int32 /\ Longs \subseteq Int
      /\ \A n \in Int32 : Nearest(2 * n) = 2 * n
  BY Int32Facts, NearestExact, JavascriptValueAssumption
<1>2. CASE g[1] \in {"int", "long"}
  <2>1. g[2] \in Int /\ AsDouble(o) = {Nearest(2 * g[2])} /\ AsHaxeScalar(o) = {Nearest(2 * g[2])}
    BY <1>1, <1>2, OriginFacts, ReadFacts
  <2>2. g[2] \in Int32 => AsDouble(o) = {2 * g[2]} /\ AsHaxeScalar(o) = {2 * g[2]}
    BY <1>1, <2>1
  <2>3. g[2] \in Int32 => AsInt(o) = {g[2]}
    BY <2>2, IntFacts
  <2>4. g[1] = "int" => g[2] \in Int32
    BY <1>1, <1>2, OriginFacts
  <2>5. \A r \in AsDouble(o) \cup AsHaxeScalar(o) : Abs(r - 2 * g[2]) * Mantissa <= 2 * Abs(g[2])
    BY <2>1, LongIsNear
  <2> QED
    BY <1>2, <2>2, <2>3, <2>4, <2>5 DEF NumbersBack
<1>3. CASE g[1] = "double"
  <2>1. AsDouble(o) = {g[2]} /\ AsHaxeScalar(o) = {g[2]}
    BY <1>3, OriginFacts, ReadFacts
  <2> QED
    BY <1>3, <2>1 DEF NumbersBack
<1>4. CASE g[1] = "haxe"
  <2>1. \A r \in AsDouble(o) : (r = 0) = (g[2] = 0)
    BY <1>4, OriginFacts, ReadFacts
  <2> QED
    BY <1>4, <2>1 DEF NumbersBack
<1>5. CASE g[1] \in {"null", "bool", "string", "array", "map"}
  <2>1. AsDouble(o) = {0}
    BY <1>5, OriginFacts, ReadFacts
  <2>2. AsInt(o) = {0}
    BY <1>1, <2>1, IntFacts
  <2>3. g[1] = "bool" => AsBoolean(o) = {g[2]} /\ AsHaxeScalar(o) = {g[2]}
    BY OriginFacts, ReadFacts
  <2> QED
    BY <1>5, <2>1, <2>2, <2>3 DEF NumbersBack
<1> QED
  BY <1>2, <1>3, <1>4, <1>5, OriginFacts

LEMMA OthersComeBack ==
  ASSUME NEW o, NEW g \in Origins,
         obj[o].mType = TagOf(g), obj[o].live = TagOf(g), obj[o].in = Stored(g)
  PROVE  OthersBack(o, g[1], g[2])
<1>1. g[1] = "string" => AsHaxeScalar(o) = {"text"}
  BY OriginFacts, ReadFacts
<1>2. g[1] = "array" => AsContainer(o, "ARRAY") = g[2] /\ AsContainer(o, "MAP") = "nullptr"
  BY OriginFacts, ReadFacts
<1>3. g[1] = "map" => AsContainer(o, "MAP") = g[2] /\ AsContainer(o, "ARRAY") = "nullptr"
  BY OriginFacts, ReadFacts
<1>4. AsString(o) = IF g[1] = "string" THEN "text" ELSE "throws"
  <2>1. TagOf(g) = "STRING" <=> g[1] = "string"
    BY OriginFacts
  <2> QED
    BY <2>1, ReadFacts
<1>5. IsNull(o) <=> g[1] = "null"
  BY OriginFacts DEF IsNull
<1> QED
  BY <1>1, <1>2, <1>3, <1>4, <1>5 DEF OthersBack

\* What no constructor set, and what is no more, is promised nothing.
LEMMA NothingIsPromised ==
  ASSUME NEW o, NEW kind, kind \in {"nothing", "haxe String"}, NEW n
  PROVE  NumbersBack(o, kind, n) /\ OthersBack(o, kind, n)
<1>1. kind \notin {"null", "bool", "string", "int", "long", "double", "haxe", "array", "map"}
  OBVIOUS
<1> QED
  BY <1>1 DEF NumbersBack, OthersBack

\* The accessors and asHaxeObject give back what a value was made from, also through
\* a container, for every width of int32_t and double and every number that is tried.
THEOREM ValuesComeBack == Spec => []ReadBack
<1>1. ASSUME Lives
      PROVE  ReadBack
  <2>1. ASSUME NEW o \in Objects
        PROVE  NumbersBack(o, given[o][1], given[o][2]) /\ OthersBack(o, given[o][1], given[o][2])
    <3>1. MadeFrom(o)
      BY <1>1 DEF Lives, Made
    <3>2. CASE given[o] \in {NoOrigin, HaxeString}
      <4>1. NoOrigin[1] = "nothing" /\ HaxeString[1] = "haxe String"
        BY DEF NoOrigin, HaxeString
      <4>2. given[o][1] \in {"nothing", "haxe String"}
        BY <3>2, <4>1
      <4> QED
        BY <4>2, NothingIsPromised
    <3>3. CASE /\ given[o] \in Origins
               /\ obj[o] = [mType |-> TagOf(given[o]), live |-> TagOf(given[o]), in |-> Stored(given[o])]
      <4>1. /\ obj[o].mType = TagOf(given[o]) /\ obj[o].live = TagOf(given[o])
            /\ obj[o].in = Stored(given[o])
        BY <3>3
      <4> QED
        BY <3>3, <4>1, NumbersComeBack, OthersComeBack
    <3> QED
      BY <3>1, <3>2, <3>3 DEF MadeFrom
  <2> QED
    BY <2>1, Zenon DEF ReadBack, NumbersBack, OthersBack
<1> QED
  BY <1>1, ValueInvariance, PTL
=============================================================================
