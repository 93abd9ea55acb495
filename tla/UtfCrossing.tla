----------------------------- MODULE UtfCrossing -----------------------------
(***************************************************************************)
(* A string that crosses to the other language and comes back:             *)
(* jniStringFromUTF8 and jniUTF8FromString, jniStringFromWString and       *)
(* jniWStringFromString of djinni_support.cpp, in either order, on any     *)
(* string, well-formed or not.  A step is one turn of the function's loop. *)
(* wchar_t has 32 bits; where it has 16 a wide string is copied as it is.  *)
(***************************************************************************)
EXTENDS Utf

CONSTANTS
  Sample8,          \* the units that strings are made of, in each encoding
  Sample16,
  Sample32,
  MaxLen            \* bound on the length of a string

ASSUME UtfAssumption ==
  /\ Sample8 \subseteq Bytes
  /\ Sample16 \subseteq Units16
  /\ Sample32 \subseteq Nat
  /\ MaxLen \in Nat

VARIABLES
  call,             \* the function that runs
  leg,              \* whether the string goes there or comes back
  str,              \* its argument
  behind,           \* what lies in memory behind its argument
  i,                \* the loop's place in str, counted from 1
  out,              \* its result so far
  sent              \* history: the string as it was sent

vars == <<call, leg, str, behind, i, out, sent>>

ToJava == {"jniStringFromUTF8", "jniStringFromWString"}
FromJava == {"jniUTF8FromString", "jniWStringFromString"}

WayBack ==
  [f \in ToJava \cup FromJava |->
     IF f = "jniStringFromUTF8" THEN "jniUTF8FromString"
     ELSE IF f = "jniUTF8FromString" THEN "jniStringFromUTF8"
     ELSE IF f = "jniStringFromWString" THEN "jniWStringFromString"
     ELSE "jniStringFromWString"]

\* The units of a function's argument and of its result, from its signature.
ArgUnits(f) == IF f = "jniStringFromUTF8" THEN Bytes
               ELSE IF f = "jniStringFromWString" THEN Nat ELSE Units16
ResultUnits(f) == IF f = "jniUTF8FromString" THEN Bytes
                  ELSE IF f = "jniWStringFromString" THEN Nat ELSE Units16

Sample(f) == IF f = "jniStringFromUTF8" THEN Sample8
             ELSE IF f = "jniStringFromWString" THEN Sample32 ELSE Sample16

Strings(S) == UNION {[1 .. n -> S] : n \in 0 .. MaxLen}

\* jniUTF8FromString copies the characters into a u16string, which ends with a
\* NUL.  jniWStringFromString reads the array that GetStringChars gave it,
\* which need not: the unit behind it may be anything.
Behind(f) == IF f = "jniWStringFromString" THEN Sample16 \cup {0} ELSE {0}

Decode(f, s, b, k) ==
  IF f = "jniStringFromUTF8" THEN utf8_decode(s, k)
  ELSE IF f = "jniStringFromWString" THEN Consumed(1, s[k])
  ELSE utf16_decode(s, b, k)

Encode(f, c) ==
  IF f \in ToJava THEN utf16_encode(c)
  ELSE IF f = "jniUTF8FromString" THEN utf8_encode(c)
  ELSE <<c>>

CrossInit ==
  /\ call \in ToJava \cup FromJava
  /\ leg = "there"
  /\ str \in Strings(Sample(call))
  /\ behind \in Behind(call)
  /\ i = 1
  /\ out = <<>>
  /\ sent = str

ConvertOne ==
  /\ i <= Len(str)
  /\ LET res == Decode(call, str, behind, i)
     IN /\ i' = i + res.offset
        /\ out' = out \o Encode(call, res.pt)
  /\ UNCHANGED <<call, leg, str, behind, sent>>

CrossBack ==
  /\ i > Len(str)
  /\ leg = "there"
  /\ leg' = "back"
  /\ call' = WayBack[call]
  /\ str' = out
  /\ behind' \in Behind(call')
  /\ i' = 1
  /\ out' = <<>>
  /\ UNCHANGED sent

CrossNext == ConvertOne \/ CrossBack

CrossSpec == CrossInit /\ [][CrossNext]_vars
-----------------------------------------------------------------------------
(* What the conversions guarantee.                                         *)

TypeOK ==
  /\ call \in ToJava \cup FromJava
  /\ leg \in {"there", "back"}
  /\ str \in Seq(ArgUnits(call))
  /\ behind \in Units16
  /\ i \in Nat \ {0}
  /\ out \in Seq(ResultUnits(call))

\* Text that is well-formed when it is sent is the same text when it is back,
\* whichever side sends it and through whichever pair of functions.
IsText ==
  CASE call = "jniUTF8FromString" -> IsUtf8(sent)
    [] call = "jniWStringFromString" -> IsUtf32(sent)
    [] call \in ToJava -> IsUtf16(sent)
TextSurvives == leg = "back" /\ i > Len(str) /\ IsText => out = sent

\* What jniUTF8FromString has written is valid UTF-8 at every turn, and what
\* jniWStringFromString has written valid UTF-32, whatever Java's string.
NativeTextIsValid ==
  /\ call = "jniUTF8FromString" => IsUtf8(out)
  /\ call = "jniWStringFromString" => IsUtf32(out)

\* What Java is given is valid UTF-16, as long as the argument encodes no
\* surrogate: of every ill-formed string these are the only ones that the
\* decoders let through.
SurrogateFree ==
  IF call = "jniStringFromUTF8"
  THEN ~\E j \in 1 .. Len(str) : Matches(str, j, SurrogateRow)
  ELSE \A j \in 1 .. Len(str) : str[j] \notin Surrogates
JavaTextIsValid == call \in ToJava /\ SurrogateFree => IsUtf16(out)

\* utf16.reserve(str.length()) in jniStringFromUTF8 is enough: the result
\* never has more units than bytes were consumed.
ReserveSuffices == call = "jniStringFromUTF8" => Len(out) < i

\* No character is swallowed by damage before it: each turn of the loop moves
\* on, and none passes over the first unit of a well-formed sequence.
Rows == IF call = "jniStringFromUTF8" THEN Rows8
        ELSE IF call \in FromJava THEN Rows16 ELSE {<<Nat>>}
NothingSwallowed ==
  [][leg' = leg =>
       /\ i' > i
       /\ \A j \in 1 .. Len(str), row \in Rows : i < j /\ Matches(str, j, row) => i' <= j]_vars

\* A decoder gives the codepoint at str[i], and none of what lies behind the
\* string (the comments of utf8_decode_check and utf16_decode_check).
StopsAtTheEnd == i <= Len(str) + 1
=============================================================================
