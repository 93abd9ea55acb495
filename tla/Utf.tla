--------------------------------- MODULE Utf ---------------------------------
(***************************************************************************)
(* The UTF-8 and UTF-16 coders of djinni_support.cpp (miniutf): a decoder  *)
(* looks at the code units at a place of a string and gives how many of    *)
(* them it consumed and the codepoint they stand for; an encoder gives the *)
(* units of a codepoint.  Masks and shifts are written as remainders and   *)
(* quotients.                                                              *)
(***************************************************************************)
EXTENDS Integers, Sequences

Bytes == 0 .. 255
Units16 == {u \in Nat : u < 65536}
Codepoints == {c \in Nat : c < 1114112}
HighSurrogates == {u \in Nat : 55296 <= u /\ u < 56320}
LowSurrogates == {u \in Nat : 56320 <= u /\ u < 57344}
Surrogates == {u \in Nat : 55296 <= u /\ u < 57344}
IsScalar(c) == c \in Codepoints /\ c \notin Surrogates
Replacement == 65533            \* U+FFFD

invalid_pt == [offset |-> -1, pt |-> 0]
Consumed(n, c) == [offset |-> n, pt |-> c]

is_high_surrogate(c) == c \in HighSurrogates
is_low_surrogate(c) == c \in LowSurrogates

\* x & (n - 1) for a power n of two.
Low(x, n) == x % n

\* (b & 0xC0) == 0x80
IsContinuation(b) == b \div 64 = 2

\* str[k]; past the end is what lies behind the string in memory.
UnitAt(str, behind, k) == IF k <= Len(str) THEN str[k] ELSE behind
-----------------------------------------------------------------------------
(* Mutants: the coders written wrong, which the properties of UtfCrossing  *)
(* must notice.                                                            *)

\* The 2-byte form without a look at the second byte.
utf8_decode_check_unseen(str, i) ==
  LET b(k) == UnitAt(str, 0, i + k)
      two == Low(b(0), 32) * 64 + Low(b(1), 64)
  IN IF b(0) < 128 THEN Consumed(1, b(0))
     ELSE IF b(0) \in 192 .. 223 /\ two >= 128 THEN Consumed(2, two)
     ELSE invalid_pt

\* A high surrogate taken with the unit after it, a low one as it is.
utf16_decode_check_greedy(str, behind, i) ==
  LET u == UnitAt(str, behind, i)
      v == UnitAt(str, behind, i + 1)
  IN IF is_high_surrogate(u)
     THEN Consumed(2, (u - 55296) * 1024 + Low(v, 1024) + 65536)
     ELSE Consumed(1, u)

\* The offset that marks an invalid codepoint added to the place.
OrReplacementUnchecked(res) == res

\* The place left where it is.
OrReplacementStuck(res) == IF res.offset < 0 THEN Consumed(0, Replacement) ELSE res

\* The surrogate pair without 0x10000 taken off.
utf16_encode_unshifted(c) ==
  IF c < 65536 THEN <<c>> ELSE <<c \div 1024 + 55296, Low(c, 1024) + 56320>>

\* The pair made of any codepoint, without the test against 0x110000.
utf16_encode_unbounded(c) ==
  IF c < 65536 THEN <<c>>
  ELSE <<(c - 65536) \div 1024 + 55296, Low(c, 1024) + 56320>>
-----------------------------------------------------------------------------
(* The coders *)

\* The codepoint that starts with byte b0, if the bytes after it fit.
Decode8(b0, b1, b2, b3) ==
  LET one == IsContinuation(b1)
      two == one /\ IsContinuation(b2)
      three == two /\ IsContinuation(b3)
      pt2 == Low(b0, 32) * 64 + Low(b1, 64)
      pt3 == Low(b0, 16) * 4096 + Low(b1, 64) * 64 + Low(b2, 64)
      pt4 == Low(b0, 16) * 262144 + Low(b1, 64) * 4096 + Low(b2, 64) * 64 + Low(b3, 64)
  IN IF b0 < 128 THEN Consumed(1, b0)
     ELSE IF b0 \in 192 .. 223 /\ one /\ pt2 >= 128 THEN Consumed(2, pt2)
     ELSE IF b0 \in 224 .. 239 /\ two /\ pt3 >= 2048 THEN Consumed(3, pt3)
     ELSE IF b0 \in 240 .. 247 /\ three /\ pt4 >= 65536 /\ pt4 < 1114112
          THEN Consumed(4, pt4)
     ELSE invalid_pt

\* A std::string ends with a NUL, which is no continuation byte: the test of a
\* byte fails before one behind the NUL is looked at.
utf8_decode_check(str, i) ==
  LET b(k) == UnitAt(str, 0, i + k)
  IN Decode8(b(0), b(1), b(2), b(3))

\* The two units that the test of a pair looks at; the second may be behind
\* the string.
utf16_decode_check(str, behind, i) ==
  LET u == UnitAt(str, behind, i)
      v == UnitAt(str, behind, i + 1)
  IN IF is_high_surrogate(u) /\ is_low_surrogate(v)
     THEN Consumed(2, (u - 55296) * 1024 + (v - 56320) + 65536)
     ELSE IF is_high_surrogate(u) \/ is_low_surrogate(u) THEN invalid_pt
     ELSE Consumed(1, u)

\* utf8_decode and utf16_decode: what is no codepoint is replaced, one unit
\* at a time.
OrReplacement(res) == IF res.offset < 0 THEN Consumed(1, Replacement) ELSE res

utf8_decode(str, i) == OrReplacement(utf8_decode_check(str, i))
utf16_decode(str, behind, i) == OrReplacement(utf16_decode_check(str, behind, i))

utf16_encode(c) ==
  IF c < 65536 THEN <<c>>
  ELSE IF c < 1114112 THEN <<(c - 65536) \div 1024 + 55296, Low(c, 1024) + 56320>>
  ELSE <<Replacement>>

utf8_encode(c) ==
  IF c < 128 THEN <<c>>
  ELSE IF c < 2048 THEN <<c \div 64 + 192, Low(c, 64) + 128>>
  ELSE IF c < 65536
       THEN <<c \div 4096 + 224, Low(c \div 64, 64) + 128, Low(c, 64) + 128>>
  ELSE IF c < 1114112
       THEN <<c \div 262144 + 240, Low(c \div 4096, 64) + 128,
              Low(c \div 64, 64) + 128, Low(c, 64) + 128>>
  ELSE <<239, 191, 189>>
-----------------------------------------------------------------------------
(* The reference: well-formed code unit sequences as the Unicode Standard  *)
(* tabulates them (tables 3-6 and 3-7), without any arithmetic on the      *)
(* codepoint.                                                              *)

\* The rows of the table: what each byte of a sequence may be.
Tail8 == 128 .. 191
Rows8 ==
  { <<0 .. 127>>, <<194 .. 223, Tail8>>,
    <<{224}, 160 .. 191, Tail8>>, <<225 .. 236, Tail8, Tail8>>,
    <<{237}, 128 .. 159, Tail8>>, <<238 .. 239, Tail8, Tail8>>,
    <<{240}, 144 .. 191, Tail8, Tail8>>, <<241 .. 243, Tail8, Tail8, Tail8>>,
    <<{244}, 128 .. 143, Tail8, Tail8>> }

\* What the table leaves out and the decoder takes: an encoded surrogate.
SurrogateRow == <<{237}, 160 .. 191, Tail8>>

Rows16 == {<<Units16 \ Surrogates>>, <<HighSurrogates, LowSurrogates>>}

\* The units of str from j on are in the row.
Matches(str, j, row) ==
  /\ j + Len(row) - 1 <= Len(str)
  /\ \A k \in 1 .. Len(row) : str[j + k - 1] \in row[k]

\* Each unit is covered by a row.  Two rows cannot overlap, since no first
\* unit of a row is another's second.
MadeOf(str, rows) ==
  \A i \in 1 .. Len(str) : \E row \in rows, j \in 1 .. i :
    Matches(str, j, row) /\ i < j + Len(row)

IsUtf8(str) == MadeOf(str, Rows8)
IsUtf16(str) == MadeOf(str, Rows16)
IsUtf32(str) == \A i \in 1 .. Len(str) : IsScalar(str[i])
=============================================================================
