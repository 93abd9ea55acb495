------------------------------ MODULE UtfProofs ------------------------------
(***************************************************************************)
(* For every codepoint and every string, of any length: the coders of Utf  *)
(* undo each other, and the conversions of UtfCrossing keep their types,   *)
(* stay within the reserved length, write only valid native text, give     *)
(* Java valid text from what encodes no surrogate, bring well-formed text  *)
(* back as it was, and but for one stop at the end of their string.        *)
(***************************************************************************)
EXTENDS UtfCrossing, SequenceTheorems, TLAPS

-----------------------------------------------------------------------------
\* The arithmetic of the four forms of UTF-8, whatever bytes come after them.
LEMMA Form1 ==
  ASSUME NEW c \in Nat, c < 128, NEW x \in Bytes, NEW y \in Bytes, NEW z \in Bytes
  PROVE  Decode8(c, x, y, z) = Consumed(1, c)
BY SMT DEF Decode8

LEMMA Form2 ==
  ASSUME NEW c \in Nat, c >= 128, c < 2048, NEW y \in Bytes, NEW z \in Bytes
  PROVE  Decode8(c \div 64 + 192, Low(c, 64) + 128, y, z) = Consumed(2, c)
<1> USE DEF Low
<1>1. /\ c \div 64 + 192 \in 192 .. 223
      /\ (Low(c, 64) + 128) \div 64 = 2
      /\ Low(c \div 64 + 192, 32) * 64 + Low(Low(c, 64) + 128, 64) = c
  BY SMTT(30)
<1> QED
  BY <1>1, SMTT(30) DEF Decode8, IsContinuation

LEMMA Form3 ==
  ASSUME NEW c \in Nat, c >= 2048, c < 65536, NEW z \in Bytes
  PROVE  Decode8(c \div 4096 + 224, Low(c \div 64, 64) + 128, Low(c, 64) + 128, z)
           = Consumed(3, c)
<1> USE DEF Low
<1>1. c \div 4096 + 224 \in 224 .. 239
  BY SMTT(30)
<1>2. (Low(c \div 64, 64) + 128) \div 64 = 2 /\ (Low(c, 64) + 128) \div 64 = 2
  BY SMTT(30)
<1>3. Low(c \div 4096 + 224, 16) * 4096 + Low(Low(c \div 64, 64) + 128, 64) * 64
        + Low(Low(c, 64) + 128, 64) = c
  <2>1. /\ Low(c \div 4096 + 224, 16) = c \div 4096
        /\ Low(Low(c \div 64, 64) + 128, 64) = Low(c \div 64, 64)
        /\ Low(Low(c, 64) + 128, 64) = Low(c, 64)
    BY SMTT(30)
  <2>2. (c \div 4096) * 4096 + Low(c \div 64, 64) * 64 + Low(c, 64) = c
    BY SMTT(30)
  <2> QED
    BY <2>1, <2>2, SMT
<1> QED
  BY <1>1, <1>2, <1>3, SMTT(30) DEF Decode8, IsContinuation

LEMMA Form4 ==
  ASSUME NEW c \in Codepoints, c >= 65536
  PROVE  Decode8(c \div 262144 + 240, Low(c \div 4096, 64) + 128,
                 Low(c \div 64, 64) + 128, Low(c, 64) + 128) = Consumed(4, c)
<1> USE DEF Low, Codepoints
<1>1. /\ c \div 262144 + 240 \in 240 .. 247
      /\ (Low(c \div 4096, 64) + 128) \div 64 = 2
      /\ (Low(c \div 64, 64) + 128) \div 64 = 2
      /\ (Low(c, 64) + 128) \div 64 = 2
  BY SMTT(30)
<1>2. Low(c \div 262144 + 240, 16) * 262144 + Low(Low(c \div 4096, 64) + 128, 64) * 4096
        + Low(Low(c \div 64, 64) + 128, 64) * 64 + Low(Low(c, 64) + 128, 64) = c
  BY SMTT(30)
<1> QED
  BY <1>1, <1>2, SMTT(30) DEF Decode8, IsContinuation

\* What utf8_encode writes for a codepoint, utf8_decode_check reads as that
\* codepoint, wherever in a string it stands.  It does so for an encoded
\* surrogate too, which is how one can reach Java.
THEOREM Utf8RoundTrip ==
  ASSUME NEW c \in Codepoints, NEW s \in Seq(Bytes), NEW k \in Nat \ {0},
         k + Len(utf8_encode(c)) - 1 <= Len(s),
         \A n \in 1 .. Len(utf8_encode(c)) : s[k + n - 1] = utf8_encode(c)[n]
  PROVE  utf8_decode_check(s, k) = Consumed(Len(utf8_encode(c)), c)
<1> DEFINE e == utf8_encode(c)
           b0 == UnitAt(s, 0, k + 0)
           b1 == UnitAt(s, 0, k + 1)
           b2 == UnitAt(s, 0, k + 2)
           b3 == UnitAt(s, 0, k + 3)
<1>1. b0 \in Bytes /\ b1 \in Bytes /\ b2 \in Bytes /\ b3 \in Bytes
  <2>1. \A n \in Nat : UnitAt(s, 0, k + n) \in Bytes
    <3> TAKE n \in Nat
    <3>1. CASE k + n <= Len(s)
      <4>1. k + n \in 1 .. Len(s)
        BY <3>1
      <4>2. s[k + n] \in Bytes
        BY <4>1
      <4> QED
        BY <3>1, <4>2 DEF UnitAt
    <3>2. CASE ~(k + n <= Len(s))
      BY <3>2 DEF UnitAt, Bytes
    <3> QED
      BY <3>1, <3>2
  <2> QED
    BY <2>1
<1>2. /\ Len(e) >= 1 => b0 = e[1]
      /\ Len(e) >= 2 => b1 = e[2]
      /\ Len(e) >= 3 => b2 = e[3]
      /\ Len(e) >= 4 => b3 = e[4]
  <2>1. \A n \in 1 .. Len(e) : k + n - 1 <= Len(s)
    OBVIOUS
  <2>2. /\ 1 <= Len(e) => s[k + 0] = e[1] /\ k + 0 <= Len(s)
        /\ 2 <= Len(e) => s[k + 1] = e[2] /\ k + 1 <= Len(s)
        /\ 3 <= Len(e) => s[k + 2] = e[3] /\ k + 2 <= Len(s)
        /\ 4 <= Len(e) => s[k + 3] = e[4] /\ k + 3 <= Len(s)
    <3>1. \A n \in 1 .. Len(e) : k + (n - 1) = k + n - 1
      OBVIOUS
    <3> QED
      BY <2>1
  <2> QED
    BY <2>2 DEF UnitAt
<1>3. utf8_decode_check(s, k) = Decode8(b0, b1, b2, b3)
  BY DEF utf8_decode_check
<1> SUFFICES Decode8(b0, b1, b2, b3) = Consumed(Len(e), c)
  BY <1>3
<1>4. c \in Nat /\ c < 1114112 /\ e = utf8_encode(c)
  BY DEF Codepoints
<1> HIDE DEF e, b0, b1, b2, b3
<1>5. CASE c < 128
  <2>1. e = <<c>>
    BY <1>4, <1>5, SMT DEF utf8_encode
  <2>2. Len(e) = 1 /\ b0 = c
    BY <1>2, <2>1, SMT
  <2>3. Decode8(c, b1, b2, b3) = Consumed(1, c)
    BY <1>1, <1>4, <1>5, Form1
  <2> QED
    BY <2>2, <2>3
<1>6. CASE c >= 128 /\ c < 2048
  <2>1. e = <<c \div 64 + 192, Low(c, 64) + 128>>
    BY <1>4, <1>6, SMT DEF utf8_encode
  <2>2. Len(e) = 2 /\ b0 = c \div 64 + 192 /\ b1 = Low(c, 64) + 128
    BY <1>2, <2>1, SMT
  <2>3. Decode8(c \div 64 + 192, Low(c, 64) + 128, b2, b3) = Consumed(2, c)
    BY <1>1, <1>4, <1>6, Form2, SMT
  <2> QED
    BY <2>2, <2>3, SMT
<1>7. CASE c >= 2048 /\ c < 65536
  <2>1. e = <<c \div 4096 + 224, Low(c \div 64, 64) + 128, Low(c, 64) + 128>>
    BY <1>4, <1>7, SMT DEF utf8_encode
  <2>2. /\ Len(e) = 3
        /\ b0 = c \div 4096 + 224
        /\ b1 = Low(c \div 64, 64) + 128
        /\ b2 = Low(c, 64) + 128
    BY <1>2, <2>1, SMT
  <2>3. Decode8(c \div 4096 + 224, Low(c \div 64, 64) + 128, Low(c, 64) + 128, b3)
          = Consumed(3, c)
    BY <1>1, <1>4, <1>7, Form3, SMT
  <2> QED
    BY <2>2, <2>3, SMT
<1>8. CASE c >= 65536
  <2>1. e = <<c \div 262144 + 240, Low(c \div 4096, 64) + 128,
              Low(c \div 64, 64) + 128, Low(c, 64) + 128>>
    BY <1>4, <1>8, SMT DEF utf8_encode
  <2>2. /\ Len(e) = 4
        /\ b0 = c \div 262144 + 240
        /\ b1 = Low(c \div 4096, 64) + 128
        /\ b2 = Low(c \div 64, 64) + 128
        /\ b3 = Low(c, 64) + 128
    BY <1>2, <2>1, SMT
  <2>3. Decode8(c \div 262144 + 240, Low(c \div 4096, 64) + 128,
                Low(c \div 64, 64) + 128, Low(c, 64) + 128) = Consumed(4, c)
    BY <1>8, Form4, SMT
  <2> QED
    BY <2>2, <2>3, SMT
<1> QED
  BY <1>4, <1>5, <1>6, <1>7, <1>8, SMT

LEMMA Halves ==
  ASSUME NEW c \in Nat, c >= 65536
  PROVE  ((c - 65536) \div 1024) * 1024 + Low(c, 1024) + 65536 = c
<1>1. (c - 65536) \div 1024 = c \div 1024 - 64
  BY SMTT(30)
<1>2. (c \div 1024) * 1024 + Low(c, 1024) = c
  BY SMTT(30) DEF Low
<1>3. c \div 1024 \in Int /\ Low(c, 1024) \in Int
  BY SMT DEF Low
<1> QED
  BY <1>1, <1>2, <1>3, SMT

\* What utf16_encode writes for a scalar value, utf16_decode_check reads as that
\* value, whatever follows.
THEOREM Utf16RoundTrip ==
  ASSUME NEW c \in Codepoints, c \notin Surrogates,
         NEW s \in Seq(Units16), NEW beyond \in Units16, NEW k \in Nat \ {0},
         k + Len(utf16_encode(c)) - 1 <= Len(s),
         \A n \in 1 .. Len(utf16_encode(c)) : s[k + n - 1] = utf16_encode(c)[n]
  PROVE  utf16_decode_check(s, beyond, k) = Consumed(Len(utf16_encode(c)), c)
<1> DEFINE e == utf16_encode(c)
           u == UnitAt(s, beyond, k)
           v == UnitAt(s, beyond, k + 1)
<1>1. /\ Len(e) >= 1 => u = e[1]
      /\ Len(e) >= 2 => v = e[2]
  <2>1. \A n \in 1 .. Len(e) : k + n - 1 <= Len(s) /\ s[k + n - 1] = e[n]
    OBVIOUS
  <2>2. /\ 1 <= Len(e) => s[k] = e[1] /\ k <= Len(s)
        /\ 2 <= Len(e) => s[k + 1] = e[2] /\ k + 1 <= Len(s)
    BY <2>1
  <2> QED
    BY <2>2 DEF UnitAt
<1>2. utf16_decode_check(s, beyond, k)
        = IF is_high_surrogate(u) /\ is_low_surrogate(v)
          THEN Consumed(2, (u - 55296) * 1024 + (v - 56320) + 65536)
          ELSE IF is_high_surrogate(u) \/ is_low_surrogate(u) THEN invalid_pt
          ELSE Consumed(1, u)
  BY DEF utf16_decode_check
<1>3. c \in Nat /\ c < 1114112 /\ c \notin Surrogates /\ e = utf16_encode(c)
  BY DEF Codepoints
<1> SUFFICES (IF is_high_surrogate(u) /\ is_low_surrogate(v)
              THEN Consumed(2, (u - 55296) * 1024 + (v - 56320) + 65536)
              ELSE IF is_high_surrogate(u) \/ is_low_surrogate(u) THEN invalid_pt
              ELSE Consumed(1, u)) = Consumed(Len(e), c)
  BY <1>2
<1> HIDE DEF e, u, v
<1>4. CASE c < 65536
  <2>1. e = <<c>>
    BY <1>3, <1>4, SMT DEF utf16_encode
  <2>2. Len(e) = 1 /\ u = c
    BY <1>1, <2>1, SMT
  <2>3. ~is_high_surrogate(c) /\ ~is_low_surrogate(c)
    BY <1>3, SMT
       DEF Surrogates, is_high_surrogate, is_low_surrogate, HighSurrogates, LowSurrogates
  <2> QED
    BY <2>2, <2>3
<1>5. CASE c >= 65536
  <2>1. e = <<(c - 65536) \div 1024 + 55296, Low(c, 1024) + 56320>>
    BY <1>3, <1>5, SMT DEF utf16_encode
  <2>2. Len(e) = 2 /\ u = (c - 65536) \div 1024 + 55296 /\ v = Low(c, 1024) + 56320
    BY <1>1, <2>1, SMT
  <2>3. is_high_surrogate(u) /\ is_low_surrogate(v)
    BY <1>3, <1>5, <2>2, SMTT(30)
       DEF is_high_surrogate, is_low_surrogate, HighSurrogates, LowSurrogates, Low
  <2>4. ((c - 65536) \div 1024) * 1024 + Low(c, 1024) + 65536 = c
    BY <1>3, <1>5, Halves
  <2>5. (u - 55296) * 1024 + (v - 56320) + 65536 = c
    <3>1. (c - 65536) \div 1024 \in Int /\ Low(c, 1024) \in Int
      BY <1>3, SMT DEF Low
    <3> QED
      BY <2>2, <2>4, <3>1, SMT
  <2> QED
    BY <2>2, <2>3, <2>5
<1> QED
  BY <1>3, <1>4, <1>5, SMT
-----------------------------------------------------------------------------

\* A codepoint that takes two units in UTF-16.
Supplementary(c) == c >= 65536

\* What a turn of utf8_decode consumes is a first byte and as many continuation
\* bytes as the form has, and two bytes at least if the codepoint takes a pair.
LEMMA Turn8 ==
  ASSUME NEW b0 \in Bytes, NEW b1 \in Bytes, NEW b2 \in Bytes, NEW b3 \in Bytes,
         NEW r, r = OrReplacement(Decode8(b0, b1, b2, b3))
  PROVE  /\ r.offset \in 1 .. 4
         /\ r.pt \in Codepoints
         /\ Supplementary(r.pt) => r.offset >= 2
         /\ r.offset >= 2 => b1 \in Tail8
         /\ r.offset >= 3 => b2 \in Tail8
         /\ r.offset >= 4 => b3 \in Tail8
<1> DEFINE d == Decode8(b0, b1, b2, b3)
           low0 == Low(b0, 16)
           low1 == Low(b1, 64)
           low2 == Low(b2, 64)
           low3 == Low(b3, 64)
<1>1. \A b \in Bytes : /\ IsContinuation(b) => b \in Tail8
                       /\ Low(b, 64) \in 0 .. 63
                       /\ Low(b, 32) \in 0 .. 31
                       /\ Low(b, 16) \in 0 .. 15
  BY SMT DEF IsContinuation, Low, Tail8, Bytes
<1>2. /\ low0 \in 0 .. 15 /\ Low(b0, 32) \in 0 .. 31
      /\ low1 \in 0 .. 63 /\ low2 \in 0 .. 63 /\ low3 \in 0 .. 63
  BY <1>1, SMT
<1>3. \/ d = invalid_pt
      \/ d = Consumed(1, b0) /\ b0 < 128
      \/ d = Consumed(2, Low(b0, 32) * 64 + low1) /\ IsContinuation(b1)
      \/ /\ d = Consumed(3, low0 * 4096 + low1 * 64 + low2)
         /\ IsContinuation(b1) /\ IsContinuation(b2)
      \/ /\ d = Consumed(4, low0 * 262144 + low1 * 4096 + low2 * 64 + low3)
         /\ low0 * 262144 + low1 * 4096 + low2 * 64 + low3 < 1114112
         /\ IsContinuation(b1) /\ IsContinuation(b2) /\ IsContinuation(b3)
  BY SMT DEF Decode8
<1>4. r = IF d.offset < 0 THEN Consumed(1, Replacement) ELSE d
  BY DEF OrReplacement
<1> HIDE DEF d, low0, low1, low2, low3
<1>5. CASE d = invalid_pt
  BY <1>4, <1>5, SMT DEF invalid_pt, Consumed, Replacement, Codepoints, Supplementary
<1>6. CASE d = Consumed(1, b0) /\ b0 < 128
  BY <1>4, <1>6, SMT DEF Consumed, Codepoints, Bytes, Supplementary
<1>7. CASE d = Consumed(2, Low(b0, 32) * 64 + low1) /\ IsContinuation(b1)
  <2>1. r.offset = 2 /\ r.pt = Low(b0, 32) * 64 + low1
    BY <1>4, <1>7, SMT DEF Consumed
  <2> QED
    BY <1>1, <1>2, <1>7, <2>1, SMT DEF Codepoints, Supplementary
<1>8. CASE /\ d = Consumed(3, low0 * 4096 + low1 * 64 + low2)
           /\ IsContinuation(b1) /\ IsContinuation(b2)
  <2>1. r.offset = 3 /\ r.pt = low0 * 4096 + low1 * 64 + low2
    BY <1>4, <1>8, SMT DEF Consumed
  <2> QED
    BY <1>1, <1>2, <1>8, <2>1, SMT DEF Codepoints, Supplementary
<1>9. CASE /\ d = Consumed(4, low0 * 262144 + low1 * 4096 + low2 * 64 + low3)
           /\ low0 * 262144 + low1 * 4096 + low2 * 64 + low3 < 1114112
           /\ IsContinuation(b1) /\ IsContinuation(b2) /\ IsContinuation(b3)
  <2>1. r.offset = 4 /\ r.pt = low0 * 262144 + low1 * 4096 + low2 * 64 + low3
    BY <1>4, <1>9, SMT DEF Consumed
  <2> QED
    BY <1>1, <1>2, <1>9, <2>1, SMT DEF Codepoints, Supplementary
<1> QED
  BY <1>3, <1>5, <1>6, <1>7, <1>8, <1>9

\* What a turn of utf16_decode gives is a scalar value, and the unit that it
\* consumes beside the first is a low surrogate.
LEMMA Turn16 ==
  ASSUME NEW u \in Units16, NEW v \in Units16, NEW r,
         r = OrReplacement(IF is_high_surrogate(u) /\ is_low_surrogate(v)
                           THEN Consumed(2, (u - 55296) * 1024 + (v - 56320) + 65536)
                           ELSE IF is_high_surrogate(u) \/ is_low_surrogate(u)
                           THEN invalid_pt
                           ELSE Consumed(1, u))
  PROVE  /\ r.offset \in 1 .. 2
         /\ IsScalar(r.pt)
         /\ r.offset >= 2 => is_low_surrogate(v)
<1>1. CASE is_high_surrogate(u) /\ is_low_surrogate(v)
  <2>1. r.offset = 2 /\ r.pt = (u - 55296) * 1024 + (v - 56320) + 65536
    BY <1>1, SMT DEF OrReplacement, Consumed
  <2>2. u \in HighSurrogates /\ v \in LowSurrogates
    BY <1>1, SMT DEF is_high_surrogate, is_low_surrogate
  <2>3. r.pt \in Nat /\ r.pt >= 65536 /\ r.pt < 1114112
    BY <2>1, <2>2, SMT DEF HighSurrogates, LowSurrogates
  <2> QED
    BY <1>1, <2>1, <2>3, SMT DEF IsScalar, Codepoints, Surrogates
<1>2. CASE /\ ~(is_high_surrogate(u) /\ is_low_surrogate(v))
           /\ is_high_surrogate(u) \/ is_low_surrogate(u)
  BY <1>2, SMT
     DEF OrReplacement, Consumed, invalid_pt, Replacement, IsScalar, Codepoints, Surrogates
<1>3. CASE ~(is_high_surrogate(u) \/ is_low_surrogate(u))
  <2>1. r.offset = 1 /\ r.pt = u
    BY <1>3, SMT DEF OrReplacement, Consumed, Units16
  <2>2. u \in Nat /\ u < 65536
    BY SMT DEF Units16
  <2>3. u \notin HighSurrogates /\ u \notin LowSurrogates
    BY <1>3, SMT DEF is_high_surrogate, is_low_surrogate
  <2>4. u \notin Surrogates
    BY <2>2, <2>3, SMT DEF Surrogates, HighSurrogates, LowSurrogates
  <2> QED
    BY <2>1, <2>2, <2>4, SMT DEF IsScalar, Codepoints
<1> QED
  BY <1>1, <1>2, <1>3
-----------------------------------------------------------------------------
\* Strings made of the table's rows.

LEMMA MadeOfEmpty ==
  ASSUME NEW rows
  PROVE  MadeOf(<<>>, rows)
BY DEF MadeOf

\* One sequence of a row.
LEMMA MadeOfOne ==
  ASSUME NEW rows, NEW row \in rows, NEW e,
         Len(e) \in Nat, Len(e) = Len(row),
         \A k \in 1 .. Len(e) : e[k] \in row[k]
  PROVE  MadeOf(e, rows)
<1>1. Matches(e, 1, row)
  BY DEF Matches
<1>2. \A n \in 1 .. Len(e) : 1 \in 1 .. n /\ n < 1 + Len(row)
  OBVIOUS
<1> QED
  BY <1>1, <1>2 DEF MadeOf

LEMMA MadeOfAppended ==
  ASSUME NEW S, NEW a \in Seq(S), NEW b \in Seq(S), NEW rows,
         \A row \in rows : Len(row) \in Nat,
         MadeOf(a, rows), MadeOf(b, rows)
  PROVE  MadeOf(a \o b, rows)
<1>1. /\ Len(a) \in Nat /\ Len(b) \in Nat
      /\ Len(a \o b) = Len(a) + Len(b)
      /\ \A n \in 1 .. Len(a) : (a \o b)[n] = a[n]
      /\ \A n \in 1 .. Len(b) : (a \o b)[Len(a) + n] = b[n]
  OBVIOUS
<1> DEFINE ab == a \o b
<1>2. /\ Len(ab) = Len(a) + Len(b)
      /\ \A n \in 1 .. Len(a) : ab[n] = a[n]
      /\ \A n \in 1 .. Len(b) : ab[Len(a) + n] = b[n]
  BY <1>1
<1> SUFFICES ASSUME NEW n \in 1 .. Len(ab)
             PROVE  \E row \in rows, j \in 1 .. n : Matches(ab, j, row) /\ n < j + Len(row)
  BY DEF MadeOf
<1> HIDE DEF ab
<1>3. CASE n <= Len(a)
  <2>1. n \in 1 .. Len(a)
    BY <1>1, <1>3
  <2>2. PICK row \in rows, j \in 1 .. n : Matches(a, j, row) /\ n < j + Len(row)
    BY <2>1 DEF MadeOf
  <2>3. Len(row) \in Nat
    OBVIOUS
  <2>4. \A k \in 1 .. Len(row) : j + k - 1 \in 1 .. Len(a)
    BY <1>1, <2>1, <2>2, <2>3 DEF Matches
  <2>5. \A k \in 1 .. Len(row) : ab[j + k - 1] \in row[k]
    BY <1>2, <2>2, <2>4 DEF Matches
  <2>6. j + Len(row) - 1 <= Len(ab)
    BY <1>1, <1>2, <2>2, <2>3 DEF Matches
  <2> QED
    BY <2>2, <2>5, <2>6 DEF Matches
<1>4. CASE ~(n <= Len(a))
  <2>1. n - Len(a) \in 1 .. Len(b)
    BY <1>1, <1>2, <1>4
  <2>2. PICK row \in rows, j \in 1 .. (n - Len(a)) :
          Matches(b, j, row) /\ n - Len(a) < j + Len(row)
    BY <2>1 DEF MadeOf
  <2>3. Len(row) \in Nat
    OBVIOUS
  <2>4. \A k \in 1 .. Len(row) : /\ j + k - 1 \in 1 .. Len(b)
                                /\ Len(a) + (j + k - 1) = (Len(a) + j) + k - 1
    BY <1>1, <2>1, <2>2, <2>3 DEF Matches
  <2>5. \A k \in 1 .. Len(row) : ab[(Len(a) + j) + k - 1] \in row[k]
    BY <1>2, <2>2, <2>4 DEF Matches
  <2>6. Len(a) + j \in 1 .. n /\ n < (Len(a) + j) + Len(row)
    BY <1>1, <2>1, <2>2, <2>3
  <2>7. (Len(a) + j) + Len(row) - 1 <= Len(ab)
    BY <1>1, <1>2, <2>2, <2>3 DEF Matches
  <2> QED
    BY <2>5, <2>6, <2>7 DEF Matches
<1> QED
  BY <1>3, <1>4

\* The rows are sequences of bytes, and none begins with a continuation byte;
\* no row of UTF-16 begins with a low surrogate.
LEMMA RowsBegin ==
  /\ \A row \in Rows8 : Len(row) \in 1 .. 4 /\ row[1] \cap Tail8 = {}
  /\ \A row \in Rows16 : Len(row) \in 1 .. 2 /\ \A u \in row[1] : ~is_low_surrogate(u)
<1>1. \A row \in Rows8 : Len(row) \in 1 .. 4 /\ row[1] \cap Tail8 = {}
  BY SMT DEF Rows8, Tail8
<1>2. \A row \in Rows16 : Len(row) \in 1 .. 2 /\ \A u \in row[1] : ~is_low_surrogate(u)
  <2>1. \A row \in Rows16 : /\ Len(row) \in 1 .. 2
                            /\ row[1] = Units16 \ Surrogates \/ row[1] = HighSurrogates
    BY SMT DEF Rows16
  <2>2. \A u \in (Units16 \ Surrogates) \cup HighSurrogates : u \notin LowSurrogates
    BY SMT DEF HighSurrogates, LowSurrogates, Surrogates, Units16
  <2> QED
    BY <2>1, <2>2 DEF is_low_surrogate
<1> QED
  BY <1>1, <1>2

-----------------------------------------------------------------------------
\* What the encoders write.

\* A string of one sequence of a row.
LEMMA OfRow ==
  ASSUME NEW n \in 1 .. 4, NEW row \in Rows8, NEW e,
         Len(row) = n, Len(e) = n,
         \A k \in 1 .. n : e[k] \in row[k]
  PROVE  IsUtf8(e)
BY MadeOfOne DEF IsUtf8

LEMMA OfRow1 ==
  ASSUME NEW R0 \in SUBSET Bytes, <<R0>> \in Rows8, NEW b0 \in R0
  PROVE  <<b0>> \in Seq(Bytes) /\ IsUtf8(<<b0>>)
<1>1. /\ Len(<<R0>>) = 1 /\ Len(<<b0>>) = 1
      /\ \A k \in 1 .. 1 : <<b0>>[k] \in <<R0>>[k]
  OBVIOUS
<1>2. IsUtf8(<<b0>>)
  BY <1>1, OfRow
<1> QED
  BY <1>2

LEMMA OfRow2 ==
  ASSUME NEW R0 \in SUBSET Bytes, NEW R1 \in SUBSET Bytes, <<R0, R1>> \in Rows8,
         NEW b0 \in R0, NEW b1 \in R1
  PROVE  <<b0, b1>> \in Seq(Bytes) /\ IsUtf8(<<b0, b1>>)
<1>1. /\ Len(<<R0, R1>>) = 2 /\ Len(<<b0, b1>>) = 2
      /\ \A k \in 1 .. 2 : <<b0, b1>>[k] \in <<R0, R1>>[k]
  OBVIOUS
<1>2. IsUtf8(<<b0, b1>>)
  BY <1>1, OfRow
<1> QED
  BY <1>2

LEMMA OfRow3 ==
  ASSUME NEW R0 \in SUBSET Bytes, NEW R1 \in SUBSET Bytes, NEW R2 \in SUBSET Bytes,
         <<R0, R1, R2>> \in Rows8, NEW b0 \in R0, NEW b1 \in R1, NEW b2 \in R2
  PROVE  <<b0, b1, b2>> \in Seq(Bytes) /\ IsUtf8(<<b0, b1, b2>>)
<1>1. /\ Len(<<R0, R1, R2>>) = 3 /\ Len(<<b0, b1, b2>>) = 3
      /\ \A k \in 1 .. 3 : <<b0, b1, b2>>[k] \in <<R0, R1, R2>>[k]
  OBVIOUS
<1>2. IsUtf8(<<b0, b1, b2>>)
  BY <1>1, OfRow
<1> QED
  BY <1>2

LEMMA OfRow4 ==
  ASSUME NEW R0 \in SUBSET Bytes, NEW R1 \in SUBSET Bytes, NEW R2 \in SUBSET Bytes,
         NEW R3 \in SUBSET Bytes, <<R0, R1, R2, R3>> \in Rows8,
         NEW b0 \in R0, NEW b1 \in R1, NEW b2 \in R2, NEW b3 \in R3
  PROVE  <<b0, b1, b2, b3>> \in Seq(Bytes) /\ IsUtf8(<<b0, b1, b2, b3>>)
<1>1. /\ Len(<<R0, R1, R2, R3>>) = 4 /\ Len(<<b0, b1, b2, b3>>) = 4
      /\ \A k \in 1 .. 4 : <<b0, b1, b2, b3>>[k] \in <<R0, R1, R2, R3>>[k]
  OBVIOUS
<1>2. IsUtf8(<<b0, b1, b2, b3>>)
  BY <1>1, OfRow
<1> QED
  BY <1>2

\* utf8_encode of a scalar value is a sequence of the table, by the ranges of
\* codepoints that its rows stand for.
LEMMA EncodesTable8 ==
  ASSUME NEW c, IsScalar(c)
  PROVE  utf8_encode(c) \in Seq(Bytes) /\ IsUtf8(utf8_encode(c))
<1> DEFINE e == utf8_encode(c)
           t1 == Low(c, 64) + 128
           t2 == Low(c \div 64, 64) + 128
           t3 == Low(c \div 4096, 64) + 128
           h2 == c \div 64 + 192
           h3 == c \div 4096 + 224
           h4 == c \div 262144 + 240
<1>1. c \in Nat /\ c < 1114112 /\ ~(c >= 55296 /\ c <= 57343)
  BY SMT DEF IsScalar, Codepoints, Surrogates
<1>2. t1 \in Tail8 /\ t2 \in Tail8 /\ t3 \in Tail8
  <2>1. \A n \in Nat : Low(n, 64) + 128 \in Tail8
    BY SMT DEF Low, Tail8
  <2> QED
    BY <1>1, <2>1, SMT
<1>3. /\ c < 128 => e = <<c>>
      /\ c >= 128 /\ c < 2048 => e = <<h2, t1>>
      /\ c >= 2048 /\ c < 65536 => e = <<h3, t2, t1>>
      /\ c >= 65536 => e = <<h4, t3, t2, t1>>
  BY <1>1, SMT DEF utf8_encode
<1>4. Tail8 \in SUBSET Bytes
  BY SMT DEF Tail8, Bytes
<1> HIDE DEF e, t1, t2, t3, h2, h3, h4
<1> SUFFICES e \in Seq(Bytes) /\ IsUtf8(e)
  BY DEF e
<1>5. CASE c < 128
  <2> DEFINE R0 == 0 .. 127
  <2>1. e = <<c>>
    BY <1>1, <1>3, <1>5, SMT
  <2>2. c \in R0
    BY <1>1, <1>5, SMT
  <2>3. <<R0>> \in Rows8
    BY DEF Rows8
  <2>4. R0 \in SUBSET Bytes
    BY SMT DEF Bytes
  <2> HIDE DEF R0
  <2> QED
    BY <2>1, <2>2, <2>3, <2>4, OfRow1
<1>6. CASE c >= 128 /\ c < 2048
  <2> DEFINE R0 == 194 .. 223
  <2>1. e = <<h2, t1>>
    BY <1>1, <1>3, <1>6, SMT
  <2>2. h2 \in R0
    BY <1>1, <1>6, SMT DEF h2
  <2>3. <<R0, Tail8>> \in Rows8
    BY DEF Rows8
  <2>4. R0 \in SUBSET Bytes
    BY SMT DEF Bytes
  <2> HIDE DEF R0
  <2> QED
    BY <1>2, <1>4, <2>1, <2>2, <2>3, <2>4, OfRow2
<1>7. CASE c >= 2048 /\ c < 4096
  <2> DEFINE R0 == {224}
             R1 == 160 .. 191
  <2>1. e = <<h3, t2, t1>>
    BY <1>1, <1>3, <1>7, SMT
  <2>2. h3 \in R0 /\ t2 \in R1
    BY <1>1, <1>7, SMTT(30) DEF h3, t2, Low
  <2>3. <<R0, R1, Tail8>> \in Rows8
    BY DEF Rows8
  <2>4. R0 \in SUBSET Bytes /\ R1 \in SUBSET Bytes
    BY SMT DEF Bytes
  <2> HIDE DEF R0, R1
  <2> QED
    BY <1>2, <1>4, <2>1, <2>2, <2>3, <2>4, OfRow3
<1>8. CASE c >= 4096 /\ c < 53248
  <2> DEFINE R0 == 225 .. 236
  <2>1. e = <<h3, t2, t1>>
    BY <1>1, <1>3, <1>8, SMT
  <2>2. h3 \in R0
    BY <1>1, <1>8, SMTT(30) DEF h3
  <2>3. <<R0, Tail8, Tail8>> \in Rows8
    BY DEF Rows8
  <2>4. R0 \in SUBSET Bytes
    BY SMT DEF Bytes
  <2> HIDE DEF R0
  <2> QED
    BY <1>2, <1>4, <2>1, <2>2, <2>3, <2>4, OfRow3
<1>9. CASE c >= 53248 /\ c < 55296
  <2> DEFINE R0 == {237}
             R1 == 128 .. 159
  <2>1. e = <<h3, t2, t1>>
    BY <1>1, <1>3, <1>9, SMT
  <2>2. h3 \in R0 /\ t2 \in R1
    BY <1>1, <1>9, SMTT(30) DEF h3, t2, Low
  <2>3. <<R0, R1, Tail8>> \in Rows8
    BY DEF Rows8
  <2>4. R0 \in SUBSET Bytes /\ R1 \in SUBSET Bytes
    BY SMT DEF Bytes
  <2> HIDE DEF R0, R1
  <2> QED
    BY <1>2, <1>4, <2>1, <2>2, <2>3, <2>4, OfRow3
<1>10. CASE c >= 57344 /\ c < 65536
  <2> DEFINE R0 == 238 .. 239
  <2>1. e = <<h3, t2, t1>>
    BY <1>1, <1>3, <1>10, SMT
  <2>2. h3 \in R0
    BY <1>1, <1>10, SMTT(30) DEF h3
  <2>3. <<R0, Tail8, Tail8>> \in Rows8
    BY DEF Rows8
  <2>4. R0 \in SUBSET Bytes
    BY SMT DEF Bytes
  <2> HIDE DEF R0
  <2> QED
    BY <1>2, <1>4, <2>1, <2>2, <2>3, <2>4, OfRow3
<1>11. CASE c >= 65536 /\ c < 262144
  <2> DEFINE R0 == {240}
             R1 == 144 .. 191
  <2>1. e = <<h4, t3, t2, t1>>
    BY <1>1, <1>3, <1>11, SMT
  <2>2. h4 \in R0 /\ t3 \in R1
    BY <1>1, <1>11, SMTT(30) DEF h4, t3, Low
  <2>3. <<R0, R1, Tail8, Tail8>> \in Rows8
    BY DEF Rows8
  <2>4. R0 \in SUBSET Bytes /\ R1 \in SUBSET Bytes
    BY SMT DEF Bytes
  <2> HIDE DEF R0, R1
  <2> QED
    BY <1>2, <1>4, <2>1, <2>2, <2>3, <2>4, OfRow4
<1>12. CASE c >= 262144 /\ c < 1048576
  <2> DEFINE R0 == 241 .. 243
  <2>1. e = <<h4, t3, t2, t1>>
    BY <1>1, <1>3, <1>12, SMT
  <2>2. h4 \in R0
    BY <1>1, <1>12, SMTT(30) DEF h4
  <2>3. <<R0, Tail8, Tail8, Tail8>> \in Rows8
    BY DEF Rows8
  <2>4. R0 \in SUBSET Bytes
    BY SMT DEF Bytes
  <2> HIDE DEF R0
  <2> QED
    BY <1>2, <1>4, <2>1, <2>2, <2>3, <2>4, OfRow4
<1>13. CASE c >= 1048576
  <2> DEFINE R0 == {244}
             R1 == 128 .. 143
  <2>1. e = <<h4, t3, t2, t1>>
    BY <1>1, <1>3, <1>13, SMT
  <2>2. h4 \in R0 /\ t3 \in R1
    BY <1>1, <1>13, SMTT(30) DEF h4, t3, Low
  <2>3. <<R0, R1, Tail8, Tail8>> \in Rows8
    BY DEF Rows8
  <2>4. R0 \in SUBSET Bytes /\ R1 \in SUBSET Bytes
    BY SMT DEF Bytes
  <2> HIDE DEF R0, R1
  <2> QED
    BY <1>2, <1>4, <2>1, <2>2, <2>3, <2>4, OfRow4
<1> QED
  BY <1>1, <1>5, <1>6, <1>7, <1>8, <1>9, <1>10, <1>11, <1>12, <1>13, SMT

\* utf16_encode gives one unit, or two for a codepoint beyond the 16-bit ones.
LEMMA Encodes16 ==
  ASSUME NEW c \in Nat
  PROVE  /\ utf16_encode(c) \in Seq(Units16)
         /\ Len(utf16_encode(c)) \in 1 .. 2
         /\ ~Supplementary(c) => Len(utf16_encode(c)) = 1
<1>1. CASE c < 65536
  <2>1. utf16_encode(c) = <<c>> /\ c \in Units16
    BY <1>1, SMT DEF utf16_encode, Units16
  <2> QED
    BY <2>1
<1>2. CASE c >= 65536 /\ c < 1114112
  <2> DEFINE high == (c - 65536) \div 1024 + 55296
             low == Low(c, 1024) + 56320
  <2>1. utf16_encode(c) = <<high, low>> /\ Supplementary(c)
    BY <1>2, SMT DEF utf16_encode, Supplementary
  <2>2. high \in Units16 /\ low \in Units16
    BY <1>2, SMTT(30) DEF Units16, Low
  <2> HIDE DEF high, low
  <2> QED
    BY <2>1, <2>2
<1>3. CASE c >= 1114112
  <2>1. utf16_encode(c) = <<Replacement>> /\ Replacement \in Units16
    BY <1>3, SMT DEF utf16_encode, Replacement, Units16
  <2> QED
    BY <2>1
<1> QED
  BY <1>1, <1>2, <1>3, SMT

-----------------------------------------------------------------------------
\* A turn of the decoders in a string: what it consumes beside the first unit
\* begins no sequence of the table.

LEMMA Decode8Facts ==
  ASSUME NEW s \in Seq(Bytes), NEW k \in 1 .. Len(s), NEW r, r = utf8_decode(s, k)
  PROVE  /\ r.offset \in 1 .. 4
         /\ r.pt \in Codepoints
         /\ Supplementary(r.pt) => r.offset >= 2
         /\ \A j \in 1 .. Len(s) : k < j /\ j < k + r.offset => s[j] \in Tail8
<1> DEFINE b0 == UnitAt(s, 0, k + 0)
           b1 == UnitAt(s, 0, k + 1)
           b2 == UnitAt(s, 0, k + 2)
           b3 == UnitAt(s, 0, k + 3)
<1>1. \A n \in Nat : UnitAt(s, 0, k + n) \in Bytes
  <2> TAKE n \in Nat
  <2>1. CASE k + n <= Len(s)
    <3>1. k + n \in 1 .. Len(s)
      BY <2>1
    <3>2. s[k + n] \in Bytes
      BY <3>1
    <3> QED
      BY <2>1, <3>2 DEF UnitAt
  <2>2. CASE ~(k + n <= Len(s))
    BY <2>2 DEF UnitAt, Bytes
  <2> QED
    BY <2>1, <2>2
<1>2. b0 \in Bytes /\ b1 \in Bytes /\ b2 \in Bytes /\ b3 \in Bytes
  BY <1>1
<1>3. \A j \in 1 .. Len(s) : /\ j = k + 1 => b1 = s[j]
                             /\ j = k + 2 => b2 = s[j]
                             /\ j = k + 3 => b3 = s[j]
  BY DEF UnitAt
<1>4. r = OrReplacement(Decode8(b0, b1, b2, b3))
  BY DEF utf8_decode, utf8_decode_check
<1> HIDE DEF b0, b1, b2, b3
<1>5. /\ r.offset \in 1 .. 4
      /\ r.pt \in Codepoints
      /\ Supplementary(r.pt) => r.offset >= 2
      /\ r.offset >= 2 => b1 \in Tail8
      /\ r.offset >= 3 => b2 \in Tail8
      /\ r.offset >= 4 => b3 \in Tail8
  BY <1>2, <1>4, Turn8
<1>6. ASSUME NEW j \in 1 .. Len(s), k < j, j < k + r.offset
      PROVE  s[j] \in Tail8
  <2>1. r.offset \in 1 .. 4
    BY <1>5
  <2>2. \/ j = k + 1 /\ r.offset >= 2
        \/ j = k + 2 /\ r.offset >= 3
        \/ j = k + 3 /\ r.offset >= 4
    BY <1>6, <2>1, SMT
  <2> QED
    BY <1>3, <1>5, <2>2
<1> QED
  BY <1>5, <1>6, SMT

LEMMA Decode16Facts ==
  ASSUME NEW s \in Seq(Units16), NEW beyond \in Units16, NEW k \in 1 .. Len(s),
         NEW r, r = utf16_decode(s, beyond, k)
  PROVE  /\ r.offset \in 1 .. 2
         /\ IsScalar(r.pt)
         /\ \A j \in 1 .. Len(s) : k < j /\ j < k + r.offset => is_low_surrogate(s[j])
<1> DEFINE u == UnitAt(s, beyond, k)
           v == UnitAt(s, beyond, k + 1)
<1>1. u \in Units16 /\ v \in Units16
  <2>1. s[k] \in Units16 /\ (k + 1 <= Len(s) => s[k + 1] \in Units16)
    OBVIOUS
  <2> QED
    BY <2>1 DEF UnitAt
<1>2. \A j \in 1 .. Len(s) : j = k + 1 => v = s[j]
  BY DEF UnitAt
<1>3. r = OrReplacement(IF is_high_surrogate(u) /\ is_low_surrogate(v)
                        THEN Consumed(2, (u - 55296) * 1024 + (v - 56320) + 65536)
                        ELSE IF is_high_surrogate(u) \/ is_low_surrogate(u)
                        THEN invalid_pt
                        ELSE Consumed(1, u))
  BY DEF utf16_decode, utf16_decode_check
<1> HIDE DEF u, v
<1>4. /\ r.offset \in 1 .. 2
      /\ IsScalar(r.pt)
      /\ r.offset >= 2 => is_low_surrogate(v)
  BY <1>1, <1>3, Turn16, SMT
<1>5. ASSUME NEW j \in 1 .. Len(s), k < j, j < k + r.offset
      PROVE  is_low_surrogate(s[j])
  <2>1. r.offset \in 1 .. 2
    BY <1>4
  <2>2. j = k + 1 /\ r.offset >= 2
    BY <1>5, <2>1, SMT
  <2> QED
    BY <1>2, <1>4, <2>2
<1> QED
  BY <1>4, <1>5

-----------------------------------------------------------------------------
\* The inductive invariant: types, the reserved length, and native text valid
\* so far.  The three are independent but for the types, which the other two
\* need to know that what is appended is a sequence.
CrossInv == TypeOK /\ ReserveSuffices /\ NativeTextIsValid

LEMMA CrossInvInit == CrossInit => CrossInv
<1> SUFFICES ASSUME CrossInit PROVE CrossInv
  OBVIOUS
<1>1. Sample(call) \subseteq ArgUnits(call)
  BY UtfAssumption, Zenon DEF CrossInit, Sample, ArgUnits
<1>2. str \in Seq(ArgUnits(call))
  <2>1. PICK n \in 0 .. MaxLen : str \in [1 .. n -> Sample(call)]
    BY DEF CrossInit, Strings
  <2>2. n \in Nat
    BY UtfAssumption
  <2>3. str \in [1 .. n -> ArgUnits(call)]
    BY <1>1, <2>1
  <2> QED
    BY <2>2, <2>3
<1>3. behind \in Units16
  <2>1. 0 \in Units16
    BY SMT DEF Units16
  <2> QED
    BY <2>1, UtfAssumption DEF CrossInit, Behind
<1>4. TypeOK
  BY <1>2, <1>3 DEF TypeOK, CrossInit
<1>5. ReserveSuffices
  BY DEF ReserveSuffices, CrossInit
<1>6. NativeTextIsValid
  BY MadeOfEmpty DEF NativeTextIsValid, CrossInit, IsUtf8, IsUtf32
<1> QED
  BY <1>4, <1>5, <1>6 DEF CrossInv

\* What one turn of each loop gives, under the types.
LEMMA TurnFacts ==
  ASSUME TypeOK, i <= Len(str), NEW r, r = Decode(call, str, behind, i)
  PROVE  /\ r.offset \in 1 .. 4
         /\ r.pt \in Nat
         /\ call \in FromJava => IsScalar(r.pt)
         /\ call = "jniStringFromUTF8" /\ Supplementary(r.pt) => r.offset >= 2
         /\ call = "jniStringFromUTF8" =>
              \A j \in 1 .. Len(str) : i < j /\ j < i + r.offset => str[j] \in Tail8
         /\ call \in FromJava =>
              \A j \in 1 .. Len(str) : i < j /\ j < i + r.offset => is_low_surrogate(str[j])
         /\ call = "jniStringFromWString" => r.offset = 1
<1>1. i \in 1 .. Len(str)
  BY DEF TypeOK
<1>2. \A c : IsScalar(c) => c \in Nat
  BY DEF IsScalar, Codepoints
<1>3. \A c \in Codepoints : c \in Nat
  BY DEF Codepoints
<1>4. CASE call = "jniStringFromUTF8"
  <2>1. str \in Seq(Bytes) /\ r = utf8_decode(str, i) /\ call \notin FromJava
    BY <1>4 DEF TypeOK, ArgUnits, Decode, FromJava
  <2> QED
    BY <1>1, <1>3, <1>4, <2>1, Decode8Facts
<1>5. CASE call = "jniStringFromWString"
  <2>1. str \in Seq(Nat) /\ r = Consumed(1, str[i]) /\ call \notin FromJava
    BY <1>5 DEF TypeOK, ArgUnits, Decode, FromJava
  <2>2. str[i] \in Nat
    BY <1>1, <2>1
  <2> QED
    BY <1>5, <2>1, <2>2 DEF Consumed
<1>6. CASE call \in FromJava
  <2>1. /\ str \in Seq(Units16) /\ r = utf16_decode(str, behind, i)
        /\ call # "jniStringFromUTF8" /\ call # "jniStringFromWString"
    BY <1>6 DEF TypeOK, ArgUnits, Decode, FromJava
  <2>2. behind \in Units16
    BY DEF TypeOK
  <2>3. /\ r.offset \in 1 .. 2
        /\ IsScalar(r.pt)
        /\ \A j \in 1 .. Len(str) : i < j /\ j < i + r.offset => is_low_surrogate(str[j])
    BY <1>1, <2>1, <2>2, Decode16Facts
  <2> QED
    BY <1>2, <1>6, <2>1, <2>3
<1> QED
  BY <1>4, <1>5, <1>6 DEF TypeOK, ToJava, FromJava

\* What is appended to the result.
LEMMA EncodeFacts ==
  ASSUME NEW f \in ToJava \cup FromJava, NEW c \in Nat, f \in FromJava => IsScalar(c)
  PROVE  /\ Encode(f, c) \in Seq(ResultUnits(f))
         /\ f = "jniStringFromUTF8" =>
              /\ Len(Encode(f, c)) \in 1 .. 2
              /\ ~Supplementary(c) => Len(Encode(f, c)) = 1
         /\ f = "jniUTF8FromString" => IsUtf8(Encode(f, c))
         /\ f = "jniWStringFromString" => Encode(f, c) = <<c>>
<1>1. CASE f \in ToJava
  <2>1. /\ Encode(f, c) = utf16_encode(c) /\ ResultUnits(f) = Units16
        /\ f # "jniUTF8FromString" /\ f # "jniWStringFromString"
    BY <1>1 DEF Encode, ResultUnits, ToJava
  <2> QED
    BY <2>1, Encodes16
<1>2. CASE f = "jniUTF8FromString"
  <2>1. /\ Encode(f, c) = utf8_encode(c) /\ ResultUnits(f) = Bytes
        /\ IsScalar(c) /\ f # "jniStringFromUTF8" /\ f # "jniWStringFromString"
    BY <1>2 DEF Encode, ResultUnits, ToJava, FromJava
  <2> QED
    BY <2>1, EncodesTable8
<1>3. CASE f = "jniWStringFromString"
  <2>1. /\ Encode(f, c) = <<c>> /\ ResultUnits(f) = Nat
        /\ f # "jniStringFromUTF8" /\ f # "jniUTF8FromString"
    BY <1>3 DEF Encode, ResultUnits, ToJava
  <2> QED
    BY <2>1
<1> QED
  BY <1>1, <1>2, <1>3 DEF FromJava

LEMMA WayBackFacts ==
  ASSUME NEW f \in ToJava \cup FromJava
  PROVE  /\ WayBack[f] \in ToJava \cup FromJava
         /\ ArgUnits(WayBack[f]) = ResultUnits(f)
BY Zenon DEF WayBack, ToJava, FromJava, ArgUnits, ResultUnits

LEMMA CrossInvStep == CrossInv /\ [CrossNext]_vars => CrossInv'
<1> SUFFICES ASSUME CrossInv, [CrossNext]_vars
             PROVE  CrossInv'
  OBVIOUS
<1> USE DEF CrossInv
<1>1. CASE ConvertOne
  <2> DEFINE r == Decode(call, str, behind, i)
             e == Encode(call, r.pt)
  <2>1. /\ r.offset \in 1 .. 4
        /\ r.pt \in Nat
        /\ call \in FromJava => IsScalar(r.pt)
        /\ call = "jniStringFromUTF8" /\ Supplementary(r.pt) => r.offset >= 2
    BY <1>1, TurnFacts DEF ConvertOne
  <2>2. /\ i' = i + r.offset /\ out' = out \o e
        /\ UNCHANGED <<call, str, behind, leg>>
    BY <1>1 DEF ConvertOne
  <2>3. call \in ToJava \cup FromJava /\ out \in Seq(ResultUnits(call)) /\ i \in Nat \ {0}
    BY DEF TypeOK
  <2>4. /\ e \in Seq(ResultUnits(call))
        /\ call = "jniStringFromUTF8" =>
             /\ Len(e) \in 1 .. 2
             /\ ~Supplementary(r.pt) => Len(e) = 1
        /\ call = "jniUTF8FromString" => IsUtf8(e)
        /\ call = "jniWStringFromString" => e = <<r.pt>>
    BY <2>1, <2>3, EncodeFacts
  <2> HIDE DEF r, e
  <2>5. TypeOK'
    <3>1. out' \in Seq(ResultUnits(call))
      BY <2>2, <2>3, <2>4
    <3>2. i' \in Nat \ {0}
      BY <2>1, <2>2, <2>3
    <3> QED
      BY <2>2, <3>1, <3>2 DEF TypeOK
  <2>6. ReserveSuffices'
    <3> SUFFICES ASSUME call = "jniStringFromUTF8"
                 PROVE  Len(out') < i'
      BY <2>2 DEF ReserveSuffices
    <3>1. Len(out) < i /\ Len(out) \in Nat /\ Len(out') = Len(out) + Len(e)
      BY <2>2, <2>3, <2>4 DEF ReserveSuffices
    <3>2. Len(e) <= r.offset /\ Len(e) \in Nat
      <4>1. CASE Supplementary(r.pt)
        <5>1. r.offset >= 2
          BY <2>1, <4>1, Zenon
        <5>2. Len(e) \in 1 .. 2 /\ r.offset \in 1 .. 4
          BY <2>1, <2>4, Zenon
        <5>3. \A m \in 1 .. 2, n \in 1 .. 4 : n >= 2 => m <= n /\ m \in Nat
          BY SMT
        <5> QED
          BY <5>1, <5>2, <5>3, Zenon
      <4>2. CASE ~Supplementary(r.pt)
        <5>1. Len(e) = 1
          BY <2>4, <4>2, Zenon
        <5> QED
          BY <2>1, <5>1
      <4> QED
        BY <4>1, <4>2
    <3> QED
      BY <2>1, <2>2, <2>3, <3>1, <3>2
  <2>7. NativeTextIsValid'
    <3>1. ASSUME call = "jniUTF8FromString"
          PROVE  IsUtf8(out')
      <4>1. IsUtf8(out) /\ IsUtf8(e)
        BY <2>4, <3>1 DEF NativeTextIsValid
      <4>2. out \in Seq(Bytes) /\ e \in Seq(Bytes)
        BY <2>3, <2>4, <3>1 DEF ResultUnits
      <4>3. \A row \in Rows8 : Len(row) \in Nat
        BY RowsBegin
      <4>4. MadeOf(out \o e, Rows8)
        BY <4>1, <4>2, <4>3, MadeOfAppended DEF IsUtf8
      <4> QED
        BY <2>2, <4>4 DEF IsUtf8
    <3>2. ASSUME call = "jniWStringFromString"
          PROVE  IsUtf32(out')
      <4>1. IsUtf32(out) /\ e = <<r.pt>> /\ IsScalar(r.pt)
        BY <2>1, <2>4, <3>2 DEF NativeTextIsValid, FromJava
      <4>2. out \in Seq(Nat)
        BY <2>3, <3>2 DEF ResultUnits
      <4>3. \A n \in 1 .. Len(out') : out'[n] = r.pt \/ (n \in 1 .. Len(out) /\ out'[n] = out[n])
        <5>1. out' = out \o <<r.pt>>
          BY <2>2, <4>1
        <5>2. /\ Len(out') = Len(out) + 1 /\ Len(out) \in Nat
              /\ \A n \in 1 .. Len(out) : out'[n] = out[n]
              /\ out'[Len(out) + 1] = r.pt
          BY <5>1, <4>2
        <5> SUFFICES ASSUME NEW n \in 1 .. Len(out')
                     PROVE  out'[n] = r.pt \/ (n \in 1 .. Len(out) /\ out'[n] = out[n])
          OBVIOUS
        <5>3. n = Len(out) + 1 \/ n \in 1 .. Len(out)
          BY <5>2
        <5> QED
          BY <5>2, <5>3, Zenon
      <4> QED
        BY <4>1, <4>3 DEF IsUtf32
    <3> QED
      BY <2>2, <3>1, <3>2 DEF NativeTextIsValid
  <2> QED
    BY <2>5, <2>6, <2>7
<1>2. CASE CrossBack
  <2>1. /\ call' = WayBack[call] /\ str' = out /\ behind' \in Behind(call')
        /\ i' = 1 /\ out' = <<>> /\ leg' = "back"
    BY <1>2 DEF CrossBack
  <2>2. behind' \in Units16
    <3>1. 0 \in Units16
      BY SMT DEF Units16
    <3> QED
      BY <2>1, <3>1, UtfAssumption DEF Behind
  <2>3. TypeOK'
    BY <2>1, <2>2, WayBackFacts DEF TypeOK
  <2>4. ReserveSuffices'
    BY <2>1 DEF ReserveSuffices
  <2>5. NativeTextIsValid'
    BY <2>1, MadeOfEmpty DEF NativeTextIsValid, IsUtf8, IsUtf32
  <2> QED
    BY <2>3, <2>4, <2>5
<1>3. CASE UNCHANGED vars
  BY <1>3 DEF vars, TypeOK, ReserveSuffices, NativeTextIsValid
<1> QED
  BY <1>1, <1>2, <1>3 DEF CrossNext

-----------------------------------------------------------------------------
\* The inductive invariant of the conversions.
THEOREM CrossInvariance == CrossSpec => []CrossInv
<1>1. CrossInit => CrossInv
  BY CrossInvInit
<1>2. CrossInv /\ [CrossNext]_vars => CrossInv'
  BY CrossInvStep
<1> QED
  BY <1>1, <1>2, PTL DEF CrossSpec

\* Every variable has its type, whatever the strings: the coders never give a
\* unit that its encoding does not have.
THEOREM CrossTypes == CrossSpec => []TypeOK
<1>1. CrossInv => TypeOK
  BY DEF CrossInv
<1> QED
  BY <1>1, CrossInvariance, PTL

\* The length that jniStringFromUTF8 reserves is enough for every string.
THEOREM ReserveIsEnough == CrossSpec => []ReserveSuffices
<1>1. CrossInv => ReserveSuffices
  BY DEF CrossInv
<1> QED
  BY <1>1, CrossInvariance, PTL

\* Native text written from any string of Java, of any length and however
\* damaged, is valid UTF-8 and valid UTF-32.
THEOREM NativeTextAlwaysValid == CrossSpec => []NativeTextIsValid
<1>1. CrossInv => NativeTextIsValid
  BY DEF CrossInv
<1> QED
  BY <1>1, CrossInvariance, PTL

\* In any string, a turn of the loop passes over no first unit of a well-formed
\* sequence.
LEMMA TurnPassesNothing ==
  ASSUME TypeOK, ConvertOne
  PROVE  /\ i' > i
         /\ \A j \in 1 .. Len(str), row \in Rows :
              i < j /\ Matches(str, j, row) => i' <= j
<1> DEFINE r == Decode(call, str, behind, i)
<1>1. /\ r.offset \in 1 .. 4
      /\ call = "jniStringFromUTF8" =>
           \A j \in 1 .. Len(str) : i < j /\ j < i + r.offset => str[j] \in Tail8
      /\ call \in FromJava =>
           \A j \in 1 .. Len(str) : i < j /\ j < i + r.offset => is_low_surrogate(str[j])
      /\ call = "jniStringFromWString" => r.offset = 1
  BY TurnFacts DEF ConvertOne
<1>2. i' = i + r.offset /\ i \in Nat \ {0} /\ call \in ToJava \cup FromJava
  BY DEF ConvertOne, TypeOK
<1> HIDE DEF r
<1>3. i' > i
  BY <1>1, <1>2
<1>4. ASSUME NEW j \in 1 .. Len(str), NEW row \in Rows, i < j, Matches(str, j, row)
      PROVE  i' <= j
  <2>1. /\ j + 1 - 1 = j
        /\ call # "jniStringFromWString" => str[j + 1 - 1] \in row[1]
    <3>1. CASE call = "jniStringFromUTF8"
      BY <1>4, <3>1, RowsBegin DEF Rows, Matches
    <3>2. CASE call \in FromJava
      <4>1. row \in Rows16
        BY <3>2 DEF Rows, FromJava
      <4> QED
        BY <1>4, <4>1, RowsBegin DEF Matches
    <3> QED
      BY <1>2, <3>1, <3>2 DEF ToJava
  <2>2. CASE call = "jniStringFromWString"
    BY <1>1, <1>2, <1>4, <2>2
  <2>3. CASE call = "jniStringFromUTF8"
    <3>1. str[j] \notin Tail8
      <4>1. row \in Rows8
        BY <2>3 DEF Rows
      <4> QED
        BY <2>1, <2>3, <4>1, RowsBegin
    <3> QED
      BY <1>1, <1>2, <1>4, <2>3, <3>1
  <2>4. CASE call \in FromJava
    <3>1. ~is_low_surrogate(str[j])
      <4>1. row \in Rows16 /\ call # "jniStringFromWString"
        BY <2>4 DEF Rows, FromJava
      <4> QED
        BY <2>1, <4>1, RowsBegin
    <3> QED
      BY <1>1, <1>2, <1>4, <2>4, <3>1
  <2> QED
    BY <1>2, <2>2, <2>3, <2>4 DEF ToJava
<1> QED
  BY <1>3, <1>4

\* A turn of the loop moves on and hides no text after it, however the string is
\* damaged.
THEOREM DamageHidesNothing == CrossSpec => NothingSwallowed
<1> DEFINE A == leg' = leg =>
                  /\ i' > i
                  /\ \A j \in 1 .. Len(str), row \in Rows :
                       i < j /\ Matches(str, j, row) => i' <= j
<1>1. CrossInv /\ [CrossNext]_vars => [A]_vars
  <2> SUFFICES ASSUME CrossInv, ConvertOne
               PROVE  A
    BY DEF CrossNext, CrossBack, CrossInv, TypeOK
  <2>1. TypeOK
    BY DEF CrossInv
  <2> QED
    BY <2>1, TurnPassesNothing
<1>2. NothingSwallowed <=> [][A]_vars
  BY DEF NothingSwallowed
<1> QED
  BY <1>1, <1>2, CrossInvariance, PTL DEF CrossSpec
-----------------------------------------------------------------------------
(* What Java is given.                                                     *)

\* Only three bytes that encode a surrogate are decoded to one.
LEMMA SurrogateSeen ==
  ASSUME NEW b0 \in Bytes, NEW b1 \in Bytes, NEW b2 \in Bytes, NEW b3 \in Bytes,
         OrReplacement(Decode8(b0, b1, b2, b3)).pt \in Surrogates
  PROVE  b0 = 237 /\ b1 \in 160 .. 191 /\ b2 \in Tail8
<1> DEFINE d == Decode8(b0, b1, b2, b3)
           r == OrReplacement(d)
           low0 == Low(b0, 16)
           low1 == Low(b1, 64)
           low2 == Low(b2, 64)
           low3 == Low(b3, 64)
<1>1. \A b \in Bytes : /\ IsContinuation(b) => b \in Tail8 /\ Low(b, 64) = b - 128
                       /\ Low(b, 64) \in 0 .. 63
                       /\ Low(b, 32) \in 0 .. 31
                       /\ b \in 224 .. 239 => Low(b, 16) = b - 224
  BY SMT DEF IsContinuation, Low, Tail8, Bytes
<1>2. /\ low1 \in 0 .. 63 /\ low2 \in 0 .. 63 /\ Low(b0, 32) \in 0 .. 31
      /\ b0 \in 224 .. 239 => low0 = b0 - 224
      /\ IsContinuation(b1) => b1 \in Tail8 /\ low1 = b1 - 128
      /\ IsContinuation(b2) => b2 \in Tail8
  BY <1>1, SMT
<1>3. \/ d = invalid_pt
      \/ d = Consumed(1, b0) /\ b0 < 128
      \/ d = Consumed(2, Low(b0, 32) * 64 + low1)
      \/ /\ d = Consumed(3, low0 * 4096 + low1 * 64 + low2)
         /\ b0 \in 224 .. 239 /\ IsContinuation(b1) /\ IsContinuation(b2)
      \/ /\ d = Consumed(4, low0 * 262144 + low1 * 4096 + low2 * 64 + low3)
         /\ low0 * 262144 + low1 * 4096 + low2 * 64 + low3 >= 65536
  BY SMT DEF Decode8
<1>4. r = IF d.offset < 0 THEN Consumed(1, Replacement) ELSE d
  BY DEF OrReplacement
<1>5. r.pt \in Nat /\ 55296 <= r.pt /\ r.pt < 57344
  BY DEF Surrogates
<1> HIDE DEF r, d, low0, low1, low2, low3
<1>6. CASE d = invalid_pt
  BY <1>4, <1>5, <1>6, SMT DEF invalid_pt, Consumed, Replacement
<1>7. CASE d = Consumed(1, b0) /\ b0 < 128
  BY <1>4, <1>5, <1>7, SMT DEF Consumed
<1>8. CASE d = Consumed(2, Low(b0, 32) * 64 + low1)
  <2>1. r.pt = Low(b0, 32) * 64 + low1
    BY <1>4, <1>8, SMT DEF Consumed
  <2> QED
    BY <1>2, <1>5, <2>1, SMT
<1>9. CASE /\ d = Consumed(3, low0 * 4096 + low1 * 64 + low2)
           /\ b0 \in 224 .. 239 /\ IsContinuation(b1) /\ IsContinuation(b2)
  <2>1. r.pt = low0 * 4096 + low1 * 64 + low2
    BY <1>4, <1>9, SMT DEF Consumed
  <2>2. /\ low0 = b0 - 224 /\ low1 = b1 - 128 /\ b1 \in Tail8 /\ b2 \in Tail8
        /\ b0 \in 224 .. 239
    BY <1>2, <1>9
  <2>3. b0 - 224 = 13
    BY <1>2, <1>5, <2>1, <2>2, SMT
  <2>4. b0 = 237 /\ 53248 + low1 * 64 + low2 >= 55296
    BY <1>5, <2>1, <2>2, <2>3, SMT
  <2>5. low1 >= 32
    BY <1>2, <2>4, SMT
  <2> QED
    BY <2>2, <2>4, <2>5, SMT DEF Tail8
<1>10. CASE /\ d = Consumed(4, low0 * 262144 + low1 * 4096 + low2 * 64 + low3)
            /\ low0 * 262144 + low1 * 4096 + low2 * 64 + low3 >= 65536
  <2>1. r.pt >= 65536
    BY <1>4, <1>10, SMT DEF Consumed
  <2> QED
    BY <1>5, <2>1, SMT
<1> QED
  BY <1>3, <1>6, <1>7, <1>8, <1>9, <1>10

EncodesNoSurrogate(s) == ~\E j \in 1 .. Len(s) : Matches(s, j, SurrogateRow)

\* In a string without an encoded surrogate, no turn of utf8_decode gives one.
LEMMA SurrogateFree8 ==
  ASSUME NEW s \in Seq(Bytes), NEW k \in 1 .. Len(s),
         EncodesNoSurrogate(s)
  PROVE  utf8_decode(s, k).pt \notin Surrogates
<1> DEFINE d0 == UnitAt(s, 0, k + 0)
           d1 == UnitAt(s, 0, k + 1)
           d2 == UnitAt(s, 0, k + 2)
           d3 == UnitAt(s, 0, k + 3)
<1>1. \A n \in Nat : UnitAt(s, 0, k + n) \in Bytes
  <2> TAKE n \in Nat
  <2>1. CASE k + n <= Len(s)
    <3>1. k + n \in 1 .. Len(s)
      BY <2>1
    <3>2. s[k + n] \in Bytes
      BY <3>1
    <3> QED
      BY <2>1, <3>2 DEF UnitAt
  <2>2. CASE ~(k + n <= Len(s))
    BY <2>2 DEF UnitAt, Bytes
  <2> QED
    BY <2>1, <2>2
<1>2. d0 \in Bytes /\ d1 \in Bytes /\ d2 \in Bytes /\ d3 \in Bytes
  BY <1>1
<1>3. utf8_decode(s, k) = OrReplacement(Decode8(d0, d1, d2, d3))
  BY DEF utf8_decode, utf8_decode_check
<1>4. /\ d0 = s[k]
      /\ d1 = IF k + 1 <= Len(s) THEN s[k + 1] ELSE 0
      /\ d2 = IF k + 2 <= Len(s) THEN s[k + 2] ELSE 0
  BY DEF UnitAt
<1> HIDE DEF d0, d1, d2, d3
<1> SUFFICES ASSUME utf8_decode(s, k).pt \in Surrogates
             PROVE  FALSE
  OBVIOUS
<1>5. d0 = 237 /\ d1 \in 160 .. 191 /\ d2 \in Tail8
  <2>1. OrReplacement(Decode8(d0, d1, d2, d3)).pt \in Surrogates
    BY <1>3
  <2> QED
    BY <1>2, <2>1, SurrogateSeen
<1>6. k + 2 <= Len(s) /\ k \in Nat /\ Len(s) \in Nat
  BY <1>4, <1>5, SMT DEF Tail8
<1>7. s[k] \in {237} /\ s[k + 1] \in 160 .. 191 /\ s[k + 2] \in Tail8
  BY <1>4, <1>5, <1>6, SMT
<1>8. /\ Len(SurrogateRow) = 3 /\ SurrogateRow[1] = {237}
      /\ SurrogateRow[2] = 160 .. 191 /\ SurrogateRow[3] = Tail8
  BY DEF SurrogateRow
<1>9. \A m \in 1 .. Len(SurrogateRow) : s[k + m - 1] \in SurrogateRow[m]
  <2> SUFFICES ASSUME NEW m \in 1 .. 3
               PROVE  s[k + m - 1] \in SurrogateRow[m]
    BY <1>8
  <2>1. \/ m = 1 /\ k + m - 1 = k
        \/ m = 2 /\ k + m - 1 = k + 1
        \/ m = 3 /\ k + m - 1 = k + 2
    BY <1>6
  <2>2. CASE m = 1 /\ k + m - 1 = k
    BY <1>7, <1>8, <2>2, Zenon
  <2>3. CASE m = 2 /\ k + m - 1 = k + 1
    BY <1>7, <1>8, <2>3, Zenon
  <2>4. CASE m = 3 /\ k + m - 1 = k + 2
    BY <1>7, <1>8, <2>4, Zenon
  <2> QED
    BY <2>1, <2>2, <2>3, <2>4
<1>10. Matches(s, k, SurrogateRow)
  BY <1>6, <1>8, <1>9 DEF Matches
<1> QED
  BY <1>10 DEF EncodesNoSurrogate

\* What utf16_encode writes for anything but a surrogate is a row of the table.
LEMMA EncodesTable16 ==
  ASSUME NEW c \in Nat, c \notin Surrogates
  PROVE  IsUtf16(utf16_encode(c))
<1>1. ASSUME NEW u \in Units16 \ Surrogates
      PROVE  IsUtf16(<<u>>)
  <2>1. <<Units16 \ Surrogates>> \in Rows16
    BY DEF Rows16
  <2>2. Len(<<u>>) = 1 /\ Len(<<Units16 \ Surrogates>>) = 1
        /\ \A k \in 1 .. 1 : <<u>>[k] \in <<Units16 \ Surrogates>>[k]
    OBVIOUS
  <2> QED
    BY <2>1, <2>2, MadeOfOne DEF IsUtf16
<1>2. CASE c < 65536
  <2>1. utf16_encode(c) = <<c>> /\ c \in Units16 \ Surrogates
    BY <1>2, SMT DEF utf16_encode, Units16
  <2> QED
    BY <1>1, <2>1
<1>3. CASE c >= 65536 /\ c < 1114112
  <2> DEFINE high == (c - 65536) \div 1024 + 55296
             low == Low(c, 1024) + 56320
  <2>1. utf16_encode(c) = <<high, low>>
    BY <1>3, SMT DEF utf16_encode
  <2>2. high \in HighSurrogates /\ low \in LowSurrogates
    BY <1>3, SMTT(30) DEF HighSurrogates, LowSurrogates, Low
  <2> HIDE DEF high, low
  <2>3. <<HighSurrogates, LowSurrogates>> \in Rows16
    BY DEF Rows16
  <2>4. /\ Len(<<high, low>>) = 2 /\ Len(<<HighSurrogates, LowSurrogates>>) = 2
        /\ \A k \in 1 .. 2 : <<high, low>>[k] \in <<HighSurrogates, LowSurrogates>>[k]
    BY <2>2
  <2> QED
    BY <2>1, <2>3, <2>4, MadeOfOne DEF IsUtf16
<1>4. CASE c >= 1114112
  <2>1. utf16_encode(c) = <<Replacement>>
    BY <1>4, SMT DEF utf16_encode
  <2>2. Replacement \in Units16 \ Surrogates
    BY SMT DEF Replacement, Units16, Surrogates
  <2> QED
    BY <1>1, <2>1, <2>2
<1> QED
  BY <1>2, <1>3, <1>4, SMT

\* What Java is given is valid UTF-16 at every turn, whatever string is sent, of
\* any length, as long as it encodes no surrogate.
THEOREM JavaTextAlwaysValid == CrossSpec => []JavaTextIsValid
<1>1. ASSUME CrossInit
      PROVE  JavaTextIsValid
  BY <1>1, MadeOfEmpty DEF CrossInit, JavaTextIsValid, IsUtf16
<1>2. ASSUME CrossInv, JavaTextIsValid, CrossNext
      PROVE  JavaTextIsValid'
  <2>1. CASE CrossBack
    <3>1. out' = <<>>
      BY <2>1 DEF CrossBack
    <3> QED
      BY <3>1, MadeOfEmpty DEF JavaTextIsValid, IsUtf16
  <2>2. CASE ConvertOne
    <3> DEFINE r == Decode(call, str, behind, i)
               e == Encode(call, r.pt)
    <3>1. UNCHANGED <<call, str>> /\ out' = out \o e /\ i <= Len(str) /\ TypeOK
      BY <1>2, <2>2 DEF ConvertOne, CrossInv
    <3> SUFFICES ASSUME call \in ToJava, SurrogateFree
                 PROVE  IsUtf16(out')
      BY <3>1 DEF JavaTextIsValid, SurrogateFree
    <3>2. /\ IsUtf16(out) /\ out \in Seq(Units16) /\ str \in Seq(ArgUnits(call))
          /\ i \in 1 .. Len(str)
      BY <1>2, <3>1 DEF JavaTextIsValid, TypeOK, ResultUnits, ToJava
    <3>3. r.pt \in Nat
      BY <3>1, TurnFacts
    <3>4. r.pt \notin Surrogates
      <4>1. CASE call = "jniStringFromUTF8"
        <5>1. r = utf8_decode(str, i) /\ str \in Seq(Bytes)
          BY <3>2, <4>1 DEF Decode, ArgUnits
        <5>2. EncodesNoSurrogate(str)
          BY <4>1 DEF SurrogateFree, EncodesNoSurrogate
        <5> HIDE DEF r
        <5> QED
          BY <3>2, <5>1, <5>2, SurrogateFree8
      <4>2. CASE call = "jniStringFromWString"
        <5>1. r.pt = str[i]
          BY <4>2 DEF Decode, Consumed
        <5> QED
          BY <3>2, <4>2, <5>1 DEF SurrogateFree
      <4> QED
        BY <4>1, <4>2 DEF ToJava
    <3>5. e = utf16_encode(r.pt)
      BY DEF Encode
    <3> HIDE DEF r, e
    <3>6. e \in Seq(Units16) /\ IsUtf16(e)
      BY <3>3, <3>4, <3>5, Encodes16, EncodesTable16
    <3>7. \A row \in Rows16 : Len(row) \in Nat
      BY RowsBegin
    <3>8. MadeOf(out \o e, Rows16)
      BY <3>2, <3>6, <3>7, MadeOfAppended DEF IsUtf16
    <3> QED
      BY <3>1, <3>8 DEF IsUtf16
  <2> QED
    BY <1>2, <2>1, <2>2 DEF CrossNext
<1>3. ASSUME JavaTextIsValid, UNCHANGED vars
      PROVE  JavaTextIsValid'
  BY <1>3 DEF vars, JavaTextIsValid, SurrogateFree
<1> QED
  BY <1>1, <1>2, <1>3, CrossInvariance, PTL DEF CrossSpec
-----------------------------------------------------------------------------
(* Text that comes back.                                                   *)
(*                                                                         *)
(* Well-formed text is a sequence of codepoints spelt in an encoding.  The *)
(* invariant keeps that sequence: on the way there, the part of the text   *)
(* that was consumed and the result so far spell the same codepoints; on   *)
(* the way back, the result is the text up to the place of the codepoint   *)
(* that is read next.                                                      *)

Scalars == {c \in Codepoints : IsScalar(c)}

\* The arithmetic of the table's rows: each is what utf8_encode writes for some
\* scalar value.
LEMMA Spelling2 ==
  ASSUME NEW x \in 194 .. 223, NEW y \in Tail8
  PROVE  \E c \in Scalars : utf8_encode(c) = <<x, y>>
<1> DEFINE c == (x - 192) * 64 + (y - 128)
<1>1. x \in Nat /\ 194 <= x /\ x <= 223 /\ y \in Nat /\ 128 <= y /\ y <= 191
  BY DEF Tail8
<1>2. c \in Nat /\ 128 <= c /\ c < 2048
  BY <1>1, SMT
<1>3. c \div 64 = x - 192 /\ c % 64 = y - 128
  BY <1>1, SMT
<1> HIDE DEF c
<1>4. utf8_encode(c) = <<c \div 64 + 192, Low(c, 64) + 128>>
  BY <1>2, SMT DEF utf8_encode
<1>5. c \div 64 + 192 = x /\ Low(c, 64) + 128 = y
  BY <1>1, <1>3, SMT DEF Low
<1>6. c \in Scalars
  BY <1>2, SMT DEF Scalars, IsScalar, Codepoints, Surrogates
<1> QED
  BY <1>4, <1>5, <1>6

LEMMA Spelling3 ==
  ASSUME NEW x \in 224 .. 239, NEW y \in Tail8, NEW z \in Tail8,
         x = 224 => y >= 160, x = 237 => y <= 159
  PROVE  \E c \in Scalars : utf8_encode(c) = <<x, y, z>>
<1> DEFINE c == (x - 224) * 4096 + (y - 128) * 64 + (z - 128)
<1>1. /\ x \in Nat /\ 224 <= x /\ x <= 239 /\ y \in Nat /\ 128 <= y /\ y <= 191
      /\ z \in Nat /\ 128 <= z /\ z <= 191
  BY DEF Tail8
<1>2. c \in Nat /\ 2048 <= c /\ c < 65536
  BY <1>1, SMT
<1>3. c < 55296 \/ 57344 <= c
  BY <1>1, SMT
<1>4. c \div 4096 = x - 224 /\ c \div 64 = (x - 224) * 64 + (y - 128) /\ c % 64 = z - 128
  BY <1>1, SMT
<1> HIDE DEF c
<1>5. (c \div 64) % 64 = y - 128
  BY <1>1, <1>4, SMT
<1>6. utf8_encode(c) = <<c \div 4096 + 224, Low(c \div 64, 64) + 128, Low(c, 64) + 128>>
  BY <1>2, SMT DEF utf8_encode
<1>7. c \div 4096 + 224 = x /\ Low(c \div 64, 64) + 128 = y /\ Low(c, 64) + 128 = z
  BY <1>1, <1>4, <1>5, SMT DEF Low
<1>8. c \in Scalars
  BY <1>2, <1>3, SMT DEF Scalars, IsScalar, Codepoints, Surrogates
<1> QED
  BY <1>6, <1>7, <1>8

LEMMA Spelling4 ==
  ASSUME NEW x \in 240 .. 244, NEW y \in Tail8, NEW z \in Tail8, NEW w \in Tail8,
         x = 240 => y >= 144, x = 244 => y <= 143
  PROVE  \E c \in Scalars : utf8_encode(c) = <<x, y, z, w>>
<1> DEFINE c == (x - 240) * 262144 + (y - 128) * 4096 + (z - 128) * 64 + (w - 128)
<1>1. /\ x \in Nat /\ 240 <= x /\ x <= 244 /\ y \in Nat /\ 128 <= y /\ y <= 191
      /\ z \in Nat /\ 128 <= z /\ z <= 191 /\ w \in Nat /\ 128 <= w /\ w <= 191
  BY DEF Tail8
<1>2. c \in Nat /\ 65536 <= c /\ c < 1114112
  BY <1>1, SMT
<1>3. /\ c \div 262144 = x - 240 /\ c \div 4096 = (x - 240) * 64 + (y - 128)
      /\ c \div 64 = ((x - 240) * 64 + (y - 128)) * 64 + (z - 128) /\ c % 64 = w - 128
  BY <1>1, SMTT(30)
<1> HIDE DEF c
<1>4. (c \div 4096) % 64 = y - 128 /\ (c \div 64) % 64 = z - 128
  BY <1>1, <1>3, SMT
<1>5. utf8_encode(c) = <<c \div 262144 + 240, Low(c \div 4096, 64) + 128,
                         Low(c \div 64, 64) + 128, Low(c, 64) + 128>>
  BY <1>2, SMT DEF utf8_encode
<1>6. /\ c \div 262144 + 240 = x /\ Low(c \div 4096, 64) + 128 = y
      /\ Low(c \div 64, 64) + 128 = z /\ Low(c, 64) + 128 = w
  BY <1>1, <1>3, <1>4, SMT DEF Low
<1>7. c \in Scalars
  BY <1>2, SMT DEF Scalars, IsScalar, Codepoints, Surrogates
<1> QED
  BY <1>5, <1>6, <1>7

\* The units of s from k on are e.
Stands(s, k, e) ==
  k + Len(e) - 1 <= Len(s) /\ \A m \in 1 .. Len(e) : s[k + m - 1] = e[m]

\* The units that a row matches, by name.
LEMMA MatchFacts ==
  ASSUME NEW s, NEW k \in Nat, NEW row, Len(row) \in 1 .. 4, Matches(s, k, row)
  PROVE  /\ s[k] \in row[1]
         /\ Len(row) >= 2 => s[k + 1] \in row[2]
         /\ Len(row) >= 3 => s[k + 2] \in row[3]
         /\ Len(row) >= 4 => s[k + 3] \in row[4]
<1>1. \A m \in 1 .. Len(row) : s[k + m - 1] \in row[m]
  BY DEF Matches
<1>2. k + 1 - 1 = k /\ k + 2 - 1 = k + 1 /\ k + 3 - 1 = k + 2 /\ k + 4 - 1 = k + 3
  OBVIOUS
<1>3. /\ 1 \in 1 .. Len(row) /\ (Len(row) >= 2 => 2 \in 1 .. Len(row))
      /\ (Len(row) >= 3 => 3 \in 1 .. Len(row)) /\ (Len(row) >= 4 => 4 \in 1 .. Len(row))
  OBVIOUS
<1>4. s[k] \in row[1]
  BY <1>1, <1>2, <1>3
<1>5. Len(row) >= 2 => s[k + 1] \in row[2]
  BY <1>1, <1>2, <1>3
<1>6. Len(row) >= 3 => s[k + 2] \in row[3]
  BY <1>1, <1>2, <1>3
<1>7. Len(row) >= 4 => s[k + 3] \in row[4]
  BY <1>1, <1>2, <1>3
<1> QED
  BY <1>4, <1>5, <1>6, <1>7


\* One to four units of a string.
LEMMA Stand ==
  ASSUME NEW s, NEW k \in Nat, Len(s) \in Nat
  PROVE  /\ k <= Len(s) => Stands(s, k, <<s[k]>>)
         /\ k + 1 <= Len(s) => Stands(s, k, <<s[k], s[k + 1]>>)
         /\ k + 2 <= Len(s) => Stands(s, k, <<s[k], s[k + 1], s[k + 2]>>)
         /\ k + 3 <= Len(s) => Stands(s, k, <<s[k], s[k + 1], s[k + 2], s[k + 3]>>)
<1> DEFINE a == s[k]
           b == s[k + 1]
           c == s[k + 2]
           d == s[k + 3]
<1>1. s[k] = a /\ s[k + 1] = b /\ s[k + 2] = c /\ s[k + 3] = d
  OBVIOUS
<1> SUFFICES /\ k <= Len(s) => Stands(s, k, <<a>>)
             /\ k + 1 <= Len(s) => Stands(s, k, <<a, b>>)
             /\ k + 2 <= Len(s) => Stands(s, k, <<a, b, c>>)
             /\ k + 3 <= Len(s) => Stands(s, k, <<a, b, c, d>>)
  OBVIOUS
<1> HIDE DEF a, b, c, d
<1>2. Len(<<a>>) = 1 /\ <<a>>[1] = a
  OBVIOUS
<1>3. Len(<<a, b>>) = 2 /\ <<a, b>>[1] = a /\ <<a, b>>[2] = b
  OBVIOUS
<1>4. Len(<<a, b, c>>) = 3 /\ <<a, b, c>>[1] = a /\ <<a, b, c>>[2] = b /\ <<a, b, c>>[3] = c
  OBVIOUS
<1>5. /\ Len(<<a, b, c, d>>) = 4 /\ <<a, b, c, d>>[1] = a /\ <<a, b, c, d>>[2] = b
      /\ <<a, b, c, d>>[3] = c /\ <<a, b, c, d>>[4] = d
  OBVIOUS
<1>7. ASSUME k <= Len(s) PROVE Stands(s, k, <<a>>)
  <2> DEFINE e == <<a>>
  <2>1. Len(e) = 1 /\ e[1] = a
    BY <1>2
  <2> HIDE DEF e
  <2>2. ASSUME NEW m \in 1 .. 1
        PROVE  s[k + m - 1] = e[m]
    <3>1. m = 1 /\ k + m - 1 = k
      BY SMT
    <3> QED
      BY <1>1, <2>1, <3>1, Zenon
  <2>3. k + Len(e) - 1 <= Len(s)
    BY <1>7, <2>1
  <2>4. Stands(s, k, e)
    BY <2>1, <2>2, <2>3 DEF Stands
  <2> QED
    BY <2>4 DEF e
<1>8. ASSUME k + 1 <= Len(s) PROVE Stands(s, k, <<a, b>>)
  <2> DEFINE e == <<a, b>>
  <2>1. Len(e) = 2 /\ e[1] = a /\ e[2] = b
    BY <1>3
  <2> HIDE DEF e
  <2>2. ASSUME NEW m \in 1 .. 2
        PROVE  s[k + m - 1] = e[m]
    <3>1. \/ m = 1 /\ k + m - 1 = k
          \/ m = 2 /\ k + m - 1 = k + 1
      BY SMT
    <3> QED
      BY <1>1, <2>1, <3>1, Zenon
  <2>3. k + Len(e) - 1 <= Len(s)
    BY <1>8, <2>1
  <2>4. Stands(s, k, e)
    BY <2>1, <2>2, <2>3 DEF Stands
  <2> QED
    BY <2>4 DEF e
<1>9. ASSUME k + 2 <= Len(s) PROVE Stands(s, k, <<a, b, c>>)
  <2> DEFINE e == <<a, b, c>>
  <2>1. Len(e) = 3 /\ e[1] = a /\ e[2] = b /\ e[3] = c
    BY <1>4
  <2> HIDE DEF e
  <2>2. ASSUME NEW m \in 1 .. 3
        PROVE  s[k + m - 1] = e[m]
    <3>1. \/ m = 1 /\ k + m - 1 = k
          \/ m = 2 /\ k + m - 1 = k + 1
          \/ m = 3 /\ k + m - 1 = k + 2
      BY SMT
    <3> QED
      BY <1>1, <2>1, <3>1, Zenon
  <2>3. k + Len(e) - 1 <= Len(s)
    BY <1>9, <2>1
  <2>4. Stands(s, k, e)
    BY <2>1, <2>2, <2>3 DEF Stands
  <2> QED
    BY <2>4 DEF e
<1>10. ASSUME k + 3 <= Len(s) PROVE Stands(s, k, <<a, b, c, d>>)
  <2> DEFINE e == <<a, b, c, d>>
  <2>1. Len(e) = 4 /\ e[1] = a /\ e[2] = b /\ e[3] = c /\ e[4] = d
    BY <1>5
  <2> HIDE DEF e
  <2>2. ASSUME NEW m \in 1 .. 4
        PROVE  s[k + m - 1] = e[m]
    <3>1. \/ m = 1 /\ k + m - 1 = k
          \/ m = 2 /\ k + m - 1 = k + 1
          \/ m = 3 /\ k + m - 1 = k + 2
          \/ m = 4 /\ k + m - 1 = k + 3
      BY SMT
    <3> QED
      BY <1>1, <2>1, <3>1, Zenon
  <2>3. k + Len(e) - 1 <= Len(s)
    BY <1>10, <2>1
  <2>4. Stands(s, k, e)
    BY <2>1, <2>2, <2>3 DEF Stands
  <2> QED
    BY <2>4 DEF e
<1> QED
  BY <1>7, <1>8, <1>9, <1>10

\* A row of two to four sets that is given by its parts.
LEMMA RowParts ==
  ASSUME NEW A, NEW B, NEW C, NEW D
  PROVE  /\ Len(<<A>>) = 1 /\ <<A>>[1] = A
         /\ Len(<<A, B>>) = 2 /\ <<A, B>>[1] = A /\ <<A, B>>[2] = B
         /\ Len(<<A, B, C>>) = 3 /\ <<A, B, C>>[1] = A /\ <<A, B, C>>[2] = B
         /\ <<A, B, C>>[3] = C
         /\ Len(<<A, B, C, D>>) = 4 /\ <<A, B, C, D>>[1] = A /\ <<A, B, C, D>>[2] = B
         /\ <<A, B, C, D>>[3] = C /\ <<A, B, C, D>>[4] = D
OBVIOUS

\* Where a row of the UTF-8 table matches stands what utf8_encode writes for some
\* scalar value.
LEMMA RowSpells8 ==
  ASSUME NEW s \in Seq(Bytes), NEW k \in Nat, NEW row \in Rows8, Matches(s, k, row)
  PROVE  \E c \in Scalars : Len(utf8_encode(c)) = Len(row) /\ Stands(s, k, utf8_encode(c))
<1> DEFINE x == s[k]
           y == s[k + 1]
           z == s[k + 2]
           w == s[k + 3]
<1>1. /\ Len(row) \in 1 .. 4 /\ k + Len(row) - 1 <= Len(s) /\ Len(s) \in Nat
      /\ x \in row[1]
      /\ Len(row) >= 2 => y \in row[2]
      /\ Len(row) >= 3 => z \in row[3]
      /\ Len(row) >= 4 => w \in row[4]
  BY RowsBegin, MatchFacts DEF Matches
<1>2. /\ k <= Len(s) => Stands(s, k, <<x>>)
      /\ k + 1 <= Len(s) => Stands(s, k, <<x, y>>)
      /\ k + 2 <= Len(s) => Stands(s, k, <<x, y, z>>)
      /\ k + 3 <= Len(s) => Stands(s, k, <<x, y, z, w>>)
  <2>1. Len(s) \in Nat
    OBVIOUS
  <2> QED
    BY <2>1, Stand, Zenon
<1> HIDE DEF x, y, z, w
<1>3. /\ Len(<<x>>) = 1 /\ Len(<<x, y>>) = 2 /\ Len(<<x, y, z>>) = 3
      /\ Len(<<x, y, z, w>>) = 4
  BY RowParts
<1>4. ASSUME NEW A, row = <<A>>
      PROVE  Len(row) = 1 /\ x \in A /\ k <= Len(s)
  BY <1>1, <1>4, RowParts
<1>5. ASSUME NEW A, NEW B, row = <<A, B>>
      PROVE  Len(row) = 2 /\ x \in A /\ y \in B /\ k + 1 <= Len(s)
  BY <1>1, <1>5, RowParts
<1>6. ASSUME NEW A, NEW B, NEW C, row = <<A, B, C>>
      PROVE  Len(row) = 3 /\ x \in A /\ y \in B /\ z \in C /\ k + 2 <= Len(s)
  BY <1>1, <1>6, RowParts
<1>7. ASSUME NEW A, NEW B, NEW C, NEW D, row = <<A, B, C, D>>
      PROVE  Len(row) = 4 /\ x \in A /\ y \in B /\ z \in C /\ w \in D /\ k + 3 <= Len(s)
  BY <1>1, <1>7, RowParts
<1>8. CASE row = <<0 .. 127>>
  <2>1. Len(row) = 1 /\ x \in 0 .. 127 /\ k <= Len(s)
    BY <1>4, <1>8
  <2>2. x \in Scalars /\ utf8_encode(x) = <<x>>
    BY <2>1, SMT DEF Scalars, IsScalar, Codepoints, Surrogates, utf8_encode
  <2> QED
    BY <1>2, <1>3, <2>1, <2>2
<1>9. CASE row = <<194 .. 223, Tail8>>
  <2>1. Len(row) = 2 /\ x \in 194 .. 223 /\ y \in Tail8 /\ k + 1 <= Len(s)
    BY <1>5, <1>9
  <2>2. PICK c \in Scalars : utf8_encode(c) = <<x, y>>
    BY <2>1, Spelling2
  <2> QED
    BY <1>2, <1>3, <2>1, <2>2
<1>10. ASSUME Len(row) = 3, x \in 224 .. 239, y \in Tail8, z \in Tail8,
              x = 224 => y >= 160, x = 237 => y <= 159, k + 2 <= Len(s)
       PROVE  \E c \in Scalars : Len(utf8_encode(c)) = Len(row) /\ Stands(s, k, utf8_encode(c))
  <2>1. PICK c \in Scalars : utf8_encode(c) = <<x, y, z>>
    BY <1>10, Spelling3
  <2> QED
    BY <1>2, <1>3, <1>10, <2>1
<1>11. CASE row = <<{224}, 160 .. 191, Tail8>>
  <2>1. Len(row) = 3 /\ x \in {224} /\ y \in 160 .. 191 /\ z \in Tail8 /\ k + 2 <= Len(s)
    BY <1>6, <1>11
  <2>2. x \in 224 .. 239 /\ x # 237 /\ y \in Tail8 /\ y >= 160
    BY <2>1, SMT DEF Tail8
  <2> QED
    BY <1>10, <2>1, <2>2
<1>12. CASE row = <<225 .. 236, Tail8, Tail8>>
  <2>1. Len(row) = 3 /\ x \in 225 .. 236 /\ y \in Tail8 /\ z \in Tail8 /\ k + 2 <= Len(s)
    BY <1>6, <1>12
  <2>2. x \in 224 .. 239 /\ x # 224 /\ x # 237
    BY <2>1, SMT
  <2> QED
    BY <1>10, <2>1, <2>2
<1>13. CASE row = <<{237}, 128 .. 159, Tail8>>
  <2>1. Len(row) = 3 /\ x \in {237} /\ y \in 128 .. 159 /\ z \in Tail8 /\ k + 2 <= Len(s)
    BY <1>6, <1>13
  <2>2. x \in 224 .. 239 /\ x # 224 /\ y \in Tail8 /\ y <= 159
    BY <2>1, SMT DEF Tail8
  <2> QED
    BY <1>10, <2>1, <2>2
<1>14. CASE row = <<238 .. 239, Tail8, Tail8>>
  <2>1. Len(row) = 3 /\ x \in 238 .. 239 /\ y \in Tail8 /\ z \in Tail8 /\ k + 2 <= Len(s)
    BY <1>6, <1>14
  <2>2. x \in 224 .. 239 /\ x # 224 /\ x # 237
    BY <2>1, SMT
  <2> QED
    BY <1>10, <2>1, <2>2
<1>15. ASSUME Len(row) = 4, x \in 240 .. 244, y \in Tail8, z \in Tail8, w \in Tail8,
              x = 240 => y >= 144, x = 244 => y <= 143, k + 3 <= Len(s)
       PROVE  \E c \in Scalars : Len(utf8_encode(c)) = Len(row) /\ Stands(s, k, utf8_encode(c))
  <2>1. PICK c \in Scalars : utf8_encode(c) = <<x, y, z, w>>
    BY <1>15, Spelling4
  <2> QED
    BY <1>2, <1>3, <1>15, <2>1
<1>16. CASE row = <<{240}, 144 .. 191, Tail8, Tail8>>
  <2>1. /\ Len(row) = 4 /\ x \in {240} /\ y \in 144 .. 191 /\ z \in Tail8 /\ w \in Tail8
        /\ k + 3 <= Len(s)
    BY <1>7, <1>16
  <2>2. x \in 240 .. 244 /\ x # 244 /\ y \in Tail8 /\ y >= 144
    BY <2>1, SMT DEF Tail8
  <2> QED
    BY <1>15, <2>1, <2>2
<1>17. CASE row = <<241 .. 243, Tail8, Tail8, Tail8>>
  <2>1. /\ Len(row) = 4 /\ x \in 241 .. 243 /\ y \in Tail8 /\ z \in Tail8 /\ w \in Tail8
        /\ k + 3 <= Len(s)
    BY <1>7, <1>17
  <2>2. x \in 240 .. 244 /\ x # 240 /\ x # 244
    BY <2>1, SMT
  <2> QED
    BY <1>15, <2>1, <2>2
<1>18. CASE row = <<{244}, 128 .. 143, Tail8, Tail8>>
  <2>1. /\ Len(row) = 4 /\ x \in {244} /\ y \in 128 .. 143 /\ z \in Tail8 /\ w \in Tail8
        /\ k + 3 <= Len(s)
    BY <1>7, <1>18
  <2>2. x \in 240 .. 244 /\ x # 240 /\ y \in Tail8 /\ y <= 143
    BY <2>1, SMT DEF Tail8
  <2> QED
    BY <1>15, <2>1, <2>2
<1>19. \/ row = <<0 .. 127>> \/ row = <<194 .. 223, Tail8>>
       \/ row = <<{224}, 160 .. 191, Tail8>> \/ row = <<225 .. 236, Tail8, Tail8>>
       \/ row = <<{237}, 128 .. 159, Tail8>> \/ row = <<238 .. 239, Tail8, Tail8>>
       \/ row = <<{240}, 144 .. 191, Tail8, Tail8>>
       \/ row = <<241 .. 243, Tail8, Tail8, Tail8>>
       \/ row = <<{244}, 128 .. 143, Tail8, Tail8>>
  BY Zenon DEF Rows8
<1> QED
  BY <1>8, <1>9, <1>11, <1>12, <1>13, <1>14, <1>16, <1>17, <1>18, <1>19, Zenon

\* Where a row of the UTF-16 table matches stands what utf16_encode writes for
\* some scalar value.
LEMMA RowSpells16 ==
  ASSUME NEW s \in Seq(Units16), NEW k \in Nat, NEW row \in Rows16, Matches(s, k, row)
  PROVE  \E c \in Scalars : Len(utf16_encode(c)) = Len(row) /\ Stands(s, k, utf16_encode(c))
<1> DEFINE x == s[k]
           y == s[k + 1]
<1>1. /\ Len(row) \in 1 .. 4 /\ k + Len(row) - 1 <= Len(s) /\ Len(s) \in Nat
      /\ x \in row[1]
      /\ Len(row) >= 2 => y \in row[2]
  <2>1. Len(row) \in 1 .. 2
    BY RowsBegin
  <2>2. Len(row) \in 1 .. 4
    BY <2>1
  <2> QED
    BY <2>2, MatchFacts DEF Matches
<1>2. /\ k <= Len(s) => Stands(s, k, <<x>>)
      /\ k + 1 <= Len(s) => Stands(s, k, <<x, y>>)
  BY <1>1, Stand, Zenon
<1> HIDE DEF x, y
<1>3. Len(<<x>>) = 1 /\ Len(<<x, y>>) = 2
  BY RowParts
<1>4. CASE row = <<Units16 \ Surrogates>>
  <2>1. Len(row) = 1 /\ x \in Units16 \ Surrogates /\ k <= Len(s)
    BY <1>1, <1>4, RowParts
  <2>2. x \in Scalars /\ utf16_encode(x) = <<x>>
    BY <2>1, SMT DEF Scalars, IsScalar, Codepoints, Units16, utf16_encode
  <2> QED
    BY <1>2, <1>3, <2>1, <2>2
<1>5. CASE row = <<HighSurrogates, LowSurrogates>>
  <2> DEFINE c == (x - 55296) * 1024 + (y - 56320) + 65536
  <2>1. Len(row) = 2 /\ x \in HighSurrogates /\ y \in LowSurrogates /\ k + 1 <= Len(s)
    BY <1>1, <1>5, RowParts
  <2>2. /\ x \in Nat /\ 55296 <= x /\ x < 56320
        /\ y \in Nat /\ 56320 <= y /\ y < 57344
    BY <2>1, SMT DEF HighSurrogates, LowSurrogates
  <2>3. c \in Nat /\ 65536 <= c /\ c < 1114112
    BY <2>2, SMT
  <2>4. (c - 65536) \div 1024 = x - 55296 /\ c % 1024 = y - 56320
    BY <2>2, SMTT(30)
  <2> HIDE DEF c
  <2>5. c \in Scalars
    BY <2>3, SMT DEF Scalars, IsScalar, Codepoints, Surrogates
  <2>6. utf16_encode(c) = <<(c - 65536) \div 1024 + 55296, Low(c, 1024) + 56320>>
    BY <2>3, SMT DEF utf16_encode
  <2>7. (c - 65536) \div 1024 + 55296 = x /\ Low(c, 1024) + 56320 = y
    BY <2>2, <2>4, SMT DEF Low
  <2>8. utf16_encode(c) = <<x, y>>
    BY <2>6, <2>7
  <2> QED
    BY <1>2, <1>3, <2>1, <2>5, <2>8
<1> QED
  BY <1>4, <1>5 DEF Rows16
-----------------------------------------------------------------------------
\* The table and the well-formed text of a function's argument.
RowsOf(f) == IF f = "jniStringFromUTF8" THEN Rows8
             ELSE IF f \in FromJava THEN Rows16 ELSE {<<Nat>>}
IsTextOf(f, s) == IF f = "jniStringFromUTF8" THEN IsUtf8(s)
                  ELSE IF f \in FromJava THEN IsUtf16(s) ELSE IsUtf32(s)

\* What spells a codepoint in a function's argument is what the function of the
\* way back writes for it.
Spelling(f, c) == Encode(WayBack[f], c)

LEMMA WayBackCases ==
  ASSUME NEW f \in ToJava \cup FromJava
  PROVE  /\ WayBack[WayBack[f]] = f
         /\ \/ /\ f = "jniStringFromUTF8" /\ f \notin FromJava
               /\ \A c : Spelling(f, c) = utf8_encode(c)
            \/ /\ f = "jniStringFromWString" /\ f \notin FromJava /\ f # "jniStringFromUTF8"
               /\ \A c : Spelling(f, c) = <<c>>
            \/ /\ f \in FromJava /\ f # "jniStringFromUTF8" /\ f # "jniStringFromWString"
               /\ \A c : Spelling(f, c) = utf16_encode(c)
BY Zenon DEF WayBack, ToJava, FromJava, Spelling, Encode

\* A unit of a well-formed text belongs to a row of the table.
LEMMA Covered ==
  ASSUME NEW f \in ToJava \cup FromJava, NEW s \in Seq(ArgUnits(f)), IsTextOf(f, s),
         NEW n \in 1 .. Len(s)
  PROVE  \E row \in RowsOf(f), j \in 1 .. n : Matches(s, j, row) /\ n < j + Len(row)
<1>1. CASE f = "jniStringFromUTF8"
  BY <1>1 DEF IsTextOf, RowsOf, IsUtf8, MadeOf
<1>2. CASE f \in FromJava
  <2>1. f # "jniStringFromUTF8"
    BY <1>2 DEF FromJava
  <2> QED
    BY <1>2, <2>1 DEF IsTextOf, RowsOf, IsUtf16, MadeOf
<1>3. CASE f = "jniStringFromWString"
  <2>1. RowsOf(f) = {<<Nat>>} /\ s \in Seq(Nat)
    BY <1>3 DEF RowsOf, FromJava, ArgUnits
  <2>2. Len(<<Nat>>) = 1 /\ <<Nat>>[1] = Nat
    BY RowParts
  <2>3. s[n] \in Nat /\ n + 1 - 1 = n
    BY <2>1
  <2>4. Matches(s, n, <<Nat>>)
    BY <2>2, <2>3 DEF Matches
  <2>5. n \in 1 .. n /\ n < n + Len(<<Nat>>)
    BY <2>2
  <2> QED
    BY <2>1, <2>4, <2>5
<1> QED
  BY <1>1, <1>2, <1>3 DEF ToJava

\* Where a row matches in a well-formed text, a scalar value is spelt, in as many
\* units as the row has.
LEMMA RowSpells ==
  ASSUME NEW f \in ToJava \cup FromJava, NEW s \in Seq(ArgUnits(f)), IsTextOf(f, s),
         NEW k \in 1 .. Len(s), NEW row \in RowsOf(f), Matches(s, k, row)
  PROVE  \E c \in Scalars : Len(Spelling(f, c)) = Len(row) /\ Stands(s, k, Spelling(f, c))
<1>1. CASE /\ f = "jniStringFromUTF8"
           /\ \A c : Spelling(f, c) = utf8_encode(c)
  <2>1. s \in Seq(Bytes) /\ row \in Rows8 /\ k \in Nat
    BY <1>1 DEF ArgUnits, RowsOf
  <2>2. \E c \in Scalars : Len(utf8_encode(c)) = Len(row) /\ Stands(s, k, utf8_encode(c))
    BY <2>1, RowSpells8
  <2> QED
    BY <1>1, <2>2, Zenon
<1>2. CASE /\ f = "jniStringFromWString"
           /\ \A c : Spelling(f, c) = <<c>>
  <2>1. /\ RowsOf(f) = {<<Nat>>} /\ s \in Seq(Nat) /\ IsUtf32(s)
        /\ f # "jniStringFromUTF8"
    BY <1>2 DEF RowsOf, IsTextOf, FromJava, ArgUnits
  <2>2. Len(row) = 1 /\ Len(<<s[k]>>) = 1
    BY <2>1, RowParts
  <2>3. IsScalar(s[k]) /\ s[k] \in Scalars
    BY <2>1 DEF IsUtf32, Scalars, IsScalar
  <2>4. k \in Nat /\ Len(s) \in Nat /\ k <= Len(s)
    OBVIOUS
  <2>5. Stands(s, k, <<s[k]>>)
    BY <2>4, Stand, Zenon
  <2> QED
    BY <1>2, <2>2, <2>3, <2>5, Zenon
<1>3. CASE /\ f \in FromJava /\ f # "jniStringFromUTF8" /\ f # "jniStringFromWString"
           /\ \A c : Spelling(f, c) = utf16_encode(c)
  <2>1. s \in Seq(Units16) /\ row \in Rows16 /\ k \in Nat
    BY <1>3 DEF ArgUnits, RowsOf
  <2>2. \E c \in Scalars : Len(utf16_encode(c)) = Len(row) /\ Stands(s, k, utf16_encode(c))
    BY <2>1, RowSpells16
  <2> QED
    BY <1>3, <2>2, Zenon
<1> QED
  BY <1>1, <1>2, <1>3, WayBackCases

\* What a function writes for a scalar value: one to four of its units.
LEMMA SpellingFacts ==
  ASSUME NEW f \in ToJava \cup FromJava, NEW c \in Scalars
  PROVE  /\ Encode(f, c) \in Seq(ResultUnits(f))
         /\ Len(Encode(f, c)) \in 1 .. 4
<1>1. c \in Nat /\ IsScalar(c) /\ c < 1114112
  BY DEF Scalars, Codepoints
<1>2. Encode(f, c) \in Seq(ResultUnits(f))
  BY <1>1, EncodeFacts
<1>3. CASE f \in ToJava
  <2>1. Len(utf16_encode(c)) \in 1 .. 2
    BY <1>1, Encodes16
  <2>2. Encode(f, c) = utf16_encode(c)
    BY <1>3 DEF Encode
  <2>3. Len(Encode(f, c)) \in 1 .. 4
    BY <2>1, <2>2
  <2> QED
    BY <1>2, <2>3
<1>4. CASE f = "jniUTF8FromString"
  <2>1. Encode(f, c) = utf8_encode(c)
    BY <1>4 DEF Encode, ToJava
  <2>2. Len(utf8_encode(c)) \in 1 .. 4
    BY <1>1, SMT DEF utf8_encode
  <2> QED
    BY <1>2, <2>1, <2>2
<1>5. CASE f = "jniWStringFromString"
  <2>1. Encode(f, c) = <<c>>
    BY <1>5 DEF Encode, ToJava
  <2> QED
    BY <1>2, <2>1, RowParts
<1> QED
  BY <1>3, <1>4, <1>5 DEF FromJava

\* A function reads a scalar value where it is spelt, whatever stands beside it.
LEMMA SpellingRead ==
  ASSUME NEW f \in ToJava \cup FromJava, NEW s \in Seq(ArgUnits(f)), NEW b \in Units16,
         NEW k \in Nat \ {0}, NEW c \in Scalars, Stands(s, k, Spelling(f, c))
  PROVE  Decode(f, s, b, k) = Consumed(Len(Spelling(f, c)), c)
<1>1. c \in Codepoints /\ c \notin Surrogates /\ c \in Nat
  BY DEF Scalars, IsScalar, Codepoints
<1>2. \A n \in Nat : Consumed(n, c).offset = n
  BY DEF Consumed
<1>3. CASE /\ f = "jniStringFromUTF8"
           /\ \A d : Spelling(f, d) = utf8_encode(d)
  <2>1. s \in Seq(Bytes) /\ Decode(f, s, b, k) = OrReplacement(utf8_decode_check(s, k))
    BY <1>3 DEF ArgUnits, Decode, utf8_decode
  <2>2. Stands(s, k, utf8_encode(c)) /\ Len(utf8_encode(c)) \in 1 .. 4
    BY <1>3, SpellingFacts, WayBackFacts DEF Spelling
  <2>3. utf8_decode_check(s, k) = Consumed(Len(utf8_encode(c)), c)
    BY <1>1, <2>1, <2>2, Utf8RoundTrip DEF Stands
  <2> QED
    BY <1>2, <1>3, <2>1, <2>2, <2>3 DEF OrReplacement
<1>4. CASE /\ f = "jniStringFromWString" /\ f # "jniStringFromUTF8"
           /\ \A d : Spelling(f, d) = <<d>>
  <2>1. Decode(f, s, b, k) = Consumed(1, s[k])
    BY <1>4 DEF Decode
  <2>2. Len(<<c>>) = 1 /\ <<c>>[1] = c /\ k + 1 - 1 = k
    OBVIOUS
  <2>3. s[k] = c
    BY <1>4, <2>2 DEF Stands
  <2> QED
    BY <1>4, <2>1, <2>2, <2>3
<1>5. CASE /\ f \in FromJava /\ f # "jniStringFromUTF8" /\ f # "jniStringFromWString"
           /\ \A d : Spelling(f, d) = utf16_encode(d)
  <2>1. /\ s \in Seq(Units16)
        /\ Decode(f, s, b, k) = OrReplacement(utf16_decode_check(s, b, k))
    BY <1>5 DEF ArgUnits, Decode, utf16_decode
  <2>2. Stands(s, k, utf16_encode(c)) /\ Len(utf16_encode(c)) \in 1 .. 4
    BY <1>5, SpellingFacts, WayBackFacts DEF Spelling
  <2>3. utf16_decode_check(s, b, k) = Consumed(Len(utf16_encode(c)), c)
    BY <1>1, <2>1, <2>2, Utf16RoundTrip DEF Stands
  <2> QED
    BY <1>2, <1>5, <2>1, <2>2, <2>3 DEF OrReplacement
<1> QED
  BY <1>3, <1>4, <1>5, WayBackCases
-----------------------------------------------------------------------------
\* In s stands, from its first unit on, what f writes for the codepoints cs, each
\* at its place in p; the last place is where the next one would stand.
Spelt(f, s, cs, p) ==
  /\ p \in [1 .. Len(cs) + 1 -> Nat \ {0}]
  /\ p[1] = 1
  /\ \A k \in 1 .. Len(cs) : /\ Stands(s, p[k], Encode(f, cs[k]))
                             /\ p[k + 1] = p[k] + Len(Encode(f, cs[k]))

LEMMA SpeltNothing ==
  ASSUME NEW f, NEW s
  PROVE  Spelt(f, s, <<>>, [n \in 1 .. 1 |-> 1])
<1>1. Len(<<>>) = 0
  OBVIOUS
<1> QED
  BY <1>1 DEF Spelt

\* One more codepoint, which stands where the next one is due.
LEMMA SpeltMore ==
  ASSUME NEW f \in ToJava \cup FromJava, NEW s, NEW cs \in Seq(Scalars), NEW p,
         Spelt(f, s, cs, p), NEW c \in Scalars,
         Stands(s, p[Len(cs) + 1], Encode(f, c))
  PROVE  \E r : /\ Spelt(f, s, Append(cs, c), r)
                /\ r[Len(cs) + 2] = p[Len(cs) + 1] + Len(Encode(f, c))
<1> DEFINE n == Len(cs)
           ds == Append(cs, c)
           r == [m \in 1 .. n + 2 |->
                   IF m <= n + 1 THEN p[m] ELSE p[n + 1] + Len(Encode(f, c))]
<1>1. /\ n \in Nat /\ Len(ds) = n + 1 /\ ds[n + 1] = c
      /\ \A m \in 1 .. n : ds[m] = cs[m]
  OBVIOUS
<1>2. Len(Encode(f, c)) \in Nat
  BY SpellingFacts
<1>3. /\ p \in [1 .. n + 1 -> Nat \ {0}] /\ p[1] = 1
      /\ \A k \in 1 .. n : /\ Stands(s, p[k], Encode(f, cs[k]))
                           /\ p[k + 1] = p[k] + Len(Encode(f, cs[k]))
  BY DEF Spelt
<1>4. Stands(s, p[n + 1], Encode(f, c))
  OBVIOUS
<1> HIDE DEF n, ds
<1>5. /\ r \in [1 .. n + 2 -> Nat \ {0}] /\ r[1] = 1
      /\ \A m \in 1 .. n + 1 : r[m] = p[m]
      /\ r[n + 2] = p[n + 1] + Len(Encode(f, c))
  BY <1>1, <1>2, <1>3
<1> HIDE DEF r
<1>6. ASSUME NEW k \in 1 .. n + 1
      PROVE  /\ Stands(s, r[k], Encode(f, ds[k]))
             /\ r[k + 1] = r[k] + Len(Encode(f, ds[k]))
  <2>1. CASE k \in 1 .. n
    <3>1. k + 1 \in 1 .. n + 1 /\ ds[k] = cs[k] /\ r[k] = p[k]
      BY <1>1, <1>5, <2>1
    <3>2. r[k + 1] = p[k + 1]
      BY <1>5, <3>1
    <3> QED
      BY <1>3, <2>1, <3>1, <3>2
  <2>2. CASE k = n + 1
    <3>1. ds[k] = c /\ r[k] = p[n + 1] /\ k + 1 = n + 2
      BY <1>1, <1>5, <2>2
    <3> QED
      BY <1>4, <1>5, <3>1
  <2> QED
    BY <1>1, <2>1, <2>2
<1>7. n + 2 = (n + 1) + 1
  BY <1>1
<1>8. Spelt(f, s, ds, r)
  BY <1>1, <1>5, <1>6, <1>7 DEF Spelt
<1> QED
  BY <1>5, <1>8 DEF n, ds

\* What is appended to a string moves nothing in it, and stands at its end.
LEMMA StandsAppended ==
  ASSUME NEW S, NEW s \in Seq(S), NEW e \in Seq(S)
  PROVE  /\ Stands(s \o e, Len(s) + 1, e)
         /\ \A x : \A k \in Nat \ {0} : Stands(s, k, x) /\ Len(x) \in Nat => Stands(s \o e, k, x)
<1> DEFINE t == s \o e
<1>1. /\ Len(s) \in Nat /\ Len(e) \in Nat /\ Len(t) = Len(s) + Len(e)
      /\ \A n \in 1 .. Len(s) : t[n] = s[n]
      /\ \A n \in 1 .. Len(e) : t[Len(s) + n] = e[n]
  OBVIOUS
<1> HIDE DEF t
<1>2. Stands(t, Len(s) + 1, e)
  <2>1. \A n \in 1 .. Len(e) : (Len(s) + 1) + n - 1 = Len(s) + n
    BY <1>1
  <2>2. (Len(s) + 1) + Len(e) - 1 <= Len(t)
    BY <1>1
  <2> QED
    BY <1>1, <2>1, <2>2 DEF Stands
<1>3. ASSUME NEW k \in Nat \ {0}, NEW x, Stands(s, k, x), Len(x) \in Nat
      PROVE  Stands(t, k, x)
  <2>1. k + Len(x) - 1 <= Len(s) /\ \A m \in 1 .. Len(x) : s[k + m - 1] = x[m]
    BY <1>3 DEF Stands
  <2>2. \A m \in 1 .. Len(x) : k + m - 1 \in 1 .. Len(s)
    BY <1>1, <1>3, <2>1
  <2>3. \A m \in 1 .. Len(x) : t[k + m - 1] = x[m]
    BY <1>1, <2>1, <2>2
  <2>4. k + Len(x) - 1 <= Len(t)
    BY <1>1, <1>3, <2>1
  <2> QED
    BY <2>3, <2>4 DEF Stands
<1> QED
  BY <1>2, <1>3 DEF t

LEMMA SpeltAppended ==
  ASSUME NEW S, NEW s \in Seq(S), NEW e \in Seq(S), NEW f \in ToJava \cup FromJava,
         NEW cs \in Seq(Scalars), NEW p, Spelt(f, s, cs, p)
  PROVE  Spelt(f, s \o e, cs, p)
<1>1. /\ p \in [1 .. Len(cs) + 1 -> Nat \ {0}] /\ p[1] = 1
      /\ \A k \in 1 .. Len(cs) : /\ Stands(s, p[k], Encode(f, cs[k]))
                                 /\ p[k + 1] = p[k] + Len(Encode(f, cs[k]))
  BY DEF Spelt
<1>2. \A x : \A k \in Nat \ {0} : Stands(s, k, x) /\ Len(x) \in Nat => Stands(s \o e, k, x)
  BY StandsAppended
<1> DEFINE t == s \o e
<1> HIDE DEF t
<1>3. ASSUME NEW k \in 1 .. Len(cs)
      PROVE  Stands(t, p[k], Encode(f, cs[k]))
  <2>1. cs[k] \in Scalars /\ k \in 1 .. Len(cs) + 1
    OBVIOUS
  <2>2. p[k] \in Nat \ {0}
    BY <1>1, <2>1
  <2>3. Len(Encode(f, cs[k])) \in 1 .. 4
    BY <2>1, SpellingFacts
  <2> QED
    BY <1>1, <1>2, <2>2, <2>3 DEF t
<1>4. Spelt(f, t, cs, p)
  BY <1>1, <1>3 DEF Spelt
<1> QED
  BY <1>4 DEF t

\* The place of a codepoint: its units are within the string, and the next place
\* is behind them.
LEMMA SpeltPlaces ==
  ASSUME NEW f \in ToJava \cup FromJava, NEW s, Len(s) \in Nat, NEW cs \in Seq(Scalars),
         NEW p, Spelt(f, s, cs, p), NEW k \in 1 .. Len(cs)
  PROVE  /\ cs[k] \in Scalars
         /\ p[k] \in Nat \ {0}
         /\ Stands(s, p[k], Encode(f, cs[k]))
         /\ p[k + 1] = p[k] + Len(Encode(f, cs[k]))
         /\ p[k] < p[k + 1]
         /\ p[k] <= Len(s)
<1>1. cs[k] \in Scalars /\ k \in 1 .. Len(cs) + 1
  OBVIOUS
<1>2. Len(Encode(f, cs[k])) \in 1 .. 4
  BY <1>1, SpellingFacts
<1>3. p[k] \in Nat \ {0}
  BY <1>1 DEF Spelt
<1>4. /\ Stands(s, p[k], Encode(f, cs[k]))
      /\ p[k + 1] = p[k] + Len(Encode(f, cs[k]))
  BY DEF Spelt
<1>5. p[k] + Len(Encode(f, cs[k])) - 1 <= Len(s)
  BY <1>4 DEF Stands
<1>6. p[k] < p[k + 1] /\ p[k] <= Len(s)
  <2> DEFINE n == Len(Encode(f, cs[k]))
             a == p[k]
             z == p[k + 1]
  <2>1. n \in 1 .. 4 /\ a \in Nat \ {0} /\ z = a + n /\ a + n - 1 <= Len(s)
    BY <1>2, <1>3, <1>4, <1>5
  <2> HIDE DEF n, a, z
  <2>2. a < z /\ a <= Len(s)
    BY <2>1
  <2> QED
    BY <2>2 DEF a, z
<1> QED
  BY <1>1, <1>3, <1>4, <1>6
-----------------------------------------------------------------------------
\* No sequence of the text is cut at the loop's place.
NoRowCut ==
  \A row \in RowsOf(call), j \in 1 .. Len(str) :
    Matches(str, j, row) /\ j < i => j + Len(row) <= i

\* On the way there, what was consumed and the result spell the same codepoints.
SpeltThere ==
  \E cs \in Seq(Scalars) : \E p, q :
    /\ Spelt(WayBack[call], sent, cs, p) /\ p[Len(cs) + 1] = i
    /\ Spelt(call, out, cs, q) /\ q[Len(cs) + 1] = Len(out) + 1

\* On the way back, the text sent and the argument spell the same codepoints, the
\* loop is at the place of one of them, and the result is the text before it.
SpeltBack ==
  \E cs \in Seq(Scalars) : \E p, q :
    /\ Spelt(call, sent, cs, p) /\ p[Len(cs) + 1] = Len(sent) + 1
    /\ Spelt(WayBack[call], str, cs, q) /\ q[Len(cs) + 1] = Len(str) + 1
    /\ \E k \in 1 .. Len(cs) + 1 :
         /\ i = q[k]
         /\ Len(out) = p[k] - 1
         /\ \A n \in 1 .. Len(out) : out[n] = sent[n]

TextInv ==
  /\ leg = "there" => str = sent
  /\ leg = "there" /\ IsTextOf(call, sent) =>
       /\ i <= Len(str) + 1
       /\ NoRowCut
       /\ SpeltThere
  /\ leg = "back" => sent \in Seq(ResultUnits(call))
  /\ leg = "back" /\ IsTextOf(WayBack[call], sent) => SpeltBack

LEMMA TextInvInit == CrossInit => TextInv
<1> SUFFICES ASSUME CrossInit
             PROVE  TextInv
  OBVIOUS
<1>1. /\ leg = "there" /\ str = sent /\ i = 1 /\ out = <<>> /\ TypeOK
  BY CrossInvInit DEF CrossInit, CrossInv
<1>2. i <= Len(str) + 1 /\ NoRowCut
  <2>1. Len(str) \in Nat
    BY <1>1 DEF TypeOK
  <2> QED
    BY <1>1, <2>1 DEF NoRowCut
<1>3. SpeltThere
  <2> DEFINE p == [n \in 1 .. 1 |-> 1]
  <2>1. Spelt(WayBack[call], sent, <<>>, p) /\ Spelt(call, out, <<>>, p)
    BY SpeltNothing
  <2>2. p[1] = 1
    OBVIOUS
  <2>3. Len(<<>>) = 0 /\ <<>> \in Seq(Scalars) /\ 0 + 1 = 1
    OBVIOUS
  <2> HIDE DEF p
  <2>4. p[Len(<<>>) + 1] = i /\ p[Len(<<>>) + 1] = Len(out) + 1
    BY <1>1, <2>2, <2>3
  <2> QED
    BY <2>1, <2>3, <2>4 DEF SpeltThere
<1> QED
  BY <1>1, <1>2, <1>3 DEF TextInv

\* A turn of the loop on the way there, in a well-formed text: the place is that
\* of a row, which spells a codepoint, and that codepoint is read and written.
LEMMA TurnThere ==
  ASSUME TypeOK, ConvertOne, leg = "there", str = sent, IsTextOf(call, sent),
         NoRowCut, SpeltThere
  PROVE  i' <= Len(str) + 1 /\ NoRowCut' /\ SpeltThere'
<1> DEFINE g == WayBack[call]
           res == Decode(call, str, behind, i)
<1>1. /\ call \in ToJava \cup FromJava /\ str \in Seq(ArgUnits(call)) /\ behind \in Units16
      /\ i \in 1 .. Len(str) /\ out \in Seq(ResultUnits(call)) /\ i \in Nat \ {0}
      /\ Len(str) \in Nat /\ IsTextOf(call, str)
  BY DEF TypeOK, ConvertOne
<1>2. g \in ToJava \cup FromJava
  BY <1>1, WayBackFacts
<1>3. /\ i' = i + res.offset /\ out' = out \o Encode(call, res.pt)
      /\ UNCHANGED <<call, leg, str, behind, sent>>
  BY DEF ConvertOne
<1>4. \A row \in RowsOf(call) : Len(row) \in Nat
  <2>1. \A row \in Rows8 : Len(row) \in Nat
    BY RowsBegin
  <2>2. \A row \in Rows16 : Len(row) \in Nat
    BY RowsBegin
  <2>3. Len(<<Nat>>) \in Nat
    OBVIOUS
  <2> QED
    BY <2>1, <2>2, <2>3 DEF RowsOf
<1>5. PICK row \in RowsOf(call) : Matches(str, i, row) /\ Len(row) \in Nat
  <2>1. PICK row \in RowsOf(call), j \in 1 .. i : Matches(str, j, row) /\ i < j + Len(row)
    BY <1>1, Covered
  <2>2. ~(j < i)
    <3>1. j \in 1 .. Len(str)
      BY <1>1, <2>1
    <3>2. Len(row) \in Nat
      BY <1>4, <2>1
    <3> QED
      BY <1>1, <2>1, <3>1, <3>2 DEF NoRowCut
  <2>3. j = i
    BY <1>1, <2>1, <2>2
  <2> QED
    BY <1>4, <2>1, <2>3
<1>6. PICK c \in Scalars : Len(Spelling(call, c)) = Len(row) /\ Stands(str, i, Spelling(call, c))
  BY <1>1, <1>5, RowSpells
<1>7. res = Consumed(Len(row), c)
  BY <1>1, <1>6, SpellingRead
<1>8. i' = i + Len(row) /\ out' = out \o Encode(call, c)
  BY <1>3, <1>7 DEF Consumed
<1>9. /\ Encode(call, c) \in Seq(ResultUnits(call)) /\ Len(Encode(call, c)) \in 1 .. 4
  BY <1>1, <1>6, SpellingFacts
<1> HIDE DEF res
<1>10. i' <= Len(str) + 1
  BY <1>1, <1>5, <1>8 DEF Matches
<1>11. NoRowCut'
  <2>1. /\ i' > i
        /\ \A j \in 1 .. Len(str), other \in RowsOf(call) :
             i < j /\ Matches(str, j, other) => i' <= j
    BY TurnPassesNothing DEF Rows, RowsOf
  <2> SUFFICES ASSUME NEW other \in RowsOf(call), NEW j \in 1 .. Len(str),
                      Matches(str, j, other), j < i'
               PROVE  j + Len(other) <= i'
    BY <1>3 DEF NoRowCut
  <2>2. Len(other) \in Nat /\ i' \in Nat
    BY <1>1, <1>4, <1>5, <1>8
  <2>3. CASE j < i
    BY <1>1, <2>1, <2>2, <2>3 DEF NoRowCut
  <2>4. CASE j = i
    <3>1. PICK d \in Scalars :
            Len(Spelling(call, d)) = Len(other) /\ Stands(str, i, Spelling(call, d))
      BY <1>1, <2>4, RowSpells
    <3>2. res = Consumed(Len(other), d)
      BY <1>1, <3>1, SpellingRead DEF res
    <3>3. i' = i + Len(other)
      BY <1>3, <3>2 DEF Consumed
    <3> QED
      BY <2>2, <2>4, <3>3
  <2>5. CASE i < j
    BY <1>1, <2>1, <2>2, <2>5
  <2> QED
    BY <1>1, <2>3, <2>4, <2>5
<1>12. SpeltThere'
  <2>1. PICK cs \in Seq(Scalars) : \E p, q :
          /\ Spelt(g, sent, cs, p) /\ p[Len(cs) + 1] = i
          /\ Spelt(call, out, cs, q) /\ q[Len(cs) + 1] = Len(out) + 1
    BY DEF SpeltThere
  <2>2. PICK p, q :
          /\ Spelt(g, sent, cs, p) /\ p[Len(cs) + 1] = i
          /\ Spelt(call, out, cs, q) /\ q[Len(cs) + 1] = Len(out) + 1
    BY <2>1
  <2> DEFINE ds == Append(cs, c)
  <2>3. ds \in Seq(Scalars) /\ Len(ds) + 1 = Len(cs) + 2
    BY <1>6
  <2>4. PICK r : Spelt(g, sent, ds, r) /\ r[Len(cs) + 2] = i'
    <3>1. Stands(sent, p[Len(cs) + 1], Encode(g, c))
      BY <1>6, <2>2 DEF Spelling
    <3>2. Len(Encode(g, c)) = Len(row)
      BY <1>6 DEF Spelling
    <3> HIDE DEF g, ds
    <3>3. \E r : /\ Spelt(g, sent, Append(cs, c), r)
                 /\ r[Len(cs) + 2] = p[Len(cs) + 1] + Len(Encode(g, c))
      BY <1>2, <1>6, <2>1, <2>2, <3>1, SpeltMore, Zenon
    <3>4. p[Len(cs) + 1] + Len(Encode(g, c)) = i'
      BY <1>8, <2>2, <3>2
    <3> QED
      BY <3>3, <3>4, Zenon DEF ds
  <2>5. PICK t : /\ Spelt(call, out', ds, t)
                 /\ t[Len(cs) + 2] = Len(out) + 1 + Len(Encode(call, c))
    <3>1. Spelt(call, out', cs, q)
      BY <1>1, <1>8, <1>9, <2>1, <2>2, SpeltAppended
    <3>2. Stands(out', q[Len(cs) + 1], Encode(call, c))
      BY <1>1, <1>8, <1>9, <2>2, StandsAppended
    <3> HIDE DEF ds
    <3>3. \E t : /\ Spelt(call, out', Append(cs, c), t)
                 /\ t[Len(cs) + 2] = q[Len(cs) + 1] + Len(Encode(call, c))
      <4>1. call \in ToJava \cup FromJava
        BY <1>1
      <4> QED
        BY <1>6, <2>1, <3>1, <3>2, <4>1, SpeltMore, SMT
    <3> QED
      BY <2>2, <3>3, Zenon DEF ds
  <2>6. Len(out') + 1 = Len(out) + 1 + Len(Encode(call, c))
    BY <1>1, <1>8, <1>9
  <2> HIDE DEF ds
  <2>7. r[Len(ds) + 1] = i' /\ t[Len(ds) + 1] = Len(out') + 1
    BY <2>3, <2>4, <2>5, <2>6
  <2>8. Spelt(WayBack[call'], sent', ds, r) /\ Spelt(call', out', ds, t)
    BY <1>3, <2>4, <2>5
  <2> QED
    BY <2>3, <2>7, <2>8 DEF SpeltThere
<1> QED
  BY <1>10, <1>11, <1>12

\* A turn of the loop on the way back: the codepoint at the place is read and
\* written, and what is written is what stands in the text sent.
LEMMA TurnBack ==
  ASSUME TypeOK, ConvertOne, sent \in Seq(ResultUnits(call)), SpeltBack
  PROVE  SpeltBack'
<1> DEFINE g == WayBack[call]
           res == Decode(call, str, behind, i)
<1>1. /\ call \in ToJava \cup FromJava /\ str \in Seq(ArgUnits(call)) /\ behind \in Units16
      /\ i \in 1 .. Len(str) /\ out \in Seq(ResultUnits(call)) /\ i \in Nat \ {0}
      /\ Len(str) \in Nat /\ Len(sent) \in Nat /\ Len(out) \in Nat
  BY DEF TypeOK, ConvertOne
<1>2. g \in ToJava \cup FromJava
  BY <1>1, WayBackFacts
<1>3. /\ i' = i + res.offset /\ out' = out \o Encode(call, res.pt)
      /\ UNCHANGED <<call, leg, str, behind, sent>>
  BY DEF ConvertOne
<1>4. PICK cs \in Seq(Scalars) : \E p, q :
        /\ Spelt(call, sent, cs, p) /\ p[Len(cs) + 1] = Len(sent) + 1
        /\ Spelt(g, str, cs, q) /\ q[Len(cs) + 1] = Len(str) + 1
        /\ \E k \in 1 .. Len(cs) + 1 :
             /\ i = q[k]
             /\ Len(out) = p[k] - 1
             /\ \A n \in 1 .. Len(out) : out[n] = sent[n]
  BY DEF SpeltBack
<1>5. PICK p, q :
        /\ Spelt(call, sent, cs, p) /\ p[Len(cs) + 1] = Len(sent) + 1
        /\ Spelt(g, str, cs, q) /\ q[Len(cs) + 1] = Len(str) + 1
        /\ \E k \in 1 .. Len(cs) + 1 :
             /\ i = q[k]
             /\ Len(out) = p[k] - 1
             /\ \A n \in 1 .. Len(out) : out[n] = sent[n]
  BY <1>4
<1>6. PICK k \in 1 .. Len(cs) + 1 :
        /\ i = q[k]
        /\ Len(out) = p[k] - 1
        /\ \A n \in 1 .. Len(out) : out[n] = sent[n]
  BY <1>5
<1>7. k \in 1 .. Len(cs)
  <2>1. k # Len(cs) + 1
    BY <1>1, <1>5, <1>6
  <2> QED
    BY <2>1
<1> DEFINE c == cs[k]
           e == Encode(call, c)
<1>8. /\ c \in Scalars
      /\ p[k] \in Nat \ {0} /\ Stands(sent, p[k], e) /\ p[k + 1] = p[k] + Len(e)
  BY <1>1, <1>4, <1>5, <1>7, SpeltPlaces
<1>9. q[k] \in Nat \ {0} /\ Stands(str, q[k], Encode(g, c)) /\ q[k + 1] = q[k] + Len(Encode(g, c))
  BY <1>1, <1>2, <1>4, <1>5, <1>7, SpeltPlaces
<1>10. e \in Seq(ResultUnits(call)) /\ Len(e) \in 1 .. 4
  BY <1>1, <1>8, SpellingFacts
<1>11. res = Consumed(Len(Encode(g, c)), c)
  <2>1. Stands(str, i, Spelling(call, c))
    BY <1>6, <1>9 DEF Spelling
  <2> HIDE DEF c
  <2>2. res = Consumed(Len(Spelling(call, c)), c)
    BY <1>1, <1>8, <2>1, SpellingRead
  <2> QED
    BY <2>2 DEF Spelling
<1>12. i' = q[k + 1] /\ out' = out \o e
  BY <1>3, <1>6, <1>9, <1>11 DEF Consumed
<1> HIDE DEF c, e, res
<1>13. /\ Len(out') = p[k + 1] - 1
       /\ \A n \in 1 .. Len(out') : out'[n] = sent[n]
  <2>1. /\ Len(out') = Len(out) + Len(e)
        /\ \A n \in 1 .. Len(out) : out'[n] = out[n]
        /\ \A m \in 1 .. Len(e) : out'[Len(out) + m] = e[m]
    BY <1>1, <1>10, <1>12
  <2>2. \A m \in 1 .. Len(e) : sent[p[k] + m - 1] = e[m]
    BY <1>8 DEF Stands
  <2>3. ASSUME NEW n \in 1 .. Len(out')
        PROVE  out'[n] = sent[n]
    <3>1. CASE n \in 1 .. Len(out)
      BY <1>6, <2>1, <3>1
    <3>2. CASE n \notin 1 .. Len(out)
      <4> DEFINE m == n - Len(out)
      <4>1. m \in 1 .. Len(e) /\ n = Len(out) + m
        BY <1>1, <1>10, <2>1, <3>2
      <4>2. Len(out) = p[k] - 1 /\ p[k] \in Nat /\ m \in Nat
        BY <1>6, <1>8, <4>1
      <4> HIDE DEF m
      <4>3. n = p[k] + m - 1
        BY <1>1, <4>1, <4>2
      <4> QED
        BY <2>1, <2>2, <4>1, <4>3
    <3> QED
      BY <3>1, <3>2
  <2>4. Len(out') = p[k + 1] - 1
    BY <1>1, <1>6, <1>8, <1>10, <2>1
  <2> QED
    BY <2>3, <2>4
<1>14. k + 1 \in 1 .. Len(cs) + 1
  BY <1>7
<1>15. /\ Spelt(call', sent', cs, p) /\ p[Len(cs) + 1] = Len(sent') + 1
       /\ Spelt(WayBack[call'], str', cs, q) /\ q[Len(cs) + 1] = Len(str') + 1
  BY <1>3, <1>5
<1>16. \E n \in 1 .. Len(cs) + 1 :
         /\ i' = q[n]
         /\ Len(out') = p[n] - 1
         /\ \A m \in 1 .. Len(out') : out'[m] = sent'[m]
  BY <1>3, <1>12, <1>13, <1>14
<1> QED
  BY <1>4, <1>15, <1>16 DEF SpeltBack

\* The turn of the string: what was consumed is the whole text.
LEMMA TurnedBack ==
  ASSUME TypeOK, CrossBack, str = sent, IsTextOf(call, sent), i <= Len(str) + 1, SpeltThere
  PROVE  SpeltBack'
<1>1. /\ call' = WayBack[call] /\ str' = out /\ sent' = sent /\ i' = 1 /\ out' = <<>>
      /\ call \in ToJava \cup FromJava /\ i > Len(str) /\ Len(str) \in Nat /\ i \in Nat
  BY DEF CrossBack, TypeOK
<1>2. WayBack[call'] = call
  BY <1>1, WayBackCases
<1>3. i = Len(sent) + 1
  BY <1>1
<1>4. PICK cs \in Seq(Scalars) : \E p, q :
        /\ Spelt(WayBack[call], sent, cs, p) /\ p[Len(cs) + 1] = i
        /\ Spelt(call, out, cs, q) /\ q[Len(cs) + 1] = Len(out) + 1
  BY DEF SpeltThere
<1>5. PICK p, q :
        /\ Spelt(WayBack[call], sent, cs, p) /\ p[Len(cs) + 1] = i
        /\ Spelt(call, out, cs, q) /\ q[Len(cs) + 1] = Len(out) + 1
  BY <1>4
<1>6. p[1] = 1 /\ q[1] = 1
  BY <1>5 DEF Spelt
<1>7. 1 \in 1 .. Len(cs) + 1
  BY <1>4
<1>8. Len(out') = 0
  BY <1>1
<1>9. \E k \in 1 .. Len(cs) + 1 :
        /\ i' = q[k]
        /\ Len(out') = p[k] - 1
        /\ \A n \in 1 .. Len(out') : out'[n] = sent'[n]
  BY <1>1, <1>6, <1>7, <1>8
<1>10. /\ Spelt(call', sent', cs, p) /\ p[Len(cs) + 1] = Len(sent') + 1
       /\ Spelt(WayBack[call'], str', cs, q) /\ q[Len(cs) + 1] = Len(str') + 1
  BY <1>1, <1>2, <1>3, <1>5
<1> QED
  BY <1>4, <1>9, <1>10 DEF SpeltBack

LEMMA TextInvStep == CrossInv /\ TextInv /\ [CrossNext]_vars => TextInv'
<1> SUFFICES ASSUME CrossInv, TextInv, [CrossNext]_vars
             PROVE  TextInv'
  OBVIOUS
<1>1. TypeOK
  BY DEF CrossInv
<1>2. CASE ConvertOne
  <2>1. UNCHANGED <<call, leg, str, behind, sent>>
    BY <1>2 DEF ConvertOne
  <2>2. leg' = "there" /\ IsTextOf(call', sent') =>
          /\ i' <= Len(str') + 1
          /\ NoRowCut'
          /\ SpeltThere'
    BY <1>1, <1>2, <2>1, TurnThere DEF TextInv
  <2>3. leg' = "back" /\ IsTextOf(WayBack[call'], sent') => SpeltBack'
    BY <1>1, <1>2, <2>1, TurnBack DEF TextInv
  <2> QED
    BY <2>1, <2>2, <2>3 DEF TextInv
<1>3. CASE CrossBack
  <2>1. /\ leg = "there" /\ leg' = "back" /\ call' = WayBack[call] /\ sent' = sent
        /\ call \in ToJava \cup FromJava
    BY <1>1, <1>3 DEF CrossBack, TypeOK
  <2>2. WayBack[call'] = call /\ call' \in ToJava \cup FromJava
    BY <2>1, WayBackCases, WayBackFacts
  <2>3. str = sent /\ str \in Seq(ArgUnits(call))
    BY <1>1, <2>1 DEF TextInv, TypeOK
  <2>4. sent' \in Seq(ResultUnits(call'))
    BY <2>1, <2>2, <2>3, WayBackFacts
  <2>5. IsTextOf(WayBack[call'], sent') => SpeltBack'
    BY <1>1, <1>3, <2>1, <2>2, <2>3, TurnedBack DEF TextInv
  <2> QED
    BY <2>1, <2>4, <2>5 DEF TextInv
<1>4. CASE UNCHANGED vars
  BY <1>4 DEF vars, TextInv, NoRowCut, SpeltThere, SpeltBack
<1> QED
  BY <1>2, <1>3, <1>4 DEF CrossNext

\* Well-formed text, of any length, is the same text when it is back, whichever
\* side sends it and through whichever pair of functions.
THEOREM TextComesBack == CrossSpec => []TextSurvives
<1>1. CrossInit => TextInv
  BY TextInvInit
<1>2. CrossInv /\ TextInv /\ [CrossNext]_vars => TextInv'
  BY TextInvStep
<1>3. ASSUME TypeOK, TextInv
      PROVE  TextSurvives
  <2> SUFFICES ASSUME leg = "back", i > Len(str), IsText
               PROVE  out = sent
    BY DEF TextSurvives
  <2>1. /\ call \in ToJava \cup FromJava /\ out \in Seq(ResultUnits(call))
        /\ sent \in Seq(ResultUnits(call)) /\ Len(str) \in Nat
    BY <1>3 DEF TypeOK, TextInv
  <2>2. IsTextOf(WayBack[call], sent)
    BY <2>1, Zenon DEF IsText, IsTextOf, WayBack, ToJava, FromJava
  <2>3. PICK cs \in Seq(Scalars) : \E p, q :
          /\ Spelt(call, sent, cs, p) /\ p[Len(cs) + 1] = Len(sent) + 1
          /\ Spelt(WayBack[call], str, cs, q) /\ q[Len(cs) + 1] = Len(str) + 1
          /\ \E k \in 1 .. Len(cs) + 1 :
               /\ i = q[k]
               /\ Len(out) = p[k] - 1
               /\ \A n \in 1 .. Len(out) : out[n] = sent[n]
    BY <1>3, <2>2 DEF TextInv, SpeltBack
  <2>4. PICK p, q :
          /\ Spelt(call, sent, cs, p) /\ p[Len(cs) + 1] = Len(sent) + 1
          /\ Spelt(WayBack[call], str, cs, q) /\ q[Len(cs) + 1] = Len(str) + 1
          /\ \E k \in 1 .. Len(cs) + 1 :
               /\ i = q[k]
               /\ Len(out) = p[k] - 1
               /\ \A n \in 1 .. Len(out) : out[n] = sent[n]
    BY <2>3
  <2>5. PICK k \in 1 .. Len(cs) + 1 :
          /\ i = q[k]
          /\ Len(out) = p[k] - 1
          /\ \A n \in 1 .. Len(out) : out[n] = sent[n]
    BY <2>4
  <2>6. k = Len(cs) + 1
    <3> SUFFICES ASSUME k \in 1 .. Len(cs)
                 PROVE  FALSE
      OBVIOUS
    <3>1. q[k] \in Nat \ {0} /\ q[k] <= Len(str)
      BY <2>1, <2>3, <2>4, WayBackFacts, SpeltPlaces
    <3> QED
      BY <2>1, <2>5, <3>1
  <2>7. Len(out) = Len(sent)
    BY <2>1, <2>4, <2>5, <2>6
  <2> QED
    BY <2>1, <2>5, <2>7
<1>4. CrossInv => TypeOK
  BY DEF CrossInv
<1> QED
  BY <1>1, <1>2, <1>3, <1>4, CrossInvariance, PTL DEF CrossSpec
-----------------------------------------------------------------------------
(* Where the decoders stop.  A NUL is no continuation byte and no low      *)
(* surrogate, so what is followed by one is not read past.                 *)

LEMMA Stops8 ==
  ASSUME NEW s \in Seq(Bytes), NEW k \in 1 .. Len(s)
  PROVE  k + utf8_decode(s, k).offset <= Len(s) + 1
<1> DEFINE b0 == UnitAt(s, 0, k + 0)
           b1 == UnitAt(s, 0, k + 1)
           b2 == UnitAt(s, 0, k + 2)
           b3 == UnitAt(s, 0, k + 3)
           r == utf8_decode(s, k)
<1>1. \A n \in Nat : UnitAt(s, 0, k + n) \in Bytes
  <2> TAKE n \in Nat
  <2>1. CASE k + n <= Len(s)
    <3>1. k + n \in 1 .. Len(s)
      BY <2>1
    <3>2. s[k + n] \in Bytes
      BY <3>1
    <3> QED
      BY <2>1, <3>2 DEF UnitAt
  <2>2. CASE ~(k + n <= Len(s))
    BY <2>2 DEF UnitAt, Bytes
  <2> QED
    BY <2>1, <2>2
<1>2. b0 \in Bytes /\ b1 \in Bytes /\ b2 \in Bytes /\ b3 \in Bytes
  BY <1>1
<1>3. 0 \notin Tail8
  BY SMT DEF Tail8
<1>4. /\ b1 \in Tail8 => k + 1 <= Len(s)
      /\ b2 \in Tail8 => k + 2 <= Len(s)
      /\ b3 \in Tail8 => k + 3 <= Len(s)
  BY <1>3, Zenon DEF UnitAt
<1>5. r = OrReplacement(Decode8(b0, b1, b2, b3))
  BY DEF utf8_decode, utf8_decode_check
<1> SUFFICES k + r.offset <= Len(s) + 1
  OBVIOUS
<1> HIDE DEF b0, b1, b2, b3, r
<1>6. /\ r.offset \in 1 .. 4
      /\ r.offset >= 2 => b1 \in Tail8
      /\ r.offset >= 3 => b2 \in Tail8
      /\ r.offset >= 4 => b3 \in Tail8
  <2>1. \A q : q = OrReplacement(Decode8(b0, b1, b2, b3)) =>
                 /\ q.offset \in 1 .. 4
                 /\ q.offset >= 2 => b1 \in Tail8
                 /\ q.offset >= 3 => b2 \in Tail8
                 /\ q.offset >= 4 => b3 \in Tail8
    BY <1>2, Turn8, Zenon
  <2> QED
    BY <1>5, <2>1, Zenon
<1>7. k \in Nat /\ k <= Len(s) /\ Len(s) \in Nat
  OBVIOUS
<1> QED
  BY <1>4, <1>6, <1>7, SMT

LEMMA Stops16 ==
  ASSUME NEW s \in Seq(Units16), NEW k \in 1 .. Len(s)
  PROVE  k + utf16_decode(s, 0, k).offset <= Len(s) + 1
<1> DEFINE u == UnitAt(s, 0, k)
           v == UnitAt(s, 0, k + 1)
           r == utf16_decode(s, 0, k)
<1>1. u \in Units16 /\ v \in Units16
  <2>1. s[k] \in Units16 /\ (k + 1 <= Len(s) => s[k + 1] \in Units16)
    OBVIOUS
  <2>2. 0 \in Units16
    BY SMT DEF Units16
  <2> QED
    BY <2>1, <2>2 DEF UnitAt
<1>2. ~is_low_surrogate(0)
  BY SMT DEF is_low_surrogate, LowSurrogates
<1>3. is_low_surrogate(v) => k + 1 <= Len(s)
  BY <1>2, Zenon DEF UnitAt
<1>4. r = OrReplacement(IF is_high_surrogate(u) /\ is_low_surrogate(v)
                        THEN Consumed(2, (u - 55296) * 1024 + (v - 56320) + 65536)
                        ELSE IF is_high_surrogate(u) \/ is_low_surrogate(u)
                        THEN invalid_pt
                        ELSE Consumed(1, u))
  BY DEF utf16_decode, utf16_decode_check
<1> SUFFICES k + r.offset <= Len(s) + 1
  OBVIOUS
<1> HIDE DEF u, v, r
<1>5. r.offset \in 1 .. 2 /\ (r.offset >= 2 => is_low_surrogate(v))
  BY <1>1, <1>4, Turn16, SMT
<1>6. k \in Nat /\ k <= Len(s) /\ Len(s) \in Nat
  OBVIOUS
<1> QED
  BY <1>3, <1>5, <1>6, SMT

\* All but jniWStringFromString stop at the end of the string, of any string: that
\* is the one that reads an array without a NUL behind it.
OthersStop == call # "jniWStringFromString" => StopsAtTheEnd

THEOREM OnlyOneReadsBeyond == CrossSpec => []OthersStop
<1> DEFINE Inv == behind \in Behind(call) /\ OthersStop
<1>1. CrossInit => Inv
  <2> SUFFICES ASSUME CrossInit
               PROVE  Inv
    OBVIOUS
  <2>1. i = 1 /\ behind \in Behind(call)
    BY DEF CrossInit
  <2>2. Len(str) \in Nat
    BY CrossInvInit DEF CrossInv, TypeOK
  <2> QED
    BY <2>1, <2>2 DEF OthersStop, StopsAtTheEnd
<1>2. CrossInv /\ Inv /\ [CrossNext]_vars => Inv'
  <2> SUFFICES ASSUME CrossInv, Inv, [CrossNext]_vars
               PROVE  Inv'
    OBVIOUS
  <2>1. CASE ConvertOne
    <3>1. /\ i' = i + Decode(call, str, behind, i).offset
          /\ UNCHANGED <<call, str, behind>>
      BY <2>1 DEF ConvertOne
    <3>2. /\ call \in ToJava \cup FromJava /\ str \in Seq(ArgUnits(call))
          /\ i \in 1 .. Len(str) /\ Len(str) \in Nat
      BY <2>1 DEF ConvertOne, CrossInv, TypeOK
    <3>3. ASSUME call # "jniWStringFromString"
          PROVE  i + Decode(call, str, behind, i).offset <= Len(str) + 1
      <4>1. CASE call = "jniStringFromUTF8"
        <5>1. str \in Seq(Bytes) /\ Decode(call, str, behind, i) = utf8_decode(str, i)
          BY <3>2, <4>1 DEF ArgUnits, Decode
        <5> QED
          BY <3>2, <5>1, Stops8
      <4>2. CASE call = "jniStringFromWString"
        <5>1. Decode(call, str, behind, i).offset = 1
          BY <4>2 DEF Decode, Consumed
        <5> QED
          BY <3>2, <5>1
      <4>3. CASE call = "jniUTF8FromString"
        <5>1. /\ str \in Seq(Units16)
              /\ Decode(call, str, behind, i) = utf16_decode(str, behind, i)
          BY <3>2, <4>3 DEF ArgUnits, Decode
        <5>2. behind = 0
          BY <4>3 DEF Behind
        <5> QED
          BY <3>2, <5>1, <5>2, Stops16
      <4> QED
        BY <3>2, <3>3, <4>1, <4>2, <4>3 DEF ToJava, FromJava
    <3> QED
      BY <3>1, <3>3 DEF OthersStop, StopsAtTheEnd
  <2>2. CASE CrossBack
    <3>1. i' = 1 /\ behind' \in Behind(call')
      BY <2>2 DEF CrossBack
    <3>2. Len(str') \in Nat
      BY CrossInvStep DEF CrossInv, TypeOK
    <3> QED
      BY <3>1, <3>2 DEF OthersStop, StopsAtTheEnd
  <2>3. CASE UNCHANGED vars
    BY <2>3 DEF vars, OthersStop, StopsAtTheEnd
  <2> QED
    BY <2>1, <2>2, <2>3 DEF CrossNext
<1>3. Inv => OthersStop
  OBVIOUS
<1> QED
  BY <1>1, <1>2, <1>3, CrossInvariance, PTL DEF CrossSpec
=============================================================================
