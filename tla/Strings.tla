-------------------------------- MODULE Strings --------------------------------
(***************************************************************************)
(* The conversions of String (String.h, String.cpp): numbers, base64 and    *)
(* what they need of the rest of the class.  A number written in digits is  *)
(* the integer it stands for, and a base64 text the values 0 .. 63 of its   *)
(* characters.  A call is answered in one step: String has no state but the *)
(* text, and nothing else happens meanwhile.                                *)
(***************************************************************************)
EXTENDS Integers, Sequences, FiniteSetsExt

CONSTANTS
    ShortSize, IntSize, LongSize,  \* how many values the types have, 2 to the width of
                                   \* each; long long is as wide as long
    Bytes,                         \* the bytes base64 is tried on
    MaxBytes                       \* and how many of them at most

VARIABLES called, answer

svars == <<called, answer>>

--------------------------------------------------------------------------------
(* Numbers *)

ULongMax == LongSize - 1

\* strtoul negates what it read when there is a sign, and saturates.
StrToUL(v) == IF v > ULongMax \/ -v > ULongMax THEN ULongMax ELSE v % LongSize

\* strtoll saturates at both ends.
StrToLL(v) ==
    LET max == LongSize \div 2 - 1
        in  == IF v > max THEN max ELSE IF v < -max - 1 THEN -max - 1 ELSE v
    IN in % LongSize

\* The low bits of x, which C++ keeps when it converts to a narrower type, one of
\* size values.
Cast(x, size, signed) ==
    LET low == x % size
    IN IF signed /\ low >= size \div 2 THEN low - size ELSE low

\* For each conversion, the type it returns; ToInt32 and the like go through the
\* long long ones.
Type == [ToShort    |-> [size |-> ShortSize, signed |-> TRUE],
         ToUShort   |-> [size |-> ShortSize, signed |-> FALSE],
         ToInt      |-> [size |-> IntSize,   signed |-> TRUE],
         ToUInt     |-> [size |-> IntSize,   signed |-> FALSE],
         ToLong     |-> [size |-> LongSize,  signed |-> TRUE],
         ToULong    |-> [size |-> LongSize,  signed |-> FALSE],
         ToLongLong |-> [size |-> LongSize,  signed |-> TRUE],
         ToULongLong|-> [size |-> LongSize,  signed |-> FALSE],
         ToInt32    |-> [size |-> IntSize,   signed |-> TRUE],
         ToUInt32   |-> [size |-> IntSize,   signed |-> FALSE],
         ToInt64    |-> [size |-> LongSize,  signed |-> TRUE],
         ToUInt64   |-> [size |-> LongSize,  signed |-> FALSE]]

Conversions == DOMAIN Type

\* Mutant: ToULong uses strtoll as ToULongLong does.
UsesStrToULNotForULong(c) == c \in {"ToShort", "ToUShort", "ToInt", "ToUInt", "ToLong"}

UsesStrToUL(c) == c \in {"ToShort", "ToUShort", "ToInt", "ToUInt", "ToLong", "ToULong"}

\* What conversion c makes of the digits of v.
Convert(c, v) ==
    LET t == Type[c]
    IN Cast(IF UsesStrToUL(c) THEN StrToUL(v) ELSE StrToLL(v), t.size, t.signed)

\* The values of the type that conversion c returns, each of which a constructor
\* of String writes in digits.
ValuesOf(c) ==
    LET n == Type[c].size
    IN IF Type[c].signed THEN -(n \div 2) .. n \div 2 - 1 ELSE 0 .. n - 1

--------------------------------------------------------------------------------
(* Trim *)

Blank == 65        \* one of " \t\r\n"
Pad == 64          \* '='
Invalid == 255     \* XX in base64_table

\* The first and the last position that holds none of the characters cs, 0 for npos.
FirstNotOf(s, cs) == LET p == {i \in DOMAIN s : s[i] \notin cs} IN IF p = {} THEN 0 ELSE Min(p)
LastNotOf(s, cs) == LET p == {i \in DOMAIN s : s[i] \notin cs} IN IF p = {} THEN 0 ELSE Max(p)

\* The trims answer whether they did anything; an empty text counts as trimmed on
\* the left.
TrimLeft(s, cs) ==
    LET i == FirstNotOf(s, cs) IN
    CASE i = 1 -> [ret |-> FALSE, text |-> s]
      [] i = 0 -> [ret |-> TRUE, text |-> <<>>]
      [] OTHER -> [ret |-> TRUE, text |-> SubSeq(s, i, Len(s))]

TrimRight(s, cs) ==
    LET i == LastNotOf(s, cs) IN
    IF i = Len(s) THEN [ret |-> FALSE, text |-> s]
    ELSE [ret |-> TRUE, text |-> SubSeq(s, 1, i)]

\* Trim leaves the left side alone when there was something on the right.
Trim(s, cs) ==
    LET right == TrimRight(s, cs)
    IN IF right.ret THEN right ELSE TrimLeft(right.text, cs)

--------------------------------------------------------------------------------
(* Base64 *)

\* Four characters for three bytes; what is missing of the last three is padded.
Base64Encode(b) ==
    LET n == Len(b)
        In(i) == IF i <= n THEN b[i] ELSE 0
        Digit(k) ==
            LET i == 3 * (k \div 4) + 1 IN
            CASE k % 4 = 0 -> In(i) \div 4
              [] k % 4 = 1 -> ((In(i) % 4) * 16) + (In(i + 1) \div 16)
              [] k % 4 = 2 -> IF i + 1 > n THEN Pad
                              ELSE ((In(i + 1) % 16) * 4) + (In(i + 2) \div 64)
              [] k % 4 = 3 -> IF i + 2 > n THEN Pad ELSE In(i + 2) % 64
    IN [k \in 1 .. 4 * ((n + 2) \div 3) |-> Digit(k - 1)]

\* What Base64Encode allocates, the terminator included.
ToAlloc(n) == (n \div 3) * 4 + ((3 - (n % 3)) % 3) + 1 + 8

\* Mutant: nothing is added for the padding.
ToAllocNoPadding(n) == (n \div 3) * 4 + 1

\* base64_table; the terminator, which is read in place of a missing second
\* character, is as invalid as a blank.
Value(s, i) == IF i <= Len(s) /\ s[i] < 64 THEN s[i] ELSE Invalid

\* What one round of the loop of Base64Decode, which reads four characters from i on,
\* and the rounds after it decode; a '=' in the third or fourth place ends the loop.
Round(s, i, after) ==
    LET n  == Len(s)
        v1 == Value(s, i)
        v2 == Value(s, i + 1)
        v3 == Value(s, i + 2)
        v4 == Value(s, i + 3)
        one   == <<((v1 * 4) % 256) + ((v2 \div 16) % 4)>>
        two   == <<((v2 % 16) * 16) + ((v3 \div 4) % 16)>>
        three == <<IF v4 = Invalid THEN Invalid ELSE (v3 % 4) * 64 + v4>>
    IN IF i + 2 > n THEN one
       ELSE IF s[i + 2] = Pad THEN one
       ELSE IF i + 3 > n THEN one \o two
       ELSE IF s[i + 3] = Pad THEN one \o two
       ELSE one \o two \o three \o after

\* The rounds from the q-th on.
DecodeFrom(s) ==
    LET dec[q \in 0 .. Len(s) \div 4 + 1] ==
          IF 4 * q >= Len(s) THEN <<>> ELSE Round(s, 4 * q + 1, dec[q + 1])
    IN dec[0]

Base64Decode(s) == DecodeFrom(Trim(s, {Blank}).text)

\* Mutant: the text is not trimmed.
Base64DecodeUntrimmed(s) == DecodeFrom(s)

--------------------------------------------------------------------------------

Init ==
    /\ \/ \E c \in Conversions : \E v \in ValuesOf(c) :
            called = [op |-> "number", how |-> c, value |-> v]
       \/ \E n \in 0 .. MaxBytes : \E b \in [1 .. n -> Bytes], left, right \in 0 .. 1 :
            called = [op |-> "base64", bytes |-> b, left |-> left, right |-> right]
    /\ answer = <<>>

\* The base64 text as somebody may have written it down, blanks around it.
Blanks(n) == [i \in 1 .. n |-> Blank]
Written(c) == Blanks(c.left) \o Base64Encode(c.bytes) \o Blanks(c.right)

\* A number, or a string of bytes, was written as text and is read back.
Reply ==
    /\ answer = <<>>
    /\ answer' = IF called.op = "number" THEN <<Convert(called.how, called.value)>>
                 ELSE <<Base64Decode(Written(called))>>
    /\ UNCHANGED called

--------------------------------------------------------------------------------
(* Properties *)

\* What String writes it reads back: a number through the conversion to its own
\* type (String.h:115-168, String.cpp:149-179), and bytes through base64 with a
\* blank before or after the text.  Two values do not come back: an unsigned long
\* long above the largest long long, which strtoll cuts off (String.cpp:178), and
\* base64 with blanks on both sides, of which Trim takes one (String.cpp:95).
ConversionsInvert ==
    answer # <<>> =>
      \/ /\ called.op = "number"
         /\ \/ answer = <<called.value>>
            \/ /\ called.how \in {"ToULongLong", "ToUInt64"}
               /\ called.value >= LongSize \div 2
      \/ /\ called.op = "base64"
         /\ answer = <<called.bytes>> \/ called.left + called.right = 2
         /\ Len(Base64Encode(called.bytes)) + 1 <= ToAlloc(Len(called.bytes))

================================================================================
