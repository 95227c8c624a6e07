-------------------------- MODULE SimpleHTTPSocket_proofs --------------------------
(***************************************************************************)
(* Theorems about SimpleHTTPSocket: one report, whatever the server answers, *)
(* and for every well-formed answer, cut in any way, the right one in time.  *)
(***************************************************************************)
EXTENDS SimpleHTTPSocket, SequenceTheorems, WellFoundedInduction, TLAPS

\* The callback is there as long as it was not called, and is called once.
CallbackInv ==
    \/ callback = TRUE /\ reports = <<>>
    \/ callback = FALSE /\ \E r : reports = <<r>>

\* What a call of the callback, or none, makes of that.
LEMMA ReportKeeps ==
    ASSUME CallbackInv, NEW what, NEW body, Report(what, body)
    PROVE  CallbackInv'
BY DEF CallbackInv, Report

LEMMA NoReportKeeps == CallbackInv /\ NoReport => CallbackInv'
BY DEF CallbackInv, NoReport

LEMMA CallbackNext == CallbackInv /\ [Next]_vars => CallbackInv'
<1> SUFFICES ASSUME CallbackInv, [Next]_vars PROVE CallbackInv'
  OBVIOUS
<1> USE NoReportKeeps DEF NoReport
<1>1. CASE Get \/ Connected \/ Written \/ Arrive
  BY <1>1 DEF Get, Connected, Written, Arrive
<1>2. CASE NoMoreLines \/ ParseLine \/ ReadDataDone \/ Delete
  BY <1>2 DEF NoMoreLines, ParseLine, ReadDataDone, Delete
<1>3. CASE ReadLineTooEarly
  BY <1>3, ReportKeeps DEF ReadLineTooEarly, OnRequestError
<1>4. CASE ReadChunkSize
  <2>1. NoReport \/ Report("done", buffer)
    BY <1>4 DEF ReadChunkSize, OnRequestDone
  <2>2. QED
    BY <2>1, ReportKeeps
<1>5. CASE ReadData
  <2>1. NoReport \/ Report("done", buffer')
    BY <1>5 DEF ReadData, OnRequestDone
  <2>2. QED
    BY <2>1, ReportKeeps
<1>6. CASE DecompressionError
  BY <1>6, ReportKeeps DEF DecompressionError, OnRequestError
<1>7. CASE Disconnected
  <2>1. NoReport \/ Report("done", buffer)
    BY <1>7 DEF Disconnected, OnRequestDone
  <2>2. QED
    BY <2>1, ReportKeeps
<1>8. CASE Timeout
  <2>1. NoReport \/ Report("timeout", <<>>)
    BY <1>8 DEF Timeout, OnRequestError
  <2>2. QED
    BY <2>1, ReportKeeps
<1>9. CASE UNCHANGED vars
  BY <1>9 DEF vars
<1>10. QED
  BY <1>1, <1>2, <1>3, <1>4, <1>5, <1>6, <1>7, <1>8, <1>9 DEF Next

\* The callback of a request is called at most once, whatever the server sends
\* and in whatever order the events of the connection come.
THEOREM OneReport == Spec => []ReportedOnce
<1>1. Init => CallbackInv
  BY DEF Init, CallbackInv
<1>2. CallbackInv => ReportedOnce
  <2>1. \A r : Len(<<r>>) <= 1
    OBVIOUS
  <2>2. Len(<< >>) <= 1
    OBVIOUS
  <2>3. QED
    BY <2>1, <2>2, Zenon DEF CallbackInv, ReportedOnce
<1>3. QED
  BY <1>1, <1>2, CallbackNext, PTL DEF Spec

-----------------------------------------------------------------------------
(* What a block decodes to.                                                *)

\* Induction on the naturals, for a set: the library states it for an operator.
LEMMA Induction ==
    ASSUME NEW S \in SUBSET Nat, 0 \in S, \A n \in S : n + 1 \in S
    PROVE  S = Nat
<1> DEFINE R == {ss \in Nat \X Nat : ss[1] < ss[2]}
<1>0. IsWellFoundedOn(R, Nat)
  BY NatLessThanWellFounded DEF OpToRel
<1> SUFFICES ASSUME Nat \ S # {} PROVE FALSE
  OBVIOUS
<1>1. PICK m \in Nat \ S : \A k \in Nat \ S : ~ (<<k, m>> \in R)
  BY <1>0, WFMin, Zenon
<1>2. m # 0 /\ m - 1 \in Nat
  OBVIOUS
<1>3. m - 1 \notin S
  <2>1. m - 1 \in S => (m - 1) + 1 \in S
    OBVIOUS
  <2>2. (m - 1) + 1 = m
    OBVIOUS
  <2>3. QED
    BY <2>1, <2>2
<1>4. <<m - 1, m>> \in R
  BY <1>2
<1>5. QED
  BY <1>1, <1>2, <1>3, <1>4

\* Decoded is computed by the function that defines it.
LEMMA DecodedFunction ==
    ASSUME NEW b \in Seq(Token)
    PROVE  \E out \in [0 .. Len(b) -> Seq(Nat)] :
             /\ out[0] = <<>>
             /\ \A n \in 1 .. Len(b) : out[n] = out[n - 1] \o b[n].part
             /\ Decoded(b) = out[Len(b)]
<1> DEFINE Unfolds(f, n) == f = [i \in 0 .. n |-> IF i = 0 THEN <<>> ELSE f[i - 1] \o b[i].part]
           S == {n \in Nat : \E f : Unfolds(f, n)}
           out == CHOOSE f : Unfolds(f, Len(b))
<1>0. Len(b) \in Nat
  OBVIOUS
<1>1. \E f : Unfolds(f, 0)
  <2>1. Unfolds([i \in 0 .. 0 |-> <<>>], 0)
    OBVIOUS
  <2>2. QED
    BY <2>1
<1>2. ASSUME NEW n \in S PROVE n + 1 \in S
  <2>1. PICK f : Unfolds(f, n)
    OBVIOUS
  <2> DEFINE g == [i \in 0 .. n + 1 |-> IF i <= n THEN f[i] ELSE f[n] \o b[n + 1].part]
  <2>2. n \in Nat /\ n + 1 \in Nat
    OBVIOUS
  <2>3. ASSUME NEW i \in 0 .. n + 1
        PROVE  g[i] = IF i = 0 THEN <<>> ELSE g[i - 1] \o b[i].part
    <3>1. CASE i = 0
      BY <2>1, <2>2, <3>1
    <3>2. CASE i \in 1 .. n
      <4>1. f[i] = f[i - 1] \o b[i].part
        BY <2>1, <2>2, <3>2
      <4>2. g[i] = f[i] /\ g[i - 1] = f[i - 1]
        BY <2>2, <3>2
      <4>3. QED
        <5> HIDE DEF g
        <5>1. i # 0
          BY <2>2, <3>2
        <5>2. QED
          BY <4>1, <4>2, <5>1
    <3>3. CASE i = n + 1
      <4>1. g[i] = f[n] \o b[n + 1].part /\ g[i - 1] = f[n]
        BY <2>2, <3>3
      <4>2. QED
        BY <2>2, <3>3, <4>1
    <3>4. QED
      BY <2>2, <3>1, <3>2, <3>3
  <2>4. Unfolds(g, n + 1)
    <3> HIDE DEF g
    <3>1. g = [i \in 0 .. n + 1 |-> g[i]]
      BY DEF g
    <3>2. QED
      BY <2>3, <3>1
  <2>5. QED
    BY <2>2, <2>4
<1>3. S = Nat
  <2> HIDE DEF Unfolds
  <2>1. S \in SUBSET Nat /\ 0 \in S
    BY <1>1
  <2> HIDE DEF S
  <2>2. QED
    BY <1>2, <2>1, Induction
<1>4. \E f : Unfolds(f, Len(b))
  <2> HIDE DEF Unfolds
  <2>1. Len(b) \in S
    BY <1>0, <1>3
  <2>2. QED
    BY <2>1
<1>5. Unfolds(out, Len(b))
  BY <1>4, Zenon
<1>6. Decoded(b) = out[Len(b)]
  BY DEF Decoded
<1> HIDE DEF out, S
<1>7. /\ out[0] = <<>>
      /\ \A n \in 1 .. Len(b) : out[n] = out[n - 1] \o b[n].part
  BY <1>0, <1>5
<1>8. \A n \in 0 .. Len(b) : out[n] \in Seq(Nat)
  <2> DEFINE T == {n \in Nat : n <= Len(b) => out[n] \in Seq(Nat)}
  <2>1. 0 \in T
    <3>1. out[0] \in Seq(Nat)
      BY <1>7, EmptySeq
    <3>2. QED
      BY <3>1
  <2>2. ASSUME NEW n \in T PROVE n + 1 \in T
    <3>1. ASSUME n + 1 <= Len(b) PROVE out[n + 1] \in Seq(Nat)
      <4>1. out[n] \in Seq(Nat) /\ n + 1 \in 1 .. Len(b) /\ (n + 1) - 1 = n
        BY <1>0, <3>1
      <4>2. b[n + 1].part \in Seq(Nat)
        <5>1. b[n + 1] \in Token
          BY <4>1, ElementOfSeq
        <5>2. QED
          BY <5>1 DEF Token
      <4>3. out[n + 1] = out[n] \o b[n + 1].part
        <5> HIDE DEF T
        <5>1. out[n + 1] = out[(n + 1) - 1] \o b[n + 1].part
          BY <1>7, <4>1
        <5>2. QED
          BY <4>1, <5>1
      <4>4. QED
        BY <4>1, <4>2, <4>3, ConcatProperties
    <3>2. QED
      BY <3>1
  <2>3. T \in SUBSET Nat
    OBVIOUS
  <2>4. T = Nat
    <3> HIDE DEF T
    <3>1. QED
      BY <2>1, <2>2, <2>3, Induction
  <2>5. QED
    BY <1>0, <2>4
<1>9. out = [n \in 0 .. Len(b) |-> out[n]]
  BY <1>5
<1>10. out \in [0 .. Len(b) -> Seq(Nat)]
  BY <1>8, <1>9
<1>11. QED
  BY <1>6, <1>7, <1>10

LEMMA DecodedType == \A b \in Seq(Token) : Decoded(b) \in Seq(Nat)
<1> SUFFICES ASSUME NEW b \in Seq(Token) PROVE Decoded(b) \in Seq(Nat)
  OBVIOUS
<1>1. Len(b) \in 0 .. Len(b)
  BY LenProperties
<1>2. QED
  BY <1>1, DecodedFunction

LEMMA Associative ==
    ASSUME NEW x \in Seq(Nat), NEW y \in Seq(Nat), NEW z \in Seq(Nat)
    PROVE  (x \o y) \o z = x \o (y \o z)
<1> DEFINE l == (x \o y) \o z
           r == x \o (y \o z)
<1>1. /\ Len(x) \in Nat /\ Len(y) \in Nat /\ Len(z) \in Nat
      /\ x \o y \in Seq(Nat) /\ Len(x \o y) = Len(x) + Len(y)
      /\ y \o z \in Seq(Nat) /\ Len(y \o z) = Len(y) + Len(z)
  BY ConcatProperties, LenProperties
<1>2. /\ l \in Seq(Nat) /\ Len(l) = Len(x) + Len(y) + Len(z)
      /\ r \in Seq(Nat) /\ Len(r) = Len(x) + Len(y) + Len(z)
  BY <1>1, ConcatProperties
<1>3. ASSUME NEW i \in 1 .. Len(l) PROVE l[i] = r[i]
  <2>1. CASE i <= Len(x)
    BY <1>1, <1>2, <2>1, ConcatProperties
  <2>2. CASE i > Len(x) /\ i <= Len(x) + Len(y)
    BY <1>1, <1>2, <2>2, ConcatProperties
  <2>3. CASE i > Len(x) + Len(y)
    BY <1>1, <1>2, <2>3, ConcatProperties
  <2>4. QED
    BY <1>1, <1>2, <2>1, <2>2, <2>3
<1> HIDE DEF l, r
<1>4. l = r
  BY <1>2, <1>3, SeqEqual
<1>5. QED
  BY <1>4 DEF l, r

\* Two blocks decode to what each of them decodes to.
LEMMA DecodedConcat ==
    ASSUME NEW s \in Seq(Token), NEW t \in Seq(Token)
    PROVE  Decoded(s \o t) = Decoded(s) \o Decoded(t)
<1>0. \A x, y, z \in Seq(Nat) : (x \o y) \o z = x \o (y \o z)
  BY Associative
<1>1. /\ Len(s) \in Nat /\ Len(t) \in Nat /\ s \o t \in Seq(Token)
      /\ Len(s \o t) = Len(s) + Len(t)
      /\ \A i \in 1 .. Len(s) : (s \o t)[i] = s[i]
      /\ \A i \in 1 .. Len(t) : (s \o t)[Len(s) + i] = t[i]
  BY ConcatProperties, LenProperties
<1>2. PICK f \in [0 .. Len(s) + Len(t) -> Seq(Nat)] :
           /\ f[0] = <<>>
           /\ \A n \in 1 .. Len(s) + Len(t) : f[n] = f[n - 1] \o (s \o t)[n].part
           /\ Decoded(s \o t) = f[Len(s) + Len(t)]
  BY <1>1, DecodedFunction
<1>3. PICK g \in [0 .. Len(s) -> Seq(Nat)] :
           /\ g[0] = <<>>
           /\ \A n \in 1 .. Len(s) : g[n] = g[n - 1] \o s[n].part
           /\ Decoded(s) = g[Len(s)]
  BY DecodedFunction
<1>4. PICK h \in [0 .. Len(t) -> Seq(Nat)] :
           /\ h[0] = <<>>
           /\ \A n \in 1 .. Len(t) : h[n] = h[n - 1] \o t[n].part
           /\ Decoded(t) = h[Len(t)]
  BY DecodedFunction
<1>5. \A n \in 0 .. Len(s) : f[n] = g[n]
  <2> DEFINE S == {n \in Nat : n <= Len(s) => f[n] = g[n]}
  <2>1. S \in SUBSET Nat /\ 0 \in S
    BY <1>2, <1>3
  <2>2. ASSUME NEW n \in S PROVE n + 1 \in S
    <3>1. ASSUME n + 1 <= Len(s) PROVE f[n + 1] = g[n + 1]
      <4>1. /\ f[n] = g[n] /\ (n + 1) - 1 = n
            /\ n + 1 \in 1 .. Len(s) /\ n + 1 \in 1 .. Len(s) + Len(t)
        BY <1>1, <3>1
      <4> HIDE DEF S
      <4>2. f[n + 1] = f[n] \o (s \o t)[n + 1].part
        BY <1>2, <4>1
      <4>3. g[n + 1] = g[n] \o s[n + 1].part
        BY <1>3, <4>1
      <4>4. QED
        BY <1>1, <4>1, <4>2, <4>3
    <3>2. QED
      BY <3>1
  <2> HIDE DEF S
  <2>3. S = Nat
    BY <2>1, <2>2, Induction
  <2>4. QED
    BY <1>1, <2>3 DEF S
<1>6. \A n \in 0 .. Len(t) : f[Len(s) + n] = g[Len(s)] \o h[n]
  <2> DEFINE S == {n \in Nat : n <= Len(t) => f[Len(s) + n] = g[Len(s)] \o h[n]}
  <2>1. S \in SUBSET Nat /\ 0 \in S
    <3>1. g[Len(s)] \in Seq(Nat) /\ f[Len(s)] = g[Len(s)] /\ Len(s) + 0 = Len(s)
      BY <1>1, <1>3, <1>5
    <3>2. g[Len(s)] \o <<>> = g[Len(s)]
      BY <3>1, ConcatEmptySeq
    <3>3. QED
      BY <1>4, <3>1, <3>2
  <2>2. ASSUME NEW n \in S PROVE n + 1 \in S
    <3>1. ASSUME n + 1 <= Len(t) PROVE f[Len(s) + (n + 1)] = g[Len(s)] \o h[n + 1]
      <4>0. n \in Nat /\ (n <= Len(t) => f[Len(s) + n] = g[Len(s)] \o h[n])
        OBVIOUS
      <4> HIDE DEF S
      <4>1. /\ f[Len(s) + n] = g[Len(s)] \o h[n] /\ (n + 1) - 1 = n
            /\ n \in 0 .. Len(t)
            /\ n + 1 \in 1 .. Len(t) /\ Len(s) + (n + 1) \in 1 .. Len(s) + Len(t)
            /\ (Len(s) + (n + 1)) - 1 = Len(s) + n
        BY <1>1, <3>1, <4>0
      <4>2. f[Len(s) + (n + 1)] = f[Len(s) + n] \o (s \o t)[Len(s) + (n + 1)].part
        BY <1>2, <4>1
      <4>3. h[n + 1] = h[n] \o t[n + 1].part
        BY <1>4, <4>1
      <4>4. g[Len(s)] \in Seq(Nat) /\ h[n] \in Seq(Nat) /\ t[n + 1].part \in Seq(Nat)
        <5>1. t[n + 1] \in Token
          BY <4>1, ElementOfSeq
        <5>2. t[n + 1].part \in Seq(Nat)
          BY <5>1 DEF Token
        <5>3. Len(s) \in 0 .. Len(s)
          BY <1>1
        <5>4. QED
          BY <1>3, <1>4, <4>1, <5>2, <5>3
      <4>5. (g[Len(s)] \o h[n]) \o t[n + 1].part = g[Len(s)] \o (h[n] \o t[n + 1].part)
        BY <1>0, <4>4, Zenon
      <4>6. QED
        BY <1>1, <4>1, <4>2, <4>3, <4>5
    <3>2. n + 1 \in Nat
      OBVIOUS
    <3>3. QED
      BY <3>1, <3>2, Zenon
  <2>3. S = Nat
    <3> HIDE DEF S
    <3>1. QED
      BY <2>1, <2>2, Induction
  <2>4. ASSUME NEW n \in 0 .. Len(t) PROVE f[Len(s) + n] = g[Len(s)] \o h[n]
    <3>1. n \in S
      BY <1>1, <2>3, n \in Nat
    <3>2. n <= Len(t)
      BY <1>1
    <3>3. QED
      BY <3>1, <3>2, Zenon
  <2>5. QED
    BY <2>4
<1>7. QED
  <2>1. Len(t) \in 0 .. Len(t)
    BY <1>1
  <2>2. f[Len(s) + Len(t)] = g[Len(s)] \o h[Len(t)]
    BY <1>6, <2>1
  <2>3. QED
    BY <1>2, <1>3, <1>4, <2>2

\* Lines decode to nothing.
LEMMA DecodedNothing ==
    ASSUME NEW b \in Seq(Token), \A i \in 1 .. Len(b) : b[i].part = <<>>
    PROVE  Decoded(b) = <<>>
<1>1. Len(b) \in Nat
  BY LenProperties
<1>2. PICK f \in [0 .. Len(b) -> Seq(Nat)] :
           /\ f[0] = <<>>
           /\ \A n \in 1 .. Len(b) : f[n] = f[n - 1] \o b[n].part
           /\ Decoded(b) = f[Len(b)]
  BY DecodedFunction
<1> DEFINE S == {n \in Nat : n <= Len(b) => f[n] = <<>>}
<1>3. S \in SUBSET Nat /\ 0 \in S
  BY <1>2
<1>4. ASSUME NEW n \in S PROVE n + 1 \in S
  <2>1. ASSUME n + 1 <= Len(b) PROVE f[n + 1] = <<>>
    <3>1. f[n] = <<>> /\ (n + 1) - 1 = n /\ n + 1 \in 1 .. Len(b)
      BY <1>1, <2>1
    <3> HIDE DEF S
    <3>2. f[n + 1] = <<>> \o <<>>
      BY <1>2, <3>1
    <3>3. QED
      BY <3>2, EmptySeq, ConcatEmptySeq
  <2>2. QED
    BY <2>1
<1> HIDE DEF S
<1>5. S = Nat
  BY <1>3, <1>4, Induction
<1>6. QED
  BY <1>1, <1>2, <1>5 DEF S

\* Bytes that are not compressed are one byte of the body each.
LEMMA DecodedUnits ==
    ASSUME NEW b \in Seq(Token), \A i \in 1 .. Len(b) : Len(b[i].part) = 1
    PROVE  Len(Decoded(b)) = Len(b)
<1>1. Len(b) \in Nat
  BY LenProperties
<1>2. PICK f \in [0 .. Len(b) -> Seq(Nat)] :
           /\ f[0] = <<>>
           /\ \A n \in 1 .. Len(b) : f[n] = f[n - 1] \o b[n].part
           /\ Decoded(b) = f[Len(b)]
  BY DecodedFunction
<1> DEFINE S == {n \in Nat : n <= Len(b) => Len(f[n]) = n}
<1>3. S \in SUBSET Nat /\ 0 \in S
  BY <1>2
<1>4. ASSUME NEW n \in S PROVE n + 1 \in S
  <2>1. ASSUME n + 1 <= Len(b) PROVE Len(f[n + 1]) = n + 1
    <3>1. /\ n \in Nat /\ Len(f[n]) = n /\ (n + 1) - 1 = n /\ n + 1 \in 1 .. Len(b)
          /\ f[n] \in Seq(Nat)
      BY <1>1, <2>1
    <3> HIDE DEF S
    <3>2. f[n + 1] = f[n] \o b[n + 1].part
      BY <1>2, <3>1
    <3>3. b[n + 1].part \in Seq(Nat) /\ Len(b[n + 1].part) = 1
      <4>1. b[n + 1] \in Token
        BY <3>1, ElementOfSeq
      <4>2. QED
        BY <3>1, <4>1 DEF Token
    <3>4. QED
      BY <3>1, <3>2, <3>3, ConcatProperties
  <2>2. QED
    BY <2>1
<1> HIDE DEF S
<1>5. S = Nat
  BY <1>3, <1>4, Induction
<1>6. QED
  BY <1>1, <1>2, <1>5 DEF S

-----------------------------------------------------------------------------
(* The stream and what of it decodes to the body. *)

Out(stream, k) == Decoded(SubSeq(Bytes(stream), 1, k))

\* A piece of a piece is a piece.
LEMMA Piece ==
    ASSUME NEW s \in Seq(Token), NEW a \in Nat, NEW b \in a .. Len(s),
           NEW m \in Nat \ {0}, NEW n \in m - 1 .. b - a
    PROVE  SubSeq(SubSeq(s, a + 1, b), m, n) = SubSeq(s, a + m, a + n)
<1> DEFINE t == SubSeq(s, a + 1, b)
           l == SubSeq(t, m, n)
           r == SubSeq(s, a + m, a + n)
<1>1. Len(s) \in Nat /\ \A i \in 1 .. Len(s) : s[i] \in Token
  BY LenProperties, ElementOfSeq
<1>2. \A i \in a + 1 .. b : s[i] \in Token
  BY <1>1
<1>3. t \in Seq(Token) /\ Len(t) = b - a /\ \A i \in 1 .. b - a : t[i] = s[a + i]
  <2>1. /\ t \in Seq(Token)
        /\ Len(t) = IF a + 1 <= b THEN b - (a + 1) + 1 ELSE 0
        /\ \A i \in 1 .. b - (a + 1) + 1 : t[i] = s[(a + 1) + i - 1]
    BY <1>1, <1>2, SubSeqProperties
  <2>2. QED
    BY <1>1, <2>1
<1> HIDE DEF t
<1>4. \A i \in m .. n : t[i] \in Token
  BY <1>1, <1>3
<1>5. /\ l \in Seq(Token) /\ Len(l) = n - m + 1
      /\ \A i \in 1 .. n - m + 1 : l[i] = t[m + i - 1]
  BY <1>1, <1>4, SubSeqProperties
<1>6. \A i \in a + m .. a + n : s[i] \in Token
  BY <1>1
<1>7. /\ r \in Seq(Token) /\ Len(r) = n - m + 1
      /\ \A i \in 1 .. n - m + 1 : r[i] = s[(a + m) + i - 1]
  <2> DEFINE p == a + m
             q == a + n
  <2>1. /\ p \in Int /\ q \in Int /\ \A i \in p .. q : s[i] \in Token
        /\ q - p + 1 = n - m + 1 /\ IF p <= q THEN TRUE ELSE n - m + 1 = 0
    BY <1>1, <1>6
  <2>2. r = SubSeq(s, p, q)
    OBVIOUS
  <2> HIDE DEF p, q, r
  <2>3. /\ r \in Seq(Token) /\ Len(r) = IF p <= q THEN q - p + 1 ELSE 0
        /\ \A i \in 1 .. q - p + 1 : r[i] = s[p + i - 1]
    BY <2>1, <2>2, SubSeqProperties
  <2>4. QED
    BY <2>1, <2>3 DEF p
<1>8. \A i \in 1 .. Len(l) : l[i] = r[i]
  BY <1>1, <1>3, <1>5, <1>7
<1> HIDE DEF l, r
<1>9. l = r
  BY <1>5, <1>7, <1>8, SeqEqual
<1>10. QED
  BY <1>9 DEF l, r, t

LEMMA PieceType ==
    ASSUME NEW s \in Seq(Token), NEW a \in Nat, NEW b \in a .. Len(s)
    PROVE  /\ SubSeq(s, a + 1, b) \in Seq(Token)
           /\ Len(SubSeq(s, a + 1, b)) = b - a
           /\ \A i \in 1 .. b - a : SubSeq(s, a + 1, b)[i] = s[a + i]
<1>1. Len(s) \in Nat /\ \A i \in 1 .. Len(s) : s[i] \in Token
  BY LenProperties, ElementOfSeq
<1>2. \A i \in a + 1 .. b : s[i] \in Token
  BY <1>1
<1>3. /\ SubSeq(s, a + 1, b) \in Seq(Token)
      /\ Len(SubSeq(s, a + 1, b)) = IF a + 1 <= b THEN b - (a + 1) + 1 ELSE 0
      /\ \A i \in 1 .. b - (a + 1) + 1 : SubSeq(s, a + 1, b)[i] = s[(a + 1) + i - 1]
  BY <1>1, <1>2, SubSeqProperties
<1>4. QED
  BY <1>1, <1>3

LEMMA BytesType ==
    ASSUME NEW s \in Seq(Token)
    PROVE  /\ Bytes(s) \in Seq(Token) /\ Len(Bytes(s)) = Len(s)
           /\ \A i \in 1 .. Len(s) : IF IsLine(s[i]) THEN Bytes(s)[i].part = <<>>
                                                     ELSE Bytes(s)[i] = s[i]
<1>1. Len(s) \in Nat /\ DOMAIN s = 1 .. Len(s) /\ \A i \in 1 .. Len(s) : s[i] \in Token
  BY LenProperties, ElementOfSeq
<1>2. ASSUME NEW i \in 1 .. Len(s)
      PROVE  /\ Bytes(s)[i] \in Token
             /\ IF IsLine(s[i]) THEN Bytes(s)[i].part = <<>> ELSE Bytes(s)[i] = s[i]
  <2>1. Bytes(s)[i] = IF IsLine(s[i]) THEN [s[i] EXCEPT !.part = <<>>] ELSE s[i]
    BY <1>1 DEF Bytes
  <2>2. s[i] \in Token /\ <<>> \in Seq(Nat)
    BY <1>1, EmptySeq
  <2>3. QED
    BY <2>1, <2>2 DEF Token
<1>3. Bytes(s) = [i \in 1 .. Len(s) |-> Bytes(s)[i]]
  BY <1>1 DEF Bytes
<1>4. Bytes(s) \in [1 .. Len(s) -> Token]
  BY <1>2, <1>3
<1>5. Bytes(s) \in Seq(Token) /\ Len(Bytes(s)) = Len(s)
  BY <1>1, <1>4
<1>6. QED
  BY <1>2, <1>5

\* What comes out of a part that was read is put behind what came out before it.
\* The body grows by what the next tokens decode to, and lines add nothing.
LEMMA OutConcat ==
    ASSUME NEW s \in Seq(Token), NEW k \in 0 .. Len(s), NEW m \in k .. Len(s)
    PROVE  /\ Out(s, m) = Out(s, k) \o Decoded(SubSeq(Bytes(s), k + 1, m))
           /\ SubSeq(Bytes(s), k + 1, m) \in Seq(Token)
           /\ Out(s, k) \in Seq(Nat)
<1> DEFINE b == Bytes(s)
<1>1. b \in Seq(Token) /\ Len(b) = Len(s) /\ Len(s) \in Nat
  BY BytesType, LenProperties
<1> HIDE DEF b
<1>2. SubSeq(b, 1, k) \in Seq(Token) /\ SubSeq(b, k + 1, m) \in Seq(Token)
  <2>1. SubSeq(b, 0 + 1, k) \in Seq(Token)
    BY <1>1, PieceType
  <2>2. SubSeq(b, k + 1, m) \in Seq(Token)
    BY <1>1, PieceType
  <2>3. QED
    BY <2>1, <2>2
<1>3. SubSeq(b, 1, k) \o SubSeq(b, k + 1, m) = SubSeq(b, 1, m)
  BY <1>1, ConcatAdjacentSubSeq
<1>4. Decoded(SubSeq(b, 1, m)) = Decoded(SubSeq(b, 1, k)) \o Decoded(SubSeq(b, k + 1, m))
  BY <1>2, <1>3, DecodedConcat
<1>5. Decoded(SubSeq(b, 1, k)) \in Seq(Nat)
  BY <1>2, DecodedType
<1>6. QED
  BY <1>2, <1>4, <1>5 DEF Out, b

LEMMA OutReads ==
    ASSUME NEW s \in Seq(Token), NEW k \in 0 .. Len(s), NEW m \in k .. Len(s),
           \A i \in k + 1 .. m : ~IsLine(s[i])
    PROVE  Out(s, m) = Out(s, k) \o Decoded(SubSeq(s, k + 1, m))
<1>1. Len(s) \in Nat /\ Bytes(s) \in Seq(Token) /\ Len(Bytes(s)) = Len(s)
  BY BytesType, LenProperties
<1>2. /\ SubSeq(s, k + 1, m) \in Seq(Token) /\ Len(SubSeq(s, k + 1, m)) = m - k
      /\ \A i \in 1 .. m - k : SubSeq(s, k + 1, m)[i] = s[k + i]
  BY <1>1, PieceType
<1>3. /\ SubSeq(Bytes(s), k + 1, m) \in Seq(Token)
      /\ Len(SubSeq(Bytes(s), k + 1, m)) = m - k
      /\ \A i \in 1 .. m - k : SubSeq(Bytes(s), k + 1, m)[i] = Bytes(s)[k + i]
  BY <1>1, PieceType
<1>4. \A i \in 1 .. m - k : Bytes(s)[k + i] = s[k + i]
  BY <1>1, BytesType
<1>5. SubSeq(Bytes(s), k + 1, m) = SubSeq(s, k + 1, m)
  <2> DEFINE p == SubSeq(Bytes(s), k + 1, m)
             q == SubSeq(s, k + 1, m)
  <2>1. p \in Seq(Token) /\ q \in Seq(Token) /\ Len(p) = Len(q)
    BY <1>2, <1>3
  <2>2. \A i \in 1 .. Len(p) : p[i] = q[i]
    BY <1>2, <1>3, <1>4
  <2> HIDE DEF p, q
  <2>3. p = q
    BY <2>1, <2>2, SeqEqual
  <2>4. QED
    BY <2>3 DEF p, q
<1>6. QED
  BY <1>5, OutConcat

\* Nothing comes out of lines.
LEMMA OutSkips ==
    ASSUME NEW s \in Seq(Token), NEW k \in 0 .. Len(s), NEW m \in k .. Len(s),
           \A i \in k + 1 .. m : IsLine(s[i])
    PROVE  Out(s, m) = Out(s, k)
<1> DEFINE p == SubSeq(Bytes(s), k + 1, m)
<1>1. Len(s) \in Nat /\ Bytes(s) \in Seq(Token) /\ Len(Bytes(s)) = Len(s)
  BY BytesType, LenProperties
<1>2. p \in Seq(Token) /\ Len(p) = m - k /\ \A i \in 1 .. m - k : p[i] = Bytes(s)[k + i]
  BY <1>1, PieceType
<1>3. \A i \in 1 .. m - k : Bytes(s)[k + i].part = <<>>
  BY <1>1, BytesType
<1> HIDE DEF p
<1>4. Decoded(p) = <<>>
  BY <1>1, <1>2, <1>3, DecodedNothing
<1>5. Out(s, m) = Out(s, k) \o Decoded(p) /\ Out(s, k) \in Seq(Nat)
  BY OutConcat DEF p
<1>6. QED
  BY <1>4, <1>5, ConcatEmptySeq

LEMMA OutBounds ==
    ASSUME NEW s \in Seq(Token)
    PROVE  /\ Out(s, 0) = <<>>
           /\ Out(s, Len(s)) = Decoded(Bytes(s))
           /\ \A k \in 0 .. Len(s) : IsPrefix(Out(s, k), Decoded(Bytes(s)))
<1>1. Len(s) \in Nat /\ Bytes(s) \in Seq(Token) /\ Len(Bytes(s)) = Len(s)
  BY BytesType, LenProperties
<1>2. Out(s, 0) = <<>>
  <2>1. SubSeq(Bytes(s), 1, 0) = <<>>
    BY SubSeqEmpty
  <2>2. <<>> \in Seq(Token) /\ Len(<<>>) = 0
    BY EmptySeq
  <2>3. Decoded(<<>>) = <<>>
    <3>1. ASSUME NEW e \in Seq(Token), Len(e) = 0 PROVE Decoded(e) = <<>>
      <4>1. \A i \in 1 .. Len(e) : e[i].part = <<>>
        BY <3>1
      <4>2. QED
        BY <4>1, DecodedNothing
    <3>2. QED
      BY <2>2, <3>1
  <2>4. QED
    BY <2>1, <2>3 DEF Out
<1>3. Out(s, Len(s)) = Decoded(Bytes(s))
  <2>1. SubSeq(Bytes(s), 1, Len(Bytes(s))) = Bytes(s)
    BY <1>1, SubSeqFull
  <2>2. QED
    BY <1>1, <2>1 DEF Out
<1>4. ASSUME NEW k \in 0 .. Len(s) PROVE IsPrefix(Out(s, k), Decoded(Bytes(s)))
  <2> DEFINE x == Out(s, k)
             y == Decoded(SubSeq(Bytes(s), k + 1, Len(s)))
  <2>1. /\ Out(s, Len(s)) = x \o y
        /\ SubSeq(Bytes(s), k + 1, Len(s)) \in Seq(Token) /\ x \in Seq(Nat)
    <3>1. Len(s) \in k .. Len(s)
      BY <1>1
    <3>2. QED
      BY <3>1, OutConcat
  <2>2. y \in Seq(Nat)
    BY <2>1, DecodedType
  <2> HIDE DEF x, y
  <2>3. /\ x \o y \in Seq(Nat) /\ Len(x \o y) = Len(x) + Len(y)
        /\ Len(x) \in Nat /\ Len(y) \in Nat
        /\ \A i \in 1 .. Len(x) : x[i] \in Nat /\ (x \o y)[i] = x[i]
    BY <2>1, <2>2, ConcatProperties, LenProperties, ElementOfSeq
  <2>4. /\ SubSeq(x, 1, Len(x)) \in Seq(Nat) /\ Len(SubSeq(x, 1, Len(x))) = Len(x)
        /\ \A i \in 1 .. Len(x) : SubSeq(x, 1, Len(x))[i] = x[i]
    BY <2>1, <2>3, SubSeqFull
  <2>5. /\ SubSeq(x \o y, 1, Len(x)) \in Seq(Nat) /\ Len(SubSeq(x \o y, 1, Len(x))) = Len(x)
        /\ \A i \in 1 .. Len(x) : SubSeq(x \o y, 1, Len(x))[i] = (x \o y)[i]
    <3>1. \A i \in 1 .. Len(x) : (x \o y)[i] \in Nat
      BY <2>3
    <3>2. /\ SubSeq(x \o y, 1, Len(x)) \in Seq(Nat)
          /\ Len(SubSeq(x \o y, 1, Len(x))) = IF 1 <= Len(x) THEN Len(x) - 1 + 1 ELSE 0
          /\ \A i \in 1 .. Len(x) - 1 + 1 : SubSeq(x \o y, 1, Len(x))[i] = (x \o y)[1 + i - 1]
      BY <2>3, <3>1, SubSeqProperties
    <3>3. QED
      BY <2>3, <3>2
  <2>6. SubSeq(x, 1, Len(x)) = SubSeq(x \o y, 1, Len(x))
    BY <2>3, <2>4, <2>5, SeqEqual
  <2>7. IsPrefix(x, x \o y)
    BY <2>3, <2>6 DEF IsPrefix
  <2>8. QED
    BY <1>3, <2>1, <2>7 DEF x
<1>5. QED
  BY <1>2, <1>3, <1>4

-----------------------------------------------------------------------------
(* The callback is told what the server sent, in time: as long as it was not *)
(* called, the parser stands at token k of the stream, of which a arrived.   *)

Stream == response.stream

Unread(k, a) ==
    /\ k \in 0 .. a /\ a \in 0 .. Len(Stream)
    /\ input = SubSeq(Stream, k + 1, a)
    /\ unsent = SubSeq(Stream, a + 1, Len(Stream))

Parser == [responseCode : Nat, contentLength : Int, chunked : BOOLEAN, currentChunk : Nat,
           headersDone : BOOLEAN, compressed : BOOLEAN, totalIn : Nat]

\* What the parser has of the headers before line n.
Known(h, n) ==
    /\ parser.contentLength = IF Has("length", Stream, n) THEN Len(Stream) - h ELSE -1
    /\ parser.chunked <=> Has("chunked", Stream, n)
    /\ parser.compressed <=> Has("gzip", Stream, n)

InHeaders(h, k) ==
    /\ k < h
    /\ Known(h, k + 1)
    /\ ~parser.headersDone
    /\ parser.responseCode = 0 <=> k = 0
    /\ parser.currentChunk = 0 /\ parser.totalIn = 0
    /\ nextRead = 0
    /\ connection = "up" => readline /\ buffer = <<>>
    /\ connection # "up" => k = 0 /\ ~reading

\* A line is read only where there is one: the size of a chunk, or the end of one.
AtSize(k) ==
    \/ k + 1 <= Len(Stream) /\ Stream[k + 1].kind = "size"
    \/ k + 2 <= Len(Stream) /\ Stream[k + 1].kind = "blank" /\ Stream[k + 2].kind = "size"

InChunk(k, n) ==
    /\ n \in 1 .. nextRead
    /\ k + n + 2 <= Len(Stream)
    /\ \A i \in k + 1 .. k + n : ~IsLine(Stream[i])
    /\ Stream[k + n + 1].kind = "blank" /\ Stream[k + n + 2].kind = "size"

InBody(h, k) ==
    /\ k >= h
    /\ Known(h, h)
    /\ parser.headersDone /\ parser.responseCode # 0
    /\ connection = "up"
    /\ buffer = Out(Stream, k)
    /\ IF parser.chunked
       THEN IF readline THEN parser.currentChunk = 0 /\ AtSize(k)
                        ELSE InChunk(k, parser.currentChunk)
       ELSE /\ ~readline /\ nextRead = 0
            /\ parser.totalIn = k - h
            /\ parser.contentLength # -1 => k < Len(Stream)
            /\ parser.compressed \/ Len(buffer) = k - h

Reads(h, k, a) ==
    /\ h \in 2 .. Len(Stream) /\ Framed(response.framing, Stream, h)
    /\ Unread(k, a)
    /\ parser \in Parser /\ nextRead \in Nat
    /\ reading \/ k = a
    /\ InHeaders(h, k) \/ InBody(h, k)

Truth(body) ==
    \/ body = response.body
    \/ IsPrefix(body, response.body) /\ gone = "disconnected" /\ unsent # <<>>

Pending ==
    /\ callback = TRUE /\ reports = <<>>
    /\ connection = "deleted" \/ \E h, k, a : Reads(h, k, a)

Told ==
    /\ callback = FALSE
    /\ \E r : reports = <<r>> /\ (r.what = "done" => Truth(r.body))

BodyInv ==
    /\ Stream \in Seq(Token) /\ response.body = Decoded(Bytes(Stream))
    /\ gone # "no" => connection = "deleted"
    /\ Pending \/ Told

LEMMA BodyInit == (\A r \in Responses : WellFormed(r)) /\ Init => BodyInv
<1> SUFFICES ASSUME \A r \in Responses : WellFormed(r), Init PROVE BodyInv
  OBVIOUS
<1>1. WellFormed(response)
  BY DEF Init
<1>2. /\ Stream \in Seq(Token) /\ response.body = Decoded(Bytes(Stream))
      /\ \E h \in 2 .. Len(Stream) : Framed(response.framing, Stream, h)
  BY <1>1 DEF WellFormed, Stream
<1>3. PICK h \in 2 .. Len(Stream) : Framed(response.framing, Stream, h)
  BY <1>2
<1>4. Unread(0, 0)
  <2>1. Len(Stream) \in Nat
    BY <1>2, LenProperties
  <2>2. SubSeq(Stream, 0 + 1, 0) = <<>>
    BY SubSeqEmpty
  <2>3. SubSeq(Stream, 0 + 1, Len(Stream)) = Stream
    BY <1>2, SubSeqFull
  <2>4. QED
    BY <2>1, <2>2, <2>3 DEF Init, Unread, Stream
<1>5. InHeaders(h, 0)
  <2>1. ~Has("length", Stream, 1) /\ ~Has("chunked", Stream, 1) /\ ~Has("gzip", Stream, 1)
    BY DEF Has
  <2>2. QED
    BY <1>2, <2>1 DEF Init, InHeaders, Known
<1>6. parser \in Parser /\ nextRead \in Nat
  BY DEF Init, Parser
<1>7. Reads(h, 0, 0)
  BY <1>3, <1>4, <1>5, <1>6 DEF Reads
<1>8. QED
  BY <1>2, <1>7 DEF Init, BodyInv, Pending

\* The rigid part.
LEMMA ResponseStays == [Next]_vars => response' = response
BY DEF Next, Get, Connected, Written, Arrive, NoMoreLines, ReadLineTooEarly, ParseLine,
       ReadChunkSize, ReadData, DecompressionError, ReadDataDone, Disconnected, Timeout,
       Delete, Deleted, serverVars, vars

\* What is told stays true: the object that told part of a body is gone.
LEMMA ToldStays ==
    ASSUME BodyInv, Told, [Next]_vars
    PROVE  Told'
<1>1. response' = response
  BY ResponseStays
<1>2. callback' = FALSE /\ reports' = reports
  BY DEF Told, Next, Get, Connected, Written, Arrive, NoMoreLines, ReadLineTooEarly, ParseLine,
       ReadChunkSize, ReadData, DecompressionError, ReadDataDone, Disconnected, Timeout,
       Delete, NoReport, OnRequestDone, OnRequestError, Report, vars
<1>3. ASSUME gone = "disconnected" PROVE gone' = gone /\ unsent' = unsent
  <2>1. connection = "deleted"
    BY <1>3 DEF BodyInv
  <2>2. UNCHANGED vars
    BY <2>1 DEF Next, Get, Connected, Written, Arrive, NoMoreLines, ReadLineTooEarly, ParseLine,
       ReadChunkSize, ReadData, DecompressionError, ReadDataDone, Disconnected, Timeout,
       Delete, TakeLine, LineMode, DataMode
  <2>3. QED
    BY <2>2 DEF vars
<1>4. QED
  BY <1>1, <1>2, <1>3 DEF Told, Truth

\* The callback is told.
LEMMA Tells ==
    ASSUME callback = TRUE, reports = <<>>, NEW what, NEW body, Report(what, body),
           what = "done" =>
             \/ body = response'.body
             \/ IsPrefix(body, response'.body) /\ gone' = "disconnected" /\ unsent' # <<>>
    PROVE  Told'
<1>1. callback' = FALSE /\ reports' = Append(<<>>, [what |-> what, body |-> body])
  BY DEF Report
<1>2. reports' = <<[what |-> what, body |-> body]>>
  BY <1>1
<1>3. QED
  BY <1>1, <1>2 DEF Told, Truth

\* Nothing follows the deletion.
LEMMA DeletedStays == connection = "deleted" /\ Next => FALSE
BY DEF Next, Get, Connected, Written, Arrive, NoMoreLines, ReadLineTooEarly, ParseLine,
       ReadChunkSize, ReadData, DecompressionError, ReadDataDone, Disconnected, Timeout,
       Delete, TakeLine, LineMode, DataMode

LEMMA GoneStays == BodyInv /\ Next => (gone' # "no" => connection' = "deleted")
<1> SUFFICES ASSUME BodyInv, Next PROVE gone' # "no" => connection' = "deleted"
  OBVIOUS
<1>1. gone = "no"
  BY DeletedStays DEF BodyInv
<1>2. QED
  BY <1>1 DEF Next, Get, Connected, Written, Arrive, NoMoreLines, ReadLineTooEarly, ParseLine,
       ReadChunkSize, ReadData, DecompressionError, ReadDataDone, Disconnected, Timeout,
       Delete, Deleted

\* What of the stream is in the buffers.
LEMMA Buffered ==
    ASSUME BodyInv, NEW k, NEW a, Unread(k, a)
    PROVE  /\ Len(Stream) \in Nat /\ k \in Nat /\ a \in Nat /\ k <= a /\ a <= Len(Stream)
           /\ \A i \in 1 .. Len(Stream) : Stream[i] \in Token
           /\ Len(input) = a - k /\ DOMAIN input = 1 .. a - k /\ input \in Seq(Token)
           /\ \A i \in 1 .. a - k : input[i] = Stream[k + i]
           /\ Len(unsent) = Len(Stream) - a /\ unsent \in Seq(Token)
           /\ input = <<>> <=> k = a
           /\ unsent = <<>> <=> a = Len(Stream)
<1>1. Stream \in Seq(Token) /\ Len(Stream) \in Nat
  BY LenProperties DEF BodyInv
<1>2. k \in Nat /\ a \in Nat /\ k <= a /\ a <= Len(Stream)
  BY <1>1 DEF Unread
<1>3. /\ input \in Seq(Token) /\ Len(input) = a - k
      /\ \A i \in 1 .. a - k : input[i] = Stream[k + i]
  BY <1>1, <1>2, PieceType DEF Unread
<1>4. unsent \in Seq(Token) /\ Len(unsent) = Len(Stream) - a
  BY <1>1, <1>2, PieceType DEF Unread
<1>5. (input = <<>> <=> k = a) /\ (unsent = <<>> <=> a = Len(Stream))
  <2>1. ASSUME NEW q \in Seq(Token) PROVE q = <<>> <=> Len(q) = 0
    BY EmptySeq
  <2>2. (input = <<>> <=> a - k = 0) /\ (unsent = <<>> <=> Len(Stream) - a = 0)
    BY <1>3, <1>4, <2>1
  <2>3. QED
    BY <1>1, <1>2, <2>2
<1>6. \A i \in 1 .. Len(Stream) : Stream[i] \in Token
  BY <1>1, ElementOfSeq
<1>7. DOMAIN input = 1 .. a - k
  BY <1>3, LenProperties
<1>8. QED
  BY <1>1, <1>2, <1>3, <1>4, <1>5, <1>6, <1>7

\* What n tokens fewer in the input are.
LEMMA Consumes ==
    ASSUME BodyInv, NEW k, NEW a, Unread(k, a), NEW n \in 0 .. a - k,
           input' = SubSeq(input, n + 1, Len(input)), unsent' = unsent, response' = response,
           NEW m, m = k + n
    PROVE  Unread(m, a)'
<1>1. /\ Len(Stream) \in Nat /\ k \in Nat /\ a \in Nat /\ k <= a /\ a <= Len(Stream)
      /\ Len(input) = a - k
  BY Buffered
<1>2. SubSeq(SubSeq(Stream, k + 1, a), n + 1, a - k) = SubSeq(Stream, k + (n + 1), k + (a - k))
  <2>1. Stream \in Seq(Token) /\ n + 1 \in Nat \ {0} /\ a - k \in (n + 1) - 1 .. a - k
        /\ a \in k .. Len(Stream)
    BY <1>1 DEF BodyInv
  <2>2. QED
    BY <1>1, <2>1, Piece
<1>3. k + (n + 1) = m + 1 /\ k + (a - k) = a /\ m \in 0 .. a
  BY <1>1
<1>4. input' = SubSeq(Stream, m + 1, a)
  BY <1>1, <1>2, <1>3 DEF Unread
<1>5. QED
  BY <1>3, <1>4 DEF Unread, Stream

\* More of the response in the input.
LEMMA PendingArrive ==
    ASSUME BodyInv, callback = TRUE, reports = <<>>, NEW h, NEW k, NEW a, Reads(h, k, a), Arrive
    PROVE  Pending'
<1>1. /\ Len(Stream) \in Nat /\ k \in Nat /\ a \in Nat /\ k <= a /\ a <= Len(Stream)
      /\ Len(unsent) = Len(Stream) - a /\ Stream \in Seq(Token)
  BY Buffered DEF Reads, BodyInv
<1>2. PICK n \in 1 .. Len(unsent) : /\ input' = input \o SubSeq(unsent, 1, n)
                                    /\ unsent' = SubSeq(unsent, n + 1, Len(unsent))
  BY DEF Arrive
<1>3. PICK b : b = a + n
  OBVIOUS
<1>4. b \in a .. Len(Stream) /\ n \in Nat
  BY <1>1, <1>2, <1>3
<1>5. SubSeq(unsent, 1, n) = SubSeq(Stream, a + 1, b)
  <2>1. SubSeq(SubSeq(Stream, a + 1, Len(Stream)), 1, n) = SubSeq(Stream, a + 1, a + n)
    BY <1>1, <1>2, Piece
  <2>2. QED
    BY <1>3, <2>1 DEF Reads, Unread
<1>6. input' = SubSeq(Stream, k + 1, b)
  <2>1. SubSeq(Stream, k + 1, a) \o SubSeq(Stream, a + 1, b) = SubSeq(Stream, k + 1, b)
    <3>1. k + 1 \in 1 .. Len(Stream) + 1 /\ a \in (k + 1) - 1 .. Len(Stream)
      BY <1>1
    <3>2. QED
      BY <1>1, <1>4, <3>1, ConcatAdjacentSubSeq
  <2>2. QED
    BY <1>2, <1>5, <2>1 DEF Reads, Unread
<1>7. unsent' = SubSeq(Stream, b + 1, Len(Stream))
  <2>1. SubSeq(SubSeq(Stream, a + 1, Len(Stream)), n + 1, Len(Stream) - a)
          = SubSeq(Stream, a + (n + 1), a + (Len(Stream) - a))
    BY <1>1, <1>2, Piece
  <2>2. a + (n + 1) = b + 1 /\ a + (Len(Stream) - a) = Len(Stream)
    BY <1>1, <1>2, <1>3
  <2>3. QED
    BY <1>1, <1>2, <2>1, <2>2 DEF Reads, Unread
<1>8. response' = response
  BY DEF Arrive
<1>9. Unread(k, b)'
  BY <1>1, <1>4, <1>6, <1>7, <1>8 DEF Unread, Stream
<1>10. Reads(h, k, b)'
  BY <1>8, <1>9 DEF Arrive, Reads, InHeaders, InBody, Known, AtSize, InChunk, Stream
<1>11. QED
  BY <1>10 DEF Arrive, Pending

\* The steps of the connection that do not touch the input.
LEMMA PendingConnection ==
    ASSUME BodyInv, callback = TRUE, reports = <<>>, NEW h, NEW k, NEW a, Reads(h, k, a),
           Get \/ Connected \/ Written
    PROVE  Pending'
<1>1. UNCHANGED <<response, unsent, input, reading, nextRead, parser, callback, reports>>
  BY DEF Get, Connected, Written, serverVars
<1>2. Unread(k, a)'
  BY <1>1 DEF Reads, Unread, Stream
<1>3. (InHeaders(h, k) \/ InBody(h, k))'
  <2>1. CASE Get
    BY <1>1, <2>1 DEF Get, Reads, InHeaders, InBody, Known, Stream
  <2>2. CASE Connected
    BY <1>1, <2>2 DEF Connected, Reads, InHeaders, InBody, Known, Stream
  <2>3. CASE Written
    BY <1>1, <2>3 DEF Written, Reads, InHeaders, InBody, Known, AtSize, InChunk, Stream
  <2>4. QED
    BY <2>1, <2>2, <2>3
<1>4. Reads(h, k, a)'
  BY <1>1, <1>2, <1>3 DEF Reads, Stream
<1>5. QED
  BY <1>1, <1>4 DEF Pending

\* A line that is taken is the next token.
LEMMA LineHere ==
    ASSUME BodyInv, NEW h, NEW k, NEW a, Reads(h, k, a), LineMode, k < a
    PROVE  IsLine(Stream[k + 1])
<1>1. /\ Len(Stream) \in Nat /\ k \in Nat /\ a \in Nat /\ a <= Len(Stream)
  BY Buffered DEF Reads
<1>2. CASE InHeaders(h, k)
  <2>1. Headers(Stream, h) /\ h \in 2 .. Len(Stream) /\ k + 1 \in 1 .. h
    BY <1>1, <1>2 DEF Reads, Framed, InHeaders
  <2>2. k + 1 = 1 \/ k + 1 = h \/ k + 1 \in 2 .. h - 1
    BY <1>1, <2>1
  <2>3. QED
    BY <2>1, <2>2 DEF Headers, IsLine
<1>3. CASE InBody(h, k)
  BY <1>3 DEF LineMode, InBody, AtSize, IsLine
<1>4. QED
  BY <1>2, <1>3 DEF Reads

LEMMA LineTaken ==
    ASSUME BodyInv, NEW h, NEW k, NEW a, Reads(h, k, a), TakeLine, UNCHANGED serverVars,
           NEW m, m = k + 1
    PROVE  k < a /\ NextLine = Stream[k + 1] /\ Unread(m, a)'
<1>1. /\ Len(Stream) \in Nat /\ k \in Nat /\ a \in Nat /\ k <= a /\ a <= Len(Stream)
      /\ Len(input) = a - k /\ DOMAIN input = 1 .. a - k /\ input \in Seq(Token)
      /\ \A i \in 1 .. a - k : input[i] = Stream[k + i]
      /\ Unread(k, a)
  BY Buffered DEF Reads
<1>2. PICK l \in DOMAIN input : IsLine(input[l])
  BY DEF TakeLine, HasLine
<1>3. k < a /\ 1 \in 1 .. a - k
  BY <1>1, <1>2
<1>4. IsLine(Stream[k + 1]) /\ input[1] = Stream[k + 1]
  BY <1>1, <1>3, LineHere DEF TakeLine
<1>5. Head(input) = input[1]
  BY <1>1, <1>3
<1>6. NextLine = Stream[k + 1]
  BY <1>4, <1>5 DEF NextLine
<1> DEFINE First(n) == IsLine(input[n]) /\ \A i \in 1 .. n - 1 : ~IsLine(input[i])
           n == CHOOSE n \in DOMAIN input : First(n)
<1>7. 1 \in DOMAIN input /\ First(1)
  BY <1>1, <1>3, <1>4
<1>8. n \in DOMAIN input /\ First(n)
  <2> HIDE DEF First
  <2>1. \E i \in DOMAIN input : First(i)
    BY <1>7
  <2>2. QED
    BY <2>1
<1>9. input' = SubSeq(input, n + 1, Len(input))
  BY DEF TakeLine
<1> HIDE DEF n
<1>10. n = 1
  <2>1. n \in 1 .. a - k
    BY <1>1, <1>8
  <2>2. ~(1 \in 1 .. n - 1)
    BY <1>4, <1>8
  <2>3. QED
    BY <1>1, <2>1, <2>2
<1>11. Unread(m, a)'
  <2>1. 1 \in 0 .. a - k /\ input' = SubSeq(input, 1 + 1, Len(input))
    BY <1>1, <1>3, <1>9, <1>10
  <2>2. unsent' = unsent /\ response' = response
    BY DEF serverVars
  <2>3. QED
    BY <1>1, <2>1, <2>2, Consumes
<1>12. QED
  BY <1>3, <1>6, <1>11

\* readcb returns in line mode only when it has read everything.
LEMMA PendingNoMoreLines ==
    ASSUME BodyInv, callback = TRUE, reports = <<>>, NEW h, NEW k, NEW a, Reads(h, k, a),
           NoMoreLines
    PROVE  Pending'
<1>1. UNCHANGED <<response, unsent, input, connection, readline, nextRead, buffer, parser,
                  callback, reports>>
  BY DEF NoMoreLines, serverVars
<1>2. k = a
  <2>1. /\ Len(Stream) \in Nat /\ k \in Nat /\ a \in Nat /\ k <= a
        /\ DOMAIN input = 1 .. a - k /\ \A i \in 1 .. a - k : input[i] = Stream[k + i]
    BY Buffered DEF Reads
  <2>2. ASSUME k < a PROVE FALSE
    <3>1. IsLine(Stream[k + 1]) /\ ~HasLine
      BY <2>2, LineHere DEF NoMoreLines
    <3>2. 1 \in DOMAIN input /\ input[1] = Stream[k + 1]
      BY <2>1, <2>2
    <3>3. QED
      BY <3>1, <3>2 DEF HasLine
  <2>3. QED
    BY <2>1, <2>2
<1>3. Unread(k, a)'
  BY <1>1 DEF Reads, Unread, Stream
<1>4. (InHeaders(h, k) \/ InBody(h, k))'
  <2>1. connection = "up"
    BY DEF NoMoreLines, LineMode
  <2>2. QED
    BY <1>1, <2>1 DEF Reads, InHeaders, InBody, Known, AtSize, InChunk, Stream
<1>5. Reads(h, k, a)'
  BY <1>1, <1>2, <1>3, <1>4 DEF Reads, Stream
<1>6. QED
  BY <1>1, <1>5 DEF Pending

\* One line more is looked at.
LEMMA HasNext ==
    ASSUME NEW x, NEW s, NEW k \in Nat, k >= 1
    PROVE  Has(x, s, (k + 1) + 1) <=> Has(x, s, k + 1) \/ s[k + 1].kind = x
<1>1. 2 .. ((k + 1) + 1) - 1 = (2 .. (k + 1) - 1) \cup {k + 1}
  OBVIOUS
<1>2. QED
  BY <1>1 DEF Has

LEMMA HasNone == ASSUME NEW x, NEW s, NEW n \in {1, 2} PROVE ~Has(x, s, n)
BY DEF Has

\* One more line of the headers.
LEMMA ParsesHeader ==
    ASSUME BodyInv, NEW h, NEW k, NEW a, Reads(h, k, a), InHeaders(h, k), k + 1 < h,
           parser' = Header(Stream[k + 1]), response' = response, NEW m, m = k + 1
    PROVE  /\ parser' \in Parser /\ Known(h, m + 1)' /\ ~parser'.headersDone
           /\ parser'.responseCode # 0 /\ parser'.currentChunk = 0 /\ parser'.totalIn = 0
<1>1. /\ Len(Stream) \in Nat /\ k \in Nat /\ h \in 2 .. Len(Stream)
      /\ \A i \in 1 .. Len(Stream) : Stream[i] \in Token
      /\ parser \in Parser
  BY Buffered DEF Reads
<1> DEFINE line == Stream[k + 1]
<1>2. line \in Token /\ Stream' = Stream
  BY <1>1 DEF Stream
<1>3. line.value \in Nat
  BY <1>2 DEF Token
<1>4. CASE k = 0
  <2>1. line.kind = "status" /\ line.value > 0
    BY <1>4 DEF Reads, Framed, Headers
  <2>2. parser' = [parser EXCEPT !.responseCode = line.value]
    BY <1>4, <2>1 DEF Header, InHeaders
  <2>3. parser' \in Parser
    BY <1>1, <1>3, <2>2 DEF Parser
  <2>4. /\ parser'.contentLength = parser.contentLength /\ parser'.chunked = parser.chunked
        /\ parser'.compressed = parser.compressed /\ parser'.headersDone = parser.headersDone
        /\ parser'.currentChunk = parser.currentChunk /\ parser'.totalIn = parser.totalIn
        /\ parser'.responseCode = line.value
    BY <1>1, <2>2 DEF Parser
  <2>5. Known(h, 1)
    BY <1>4 DEF InHeaders
  <2>6. Known(h, 2)'
    BY <1>2, <2>4, <2>5, HasNone DEF Known
  <2>7. m + 1 = 2
    BY <1>4
  <2>8. QED
    BY <1>3, <2>1, <2>3, <2>4, <2>6, <2>7 DEF InHeaders
<1>5. CASE k >= 1
  <2>1. /\ k + 1 \in 2 .. h - 1 /\ parser.responseCode # 0 /\ Known(h, k + 1)
        /\ ~parser.headersDone
    BY <1>1, <1>5 DEF InHeaders
  <2>2. /\ line.kind # "blank"
        /\ line.kind = "length" => line.value = Len(Stream) - h
    BY <1>1, <2>1 DEF Reads, Framed, Headers
  <2>3. Len(Stream) - h # -1 /\ Len(Stream) - h \in Int
    BY <1>1
  <2>4. \A x : Has(x, Stream, m + 1) <=> Has(x, Stream, k + 1) \/ line.kind = x
    BY <1>1, <1>5, HasNext
  <2>5. Known(h, m + 1)' <=>
          /\ parser'.contentLength = IF Has("length", Stream, m + 1) THEN Len(Stream) - h ELSE -1
          /\ parser'.chunked <=> Has("chunked", Stream, m + 1)
          /\ parser'.compressed <=> Has("gzip", Stream, m + 1)
    BY <1>2 DEF Known
  <2>6. CASE line.kind = "length" /\ parser.contentLength = -1
    <3>1. parser' = [parser EXCEPT !.contentLength = line.value]
      BY <2>1, <2>6 DEF Header
    <3>2. QED
      BY <1>1, <1>3, <2>1, <2>2, <2>3, <2>4, <2>5, <2>6, <3>1 DEF Parser, Known, InHeaders
  <2>7. CASE line.kind = "chunked"
    <3>1. parser' = [parser EXCEPT !.chunked = TRUE]
      BY <2>1, <2>7 DEF Header
    <3>2. QED
      BY <1>1, <2>1, <2>4, <2>5, <2>7, <3>1 DEF Parser, Known, InHeaders
  <2>8. CASE line.kind = "gzip"
    <3>1. parser' = [parser EXCEPT !.compressed = TRUE]
      BY <2>1, <2>8 DEF Header
    <3>2. QED
      BY <1>1, <2>1, <2>4, <2>5, <2>8, <3>1 DEF Parser, Known, InHeaders
  <2>9. CASE /\ ~(line.kind = "length" /\ parser.contentLength = -1)
             /\ line.kind \notin {"chunked", "gzip"}
    <3>1. parser' = parser
      BY <2>1, <2>2, <2>9 DEF Header
    <3>2. QED
      BY <1>1, <2>1, <2>2, <2>3, <2>4, <2>5, <2>9, <3>1 DEF Parser, Known, InHeaders
  <2>10. QED
    BY <2>6, <2>7, <2>8, <2>9
<1>6. QED
  BY <1>1, <1>4, <1>5

LEMMA PendingParseLine ==
    ASSUME BodyInv, callback = TRUE, reports = <<>>, NEW h, NEW k, NEW a, Reads(h, k, a),
           ParseLine
    PROVE  Pending'
<1>1. PICK m : m = k + 1
  OBVIOUS
<1>2. /\ UNCHANGED <<response, unsent, connection, reading, nextRead, buffer, callback, reports>>
      /\ UNCHANGED serverVars
      /\ connection = "up" /\ reading /\ readline
  BY DEF ParseLine, TakeLine, LineMode, NoReport, serverVars
<1>3. InHeaders(h, k)
  BY DEF ParseLine, Reads, InBody
<1>4. k < a /\ NextLine = Stream[k + 1] /\ Unread(m, a)'
  BY <1>1, <1>2, LineTaken DEF ParseLine
<1>5. /\ Len(Stream) \in Nat /\ k \in Nat /\ a \in Nat /\ a <= Len(Stream)
      /\ h \in 2 .. Len(Stream) /\ m \in Nat
  BY <1>1, Buffered DEF Reads
<1>6. Stream' = Stream
  BY <1>2 DEF Stream
<1>7. parser' = Header(Stream[k + 1]) /\ readline' = ~(parser'.headersDone /\ ~parser.chunked)
  BY <1>4 DEF ParseLine
<1>8. parser' \in Parser /\ (InHeaders(h, m) \/ InBody(h, m))'
  <2>1. CASE k + 1 < h
    <3>1. /\ parser' \in Parser /\ Known(h, m + 1)' /\ ~parser'.headersDone
          /\ parser'.responseCode # 0 /\ parser'.currentChunk = 0 /\ parser'.totalIn = 0
      BY <1>1, <1>2, <1>3, <1>7, <2>1, ParsesHeader
    <3>2. readline'
      BY <1>7, <3>1
    <3>3. InHeaders(h, m)'
      BY <1>1, <1>2, <1>3, <1>5, <2>1, <3>1, <3>2 DEF InHeaders
    <3>4. QED
      BY <3>1, <3>3
  <2>2. CASE k + 1 = h
    <3>1. Stream[h].kind = "blank" /\ Headers(Stream, h)
      BY DEF Reads, Framed, Headers
    <3>2. parser.responseCode # 0 /\ parser \in Parser
      BY <1>5, <1>3, <2>2 DEF InHeaders, Reads
    <3>3. parser' = [parser EXCEPT !.headersDone = TRUE]
      BY <1>7, <2>2, <3>1, <3>2 DEF Header
    <3>4. /\ parser'.headersDone /\ parser'.contentLength = parser.contentLength
          /\ parser'.chunked = parser.chunked /\ parser'.compressed = parser.compressed
          /\ parser'.currentChunk = 0 /\ parser'.totalIn = 0 /\ parser'.responseCode # 0
          /\ parser' \in Parser
      BY <1>3, <3>2, <3>3 DEF Parser, InHeaders
    <3>5. Known(h, h)'
      BY <1>3, <1>6, <2>2, <3>4 DEF Known, InHeaders
    <3>6. buffer' = Out(Stream, h)
      <4>1. \A i \in 0 + 1 .. h : IsLine(Stream[i])
        <5>1. \A i \in 0 + 1 .. h : i = 1 \/ i = h \/ i \in 2 .. h - 1
          BY <1>5
        <5>2. QED
          BY <3>1, <5>1 DEF Headers, IsLine
      <4>2. Out(Stream, h) = Out(Stream, 0)
        BY <1>5, <4>1, OutSkips DEF BodyInv
      <4>3. QED
        BY <1>2, <1>3, <4>2, OutBounds DEF BodyInv, InHeaders
    <3>7. Known(h, h) /\ Framed(response.framing, Stream, h) /\ nextRead = 0 /\ buffer = <<>>
      BY <1>2, <1>3, <2>2 DEF InHeaders, Reads
    <3>8. CASE parser.chunked
      <4>1. InChunks(Stream, h)
        BY <3>7, <3>8 DEF Known, Framed
      <4>2. AtSize(h)
        BY <1>5, <4>1 DEF InChunks, AtSize
      <4>3. readline' /\ AtSize(h)'
        BY <1>6, <1>7, <3>8, <4>2 DEF AtSize
      <4>4. InBody(h, h)'
        BY <1>2, <1>5, <1>6, <3>4, <3>5, <3>6, <3>8, <4>3 DEF InBody
      <4>5. QED
        BY <1>1, <2>2, <3>4, <4>4
    <3>9. CASE ~parser.chunked
      <4>1. parser.contentLength # -1 => h < Len(Stream)
        <5>1. ASSUME parser.contentLength # -1 PROVE h < Len(Stream)
          <6>1. PICK i \in 2 .. h - 1 : Stream[i].kind = "length"
            BY <3>7, <5>1 DEF Known, Has
          <6>2. Len(Stream) - h > 0
            BY <3>7, <6>1 DEF Framed
          <6>3. QED
            BY <1>5, <6>2
        <5>2. QED
          BY <5>1
      <4>2. ~readline'
        BY <1>7, <3>4, <3>9
      <4>3. h - h = 0 /\ Len(<<>>) = 0 /\ h >= h
        BY <1>5
      <4>4. InBody(h, h)'
        BY <1>2, <1>5, <1>6, <3>4, <3>5, <3>6, <3>7, <3>9, <4>1, <4>2, <4>3 DEF InBody
      <4>5. QED
        BY <1>1, <2>2, <3>4, <4>4
    <3>10. QED
      BY <3>8, <3>9
  <2>3. QED
    BY <1>3, <1>5, <2>1, <2>2 DEF InHeaders
<1>9. Reads(h, m, a)'
  BY <1>2, <1>4, <1>6, <1>8 DEF Reads
<1>10. QED
  BY <1>2, <1>9 DEF Pending

\* A line of a chunk, or the last of all.
LEMMA PendingReadChunkSize ==
    ASSUME BodyInv, callback = TRUE, reports = <<>>, NEW h, NEW k, NEW a, Reads(h, k, a),
           ReadChunkSize
    PROVE  (Pending \/ Told)'
<1>1. PICK m : m = k + 1
  OBVIOUS
<1>2. /\ UNCHANGED <<response, unsent, connection, reading, buffer>>
      /\ UNCHANGED serverVars
      /\ connection = "up" /\ reading /\ readline /\ parser.headersDone
  BY DEF ReadChunkSize, TakeLine, LineMode, serverVars
<1>3. InBody(h, k)
  BY <1>2 DEF Reads, InHeaders
<1>4. k < a /\ NextLine = Stream[k + 1] /\ Unread(m, a)'
  BY <1>1, <1>2, LineTaken DEF ReadChunkSize
<1>5. /\ Len(Stream) \in Nat /\ k \in Nat /\ a \in Nat /\ a <= Len(Stream)
      /\ h \in 2 .. Len(Stream) /\ m \in Nat /\ k >= h
      /\ \A i \in 1 .. Len(Stream) : Stream[i] \in Token
  BY <1>1, <1>3, Buffered DEF Reads, InBody
<1>6. Stream' = Stream
  BY <1>2 DEF Stream
<1>7. parser.chunked /\ parser.currentChunk = 0 /\ AtSize(k) /\ parser \in Parser
  BY <1>2, <1>3 DEF InBody, Reads
<1>8. InChunks(Stream, h)
  BY <1>3, <1>7 DEF InBody, Known, Reads, Framed
<1>9. IsLine(Stream[k + 1])
  BY <1>7 DEF AtSize, IsLine
<1>10. Out(Stream, m) = Out(Stream, k)
  <2>1. /\ k \in 0 .. Len(Stream) /\ m \in k .. Len(Stream)
        /\ \A i \in k + 1 .. m : IsLine(Stream[i])
    BY <1>1, <1>4, <1>5, <1>9
  <2>2. QED
    BY <2>1, OutSkips DEF BodyInv
<1>11. CASE Stream[k + 1].kind = "blank"
  <2>1. UNCHANGED <<parser, readline, nextRead, callback, reports>>
    BY <1>4, <1>7, <1>11 DEF ReadChunkSize, NoReport
  <2>2. k + 2 <= Len(Stream) /\ Stream[k + 2].kind = "size"
    BY <1>7, <1>11 DEF AtSize
  <2>3. AtSize(m)'
    BY <1>1, <1>5, <1>6, <2>2 DEF AtSize
  <2>4. InBody(h, m)'
    BY <1>1, <1>2, <1>3, <1>5, <1>6, <1>7, <1>10, <2>1, <2>3 DEF InBody, Known
  <2>5. Reads(h, m, a)'
    BY <1>2, <1>4, <1>6, <2>1, <2>4 DEF Reads
  <2>6. QED
    BY <2>1, <2>5 DEF Pending
<1>12. CASE Stream[k + 1].kind = "size" /\ Stream[k + 1].value > 0
  <2> DEFINE v == Stream[k + 1].value
  <2>1. v \in Nat /\ v > 0
    BY <1>4, <1>5, <1>12 DEF Token
  <2>2. /\ parser' = [parser EXCEPT !.currentChunk = v] /\ ~readline' /\ nextRead' = v
        /\ UNCHANGED <<callback, reports>>
    BY <1>4, <1>7, <1>12 DEF ReadChunkSize, NoReport
  <2>3. IsChunk(Stream, k + 1)
    BY <1>4, <1>5, <1>8, <1>12 DEF InChunks
  <2>4. /\ m + v + 2 <= Len(Stream) /\ \A i \in m + 1 .. m + v : ~IsLine(Stream[i])
        /\ Stream[m + v + 1].kind = "blank" /\ Stream[m + v + 2].kind = "size"
    BY <1>1, <2>3 DEF IsChunk
  <2>5. /\ parser' \in Parser /\ parser'.currentChunk = v /\ parser'.chunked
        /\ parser'.headersDone = parser.headersDone
        /\ parser'.responseCode = parser.responseCode
        /\ parser'.contentLength = parser.contentLength
        /\ parser'.compressed = parser.compressed
    BY <1>7, <2>1, <2>2 DEF Parser
  <2> HIDE DEF v
  <2>6. InChunk(m, parser.currentChunk)'
    BY <1>6, <2>1, <2>2, <2>4, <2>5 DEF InChunk
  <2>7. InBody(h, m)'
    BY <1>1, <1>2, <1>3, <1>5, <1>6, <1>7, <1>10, <2>2, <2>5, <2>6 DEF InBody, Known
  <2>8. Reads(h, m, a)'
    BY <1>2, <1>4, <1>6, <2>1, <2>2, <2>5, <2>7 DEF Reads
  <2>9. QED
    BY <2>2, <2>8 DEF Pending
<1>13. CASE Stream[k + 1].kind = "size" /\ ~(Stream[k + 1].value > 0)
  <2>1. OnRequestDone(buffer)
    BY <1>4, <1>7, <1>13 DEF ReadChunkSize
  <2>2. \A i \in k + 1 .. Len(Stream) : IsLine(Stream[i])
    BY <1>4, <1>5, <1>8, <1>13 DEF InChunks
  <2>3. Out(Stream, Len(Stream)) = Out(Stream, k)
    <3>1. k \in 0 .. Len(Stream) /\ Len(Stream) \in k .. Len(Stream)
      BY <1>4, <1>5
    <3>2. QED
      BY <2>2, <3>1, OutSkips DEF BodyInv
  <2>4. buffer = response'.body
    BY <1>2, <1>3, <2>3, OutBounds DEF BodyInv, InBody
  <2>5. QED
    BY <2>1, <2>4, Tells DEF OnRequestDone
<1>14. QED
  BY <1>7, <1>11, <1>12, <1>13 DEF AtSize

\* A block is the next tokens, as many as there are or as the chunk has left.
LEMMA BlockRead ==
    ASSUME BodyInv, NEW h, NEW k, NEW a, Reads(h, k, a), DataMode, input # <<>>
    PROVE  /\ InBody(h, k) /\ k < a
           /\ \E n \in 1 .. a - k :
                /\ Block = SubSeq(Stream, k + 1, k + n) /\ Len(Block) = n
                /\ \A i \in k + 1 .. k + n : ~IsLine(Stream[i])
                /\ IF parser.chunked
                   THEN \/ n = parser.currentChunk
                        \/ n = a - k /\ n < parser.currentChunk /\ ~(Len(input) >= nextRead)
                   ELSE n = a - k
<1>1. /\ Len(Stream) \in Nat /\ k \in Nat /\ a \in Nat /\ k <= a /\ a <= Len(Stream)
      /\ Len(input) = a - k /\ (input = <<>> <=> k = a)
      /\ Stream \in Seq(Token) /\ parser \in Parser /\ nextRead \in Nat
      /\ input = SubSeq(Stream, k + 1, a)
  BY Buffered DEF Reads, Unread, BodyInv
<1>2. k < a
  BY <1>1
<1>3. InBody(h, k)
  BY DEF Reads, InHeaders, DataMode
<1>4. ASSUME NEW n \in 1 .. a - k
      PROVE  /\ SubSeq(input, 1, n) = SubSeq(Stream, k + 1, k + n)
             /\ Len(SubSeq(Stream, k + 1, k + n)) = n
  <2>1. SubSeq(SubSeq(Stream, k + 1, a), 1, n) = SubSeq(Stream, k + 1, k + n)
    <3>1. a \in k .. Len(Stream) /\ n \in 1 - 1 .. a - k
      BY <1>1
    <3>2. QED
      BY <1>1, <3>1, Piece
  <2>2. k + n \in k .. Len(Stream) /\ (k + n) - k = n
    BY <1>1
  <2>3. QED
    BY <1>1, <2>1, <2>2, PieceType
<1>5. CASE parser.chunked
  <2> DEFINE c == parser.currentChunk
  <2>1. InChunk(k, c)
    BY <1>3, <1>5 DEF InBody, DataMode
  <2>2. c \in Nat /\ c >= 1 /\ c <= nextRead /\ \A i \in k + 1 .. k + c : ~IsLine(Stream[i])
    BY <1>1, <2>1 DEF InChunk
  <2>3. Offered = IF a - k >= nextRead THEN nextRead ELSE a - k
    BY <1>1, <2>2 DEF Offered
  <2>4. CASE c <= a - k
    <3>1. Block = SubSeq(input, 1, c)
      <4>1. c < Offered \/ c = Offered
        BY <1>1, <2>2, <2>3, <2>4
      <4>2. QED
        BY <1>5, <4>1 DEF Block
    <3>2. c \in 1 .. a - k
      BY <1>1, <2>2, <2>4
    <3>3. QED
      BY <1>2, <1>3, <1>4, <1>5, <2>2, <3>1, <3>2
  <2>5. CASE ~(c <= a - k)
    <3>1. ~(a - k >= nextRead) /\ a - k < c
      BY <1>1, <2>2, <2>5
    <3>2. Offered = a - k /\ ~(c < Offered)
      BY <1>1, <2>2, <2>3, <3>1
    <3>3. Block = SubSeq(input, 1, a - k)
      BY <3>2 DEF Block
    <3>4. a - k \in 1 .. a - k /\ \A i \in k + 1 .. k + (a - k) : ~IsLine(Stream[i])
      BY <1>1, <1>2, <2>2, <3>1
    <3>5. QED
      BY <1>1, <1>2, <1>3, <1>4, <1>5, <3>1, <3>3, <3>4
  <2>6. QED
    BY <2>4, <2>5
<1>6. CASE ~parser.chunked
  <2>1. nextRead = 0 /\ k >= h
    BY <1>3, <1>6 DEF InBody
  <2>2. Block = SubSeq(input, 1, a - k)
    BY <1>1, <1>6, <2>1 DEF Block, Offered
  <2>3. InOnePiece(Stream, h)
    BY <1>3, <1>6 DEF InBody, Known, Reads, Framed
  <2>4. h \in Nat
    BY <1>1 DEF Reads
  <2>5. a - k \in 1 .. a - k /\ \A i \in k + 1 .. k + (a - k) : ~IsLine(Stream[i])
    BY <1>1, <1>2, <2>1, <2>3, <2>4 DEF InOnePiece
  <2>6. QED
    BY <1>2, <1>3, <1>4, <1>6, <2>2, <2>5
<1>7. QED
  BY <1>5, <1>6

LEMMA PendingReadData ==
    ASSUME BodyInv, callback = TRUE, reports = <<>>, NEW h, NEW k, NEW a, Reads(h, k, a),
           ReadData
    PROVE  (Pending \/ Told)'
<1>1. /\ Len(Stream) \in Nat /\ k \in Nat /\ a \in Nat /\ k <= a /\ a <= Len(Stream)
      /\ Len(input) = a - k /\ Stream \in Seq(Token) /\ parser \in Parser /\ nextRead \in Nat
      /\ h \in 2 .. Len(Stream) /\ Framed(response.framing, Stream, h) /\ Unread(k, a)
      /\ \A i \in 1 .. Len(Stream) : Stream[i] \in Token
  BY Buffered DEF Reads, BodyInv
<1>2. UNCHANGED <<response, unsent, connection>> /\ Stream' = Stream
  BY DEF ReadData, serverVars, Stream
<1>3. InBody(h, k) /\ k < a
  BY BlockRead DEF ReadData
<1>4. PICK n \in 1 .. a - k :
           /\ Block = SubSeq(Stream, k + 1, k + n) /\ Len(Block) = n
           /\ \A i \in k + 1 .. k + n : ~IsLine(Stream[i])
           /\ IF parser.chunked
              THEN \/ n = parser.currentChunk
                   \/ n = a - k /\ n < parser.currentChunk /\ ~(Len(input) >= nextRead)
              ELSE n = a - k
  BY BlockRead DEF ReadData
<1>5. PICK m : m = k + n
  OBVIOUS
<1>6. m \in k .. Len(Stream) /\ m \in Nat /\ m <= a /\ n \in Nat /\ k \in 0 .. Len(Stream)
      /\ k >= h
  BY <1>1, <1>3, <1>4, <1>5 DEF InBody
<1>7. Unread(m, a)'
  <2>1. n \in 0 .. a - k
    BY <1>1, <1>4
  <2>2. input' = SubSeq(input, n + 1, Len(input))
    BY <1>4 DEF ReadData
  <2>3. QED
    BY <1>1, <1>2, <1>5, <2>1, <2>2, Consumes
<1>8. buffer' = buffer \o Decoded(Block) /\ buffer' = Out(Stream, m)
  <2>1. Out(Stream, m) = Out(Stream, k) \o Decoded(SubSeq(Stream, k + 1, m))
    BY <1>1, <1>4, <1>5, <1>6, OutReads
  <2>2. QED
    BY <1>3, <1>4, <1>5, <2>1 DEF ReadData, InBody
<1>9. /\ parser' \in Parser /\ parser'.totalIn = parser.totalIn + n
      /\ parser'.currentChunk = IF parser.chunked THEN parser.currentChunk - n
                                                  ELSE parser.currentChunk
      /\ parser'.chunked = parser.chunked /\ parser'.headersDone = parser.headersDone
      /\ parser'.responseCode = parser.responseCode
      /\ parser'.contentLength = parser.contentLength
      /\ parser'.compressed = parser.compressed
  <2>1. parser' = [parser EXCEPT !.totalIn = @ + n,
                                 !.currentChunk = IF parser.chunked THEN @ - n ELSE @]
    BY <1>4 DEF ReadData
  <2>2. parser.currentChunk \in Nat /\ parser.totalIn \in Nat /\ n \in Nat
    BY <1>1, <1>6 DEF Parser
  <2>3. parser.totalIn + n \in Nat
    BY <2>2
  <2>4. CASE parser.chunked
    <3>1. parser.currentChunk - n \in Nat
      BY <1>4, <2>2, <2>4
    <3>2. parser' = [parser EXCEPT !.totalIn = parser.totalIn + n,
                                   !.currentChunk = parser.currentChunk - n]
      BY <2>1, <2>4
    <3> DEFINE t == parser.totalIn + n
               c == parser.currentChunk - n
    <3>3. t \in Nat /\ c \in Nat /\ parser' = [parser EXCEPT !.totalIn = t, !.currentChunk = c]
      BY <2>3, <3>1, <3>2
    <3> HIDE DEF t, c
    <3>4. /\ parser' \in Parser /\ parser'.totalIn = t /\ parser'.currentChunk = c
          /\ parser'.chunked = parser.chunked /\ parser'.headersDone = parser.headersDone
          /\ parser'.responseCode = parser.responseCode
          /\ parser'.contentLength = parser.contentLength
          /\ parser'.compressed = parser.compressed
      BY <1>1, <3>3 DEF Parser
    <3>5. QED
      BY <2>4, <3>4 DEF t, c
  <2>5. CASE ~parser.chunked
    <3>1. parser' = [parser EXCEPT !.totalIn = parser.totalIn + n,
                                   !.currentChunk = parser.currentChunk]
      BY <2>1, <2>5
    <3> DEFINE t == parser.totalIn + n
    <3>2. t \in Nat /\ parser' = [parser EXCEPT !.totalIn = t,
                                               !.currentChunk = parser.currentChunk]
      BY <2>3, <3>1
    <3> HIDE DEF t
    <3>3. /\ parser' \in Parser /\ parser'.totalIn = t
          /\ parser'.currentChunk = parser.currentChunk
          /\ parser'.chunked = parser.chunked /\ parser'.headersDone = parser.headersDone
          /\ parser'.responseCode = parser.responseCode
          /\ parser'.contentLength = parser.contentLength
          /\ parser'.compressed = parser.compressed
      BY <1>1, <2>2, <3>2 DEF Parser
    <3>4. QED
      BY <2>5, <3>3 DEF t
  <2>6. QED
    BY <2>4, <2>5
<1>10. /\ nextRead' = IF nextRead > 0 /\ Len(input) >= nextRead THEN 0 ELSE nextRead
       /\ nextRead' \in Nat
       /\ readline' = (parser.chunked /\ parser'.currentChunk = 0)
       /\ reading' = (input' # <<>> /\ readline')
  BY <1>1 DEF ReadData
<1>11. input' = <<>> <=> m = a
  <2>1. input' = SubSeq(Stream, m + 1, a)
    BY <1>2, <1>7 DEF Unread
  <2>2. a \in m .. Len(Stream)
    BY <1>1, <1>6
  <2>3. input' \in Seq(Token) /\ Len(input') = a - m
    BY <1>1, <1>6, <2>1, <2>2, PieceType
  <2>4. ASSUME NEW q \in Seq(Token) PROVE q = <<>> <=> Len(q) = 0
    BY EmptySeq
  <2>5. QED
    BY <1>1, <1>6, <2>3, <2>4
<1>12. Known(h, h)' /\ m >= h /\ h \in Nat
  BY <1>1, <1>2, <1>3, <1>6, <1>9 DEF Known, InBody
<1>13. CASE parser.chunked
  <2>1. parser.contentLength = -1
    BY <1>1, <1>3, <1>13 DEF InBody, Known, Framed
  <2>2. ~LengthReached(parser', buffer')
    BY <1>9, <2>1 DEF LengthReached
  <2>3. UNCHANGED <<callback, reports>>
    BY <2>2 DEF ReadData, NoReport
  <2>4. InChunk(k, parser.currentChunk)
    BY <1>3, <1>13 DEF InBody, ReadData, DataMode
  <2>5. CASE n = parser.currentChunk
    <3>1. parser'.currentChunk = 0 /\ readline' /\ parser'.chunked
      <4>1. n - n = 0
        BY <1>6
      <4>2. parser'.currentChunk = 0
        BY <1>9, <1>13, <2>5, <4>1
      <4>3. QED
        BY <1>9, <1>10, <1>13, <4>2
    <3>2. AtSize(m)'
      BY <1>2, <1>5, <1>6, <2>4, <2>5 DEF InChunk, AtSize
    <3>3. reading' \/ m = a
      BY <1>10, <1>11, <3>1
    <3>4. InBody(h, m)'
      BY <1>2, <1>3, <1>8, <1>9, <1>12, <3>1, <3>2 DEF InBody
    <3>5. Reads(h, m, a)'
      BY <1>1, <1>2, <1>7, <1>9, <1>10, <3>3, <3>4 DEF Reads
    <3>6. QED
      BY <2>3, <3>5 DEF Pending
  <2>6. CASE n = a - k /\ n < parser.currentChunk /\ ~(Len(input) >= nextRead)
    <3>1. m = a
      BY <1>1, <1>5, <2>6
    <3>2. PICK c : c = parser.currentChunk
      OBVIOUS
    <3>3. PICK d : d = c - n
      OBVIOUS
    <3>4. c \in Nat /\ d \in Nat /\ d > 0 /\ m + d = k + c /\ d <= c
      <4>1. c \in Nat /\ n < c
        BY <1>1, <2>6, <3>2 DEF Parser
      <4>2. n \in Nat /\ k \in Nat
        BY <1>1, <1>6
      <4>3. QED
        BY <1>5, <3>3, <4>1, <4>2
    <3>5. parser'.currentChunk = d /\ parser'.chunked
      BY <1>9, <1>13, <3>2, <3>3
    <3>6. ~readline'
      <4>1. d # 0
        BY <3>4
      <4>2. QED
        BY <1>10, <3>5, <4>1
    <3>7. nextRead' = nextRead
      BY <1>10, <2>6
    <3>8. InChunk(m, d)'
      <4>1. /\ c \in 1 .. nextRead /\ k + c + 2 <= Len(Stream)
            /\ \A i \in k + 1 .. k + c : ~IsLine(Stream[i])
            /\ Stream[k + c + 1].kind = "blank" /\ Stream[k + c + 2].kind = "size"
        BY <2>4, <3>2 DEF InChunk
      <4>2. d \in 1 .. nextRead
        BY <1>1, <3>4, <4>1
      <4>3. \A i \in m + 1 .. m + d : ~IsLine(Stream[i])
        <5>1. k \in Nat /\ m \in Nat /\ k <= m
          BY <1>1, <1>6
        <5>2. \A i \in m + 1 .. m + d : i \in k + 1 .. k + c
          BY <3>4, <5>1
        <5>3. QED
          BY <4>1, <5>2
      <4>4. QED
        BY <1>2, <3>4, <3>7, <4>1, <4>2, <4>3 DEF InChunk
    <3>9. InChunk(m, parser.currentChunk)'
      BY <3>5, <3>8 DEF InChunk
    <3>10. InBody(h, m)'
      BY <1>2, <1>3, <1>8, <1>9, <1>12, <3>5, <3>6, <3>9 DEF InBody
    <3>11. Reads(h, m, a)'
      BY <1>1, <1>2, <1>7, <1>9, <1>10, <3>1, <3>10 DEF Reads
    <3>12. QED
      BY <2>3, <3>11 DEF Pending
  <2>7. QED
    BY <1>4, <1>13, <2>5, <2>6
<1>14. CASE ~parser.chunked
  <2>1. m = a /\ n = a - k
    BY <1>1, <1>4, <1>5, <1>14
  <2>2. ~readline' /\ nextRead' = 0 /\ nextRead = 0 /\ parser.totalIn = k - h
    BY <1>3, <1>10, <1>14 DEF InBody
  <2>3. parser'.totalIn = m - h
    BY <1>1, <1>5, <1>6, <1>9, <2>2
  <2>4. parser.compressed \/ Len(buffer') = m - h
    <3>1. ASSUME ~parser.compressed PROVE Len(buffer') = m - h
      <4>1. Len(buffer) = k - h
        BY <1>3, <1>14, <3>1 DEF InBody
      <4>2. ~Has("gzip", Stream, h)
        BY <1>3, <3>1 DEF InBody, Known
      <4>3. \A i \in h + 1 .. Len(Stream) : IsLine(Stream[i]) \/ Len(Stream[i].part) = 1
        BY <1>1, <4>2 DEF Framed
      <4>4. /\ Block \in Seq(Token) /\ Len(Block) = n
            /\ \A i \in 1 .. n : Block[i] = Stream[k + i]
        <5>1. m - k = n /\ Block = SubSeq(Stream, k + 1, m)
          BY <1>1, <1>4, <1>5, <1>6
        <5>2. QED
          BY <1>1, <1>6, <5>1, PieceType
      <4>5. ASSUME NEW i \in 1 .. n PROVE Len(Block[i].part) = 1
        <5>1. k + i \in h + 1 .. Len(Stream) /\ k + i \in k + 1 .. k + n
          BY <1>1, <1>5, <1>6
        <5>2. QED
          BY <1>4, <4>3, <4>4, <5>1
      <4>6. Len(Decoded(Block)) = n
        BY <4>4, <4>5, DecodedUnits
      <4>7. buffer \in Seq(Nat) /\ Decoded(Block) \in Seq(Nat)
        BY <1>1, <1>3, <1>6, <4>4, OutConcat, DecodedType DEF InBody
      <4>8. Len(buffer') = Len(buffer) + Len(Decoded(Block))
        BY <1>8, <4>7, ConcatProperties
      <4>9. QED
        BY <1>1, <1>5, <1>6, <4>1, <4>6, <4>8
    <3>2. QED
      <4>1. parser.compressed \in BOOLEAN
        BY <1>1 DEF Parser
      <4>2. QED
        BY <3>1, <4>1
  <2>5. ASSUME UNCHANGED <<callback, reports>>, parser.contentLength # -1 => m < Len(Stream)
        PROVE  Pending'
    <3>1. InBody(h, m)'
      BY <1>2, <1>3, <1>8, <1>9, <1>12, <1>14, <2>2, <2>3, <2>4, <2>5 DEF InBody
    <3>2. Reads(h, m, a)'
      BY <1>1, <1>2, <1>7, <1>9, <1>10, <2>1, <3>1 DEF Reads
    <3>3. QED
      BY <2>5, <3>2 DEF Pending
  <2>6. CASE parser.contentLength = -1
    <3>1. ~LengthReached(parser', buffer')
      BY <1>9, <2>6 DEF LengthReached
    <3>2. UNCHANGED <<callback, reports>>
      BY <3>1 DEF ReadData, NoReport
    <3>3. QED
      BY <2>5, <2>6, <3>2
  <2>7. CASE parser.contentLength # -1
    <3>1. parser.contentLength = Len(Stream) - h /\ Has("length", Stream, h)
      BY <1>3, <2>7 DEF InBody, Known
    <3>2. Len(Stream) - h > 0
      BY <1>1, <3>1 DEF Framed, Has
    <3>3. LengthReached(parser', buffer') <=> m - h >= Len(Stream) - h
      BY <1>9, <2>3, <2>4, <3>1, <3>2 DEF LengthReached
    <3>4. CASE m = Len(Stream)
      <4>1. LengthReached(parser', buffer')
        BY <1>1, <1>6, <3>3, <3>4
      <4>2. Report("done", buffer')
        BY <4>1 DEF ReadData, OnRequestDone
      <4>3. buffer' = response'.body
        BY <1>1, <1>2, <1>8, <3>4, OutBounds DEF BodyInv
      <4>4. QED
        BY <4>2, <4>3, Tells
    <3>5. CASE m # Len(Stream)
      <4>1. m < Len(Stream)
        BY <1>1, <1>6, <3>5
      <4>2. ~LengthReached(parser', buffer')
        BY <1>1, <1>6, <3>3, <4>1
      <4>3. UNCHANGED <<callback, reports>>
        BY <4>2 DEF ReadData, NoReport
      <4>4. QED
        BY <2>5, <4>1, <4>3
    <3>6. QED
      BY <3>4, <3>5
  <2>8. QED
    BY <2>6, <2>7
<1>15. QED
  BY <1>13, <1>14

\* readcb returns when it has handed over everything, or at an error.
LEMMA PendingReturns ==
    ASSUME BodyInv, callback = TRUE, reports = <<>>, NEW h, NEW k, NEW a, Reads(h, k, a),
           ReadDataDone
    PROVE  Pending'
<1>1. UNCHANGED <<response, unsent, input, connection, readline, nextRead, buffer, parser,
                  callback, reports>>
  BY DEF ReadDataDone, serverVars
<1>2. k = a /\ connection = "up"
  BY Buffered DEF Reads, ReadDataDone, DataMode
<1>3. Unread(k, a)'
  BY <1>1 DEF Reads, Unread, Stream
<1>4. (InHeaders(h, k) \/ InBody(h, k))'
  BY <1>1, <1>2 DEF Reads, InHeaders, InBody, Known, AtSize, InChunk, Stream
<1>5. Reads(h, k, a)'
  BY <1>1, <1>2, <1>3, <1>4 DEF Reads, Stream
<1>6. QED
  BY <1>1, <1>5 DEF Pending

LEMMA ErrorsTold ==
    ASSUME callback = TRUE, reports = <<>>, ReadLineTooEarly \/ DecompressionError
    PROVE  Told'
<1>1. CASE ReadLineTooEarly
  BY <1>1, Tells DEF ReadLineTooEarly, OnRequestError
<1>2. CASE DecompressionError
  BY <1>2, Tells DEF DecompressionError, OnRequestError
<1>3. QED
  BY <1>1, <1>2

\* The end of the connection is the end of a body that has begun.
LEMMA PendingDisconnected ==
    ASSUME BodyInv, callback = TRUE, reports = <<>>, NEW h, NEW k, NEW a, Reads(h, k, a),
           Disconnected
    PROVE  (Pending \/ Told)'
<1>1. /\ response' = response /\ unsent' = unsent /\ connection' = "deleted"
      /\ gone' = "disconnected" /\ ~reading /\ connection \in {"connecting", "up"}
  BY DEF Disconnected, Deleted, serverVars
<1>2. CASE ~(buffer # <<>> /\ parser.responseCode # 0)
  BY <1>1, <1>2 DEF Disconnected, NoReport, Pending
<1>3. CASE buffer # <<>> /\ parser.responseCode # 0
  <2>1. InBody(h, k)
    BY <1>1, <1>3 DEF Reads, InHeaders
  <2>2. /\ Stream \in Seq(Token) /\ k = a /\ k \in 0 .. Len(Stream)
        /\ unsent = <<>> <=> a = Len(Stream)
    BY <1>1, Buffered DEF Reads, BodyInv
  <2>3. buffer = Out(Stream, k) /\ IsPrefix(buffer, response.body)
    BY <2>1, <2>2, OutBounds DEF InBody, BodyInv
  <2>4. unsent = <<>> => buffer = response.body
    BY <2>2, <2>3, OutBounds DEF BodyInv
  <2>5. Report("done", buffer)
    BY <1>3 DEF Disconnected, OnRequestDone
  <2>6. QED
    BY <1>1, <2>3, <2>4, <2>5, Tells
<1>4. QED
  BY <1>2, <1>3

LEMMA PendingDeleted ==
    ASSUME callback = TRUE, reports = <<>>, Timeout \/ Delete
    PROVE  (Pending \/ Told)'
<1>1. CASE Delete
  BY <1>1 DEF Delete, Deleted, NoReport, Pending
<1>2. CASE Timeout /\ closing
  BY <1>2 DEF Timeout, Deleted, NoReport, Pending
<1>3. CASE Timeout /\ ~closing
  BY <1>3, Tells DEF Timeout, OnRequestError
<1>4. QED
  BY <1>1, <1>2, <1>3

LEMMA BodyNext == BodyInv /\ [Next]_vars => BodyInv'
<1> SUFFICES ASSUME BodyInv, [Next]_vars PROVE BodyInv'
  OBVIOUS
<1>1. CASE UNCHANGED vars
  <2>1. ASSUME NEW h, NEW k, NEW a, Reads(h, k, a) PROVE Reads(h, k, a)'
    <3>1. Unread(k, a)'
      BY <1>1, <2>1 DEF vars, Reads, Unread, Stream
    <3>2. (InHeaders(h, k) \/ InBody(h, k))'
      BY <1>1, <2>1 DEF vars, Reads, InHeaders, InBody, Known, AtSize, InChunk, Stream
    <3>3. QED
      BY <1>1, <2>1, <3>1, <3>2 DEF vars, Reads, Stream
  <2>2. Pending => Pending'
    BY <1>1, <2>1 DEF vars, Pending
  <2>3. Told => Told'
    BY <1>1 DEF vars, Told, Truth
  <2>4. QED
    BY <1>1, <2>2, <2>3 DEF vars, BodyInv, Stream
<1>2. CASE Next
  <2>1. Stream' = Stream /\ response' = response
    BY ResponseStays DEF Stream
  <2>2. gone' # "no" => connection' = "deleted"
    BY <1>2, GoneStays
  <2>3. (Pending \/ Told)'
    <3>1. CASE Told
      BY <3>1, ToldStays
    <3>2. CASE Pending
      <4>1. callback = TRUE /\ reports = <<>>
        BY <3>2 DEF Pending
      <4>2. PICK h, k, a : Reads(h, k, a)
        BY <1>2, <3>2, DeletedStays DEF Pending
      <4>3. CASE Get \/ Connected \/ Written
        BY <4>1, <4>2, <4>3, PendingConnection
      <4>4. CASE Arrive
        BY <4>1, <4>2, <4>4, PendingArrive
      <4>5. CASE NoMoreLines
        BY <4>1, <4>2, <4>5, PendingNoMoreLines
      <4>6. CASE ReadLineTooEarly \/ DecompressionError
        BY <4>1, <4>6, ErrorsTold
      <4>7. CASE ParseLine
        BY <4>1, <4>2, <4>7, PendingParseLine
      <4>8. CASE ReadChunkSize
        BY <4>1, <4>2, <4>8, PendingReadChunkSize
      <4>9. CASE ReadData
        BY <4>1, <4>2, <4>9, PendingReadData
      <4>10. CASE ReadDataDone
        BY <4>1, <4>2, <4>10, PendingReturns
      <4>11. CASE Disconnected
        BY <4>1, <4>2, <4>11, PendingDisconnected
      <4>12. CASE Timeout \/ Delete
        BY <4>1, <4>12, PendingDeleted
      <4>13. QED
        BY <1>2, <4>3, <4>4, <4>5, <4>6, <4>7, <4>8, <4>9, <4>10, <4>11, <4>12 DEF Next
    <3>3. QED
      BY <3>1, <3>2 DEF BodyInv
  <2>4. QED
    BY <2>1, <2>2, <2>3 DEF BodyInv
<1>3. QED
  BY <1>1, <1>2

LEMMA BodyAlways == (\A r \in Responses : WellFormed(r)) => (Spec => []BodyInv)
<1> SUFFICES ASSUME \A r \in Responses : WellFormed(r) PROVE Spec => []BodyInv
  OBVIOUS
<1>1. Init => BodyInv
  BY BodyInit
<1>2. BodyInv /\ [Next]_vars => BodyInv'
  BY BodyNext
<1>3. QED
  BY <1>1, <1>2, PTL DEF Spec

\* What the callback is told: to a request that is answered in a well-formed
\* way, it is told the body as the server sent it, and all of it unless the
\* connection ended before all of it had come, however the answer is cut.
THEOREM TellsTheBody ==
    ASSUME \A r \in Responses : WellFormed(r)
    PROVE  Spec => []DoneIsTheBody
<1>1. BodyInv => DoneIsTheBody
  <2>1. Pending => DoneIsTheBody
    BY DEF Pending, DoneIsTheBody
  <2>2. ASSUME Told PROVE DoneIsTheBody
    <3>1. PICK r : reports = <<r>> /\ (r.what = "done" => Truth(r.body))
      BY <2>2 DEF Told
    <3>2. ASSUME NEW i \in DOMAIN reports PROVE reports[i] = r
      BY <3>1
    <3>3. QED
      BY <3>1, <3>2 DEF DoneIsTheBody, Truth
  <2>3. QED
    BY <2>1, <2>2 DEF BodyInv
<1>2. QED
  BY <1>1, BodyAlways, PTL

\* When it is told: nothing of a well-formed answer that says where it ends
\* waits in a buffer once readcb has seen the end of it.
THEOREM TellsInTime ==
    ASSUME \A r \in Responses : WellFormed(r)
    PROVE  Spec => []PromptlyReported
<1>1. BodyInv => PromptlyReported
  <2> SUFFICES ASSUME BodyInv, connection = "up", ~reading, unsent = <<>>,
                      response.framing # "close", Pending
               PROVE  FALSE
    <3>1. Told => reports # <<>>
      BY DEF Told
    <3>2. QED
      BY <3>1 DEF BodyInv, PromptlyReported
  <2>1. PICK h, k, a : Reads(h, k, a)
    BY DEF Pending
  <2>2. Len(Stream) \in Nat /\ k = Len(Stream) /\ h \in 2 .. Len(Stream)
    BY <2>1, Buffered DEF Reads
  <2>3. Framed(response.framing, Stream, h)
    BY <2>1 DEF Reads
  <2>4. InBody(h, k)
    BY <2>1, <2>2 DEF Reads, InHeaders
  <2>5. ~parser.chunked
    BY <2>2, <2>4 DEF InBody, AtSize, InChunk
  <2>6. Has("length", Stream, h)
    BY <2>3, <2>4, <2>5 DEF InBody, Known, Framed
  <2>7. parser.contentLength = Len(Stream) - h
    BY <2>4, <2>6 DEF InBody, Known
  <2>8. k < Len(Stream)
    BY <2>2, <2>4, <2>5, <2>7 DEF InBody
  <2>9. QED
    BY <2>2, <2>8
<1>2. QED
  BY <1>1, BodyAlways, PTL

-----------------------------------------------------------------------------
(* readcb ends, whatever it reads.                                           *)

\* A block of data is never empty: within a chunk there is something left of it.
ModeInv ==
    /\ response \in Responses
    /\ input \in Seq(Token) /\ unsent \in Seq(Token)
    /\ parser \in Parser /\ nextRead \in Nat
    /\ reading => connection = "up"
    /\ parser.chunked /\ ~readline => parser.currentChunk > 0

LEMMA SomeBlock ==
    ASSUME ModeInv, DataMode, input # <<>>
    PROVE  /\ Len(Block) \in 1 .. Len(input)
           /\ parser.chunked => Len(Block) <= parser.currentChunk
<1>1. input \in Seq(Token) /\ Len(input) \in Nat /\ Len(input) > 0
  BY LenProperties, EmptySeq DEF ModeInv
<1>2. /\ nextRead \in Nat /\ parser.currentChunk \in Nat
      /\ parser.chunked => parser.currentChunk > 0
  BY DEF ModeInv, Parser, DataMode
<1>3. Offered \in 1 .. Len(input)
  BY <1>1, <1>2 DEF Offered
<1>4. ASSUME NEW n \in 1 .. Len(input) PROVE Len(SubSeq(input, 1, n)) = n
  <2>1. n \in 0 .. Len(input) /\ n - 0 = n
    BY <1>1
  <2>2. Len(SubSeq(input, 0 + 1, n)) = n - 0
    BY <1>1, <2>1, PieceType
  <2>3. QED
    BY <2>1, <2>2
<1>5. CASE parser.chunked /\ parser.currentChunk < Offered
  <2>1. parser.currentChunk \in 1 .. Len(input)
    BY <1>1, <1>2, <1>3, <1>5
  <2>2. QED
    BY <1>4, <1>5, <2>1 DEF Block
<1>6. CASE ~(parser.chunked /\ parser.currentChunk < Offered)
  <2>1. Len(Block) = Offered
    BY <1>3, <1>4, <1>6 DEF Block
  <2>2. parser.chunked => Offered <= parser.currentChunk
    BY <1>1, <1>2, <1>3, <1>6
  <2>3. QED
    BY <1>3, <2>1, <2>2
<1>7. QED
  BY <1>5, <1>6

\* What a piece from the front leaves.
LEMMA RestShorter ==
    ASSUME NEW s \in Seq(Token), NEW n \in 1 .. Len(s)
    PROVE  /\ SubSeq(s, n + 1, Len(s)) \in Seq(Token)
           /\ Len(SubSeq(s, n + 1, Len(s))) < Len(s)
<1>1. Len(s) \in Nat
  BY LenProperties
<1>2. n \in Nat /\ Len(s) \in n .. Len(s)
  BY <1>1
<1>3. QED
  BY <1>1, <1>2, PieceType

\* There is a first line if there is a line.
LEMMA FirstLine ==
    ASSUME input \in Seq(Token), HasLine
    PROVE  \E n \in DOMAIN input : IsLine(input[n]) /\ \A m \in 1 .. n - 1 : ~IsLine(input[m])
<1> DEFINE R == {ss \in Nat \X Nat : ss[1] < ss[2]}
           lines == {i \in DOMAIN input : IsLine(input[i])}
<1>1. DOMAIN input = 1 .. Len(input) /\ Len(input) \in Nat
  BY LenProperties
<1>2. lines \subseteq Nat /\ lines # {}
  BY <1>1 DEF HasLine
<1>3. IsWellFoundedOn(R, Nat)
  BY NatLessThanWellFounded DEF OpToRel
<1>4. PICK n \in lines : \A m \in lines : ~ (<<m, n>> \in R)
  <2> HIDE DEF R, lines
  <2>1. QED
    BY <1>2, <1>3, WFMin, Zenon
<1>5. ASSUME NEW m \in 1 .. n - 1 PROVE ~IsLine(input[m])
  <2>1. n \in Nat /\ n <= Len(input) /\ m \in Nat /\ m < n
    BY <1>1, <1>4
  <2>2. <<m, n>> \in R /\ m \in DOMAIN input
    BY <1>1, <2>1
  <2>3. QED
    BY <1>4, <2>2
<1>6. QED
  BY <1>4, <1>5

LEMMA LineShorter ==
    ASSUME ModeInv, TakeLine
    PROVE  /\ input' \in Seq(Token) /\ Len(input') < Len(input)
           /\ NextLine.kind \in {"status", "length", "size"} => NextLine.value \in Nat
<1>1. input \in Seq(Token) /\ DOMAIN input = 1 .. Len(input) /\ Len(input) \in Nat
  BY LenProperties DEF ModeInv
<1> DEFINE First(n) == IsLine(input[n]) /\ \A m \in 1 .. n - 1 : ~IsLine(input[m])
           n == CHOOSE n \in DOMAIN input : First(n)
<1>2. n \in DOMAIN input
  <2>1. \E i \in DOMAIN input : First(i)
    BY <1>1, FirstLine DEF TakeLine
  <2> HIDE DEF First
  <2>2. QED
    BY <2>1
<1>3. input' = SubSeq(input, n + 1, Len(input))
  BY DEF TakeLine
<1>4. input' \in Seq(Token) /\ Len(input') < Len(input)
  <2> HIDE DEF n
  <2>1. QED
    BY <1>1, <1>2, <1>3, RestShorter
<1>5. NextLine.kind \in {"status", "length", "size"} => NextLine.value \in Nat
  <2>1. CASE IsLine(Head(input))
    <3>1. Head(input) = input[1] /\ 1 \in 1 .. Len(input)
      BY <1>1, <1>2
    <3>2. Head(input) \in Token
      BY <1>1, <3>1, ElementOfSeq
    <3>3. QED
      BY <2>1, <3>2 DEF NextLine, Token
  <2>2. CASE ~IsLine(Head(input))
    BY <2>2 DEF NextLine
  <2>3. QED
    BY <2>1, <2>2
<1>6. QED
  BY <1>4, <1>5

\* A step of readcb, and what the other steps leave alone.
ReadsOn == reading /\ reading' => Len(input') < Len(input)

LEMMA ModeLine ==
    ASSUME ModeInv, ReadLineTooEarly \/ ParseLine \/ ReadChunkSize
    PROVE  ModeInv' /\ ReadsOn
<1>1. /\ UNCHANGED <<response, unsent, connection, reading>> /\ TakeLine /\ readline
      /\ connection = "up"
  BY DEF ReadLineTooEarly, ParseLine, ReadChunkSize, TakeLine, LineMode, serverVars
<1>2. /\ input' \in Seq(Token) /\ Len(input') < Len(input)
      /\ NextLine.kind \in {"status", "length", "size"} => NextLine.value \in Nat
  BY <1>1, LineShorter
<1>3. parser \in Parser /\ nextRead \in Nat
  BY DEF ModeInv
<1>4. /\ parser' \in Parser /\ nextRead' \in Nat
      /\ parser'.chunked /\ ~readline' => parser'.currentChunk > 0
  <2>1. CASE ReadLineTooEarly
    BY <1>1, <1>3, <2>1 DEF ReadLineTooEarly
  <2>2. CASE ParseLine
    <3> DEFINE line == NextLine
    <3>1. nextRead' = nextRead /\ parser' = Header(line)
          /\ readline' = ~(parser'.headersDone /\ ~parser.chunked)
      BY <2>2 DEF ParseLine
    <3>2. line.kind \in {"status", "length"} => line.value \in Nat
      BY <1>2
    <3> HIDE DEF line
    <3>3. CASE parser.responseCode = 0 /\ line.kind = "status"
      BY <1>3, <2>2, <3>1, <3>2, <3>3 DEF Header, Parser, ParseLine
    <3>4. CASE parser.responseCode = 0 /\ line.kind # "status"
      BY <1>3, <2>2, <3>1, <3>4 DEF Header, Parser, ParseLine
    <3>5. CASE parser.responseCode # 0
      <4>1. \/ parser' = [parser EXCEPT !.headersDone = TRUE]
            \/ line.kind = "length" /\ parser' = [parser EXCEPT !.contentLength = line.value]
            \/ parser' = [parser EXCEPT !.chunked = TRUE]
            \/ parser' = [parser EXCEPT !.compressed = TRUE]
            \/ parser' = parser
        BY <3>1, <3>5 DEF Header
      <4>2. ~parser.headersDone
        BY <2>2 DEF ParseLine
      <4>3. parser' \in Parser
        <5>1. CASE line.kind = "length" /\ parser' = [parser EXCEPT !.contentLength = line.value]
          <6>1. line.value \in Int
            BY <3>2, <5>1
          <6>2. QED
            BY <1>3, <5>1, <6>1 DEF Parser
        <5>2. CASE \/ parser' = [parser EXCEPT !.headersDone = TRUE]
                   \/ parser' = [parser EXCEPT !.chunked = TRUE]
                   \/ parser' = [parser EXCEPT !.compressed = TRUE]
                   \/ parser' = parser
          BY <1>3, <5>2 DEF Parser
        <5>3. QED
          BY <4>1, <5>1, <5>2
      <4>4. parser'.headersDone => parser'.chunked = parser.chunked
        BY <1>3, <4>1, <4>2 DEF Parser
      <4>5. QED
        BY <1>3, <3>1, <4>3, <4>4
    <3>6. QED
      BY <3>3, <3>4, <3>5
  <2>3. CASE ReadChunkSize
    <3>1. CASE UNCHANGED <<parser, readline, nextRead>>
      BY <1>1, <1>3, <3>1
    <3>2. CASE /\ NextLine.kind = "size" /\ NextLine.value > 0
               /\ parser' = [parser EXCEPT !.currentChunk = NextLine.value]
               /\ nextRead' = NextLine.value
      BY <1>2, <1>3, <3>2 DEF Parser
    <3>3. QED
      BY <2>3, <3>1, <3>2 DEF ReadChunkSize
  <2>4. QED
    BY <2>1, <2>2, <2>3
<1>5. QED
  BY <1>1, <1>2, <1>4 DEF ModeInv, ReadsOn

LEMMA ModeData == ASSUME ModeInv, ReadData PROVE ModeInv' /\ ReadsOn
<1>1. /\ UNCHANGED <<response, unsent, connection>> /\ connection = "up"
      /\ DataMode /\ input # <<>>
  BY DEF ReadData, DataMode, serverVars
<1> DEFINE n == Len(Block)
<1>2. n \in 1 .. Len(input) /\ (parser.chunked => n <= parser.currentChunk)
  BY <1>1, SomeBlock
<1>3. input \in Seq(Token) /\ Len(input) \in Nat /\ parser \in Parser /\ nextRead \in Nat
  BY LenProperties DEF ModeInv
<1>4. /\ nextRead' \in Nat /\ input' = SubSeq(input, n + 1, Len(input))
      /\ parser' = [parser EXCEPT !.totalIn = @ + n,
                                  !.currentChunk = IF parser.chunked THEN @ - n ELSE @]
      /\ readline' = (parser.chunked /\ parser'.currentChunk = 0)
  BY <1>3 DEF ReadData
<1> HIDE DEF n
<1>5. n \in Nat /\ input' \in Seq(Token) /\ Len(input') < Len(input)
  BY <1>2, <1>3, <1>4, RestShorter
<1>6. parser' \in Parser /\ parser'.chunked = parser.chunked
  <2> DEFINE t == parser.totalIn + n
             c == IF parser.chunked THEN parser.currentChunk - n ELSE parser.currentChunk
  <2>1. t \in Nat /\ c \in Nat
    BY <1>2, <1>3, <1>5 DEF Parser
  <2>2. parser' = [parser EXCEPT !.totalIn = t, !.currentChunk = c]
    BY <1>4
  <2> HIDE DEF t, c
  <2>3. QED
    BY <1>3, <2>1, <2>2 DEF Parser
<1>7. parser'.chunked /\ ~readline' => parser'.currentChunk > 0
  <2>1. parser'.currentChunk \in Nat
    BY <1>6 DEF Parser
  <2>2. parser'.chunked /\ ~readline' => parser'.currentChunk # 0
    BY <1>4, <1>6
  <2>3. QED
    BY <2>1, <2>2
<1>8. QED
  BY <1>1, <1>4, <1>5, <1>6, <1>7 DEF ModeInv, ReadsOn

LEMMA ModeArrive == ASSUME ModeInv, Arrive PROVE ModeInv' /\ ReadsOn
<1>1. PICK n \in 1 .. Len(unsent) : /\ input' = input \o SubSeq(unsent, 1, n)
                                    /\ unsent' = SubSeq(unsent, n + 1, Len(unsent))
  BY DEF Arrive
<1>2. unsent \in Seq(Token) /\ input \in Seq(Token) /\ Len(unsent) \in Nat
  BY LenProperties DEF ModeInv
<1>3. unsent' \in Seq(Token)
  BY <1>1, <1>2, RestShorter
<1>4. SubSeq(unsent, 1, n) \in Seq(Token)
  <2>1. SubSeq(unsent, 0 + 1, n) \in Seq(Token)
    BY <1>2, PieceType
  <2>2. QED
    BY <2>1
<1>5. input' \in Seq(Token)
  BY <1>1, <1>2, <1>4, ConcatProperties
<1>6. QED
  BY <1>3, <1>5 DEF Arrive, ModeInv, ReadsOn

LEMMA ModeRest ==
    ASSUME ModeInv,
           \/ Get \/ Connected \/ Written \/ NoMoreLines \/ DecompressionError \/ ReadDataDone
           \/ Disconnected \/ Timeout \/ Delete \/ UNCHANGED vars
    PROVE  ModeInv' /\ (ReadsOn \/ UNCHANGED vars)
<1>1. UNCHANGED <<response, unsent, input, parser>>
  BY DEF Get, Connected, Written, NoMoreLines, DecompressionError, ReadDataDone, Disconnected,
         Timeout, Delete, Deleted, serverVars, vars
<1>2. nextRead' \in Nat
  BY DEF Get, Connected, Written, NoMoreLines, DecompressionError, ReadDataDone, Disconnected,
         Timeout, Delete, Deleted, vars, ModeInv
<1>3. readline' = readline \/ readline'
  BY DEF Get, Connected, Written, NoMoreLines, DecompressionError, ReadDataDone, Disconnected,
         Timeout, Delete, Deleted, vars
<1>4. UNCHANGED vars \/ ~reading'
  BY DEF Get, Connected, Written, NoMoreLines, DecompressionError, ReadDataDone, Disconnected,
         Timeout, Delete, Deleted, vars, ModeInv
<1>5. QED
  BY <1>1, <1>2, <1>3, <1>4 DEF ModeInv, ReadsOn, vars

LEMMA ModeNext == ModeInv /\ [Next]_vars => ModeInv' /\ [ReadsOn]_vars
<1> SUFFICES ASSUME ModeInv, [Next]_vars PROVE ModeInv' /\ [ReadsOn]_vars
  OBVIOUS
<1>1. CASE ReadLineTooEarly \/ ParseLine \/ ReadChunkSize
  BY <1>1, ModeLine
<1>2. CASE ReadData
  BY <1>2, ModeData
<1>3. CASE Arrive
  BY <1>3, ModeArrive
<1>4. CASE ~(ReadLineTooEarly \/ ParseLine \/ ReadChunkSize \/ ReadData \/ Arrive)
  BY <1>4, ModeRest DEF Next
<1>5. QED
  BY <1>1, <1>2, <1>3, <1>4

\* As long as readcb goes on, each step takes something from the input, which gets
\* nothing new meanwhile (Socket.cpp:75-109): whatever the tokens of the answer are,
\* well formed or not, its loops go round no more often than there are tokens.
THEOREM ReadTakes ==
    ASSUME \A r \in Responses : r.stream \in Seq(Token)
    PROVE  Spec => [][ReadsOn]_vars
<1>1. Init => ModeInv
  <2> SUFFICES ASSUME Init PROVE ModeInv
    OBVIOUS
  <2>1. <<>> \in Seq(Token)
    BY EmptySeq
  <2>2. QED
    BY <2>1 DEF Init, ModeInv, Parser
<1>2. ModeInv /\ [Next]_vars => ModeInv' /\ [ReadsOn]_vars
  BY ModeNext
<1>3. QED
  BY <1>1, <1>2, PTL DEF Spec
================================================================================
