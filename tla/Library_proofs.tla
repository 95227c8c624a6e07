------------------------------ MODULE Library_proofs ------------------------------
(***************************************************************************)
(* String reads back what it writes, the compressors hold nothing back, a   *)
(* File returns what its file holds and copies it, a socket has its         *)
(* settings and reads in its mode: whatever the values, the bytes, the      *)
(* sizes of the buffers and how the kernel, zlib and liblzma cut what       *)
(* passes through them.                                                     *)
(***************************************************************************)
EXTENDS Library, SequencesExt, SequenceTheorems, WellFoundedInduction, TLAPS

-----------------------------------------------------------------------------
(* WildCmp reads no pointer it must not, what it returns is right, and no step
   leads back. *)

Types ==
    /\ text \in Seq(Char) /\ wild \in Seq(Char)
    /\ str \in Nat /\ wc \in Nat /\ cp \in Nat /\ mp \in Nat
    /\ pc \in {"prefix", "scan", "tail", "done"}

\* Before the first '*' there is nothing to go back to; after it, the place to go
\* back to is at most one character ahead.
Remembered ==
    /\ cp <= str + 1
    /\ pc = "prefix" => cp = 0 /\ mp = 0
    /\ pc = "scan" /\ (cp = 0 \/ mp = 0) => At(text, str) = NUL \/ At(wild, wc) = Star

BoundsInv == Types /\ InBounds /\ Remembered

\* A character that is not the terminator lies before the end of its string.
LEMMA AtInside == ASSUME NEW s \in Seq(Char), NEW i \in 1 .. Len(s) + 1, At(s, i) # NUL
                  PROVE i \in 1 .. Len(s) /\ At(s, i) \in Char
<1>1. Len(s) \in Nat
  OBVIOUS
<1>2. i <= Len(s)
  BY <1>1 DEF At
<1>3. QED
  BY <1>1, <1>2 DEF At

\* Where a wildcard character matches a character, it is not the terminator.
LEMMA MatchInside == ASSUME Types, InBounds, At(text, str) # NUL, Match(str, wc)
                     PROVE At(wild, wc) # NUL
BY CharAssumption DEF Match

LEMMA BoundsInit == Init => BoundsInv
BY CharAssumption, StringsAssumption DEF Init, BoundsInv, Types, InBounds, Remembered

LEMMA BoundsNext == BoundsInv /\ [Next]_vars => BoundsInv'
<1> SUFFICES ASSUME BoundsInv, [Next]_vars PROVE BoundsInv'
  OBVIOUS
<1> USE CharAssumption
<1>0. Len(text) \in Nat /\ Len(wild) \in Nat
  BY DEF BoundsInv, Types
<1>1. ASSUME text' = text, wild' = wild, At(text, str) # NUL, Match(str, wc), Advance,
             pc \in {"prefix", "scan"}, At(wild, wc) # Star
      PROVE BoundsInv'
  <2>1. str \in 1 .. Len(text) /\ wc \in 1 .. Len(wild)
    BY <1>1, AtInside, MatchInside DEF BoundsInv, Types, InBounds
  <2>2. pc = "scan" => cp # 0 /\ mp # 0
    BY <1>1 DEF BoundsInv, Remembered
  <2>3. Types'
    BY <1>1, <2>1 DEF BoundsInv, Types, Advance
  <2>4. Remembered'
    BY <1>0, <1>1, <2>1, <2>2 DEF BoundsInv, Types, Remembered, Advance
  <2>5. InBounds'
    BY <1>0, <1>1, <2>1, <2>2 DEF BoundsInv, Types, InBounds, Remembered, Advance
  <2>6. QED
    BY <2>3, <2>4, <2>5 DEF BoundsInv
<1>2. ASSUME Prefix PROVE BoundsInv'
  <2>1. CASE Return(FALSE)
    BY <1>2, <2>1 DEF BoundsInv, Types, InBounds, Remembered, Prefix, Return
  <2>2. CASE (At(text, str) = NUL \/ At(wild, wc) = Star) /\ Goto("scan")
    <3>1. (At(text, str) = NUL \/ At(wild, wc) = Star)'
      BY <1>2, <2>2 DEF Prefix, Goto, At
    <3>2. QED
      BY <1>2, <2>2, <3>1 DEF BoundsInv, Types, InBounds, Remembered, Prefix, Goto
  <2>3. QED
    BY <1>1, <1>2, <2>1, <2>2 DEF Prefix
<1>3. ASSUME Scan PROVE BoundsInv'
  <2>1. CASE Goto("tail")
    BY <1>3, <2>1 DEF BoundsInv, Types, InBounds, Remembered, Scan, Goto
  <2>2. CASE At(text, str) # NUL /\ At(wild, wc) = Star /\ SeeStar
    <3>1. str \in 1 .. Len(text) /\ wc \in 1 .. Len(wild)
      BY <2>2, AtInside DEF BoundsInv, Types, InBounds
    <3>2. CASE At(wild, wc + 1) = NUL
      BY <1>0, <1>3, <2>2, <3>1, <3>2
      DEF BoundsInv, Types, InBounds, Remembered, Scan, SeeStar
    <3>3. CASE At(wild, wc + 1) # NUL
      <4>1. wc + 1 \in 1 .. Len(wild)
        BY <1>0, <3>1, <3>3, AtInside DEF BoundsInv, Types
      <4>2. QED
        BY <1>0, <1>3, <2>2, <3>1, <3>3, <4>1
        DEF BoundsInv, Types, InBounds, Remembered, Scan, SeeStar
    <3>4. QED
      BY <3>2, <3>3
  <2>3. CASE At(text, str) # NUL /\ At(wild, wc) # Star /\ ~Match(str, wc) /\ BackTrack
    <3>1. str \in 1 .. Len(text) /\ cp # 0 /\ mp # 0
      BY <1>3, <2>3, AtInside DEF BoundsInv, Types, InBounds, Scan
    <3>2. cp \in 1 .. Len(text) + 1 /\ mp \in 1 .. Len(wild)
      BY <1>0, <3>1 DEF BoundsInv, Types, InBounds, Remembered
    <3>3. QED
      BY <1>0, <1>3, <2>3, <3>1, <3>2
      DEF BoundsInv, Types, InBounds, Remembered, Scan, BackTrack
  <2>4. QED
    BY <1>1, <1>3, <2>1, <2>2, <2>3 DEF Scan
<1>4. ASSUME Tail1 PROVE BoundsInv'
  <2>1. CASE At(wild, wc) = Star /\ wc' = wc + 1 /\ UNCHANGED <<str, cp, mp, pc, ret>>
    <3>1. wc \in 1 .. Len(wild)
      BY <2>1, AtInside DEF BoundsInv, Types, InBounds
    <3>2. QED
      BY <1>0, <1>4, <2>1, <3>1 DEF BoundsInv, Types, InBounds, Remembered, Tail1
  <2>2. CASE Return(At(wild, wc) = NUL)
    BY <1>4, <2>2 DEF BoundsInv, Types, InBounds, Remembered, Tail1, Return
  <2>3. QED
    BY <1>4, <2>1, <2>2 DEF Tail1
<1>5. ASSUME UNCHANGED vars PROVE BoundsInv'
  BY <1>5 DEF BoundsInv, Types, InBounds, Remembered, At, Match, vars
<1>6. QED
  BY <1>2, <1>3, <1>4, <1>5 DEF Next

\* WildCmp follows no NULL pointer and reads nothing behind a terminator, for every
\* alphabet, text and wildcard: the loops of String.cpp:73-94 need no test of mp.
THEOREM NeverOutOfBounds == Spec => []InBounds
<1>1. BoundsInv => InBounds
  BY DEF BoundsInv
<1>2. QED
  BY BoundsInit, BoundsNext, <1>1, PTL DEF Spec

--------------------------------------------------------------------------------
(* What a wildcard matches *)

\* At the end of the wildcard the text must be at its end.
LEMMA MatchAtEnd ==
    ASSUME NEW t \in Seq(Char), NEW w \in Seq(Char), NEW i \in 1 .. Len(t) + 1
    PROVE  MatchesFrom(t, w, i, Len(w) + 1) <=> i = Len(t) + 1
<1>1. Len(t) \in Nat /\ Len(w) \in Nat
  OBVIOUS
<1>2. ASSUME i = Len(t) + 1 PROVE MatchesFrom(t, w, i, Len(w) + 1)
  <2> DEFINE f == [k \in Len(w) + 1 .. Len(w) + 1 |-> i]
  <2>1. f \in Alignments(t, w, Len(w) + 1) /\ Alignment(t, w, f, i, Len(w) + 1)
    BY <1>1, <1>2 DEF Alignments, Alignment
  <2>2. QED
    BY <2>1 DEF MatchesFrom
<1>3. QED
  BY <1>2 DEF MatchesFrom, Alignment

\* A character or '?' takes one character of the text.
LEMMA MatchOne ==
    ASSUME NEW t \in Seq(Char), NEW w \in Seq(Char),
           NEW i \in 1 .. Len(t), NEW j \in 1 .. Len(w),
           w[j] # Star, w[j] \in {t[i], Query}
    PROVE  MatchesFrom(t, w, i, j) <=> MatchesFrom(t, w, i + 1, j + 1)
<1>1. Len(t) \in Nat /\ Len(w) \in Nat
  OBVIOUS
<1>2. ASSUME MatchesFrom(t, w, i, j) PROVE MatchesFrom(t, w, i + 1, j + 1)
  <2>1. PICK f \in Alignments(t, w, j) : Alignment(t, w, f, i, j)
    BY <1>2 DEF MatchesFrom
  <2> DEFINE g == [k \in j + 1 .. Len(w) + 1 |-> f[k]]
  <2>2. g \in Alignments(t, w, j + 1)
    BY <1>1, <2>1 DEF Alignments
  <2>3. Alignment(t, w, g, i + 1, j + 1)
    BY <1>1, <2>1 DEF Alignments, Alignment
  <2>4. QED
    BY <2>2, <2>3 DEF MatchesFrom
<1>3. ASSUME MatchesFrom(t, w, i + 1, j + 1) PROVE MatchesFrom(t, w, i, j)
  <2>1. PICK g \in Alignments(t, w, j + 1) : Alignment(t, w, g, i + 1, j + 1)
    BY <1>3 DEF MatchesFrom
  <2> DEFINE f == [k \in j .. Len(w) + 1 |-> IF k = j THEN i ELSE g[k]]
  <2>2. f \in Alignments(t, w, j)
    BY <1>1, <2>1 DEF Alignments
  <2>3. Alignment(t, w, f, i, j)
    BY <1>1, <2>1 DEF Alignments, Alignment
  <2>4. QED
    BY <2>2, <2>3 DEF MatchesFrom
<1>4. QED
  BY <1>2, <1>3

\* Where it is another character there is no match.
LEMMA MatchNone ==
    ASSUME NEW t \in Seq(Char), NEW w \in Seq(Char),
           NEW i \in 1 .. Len(t) + 1, NEW j \in 1 .. Len(w),
           w[j] # Star, i = Len(t) + 1 \/ w[j] \notin {t[i], Query}
    PROVE  ~MatchesFrom(t, w, i, j)
<1>1. Len(t) \in Nat /\ Len(w) \in Nat
  OBVIOUS
<1>2. SUFFICES ASSUME NEW f \in Alignments(t, w, j), Alignment(t, w, f, i, j) PROVE FALSE
  BY DEF MatchesFrom
<1>3. f[j] = i /\ f[j + 1] = f[j] + 1 /\ w[j] \in {t[f[j]], Query}
  BY <1>1, <1>2 DEF Alignment
<1>4. f[j + 1] \in 1 .. Len(t) + 1
  BY <1>1, <1>2 DEF Alignments
<1>5. QED
  BY <1>1, <1>3, <1>4

\* A '*' takes any number of characters.
LEMMA MatchStar ==
    ASSUME NEW t \in Seq(Char), NEW w \in Seq(Char),
           NEW i \in 1 .. Len(t) + 1, NEW j \in 1 .. Len(w), w[j] = Star
    PROVE  MatchesFrom(t, w, i, j) <=> \E k \in i .. Len(t) + 1 : MatchesFrom(t, w, k, j + 1)
<1>1. Len(t) \in Nat /\ Len(w) \in Nat
  OBVIOUS
<1>2. ASSUME MatchesFrom(t, w, i, j)
      PROVE \E k \in i .. Len(t) + 1 : MatchesFrom(t, w, k, j + 1)
  <2>1. PICK f \in Alignments(t, w, j) : Alignment(t, w, f, i, j)
    BY <1>2 DEF MatchesFrom
  <2> DEFINE g == [k \in j + 1 .. Len(w) + 1 |-> f[k]]
  <2>2. f[j + 1] \in i .. Len(t) + 1
    <3>1. j + 1 \in j .. Len(w) + 1 /\ j \in j .. Len(w) + 1
      BY <1>1
    <3>2. f[j + 1] \in 1 .. Len(t) + 1 /\ f[j] \in 1 .. Len(t) + 1
      BY <2>1, <3>1 DEF Alignments
    <3>3. f[j] = i /\ f[j] <= f[j + 1]
      BY <2>1 DEF Alignment
    <3>4. QED
      BY <1>1, <3>2, <3>3
  <2>3. g \in Alignments(t, w, j + 1) /\ Alignment(t, w, g, f[j + 1], j + 1)
    BY <1>1, <2>1 DEF Alignments, Alignment
  <2>4. QED
    BY <2>2, <2>3 DEF MatchesFrom
<1>3. ASSUME NEW n \in i .. Len(t) + 1, MatchesFrom(t, w, n, j + 1)
      PROVE MatchesFrom(t, w, i, j)
  <2>1. PICK g \in Alignments(t, w, j + 1) : Alignment(t, w, g, n, j + 1)
    BY <1>3 DEF MatchesFrom
  <2> DEFINE f == [k \in j .. Len(w) + 1 |-> IF k = j THEN i ELSE g[k]]
  <2>2. f \in Alignments(t, w, j)
    BY <1>1, <2>1 DEF Alignments
  <2>3. Alignment(t, w, f, i, j)
    BY <1>1, <2>1 DEF Alignments, Alignment
  <2>4. QED
    BY <2>2, <2>3 DEF MatchesFrom
<1>4. QED
  BY <1>2, <1>3

\* The rest of an alignment is one of the rest.
LEMMA MatchRest ==
    ASSUME NEW t \in Seq(Char), NEW w \in Seq(Char),
           NEW i \in 1 .. Len(t) + 1, NEW j \in 1 .. Len(w) + 1, NEW k \in j .. Len(w) + 1,
           NEW f \in Alignments(t, w, j), Alignment(t, w, f, i, j)
    PROVE  f[k] \in 1 .. Len(t) + 1 /\ MatchesFrom(t, w, f[k], k)
<1>1. Len(t) \in Nat /\ Len(w) \in Nat
  OBVIOUS
<1> DEFINE g == [x \in k .. Len(w) + 1 |-> f[x]]
<1>2. f[k] \in 1 .. Len(t) + 1 /\ g \in Alignments(t, w, k)
  BY <1>1 DEF Alignments
<1>3. Alignment(t, w, g, f[k], k)
  BY <1>1 DEF Alignments, Alignment
<1>4. QED
  BY <1>2, <1>3 DEF MatchesFrom

--------------------------------------------------------------------------------
(* What is left to find out *)

\* From the last '*' on there is no other, so that what follows it keeps its
\* distance from it.
Rigid(t, w, i, j, k) ==
    \A n \in i .. Len(t) + 1 : \A f \in Alignments(t, w, j) :
        Alignment(t, w, f, n, j) => f[k] = n + (k - j)

Later(t, w, i, j) == \E k \in i .. Len(t) + 1 : MatchesFrom(t, w, k, j)

\* In the second loop the text matches if it does from where the pointers are, or
\* with more characters for the last '*'; the '*' before it need not be tried.
RightInv ==
    /\ pc = "prefix" => (Matches(text, wild) <=> MatchesFrom(text, wild, str, wc))
    /\ pc = "scan" /\ mp = 0 => (Matches(text, wild) <=> MatchesFrom(text, wild, str, wc))
    /\ pc = "scan" /\ mp # 0 =>
         /\ cp # 0 /\ mp <= wc /\ str + 1 = cp + (wc - mp)
         /\ Rigid(text, wild, cp, mp, wc)
         /\ Matches(text, wild) <=> \/ MatchesFrom(text, wild, str, wc)
                                    \/ Later(text, wild, cp, mp)
    /\ pc = "tail" => /\ str = Len(text) + 1
                      /\ Matches(text, wild) <=> MatchesFrom(text, wild, str, wc)
    /\ ret \in BOOLEAN
    /\ pc = "done" => (ret <=> Matches(text, wild))

\* One more character that is no '*' keeps its distance too.
LEMMA RigidNext ==
    ASSUME NEW t \in Seq(Char), NEW w \in Seq(Char), NEW i \in Nat \ {0},
           NEW j \in 1 .. Len(w), NEW k \in j .. Len(w), w[k] # Star, Rigid(t, w, i, j, k)
    PROVE  Rigid(t, w, i, j, k + 1)
<1>1. Len(t) \in Nat /\ Len(w) \in Nat
  OBVIOUS
<1>2. SUFFICES ASSUME NEW n \in i .. Len(t) + 1, NEW f \in Alignments(t, w, j),
                      Alignment(t, w, f, n, j)
               PROVE  f[k + 1] = n + (k + 1 - j)
  BY DEF Rigid
<1>3. f[k] = n + (k - j)
  BY <1>2 DEF Rigid
<1>4. f[k + 1] = f[k] + 1
  BY <1>1, <1>2 DEF Alignment
<1>5. QED
  BY <1>1, <1>3, <1>4

\* What the last '*' might still take, a '*' that has come after it can take.
LEMMA LaterEnough ==
    ASSUME NEW t \in Seq(Char), NEW w \in Seq(Char), NEW i \in Nat \ {0},
           NEW j \in 1 .. Len(w), NEW k \in j .. Len(w) + 1, Rigid(t, w, i, j, k),
           Later(t, w, i, j)
    PROVE  \E n \in i + (k - j) .. Len(t) + 1 : MatchesFrom(t, w, n, k)
<1>1. Len(t) \in Nat /\ Len(w) \in Nat
  OBVIOUS
<1>2. PICK n \in i .. Len(t) + 1 : MatchesFrom(t, w, n, j)
  BY DEF Later
<1>3. PICK f \in Alignments(t, w, j) : Alignment(t, w, f, n, j)
  BY <1>2 DEF MatchesFrom
<1>4. f[k] \in 1 .. Len(t) + 1 /\ MatchesFrom(t, w, f[k], k)
  BY <1>1, <1>2, <1>3, MatchRest
<1>5. f[k] = n + (k - j)
  BY <1>2, <1>3 DEF Rigid
<1>6. f[k] \in i + (k - j) .. Len(t) + 1
  BY <1>1, <1>2, <1>4, <1>5
<1>7. QED
  BY <1>4, <1>6

LEMMA RightInit == Init => RightInv
BY DEF Init, RightInv, Matches

\* Where both characters match, both pointers go on.
LEMMA RightAdvance ==
    ASSUME BoundsInv, RightInv, pc \in {"prefix", "scan"}, text' = text, wild' = wild,
           At(text, str) # NUL, At(wild, wc) # Star, Match(str, wc), Advance
    PROVE  RightInv'
<1>1. str \in 1 .. Len(text) /\ wc \in 1 .. Len(wild)
  BY AtInside, MatchInside, CharAssumption DEF BoundsInv, Types, InBounds
<1>2. wild[wc] # Star /\ wild[wc] \in {text[str], Query}
  BY <1>1 DEF At, Match
<1>3. MatchesFrom(text, wild, str, wc) <=> MatchesFrom(text, wild, str + 1, wc + 1)
  BY <1>1, <1>2, MatchOne DEF BoundsInv, Types
<1>4. CASE pc = "prefix" \/ mp = 0
  BY <1>3, <1>4 DEF RightInv, Advance
<1>5. CASE pc = "scan" /\ mp # 0
  <2>1. mp \in 1 .. Len(wild) /\ wc \in mp .. Len(wild) /\ cp \in Nat \ {0}
    BY <1>1, <1>5 DEF BoundsInv, Types, InBounds, RightInv
  <2>2. Rigid(text, wild, cp, mp, wc + 1)
    BY <1>2, <1>5, <2>1, RigidNext DEF BoundsInv, Types, RightInv
  <2>3. (str + 1) + 1 = cp + ((wc + 1) - mp)
    BY <1>1, <1>5, <2>1 DEF RightInv
  <2>4. QED
    BY <1>3, <1>5, <2>1, <2>2, <2>3 DEF RightInv, Advance
<1>6. QED
  BY <1>4, <1>5

LEMMA RightPrefix == BoundsInv /\ RightInv /\ Prefix => RightInv'
<1> SUFFICES ASSUME BoundsInv, RightInv, Prefix PROVE RightInv'
  OBVIOUS
<1>1. CASE At(text, str) # NUL /\ At(wild, wc) # Star /\ Match(str, wc) /\ Advance
  BY <1>1, RightAdvance DEF Prefix
<1>2. CASE At(text, str) # NUL /\ At(wild, wc) # Star /\ ~Match(str, wc) /\ Return(FALSE)
  <2>1. ~MatchesFrom(text, wild, str, wc)
    <3>1. str \in 1 .. Len(text)
      BY <1>2, AtInside DEF BoundsInv, Types, InBounds
    <3>2. CASE wc \in 1 .. Len(wild)
      <4>1. wild[wc] # Star /\ wild[wc] \notin {text[str], Query}
        BY <1>2, <3>1, <3>2 DEF At, Match
      <4>2. QED
        BY <3>1, <3>2, <4>1, MatchNone DEF BoundsInv, Types
    <3>3. CASE wc = Len(wild) + 1
      BY <3>1, <3>3, MatchAtEnd DEF BoundsInv, Types, InBounds
    <3>4. QED
      BY <3>2, <3>3 DEF BoundsInv, Types, InBounds
  <2>2. QED
    BY <1>2, <2>1 DEF Prefix, Return, RightInv
<1>3. CASE (At(text, str) = NUL \/ At(wild, wc) = Star) /\ Goto("scan")
  <2>1. mp = 0
    BY DEF Prefix, BoundsInv, Remembered
  <2>2. QED
    BY <1>3, <2>1 DEF Prefix, Goto, RightInv
<1>4. QED
  BY <1>1, <1>2, <1>3 DEF Prefix

\* At the end of the text the last '*' has nothing more to take.
LEMMA RightToTail ==
    ASSUME BoundsInv, RightInv, pc = "scan", At(text, str) = NUL, Goto("tail"),
           text' = text, wild' = wild
    PROVE  RightInv'
<1>1. str = Len(text) + 1
  BY CharAssumption, ElementOfSeq DEF BoundsInv, Types, InBounds, At
<1>2. Matches(text, wild) <=> MatchesFrom(text, wild, str, wc)
  <2>1. CASE mp = 0
    BY <2>1 DEF RightInv
  <2>2. CASE mp # 0
    <3>1. mp \in 1 .. Len(wild) /\ wc \in mp .. Len(wild) + 1 /\ cp \in Nat \ {0}
      BY <2>2 DEF BoundsInv, Types, InBounds, RightInv
    <3>2. ~Later(text, wild, cp, mp)
      <4>1. SUFFICES ASSUME Later(text, wild, cp, mp) PROVE FALSE
        OBVIOUS
      <4>2. \E n \in cp + (wc - mp) .. Len(text) + 1 : MatchesFrom(text, wild, n, wc)
        BY <2>2, <3>1, <4>1, LaterEnough DEF BoundsInv, Types, RightInv
      <4>3. cp + (wc - mp) = Len(text) + 2
        BY <1>1, <2>2 DEF BoundsInv, Types, RightInv
      <4>4. QED
        BY <4>2, <4>3 DEF BoundsInv, Types
    <3>3. QED
      BY <2>2, <3>2 DEF RightInv
  <2>3. QED
    BY <2>1, <2>2
<1>3. QED
  BY <1>1, <1>2 DEF Goto, RightInv

\* A '*' that has come takes what the one before it might still take.
LEMMA RightSeeStar ==
    ASSUME BoundsInv, RightInv, pc = "scan", At(text, str) # NUL, At(wild, wc) = Star, SeeStar,
           text' = text, wild' = wild
    PROVE  RightInv'
<1>1. str \in 1 .. Len(text) /\ wc \in 1 .. Len(wild)
  BY AtInside, CharAssumption DEF BoundsInv, Types, InBounds
<1>2. wild[wc] = Star /\ Len(text) \in Nat /\ Len(wild) \in Nat
  BY <1>1 DEF At, BoundsInv, Types
<1>3. MatchesFrom(text, wild, str, wc)
        <=> \E k \in str .. Len(text) + 1 : MatchesFrom(text, wild, k, wc + 1)
  BY <1>1, <1>2, MatchStar DEF BoundsInv, Types
<1>4. Matches(text, wild) <=> MatchesFrom(text, wild, str, wc)
  <2>1. CASE mp = 0
    BY <2>1 DEF RightInv
  <2>2. CASE mp # 0
    <3>1. mp \in 1 .. Len(wild) /\ wc \in mp .. Len(wild) /\ cp \in Nat \ {0}
      BY <1>1, <2>2 DEF BoundsInv, Types, InBounds, RightInv
    <3>2. ASSUME Later(text, wild, cp, mp) PROVE MatchesFrom(text, wild, str, wc)
      <4>1. PICK n \in cp + (wc - mp) .. Len(text) + 1 : MatchesFrom(text, wild, n, wc)
        BY <2>2, <3>1, <3>2, LaterEnough DEF BoundsInv, Types, RightInv
      <4>2. n \in str .. Len(text) + 1
        BY <1>1, <1>2, <2>2, <3>1, <4>1 DEF RightInv
      <4>3. PICK k \in n .. Len(text) + 1 : MatchesFrom(text, wild, k, wc + 1)
        BY <1>1, <1>2, <4>1, <4>2, MatchStar DEF BoundsInv, Types
      <4>4. k \in str .. Len(text) + 1
        BY <1>1, <1>2, <4>2, <4>3
      <4>5. QED
        BY <1>3, <4>3, <4>4
    <3>3. QED
      BY <2>2, <3>2 DEF RightInv
  <2>3. QED
    BY <2>1, <2>2
<1>5. CASE At(wild, wc + 1) = NUL
  <2>1. wc = Len(wild)
    BY <1>1, <1>2, <1>5, CharAssumption, ElementOfSeq DEF At, BoundsInv, Types
  <2>2. MatchesFrom(text, wild, Len(text) + 1, wc + 1)
    BY <1>2, <2>1, MatchAtEnd DEF BoundsInv, Types
  <2>3. Len(text) + 1 \in str .. Len(text) + 1
    BY <1>1, <1>2
  <2>4. Matches(text, wild)
    BY <1>3, <1>4, <2>2, <2>3
  <2>5. QED
    BY <1>5, <2>4 DEF SeeStar, RightInv
<1>6. CASE At(wild, wc + 1) # NUL
  <2>1. wc + 1 \in 1 .. Len(wild)
    BY <1>1, <1>2, <1>6, AtInside DEF BoundsInv, Types
  <2>2. Rigid(text, wild, str + 1, wc + 1, wc + 1)
    BY <1>1, <1>2, <2>1 DEF Rigid, Alignment
  <2>3. Matches(text, wild) <=> \/ MatchesFrom(text, wild, str, wc + 1)
                                \/ Later(text, wild, str + 1, wc + 1)
    <3>1. \A k : k \in str .. Len(text) + 1 <=> k = str \/ k \in str + 1 .. Len(text) + 1
      BY <1>1, <1>2
    <3>2. QED
      BY <1>3, <1>4, <3>1 DEF Later
  <2>4. pc' = "scan" /\ str' = str /\ wc' = wc + 1 /\ mp' = wc + 1 /\ cp' = str + 1 /\ ret' = ret
    BY <1>6 DEF SeeStar
  <2>5. mp' # 0 /\ cp' # 0 /\ mp' <= wc' /\ str' + 1 = cp' + (wc' - mp')
    BY <1>1, <2>4
  <2>6. QED
    BY <2>2, <2>3, <2>4, <2>5 DEF RightInv
<1>7. QED
  BY <1>5, <1>6

\* Where two characters differ, the last '*' takes one character more.
LEMMA RightBackTrack ==
    ASSUME BoundsInv, RightInv, pc = "scan", At(text, str) # NUL, At(wild, wc) # Star,
           ~Match(str, wc), BackTrack, text' = text, wild' = wild
    PROVE  RightInv'
<1>1. str \in 1 .. Len(text) /\ cp # 0 /\ mp # 0
  BY AtInside, CharAssumption DEF BoundsInv, Types, InBounds
<1>2. cp \in 1 .. Len(text) + 1 /\ mp \in 1 .. Len(wild) /\ Len(text) \in Nat /\ Len(wild) \in Nat
  BY <1>1 DEF BoundsInv, Types, InBounds, Remembered
<1>3. ~MatchesFrom(text, wild, str, wc)
  <2>1. CASE wc \in 1 .. Len(wild)
    <3>1. wild[wc] # Star /\ wild[wc] \notin {text[str], Query}
      BY <1>1, <2>1 DEF At, Match
    <3>2. QED
      BY <1>1, <2>1, <3>1, MatchNone DEF BoundsInv, Types
  <2>2. CASE wc = Len(wild) + 1
    BY <1>1, <2>2, MatchAtEnd DEF BoundsInv, Types, InBounds
  <2>3. QED
    BY <2>1, <2>2 DEF BoundsInv, Types, InBounds
<1>4. Later(text, wild, cp, mp) <=> \/ MatchesFrom(text, wild, cp, mp)
                                    \/ Later(text, wild, cp + 1, mp)
  <2>1. \A k : k \in cp .. Len(text) + 1 <=> k = cp \/ k \in cp + 1 .. Len(text) + 1
    BY <1>2
  <2>2. QED
    BY <2>1 DEF Later
<1>5. Matches(text, wild) <=> \/ MatchesFrom(text, wild, cp, mp)
                              \/ Later(text, wild, cp + 1, mp)
  BY <1>1, <1>3, <1>4 DEF RightInv
<1>6. Rigid(text, wild, cp + 1, mp, mp)
  BY <1>2 DEF Rigid, Alignment
<1>7. pc' = "scan" /\ str' = cp /\ wc' = mp /\ mp' = mp /\ cp' = cp + 1 /\ ret' = ret
  BY DEF BackTrack
<1>8. mp' # 0 /\ cp' # 0 /\ mp' <= wc' /\ str' + 1 = cp' + (wc' - mp')
  BY <1>1, <1>2, <1>7
<1>9. QED
  BY <1>5, <1>6, <1>7, <1>8 DEF RightInv

\* At the end of the text only '*' may follow.
LEMMA RightTail == BoundsInv /\ RightInv /\ Tail1 => RightInv'
<1> SUFFICES ASSUME BoundsInv, RightInv, Tail1 PROVE RightInv'
  OBVIOUS
<1>1. /\ pc = "tail" /\ str = Len(text) + 1 /\ Len(text) \in Nat /\ Len(wild) \in Nat
      /\ text' = text /\ wild' = wild
      /\ Matches(text, wild) <=> MatchesFrom(text, wild, str, wc)
  BY DEF Tail1, BoundsInv, Types, RightInv
<1>2. CASE At(wild, wc) = Star /\ wc' = wc + 1 /\ UNCHANGED <<str, cp, mp, pc, ret>>
  <2>1. wc \in 1 .. Len(wild) /\ wild[wc] = Star
    BY <1>2, AtInside, CharAssumption DEF At, BoundsInv, Types, InBounds
  <2>2. MatchesFrom(text, wild, str, wc) <=> MatchesFrom(text, wild, str, wc + 1)
    <3>1. \A k : k \in str .. Len(text) + 1 <=> k = str
      BY <1>1
    <3>2. str \in 1 .. Len(text) + 1
      BY <1>1
    <3>3. MatchesFrom(text, wild, str, wc)
            <=> \E k \in str .. Len(text) + 1 : MatchesFrom(text, wild, k, wc + 1)
      BY <2>1, <3>2, MatchStar DEF BoundsInv, Types
    <3>4. QED
      BY <3>1, <3>3
  <2>3. QED
    BY <1>1, <1>2, <2>2 DEF RightInv
<1>3. CASE At(wild, wc) # Star /\ Return(At(wild, wc) = NUL)
  <2>1. CASE wc = Len(wild) + 1
    <3>1. At(wild, wc) = NUL
      BY <1>1, <2>1 DEF At
    <3>2. Matches(text, wild)
      BY <1>1, <2>1, MatchAtEnd DEF BoundsInv, Types
    <3>3. pc' = "done" /\ ret' = TRUE
      BY <1>3, <3>1 DEF Return
    <3>4. QED
      BY <1>1, <3>2, <3>3 DEF RightInv
  <2>2. CASE wc \in 1 .. Len(wild)
    <3>1. At(wild, wc) = wild[wc] /\ wild[wc] # Star /\ wild[wc] # NUL
      BY <1>3, <2>2, CharAssumption, ElementOfSeq DEF At, BoundsInv, Types
    <3>2. ~Matches(text, wild)
      BY <1>1, <2>2, <3>1, MatchNone DEF BoundsInv, Types
    <3>3. pc' = "done" /\ ret' = FALSE
      BY <1>3, <3>1 DEF Return
    <3>4. QED
      BY <1>1, <3>2, <3>3 DEF RightInv
  <2>3. QED
    BY <2>1, <2>2 DEF BoundsInv, Types, InBounds
<1>4. QED
  BY <1>2, <1>3 DEF Tail1

LEMMA RightNext == BoundsInv /\ RightInv /\ [Next]_vars => RightInv'
<1> SUFFICES ASSUME BoundsInv, RightInv, [Next]_vars PROVE RightInv'
  OBVIOUS
<1>1. ASSUME Scan PROVE RightInv'
  BY <1>1, RightToTail, RightSeeStar, RightAdvance, RightBackTrack DEF Scan
<1>2. ASSUME UNCHANGED vars PROVE RightInv'
  BY <1>2 DEF RightInv, vars
<1>3. QED
  BY <1>1, <1>2, RightPrefix, RightTail DEF Next

\* For every alphabet, text and wildcard, WildCmp returns whether the text is what
\* the wildcard says: it is enough to go back to the last '*' (String.cpp:64-92).
THEOREM ComparesRight == Spec => []WildCmpRight
<1>1. RightInv => WildCmpRight
  <2>1. Matches(text, wild) \in BOOLEAN
    BY DEF Matches, MatchesFrom
  <2>2. QED
    BY <2>1 DEF RightInv, WildCmpRight
<1>2. QED
  BY BoundsInit, BoundsNext, RightInit, RightNext, <1>1, PTL DEF Spec

-----------------------------------------------------------------------------
(* It ends: str, wc go back and forth, but no step undoes what one before it did. *)

Phase(loop) == CASE loop = "prefix" -> 0 [] loop = "scan" -> 1
                 [] loop = "tail" -> 2 [] loop = "done" -> 3

\* A step enters a later loop, or remembers a later '*', or gives the last '*' one
\* character more, or else looks at the next character of the wildcard.
Forwards ==
    \/ Phase(pc') > Phase(pc)
    \/ pc' = pc /\ \/ mp' > mp
                   \/ mp' = mp /\ cp' > cp
                   \/ mp' = mp /\ cp' = cp /\ wc' > wc

\* wild is never in front of the last '*'.
BehindStar == mp <= wc

LEMMA BehindStarNext == BoundsInv /\ BehindStar /\ [Next]_vars => BehindStar'
<1> SUFFICES ASSUME BoundsInv, BehindStar, [Next]_vars PROVE BehindStar'
  OBVIOUS
<1>1. wc \in Nat /\ mp \in Nat
  BY DEF BoundsInv, Types
<1>2. CASE Prefix
  BY <1>1, <1>2 DEF Prefix, Advance, Return, Goto, BehindStar
<1>3. CASE Scan
  BY <1>1, <1>3 DEF Scan, Advance, Goto, SeeStar, BackTrack, BehindStar
<1>4. CASE Tail1
  BY <1>1, <1>4 DEF Tail1, Return, BehindStar
<1>5. QED
  BY <1>2, <1>3, <1>4 DEF Next, BehindStar, vars

LEMMA StepForwards == BoundsInv /\ BehindStar /\ Next => Forwards
<1> SUFFICES ASSUME BoundsInv, BehindStar, Next PROVE Forwards
  OBVIOUS
<1>1. wc \in Nat /\ mp \in Nat /\ cp \in Nat
  BY DEF BoundsInv, Types
<1>2. CASE Prefix
  BY <1>1, <1>2 DEF Prefix, Advance, Return, Goto, Forwards, Phase
<1>3. CASE Scan
  <2>1. CASE Goto("tail")
    BY <1>3, <2>1 DEF Scan, Goto, Forwards, Phase
  <2>2. CASE SeeStar
    BY <1>1, <1>3, <2>2 DEF Scan, SeeStar, Forwards, Phase, BehindStar
  <2>3. CASE Advance \/ BackTrack
    BY <1>1, <2>3 DEF Advance, BackTrack, Forwards
  <2>4. QED
    BY <1>3, <2>1, <2>2, <2>3 DEF Scan
<1>4. CASE Tail1
  BY <1>1, <1>4 DEF Tail1, Return, Forwards, Phase
<1>5. QED
  BY <1>2, <1>3, <1>4 DEF Next

\* WildCmp has no step that leads back (String.cpp:75-88): with the bounds of mp, cp
\* and wc, NeverOutOfBounds, its loops end, for every alphabet, text and wildcard.
THEOREM GoesForwards == Spec => [][Forwards]_vars
<1>1. Init => BehindStar
  BY DEF Init, BehindStar
<1>2. Init => BoundsInv
  BY BoundsInit
<1>3. BoundsInv /\ [Next]_vars => BoundsInv'
  BY BoundsNext
<1>4. BoundsInv /\ BehindStar /\ [Next]_vars => [Forwards]_vars
  BY StepForwards
<1>5. QED
  BY <1>1, <1>2, <1>3, <1>4, BehindStarNext, PTL DEF Spec

-----------------------------------------------------------------------------
(* SettingsApplied *)

TCPOptions == [no_delay : BOOLEAN, keep_alive : BOOLEAN, interval : Intervals \cup {0, Default}]

\* From eventcb's call of Connected on the descriptor has the options, or they are
\* the ones that wait; before it there is nothing but what is remembered.
Applied ==
    /\ sfd.no_delay = options.no_delay \/ "no_delay" \in late
    /\ sfd.keep_alive = options.keep_alive \/ "keep_alive" \in late
    /\ asked.timeout > 0 /\ ~closing => armed = asked.timeout

SettingsInv ==
    /\ options \in TCPOptions /\ sfd \in TCPOptions
    /\ asked = [timeout |-> asked.timeout, interval |-> asked.interval]
    /\ connection \in {"none", "connecting"} => ~is_connected /\ place # "Connected"
    /\ asked.timeout > 0 /\ ~closing => timeout = asked.timeout
    /\ is_connected \/ place = "Connected" => Applied

LEMMA SettingsInit == K!Init => SettingsInv
BY DEF K!Init, SettingsInv, TCPOptions, K!Defaults, K!Fresh

\* SetTimeout and Connect; a timeout set before there is a bufferevent is armed by
\* eventcb.
LEMMA TimeoutKeeps ==
    ASSUME SettingsInv, NEW t, NEW connected \in BOOLEAN, K!TimeoutSet(t, connected),
           UNCHANGED <<is_connected, place, options, sfd, late, closing>>,
           is_connected \/ place = "Connected" => connected,
           connection' \in {"none", "connecting"} => ~is_connected /\ place # "Connected"
    PROVE  SettingsInv'
<1>1. /\ asked' = [timeout |-> t, interval |-> asked.interval]
      /\ asked'.timeout = t /\ asked'.interval = asked.interval
      /\ timeout' = IF t > 0 THEN t ELSE timeout
      /\ armed' = IF connected THEN t ELSE armed
  BY DEF K!TimeoutSet, SettingsInv
<1>2. asked' = [timeout |-> asked'.timeout, interval |-> asked'.interval]
  BY <1>1
<1>3. is_connected \/ place = "Connected" => Applied'
  BY <1>1 DEF SettingsInv, Applied
<1>4. QED
  BY <1>1, <1>2, <1>3 DEF SettingsInv

LEMMA SettingsApplication == SettingsInv /\ K!Application => SettingsInv'
<1> SUFFICES ASSUME SettingsInv, K!Application PROVE SettingsInv'
  OBVIOUS
<1>1. ASSUME NEW b \in BOOLEAN, K!SetReadLine(b) PROVE SettingsInv'
  BY <1>1 DEF K!SetReadLine, K!Calls, K!flow, K!settings, SettingsInv, Applied
<1>2. ASSUME NEW b \in BOOLEAN, K!SetTCPNoDelay(b) PROVE SettingsInv'
  <2>1. /\ UNCHANGED <<connection, is_connected, closing, place, timeout, armed, asked>>
        /\ options' = [options EXCEPT !.no_delay = b]
        /\ sfd' = IF is_connected THEN [sfd EXCEPT !.no_delay = b] ELSE sfd
        /\ late' = IF place = "Connected" THEN late \cup {"no_delay"} ELSE late \ {"no_delay"}
    BY <1>2 DEF K!SetTCPNoDelay, K!Late, K!flow
  <2>2. /\ options' \in TCPOptions /\ options'.no_delay = b
        /\ options'.keep_alive = options.keep_alive
        /\ sfd' \in TCPOptions /\ sfd'.keep_alive = sfd.keep_alive
        /\ is_connected => sfd'.no_delay = b
    BY <2>1 DEF SettingsInv, TCPOptions
  <2>3. is_connected \/ place = "Connected" => Applied'
    BY <2>1, <2>2 DEF SettingsInv, Applied
  <2>4. QED
    BY <2>1, <2>2, <2>3 DEF SettingsInv
<1>3. ASSUME NEW b \in BOOLEAN, NEW delay \in Intervals, K!SetTCPKeepAlive(b, delay)
      PROVE  SettingsInv'
  <2>1. /\ UNCHANGED <<connection, is_connected, closing, place, timeout, armed>>
        /\ options' = [options EXCEPT !.keep_alive = b,
                                      !.interval = IF is_connected /\ b THEN delay ELSE @]
        /\ sfd' = IF ~is_connected THEN sfd
                 ELSE [sfd EXCEPT !.keep_alive = b, !.interval = IF b THEN delay ELSE @]
        /\ asked' = [asked EXCEPT !.interval = IF b THEN delay ELSE @]
        /\ late' = IF place = "Connected" THEN late \cup {"keep_alive"} ELSE late \ {"keep_alive"}
    BY <1>3 DEF K!SetTCPKeepAlive, K!Late, K!flow
  <2>2. /\ options' \in TCPOptions /\ options'.keep_alive = b
        /\ options'.no_delay = options.no_delay
        /\ sfd' \in TCPOptions /\ sfd'.no_delay = sfd.no_delay
        /\ is_connected => sfd'.keep_alive = b
    BY <2>1 DEF SettingsInv, TCPOptions
  <2>3. /\ asked' = [timeout |-> asked'.timeout, interval |-> asked'.interval]
        /\ asked'.timeout = asked.timeout
    BY <2>1 DEF SettingsInv
  <2>4. is_connected \/ place = "Connected" => Applied'
    BY <2>1, <2>2, <2>3 DEF SettingsInv, Applied
  <2>5. QED
    BY <2>1, <2>2, <2>3, <2>4 DEF SettingsInv
<1>4. ASSUME NEW more \in BOOLEAN, NEW n \in 0 .. MaxSocketBytes, K!AskFor(more, n) PROVE SettingsInv'
  BY <1>4 DEF K!AskFor, K!settings, SettingsInv, Applied
<1>5. ASSUME NEW t \in Timeouts, K!SetTimeout(t) PROVE SettingsInv'
  <2>1. /\ K!TimeoutSet(t, connection # "none")
        /\ UNCHANGED <<connection, is_connected, place, options, sfd, late, closing>>
    BY <1>5 DEF K!SetTimeout, K!flow
  <2>2. QED
    BY <2>1, TimeoutKeeps DEF SettingsInv
<1>6. ASSUME NEW t \in Timeouts, K!Connect(t) PROVE SettingsInv'
  <2>1. /\ connection = "none" /\ ~is_connected /\ place # "Connected"
        /\ UNCHANGED <<is_connected, place, options, sfd, late, closing>>
        /\ IF t > 0 THEN K!TimeoutSet(t, TRUE) ELSE UNCHANGED <<timeout, armed, asked>>
    BY <1>6 DEF K!Connect, K!flow, SettingsInv
  <2>2. CASE t > 0
    BY <2>1, <2>2, TimeoutKeeps
  <2>3. CASE ~(t > 0)
    BY <2>1, <2>3 DEF SettingsInv
  <2>4. QED
    BY <2>2, <2>3
<1>7. CASE K!Close
  BY <1>7 DEF K!Close, K!flow, SettingsInv, Applied
<1>8. QED
  BY <1>1, <1>2, <1>3, <1>4, <1>5, <1>6, <1>7 DEF K!Application

\* eventcb applies what is remembered before it calls Connected.
LEMMA SettingsEvents == SettingsInv /\ K!eventcb => SettingsInv'
<1> SUFFICES ASSUME SettingsInv, K!eventcb PROVE SettingsInv'
  OBVIOUS
<1>1. CASE K!EventConnected
  <2>1. /\ UNCHANGED <<is_connected, closing, options, timeout, asked, late>>
        /\ connection = "connecting" /\ connection' = "open" /\ place' = "Connected"
        /\ sfd' = [options EXCEPT !.interval = IF options.keep_alive THEN @ ELSE sfd.interval]
        /\ armed' = IF timeout # 0 THEN timeout ELSE armed
    BY <1>1 DEF K!EventConnected
  <2>2. /\ sfd' \in TCPOptions
        /\ sfd'.no_delay = options.no_delay /\ sfd'.keep_alive = options.keep_alive
    BY <2>1 DEF SettingsInv, TCPOptions
  <2>3. asked.timeout > 0 /\ ~closing => armed' = asked.timeout
    BY <2>1 DEF SettingsInv
  <2>4. Applied'
    BY <2>1, <2>2, <2>3 DEF Applied
  <2>5. QED
    BY <2>1, <2>2, <2>4 DEF SettingsInv
<1>2. CASE K!ConnectedReturns
  <2>1. /\ UNCHANGED <<connection, closing, K!settings>> /\ place = "Connected" /\ place' = "idle"
        /\ is_connected' = TRUE
    BY <1>2 DEF K!ConnectedReturns, K!At
  <2>2. QED
    BY <2>1 DEF K!settings, SettingsInv, Applied
<1>3. CASE K!EventEnd
  BY <1>3 DEF K!EventEnd, K!settings, K!flow, SettingsInv, Applied
<1>4. QED
  BY <1>1, <1>2, <1>3 DEF K!eventcb

LEMMA SettingsNext == SettingsInv /\ [K!Next]_(K!svars) => SettingsInv'
<1> SUFFICES ASSUME SettingsInv, [K!Next]_(K!svars) PROVE SettingsInv'
  OBVIOUS
<1>1. CASE K!readcb
  <2>1. /\ UNCHANGED <<connection, is_connected, closing, K!settings>>
        /\ place \in {"idle", "begin", "lines", "ReadLine", "data", "ReadData"}
        /\ place' \in {"idle", "begin", "lines", "ReadLine", "data", "ReadData"}
    BY <1>1 DEF K!readcb, K!Receive, K!Begin, K!TakeLine, K!ReadLineReturns, K!ShowData, K!ReadDataReturns,
                K!Goto, K!At
  <2>2. QED
    BY <2>1 DEF K!settings, SettingsInv, Applied
<1>2. CASE UNCHANGED K!svars
  BY <1>2 DEF K!svars, SettingsInv, Applied
<1>3. QED
  BY <1>1, <1>2, SettingsApplication, SettingsEvents DEF K!Next

-----------------------------------------------------------------------------
(* ReadsInMode *)

\* ReadData is shown nothing but input, and readcb gives the whole of it only where it
\* has looked at the mode, or ReadData has kept everything.
ReadInv ==
    /\ arrived \in Int /\ drained \in Int /\ drained <= arrived
    /\ next_read \in Nat
    /\ ends \subseteq Int
    /\ place = "ReadData" => shown \in 0 .. arrived - drained
    /\ place = "data" => ~readline \/ kept

LEMMA ReadInit == K!Init => ReadInv
<1> SUFFICES ASSUME K!Init PROVE ReadInv
  OBVIOUS
<1>1. /\ arrived = 0 /\ drained = 0 /\ next_read = 0 /\ place = "idle"
      /\ readline = FALSE /\ kept = FALSE
  BY DEF K!Init
<1>2. ends \subseteq 1 .. MaxSocketBytes
  BY DEF K!Init
<1>3. ends \subseteq Int
  BY <1>2
<1>4. QED
  BY <1>1, <1>3 DEF ReadInv

\* What a step of ReadData's return may do.
LEMMA ReturnsInMode ==
    ASSUME ReadInv, NEW used \in 0 .. MaxSocketBytes, K!ReadDataReturns(used)
    PROVE  /\ ReadInv'
           /\ place' = "data" => ~readline \/ kept'
           /\ place' = "idle" /\ readline => K!Lines' = {} \/ kept'
<1>1. /\ place = "ReadData" /\ used \in Int /\ used >= 0 /\ used <= shown
      /\ shown \in Int /\ shown <= K!Input /\ K!Input \in Int /\ K!Input = arrived - drained
      /\ drained' = drained + used /\ kept' = (used = 0)
      /\ UNCHANGED <<ends, arrived, next_read, readline>>
      /\ place' = CASE used > 0 /\ used = K!Input -> "idle"
                 [] used > 0 /\ used < K!Input /\ readline -> "begin"
                 [] OTHER -> IF read_more THEN "data" ELSE "idle"
  BY DEF K!ReadDataReturns, K!Goto, K!At, ReadInv, K!Input
<1>2. used = 0 \/ (used > 0 /\ used = K!Input) \/ (used > 0 /\ used < K!Input)
  BY <1>1
<1>3. CASE used = 0
  <2>1. kept'
    BY <1>1, <1>3, Zenon
  <2>2. drained' = drained /\ place' \in {"data", "idle"}
    BY <1>1, <1>3 DEF ReadInv
  <2>3. QED
    BY <1>1, <2>1, <2>2 DEF ReadInv
<1>4. CASE used > 0 /\ used = K!Input
  <2>1. place' = "idle" /\ drained' = arrived' /\ arrived' \in Int
    BY <1>1, <1>4 DEF ReadInv
  <2>2. K!Lines' = {}
    BY <1>1, <2>1 DEF K!Lines, ReadInv
  <2>3. QED
    BY <1>1, <2>1, <2>2 DEF ReadInv
<1>5. CASE used > 0 /\ used < K!Input
  <2>1. place' = IF readline THEN "begin" ELSE IF read_more THEN "data" ELSE "idle"
    BY <1>1, <1>5
  <2>2. drained' \in Int /\ drained' <= arrived'
    BY <1>1, <1>5 DEF ReadInv
  <2>3. QED
    BY <1>1, <2>1, <2>2 DEF ReadInv
<1>6. QED
  BY <1>2, <1>3, <1>4, <1>5

\* What ShowData does: all of the input is seen, or it is nothing.
LEMMA ShowsInMode ==
    ASSUME ReadInv, K!ShowData
    PROVE  /\ ReadInv'
           /\ place = "data" /\ (~readline \/ kept)
           /\ place' = "idle" => K!Lines' = {}
<1>1. /\ place = "data" /\ UNCHANGED <<ends, arrived, drained, kept, readline>>
      /\ K!Input \in Int /\ K!Input = arrived - drained /\ K!Input >= 0
      /\ ~readline \/ kept
  BY DEF K!ShowData, K!Goto, K!At, K!buffer, ReadInv, K!Input
<1>2. CASE K!Input = 0
  <2>1. place' = "idle" /\ next_read' = next_read /\ arrived = drained
    BY <1>1, <1>2 DEF K!ShowData, K!Goto, ReadInv
  <2>2. drained' = arrived' /\ arrived' \in Int /\ ends' \subseteq Int
    BY <1>1, <2>1 DEF ReadInv
  <2>3. K!Lines' = {}
    <3>1. ASSUME NEW p \in ends' PROVE ~(drained' < p /\ p <= arrived')
      BY <2>2
    <3>2. QED
      BY <3>1 DEF K!Lines
  <2>4. QED
    BY <1>1, <2>1, <2>3 DEF ReadInv
<1>3. CASE K!Input # 0
  <2>1. /\ place' = "ReadData" /\ next_read' \in {0, next_read}
        /\ shown' = K!Input \/ (shown' = next_read /\ K!Input >= next_read)
    BY <1>3 DEF K!ShowData, K!Goto
  <2>2. shown' \in 0 .. arrived' - drained'
    BY <1>1, <2>1 DEF ReadInv
  <2>3. QED
    BY <1>1, <2>1, <2>2 DEF ReadInv
<1>4. QED
  BY <1>2, <1>3

LEMMA ReadNext ==
    ASSUME ReadInv, [K!Next]_(K!svars)
    PROVE  /\ ReadInv'
           /\ place = "data" /\ place' = "ReadData" => ~readline \/ kept
           /\ place \in {"lines", "data", "ReadData"} /\ place' = "idle" /\ readline
                => K!Lines' = {} \/ kept'
<1> DEFINE Modes ==
      /\ place = "data" /\ place' = "ReadData" => ~readline \/ kept
      /\ place \in {"lines", "data", "ReadData"} /\ place' = "idle" /\ readline
           => K!Lines' = {} \/ kept'
<1>1. CASE K!Application
  <2>1. /\ UNCHANGED <<K!buffer, shown, kept, place>>
        /\ next_read' = next_read \/ next_read' \in 0 .. MaxSocketBytes
        /\ readline' = readline \/ (readline' \in BOOLEAN /\ place # "data")
    BY <1>1 DEF K!Application, K!SetReadLine, K!SetTCPNoDelay, K!SetTCPKeepAlive, K!AskFor, K!SetTimeout,
                K!Connect, K!Close, K!Calls, K!flow
  <2>2. QED
    BY <2>1 DEF K!buffer, ReadInv
<1>2. ASSUME NEW n \in 1 .. MaxSocketBytes, K!Receive(n) PROVE ReadInv' /\ Modes
  <2>1. /\ place = "idle" /\ place' = "begin" /\ arrived' = arrived + n /\ kept' = FALSE
        /\ UNCHANGED <<ends, drained, next_read, readline>>
    BY <1>2 DEF K!Receive, K!Goto, K!At
  <2>2. n \in Int /\ n >= 1
    OBVIOUS
  <2>3. QED
    BY <2>1, <2>2 DEF ReadInv
<1>3. CASE K!Begin
  <2>1. /\ place = "begin" /\ place' = IF readline THEN "lines" ELSE "data"
        /\ UNCHANGED <<K!buffer, kept, next_read, readline>>
    BY <1>3 DEF K!Begin, K!Goto, K!At
  <2>2. QED
    BY <2>1 DEF K!buffer, ReadInv
<1>4. CASE K!TakeLine
  <2>1. /\ place = "lines" /\ UNCHANGED <<ends, arrived, kept, next_read, readline>>
        /\ \/ K!Lines = {} /\ drained' = drained
           \/ place' = "ReadLine" /\ drained' \in K!Lines
        /\ place' \in {"idle", "ReadLine"}
    BY <1>4 DEF K!TakeLine, K!Goto, K!At
  <2>2. K!Lines \subseteq ends /\ \A p \in K!Lines : p <= arrived
    BY DEF K!Lines
  <2>3. ReadInv'
    BY <2>1, <2>2 DEF ReadInv
  <2>4. place' = "idle" => K!Lines' = {}
    BY <2>1 DEF K!Lines
  <2>5. QED
    BY <2>1, <2>3, <2>4
<1>5. CASE K!ReadLineReturns
  <2>1. /\ place = "ReadLine" /\ place' \in {"lines", "begin"}
        /\ UNCHANGED <<K!buffer, kept, next_read, readline>>
    BY <1>5 DEF K!ReadLineReturns, K!Goto, K!At
  <2>2. QED
    BY <2>1 DEF K!buffer, ReadInv
<1>6. CASE K!ShowData
  BY <1>6, ShowsInMode
<1>7. ASSUME NEW used \in 0 .. MaxSocketBytes, K!ReadDataReturns(used) PROVE ReadInv' /\ Modes
  <2>1. place = "ReadData"
    BY <1>7 DEF K!ReadDataReturns, K!At
  <2>2. QED
    BY <1>7, <2>1, ReturnsInMode
<1>8. CASE K!eventcb
  <2>1. /\ UNCHANGED <<K!buffer, kept, next_read, readline>>
        /\ place \in {"idle", "Connected"} /\ place' \in {"idle", "Connected"}
    BY <1>8 DEF K!eventcb, K!EventConnected, K!ConnectedReturns, K!EventEnd, K!flow, K!At
  <2>2. QED
    BY <2>1 DEF K!buffer, ReadInv
<1>9. CASE UNCHANGED K!svars
  BY <1>9 DEF K!svars, ReadInv
<1>10. QED
  BY <1>1, <1>2, <1>3, <1>4, <1>5, <1>6, <1>7, <1>8, <1>9 DEF K!Next, K!readcb

-----------------------------------------------------------------------------
(* Sequences *)

\* A set of naturals with 0 and all successors holds all of them: induction, which the
\* provers do not do by themselves.
LEMMA Induction ==
    ASSUME NEW E \in SUBSET Nat, 0 \in E, \A n \in E : n + 1 \in E
    PROVE  E = Nat
<1> DEFINE R == {ss \in Nat \X Nat : ss[1] < ss[2]}
<1>0. IsWellFoundedOn(R, Nat)
  BY NatLessThanWellFounded DEF OpToRel
<1> SUFFICES ASSUME Nat \ E # {} PROVE FALSE
  OBVIOUS
<1>1. PICK m \in Nat \ E : \A k \in Nat \ E : ~ (<<k, m>> \in R)
  BY <1>0, WFMin, Zenon
<1>2. m # 0 /\ m - 1 \in Nat
  OBVIOUS
<1>3. m - 1 \notin E
  <2>1. m - 1 \in E => (m - 1) + 1 \in E
    OBVIOUS
  <2>2. (m - 1) + 1 = m
    OBVIOUS
  <2>3. QED
    BY <2>1, <2>2
<1>4. <<m - 1, m>> \in R
  BY <1>2
<1>5. QED
  BY <1>1, <1>2, <1>3, <1>4

\* It does not matter where a concatenation begins.
LEMMA Associative ==
    ASSUME NEW E, NEW x \in Seq(E), NEW y \in Seq(E), NEW z \in Seq(E)
    PROVE  (x \o y) \o z = x \o (y \o z)
BY SMTT(40)

\* A piece of a sequence.
LEMMA PieceType ==
    ASSUME NEW E, NEW s \in Seq(E), NEW a \in Nat, NEW b \in a .. Len(s)
    PROVE  /\ SubSeq(s, a + 1, b) \in Seq(E)
           /\ Len(SubSeq(s, a + 1, b)) = b - a
           /\ \A i \in 1 .. b - a : SubSeq(s, a + 1, b)[i] = s[a + i]
<1>1. Len(s) \in Nat /\ \A i \in 1 .. Len(s) : s[i] \in E
  BY LenProperties, ElementOfSeq
<1>2. \A i \in a + 1 .. b : s[i] \in E
  BY <1>1
<1>3. /\ SubSeq(s, a + 1, b) \in Seq(E)
      /\ Len(SubSeq(s, a + 1, b)) = IF a + 1 <= b THEN b - (a + 1) + 1 ELSE 0
      /\ \A i \in 1 .. b - (a + 1) + 1 : SubSeq(s, a + 1, b)[i] = s[(a + 1) + i - 1]
  BY <1>1, <1>2, SubSeqProperties
<1>4. QED
  BY <1>1, <1>3

LEMMA HeadType ==
    ASSUME NEW E, NEW s \in Seq(E), NEW n \in 0 .. Len(s)
    PROVE  /\ SubSeq(s, 1, n) \in Seq(E) /\ Len(SubSeq(s, 1, n)) = n
           /\ \A i \in 1 .. n : SubSeq(s, 1, n)[i] = s[i]
<1>1. Len(s) \in Nat /\ \A i \in 1 .. Len(s) : s[i] \in E
  BY LenProperties, ElementOfSeq
<1>2. \A i \in 1 .. n : s[i] \in E
  BY <1>1
<1>3. /\ SubSeq(s, 1, n) \in Seq(E)
      /\ Len(SubSeq(s, 1, n)) = IF 1 <= n THEN n - 1 + 1 ELSE 0
      /\ \A i \in 1 .. n - 1 + 1 : SubSeq(s, 1, n)[i] = s[1 + i - 1]
  BY <1>1, <1>2, SubSeqProperties
<1>4. QED
  BY <1>1, <1>3

\* A sequence is what is in front of a place and what is behind it.
LEMMA Split ==
    ASSUME NEW E, NEW s \in Seq(E), NEW k \in 0 .. Len(s)
    PROVE  /\ SubSeq(s, 1, k) \in Seq(E) /\ Len(SubSeq(s, 1, k)) = k
           /\ SubSeq(s, k + 1, Len(s)) \in Seq(E)
           /\ Len(SubSeq(s, k + 1, Len(s))) = Len(s) - k
           /\ SubSeq(s, 1, k) \o SubSeq(s, k + 1, Len(s)) = s
<1>1. Len(s) \in Nat
  OBVIOUS
<1>2. /\ SubSeq(s, 0 + 1, k) \in Seq(E) /\ Len(SubSeq(s, 0 + 1, k)) = k - 0
      /\ SubSeq(s, k + 1, Len(s)) \in Seq(E)
      /\ Len(SubSeq(s, k + 1, Len(s))) = Len(s) - k
  <2>1. 0 \in Nat /\ k \in 0 .. Len(s) /\ k \in Nat /\ Len(s) \in k .. Len(s)
    BY <1>1
  <2>2. QED
    BY <2>1, PieceType
<1>3. SubSeq(s, 1, k) \o SubSeq(s, k + 1, Len(s)) = SubSeq(s, 1, Len(s))
  <2>1. 1 \in 1 .. Len(s) + 1 /\ k \in 1 - 1 .. Len(s) /\ Len(s) \in k .. Len(s)
    BY <1>1
  <2>2. QED
    BY <2>1, ConcatAdjacentSubSeq
<1>4. SubSeq(s, 1, Len(s)) = s
  BY SubSeqFull
<1>5. 0 + 1 = 1 /\ k - 0 = k
  BY <1>1
<1>6. QED
  BY <1>2, <1>3, <1>4, <1>5

\* IsPrefix is about the elements.
LEMMA PrefixByElements ==
    ASSUME NEW E, NEW s \in Seq(E), NEW t \in Seq(E), Len(s) <= Len(t),
           \A i \in 1 .. Len(s) : t[i] = s[i]
    PROVE  Z!IsPrefix(s, t)
<1>1. Len(s) \in 0 .. Len(s) /\ Len(s) \in 0 .. Len(t)
  BY LenProperties
<1>2. /\ SubSeq(s, 1, Len(s)) \in Seq(E) /\ Len(SubSeq(s, 1, Len(s))) = Len(s)
      /\ \A i \in 1 .. Len(s) : SubSeq(s, 1, Len(s))[i] = s[i]
  BY <1>1, HeadType
<1>3. /\ SubSeq(t, 1, Len(s)) \in Seq(E) /\ Len(SubSeq(t, 1, Len(s))) = Len(s)
      /\ \A i \in 1 .. Len(s) : SubSeq(t, 1, Len(s))[i] = t[i]
  BY <1>1, HeadType
<1>4. SubSeq(s, 1, Len(s)) = SubSeq(t, 1, Len(s))
  <2>1. \A i \in 1 .. Len(SubSeq(s, 1, Len(s))) : SubSeq(s, 1, Len(s))[i] = SubSeq(t, 1, Len(s))[i]
    BY <1>2, <1>3
  <2>2. QED
    BY <1>2, <1>3, <2>1, SeqEqual
<1>5. QED
  BY <1>4 DEF Z!IsPrefix

\* The function by which FlattenSeq is defined.
LEMMA FlattenFunction ==
    ASSUME NEW E, NEW s \in Seq(Seq(E))
    PROVE  \E out \in [0 .. Len(s) -> Seq(E)] :
             /\ out[0] = <<>>
             /\ \A n \in 1 .. Len(s) : out[n] = out[n - 1] \o s[n]
             /\ FlattenSeq(s) = out[Len(s)]
<1> DEFINE Unfolds(f, n) == f = [i \in 1 .. n |-> IF i = 1 THEN s[i] ELSE f[i - 1] \o s[i]]
           N == {n \in Nat : \E f : Unfolds(f, n)}
           flat == CHOOSE f : Unfolds(f, Len(s))
           out == [i \in 0 .. Len(s) |-> IF i = 0 THEN <<>> ELSE flat[i]]
<1>0. Len(s) \in Nat /\ \A i \in 1 .. Len(s) : s[i] \in Seq(E)
  BY LenProperties, ElementOfSeq
<1>1. \E f : Unfolds(f, 0)
  <2>1. Unfolds([i \in 1 .. 0 |-> <<>>], 0)
    OBVIOUS
  <2>2. QED
    BY <2>1
<1>2. ASSUME NEW n \in N PROVE n + 1 \in N
  <2>1. PICK f : Unfolds(f, n)
    OBVIOUS
  <2> DEFINE g == [i \in 1 .. n + 1 |-> IF i <= n THEN f[i]
                                        ELSE IF i = 1 THEN s[i] ELSE f[n] \o s[n + 1]]
  <2>2. n \in Nat /\ n + 1 \in Nat
    OBVIOUS
  <2>3. ASSUME NEW i \in 1 .. n + 1
        PROVE  g[i] = IF i = 1 THEN s[i] ELSE g[i - 1] \o s[i]
    <3>1. CASE i = 1
      BY <2>1, <2>2, <3>1
    <3>2. CASE i \in 2 .. n
      <4>1. f[i] = f[i - 1] \o s[i]
        <5>1. i \in 1 .. n /\ i # 1
          BY <2>2, <3>2
        <5>2. QED
          BY <2>1, <5>1
      <4>2. g[i] = f[i] /\ g[i - 1] = f[i - 1]
        BY <2>2, <3>2
      <4>3. QED
        <5> HIDE DEF g
        <5>1. i # 1
          BY <2>2, <3>2
        <5>2. QED
          BY <4>1, <4>2, <5>1
    <3>3. CASE i = n + 1 /\ i # 1
      <4>1. g[i] = f[n] \o s[n + 1] /\ g[i - 1] = f[n]
        <5>1. i \in 1 .. n + 1 /\ ~(i <= n) /\ i # 1 /\ n \in 1 .. n + 1 /\ n <= n /\ i - 1 = n
          BY <2>2, <3>3
        <5>2. QED
          BY <5>1
      <4>2. QED
        <5> HIDE DEF g
        <5>1. QED
          BY <3>3, <4>1
    <3>4. QED
      BY <2>2, <3>1, <3>2, <3>3
  <2>4. Unfolds(g, n + 1)
    <3> HIDE DEF g
    <3>1. g = [i \in 1 .. n + 1 |-> g[i]]
      BY DEF g
    <3>2. QED
      BY <2>3, <3>1
  <2>5. QED
    BY <2>2, <2>4
<1>3. N = Nat
  <2> HIDE DEF Unfolds
  <2>1. N \in SUBSET Nat /\ 0 \in N
    BY <1>1
  <2> HIDE DEF N
  <2>2. QED
    BY <1>2, <2>1, Induction
<1>4. \E f : Unfolds(f, Len(s))
  <2> HIDE DEF Unfolds
  <2>1. Len(s) \in N
    BY <1>0, <1>3
  <2>2. QED
    BY <2>1
<1>5. Unfolds(flat, Len(s))
  BY <1>4, Zenon
<1>6. FlattenSeq(s) = IF Len(s) = 0 THEN s ELSE flat[Len(s)]
  BY DEF FlattenSeq
<1> HIDE DEF flat, N
<1>7. /\ out[0] = <<>>
      /\ \A n \in 1 .. Len(s) : out[n] = out[n - 1] \o s[n]
  <2>1. out[0] = <<>>
    BY <1>0
  <2>2. ASSUME NEW n \in 1 .. Len(s) PROVE out[n] = out[n - 1] \o s[n]
    <3>1. flat[n] = IF n = 1 THEN s[n] ELSE flat[n - 1] \o s[n]
      BY <1>5
    <3>2. out[n] = flat[n] /\ n - 1 \in 0 .. Len(s) /\ (n # 1 => out[n - 1] = flat[n - 1])
      BY <1>0
    <3>3. s[n] \in Seq(E) /\ <<>> \o s[n] = s[n]
      BY <1>0, ConcatEmptySeq
    <3> HIDE DEF out
    <3>4. n = 1 => n - 1 = 0
      OBVIOUS
    <3>5. QED
      BY <2>1, <3>1, <3>2, <3>3, <3>4
  <2>3. QED
    BY <2>1, <2>2
<1>8. FlattenSeq(s) = out[Len(s)]
  <2>1. CASE Len(s) = 0
    <3>1. s = <<>>
      BY <2>1, EmptySeq
    <3>2. QED
      BY <1>6, <1>7, <2>1, <3>1
  <2>2. CASE Len(s) # 0
    BY <1>0, <1>6, <2>2
  <2>3. QED
    BY <2>1, <2>2
<1>9. out = [n \in 0 .. Len(s) |-> out[n]]
  OBVIOUS
<1> HIDE DEF out
<1>10. \A n \in 0 .. Len(s) : out[n] \in Seq(E)
  <2> DEFINE T == {n \in Nat : n <= Len(s) => out[n] \in Seq(E)}
  <2>1. 0 \in T
    <3>1. out[0] \in Seq(E)
      BY <1>7, EmptySeq
    <3>2. QED
      BY <3>1
  <2>2. ASSUME NEW n \in T PROVE n + 1 \in T
    <3>1. ASSUME n + 1 <= Len(s) PROVE out[n + 1] \in Seq(E)
      <4>1. out[n] \in Seq(E) /\ n + 1 \in 1 .. Len(s) /\ (n + 1) - 1 = n
        BY <1>0, <3>1
      <4>2. s[n + 1] \in Seq(E)
        BY <1>0, <4>1
      <4>3. out[n + 1] = out[n] \o s[n + 1]
        <5> HIDE DEF T
        <5>1. out[n + 1] = out[(n + 1) - 1] \o s[n + 1]
          BY <1>7, <4>1
        <5>2. QED
          BY <4>1, <5>1
      <4>4. QED
        BY <4>1, <4>2, <4>3, ConcatProperties
    <3>2. QED
      BY <3>1
  <2>3. T \in SUBSET Nat
    OBVIOUS
  <2>4. T = Nat
    <3> HIDE DEF T
    <3>1. QED
      BY <2>1, <2>2, <2>3, Induction
  <2>5. QED
    BY <1>0, <2>4
<1>11. out \in [0 .. Len(s) -> Seq(E)]
  BY <1>9, <1>10
<1>12. QED
  BY <1>7, <1>8, <1>11

LEMMA FlattenType ==
    ASSUME NEW E, NEW s \in Seq(Seq(E))
    PROVE  FlattenSeq(s) \in Seq(E)
<1>1. Len(s) \in Nat
  OBVIOUS
<1>2. PICK f \in [0 .. Len(s) -> Seq(E)] : FlattenSeq(s) = f[Len(s)]
  BY FlattenFunction
<1>3. QED
  BY <1>1, <1>2

LEMMA FlattenEmpty == FlattenSeq(<<>>) = <<>>
BY DEF FlattenSeq

\* One more text comes last.
LEMMA FlattenAppend ==
    ASSUME NEW E, NEW s \in Seq(Seq(E)), NEW e \in Seq(E)
    PROVE  FlattenSeq(Append(s, e)) = FlattenSeq(s) \o e
<1> DEFINE t == Append(s, e)
<1>1. /\ Len(s) \in Nat /\ t \in Seq(Seq(E)) /\ Len(t) = Len(s) + 1
      /\ \A i \in 1 .. Len(s) : t[i] = s[i]
      /\ t[Len(s) + 1] = e
  BY AppendProperties, LenProperties
<1> HIDE DEF t
<1>2. PICK f \in [0 .. Len(t) -> Seq(E)] :
           /\ f[0] = <<>>
           /\ \A n \in 1 .. Len(t) : f[n] = f[n - 1] \o t[n]
           /\ FlattenSeq(t) = f[Len(t)]
  BY <1>1, FlattenFunction
<1>3. PICK g \in [0 .. Len(s) -> Seq(E)] :
           /\ g[0] = <<>>
           /\ \A n \in 1 .. Len(s) : g[n] = g[n - 1] \o s[n]
           /\ FlattenSeq(s) = g[Len(s)]
  BY FlattenFunction
<1>4. \A n \in 0 .. Len(s) : f[n] = g[n]
  <2> DEFINE N == {n \in Nat : n <= Len(s) => f[n] = g[n]}
  <2>1. N \in SUBSET Nat /\ 0 \in N
    BY <1>2, <1>3
  <2>2. ASSUME NEW n \in N PROVE n + 1 \in N
    <3>1. ASSUME n + 1 <= Len(s) PROVE f[n + 1] = g[n + 1]
      <4>1. /\ f[n] = g[n] /\ (n + 1) - 1 = n
            /\ n + 1 \in 1 .. Len(s) /\ n + 1 \in 1 .. Len(t)
        BY <1>1, <3>1
      <4> HIDE DEF N
      <4>2. f[n + 1] = f[n] \o t[n + 1]
        BY <1>2, <4>1
      <4>3. g[n + 1] = g[n] \o s[n + 1]
        BY <1>3, <4>1
      <4>4. QED
        BY <1>1, <4>1, <4>2, <4>3
    <3>2. QED
      BY <3>1
  <2> HIDE DEF N
  <2>3. N = Nat
    BY <2>1, <2>2, Induction
  <2>4. ASSUME NEW n \in 0 .. Len(s) PROVE f[n] = g[n]
    <3>1. n \in N /\ n <= Len(s)
      BY <1>1, <2>3
    <3>2. QED
      BY <3>1 DEF N
  <2>5. QED
    BY <2>4
<1>5. f[Len(s) + 1] = f[(Len(s) + 1) - 1] \o t[Len(s) + 1]
  <2>1. Len(s) + 1 \in 1 .. Len(t)
    BY <1>1
  <2>2. QED
    BY <1>2, <2>1
<1>6. (Len(s) + 1) - 1 = Len(s) /\ Len(s) \in 0 .. Len(s)
  BY <1>1
<1>7. f[Len(s)] = g[Len(s)]
  BY <1>4, <1>6
<1>8. f[Len(s) + 1] = g[Len(s)] \o e
  BY <1>1, <1>5, <1>6, <1>7
<1>9. QED
  BY <1>1, <1>2, <1>3, <1>8 DEF t

\* The texts of two lists come one after the other.
LEMMA FlattenConcat ==
    ASSUME NEW E, NEW s \in Seq(Seq(E)), NEW t \in Seq(Seq(E))
    PROVE  FlattenSeq(s \o t) = FlattenSeq(s) \o FlattenSeq(t)
<1>0. \A x, y, z \in Seq(E) : (x \o y) \o z = x \o (y \o z)
  BY Associative, SMTT(30)
<1> DEFINE N == {n \in Nat : \A u \in Seq(Seq(E)) :
                    Len(u) = n => FlattenSeq(s \o u) = FlattenSeq(s) \o FlattenSeq(u)}
<1>1. 0 \in N
  <2>1. ASSUME NEW u \in Seq(Seq(E)), Len(u) = 0
        PROVE FlattenSeq(s \o u) = FlattenSeq(s) \o FlattenSeq(u)
    <3>1. u = <<>> /\ s \o <<>> = s
      BY <2>1, EmptySeq, ConcatEmptySeq
    <3>2. FlattenSeq(s) \in Seq(E) /\ FlattenSeq(s) \o <<>> = FlattenSeq(s)
      BY FlattenType, ConcatEmptySeq
    <3>3. QED
      BY <3>1, <3>2, FlattenEmpty
  <2>2. QED
    BY <2>1
<1>2. ASSUME NEW n \in N PROVE n + 1 \in N
  <2>0. n \in Nat /\ \A u \in Seq(Seq(E)) :
                    Len(u) = n => FlattenSeq(s \o u) = FlattenSeq(s) \o FlattenSeq(u)
    OBVIOUS
  <2> HIDE DEF N
  <2>1. ASSUME NEW u \in Seq(Seq(E)), Len(u) = n + 1
        PROVE FlattenSeq(s \o u) = FlattenSeq(s) \o FlattenSeq(u)
    <3>1. u # <<>>
      BY <2>0, <2>1, EmptySeq
    <3>2. PICK v \in Seq(Seq(E)), e \in Seq(E) : u = Append(v, e)
      BY <3>1, SequenceEmptyOrAppend
    <3>3. Len(v) = n
      <4>1. Len(u) = Len(v) + 1 /\ Len(v) \in Nat
        BY <3>2, AppendProperties, LenProperties
      <4>2. QED
        BY <2>0, <2>1, <4>1
    <3>4. s \o u = Append(s \o v, e) /\ s \o v \in Seq(Seq(E))
      <4>1. s \o v \in Seq(Seq(E)) /\ <<e>> \in Seq(Seq(E))
        BY ConcatProperties
      <4>2. u = v \o <<e>> /\ Append(s \o v, e) = (s \o v) \o <<e>>
        BY <3>2, <4>1, AppendIsConcat
      <4>3. (s \o v) \o <<e>> = s \o (v \o <<e>>)
        <5>1. PICK x \in Seq(Seq(E)) : x = <<e>>
          BY <4>1
        <5>2. (s \o v) \o x = s \o (v \o x)
          BY Associative, SMTT(40)
        <5>3. QED
          BY <5>1, <5>2, Zenon
      <4>4. QED
        BY <4>1, <4>2, <4>3
    <3>5. FlattenSeq(s \o u) = FlattenSeq(s \o v) \o e
      BY <3>4, FlattenAppend
    <3>6. FlattenSeq(s \o v) = FlattenSeq(s) \o FlattenSeq(v)
      BY <2>0, <3>3
    <3>7. FlattenSeq(u) = FlattenSeq(v) \o e
      BY <3>2, FlattenAppend
    <3>8. FlattenSeq(s) \in Seq(E) /\ FlattenSeq(v) \in Seq(E)
      BY FlattenType
    <3>9. (FlattenSeq(s) \o FlattenSeq(v)) \o e = FlattenSeq(s) \o (FlattenSeq(v) \o e)
      BY <1>0, <3>2, <3>8
    <3>10. QED
      BY <3>5, <3>6, <3>7, <3>9
  <2>2. QED
    BY <2>0, <2>1 DEF N
<1>3. N \in SUBSET Nat
  OBVIOUS
<1>4. Len(t) \in N
  <2> HIDE DEF N
  <2>1. N = Nat
    BY <1>1, <1>2, <1>3, Induction
  <2>2. QED
    BY <2>1, LenProperties
<1>5. QED
  BY <1>4

-----------------------------------------------------------------------------
(* What zlib makes of bytes *)

Plain == [byte : StreamBytes, times : Nat]
Pair == Plain \cup {Z!Sync}

\* The bytes that a pair stands for, and those of each pair.
Run(e) == [j \in 1 .. e.times |-> e.byte]
Runs(s) == [i \in DOMAIN s |-> Run(s[i])]

LEMMA UnpackRuns == ASSUME NEW s PROVE Z!Unpack(s) = FlattenSeq(Runs(s))
BY DEF Z!Unpack, Z!FlattenSeq, FlattenSeq, Runs, Run

LEMMA RunType == \A e \in Pair : Run(e) \in Seq(StreamBytes)
<1> SUFFICES ASSUME NEW e \in Pair PROVE Run(e) \in Seq(StreamBytes)
  OBVIOUS
<1>1. CASE e \in Plain
  <2>1. e.times \in Nat /\ e.byte \in StreamBytes
    BY <1>1 DEF Plain
  <2>2. QED
    BY <2>1 DEF Run
<1>2. CASE e = Z!Sync
  <2>1. e.times = 0
    BY <1>2 DEF Z!Sync
  <2>2. Run(e) = <<>>
    BY <2>1 DEF Run
  <2>3. QED
    BY <2>2
<1>3. QED
  BY <1>1, <1>2 DEF Pair

LEMMA RunsType ==
    ASSUME NEW s \in Seq(Pair)
    PROVE  Runs(s) \in Seq(Seq(StreamBytes)) /\ Len(Runs(s)) = Len(s)
           /\ \A i \in 1 .. Len(s) : Runs(s)[i] = Run(s[i])
<1>1. DOMAIN s = 1 .. Len(s) /\ Len(s) \in Nat
  BY LenProperties
<1>2. \A i \in 1 .. Len(s) : Run(s[i]) \in Seq(StreamBytes)
  BY ElementOfSeq, RunType
<1>3. Runs(s) = [i \in 1 .. Len(s) |-> Run(s[i])]
  BY <1>1 DEF Runs
<1>4. QED
  BY <1>1, <1>2, <1>3

LEMMA RunsConcat ==
    ASSUME NEW s \in Seq(Pair), NEW t \in Seq(Pair)
    PROVE  Runs(s \o t) = Runs(s) \o Runs(t)
<1> DEFINE l == Runs(s \o t)
           r == Runs(s) \o Runs(t)
<1>1. /\ Len(s) \in Nat /\ Len(t) \in Nat
      /\ s \o t \in Seq(Pair) /\ Len(s \o t) = Len(s) + Len(t)
      /\ \A i \in 1 .. Len(s) + Len(t) : (s \o t)[i] = IF i <= Len(s) THEN s[i] ELSE t[i - Len(s)]
  BY ConcatProperties, LenProperties
<1>2. /\ Runs(s) \in Seq(Seq(StreamBytes)) /\ Len(Runs(s)) = Len(s)
      /\ \A i \in 1 .. Len(s) : Runs(s)[i] = Run(s[i])
  BY RunsType
<1>3. /\ Runs(t) \in Seq(Seq(StreamBytes)) /\ Len(Runs(t)) = Len(t)
      /\ \A i \in 1 .. Len(t) : Runs(t)[i] = Run(t[i])
  BY RunsType
<1>4. /\ l \in Seq(Seq(StreamBytes)) /\ Len(l) = Len(s) + Len(t)
      /\ \A i \in 1 .. Len(s) + Len(t) : l[i] = Run((s \o t)[i])
  BY <1>1, RunsType
<1>5. /\ r \in Seq(Seq(StreamBytes)) /\ Len(r) = Len(s) + Len(t)
      /\ \A i \in 1 .. Len(s) + Len(t) :
           r[i] = IF i <= Len(s) THEN Runs(s)[i] ELSE Runs(t)[i - Len(s)]
  <2>1. /\ r \in Seq(Seq(StreamBytes)) /\ Len(r) = Len(Runs(s)) + Len(Runs(t))
        /\ \A i \in 1 .. Len(Runs(s)) + Len(Runs(t)) :
             r[i] = IF i <= Len(Runs(s)) THEN Runs(s)[i] ELSE Runs(t)[i - Len(Runs(s))]
    <3>1. \A a, b \in Seq(Seq(StreamBytes)) :
            /\ a \o b \in Seq(Seq(StreamBytes)) /\ Len(a \o b) = Len(a) + Len(b)
            /\ \A i \in 1 .. Len(a) + Len(b) :
                 (a \o b)[i] = IF i <= Len(a) THEN a[i] ELSE b[i - Len(a)]
      BY ConcatProperties
    <3>2. QED
      BY <1>2, <1>3, <3>1, Zenon
  <2>2. QED
    BY <1>2, <1>3, <2>1
<1> HIDE DEF l, r
<1>6. ASSUME NEW i \in 1 .. Len(l) PROVE l[i] = r[i]
  <2>1. i \in 1 .. Len(s) + Len(t)
    BY <1>4
  <2>2. CASE i <= Len(s)
    <3>1. i \in 1 .. Len(s)
      BY <1>1, <2>1, <2>2
    <3>2. l[i] = Run(s[i]) /\ r[i] = Runs(s)[i]
      BY <1>1, <1>4, <1>5, <2>1, <2>2
    <3>3. QED
      BY <1>2, <3>1, <3>2
  <2>3. CASE ~(i <= Len(s))
    <3>1. i - Len(s) \in 1 .. Len(t)
      BY <1>1, <2>1, <2>3
    <3>2. l[i] = Run(t[i - Len(s)]) /\ r[i] = Runs(t)[i - Len(s)]
      BY <1>1, <1>4, <1>5, <2>1, <2>3
    <3>3. QED
      BY <1>3, <3>1, <3>2
  <2>4. QED
    BY <2>2, <2>3
<1>7. l = r
  BY <1>4, <1>5, <1>6, SeqEqual
<1>8. QED
  BY <1>7 DEF l, r

LEMMA UnpackType == \A s \in Seq(Pair) : Z!Unpack(s) \in Seq(StreamBytes)
BY UnpackRuns, RunsType, FlattenType

LEMMA UnpackConcat ==
    \A s, t \in Seq(Pair) : Z!Unpack(s \o t) = Z!Unpack(s) \o Z!Unpack(t)
<1> SUFFICES ASSUME NEW s \in Seq(Pair), NEW t \in Seq(Pair)
             PROVE  Z!Unpack(s \o t) = Z!Unpack(s) \o Z!Unpack(t)
  OBVIOUS
<1>1. Runs(s) \in Seq(Seq(StreamBytes)) /\ Runs(t) \in Seq(Seq(StreamBytes))
  BY RunsType
<1>2. FlattenSeq(Runs(s) \o Runs(t)) = FlattenSeq(Runs(s)) \o FlattenSeq(Runs(t))
  BY <1>1, FlattenConcat
<1>3. QED
  BY <1>2, RunsConcat, UnpackRuns

LEMMA UnpackEmpty == Z!Unpack(<<>>) = <<>>
<1>1. Runs(<<>>) = <<>>
  BY DEF Runs
<1>2. QED
  BY <1>1, UnpackRuns, FlattenEmpty

LEMMA UnpackOne == \A e \in Pair : Z!Unpack(<<e>>) = Run(e)
<1> SUFFICES ASSUME NEW e \in Pair PROVE Z!Unpack(<<e>>) = Run(e)
  OBVIOUS
<1>0. Run(e) \in Seq(StreamBytes)
  BY RunType
<1>1. Runs(<<e>>) = <<Run(e)>>
  BY DEF Runs
<1>2. <<Run(e)>> = Append(<<>>, Run(e)) /\ <<>> \in Seq(Seq(StreamBytes))
  OBVIOUS
<1>3. FlattenSeq(Append(<<>>, Run(e))) = FlattenSeq(<<>>) \o Run(e)
  BY <1>0, <1>2, FlattenAppend
<1>4. <<>> \o Run(e) = Run(e)
  BY <1>0, ConcatEmptySeq
<1>5. QED
  BY <1>1, <1>2, <1>3, <1>4, UnpackRuns, FlattenEmpty

\* The end of a flush is no byte.
LEMMA UnpackSync == Z!Unpack(<<Z!Sync>>) = <<>>
<1>1. Z!Sync \in Pair /\ Run(Z!Sync) = <<>>
  BY DEF Pair, Run, Z!Sync
<1>2. QED
  BY <1>1, UnpackOne

\* Pack with one more byte.
Packed(b, c) ==
    IF b # <<>> /\ Last(b).byte = c
    THEN [b EXCEPT ![Len(b)].times = @ + 1]
    ELSE Append(b, [byte |-> c, times |-> 1])

\* The function by which Pack is defined.
LEMMA PackFunction ==
    ASSUME NEW s \in Seq(StreamBytes)
    PROVE  \E out : /\ out[0] = <<>>
                    /\ \A n \in 1 .. Len(s) : out[n] = Packed(out[n - 1], s[n])
                    /\ Z!Pack(s) = out[Len(s)]
<1> DEFINE Unfolds(f, n) ==
             f = [i \in 0 .. n |-> IF i = 0 THEN <<>> ELSE Packed(f[i - 1], s[i])]
           N == {n \in Nat : \E f : Unfolds(f, n)}
           out == CHOOSE f : Unfolds(f, Len(s))
<1>0. Len(s) \in Nat
  OBVIOUS
<1>1. \E f : Unfolds(f, 0)
  <2>1. Unfolds([i \in 0 .. 0 |-> <<>>], 0)
    OBVIOUS
  <2>2. QED
    BY <2>1
<1>2. ASSUME NEW n \in N PROVE n + 1 \in N
  <2>1. PICK f : Unfolds(f, n)
    OBVIOUS
  <2> DEFINE g == [i \in 0 .. n + 1 |-> IF i <= n THEN f[i] ELSE Packed(f[n], s[n + 1])]
  <2>2. n \in Nat /\ n + 1 \in Nat
    OBVIOUS
  <2>3. ASSUME NEW i \in 0 .. n + 1
        PROVE  g[i] = IF i = 0 THEN <<>> ELSE Packed(g[i - 1], s[i])
    <3>1. CASE i = 0
      BY <2>1, <2>2, <3>1
    <3>2. CASE i \in 1 .. n
      <4>1. f[i] = Packed(f[i - 1], s[i])
        <5>1. i \in 0 .. n /\ i # 0
          BY <2>2, <3>2
        <5>2. QED
          BY <2>1, <5>1
      <4>2. g[i] = f[i] /\ g[i - 1] = f[i - 1]
        BY <2>2, <3>2
      <4>3. QED
        <5> HIDE DEF g
        <5>1. i # 0
          BY <2>2, <3>2
        <5>2. QED
          BY <4>1, <4>2, <5>1
    <3>3. CASE i = n + 1
      <4>1. g[i] = Packed(f[n], s[n + 1]) /\ g[i - 1] = f[n] /\ i # 0
        <5>1. i \in 0 .. n + 1 /\ ~(i <= n) /\ i # 0 /\ n \in 0 .. n + 1 /\ n <= n /\ i - 1 = n
          BY <2>2, <3>3
        <5>2. QED
          BY <5>1
      <4>2. QED
        <5> HIDE DEF g
        <5>1. QED
          BY <3>3, <4>1
    <3>4. QED
      BY <2>2, <3>1, <3>2, <3>3
  <2>4. Unfolds(g, n + 1)
    <3> HIDE DEF g
    <3>1. g = [i \in 0 .. n + 1 |-> g[i]]
      BY DEF g
    <3>2. QED
      BY <2>3, <3>1
  <2>5. QED
    BY <2>2, <2>4
<1>3. N = Nat
  <2> HIDE DEF Unfolds
  <2>1. N \in SUBSET Nat /\ 0 \in N
    BY <1>1
  <2> HIDE DEF N
  <2>2. QED
    BY <1>2, <2>1, Induction
<1>4. \E f : Unfolds(f, Len(s))
  <2> HIDE DEF Unfolds
  <2>1. Len(s) \in N
    BY <1>0, <1>3
  <2>2. QED
    BY <2>1
<1>5. Unfolds(out, Len(s))
  BY <1>4, Zenon
<1>6. Z!Pack(s) = out[Len(s)]
  BY DEF Z!Pack, Z!Last, Packed, Last
<1> HIDE DEF out, N
<1>7. /\ out[0] = <<>>
      /\ \A n \in 1 .. Len(s) : out[n] = Packed(out[n - 1], s[n])
  <2>1. out[0] = <<>>
    BY <1>0, <1>5
  <2>2. ASSUME NEW n \in 1 .. Len(s) PROVE out[n] = Packed(out[n - 1], s[n])
    <3>1. n \in 0 .. Len(s) /\ n # 0
      BY <1>0
    <3>2. QED
      BY <1>5, <3>1
  <2>3. QED
    BY <2>1, <2>2
<1>8. QED
  BY <1>6, <1>7

\* One more byte is one more byte.
LEMMA PackedRight ==
    ASSUME NEW b \in Seq(Plain), NEW c \in StreamBytes
    PROVE  Packed(b, c) \in Seq(Plain) /\ Z!Unpack(Packed(b, c)) = Z!Unpack(b) \o <<c>>
<1> DEFINE one == [byte |-> c, times |-> 1]
<1>0. /\ one \in Plain /\ Plain \subseteq Pair /\ b \in Seq(Pair)
      /\ \A x \in Seq(Plain) : x \in Seq(Pair)
  <2>1. one \in Plain
    BY DEF Plain
  <2>2. Plain \subseteq Pair
    BY DEF Pair
  <2>3. \A x \in Seq(Plain) : x \in Seq(Pair)
    BY DEF Pair
  <2>4. QED
    BY <2>1, <2>2, <2>3
<1>1. CASE b # <<>> /\ Last(b).byte = c
  <2>1. PICK a \in Seq(Plain), e \in Plain : b = Append(a, e)
    BY <1>1, SequenceEmptyOrAppend
  <2> DEFINE f == [byte |-> e.byte, times |-> e.times + 1]
  <2>2. /\ Len(a) \in Nat /\ Len(b) = Len(a) + 1 /\ b[Len(b)] = e
        /\ \A i \in 1 .. Len(a) : b[i] = a[i]
    BY <2>1, AppendProperties, LenProperties
  <2>3. e.byte = c /\ e.times \in Nat /\ e = [byte |-> e.byte, times |-> e.times]
    BY <1>1, <2>1, <2>2 DEF Last, Plain
  <2>4. f \in Plain /\ f = [e EXCEPT !.times = @ + 1]
    BY <2>3 DEF Plain
  <2>5. Packed(b, c) = [b EXCEPT ![Len(b)] = f]
    <3>1. Packed(b, c) = [b EXCEPT ![Len(b)].times = @ + 1]
      BY <1>1 DEF Packed
    <3>2. QED
      BY <2>2, <2>3, <2>4, <3>1
  <2> HIDE DEF f
  <2>6. [b EXCEPT ![Len(b)] = f] = Append(a, f)
    <3> DEFINE l == [b EXCEPT ![Len(b)] = f]
               r == Append(a, f)
    <3>1. Len(b) \in 1 .. Len(b) /\ Len(b) \in Nat
      BY <2>2
    <3>2. /\ l \in Seq(Plain) /\ Len(l) = Len(b)
          /\ \A j \in 1 .. Len(b) : l[j] = IF j = Len(b) THEN f ELSE b[j]
      BY <2>4, <3>1, ExceptSeq
    <3>3. /\ r \in Seq(Plain) /\ Len(r) = Len(a) + 1
          /\ \A j \in 1 .. Len(a) : r[j] = a[j]
          /\ r[Len(a) + 1] = f
      BY <2>4, AppendProperties
    <3> HIDE DEF l, r
    <3>4. \A j \in 1 .. Len(l) : l[j] = r[j]
      BY <2>2, <3>2, <3>3
    <3>5. l = r
      BY <2>2, <3>2, <3>3, <3>4, SeqEqual
    <3>6. QED
      BY <3>5 DEF l, r
  <2>7. Packed(b, c) = a \o <<f>> /\ b = a \o <<e>>
    <3>1. Append(a, f) = a \o <<f>>
      BY <2>4, AppendIsConcat
    <3>2. Append(a, e) = a \o <<e>>
      BY <2>1, AppendIsConcat
    <3>3. QED
      BY <2>1, <2>5, <2>6, <3>1, <3>2
  <2>8. <<f>> \in Seq(Plain) /\ <<e>> \in Seq(Plain) /\ a \o <<f>> \in Seq(Plain)
    BY <2>1, <2>4, ConcatProperties
  <2>9. Z!Unpack(Packed(b, c)) = Z!Unpack(a) \o Run(f) /\ Z!Unpack(b) = Z!Unpack(a) \o Run(e)
    <3>1. a \in Seq(Pair) /\ <<f>> \in Seq(Pair) /\ <<e>> \in Seq(Pair)
      BY <1>0, <2>1, <2>8
    <3>2. f \in Pair /\ e \in Pair
      BY <1>0, <2>1, <2>4
    <3>3. Z!Unpack(a \o <<f>>) = Z!Unpack(a) \o Z!Unpack(<<f>>)
          /\ Z!Unpack(a \o <<e>>) = Z!Unpack(a) \o Z!Unpack(<<e>>)
      BY <3>1, UnpackConcat, Zenon
    <3>4. Z!Unpack(<<f>>) = Run(f) /\ Z!Unpack(<<e>>) = Run(e)
      BY <3>2, UnpackOne, Zenon
    <3>5. QED
      BY <2>7, <3>3, <3>4, Zenon
  <2>10. Run(f) = Run(e) \o <<c>>
    <3>1. Run(f) = [j \in 1 .. e.times + 1 |-> c] /\ Run(e) = [j \in 1 .. e.times |-> c]
      BY <2>3 DEF Run, f
    <3>2. /\ Run(f) \in Seq(StreamBytes) /\ Len(Run(f)) = e.times + 1
          /\ \A j \in 1 .. e.times + 1 : Run(f)[j] = c
      <4>1. ASSUME NEW n \in Nat
            PROVE  LET r == [j \in 1 .. n |-> c]
                   IN r \in Seq(StreamBytes) /\ Len(r) = n /\ \A j \in 1 .. n : r[j] = c
        OBVIOUS
      <4>2. e.times + 1 \in Nat
        BY <2>3
      <4>3. QED
        BY <3>1, <4>1, <4>2
    <3>3. /\ Run(e) \in Seq(StreamBytes) /\ Len(Run(e)) = e.times
          /\ \A j \in 1 .. e.times : Run(e)[j] = c
      BY <2>3, <3>1, SMTT(30)
    <3> DEFINE r == Run(e) \o <<c>>
    <3>4. /\ r \in Seq(StreamBytes) /\ Len(r) = e.times + 1
          /\ \A j \in 1 .. e.times + 1 : r[j] = c
      <4>1. <<c>> \in Seq(StreamBytes) /\ Len(<<c>>) = 1 /\ <<c>>[1] = c
        OBVIOUS
      <4>2. \A x, y \in Seq(StreamBytes) :
              /\ x \o y \in Seq(StreamBytes) /\ Len(x \o y) = Len(x) + Len(y)
              /\ \A i \in 1 .. Len(x) + Len(y) :
                   (x \o y)[i] = IF i <= Len(x) THEN x[i] ELSE y[i - Len(x)]
        BY ConcatProperties
      <4>3. /\ r \in Seq(StreamBytes) /\ Len(r) = e.times + 1
            /\ \A i \in 1 .. e.times + 1 :
                 r[i] = IF i <= e.times THEN Run(e)[i] ELSE <<c>>[i - e.times]
        BY <3>3, <4>1, <4>2
      <4>4. QED
        <5> HIDE DEF r
        <5>1. ASSUME NEW j \in 1 .. e.times + 1 PROVE r[j] = c
          <6>1. CASE j <= e.times
            BY <2>3, <3>3, <4>3, <6>1
          <6>2. CASE ~(j <= e.times)
            <7>1. j - e.times = 1
              BY <2>3, <6>2
            <7>2. QED
              BY <4>1, <4>3, <6>2, <7>1
          <6>3. QED
            BY <6>1, <6>2
        <5>2. QED
          BY <4>3, <5>1
    <3> HIDE DEF r
    <3>5. Run(f) = r
      BY <3>2, <3>4, SeqEqual
    <3>6. QED
      BY <3>5 DEF r
  <2>11. /\ Z!Unpack(a) \in Seq(StreamBytes) /\ Run(e) \in Seq(StreamBytes)
         /\ <<c>> \in Seq(StreamBytes)
    BY <1>0, <2>1, RunType, UnpackType
  <2>12. Z!Unpack(a) \o (Run(e) \o <<c>>) = (Z!Unpack(a) \o Run(e)) \o <<c>>
    BY <2>11, Associative
  <2>13. QED
    BY <2>7, <2>8, <2>9, <2>10, <2>12
<1>2. CASE ~(b # <<>> /\ Last(b).byte = c)
  <2>1. Packed(b, c) = Append(b, one)
    BY <1>2 DEF Packed
  <2>2. Append(b, one) = b \o <<one>> /\ Append(b, one) \in Seq(Plain)
    BY <1>0, AppendIsConcat, AppendProperties
  <2>3. <<one>> \in Seq(Pair) /\ one \in Pair
    BY <1>0
  <2>4. Z!Unpack(b \o <<one>>) = Z!Unpack(b) \o Run(one)
    BY <1>0, <2>3, UnpackConcat, UnpackOne
  <2>5. Run(one) = <<c>>
    BY DEF Run
  <2>6. QED
    BY <2>1, <2>2, <2>4, <2>5
<1>3. QED
  BY <1>1, <1>2

\* What is packed is unpacked.
LEMMA PackRight ==
    \A s \in Seq(StreamBytes) : Z!Pack(s) \in Seq(Pair) /\ Z!Unpack(Z!Pack(s)) = s
<1> SUFFICES ASSUME NEW s \in Seq(StreamBytes)
             PROVE  Z!Pack(s) \in Seq(Pair) /\ Z!Unpack(Z!Pack(s)) = s
  OBVIOUS
<1>0. Len(s) \in Nat
  OBVIOUS
<1>1. PICK f : /\ f[0] = <<>>
               /\ \A n \in 1 .. Len(s) : f[n] = Packed(f[n - 1], s[n])
               /\ Z!Pack(s) = f[Len(s)]
  BY PackFunction
<1> DEFINE N == {n \in Nat : n <= Len(s) =>
                    f[n] \in Seq(Plain) /\ Z!Unpack(f[n]) = SubSeq(s, 1, n)}
<1>2. N \in SUBSET Nat
  OBVIOUS
<1>3. 0 \in N
  <2>1. f[0] = <<>> /\ <<>> \in Seq(Plain) /\ SubSeq(s, 1, 0) = <<>>
    BY <1>1, SubSeqEmpty
  <2>2. QED
    BY <2>1, UnpackEmpty
<1>4. ASSUME NEW n \in N PROVE n + 1 \in N
  <2>0. n \in Nat /\ (n <= Len(s) =>
                    f[n] \in Seq(Plain) /\ Z!Unpack(f[n]) = SubSeq(s, 1, n))
    OBVIOUS
  <2> HIDE DEF N
  <2>1. ASSUME n + 1 <= Len(s)
        PROVE f[n + 1] \in Seq(Plain) /\ Z!Unpack(f[n + 1]) = SubSeq(s, 1, n + 1)
    <3>1. n + 1 \in 1 .. Len(s) /\ (n + 1) - 1 = n /\ f[n] \in Seq(Plain)
          /\ Z!Unpack(f[n]) = SubSeq(s, 1, n)
      BY <1>0, <2>0, <2>1
    <3>2. f[n + 1] = Packed(f[n], s[n + 1])
      BY <1>1, <3>1
    <3>3. s[n + 1] \in StreamBytes
      BY <3>1, ElementOfSeq
    <3>4. /\ Packed(f[n], s[n + 1]) \in Seq(Plain)
          /\ Z!Unpack(Packed(f[n], s[n + 1])) = Z!Unpack(f[n]) \o <<s[n + 1]>>
      BY <3>1, <3>3, PackedRight
    <3>5. SubSeq(s, 1, n) \o <<s[n + 1]>> = SubSeq(s, 1, n + 1)
      <4>1. 1 \in 1 .. Len(s) /\ n + 1 \in 1 .. Len(s)
        BY <1>0, <3>1
      <4>2. SubSeq(s, 1, n + 1) = SubSeq(s, 1, (n + 1) - 1) \o <<s[n + 1]>>
        BY <4>1, SubSeqRecursiveSecond
      <4>3. QED
        BY <3>1, <4>2
    <3>6. QED
      BY <3>1, <3>2, <3>4, <3>5
  <2>2. QED
    BY <2>0, <2>1 DEF N
<1>5. Len(s) \in N
  <2> HIDE DEF N
  <2>1. N = Nat
    BY <1>2, <1>3, <1>4, Induction
  <2>2. QED
    BY <1>0, <2>1
<1>6. f[Len(s)] \in Seq(Plain) /\ Z!Unpack(f[Len(s)]) = s
  BY <1>0, <1>5, SubSeqFull
<1>7. \A x \in Seq(Plain) : x \in Seq(Pair)
  BY DEF Pair
<1>8. QED
  BY <1>1, <1>6, <1>7

-----------------------------------------------------------------------------
(* Compressor and Decompressor *)

StreamsTypes ==
    /\ kind \in {"gzip", "lzma"} /\ writing \in {"none", "compressor", "decompressor"}
    /\ zIn \in Seq(StreamBytes) /\ fed \in Seq(StreamBytes)
    /\ window \in Seq(StreamBytes) /\ received \in Seq(StreamBytes)
    /\ pending \in Seq(Pair) /\ carried \in Seq(Pair) /\ dIn \in Seq(Pair)
    /\ outLen \in Int

\* Whatever was fed is somewhere on the way, in its order; and what a Write does not
\* leave behind when it returns.
Compressed == (Z!Unpack(carried) \o Z!Unpack(pending)) \o zIn
Inflated == (received \o window) \o Z!Unpack(dIn)

StreamsInv ==
    /\ StreamsTypes
    /\ Inflated \o Compressed = fed
    /\ writing # "compressor" => zIn = <<>> /\ (kind = "gzip" => pending = <<>>)
    /\ writing # "decompressor" => dIn = <<>> /\ window = <<>>

LEMMA StreamsInit == Z!Init => StreamsInv
<1> SUFFICES ASSUME Z!Init PROVE StreamsInv
  OBVIOUS
<1>1. /\ kind \in {"gzip", "lzma"} /\ writing = "none" /\ zIn = <<>> /\ fed = <<>>
      /\ window = <<>> /\ received = <<>> /\ pending = <<>> /\ carried = <<>> /\ dIn = <<>>
      /\ outLen = 0
  BY DEF Z!Init
<1>2. <<>> \in Seq(StreamBytes) /\ <<>> \in Seq(Pair) /\ <<>> \o <<>> = <<>>
  BY ConcatEmptySeq
<1>3. StreamsTypes
  BY <1>1, <1>2 DEF StreamsTypes
<1>4. Inflated \o Compressed = fed
  BY <1>1, <1>2, UnpackEmpty DEF Inflated, Compressed
<1>5. QED
  BY <1>1, <1>3, <1>4 DEF StreamsInv

\* The rest of a sequence is what SubSeq leaves of it.
LEMMA RestSplit ==
    ASSUME NEW E, NEW s \in Seq(E), NEW k \in 0 .. Len(s)
    PROVE  /\ SubSeq(s, 1, k) \in Seq(E) /\ Len(SubSeq(s, 1, k)) = k
           /\ Z!Rest(s, k) \in Seq(E) /\ Len(Z!Rest(s, k)) = Len(s) - k
           /\ SubSeq(s, 1, k) \o Z!Rest(s, k) = s
BY Split DEF Z!Rest

\* The bytes of three texts are joined in either order.
LEMMA AssociativeBytes ==
    \A f \in Seq(StreamBytes) : \A g \in Seq(StreamBytes) : \A h \in Seq(StreamBytes) :
       (f \o g) \o h = f \o (g \o h)
<1>1. TAKE f \in Seq(StreamBytes)
<1>2. TAKE g \in Seq(StreamBytes)
<1>3. TAKE h \in Seq(StreamBytes)
<1>4. QED
  BY Associative

\* Two pieces of a text in the middle are two others.
LEMMA Regroup ==
    ASSUME NEW c \in Seq(StreamBytes), NEW d \in Seq(StreamBytes),
           NEW q \in Seq(StreamBytes), NEW p \in Seq(StreamBytes),
           NEW y \in Seq(StreamBytes), NEW z \in Seq(StreamBytes), d \o q = p \o y
    PROVE  ((c \o d) \o q) \o z = (c \o p) \o (y \o z)
<1>1. \A f \in Seq(StreamBytes) : \A g \in Seq(StreamBytes) : \A h \in Seq(StreamBytes) : (f \o g) \o h = f \o (g \o h)
  BY AssociativeBytes, Zenon
<1>2. \A g \in Seq(StreamBytes) : \A h \in Seq(StreamBytes) : (c \o g) \o h = c \o (g \o h)
  BY <1>1, Zenon
<1>3. \A h \in Seq(StreamBytes) : (c \o d) \o h = c \o (d \o h)
  BY <1>2, Zenon
<1>4. (c \o d) \o q = c \o (d \o q)
  BY <1>3, Zenon
<1>5. \A h \in Seq(StreamBytes) : (c \o p) \o h = c \o (p \o h)
  BY <1>2, Zenon
<1>6. (c \o p) \o y = c \o (p \o y)
  BY <1>5, Zenon
<1>7. c \o p \in Seq(StreamBytes)
  <2>1. \A f \in Seq(StreamBytes) : \A g \in Seq(StreamBytes) : f \o g \in Seq(StreamBytes)
    BY ConcatProperties, Zenon
  <2>2. \A g \in Seq(StreamBytes) : c \o g \in Seq(StreamBytes)
    BY <2>1, Zenon
  <2>3. QED
    BY <2>2, Zenon
<1>8. \A g \in Seq(StreamBytes) : \A h \in Seq(StreamBytes) : ((c \o p) \o g) \o h = (c \o p) \o (g \o h)
  BY <1>1, <1>7, Zenon
<1>9. \A h \in Seq(StreamBytes) : ((c \o p) \o y) \o h = (c \o p) \o (y \o h)
  BY <1>8, Zenon
<1>10. ((c \o p) \o y) \o z = (c \o p) \o (y \o z)
  BY <1>9, Zenon
<1>11. QED
  BY <1>4, <1>6, <1>10, Zenon

\* The same, one text after the other, as the provers take it.
LEMMA RegroupIn ==
    \A c \in Seq(StreamBytes) : \A d \in Seq(StreamBytes) : \A q \in Seq(StreamBytes) :
    \A p \in Seq(StreamBytes) : \A y \in Seq(StreamBytes) : \A z \in Seq(StreamBytes) :
       d \o q = p \o y => ((c \o d) \o q) \o z = (c \o p) \o (y \o z)
BY Regroup, Zenon

\* deflate and lzma_code lose nothing, and have nothing left where there was room.
LEMMA EncodeKeeps ==
    ASSUME StreamsTypes, NEW taken \in 0 .. Len(zIn), NEW packed \in Seq(Pair),
           Z!Encode(taken, packed, BUFFER_SIZE),
           Z!Unpack(packed) = Z!Unpack(pending) \o SubSeq(zIn, 1, taken)
    PROVE  /\ zIn' \in Seq(StreamBytes) /\ pending' \in Seq(Pair) /\ carried' \in Seq(Pair)
           /\ outLen' \in Int
           /\ Compressed' = Compressed
           /\ outLen' - outLen # BUFFER_SIZE
                => zIn' = <<>> /\ (kind = "gzip" => pending' = <<>>)
<1>0. BUFFER_SIZE \in Nat /\ Len(packed) \in Nat /\ Len(zIn) \in Nat
  BY LibraryAssumption DEF StreamsTypes
<1>1. PICK n \in 0 .. Z!Least(BUFFER_SIZE, Len(packed)) :
           /\ taken < Len(zIn) => n = BUFFER_SIZE
           /\ kind = "gzip" => n = Z!Least(BUFFER_SIZE, Len(packed))
           /\ zIn' = Z!Rest(zIn, taken)
           /\ pending' = Z!Rest(packed, n)
           /\ carried' = carried \o SubSeq(packed, 1, n)
           /\ outLen' = outLen + n
  BY DEF Z!Encode
<1>2. n \in 0 .. Len(packed) /\ n \in Nat
  BY <1>0, <1>1 DEF Z!Least
<1>3. /\ SubSeq(packed, 1, n) \in Seq(Pair) /\ pending' \in Seq(Pair)
      /\ Len(pending') = Len(packed) - n
      /\ SubSeq(packed, 1, n) \o pending' = packed
  BY <1>1, <1>2, RestSplit
<1>4. /\ SubSeq(zIn, 1, taken) \in Seq(StreamBytes) /\ zIn' \in Seq(StreamBytes)
      /\ Len(zIn') = Len(zIn) - taken
      /\ SubSeq(zIn, 1, taken) \o zIn' = zIn
  BY <1>1, RestSplit DEF StreamsTypes
<1>5. carried' \in Seq(Pair)
  BY <1>1, <1>3, ConcatProperties DEF StreamsTypes
<1>6. outLen' \in Int /\ outLen' - outLen = n
  BY <1>1, <1>2 DEF StreamsTypes
<1>7. Compressed' = Compressed
  <2>1. PICK c \in Seq(StreamBytes) : c = Z!Unpack(carried)
    BY UnpackType DEF StreamsTypes
  <2>2. PICK p \in Seq(StreamBytes) : p = Z!Unpack(pending)
    BY UnpackType DEF StreamsTypes
  <2>3. PICK d \in Seq(StreamBytes) : d = Z!Unpack(SubSeq(packed, 1, n))
    BY <1>3, UnpackType
  <2>4. PICK q \in Seq(StreamBytes) : q = Z!Unpack(pending')
    BY <1>3, UnpackType
  <2>5. PICK y \in Seq(StreamBytes) : y = SubSeq(zIn, 1, taken)
    BY <1>4
  <2>6. PICK z \in Seq(StreamBytes) : z = zIn'
    BY <1>4
  <2>7. d \o q = p \o y
    BY <1>3, <2>2, <2>3, <2>4, <2>5, UnpackConcat
  <2>8. Z!Unpack(carried') = c \o d
    BY <1>1, <1>3, <2>1, <2>3, UnpackConcat DEF StreamsTypes
  <2>9. Compressed' = ((c \o d) \o q) \o z
    BY <2>4, <2>6, <2>8 DEF Compressed
  <2>10. Compressed = (c \o p) \o (y \o z)
    BY <1>4, <2>1, <2>2, <2>5, <2>6 DEF Compressed
  <2>11. d \o q = p \o y => ((c \o d) \o q) \o z = (c \o p) \o (y \o z)
    <3>1. \A g \in Seq(StreamBytes) : \A h \in Seq(StreamBytes) : \A k \in Seq(StreamBytes) :
          \A l \in Seq(StreamBytes) : \A m \in Seq(StreamBytes) :
             g \o h = k \o l => ((c \o g) \o h) \o m = (c \o k) \o (l \o m)
      BY RegroupIn, Zenon
    <3>2. \A h \in Seq(StreamBytes) : \A k \in Seq(StreamBytes) : \A l \in Seq(StreamBytes) :
          \A m \in Seq(StreamBytes) :
             d \o h = k \o l => ((c \o d) \o h) \o m = (c \o k) \o (l \o m)
      BY <3>1, Zenon
    <3>3. \A k \in Seq(StreamBytes) : \A l \in Seq(StreamBytes) : \A m \in Seq(StreamBytes) :
             d \o q = k \o l => ((c \o d) \o q) \o m = (c \o k) \o (l \o m)
      BY <3>2, Zenon
    <3>4. \A l \in Seq(StreamBytes) : \A m \in Seq(StreamBytes) :
             d \o q = p \o l => ((c \o d) \o q) \o m = (c \o p) \o (l \o m)
      BY <3>3, Zenon
    <3>5. \A m \in Seq(StreamBytes) :
             d \o q = p \o y => ((c \o d) \o q) \o m = (c \o p) \o (y \o m)
      BY <3>4, Zenon
    <3>6. QED
      BY <3>5, Zenon
  <2>12. QED
    BY <2>7, <2>9, <2>10, <2>11, Zenon
<1>8. ASSUME outLen' - outLen # BUFFER_SIZE PROVE zIn' = <<>> /\ (kind = "gzip" => pending' = <<>>)
  <2>1. n # BUFFER_SIZE
    BY <1>6, <1>8
  <2>2. Len(zIn') = 0
    BY <1>0, <1>1, <1>4, <2>1
  <2>3. kind = "gzip" => Len(pending') = 0
    BY <1>0, <1>1, <1>3, <2>1 DEF Z!Least
  <2>4. QED
    BY <1>3, <1>4, <2>2, <2>3, EmptySeq
<1>9. QED
  BY <1>3, <1>4, <1>5, <1>6, <1>7, <1>8

\* inflate loses nothing, and has nothing left where there was room.
LEMMA InflateKeeps ==
    ASSUME StreamsInv, Z!Inflate
    PROVE  StreamsInv'
<1>0. BUFFER_SIZE \in Nat /\ Len(dIn) \in Nat
  BY LibraryAssumption DEF StreamsInv, StreamsTypes
<1>1. /\ writing = "decompressor"
      /\ UNCHANGED <<kind, pending, carried, fed, zIn>>
  BY DEF Z!Inflate
<1> DEFINE unpacked(t) == window \o Z!Unpack(SubSeq(dIn, 1, t))
<1>2. PICK taken \in 0 .. Len(dIn) :
        LET n == Z!Least(BUFFER_SIZE, Len(unpacked(taken))) IN
           /\ taken < Len(dIn) => Len(unpacked(taken)) >= BUFFER_SIZE
           /\ dIn' = Z!Rest(dIn, taken)
           /\ window' = Z!Rest(unpacked(taken), n)
           /\ received' = received \o SubSeq(unpacked(taken), 1, n)
           /\ outLen' = outLen + n
           /\ writing' = IF Z!Again(n) THEN writing ELSE "none"
  BY DEF Z!Inflate
<1>3. /\ SubSeq(dIn, 1, taken) \in Seq(Pair) /\ dIn' \in Seq(Pair)
      /\ Len(dIn') = Len(dIn) - taken
      /\ SubSeq(dIn, 1, taken) \o dIn' = dIn
  <2>1. dIn \in Seq(Pair) /\ taken \in 0 .. Len(dIn) /\ dIn' = Z!Rest(dIn, taken)
    BY <1>2 DEF StreamsInv, StreamsTypes
  <2>2. QED
    BY <2>1, RestSplit
<1>4. PICK v \in Seq(StreamBytes) : v = Z!Unpack(SubSeq(dIn, 1, taken))
  BY <1>3, UnpackType
<1>5. PICK u \in Seq(StreamBytes) : u = unpacked(taken) /\ u = window \o v
  BY <1>4, ConcatProperties DEF StreamsInv, StreamsTypes
<1>6. Len(u) \in Nat
  OBVIOUS
<1>7. PICK n \in 0 .. Len(u) : n = Z!Least(BUFFER_SIZE, Len(u))
  BY <1>0, <1>6 DEF Z!Least
<1> HIDE DEF unpacked
<1>8. /\ SubSeq(u, 1, n) \in Seq(StreamBytes) /\ window' \in Seq(StreamBytes)
      /\ Len(window') = Len(u) - n
      /\ SubSeq(u, 1, n) \o window' = u
  <2>1. window' = Z!Rest(u, n)
    BY <1>2, <1>5, <1>7
  <2>2. QED
    BY <2>1, RestSplit
<1>9. received' = received \o SubSeq(u, 1, n) /\ outLen' = outLen + n
      /\ (taken < Len(dIn) => Len(u) >= BUFFER_SIZE)
      /\ writing' = IF n = BUFFER_SIZE THEN writing ELSE "none"
  BY <1>2, <1>5, <1>7 DEF Z!Again
<1>10. StreamsTypes'
  <2>1. received' \in Seq(StreamBytes)
    BY <1>8, <1>9, ConcatProperties DEF StreamsInv, StreamsTypes
  <2>2. outLen' \in Int
    BY <1>7, <1>9, SMTT(30) DEF StreamsInv, StreamsTypes
  <2>3. QED
    BY <1>1, <1>3, <1>8, <1>9, <2>1, <2>2 DEF StreamsInv, StreamsTypes
<1>11. Inflated' = Inflated
  <2>1. PICK a \in Seq(StreamBytes) : a = SubSeq(u, 1, n)
    BY <1>8
  <2>2. PICK r \in Seq(StreamBytes) : r = received
    BY DEF StreamsInv, StreamsTypes
  <2>3. PICK w \in Seq(StreamBytes) : w = window
    BY DEF StreamsInv, StreamsTypes
  <2>4. PICK x \in Seq(StreamBytes) : x = window'
    BY <1>8
  <2>5. PICK d \in Seq(StreamBytes) : d = Z!Unpack(dIn')
    BY <1>3, UnpackType
  <2>6. a \o x = w \o v
    BY <1>5, <1>8, <2>1, <2>3, <2>4
  <2>7. Z!Unpack(dIn) = v \o d
    BY <1>3, <1>4, <2>5, UnpackConcat
  <2>8. Inflated' = ((r \o a) \o x) \o d
    BY <1>9, <2>1, <2>2, <2>4, <2>5 DEF Inflated
  <2>9. Inflated = (r \o w) \o (v \o d)
    BY <2>2, <2>3, <2>7 DEF Inflated
  <2>10. a \o x = w \o v => ((r \o a) \o x) \o d = (r \o w) \o (v \o d)
    <3>1. \A g \in Seq(StreamBytes) : \A h \in Seq(StreamBytes) : \A k \in Seq(StreamBytes) :
          \A l \in Seq(StreamBytes) : \A m \in Seq(StreamBytes) :
             g \o h = k \o l => ((r \o g) \o h) \o m = (r \o k) \o (l \o m)
      BY RegroupIn, Zenon
    <3>2. \A h \in Seq(StreamBytes) : \A k \in Seq(StreamBytes) : \A l \in Seq(StreamBytes) :
          \A m \in Seq(StreamBytes) :
             a \o h = k \o l => ((r \o a) \o h) \o m = (r \o k) \o (l \o m)
      BY <3>1, Zenon
    <3>3. \A k \in Seq(StreamBytes) : \A l \in Seq(StreamBytes) : \A m \in Seq(StreamBytes) :
             a \o x = k \o l => ((r \o a) \o x) \o m = (r \o k) \o (l \o m)
      BY <3>2, Zenon
    <3>4. \A l \in Seq(StreamBytes) : \A m \in Seq(StreamBytes) :
             a \o x = w \o l => ((r \o a) \o x) \o m = (r \o w) \o (l \o m)
      BY <3>3, Zenon
    <3>5. \A m \in Seq(StreamBytes) :
             a \o x = w \o v => ((r \o a) \o x) \o m = (r \o w) \o (v \o m)
      BY <3>4, Zenon
    <3>6. QED
      BY <3>5, Zenon
  <2>11. QED
    BY <2>6, <2>8, <2>9, <2>10, Zenon
<1>12. Compressed' = Compressed
  BY <1>1 DEF Compressed
<1>13. writing' # "decompressor" => dIn' = <<>> /\ window' = <<>>
  <2>1. SUFFICES ASSUME n # BUFFER_SIZE PROVE dIn' = <<>> /\ window' = <<>>
    BY <1>1, <1>9
  <2>2. n = Len(u) /\ Len(u) < BUFFER_SIZE
    BY <1>0, <1>6, <1>7, <2>1 DEF Z!Least
  <2>3. taken = Len(dIn)
    <3>1. taken \in 0 .. Len(dIn)
      BY <1>2
    <3>2. ~(taken < Len(dIn))
      BY <1>0, <1>6, <1>9, <2>2
    <3>3. QED
      BY <1>0, <3>1, <3>2
  <2>4. Len(dIn') = 0 /\ Len(window') = 0
    BY <1>0, <1>3, <1>6, <1>8, <2>2, <2>3
  <2>5. QED
    BY <1>3, <1>8, <2>4, EmptySeq
<1>14. writing' # "compressor" /\ writing # "compressor"
  BY <1>1, <1>9
<1>15. QED
  BY <1>1, <1>10, <1>11, <1>12, <1>13, <1>14 DEF StreamsInv

LEMMA StreamsCompress ==
    ASSUME StreamsInv, NEW data0 \in Seq(StreamBytes), Z!Compress(data0)
    PROVE  StreamsInv'
<1>1. /\ writing = "none" /\ writing' = "compressor" /\ zIn' = data0 /\ outLen' = 0
      /\ fed' = fed \o data0
      /\ UNCHANGED <<kind, pending, carried, dIn, window, received>>
  BY DEF Z!Compress
<1>2. zIn = <<>>
  BY <1>1 DEF StreamsInv
<1>3. fed' \in Seq(StreamBytes)
  BY <1>1, ConcatProperties DEF StreamsInv, StreamsTypes
<1>4. StreamsTypes'
  BY <1>1, <1>3 DEF StreamsInv, StreamsTypes
<1>5. Inflated' \o Compressed' = fed'
  <2>1. PICK c \in Seq(StreamBytes) : c = Z!Unpack(carried) \o Z!Unpack(pending)
    <3>1. Z!Unpack(carried) \in Seq(StreamBytes) /\ Z!Unpack(pending) \in Seq(StreamBytes)
      BY UnpackType DEF StreamsInv, StreamsTypes
    <3>2. QED
      BY <3>1, ConcatProperties
  <2>2. PICK b \in Seq(StreamBytes) : b = Inflated
    <3>1. received \o window \in Seq(StreamBytes) /\ Z!Unpack(dIn) \in Seq(StreamBytes)
      BY UnpackType, ConcatProperties DEF StreamsInv, StreamsTypes
    <3>2. QED
      BY <3>1, ConcatProperties DEF Inflated
  <2>3. Compressed = c /\ Compressed' = c \o data0 /\ Inflated' = b
    <3>1. Compressed = c \o <<>>
      BY <1>2, <2>1 DEF Compressed
    <3>2. c \o <<>> = c
      BY ConcatEmptySeq
    <3>3. QED
      BY <1>1, <2>1, <2>2, <3>1, <3>2 DEF Compressed, Inflated
  <2>4. b \o c = fed
    BY <2>2, <2>3 DEF StreamsInv
  <2>5. b \o (c \o data0) = (b \o c) \o data0
    BY Associative, SMTT(40)
  <2>6. QED
    BY <1>1, <2>3, <2>4, <2>5, Zenon
<1>6. QED
  BY <1>1, <1>4, <1>5 DEF StreamsInv

\* Both compressors go round their loop with all that there is.
LEMMA StreamsLoop ==
    ASSUME StreamsInv, NEW taken \in 0 .. Len(zIn), NEW packed \in Seq(Pair),
           Z!Encode(taken, packed, BUFFER_SIZE), writing = "compressor",
           Z!Unpack(packed) = Z!Unpack(pending) \o SubSeq(zIn, 1, taken),
           writing' = IF Z!Again(outLen' - outLen) THEN writing ELSE "none",
           UNCHANGED <<kind, dIn, window, fed, received>>
    PROVE  StreamsInv'
<1>1. /\ zIn' \in Seq(StreamBytes) /\ pending' \in Seq(Pair) /\ carried' \in Seq(Pair)
      /\ outLen' \in Int
      /\ Compressed' = Compressed
      /\ outLen' - outLen # BUFFER_SIZE
           => zIn' = <<>> /\ (kind = "gzip" => pending' = <<>>)
  BY EncodeKeeps DEF StreamsInv
<1>2. writing' # "compressor" => outLen' - outLen # BUFFER_SIZE
  BY DEF Z!Again
<1>3. writing' \in {"none", "compressor"}
  OBVIOUS
<1>4. Inflated' = Inflated
  BY DEF Inflated
<1>5. StreamsTypes'
  BY <1>1, <1>3 DEF StreamsInv, StreamsTypes
<1>6. QED
  BY <1>1, <1>2, <1>3, <1>4, <1>5 DEF StreamsInv

\* What goes into deflate and lzma_code: what was left, and what they take now.
LEMMA PackedMore ==
    ASSUME StreamsInv, NEW taken \in 0 .. Len(zIn), NEW end \in {<<>>, <<Z!Sync>>}
    PROVE  LET packed == pending \o Z!Pack(SubSeq(zIn, 1, taken)) \o end
           IN /\ packed \in Seq(Pair)
              /\ Z!Unpack(packed) = Z!Unpack(pending) \o SubSeq(zIn, 1, taken)
<1>1. PICK y \in Seq(StreamBytes) : y = SubSeq(zIn, 1, taken)
  BY RestSplit DEF StreamsInv, StreamsTypes
<1>2. PICK p \in Seq(Pair) : p = Z!Pack(y) /\ Z!Unpack(p) = y
  BY PackRight
<1>3. end \in Seq(Pair) /\ Z!Unpack(end) = <<>>
  <2>1. <<Z!Sync>> \in Seq(Pair) /\ <<>> \in Seq(Pair)
    BY DEF Pair
  <2>2. QED
    BY <2>1, UnpackSync, UnpackEmpty
<1>4. pending \in Seq(Pair) /\ Z!Unpack(pending) \in Seq(StreamBytes)
  BY UnpackType DEF StreamsInv, StreamsTypes
<1>5. pending \o p \in Seq(Pair) /\ (pending \o p) \o end \in Seq(Pair)
  <2>1. pending \o p \in Seq(Pair)
    BY <1>4, ConcatProperties
  <2>2. QED
    BY <1>3, <2>1, ConcatProperties
<1>6. Z!Unpack((pending \o p) \o end) = Z!Unpack(pending \o p) \o Z!Unpack(end)
  BY <1>3, <1>5, UnpackConcat
<1>7. Z!Unpack(pending \o p) = Z!Unpack(pending) \o y
  BY <1>2, <1>4, UnpackConcat
<1>8. Z!Unpack(pending) \o y \in Seq(StreamBytes)
  BY <1>4, ConcatProperties
<1>9. (Z!Unpack(pending) \o y) \o <<>> = Z!Unpack(pending) \o y
  BY <1>8, ConcatEmptySeq
<1>10. QED
  BY <1>1, <1>2, <1>3, <1>5, <1>6, <1>7, <1>9

LEMMA StreamsDeflate == StreamsInv /\ Z!Deflate => StreamsInv'
<1> SUFFICES ASSUME StreamsInv, Z!Deflate PROVE StreamsInv'
  OBVIOUS
<1> DEFINE end(t) == IF t = Len(zIn) /\ ~flushed THEN <<Z!Sync>> ELSE <<>>
           packed(t) == pending \o Z!Pack(SubSeq(zIn, 1, t)) \o end(t)
<1>1. PICK taken \in 0 .. Len(zIn) :
           /\ Z!Encode(taken, packed(taken), BUFFER_SIZE)
           /\ writing' = IF Z!Again(outLen' - outLen) THEN writing ELSE "none"
  BY DEF Z!Deflate
<1>2. /\ writing = "compressor"
      /\ UNCHANGED <<kind, dIn, window, fed, received>>
  BY DEF Z!Deflate
<1>3. end(taken) \in {<<>>, <<Z!Sync>>}
  OBVIOUS
<1>4. /\ packed(taken) \in Seq(Pair)
      /\ Z!Unpack(packed(taken)) = Z!Unpack(pending) \o SubSeq(zIn, 1, taken)
  <2> HIDE DEF end
  <2>1. QED
    BY <1>1, <1>3, PackedMore
<1> HIDE DEF end, packed
<1>5. QED
  BY <1>1, <1>2, <1>4, StreamsLoop

LEMMA StreamsLZMACode == StreamsInv /\ Z!LZMACode => StreamsInv'
<1> SUFFICES ASSUME StreamsInv, Z!LZMACode PROVE StreamsInv'
  OBVIOUS
<1>0. /\ writing = "compressor" /\ kind = "lzma"
      /\ UNCHANGED <<kind, dIn, window, fed, received>>
  BY DEF Z!LZMACode
<1> DEFINE packed(t) == pending \o Z!Pack(SubSeq(zIn, 1, t))
<1>1. PICK taken \in 0 .. Len(zIn) :
        \/ /\ Z!Encode(taken, packed(taken), BUFFER_SIZE)
           /\ writing' = IF Z!Again(outLen' - outLen) THEN writing ELSE "none"
        \/ /\ zIn = <<>> /\ outLen' = -1 /\ writing' = "none"
           /\ UNCHANGED <<zIn, pending, carried>>
  BY DEF Z!LZMACode
<1>2. CASE /\ Z!Encode(taken, packed(taken), BUFFER_SIZE)
           /\ writing' = IF Z!Again(outLen' - outLen) THEN writing ELSE "none"
  <2>1. /\ packed(taken) \o <<>> \in Seq(Pair)
        /\ Z!Unpack(packed(taken) \o <<>>) = Z!Unpack(pending) \o SubSeq(zIn, 1, taken)
    BY <1>1, PackedMore
  <2>2. packed(taken) \in Seq(Pair)
    <3>1. pending \in Seq(Pair) /\ SubSeq(zIn, 1, taken) \in Seq(StreamBytes)
      BY <1>1, RestSplit DEF StreamsInv, StreamsTypes
    <3>2. Z!Pack(SubSeq(zIn, 1, taken)) \in Seq(Pair)
      BY <3>1, PackRight
    <3>3. QED
      BY <3>1, <3>2, ConcatProperties
  <2> HIDE DEF packed
  <2>3. packed(taken) \o <<>> = packed(taken)
    BY <2>2, ConcatEmptySeq
  <2>4. Z!Unpack(packed(taken)) = Z!Unpack(pending) \o SubSeq(zIn, 1, taken)
    BY <2>1, <2>3
  <2>5. QED
    BY <1>0, <1>1, <1>2, <2>2, <2>4, StreamsLoop
<1>3. CASE /\ zIn = <<>> /\ outLen' = -1 /\ writing' = "none"
           /\ UNCHANGED <<zIn, pending, carried>>
  <2>1. StreamsTypes'
    BY <1>0, <1>3 DEF StreamsInv, StreamsTypes
  <2>2. Inflated' = Inflated /\ Compressed' = Compressed
    BY <1>0, <1>3 DEF Inflated, Compressed
  <2>3. QED
    BY <1>0, <1>3, <2>1, <2>2 DEF StreamsInv
<1>4. QED
  BY <1>1, <1>2, <1>3

LEMMA StreamsDecompress ==
    ASSUME StreamsInv, NEW n \in 1 .. Len(carried), Z!Decompress(n)
    PROVE  StreamsInv'
<1>1. /\ writing = "none" /\ kind = "gzip" /\ writing' = "decompressor"
      /\ dIn' = SubSeq(carried, 1, n) /\ carried' = Z!Rest(carried, n) /\ outLen' = 0
      /\ UNCHANGED <<kind, zIn, pending, window, fed, received>>
  BY DEF Z!Decompress
<1>2. /\ dIn' \in Seq(Pair) /\ carried' \in Seq(Pair) /\ dIn' \o carried' = carried
  <2>1. carried \in Seq(Pair) /\ Len(carried) \in Nat
    BY DEF StreamsInv, StreamsTypes
  <2>2. n \in 0 .. Len(carried)
    BY <2>1
  <2>3. QED
    BY <1>1, <2>1, <2>2, RestSplit
<1>3. /\ dIn = <<>> /\ window = <<>> /\ pending = <<>> /\ zIn = <<>>
  BY <1>1 DEF StreamsInv
<1>4. StreamsTypes'
  BY <1>1, <1>2 DEF StreamsInv, StreamsTypes
<1>5. Inflated' \o Compressed' = Inflated \o Compressed
  <2>1. PICK r \in Seq(StreamBytes) : r = received
    BY DEF StreamsInv, StreamsTypes
  <2>2. PICK d \in Seq(StreamBytes) : d = Z!Unpack(dIn')
    BY <1>2, UnpackType
  <2>3. PICK c \in Seq(StreamBytes) : c = Z!Unpack(carried')
    BY <1>2, UnpackType
  <2>4. Z!Unpack(carried) = d \o c
    BY <1>2, <2>2, <2>3, UnpackConcat
  <2>5. d \o c \in Seq(StreamBytes)
    BY ConcatProperties
  <2>6. r \o <<>> = r /\ c \o <<>> = c /\ (d \o c) \o <<>> = d \o c
    BY <2>5, ConcatEmptySeq
  <2>7. Inflated' = r \o d /\ Compressed' = c /\ Inflated = r /\ Compressed = d \o c
    <3>1. Inflated' = (r \o <<>>) \o d /\ Inflated = (r \o <<>>) \o <<>>
      BY <1>1, <1>3, <2>1, <2>2, UnpackEmpty DEF Inflated
    <3>2. Compressed' = (c \o <<>>) \o <<>> /\ Compressed = ((d \o c) \o <<>>) \o <<>>
      BY <1>1, <1>3, <2>3, <2>4, UnpackEmpty DEF Compressed
    <3>3. QED
      BY <2>6, <3>1, <3>2
  <2>8. (r \o d) \o c = r \o (d \o c)
    BY Associative, SMTT(40)
  <2>9. QED
    BY <2>7, <2>8, Zenon
<1>6. QED
  BY <1>1, <1>3, <1>4, <1>5 DEF StreamsInv

LEMMA StreamsNext == StreamsInv /\ Z!Next => StreamsInv'
<1> SUFFICES ASSUME StreamsInv, Z!Next PROVE StreamsInv'
  OBVIOUS
<1>1. ASSUME NEW n \in 0 .. MaxStreamBytes, NEW d \in [1 .. n -> StreamBytes], Z!Compress(d)
      PROVE  StreamsInv'
  <2>1. n \in Nat
    BY LibraryAssumption
  <2>2. d \in Seq(StreamBytes)
    BY <2>1
  <2>3. QED
    BY <1>1, <2>2, StreamsCompress
<1>2. QED
  BY <1>1, StreamsDeflate, StreamsLZMACode, StreamsDecompress, InflateKeeps DEF Z!Next

LEMMA StreamsStill == StreamsInv /\ UNCHANGED streams => StreamsInv'
<1> SUFFICES ASSUME StreamsInv, UNCHANGED streams PROVE StreamsInv'
  OBVIOUS
<1>1. UNCHANGED <<kind, writing, zIn, pending, carried, dIn, window, outLen, fed, received>>
  BY DEF streams
<1>2. Inflated' = Inflated /\ Compressed' = Compressed
  BY <1>1 DEF Inflated, Compressed
<1>3. QED
  BY <1>1, <1>2 DEF StreamsInv, StreamsTypes

\* Where no Write runs, all that was fed is in the compressor's writer or further on;
\* for lzma, a beginning of it is.
LEMMA StreamsShow == StreamsInv => Z!NothingHeldBack
<1> SUFFICES ASSUME StreamsInv, writing = "none" PROVE Z!NothingHeldBack
  BY DEF Z!NothingHeldBack
<1>1. dIn = <<>> /\ window = <<>> /\ zIn = <<>> /\ (kind = "gzip" => pending = <<>>)
  BY DEF StreamsInv
<1>2. PICK b \in Seq(StreamBytes) : b = received \o window
  BY ConcatProperties DEF StreamsInv, StreamsTypes
<1>3. PICK c \in Seq(StreamBytes) : c = Z!Unpack(carried)
  BY UnpackType DEF StreamsInv, StreamsTypes
<1>4. PICK p \in Seq(StreamBytes) : p = Z!Unpack(pending)
  BY UnpackType DEF StreamsInv, StreamsTypes
<1>5. c \o p \in Seq(StreamBytes) /\ b \o c \in Seq(StreamBytes)
  BY ConcatProperties
<1>6. b \o <<>> = b /\ (c \o p) \o <<>> = c \o p /\ (b \o c) \o <<>> = b \o c
  BY <1>5, ConcatEmptySeq
<1>7. Inflated = b
  BY <1>1, <1>2, <1>6, UnpackEmpty DEF Inflated
<1>8. Compressed = c \o p
  BY <1>1, <1>3, <1>4, <1>6 DEF Compressed
<1>9. b \o (c \o p) = fed
  BY <1>7, <1>8 DEF StreamsInv
<1>10. (b \o c) \o p = b \o (c \o p)
  BY Associative, SMTT(40)
<1>11. PICK t \in Seq(StreamBytes) : t = b \o c
  BY <1>5
<1>12. fed = t \o p
  BY <1>9, <1>10, <1>11, Zenon
<1>13. Z!IsPrefix(t, fed)
  <2>1. Len(t) \in Nat /\ Len(p) \in Nat
    OBVIOUS
  <2>2. Len(fed) = Len(t) + Len(p) /\ fed \in Seq(StreamBytes)
    BY <1>12, ConcatProperties
  <2>3. Len(t) <= Len(fed)
    BY <2>1, <2>2
  <2>4. \A i \in 1 .. Len(t) : fed[i] = t[i]
    BY <1>12, <2>1, ConcatProperties
  <2>5. QED
    BY <2>2, <2>3, <2>4, PrefixByElements
<1>14. kind = "gzip" => t = fed
  <2>1. SUFFICES ASSUME kind = "gzip" PROVE t = fed
    OBVIOUS
  <2>2. p = <<>>
    BY <1>1, <1>4, <2>1, UnpackEmpty
  <2>3. QED
    BY <1>12, <2>2, ConcatEmptySeq
<1>15. QED
  BY <1>1, <1>2, <1>3, <1>11, <1>13, <1>14 DEF Z!NothingHeldBack

-----------------------------------------------------------------------------
(* File *)

Got == [by : {"ReadLine", "ReadFile"}, text : Seq(Chars)]

FilesTypes ==
    /\ dir \in [Paths -> Inodes \cup {None}] /\ data \in [Inodes -> Seq(Chars)]
    /\ name \in Paths /\ fd \in Inodes \cup {None}
    /\ pos \in Nat /\ from \in Nat
    /\ buffer \in Seq(Chars) /\ got \in Seq(Got)
    /\ call \in {"none", "readline", "readfile", "copy"}

\* What a loop that is running knows.
Running ==
    /\ call \in {"none", "readline"} => into = <<>>
    /\ call # "none" => fd # None
    /\ call = "readfile" => into \in Seq(Chars) /\ (clean => buffer = <<>>)
    /\ call = "copy" =>
         /\ into \in Paths /\ target \in Inodes /\ ~clean
         /\ pos <= Len(data[fd])
         /\ at \in 0 .. Len(data[target])

\* What was read is what the file holds between from and pos.
ReadSoFar ==
    fd # None /\ clean =>
      /\ from <= pos /\ pos <= Len(data[fd])
      /\ (F!Returned \o into) \o buffer = SubSeq(data[fd], from + 1, pos)

\* A line has its delimiter at its end, if it has one.
IsLine(t) == F!Find(t, Delimiter) \in {0, Len(t) - Len(Delimiter) + 1}

LinesEnd == \A i \in DOMAIN got : got[i].by = "ReadLine" => IsLine(got[i].text)

\* What was copied is what the file holds up to pos, and what there was to copy is
\* still in it.
CopiedSoFar ==
    call = "copy" /\ target # fd /\ ~failed =>
      /\ at = pos
      /\ \A i \in 1 .. pos : data[target][i] = data[fd][i]
      /\ was \in Seq(Chars) /\ Len(was) <= Len(data[fd])
      /\ \A i \in 1 .. Len(was) : data[fd][i] = was[i]

FilesInv == FilesTypes /\ Running /\ ReadSoFar /\ LinesEnd /\ CopiedSoFar

\* SubSeq(s, 1, k) is all that a Part can be.
LEMMA PartType ==
    ASSUME NEW E, NEW s \in Seq(E), NEW m \in Nat, NEW n \in Nat
    PROVE  /\ F!Part(s, m + 1, n) \in Seq(E)
           /\ m <= n /\ n <= Len(s) => F!Part(s, m + 1, n) = SubSeq(s, m + 1, n)
           /\ F!Part(s, m + 1, n) # <<>> => m < n /\ m < Len(s)
           /\ m < n /\ m < Len(s) => F!Part(s, m + 1, n) # <<>>
<1>0. Len(s) \in Nat
  OBVIOUS
<1>1. PICK b \in Nat : b = IF n < Len(s) THEN n ELSE Len(s)
  BY <1>0
<1>2. F!Part(s, m + 1, n) = SubSeq(s, m + 1, b)
  BY <1>1 DEF F!Part
<1>3. CASE m <= b
  <2>1. b \in m .. Len(s)
    BY <1>0, <1>1, <1>3
  <2>2. SubSeq(s, m + 1, b) \in Seq(E) /\ Len(SubSeq(s, m + 1, b)) = b - m
    BY <2>1, PieceType
  <2>3. SubSeq(s, m + 1, b) # <<>> <=> b > m
    <3>1. Len(SubSeq(s, m + 1, b)) = 0 <=> SubSeq(s, m + 1, b) = <<>>
      BY <2>2, EmptySeq
    <3>2. QED
      BY <1>1, <1>3, <2>2, <3>1
  <2>4. n <= Len(s) => b = n
    BY <1>0, <1>1
  <2>5. m <= n /\ n <= Len(s) => F!Part(s, m + 1, n) = SubSeq(s, m + 1, n)
    BY <1>2, <2>4, Zenon
  <2>6. b > m <=> m < n /\ m < Len(s)
    BY <1>0, <1>1
  <2>7. QED
    BY <1>2, <2>2, <2>3, <2>5, <2>6, Zenon
<1>4. CASE b < m
  <2>1. SubSeq(s, m + 1, b) = <<>>
    BY <1>1, <1>4
  <2>2. <<>> \in Seq(E)
    OBVIOUS
  <2>3. ~(m < n /\ m < Len(s)) /\ (m <= n => ~(n <= Len(s)))
    BY <1>0, <1>1, <1>4
  <2>4. QED
    BY <1>2, <2>1, <2>2, <2>3
<1>5. QED
  BY <1>1, <1>3, <1>4

\* A read goes on where the descriptor is, and not further than the file.
LEMMA ChunkType ==
    ASSUME NEW E, NEW s \in Seq(E), NEW m \in Nat, NEW n \in Nat, NEW c,
           c = F!Part(s, m + 1, m + n)
    PROVE  /\ c \in Seq(E) /\ Len(c) \in Nat
           /\ m <= Len(s) => m + Len(c) <= Len(s) /\ c = SubSeq(s, m + 1, m + Len(c))
           /\ c = <<>> /\ n # 0 => Len(s) <= m
<1>0. Len(s) \in Nat
  OBVIOUS
<1>1. c \in Seq(E) /\ Len(c) \in Nat /\ (m < m + n /\ m < Len(s) => c # <<>>)
  <2>1. m + n \in Nat
    OBVIOUS
  <2>2. c \in Seq(E) /\ (m < m + n /\ m < Len(s) => c # <<>>)
    BY <2>1, PartType
  <2>3. QED
    BY <2>2
<1>2. ASSUME m <= Len(s)
      PROVE  m + Len(c) <= Len(s) /\ c = SubSeq(s, m + 1, m + Len(c))
  <2>1. PICK b \in m .. Len(s) : b = IF m + n < Len(s) THEN m + n ELSE Len(s)
    BY <1>0, <1>2
  <2>2. c = SubSeq(s, m + 1, b)
    BY <2>1 DEF F!Part
  <2>3. Len(c) = b - m
    BY <2>2, PieceType
  <2>4. m + Len(c) = b
    BY <2>3
  <2>5. QED
    BY <1>0, <2>1, <2>2, <2>4
<1>3. QED
  BY <1>0, <1>1, <1>2

\* The first of the places where a text is found.
LEMMA FindFirst ==
    ASSUME NEW E, NEW s \in Seq(E), NEW u \in Seq(E), NEW p, p = F!Find(s, u)
    PROVE  /\ p \in 0 .. Len(s)
           /\ p # 0 => F!Part(s, p, p + Len(u) - 1) = u
           /\ \A j \in 1 .. Len(s) : F!Part(s, j, j + Len(u) - 1) = u => p # 0 /\ p <= j
<1> DEFINE starts == {i \in 1 .. Len(s) : F!Part(s, i, i + Len(u) - 1) = u}
           first == CHOOSE i \in starts : \A j \in starts : i <= j
<1>0. p = IF starts = {} THEN 0 ELSE first
  BY DEF F!Find
<1>1. CASE starts = {}
  <2>1. p = 0 /\ Len(s) \in Nat
    BY <1>0, <1>1
  <2>2. \A j \in 1 .. Len(s) : F!Part(s, j, j + Len(u) - 1) # u
    BY <1>1
  <2>3. QED
    BY <2>1, <2>2
<1>2. CASE starts # {}
  <2>1. starts \subseteq Nat
    OBVIOUS
  <2>2. \E i \in starts : \A j \in starts : i <= j
    <3> HIDE DEF starts
    <3> DEFINE R == {ss \in Nat \X Nat : ss[1] < ss[2]}
    <3>1. IsWellFoundedOn(R, Nat)
      BY NatLessThanWellFounded DEF OpToRel
    <3>2. PICK i \in starts : \A j \in starts : ~ (<<j, i>> \in R)
      BY <1>2, <2>1, <3>1, WFMin, Zenon
    <3>3. ASSUME NEW j \in starts PROVE i <= j
      <4>1. ~ (<<j, i>> \in R)
        BY <3>2
      <4>2. i \in Nat /\ j \in Nat
        BY <2>1
      <4>3. QED
        BY <4>1, <4>2
    <3>4. QED
      BY <3>3
  <2>3. first \in starts /\ \A j \in starts : first <= j
    BY <2>2
  <2>4. p = first
    BY <1>0, <1>2
  <2> HIDE DEF first
  <2>5. QED
    BY <2>3, <2>4
<1>3. QED
  BY <1>1, <1>2

\* What ends with the first delimiter is a line, and so is what has none.
LEMMA LineEnds ==
    ASSUME NEW s \in Seq(Chars), NEW p \in Int, p = F!Find(s, Delimiter),
           NEW n \in Int, n = IF p # 0 THEN p + Len(Delimiter) - 1 ELSE Len(s)
    PROVE  n \in 0 .. Len(s) /\ IsLine(SubSeq(s, 1, n))
<1>0. Delimiter \in Seq(Chars) /\ Len(Delimiter) \in Nat /\ Len(s) \in Nat
  BY LibraryAssumption
<1>1. /\ p \in 0 .. Len(s)
      /\ p # 0 => F!Part(s, p, p + Len(Delimiter) - 1) = Delimiter
      /\ \A j \in 1 .. Len(s) : F!Part(s, j, j + Len(Delimiter) - 1) = Delimiter
                                  => p # 0 /\ p <= j
  BY <1>0, FindFirst
<1>2. CASE p = 0
  <2>1. n = Len(s)
    BY <1>2
  <2>2. SubSeq(s, 1, n) = s
    BY <2>1, SubSeqFull
  <2>3. IsLine(s)
    BY <1>2 DEF IsLine
  <2>4. n \in 0 .. Len(s)
    BY <1>0, <2>1
  <2>5. QED
    BY <2>2, <2>3, <2>4, Zenon
<1>3. CASE p # 0
  <2>1. n \in 0 .. Len(s)
    <3>1. PICK k \in Nat : k = p - 1
      BY <1>0, <1>1, <1>3
    <3>2. CASE n <= Len(s)
      BY <1>0, <1>1, <1>3, <3>2
    <3>3. CASE n > Len(s)
      <4>1. F!Part(s, p, n) = SubSeq(s, k + 1, Len(s))
        BY <1>0, <1>1, <3>1, <3>3 DEF F!Part
      <4>2. k \in 0 .. Len(s) /\ Len(s) \in k .. Len(s)
        BY <1>0, <1>1, <3>1
      <4>3. Len(SubSeq(s, k + 1, Len(s))) = Len(s) - k
        BY <3>1, <4>2, PieceType
      <4>4. n = p + Len(Delimiter) - 1
        BY <1>3
      <4>5. Len(Delimiter) = Len(s) - k
        BY <1>1, <1>3, <4>1, <4>3, <4>4
      <4>6. QED
        BY <1>0, <1>1, <3>1, <3>3, <4>4, <4>5, SMTT(30)
    <3>4. QED
      BY <1>0, <1>1, <3>2, <3>3
  <2>2. PICK t \in Seq(Chars) : t = SubSeq(s, 1, n) /\ Len(t) = n /\ \A i \in 1 .. n : t[i] = s[i]
    <3>1. /\ SubSeq(s, 1, n) \in Seq(Chars) /\ Len(SubSeq(s, 1, n)) = n
          /\ \A i \in 1 .. n : SubSeq(s, 1, n)[i] = s[i]
      BY <2>1, HeadType
    <3>2. QED
      BY <3>1
  <2>3. ASSUME NEW j \in 1 .. n, F!Part(t, j, j + Len(Delimiter) - 1) = Delimiter
        PROVE  j = p
    <3>1. PICK k \in Nat : k = j - 1
      BY <2>1
    <3>2. PICK b \in Int : b = IF j + Len(Delimiter) - 1 < n THEN j + Len(Delimiter) - 1 ELSE n
      BY <1>0, <2>1
    <3>3. F!Part(t, j, j + Len(Delimiter) - 1) = SubSeq(t, k + 1, b)
      <4>1. F!Part(t, j, j + Len(Delimiter) - 1) = SubSeq(t, j, b)
        BY <2>2, <3>2, Zenon DEF F!Part
      <4>2. k + 1 = j
        BY <2>1, <3>1
      <4>3. QED
        BY <4>1, <4>2
    <3>4. b \in k .. n /\ k \in 0 .. n
      BY <1>0, <2>1, <3>1, <3>2
    <3>5. /\ Len(SubSeq(t, k + 1, b)) = b - k
          /\ \A i \in 1 .. b - k : SubSeq(t, k + 1, b)[i] = t[k + i]
      BY <2>2, <3>1, <3>4, PieceType
    <3>6. Len(Delimiter) = b - k
      BY <2>3, <3>3, <3>5
    <3>7. b = j + Len(Delimiter) - 1 /\ b <= n /\ b <= Len(s)
      <4>1. PICK l \in Nat : l = Len(Delimiter)
        BY <1>0
      <4>2. PICK m \in Nat : m = Len(s)
        BY <1>0
      <4>3. l = b - k /\ k = j - 1 /\ b \in Int /\ b <= n /\ n <= m
        BY <2>1, <3>1, <3>4, <3>6, <4>1, <4>2
      <4>4. b = j + l - 1 /\ b <= n /\ b <= m
        BY <4>3
      <4>5. QED
        BY <4>1, <4>2, <4>4
    <3>8. j <= p
      BY <1>0, <1>1, <1>3, <3>7
    <3>9. F!Part(s, j, j + Len(Delimiter) - 1) = Delimiter
      <4>1. F!Part(s, j, j + Len(Delimiter) - 1) = SubSeq(s, k + 1, b)
        BY <1>0, <2>1, <3>1, <3>7 DEF F!Part
      <4>2. b \in k .. Len(s)
        BY <3>4, <3>7, <2>1
      <4>3. /\ SubSeq(s, k + 1, b) \in Seq(Chars) /\ Len(SubSeq(s, k + 1, b)) = b - k
            /\ \A i \in 1 .. b - k : SubSeq(s, k + 1, b)[i] = s[k + i]
        BY <3>1, <4>2, PieceType
      <4>4. \A i \in 1 .. b - k : t[k + i] = s[k + i]
        BY <2>2, <3>1, <3>4
      <4>5. Delimiter = SubSeq(t, k + 1, b)
        BY <2>3, <3>3
      <4>6. \A i \in 1 .. Len(Delimiter) : SubSeq(s, k + 1, b)[i] = Delimiter[i]
        BY <3>5, <3>6, <4>3, <4>4, <4>5
      <4>7. SubSeq(s, k + 1, b) = Delimiter
        BY <1>0, <3>6, <4>3, <4>6, SeqEqual
      <4>8. QED
        BY <4>1, <4>7
    <3>10. p <= j
      BY <1>1, <2>1, <3>9
    <3>11. QED
      BY <1>1, <3>8, <3>10
  <2>4. PICK q \in 0 .. Len(t) : q = F!Find(t, Delimiter)
          /\ (q # 0 => F!Part(t, q, q + Len(Delimiter) - 1) = Delimiter)
    BY <1>0, FindFirst, SMTT(30)
  <2>5. q = 0 \/ q = p
    BY <2>1, <2>2, <2>3, <2>4
  <2>6. p = Len(t) - Len(Delimiter) + 1
    BY <1>0, <1>1, <1>3, <2>2
  <2>7. QED
    BY <2>1, <2>2, <2>4, <2>5, <2>6 DEF IsLine
<1>4. QED
  BY <1>2, <1>3

\* What is written takes the place of what was there, and nothing is lost but that.
LEMMA OverwrittenType ==
    ASSUME NEW E, NEW s \in Seq(E), NEW n \in 0 .. Len(s), NEW c \in Seq(E), NEW o,
           o = F!Overwritten(s, n, c)
    PROVE  /\ o \in Seq(E) /\ Len(s) <= Len(o) /\ n + Len(c) <= Len(o)
           /\ \A i \in 1 .. n : o[i] = s[i]
           /\ \A i \in 1 .. Len(c) : o[n + i] = c[i]
<1>0. Len(s) \in Nat /\ Len(c) \in Nat /\ n \in Nat
  OBVIOUS
<1>1. PICK a \in Seq(E) : a = SubSeq(s, 1, n) /\ Len(a) = n /\ \A i \in 1 .. n : a[i] = s[i]
  <2>1. /\ SubSeq(s, 1, n) \in Seq(E) /\ Len(SubSeq(s, 1, n)) = n
        /\ \A i \in 1 .. n : SubSeq(s, 1, n)[i] = s[i]
    BY HeadType
  <2>2. QED
    BY <2>1
<1>2. PICK m \in Nat : m = n + Len(c)
  BY <1>0
<1>3. PICK b \in Seq(E) : b = SubSeq(s, m + 1, Len(s)) /\ Len(b) >= Len(s) - m
  <2>1. CASE m <= Len(s)
    <3>1. Len(s) \in m .. Len(s)
      BY <1>0, <2>1
    <3>2. SubSeq(s, m + 1, Len(s)) \in Seq(E) /\ Len(SubSeq(s, m + 1, Len(s))) = Len(s) - m
      BY <3>1, PieceType
    <3>3. Len(s) - m >= Len(s) - m
      BY <1>0
    <3>4. QED
      BY <3>2, <3>3, Zenon
  <2>2. CASE m > Len(s)
    <3>1. SubSeq(s, m + 1, Len(s)) = <<>>
      BY <1>0, <2>2
    <3>2. <<>> \in Seq(E) /\ Len(<<>>) >= Len(s) - m
      BY <1>0, <2>2
    <3>3. QED
      BY <3>1, <3>2, Zenon
  <2>3. QED
    BY <1>0, <2>1, <2>2
<1>4. \A x, y \in Seq(E) :
        /\ x \o y \in Seq(E) /\ Len(x \o y) = Len(x) + Len(y)
        /\ \A i \in 1 .. Len(x) + Len(y) : (x \o y)[i] = IF i <= Len(x) THEN x[i] ELSE y[i - Len(x)]
  BY ConcatProperties
<1>5. PICK x \in Seq(E) : /\ x = a \o c /\ Len(x) = m
                          /\ \A i \in 1 .. m : x[i] = IF i <= n THEN a[i] ELSE c[i - n]
  <2>1. /\ a \o c \in Seq(E) /\ Len(a \o c) = Len(a) + Len(c)
        /\ \A i \in 1 .. Len(a) + Len(c) : (a \o c)[i] = IF i <= Len(a) THEN a[i] ELSE c[i - Len(a)]
    BY <1>4
  <2>2. /\ a \o c \in Seq(E) /\ Len(a \o c) = m
        /\ \A i \in 1 .. m : (a \o c)[i] = IF i <= n THEN a[i] ELSE c[i - n]
    BY <1>1, <1>2, <2>1, Zenon
  <2>3. QED
    BY <2>2, Zenon
<1>6. /\ o \in Seq(E) /\ Len(o) = m + Len(b)
      /\ \A i \in 1 .. m : o[i] = x[i]
  <2>1. o = x \o b
    <3>1. n + Len(c) + 1 = m + 1
      BY <1>2
    <3>2. o = (a \o c) \o SubSeq(s, m + 1, Len(s))
      BY <1>1, <3>1 DEF F!Overwritten
    <3>3. QED
      BY <1>3, <1>5, <3>2
  <2>2. Len(b) \in Nat
    OBVIOUS
  <2>3. o \in Seq(E) /\ Len(o) = m + Len(b)
    BY <1>4, <1>5, <2>1
  <2>4. \A i \in 1 .. m + Len(b) : o[i] = IF i <= m THEN x[i] ELSE b[i - m]
    BY <1>4, <1>5, <2>1
  <2>5. QED
    BY <2>2, <2>3, <2>4
<1>7. Len(s) <= Len(o) /\ n + Len(c) <= Len(o)
  <2>1. PICK l \in Nat : l = Len(b)
    OBVIOUS
  <2>2. Len(o) = m + l /\ l >= Len(s) - m
    BY <1>3, <1>6, <2>1
  <2>3. QED
    BY <1>0, <1>2, <2>2
<1>8. \A i \in 1 .. n : o[i] = s[i]
  <2>1. ASSUME NEW i \in 1 .. n PROVE o[i] = s[i]
    <3>1. i \in 1 .. m /\ i <= n
      BY <1>0, <1>2
    <3>2. QED
      BY <1>1, <1>5, <1>6, <3>1
  <2>2. QED
    BY <2>1
<1>9. \A i \in 1 .. Len(c) : o[n + i] = c[i]
  <2>1. ASSUME NEW i \in 1 .. Len(c) PROVE o[n + i] = c[i]
    <3>1. n + i \in 1 .. m /\ ~(n + i <= n) /\ (n + i) - n = i
      BY <1>0, <1>2
    <3>2. QED
      BY <1>5, <1>6, <3>1
  <2>2. QED
    BY <2>1
<1>10. QED
  BY <1>6, <1>7, <1>8, <1>9

\* The pieces of two files that agree agree.
LEMMA SamePiece ==
    ASSUME NEW E, NEW s \in Seq(E), NEW t \in Seq(E), NEW m \in Nat, NEW n \in m .. Len(s),
           n <= Len(t), \A i \in 1 .. n : s[i] = t[i]
    PROVE  SubSeq(s, m + 1, n) = SubSeq(t, m + 1, n)
<1>1. n \in m .. Len(t)
  BY LenProperties
<1>2. /\ SubSeq(s, m + 1, n) \in Seq(E) /\ Len(SubSeq(s, m + 1, n)) = n - m
      /\ \A i \in 1 .. n - m : SubSeq(s, m + 1, n)[i] = s[m + i]
  BY PieceType
<1>3. /\ SubSeq(t, m + 1, n) \in Seq(E) /\ Len(SubSeq(t, m + 1, n)) = n - m
      /\ \A i \in 1 .. n - m : SubSeq(t, m + 1, n)[i] = t[m + i]
  BY <1>1, PieceType
<1>4. \A i \in 1 .. n - m : s[m + i] = t[m + i]
  <2>1. ASSUME NEW i \in 1 .. n - m PROVE m + i \in 1 .. n
    BY LenProperties
  <2>2. QED
    BY <2>1
<1>5. \A i \in 1 .. Len(SubSeq(s, m + 1, n)) : SubSeq(s, m + 1, n)[i] = SubSeq(t, m + 1, n)[i]
  BY <1>2, <1>3, <1>4
<1>6. QED
  BY <1>2, <1>3, <1>5, SeqEqual

TextsOf(g) == [i \in DOMAIN g |-> g[i].text]

LEMMA TextsType ==
    ASSUME NEW g \in Seq(Got)
    PROVE  TextsOf(g) \in Seq(Seq(Chars)) /\ FlattenSeq(TextsOf(g)) \in Seq(Chars)
<1>1. DOMAIN g = 1 .. Len(g) /\ Len(g) \in Nat /\ \A i \in 1 .. Len(g) : g[i] \in Got
  BY LenProperties, ElementOfSeq
<1>2. \A i \in 1 .. Len(g) : g[i].text \in Seq(Chars)
  BY <1>1 DEF Got
<1>3. TextsOf(g) \in Seq(Seq(Chars))
  BY <1>1, <1>2 DEF TextsOf
<1>4. QED
  BY <1>3, FlattenType

LEMMA TextsAppend ==
    ASSUME NEW g \in Seq(Got), NEW e \in Got
    PROVE  /\ Append(g, e) \in Seq(Got)
           /\ FlattenSeq(TextsOf(Append(g, e))) = FlattenSeq(TextsOf(g)) \o e.text
<1>0. e.text \in Seq(Chars)
  BY DEF Got
<1>1. /\ Append(g, e) \in Seq(Got) /\ Len(Append(g, e)) = Len(g) + 1 /\ Len(g) \in Nat
      /\ \A i \in 1 .. Len(g) : Append(g, e)[i] = g[i]
      /\ Append(g, e)[Len(g) + 1] = e
      /\ DOMAIN g = 1 .. Len(g) /\ DOMAIN Append(g, e) = 1 .. Len(g) + 1
  BY AppendProperties, LenProperties
<1>2. /\ TextsOf(g) \in Seq(Seq(Chars)) /\ Len(TextsOf(g)) = Len(g)
      /\ \A i \in 1 .. Len(g) : TextsOf(g)[i] = g[i].text
  <2>1. TextsOf(g) \in Seq(Seq(Chars))
    BY TextsType
  <2>2. DOMAIN TextsOf(g) = 1 .. Len(g) /\ \A i \in 1 .. Len(g) : TextsOf(g)[i] = g[i].text
    BY <1>1 DEF TextsOf
  <2>3. Len(TextsOf(g)) = Len(g)
    <3>1. DOMAIN TextsOf(g) = 1 .. Len(TextsOf(g)) /\ Len(TextsOf(g)) \in Nat
      BY <2>1, LenProperties
    <3>2. QED
      BY <1>1, <2>2, <3>1
  <2>4. QED
    BY <2>1, <2>2, <2>3
<1>3. /\ TextsOf(Append(g, e)) \in Seq(Seq(Chars))
      /\ DOMAIN TextsOf(Append(g, e)) = 1 .. Len(g) + 1
      /\ \A i \in 1 .. Len(g) + 1 : TextsOf(Append(g, e))[i] = Append(g, e)[i].text
  BY <1>1, TextsType DEF TextsOf
<1>4. Len(TextsOf(Append(g, e))) = Len(g) + 1
  <2>1. DOMAIN TextsOf(Append(g, e)) = 1 .. Len(TextsOf(Append(g, e))) /\ Len(TextsOf(Append(g, e))) \in Nat
    BY <1>3, LenProperties
  <2>2. QED
    BY <1>1, <1>3, <2>1
<1>5. TextsOf(Append(g, e)) = Append(TextsOf(g), e.text)
  <2>1. /\ Append(TextsOf(g), e.text) \in Seq(Seq(Chars))
        /\ Len(Append(TextsOf(g), e.text)) = Len(g) + 1
        /\ \A i \in 1 .. Len(g) : Append(TextsOf(g), e.text)[i] = g[i].text
        /\ Append(TextsOf(g), e.text)[Len(g) + 1] = e.text
    BY <1>0, <1>2, AppendProperties
  <2>2. ASSUME NEW i \in 1 .. Len(g) + 1
        PROVE  TextsOf(Append(g, e))[i] = Append(TextsOf(g), e.text)[i]
    <3>1. CASE i \in 1 .. Len(g)
      BY <1>1, <1>3, <2>1, <3>1
    <3>2. CASE i = Len(g) + 1
      BY <1>1, <1>3, <2>1, <3>2
    <3>3. i \in 1 .. Len(g) \/ i = Len(g) + 1
      BY <1>1
    <3>4. QED
      BY <3>1, <3>2, <3>3, Zenon
  <2>3. QED
    BY <1>3, <1>4, <2>1, <2>2, SeqEqual
<1>6. FlattenSeq(Append(TextsOf(g), e.text)) = FlattenSeq(TextsOf(g)) \o e.text
  BY <1>0, <1>2, FlattenAppend
<1>7. QED
  BY <1>1, <1>5, <1>6

LEMMA ReturnedTexts == F!Returned = FlattenSeq(TextsOf(got)) /\ F!Returned' = FlattenSeq(TextsOf(got'))
BY DEF F!Returned, F!FlattenSeq, FlattenSeq, TextsOf

LEMMA FilesInit == F!Init => FilesInv
<1> SUFFICES ASSUME F!Init PROVE FilesInv
  OBVIOUS
<1>1. /\ dir \in [Paths -> Inodes \cup {None}] /\ data \in [Inodes -> Contents \cup {<<>>}]
      /\ name = Name /\ fd = None /\ pos = 0 /\ buffer = <<>> /\ call = "none" /\ into = <<>>
      /\ from = 0 /\ got = <<>>
  BY DEF F!Init
<1>2. data \in [Inodes -> Seq(Chars)]
  <2>1. Contents \cup {<<>>} \subseteq Seq(Chars)
    <3>1. <<>> \in Seq(Chars)
      OBVIOUS
    <3>2. QED
      BY <3>1, LibraryAssumption, Zenon
  <2>2. QED
    BY <1>1, <2>1
<1>3. FilesTypes
  BY <1>1, <1>2, LibraryAssumption DEF FilesTypes
<1>4. QED
  BY <1>1, <1>3 DEF FilesInv, Running, ReadSoFar, LinesEnd, CopiedSoFar

\* From where the position was moved on nothing is compared.
LEMMA SpoilKeeps ==
    ASSUME FilesTypes', Running', F!Spoil, call' # "copy"
    PROVE  FilesInv'
<1>1. clean' = FALSE /\ got' = <<>>
  BY DEF F!Spoil
<1>2. DOMAIN got' = {}
  BY <1>1
<1>3. QED
  BY <1>1, <1>2 DEF FilesInv, ReadSoFar, LinesEnd, CopiedSoFar

\* What touches no more than the names, the descriptor that is given up and what is
\* returned.
LEMMA NamesKeep ==
    ASSUME FilesInv, call = "none", call' \in {"none", "readline"}, call' = "none" \/ fd # None,
           dir' \in [Paths -> Inodes \cup {None}], fd' = fd \/ (fd' = None /\ call' = "none"),
           UNCHANGED <<data, name, buffer, into, from, got, clean, pos>>
    PROVE  FilesInv'
<1>1. FilesTypes'
  BY DEF FilesInv, FilesTypes
<1>2. Running'
  BY DEF FilesInv, Running
<1>3. F!Returned' = F!Returned
  BY ReturnedTexts
<1>4. ReadSoFar'
  BY <1>3 DEF FilesInv, ReadSoFar
<1>5. LinesEnd'
  BY DEF FilesInv, LinesEnd
<1>6. QED
  BY <1>1, <1>2, <1>4, <1>5 DEF FilesInv, CopiedSoFar

LEMMA CallFacts ==
    ASSUME FilesInv, F!Call
    PROVE  /\ call = "none" /\ into = <<>>
           /\ F!Exists(name) => dir[name] \in Inodes /\ dir[name] # None
           /\ fd # None => fd \in Inodes /\ data[fd] \in Seq(Chars)
BY DEF F!Call, FilesInv, Running, FilesTypes, F!Exists

LEMMA FilesOpen == FilesInv /\ F!Open => FilesInv'
<1> SUFFICES ASSUME FilesInv, F!Open PROVE FilesInv'
  OBVIOUS
<1>1. /\ call = "none" /\ into = <<>> /\ call' = "none"
      /\ F!Exists(name) => dir[name] \in Inodes /\ dir[name] # None
      /\ UNCHANGED <<dir, data, name, buffer, into, target, at, was, failed>>
  BY CallFacts DEF F!Open, F!Returns
<1>2. CASE fd' = None /\ UNCHANGED <<pos, from, got, clean>>
  BY <1>1, <1>2, NamesKeep DEF FilesInv, FilesTypes
<1>3. CASE /\ F!Exists(name) /\ fd' = dir[name] /\ pos' = 0 /\ from' = 0 /\ got' = <<>>
           /\ clean' = (buffer = <<>>)
  <2>1. FilesTypes'
    BY <1>1, <1>3 DEF FilesInv, FilesTypes
  <2>2. ReadSoFar'
    <3>1. SUFFICES ASSUME clean'
                   PROVE  /\ from' <= pos' /\ pos' <= Len(data'[fd'])
                          /\ (F!Returned' \o into') \o buffer' = SubSeq(data'[fd'], from' + 1, pos')
      BY DEF ReadSoFar
    <3>2. PICK s \in Seq(Chars) : s = data[dir[name]]
      BY <1>1, <1>3 DEF FilesInv, FilesTypes
    <3>3. F!Returned' = <<>>
      <4>1. TextsOf(<<>>) = <<>>
        BY DEF TextsOf
      <4>2. QED
        BY <1>3, <4>1, ReturnedTexts, FlattenEmpty
    <3>4. SubSeq(s, 0 + 1, 0) = <<>>
      OBVIOUS
    <3>5. 0 <= Len(s)
      OBVIOUS
    <3>6. (<<>> \o <<>>) \o <<>> = <<>>
      BY ConcatEmptySeq
    <3>7. /\ from' = 0 /\ pos' = 0 /\ data'[fd'] = s /\ into' = <<>> /\ buffer' = <<>>
      BY <1>1, <1>3, <3>1, <3>2
    <3>8. QED
      BY <3>3, <3>4, <3>5, <3>6, <3>7
  <2>3. LinesEnd'
    <3>1. DOMAIN got' = {}
      BY <1>3
    <3>2. QED
      BY <3>1 DEF LinesEnd
  <2>4. QED
    BY <1>1, <2>1, <2>2, <2>3 DEF FilesInv, Running, CopiedSoFar
<1>4. QED
  BY <1>2, <1>3 DEF F!Open

LEMMA FilesSeek == FilesInv /\ (F!Close \/ F!Read \/ \E p \in 0 .. 1 : F!Seek(p)) => FilesInv'
<1> SUFFICES ASSUME FilesInv, F!Close \/ F!Read \/ \E p \in 0 .. 1 : F!Seek(p) PROVE FilesInv'
  OBVIOUS
<1>1. /\ F!Call /\ F!Spoil
      /\ call' = "none" \/ call' = call
      /\ fd' = fd \/ fd' = None
      /\ UNCHANGED <<dir, data, name, buffer, into>>
  BY DEF F!Close, F!Read, F!Seek, F!Returns
<1>2. call = "none" /\ into = <<>> /\ (fd # None => fd \in Inodes /\ data[fd] \in Seq(Chars))
  BY <1>1, CallFacts
<1>3. pos' \in Nat
  <2>1. CASE F!Read
    <3>1. PICK c : c = F!Chunk(READ_BUF)
      OBVIOUS
    <3>2. fd # None /\ pos' = pos + Len(c)
      BY <2>1, <3>1 DEF F!Read
    <3>3. pos \in Nat /\ READ_BUF \in Nat
      BY LibraryAssumption DEF FilesInv, FilesTypes
    <3>4. c = F!Part(data[fd], pos + 1, pos + READ_BUF)
      BY <3>1 DEF F!Chunk
    <3>5. Len(c) \in Nat
      BY <1>2, <3>2, <3>3, <3>4, ChunkType
    <3>6. QED
      BY <3>2, <3>3, <3>5
  <2>2. CASE F!Close
    BY <2>2 DEF F!Close
  <2>3. ASSUME NEW p \in 0 .. 1, F!Seek(p) PROVE pos' \in Nat
    BY <2>3 DEF F!Seek
  <2>4. QED
    BY <2>1, <2>2, <2>3
<1>4. FilesTypes'
  BY <1>1, <1>2, <1>3 DEF FilesInv, FilesTypes, F!Spoil
<1>5. Running'
  BY <1>1, <1>2 DEF Running
<1>6. QED
  BY <1>1, <1>2, <1>4, <1>5, SpoilKeeps

LEMMA FilesTruncate ==
    ASSUME FilesInv, NEW n \in 0 .. 1, F!Truncate(n)
    PROVE  FilesInv'
<1>1. /\ F!Call /\ F!Spoil /\ fd # None /\ call' = "none"
      /\ data' = [data EXCEPT ![fd] = F!Part(@, 1, n)] /\ buffer' = <<>>
      /\ UNCHANGED <<dir, name, fd, pos, into>>
  BY DEF F!Truncate, F!Returns
<1>2. into = <<>> /\ fd \in Inodes /\ data[fd] \in Seq(Chars)
  BY <1>1, CallFacts
<1>3. F!Part(data[fd], 0 + 1, n) \in Seq(Chars)
  <2>1. 0 \in Nat /\ n \in Nat
    OBVIOUS
  <2>2. QED
    BY <1>2, <2>1, PartType
<1>4. data' \in [Inodes -> Seq(Chars)]
  BY <1>1, <1>2, <1>3 DEF FilesInv, FilesTypes
<1>5. FilesTypes'
  BY <1>1, <1>4 DEF FilesInv, FilesTypes, F!Spoil
<1>6. Running'
  BY <1>1, <1>2 DEF Running
<1>7. QED
  BY <1>1, <1>5, <1>6, SpoilKeeps

LEMMA FilesWrite ==
    ASSUME FilesInv, NEW s \in Seq(Chars), F!Write(s)
    PROVE  FilesInv'
<1>1. PICK n \in 0 .. Len(s) :
         /\ data' = [data EXCEPT ![fd] = F!Overwritten(@, pos, SubSeq(s, 1, n))]
         /\ pos' = pos + n
  BY DEF F!Write
<1>2. /\ F!Call /\ F!Spoil /\ fd # None /\ call' = "none" /\ pos <= Len(data[fd])
      /\ UNCHANGED <<dir, name, fd, buffer, into>>
  BY DEF F!Write, F!Returns
<1>3. into = <<>> /\ fd \in Inodes /\ data[fd] \in Seq(Chars) /\ pos \in Nat
  BY <1>2, CallFacts DEF FilesInv, FilesTypes
<1>4. F!Overwritten(data[fd], pos, SubSeq(s, 1, n)) \in Seq(Chars)
  <2>1. SubSeq(s, 1, n) \in Seq(Chars)
    BY HeadType
  <2>2. pos \in 0 .. Len(data[fd])
    BY <1>2, <1>3
  <2>3. QED
    BY <1>3, <2>1, <2>2, OverwrittenType
<1>5. data' \in [Inodes -> Seq(Chars)]
  BY <1>1, <1>3, <1>4 DEF FilesInv, FilesTypes
<1>6. n \in Nat
  OBVIOUS
<1>7. FilesTypes'
  BY <1>1, <1>2, <1>3, <1>5, <1>6 DEF FilesInv, FilesTypes, F!Spoil
<1>8. Running'
  BY <1>2, <1>3 DEF Running
<1>9. QED
  BY <1>2, <1>7, <1>8, SpoilKeeps

LEMMA FilesNames ==
    ASSUME FilesInv, NEW p \in Paths, NEW b \in BOOLEAN,
           F!Delete \/ F!Move(p, b) \/ F!BeginReadLine
    PROVE  FilesInv'
<1>1. /\ F!Call /\ UNCHANGED <<data, name, fd, buffer, into, from, got, clean, pos>>
      /\ call' \in {"none", "readline"} /\ (call' = "none" \/ fd # None)
      /\ \/ UNCHANGED dir
         \/ dir' = [dir EXCEPT ![name] = None]
         \/ dir' = [dir EXCEPT ![name] = None, ![p] = dir[name]]
  BY DEF F!Delete, F!Move, F!BeginReadLine, F!Returns, F!file, F!ghosts
<1>2. call = "none"
  BY <1>1, CallFacts
<1>3. dir' \in [Paths -> Inodes \cup {None}]
  BY <1>1 DEF FilesInv, FilesTypes
<1>4. QED
  BY <1>1, <1>2, <1>3, NamesKeep

\* Another piece is read.
LEMMA ReadMore ==
    ASSUME FilesInv, fd # None, NEW c, c = F!Chunk(READ_BUF)
    PROVE  /\ c \in Seq(Chars) /\ pos + Len(c) \in Nat
           /\ clean => /\ from <= pos + Len(c) /\ pos + Len(c) <= Len(data[fd])
                       /\ ((F!Returned \o into) \o buffer) \o c
                            = SubSeq(data[fd], from + 1, pos + Len(c))
           /\ pos <= Len(data[fd]) =>
                pos + Len(c) <= Len(data[fd]) /\ c = SubSeq(data[fd], pos + 1, pos + Len(c))
           /\ c = <<>> => Len(data[fd]) <= pos
<1>1. PICK s \in Seq(Chars) : s = data[fd]
  BY DEF FilesInv, FilesTypes
<1>2. PICK l \in Nat : l = Len(s)
  BY LenProperties
<1>3. pos \in Nat /\ from \in Nat /\ READ_BUF \in Nat /\ READ_BUF # 0
  BY LibraryAssumption DEF FilesInv, FilesTypes
<1>4. c = F!Part(s, pos + 1, pos + READ_BUF)
  BY <1>1 DEF F!Chunk
<1>5. /\ c \in Seq(Chars) /\ Len(c) \in Nat
      /\ pos <= l => pos + Len(c) <= l /\ c = SubSeq(s, pos + 1, pos + Len(c))
      /\ c = <<>> => l <= pos
  <2>0. \A x \in Seq(Chars), m, n \in Nat : \A d :
           d = F!Part(x, m + 1, m + n) =>
              /\ d \in Seq(Chars) /\ Len(d) \in Nat
              /\ m <= Len(x) => m + Len(d) <= Len(x) /\ d = SubSeq(x, m + 1, m + Len(d))
              /\ d = <<>> /\ n # 0 => Len(x) <= m
    BY ChunkType
  <2>1. /\ c \in Seq(Chars) /\ Len(c) \in Nat
        /\ pos <= Len(s) => pos + Len(c) <= Len(s) /\ c = SubSeq(s, pos + 1, pos + Len(c))
        /\ c = <<>> /\ READ_BUF # 0 => Len(s) <= pos
    <3>1. PICK k \in Nat : k = READ_BUF
      BY <1>3
    <3>2. PICK q \in Nat : q = pos
      BY <1>3
    <3>3. c = F!Part(s, q + 1, q + k)
      BY <1>4, <3>1, <3>2
    <3>4. /\ c \in Seq(Chars) /\ Len(c) \in Nat
          /\ q <= Len(s) => q + Len(c) <= Len(s) /\ c = SubSeq(s, q + 1, q + Len(c))
          /\ c = <<>> /\ k # 0 => Len(s) <= q
      <4>1. \A n \in Nat : \A d :
           d = F!Part(s, q + 1, q + n) =>
              /\ d \in Seq(Chars) /\ Len(d) \in Nat
              /\ q <= Len(s) => q + Len(d) <= Len(s) /\ d = SubSeq(s, q + 1, q + Len(d))
              /\ d = <<>> /\ n # 0 => Len(s) <= q
        BY <2>0, Zenon
      <4>2. \A d :
           d = F!Part(s, q + 1, q + k) =>
              /\ d \in Seq(Chars) /\ Len(d) \in Nat
              /\ q <= Len(s) => q + Len(d) <= Len(s) /\ d = SubSeq(s, q + 1, q + Len(d))
              /\ d = <<>> /\ k # 0 => Len(s) <= q
        BY <4>1, Zenon
      <4>3. QED
        BY <3>3, <4>2, Zenon
    <3>5. QED
      BY <3>1, <3>2, <3>4, Zenon
  <2>2. QED
    BY <1>2, <1>3, <2>1, Zenon
<1>6. PICK m \in Nat : m = pos + Len(c)
  BY <1>3, <1>5
<1>7. ASSUME clean
      PROVE  /\ from <= m /\ m <= l
             /\ ((F!Returned \o into) \o buffer) \o c = SubSeq(s, from + 1, m)
  <2>1. /\ from <= pos /\ pos <= l
        /\ (F!Returned \o into) \o buffer = SubSeq(s, from + 1, pos)
    BY <1>1, <1>2, <1>7 DEF FilesInv, ReadSoFar
  <2>2. m <= l /\ c = SubSeq(s, pos + 1, m) /\ pos <= m
    BY <1>3, <1>5, <1>6, <2>1
  <2>3. SubSeq(s, from + 1, pos) \o SubSeq(s, pos + 1, m) = SubSeq(s, from + 1, m)
    <3>1. /\ from + 1 \in 1 .. Len(s) + 1 /\ pos \in (from + 1) - 1 .. Len(s)
          /\ m \in pos .. Len(s)
      BY <1>2, <1>3, <2>1, <2>2
    <3>2. QED
      BY <3>1, ConcatAdjacentSubSeq
  <2>4. QED
    BY <1>3, <2>1, <2>2, <2>3
<1>8. QED
  BY <1>1, <1>2, <1>5, <1>6, <1>7

\* A line is returned, and the rest of the buffer stays.
LEMMA LineKeeps ==
    ASSUME FilesInv, call = "readline", NEW n \in 0 .. Len(buffer), F!Line(n),
           IsLine(SubSeq(buffer, 1, n)),
           UNCHANGED <<dir, data, name, fd, into, pos, from, clean>>
    PROVE  FilesInv'
<1> DEFINE e == [by |-> "ReadLine", text |-> SubSeq(buffer, 1, n)]
<1>1. /\ got' = IF clean THEN Append(got, e) ELSE got
      /\ buffer' = SubSeq(buffer, n + 1, Len(buffer)) /\ call' = "none"
  BY DEF F!Line, F!Returns
<1>2. /\ SubSeq(buffer, 1, n) \in Seq(Chars) /\ buffer' \in Seq(Chars)
      /\ SubSeq(buffer, 1, n) \o buffer' = buffer
  BY <1>1, Split DEF FilesInv, FilesTypes
<1>3. e \in Got /\ e.text = SubSeq(buffer, 1, n) /\ e.by = "ReadLine" /\ got \in Seq(Got)
  BY <1>2 DEF Got, FilesInv, FilesTypes
<1> HIDE DEF e
<1>4. /\ Append(got, e) \in Seq(Got)
      /\ FlattenSeq(TextsOf(Append(got, e))) = FlattenSeq(TextsOf(got)) \o e.text
  BY <1>3, TextsAppend
<1>5. got' \in Seq(Got)
  BY <1>1, <1>3, <1>4
<1>6. FilesTypes'
  BY <1>1, <1>2, <1>5 DEF FilesInv, FilesTypes
<1>7. into = <<>>
  BY DEF FilesInv, Running
<1>8. Running'
  BY <1>1, <1>7 DEF Running
<1>9. ReadSoFar'
  <2>1. SUFFICES ASSUME fd # None, clean
                 PROVE  (F!Returned' \o into) \o buffer' = (F!Returned \o into) \o buffer
    BY DEF FilesInv, ReadSoFar
  <2>2. PICK r \in Seq(Chars) : r = F!Returned
    BY <1>3, TextsType, ReturnedTexts
  <2>3. PICK a \in Seq(Chars) : a = SubSeq(buffer, 1, n)
    BY <1>2
  <2>4. PICK b \in Seq(Chars) : b = buffer'
    BY <1>2
  <2>5. F!Returned' = r \o a
    BY <1>1, <1>3, <1>4, <2>1, <2>2, <2>3, ReturnedTexts
  <2>6. r \o a \in Seq(Chars)
    BY ConcatProperties
  <2>7. (r \o a) \o <<>> = r \o a /\ r \o <<>> = r
    BY <2>6, ConcatEmptySeq
  <2>8. (r \o a) \o b = r \o (a \o b)
    BY Associative, SMTT(40)
  <2>9. a \o b = buffer
    BY <1>2, <2>3, <2>4
  <2>10. (F!Returned' \o into) \o buffer' = (r \o a) \o b
    BY <1>7, <2>4, <2>5, <2>7
  <2>11. (F!Returned \o into) \o buffer = r \o (a \o b)
    BY <1>7, <2>2, <2>7, <2>9
  <2>12. QED
    BY <2>8, <2>10, <2>11, Zenon
<1>10. LinesEnd'
  <2>1. SUFFICES ASSUME clean, NEW i \in DOMAIN Append(got, e), Append(got, e)[i].by = "ReadLine"
                 PROVE  IsLine(Append(got, e)[i].text)
    <3>1. ~clean => LinesEnd'
      BY <1>1 DEF FilesInv, LinesEnd
    <3>2. clean => got' = Append(got, e)
      BY <1>1
    <3>3. QED
      BY <3>1, <3>2 DEF LinesEnd, IsLine
  <2>2. /\ DOMAIN Append(got, e) = 1 .. Len(got) + 1 /\ DOMAIN got = 1 .. Len(got) /\ Len(got) \in Nat
        /\ \A j \in 1 .. Len(got) : Append(got, e)[j] = got[j]
        /\ Append(got, e)[Len(got) + 1] = e
    BY <1>3, AppendProperties, LenProperties
  <2>3. CASE i = Len(got) + 1
    BY <1>3, <2>2, <2>3
  <2>4. CASE i \in DOMAIN got
    <3>1. Append(got, e)[i] = got[i]
      BY <2>2, <2>4
    <3>2. QED
      BY <2>1, <2>4, <3>1 DEF FilesInv, LinesEnd
  <2>5. QED
    BY <2>2, <2>3, <2>4
<1>11. CopiedSoFar'
  BY <1>1 DEF CopiedSoFar
<1>12. QED
  BY <1>6, <1>8, <1>9, <1>10, <1>11 DEF FilesInv

LEMMA FilesReadLine == FilesInv /\ F!ReadLine => FilesInv'
<1> SUFFICES ASSUME FilesInv, F!ReadLine PROVE FilesInv'
  OBVIOUS
<1> DEFINE c == F!Chunk(READ_BUF)
           find == F!Find(buffer, Delimiter)
<1>1. /\ call = "readline" /\ UNCHANGED <<dir, data, name, fd, into, target, at, from, clean, was, failed>>
      /\ \/ find # 0 /\ F!Line(find + Len(Delimiter) - 1) /\ UNCHANGED pos
         \/ pos' = pos + Len(c) /\ buffer' = buffer \o c /\ UNCHANGED <<call, ok, got>>
         \/ find = 0 /\ F!Line(Len(buffer)) /\ UNCHANGED pos
         \/ call' = "none" /\ UNCHANGED <<pos, buffer, got>>
  BY DEF F!ReadLine, F!Returns
<1>2. into = <<>> /\ fd # None /\ buffer \in Seq(Chars) /\ got \in Seq(Got)
  BY <1>1 DEF FilesInv, Running, FilesTypes
<1>3. find \in Int
  <2>1. Delimiter \in Seq(Chars)
    BY LibraryAssumption
  <2>2. find \in 0 .. Len(buffer)
    BY <1>2, <2>1, FindFirst
  <2>3. QED
    BY <2>2
<1>4. Len(Delimiter) \in Nat /\ Len(buffer) \in Nat
  BY <1>2, LibraryAssumption
<1>5. CASE find # 0 /\ F!Line(find + Len(Delimiter) - 1) /\ UNCHANGED pos
  <2>1. PICK n \in Int : n = find + Len(Delimiter) - 1
    BY <1>3, <1>4
  <2>2. n = IF find # 0 THEN find + Len(Delimiter) - 1 ELSE Len(buffer)
    BY <1>5, <2>1
  <2> HIDE DEF find
  <2>3. n \in 0 .. Len(buffer) /\ IsLine(SubSeq(buffer, 1, n))
    BY <1>2, <1>3, <2>2, LineEnds DEF find
  <2>4. QED
    BY <1>1, <1>5, <2>1, <2>3, LineKeeps
<1>6. CASE pos' = pos + Len(c) /\ buffer' = buffer \o c /\ UNCHANGED <<call, ok, got>>
  <2>1. /\ c \in Seq(Chars) /\ pos' \in Nat
        /\ clean => /\ from <= pos' /\ pos' <= Len(data[fd])
                    /\ ((F!Returned \o into) \o buffer) \o c = SubSeq(data[fd], from + 1, pos')
    BY <1>2, <1>6, ReadMore
  <2> HIDE DEF c, find
  <2>2. buffer' \in Seq(Chars)
    BY <1>2, <1>6, <2>1, ConcatProperties
  <2>3. FilesTypes'
    BY <1>1, <1>6, <2>1, <2>2 DEF FilesInv, FilesTypes
  <2>4. Running'
    BY <1>1, <1>2, <1>6 DEF Running
  <2>5. ReadSoFar'
    <3>1. F!Returned' = F!Returned
      BY <1>6, ReturnedTexts
    <3>2. PICK r \in Seq(Chars) : r = F!Returned
      BY <1>2, TextsType, ReturnedTexts
    <3>3. PICK b \in Seq(Chars) : b = buffer
      BY <1>2
    <3>4. PICK d \in Seq(Chars) : d = c
      BY <2>1
    <3>5. (r \o b) \o d = r \o (b \o d)
      BY Associative, SMTT(40)
    <3>6. r \o <<>> = r
      BY ConcatEmptySeq
    <3>7. (F!Returned' \o into') \o buffer' = r \o (b \o d)
      BY <1>1, <1>2, <1>6, <3>1, <3>2, <3>3, <3>4, <3>6
    <3>8. ((F!Returned \o into) \o buffer) \o c = (r \o b) \o d
      BY <1>2, <3>2, <3>3, <3>4, <3>6
    <3>9. (F!Returned' \o into') \o buffer' = ((F!Returned \o into) \o buffer) \o c
      BY <3>5, <3>7, <3>8, Zenon
    <3>10. QED
      BY <1>1, <2>1, <3>9 DEF ReadSoFar
  <2>6. LinesEnd'
    BY <1>6 DEF FilesInv, LinesEnd
  <2>7. CopiedSoFar'
    BY <1>1, <1>6 DEF CopiedSoFar
  <2>8. QED
    BY <2>3, <2>4, <2>5, <2>6, <2>7 DEF FilesInv
<1>7. CASE find = 0 /\ F!Line(Len(buffer)) /\ UNCHANGED pos
  <2>1. PICK n \in Int : n = Len(buffer)
    BY <1>4
  <2>2. n = IF find # 0 THEN find + Len(Delimiter) - 1 ELSE Len(buffer)
    BY <1>7, <2>1
  <2> HIDE DEF find
  <2>3. n \in 0 .. Len(buffer) /\ IsLine(SubSeq(buffer, 1, n))
    BY <1>2, <1>3, <2>2, LineEnds DEF find
  <2>4. QED
    BY <1>1, <1>7, <2>1, <2>3, LineKeeps
<1>8. CASE call' = "none" /\ UNCHANGED <<pos, buffer, got>>
  <2>1. FilesTypes'
    BY <1>1, <1>8 DEF FilesInv, FilesTypes
  <2>2. Running'
    BY <1>1, <1>2, <1>8 DEF Running
  <2>3. ReadSoFar'
    <3>1. F!Returned' = F!Returned
      BY <1>8, ReturnedTexts
    <3>2. QED
      BY <1>1, <1>8, <3>1 DEF FilesInv, ReadSoFar
  <2>4. LinesEnd'
    BY <1>8 DEF FilesInv, LinesEnd
  <2>5. QED
    BY <1>8, <2>1, <2>2, <2>3, <2>4 DEF FilesInv, CopiedSoFar
<1>9. QED
  BY <1>1, <1>5, <1>6, <1>7, <1>8

LEMMA FilesBeginReadFile == FilesInv /\ F!BeginReadFile => FilesInv'
<1> SUFFICES ASSUME FilesInv, F!BeginReadFile PROVE FilesInv'
  OBVIOUS
<1>1. /\ F!Call /\ fd # None /\ call' = "readfile" /\ into' = <<>>
      /\ UNCHANGED <<dir, data, name, fd, pos, buffer>>
      /\ IF buffer = <<>> THEN UNCHANGED <<from, got, clean>> ELSE F!Spoil
  BY DEF F!BeginReadFile, F!file, F!ghosts
<1>2. into = <<>> /\ <<>> \in Seq(Chars)
  BY <1>1, CallFacts
<1>3. CASE buffer = <<>>
  <2>1. FilesTypes'
    BY <1>1, <1>3 DEF FilesInv, FilesTypes
  <2>2. Running'
    BY <1>1, <1>2, <1>3 DEF Running
  <2>3. ReadSoFar'
    <3>1. F!Returned' = F!Returned
      BY <1>1, <1>3, ReturnedTexts
    <3>2. QED
      BY <1>1, <1>2, <1>3, <3>1 DEF FilesInv, ReadSoFar
  <2>4. LinesEnd'
    BY <1>1, <1>3 DEF FilesInv, LinesEnd
  <2>5. QED
    BY <1>1, <2>1, <2>2, <2>3, <2>4 DEF FilesInv, CopiedSoFar
<1>4. CASE buffer # <<>>
  <2>1. F!Spoil
    BY <1>1, <1>4
  <2>2. FilesTypes'
    BY <1>1, <2>1 DEF FilesInv, FilesTypes, F!Spoil
  <2>3. Running'
    BY <1>1, <1>2, <2>1 DEF Running, F!Spoil
  <2>4. QED
    BY <1>1, <2>1, <2>2, <2>3, SpoilKeeps
<1>5. QED
  BY <1>3, <1>4

LEMMA FilesReadFile == FilesInv /\ F!ReadFile => FilesInv'
<1> SUFFICES ASSUME FilesInv, F!ReadFile PROVE FilesInv'
  OBVIOUS
<1> DEFINE c == F!Chunk(READ_BUF)
           e == [by |-> "ReadFile", text |-> into]
<1>1. /\ call = "readfile" /\ UNCHANGED <<dir, data, name, fd, buffer, from, clean>>
      /\ \/ into' = into \o c /\ pos' = pos + Len(c) /\ UNCHANGED <<call, ok, got>>
         \/ /\ got' = IF clean /\ into # <<>> THEN Append(got, e) ELSE got
            /\ into' = <<>> /\ call' = "none" /\ UNCHANGED pos
  BY DEF F!ReadFile, F!Returns
<1>2. into \in Seq(Chars) /\ fd # None /\ got \in Seq(Got) /\ (clean => buffer = <<>>)
  BY <1>1 DEF FilesInv, Running, FilesTypes
<1>3. PICK r \in Seq(Chars) : r = F!Returned
  BY <1>2, TextsType, ReturnedTexts
<1>4. CASE into' = into \o c /\ pos' = pos + Len(c) /\ UNCHANGED <<call, ok, got>>
  <2>1. /\ c \in Seq(Chars) /\ pos' \in Nat
        /\ clean => /\ from <= pos' /\ pos' <= Len(data[fd])
                    /\ ((F!Returned \o into) \o buffer) \o c = SubSeq(data[fd], from + 1, pos')
    BY <1>2, <1>4, ReadMore
  <2> HIDE DEF c, e
  <2>2. into' \in Seq(Chars)
    BY <1>2, <1>4, <2>1, ConcatProperties
  <2>3. FilesTypes'
    BY <1>1, <1>4, <2>1 DEF FilesInv, FilesTypes
  <2>4. Running'
    BY <1>1, <1>2, <1>4, <2>2 DEF Running
  <2>5. ReadSoFar'
    <3>1. SUFFICES ASSUME clean PROVE ReadSoFar'
      BY <1>1 DEF ReadSoFar
    <3>2. PICK t \in Seq(Chars) : t = into
      BY <1>2
    <3>3. PICK d \in Seq(Chars) : d = c
      BY <2>1
    <3>4. F!Returned' = r /\ buffer = <<>>
      BY <1>2, <1>3, <1>4, <3>1, ReturnedTexts
    <3>5. (r \o t) \o d = r \o (t \o d)
      BY Associative, SMTT(40)
    <3>6. r \o t \in Seq(Chars) /\ r \o (t \o d) \in Seq(Chars)
      BY ConcatProperties
    <3>7. (r \o t) \o <<>> = r \o t /\ (r \o (t \o d)) \o <<>> = r \o (t \o d)
      BY <3>6, ConcatEmptySeq
    <3>8. (F!Returned' \o into') \o buffer' = r \o (t \o d)
      BY <1>1, <1>4, <3>2, <3>3, <3>4, <3>7
    <3>9. ((F!Returned \o into) \o buffer) \o c = (r \o t) \o d
      BY <1>3, <3>2, <3>3, <3>4, <3>7
    <3>10. (F!Returned' \o into') \o buffer' = ((F!Returned \o into) \o buffer) \o c
      BY <3>5, <3>8, <3>9, Zenon
    <3>11. QED
      BY <1>1, <2>1, <3>1, <3>10 DEF ReadSoFar
  <2>6. LinesEnd'
    BY <1>4 DEF FilesInv, LinesEnd
  <2>7. CopiedSoFar'
    BY <1>1, <1>4 DEF CopiedSoFar
  <2>8. QED
    BY <2>3, <2>4, <2>5, <2>6, <2>7 DEF FilesInv
<1>5. CASE /\ got' = IF clean /\ into # <<>> THEN Append(got, e) ELSE got
           /\ into' = <<>> /\ call' = "none" /\ UNCHANGED pos
  <2>1. e \in Got /\ e.text = into /\ e.by # "ReadLine"
    BY <1>2 DEF Got
  <2> HIDE DEF e, c
  <2>2. /\ Append(got, e) \in Seq(Got)
        /\ FlattenSeq(TextsOf(Append(got, e))) = FlattenSeq(TextsOf(got)) \o into
    BY <1>2, <2>1, TextsAppend
  <2>3. got' \in Seq(Got)
    BY <1>2, <1>5, <2>2
  <2>4. FilesTypes'
    BY <1>1, <1>5, <2>3 DEF FilesInv, FilesTypes
  <2>5. Running'
    BY <1>5 DEF Running
  <2>6. ReadSoFar'
    <3>1. SUFFICES ASSUME clean
                   PROVE  (F!Returned' \o into') \o buffer' = (F!Returned \o into) \o buffer
      BY <1>1, <1>2, <1>5 DEF FilesInv, ReadSoFar
    <3>2. PICK t \in Seq(Chars) : t = into
      BY <1>2
    <3>3. r \o <<>> = r
      BY ConcatEmptySeq
    <3>4. F!Returned' = r \o t
      <4>1. CASE into # <<>>
        BY <1>3, <1>5, <2>2, <3>1, <3>2, <4>1, ReturnedTexts
      <4>2. CASE into = <<>>
        BY <1>3, <1>5, <3>2, <3>3, <4>2, ReturnedTexts
      <4>3. QED
        BY <4>1, <4>2
    <3>5. r \o t \in Seq(Chars)
      BY ConcatProperties
    <3>6. (r \o t) \o <<>> = r \o t
      BY <3>5, ConcatEmptySeq
    <3>7. QED
      BY <1>1, <1>2, <1>3, <1>5, <3>1, <3>2, <3>4, <3>6
  <2>7. LinesEnd'
    <3>1. CASE got' = got
      BY <3>1 DEF FilesInv, LinesEnd
    <3>2. CASE got' = Append(got, e)
      <4>1. SUFFICES ASSUME NEW i \in DOMAIN Append(got, e), Append(got, e)[i].by = "ReadLine"
                     PROVE  IsLine(Append(got, e)[i].text)
        BY <3>2 DEF LinesEnd, IsLine
      <4>2. /\ DOMAIN Append(got, e) = 1 .. Len(got) + 1 /\ DOMAIN got = 1 .. Len(got) /\ Len(got) \in Nat
            /\ \A j \in 1 .. Len(got) : Append(got, e)[j] = got[j]
            /\ Append(got, e)[Len(got) + 1] = e
        BY <1>2, <2>1, AppendProperties, LenProperties
      <4>3. i # Len(got) + 1
        BY <2>1, <4>1, <4>2
      <4>4. i \in DOMAIN got /\ Append(got, e)[i] = got[i]
        BY <4>2, <4>3
      <4>5. QED
        BY <4>1, <4>4 DEF FilesInv, LinesEnd
    <3>3. QED
      BY <1>5, <3>1, <3>2
  <2>8. CopiedSoFar'
    BY <1>5 DEF CopiedSoFar
  <2>9. QED
    BY <2>4, <2>5, <2>6, <2>7, <2>8 DEF FilesInv
<1>6. QED
  BY <1>1, <1>4, <1>5

LEMMA FilesCopy ==
    ASSUME FilesInv, NEW p \in Paths, NEW b \in BOOLEAN, F!Copy(p, b)
    PROVE  FilesInv'
<1>1. /\ call = "none" /\ into = <<>>
      /\ F!Exists(name) => dir[name] \in Inodes /\ dir[name] # None
      /\ UNCHANGED <<name, buffer>>
  BY CallFacts DEF F!Copy
<1>2. CASE /\ UNCHANGED fd \/ fd' = None
           /\ F!Returns(FALSE)
           /\ UNCHANGED <<dir, data, pos, into, target, at, F!ghosts, was, failed>>
  <2>1. /\ call' = "none" /\ UNCHANGED <<from, got, clean>>
        /\ dir \in [Paths -> Inodes \cup {None}]
    BY <1>2 DEF F!Returns, F!ghosts, FilesInv, FilesTypes
  <2>2. QED
    BY <1>1, <1>2, <2>1, NamesKeep
<1>3. CASE /\ F!Exists(name) /\ fd' = dir[name] /\ pos' = 0 /\ F!Spoil /\ F!Returns(FALSE)
           /\ UNCHANGED <<dir, data, into, target, at, was, failed>>
  <2>1. FilesTypes'
    BY <1>1, <1>3 DEF FilesInv, FilesTypes, F!Spoil, F!Returns
  <2>2. Running'
    BY <1>1, <1>3 DEF Running, F!Returns
  <2>3. call' # "copy"
    BY <1>3 DEF F!Returns
  <2>4. QED
    BY <1>3, <2>1, <2>2, <2>3, SpoilKeeps
<1>4. CASE /\ F!Exists(name) /\ fd' = dir[name] /\ pos' = 0 /\ F!Spoil
           /\ was' = data[dir[name]]
           /\ \E ino \in Inodes :
                /\ F!OpenPath(p, ino, TRUE)
                /\ target' = ino /\ at' = 0
                /\ data' = [data EXCEPT ![ino] = <<>>]
           /\ call' = "copy" /\ into' = p /\ failed' = FALSE
  <2>1. PICK ino \in Inodes :
                /\ F!OpenPath(p, ino, TRUE)
                /\ target' = ino /\ at' = 0
                /\ data' = [data EXCEPT ![ino] = <<>>]
    BY <1>4
  <2>2. dir' \in [Paths -> Inodes \cup {None}]
    BY <2>1 DEF F!OpenPath, FilesInv, FilesTypes
  <2>3. data' \in [Inodes -> Seq(Chars)] /\ data'[ino] = <<>>
        /\ \A i \in Inodes : i # ino => data'[i] = data[i]
    <3>1. <<>> \in Seq(Chars) /\ data \in [Inodes -> Seq(Chars)]
      BY DEF FilesInv, FilesTypes
    <3>2. QED
      BY <2>1, <3>1
  <2>4. fd' \in Inodes /\ fd' # None
    BY <1>1, <1>4
  <2>5. /\ clean' = FALSE /\ got' = <<>> /\ from' = 0
        /\ <<>> \in Seq(Got) /\ DOMAIN <<>> = {}
    BY <1>4 DEF F!Spoil
  <2>6. FilesTypes'
    <3>1. pos' \in Nat /\ from' \in Nat /\ buffer' \in Seq(Chars) /\ name' \in Paths
      BY <1>1, <1>4, <2>5 DEF FilesInv, FilesTypes
    <3>2. got' \in Seq(Got)
      BY <2>5
    <3>3. QED
      BY <1>4, <2>2, <2>3, <2>4, <3>1, <3>2 DEF FilesTypes
  <2>7. Running'
    <3>1. PICK s \in Seq(Chars) : s = data'[fd']
      BY <2>3, <2>4
    <3>2. Len(s) \in Nat
      OBVIOUS
    <3>3. pos' <= Len(data'[fd'])
      BY <1>4, <3>1, <3>2
    <3>4. Len(<<>>) = 0
      OBVIOUS
    <3>5. at' \in 0 .. Len(data'[target'])
      BY <2>1, <2>3, <3>4
    <3>6. QED
      BY <1>4, <2>1, <2>4, <2>5, <3>3, <3>5 DEF Running
  <2>8. CopiedSoFar'
    <3>1. SUFFICES ASSUME target' # fd' PROVE CopiedSoFar'
      BY DEF CopiedSoFar
    <3>2. data'[fd'] = was'
      BY <1>4, <2>1, <2>3, <2>4, <3>1
    <3>3. was' \in Seq(Chars) /\ Len(was') <= Len(was')
      <4>1. data'[fd'] \in Seq(Chars)
        BY <2>3, <2>4
      <4>2. PICK s \in Seq(Chars) : s = was'
        BY <3>2, <4>1
      <4>3. Len(s) <= Len(s)
        BY LenProperties
      <4>4. QED
        BY <4>2, <4>3
    <3>4. at' = pos' /\ \A i \in 1 .. pos' : FALSE
      BY <1>4, <2>1
    <3>5. QED
      BY <3>2, <3>3, <3>4 DEF CopiedSoFar
  <2>9. QED
    BY <2>5, <2>6, <2>7, <2>8 DEF FilesInv, ReadSoFar, LinesEnd
<1>5. QED
  BY <1>2, <1>3, <1>4 DEF F!Copy

LEMMA FilesCopyChunk == FilesInv /\ F!CopyChunk => FilesInv'
<1> SUFFICES ASSUME FilesInv, F!CopyChunk PROVE FilesInv'
  OBVIOUS
<1>1. PICK c : c = F!Chunk(READ_BUF)
  OBVIOUS
<1>2. PICK n \in 0 .. Len(c) :
         /\ data' = [data EXCEPT ![target] = F!Overwritten(@, at, SubSeq(c, 1, n))]
         /\ at' = at + n
         /\ failed' = (failed \/ n < Len(c))
  BY <1>1 DEF F!CopyChunk
<1>3. /\ call = "copy" /\ call' = "copy" /\ pos' = pos + Len(c)
      /\ UNCHANGED <<dir, name, fd, buffer, into, target, was, from, got, clean>>
  BY <1>1 DEF F!CopyChunk, F!ghosts
<1>4. /\ fd # None /\ fd \in Inodes /\ target \in Inodes /\ into \in Paths /\ ~clean
      /\ pos <= Len(data[fd]) /\ at \in 0 .. Len(data[target])
      /\ data \in [Inodes -> Seq(Chars)] /\ pos \in Nat
  BY <1>3 DEF FilesInv, Running, FilesTypes
<1>5. PICK old \in Seq(Chars) : old = data[target]
  BY <1>4
<1>6. PICK s \in Seq(Chars) : s = data[fd]
  BY <1>4
<1>7. /\ c \in Seq(Chars) /\ pos + Len(c) <= Len(s)
      /\ c = SubSeq(s, pos + 1, pos + Len(c))
  BY <1>1, <1>4, <1>6, ReadMore
<1>8. PICK l \in Nat : l = Len(c)
  BY <1>7, LenProperties
<1>9. PICK d \in Seq(Chars) : d = SubSeq(c, 1, n) /\ Len(d) = n /\ \A i \in 1 .. n : d[i] = c[i]
  <2>1. /\ SubSeq(c, 1, n) \in Seq(Chars) /\ Len(SubSeq(c, 1, n)) = n
        /\ \A i \in 1 .. n : SubSeq(c, 1, n)[i] = c[i]
    BY <1>7, HeadType
  <2>2. QED
    BY <2>1
<1>10. PICK o \in Seq(Chars) :
          /\ o = F!Overwritten(old, at, d) /\ Len(old) <= Len(o) /\ at + n <= Len(o)
          /\ \A i \in 1 .. at : o[i] = old[i]
          /\ \A i \in 1 .. n : o[at + i] = d[i]
  <2>1. at \in 0 .. Len(old)
    BY <1>4, <1>5
  <2>2. PICK o : o = F!Overwritten(old, at, d)
    OBVIOUS
  <2>3. /\ o \in Seq(Chars) /\ Len(old) <= Len(o) /\ at + Len(d) <= Len(o)
        /\ \A i \in 1 .. at : o[i] = old[i]
        /\ \A i \in 1 .. Len(d) : o[at + i] = d[i]
    <3>1. \A x \in Seq(Chars) : \A m \in 0 .. Len(x) : \A y \in Seq(Chars) : \A z :
            z = F!Overwritten(x, m, y) =>
              /\ z \in Seq(Chars) /\ Len(x) <= Len(z) /\ m + Len(y) <= Len(z)
              /\ \A i \in 1 .. m : z[i] = x[i]
              /\ \A i \in 1 .. Len(y) : z[m + i] = y[i]
      BY OverwrittenType
    <3>2. QED
      BY <2>1, <2>2, <3>1
  <2>4. QED
    BY <1>9, <2>2, <2>3, Zenon
<1>11. /\ data' \in [Inodes -> Seq(Chars)] /\ data'[target] = o
       /\ \A i \in Inodes : i # target => data'[i] = data[i]
  <2>1. data' = [data EXCEPT ![target] = o]
    BY <1>2, <1>5, <1>9, <1>10
  <2>2. QED
    BY <1>4, <2>1
<1>12. n \in Nat /\ n <= l /\ at \in Nat /\ Len(s) \in Nat /\ Len(old) \in Nat /\ Len(o) \in Nat
  BY <1>4, <1>8
<1>13. FilesTypes'
  BY <1>3, <1>4, <1>8, <1>11 DEF FilesInv, FilesTypes
<1>14. Running'
  <2>1. pos' <= Len(data'[fd])
    <3>1. pos' <= Len(s)
      BY <1>3, <1>7
    <3>2. CASE fd = target
      BY <1>4, <1>5, <1>6, <1>8, <1>3, <1>10, <1>11, <1>12, <3>1, <3>2
    <3>3. CASE fd # target
      BY <1>4, <1>6, <1>11, <3>1, <3>3
    <3>4. QED
      BY <3>2, <3>3
  <2>2. at' \in 0 .. Len(data'[target])
    BY <1>2, <1>10, <1>11, <1>12
  <2>3. QED
    BY <1>3, <1>4, <2>1, <2>2 DEF Running
<1>15. CopiedSoFar'
  <2>1. SUFFICES ASSUME target # fd, ~failed' PROVE CopiedSoFar'
    BY <1>3 DEF CopiedSoFar
  <2>2. ~failed /\ n = l
    <3>1. ~failed /\ ~(n < Len(c))
      BY <1>2, <2>1, Zenon
    <3>2. QED
      BY <1>8, <1>12, <3>1
  <2>3. /\ at = pos
        /\ \A i \in 1 .. pos : old[i] = s[i]
        /\ was \in Seq(Chars) /\ Len(was) <= Len(s)
        /\ \A i \in 1 .. Len(was) : s[i] = was[i]
    BY <1>3, <1>5, <1>6, <2>1, <2>2 DEF FilesInv, CopiedSoFar
  <2>4. data'[fd] = s
    BY <1>4, <1>6, <1>11, <2>1
  <2>5. at' = pos'
    BY <1>2, <1>3, <1>8, <2>2, <2>3
  <2>6. ASSUME NEW i \in 1 .. pos + l PROVE o[i] = s[i]
    <3>1. CASE i <= pos
      <4>1. i \in 1 .. pos
        BY <1>4, <1>8, <3>1
      <4>2. QED
        BY <1>10, <2>3, <4>1
    <3>2. CASE i > pos
      <4>1. PICK j \in 1 .. l : i = pos + j
        <5>1. i - pos \in 1 .. l /\ i = pos + (i - pos)
          BY <1>4, <1>8, <3>2
        <5>2. QED
          BY <5>1
      <4>2. o[i] = c[j]
        BY <1>9, <1>10, <2>2, <2>3, <4>1
      <4>3. c[j] = s[pos + j]
        <5>1. pos + l \in pos .. Len(s) /\ (pos + l) - pos = l
          BY <1>4, <1>7, <1>8, <1>12
        <5>2. \A k \in 1 .. (pos + l) - pos : SubSeq(s, pos + 1, pos + l)[k] = s[pos + k]
          BY <1>4, <5>1, PieceType
        <5>3. QED
          BY <1>7, <1>8, <5>1, <5>2
      <4>4. QED
        BY <4>1, <4>2, <4>3
    <3>3. QED
      BY <1>4, <1>8, <3>1, <3>2
  <2>7. QED
    BY <1>3, <1>8, <1>11, <2>3, <2>4, <2>5, <2>6 DEF CopiedSoFar
<1>16. QED
  <2>1. ReadSoFar' /\ LinesEnd'
    BY <1>3, <1>4 DEF FilesInv, ReadSoFar, LinesEnd
  <2>2. QED
    BY <1>13, <1>14, <1>15, <2>1 DEF FilesInv

LEMMA FilesCopyEnds == FilesInv /\ (F!CopyDone \/ F!CopyError) => FilesInv'
<1> SUFFICES ASSUME FilesInv, F!CopyDone \/ F!CopyError PROVE FilesInv'
  OBVIOUS
<1>1. /\ call = "copy" /\ call' = "none" /\ fd' = None /\ into' = <<>>
      /\ dir' = dir \/ dir' = [dir EXCEPT ![into] = None]
      /\ UNCHANGED <<data, name, pos, buffer, from, got, clean>>
  BY DEF F!CopyDone, F!CopyError, F!CopyEnds, F!Returns, F!ghosts
<1>2. into \in Paths
  BY <1>1 DEF FilesInv, Running
<1>3. FilesTypes'
  BY <1>1, <1>2 DEF FilesInv, FilesTypes
<1>4. QED
  BY <1>1, <1>3 DEF FilesInv, Running, ReadSoFar, LinesEnd, CopiedSoFar

\* A file that becomes longer is where it was.
LEMMA FilesAppended ==
    ASSUME FilesInv, NEW p \in Paths, NEW c \in Chars, F!Appended(p, c)
    PROVE  FilesInv'
<1>1. /\ F!Exists(p) /\ data' = [data EXCEPT ![dir[p]] = Append(@, c)]
      /\ UNCHANGED <<dir, name, fd, pos, buffer, call, into, target, at, from, got, clean, was, failed>>
  BY DEF F!Appended, F!file, F!ghosts
<1>2. dir[p] \in Inodes /\ data \in [Inodes -> Seq(Chars)] /\ pos \in Nat /\ from \in Nat
      /\ fd \in Inodes \cup {None}
  BY <1>1 DEF F!Exists, FilesInv, FilesTypes
<1>3. PICK s \in Seq(Chars) : s = data[dir[p]]
  BY <1>2
<1>4. PICK t \in Seq(Chars) : t = Append(s, c) /\ Len(t) = Len(s) + 1 /\ Len(s) \in Nat
                              /\ \A i \in 1 .. Len(s) : t[i] = s[i]
  <2>1. /\ Append(s, c) \in Seq(Chars) /\ Len(Append(s, c)) = Len(s) + 1 /\ Len(s) \in Nat
        /\ \A i \in 1 .. Len(s) : Append(s, c)[i] = s[i]
    BY AppendProperties, LenProperties
  <2>2. QED
    BY <2>1, Zenon
<1>5. data' = [data EXCEPT ![dir[p]] = t]
  BY <1>1, <1>3, <1>4
<1>6. data' \in [Inodes -> Seq(Chars)]
  BY <1>2, <1>5
<1>7. ASSUME NEW i \in Inodes
      PROVE  /\ Len(data[i]) \in Nat /\ Len(data'[i]) \in Nat /\ Len(data[i]) <= Len(data'[i])
             /\ \A j \in 1 .. Len(data[i]) : data'[i][j] = data[i][j]
  <2>1. PICK u \in Seq(Chars) : u = data[i]
    BY <1>2
  <2>2. Len(u) \in Nat /\ Len(u) <= Len(u)
    BY LenProperties
  <2>3. CASE i = dir[p]
    <3>1. data[i] = s /\ data'[i] = t
      BY <1>2, <1>3, <1>5, <2>3
    <3>2. Len(t) \in Nat /\ Len(s) <= Len(t)
      BY <1>4
    <3>3. QED
      BY <1>4, <3>1, <3>2
  <2>4. CASE i # dir[p]
    <3>1. data'[i] = data[i]
      BY <1>2, <1>5, <2>4
    <3>2. QED
      BY <2>1, <2>2, <3>1
  <2>5. QED
    BY <2>3, <2>4
<1>8. FilesTypes'
  BY <1>1, <1>6 DEF FilesInv, FilesTypes
<1>9. Running'
  <2>1. call = "copy" => /\ pos <= Len(data'[fd]) /\ at \in 0 .. Len(data'[target])
    <3>1. SUFFICES ASSUME call = "copy"
                   PROVE  pos <= Len(data'[fd]) /\ at \in 0 .. Len(data'[target])
      OBVIOUS
    <3>2. fd \in Inodes /\ target \in Inodes /\ pos <= Len(data[fd]) /\ at \in 0 .. Len(data[target])
      BY <1>2, <3>1 DEF FilesInv, Running
    <3>3. /\ Len(data[fd]) \in Nat /\ Len(data'[fd]) \in Nat /\ Len(data[fd]) <= Len(data'[fd])
          /\ Len(data[target]) \in Nat /\ Len(data'[target]) \in Nat
          /\ Len(data[target]) <= Len(data'[target])
      BY <1>7, <3>2
    <3>4. QED
      BY <1>2, <3>2, <3>3
  <2>2. QED
    BY <1>1, <2>1 DEF FilesInv, Running
<1>10. ReadSoFar'
  <2>1. SUFFICES ASSUME fd # None, clean PROVE ReadSoFar'
    BY <1>1 DEF ReadSoFar
  <2>2. PICK u \in Seq(Chars) : u = data[fd]
    BY <1>2, <2>1
  <2>3. PICK v \in Seq(Chars) : v = data'[fd]
    BY <1>2, <1>6, <2>1
  <2>4. from <= pos /\ pos <= Len(u) /\ (F!Returned \o into) \o buffer = SubSeq(u, from + 1, pos)
    BY <2>1, <2>2 DEF FilesInv, ReadSoFar
  <2>5. Len(u) \in Nat /\ Len(v) \in Nat /\ Len(u) <= Len(v) /\ \A j \in 1 .. Len(u) : v[j] = u[j]
    BY <1>2, <1>7, <2>1, <2>2, <2>3
  <2>6. pos \in from .. Len(u) /\ pos <= Len(v) /\ \A j \in 1 .. pos : u[j] = v[j]
    <3>1. pos \in from .. Len(u) /\ pos <= Len(v)
      BY <1>2, <2>4, <2>5
    <3>2. \A j \in 1 .. pos : j \in 1 .. Len(u)
      BY <1>2, <2>4, <2>5
    <3>3. QED
      BY <2>5, <3>1, <3>2
  <2>7. SubSeq(u, from + 1, pos) = SubSeq(v, from + 1, pos)
    BY <1>2, <2>6, SamePiece
  <2>8. F!Returned' = F!Returned
    BY <1>1, ReturnedTexts
  <2>9. QED
    BY <1>1, <2>3, <2>4, <2>6, <2>7, <2>8 DEF ReadSoFar
<1>11. LinesEnd'
  BY <1>1 DEF FilesInv, LinesEnd
<1>12. CopiedSoFar'
  <2>1. SUFFICES ASSUME call = "copy", target # fd, ~failed PROVE CopiedSoFar'
    BY <1>1 DEF CopiedSoFar
  <2>2. /\ at = pos
        /\ \A i \in 1 .. pos : data[target][i] = data[fd][i]
        /\ was \in Seq(Chars) /\ Len(was) <= Len(data[fd])
        /\ \A i \in 1 .. Len(was) : data[fd][i] = was[i]
        /\ fd \in Inodes /\ target \in Inodes
        /\ pos <= Len(data[fd]) /\ at \in 0 .. Len(data[target])
    BY <1>2, <2>1 DEF FilesInv, Running, CopiedSoFar
  <2>3. PICK u \in Seq(Chars) : u = data[fd]
    BY <1>2, <2>2
  <2>4. PICK v \in Seq(Chars) : v = data[target]
    BY <1>2, <2>2
  <2>5. /\ Len(u) \in Nat /\ Len(u) <= Len(data'[fd]) /\ Len(data'[fd]) \in Nat
        /\ \A j \in 1 .. Len(u) : data'[fd][j] = u[j]
    BY <1>7, <2>2, <2>3
  <2>6. /\ Len(v) \in Nat /\ \A j \in 1 .. Len(v) : data'[target][j] = v[j]
    BY <1>7, <2>2, <2>4
  <2>7. PICK w \in Nat : w = Len(was)
    BY <2>2, LenProperties
  <2>8. w <= Len(data'[fd])
    BY <2>2, <2>3, <2>5, <2>7
  <2>9. \A i \in 1 .. pos : data'[target][i] = data'[fd][i]
    <3>1. ASSUME NEW i \in 1 .. pos PROVE data'[target][i] = data'[fd][i]
      <4>1. i \in 1 .. Len(u) /\ i \in 1 .. Len(v)
        BY <1>2, <2>2, <2>3, <2>4, <2>5, <2>6
      <4>2. QED
        BY <2>2, <2>3, <2>4, <2>5, <2>6, <4>1
    <3>2. QED
      BY <3>1
  <2>10. \A i \in 1 .. w : data'[fd][i] = was[i]
    <3>1. ASSUME NEW i \in 1 .. w PROVE data'[fd][i] = was[i]
      <4>1. i \in 1 .. Len(u)
        BY <2>2, <2>3, <2>5, <2>7
      <4>2. QED
        BY <2>2, <2>3, <2>5, <2>7, <4>1
    <3>2. QED
      BY <3>1
  <2>11. QED
    BY <1>1, <2>2, <2>7, <2>8, <2>9, <2>10 DEF CopiedSoFar
<1>13. QED
  BY <1>8, <1>9, <1>10, <1>11, <1>12 DEF FilesInv

LEMMA FilesNext == FilesInv /\ F!Next => FilesInv'
<1> SUFFICES ASSUME FilesInv, F!Next PROVE FilesInv'
  OBVIOUS
<1>1. ASSUME NEW s \in Chars, F!Write(<<s>>) \/ F!Write(<<s, s>>) PROVE FilesInv'
  <2>1. <<s>> \in Seq(Chars) /\ <<s, s>> \in Seq(Chars)
    OBVIOUS
  <2>2. QED
    BY <1>1, <2>1, FilesWrite
<1>2. CASE F!Delete \/ F!BeginReadLine
  <2>1. Name \in Paths /\ TRUE \in BOOLEAN
    BY LibraryAssumption
  <2>2. QED
    BY <1>2, <2>1, FilesNames
<1>3. ASSUME NEW p \in Paths, NEW b \in BOOLEAN, F!Move(p, b) \/ F!Copy(p, b) PROVE FilesInv'
  BY <1>3, FilesNames, FilesCopy
<1>4. ASSUME NEW p \in 0 .. 1, F!Seek(p) \/ F!Truncate(p) PROVE FilesInv'
  BY <1>4, FilesSeek, FilesTruncate
<1>5. QED
  BY <1>1, <1>2, <1>3, <1>4, FilesOpen, FilesSeek, FilesReadLine, FilesBeginReadFile, FilesReadFile,
     FilesCopyChunk, FilesCopyEnds, FilesAppended
  DEF F!Next

LEMMA FilesStill == FilesInv /\ UNCHANGED files => FilesInv'
<1> SUFFICES ASSUME FilesInv, UNCHANGED files PROVE FilesInv'
  OBVIOUS
<1>1. UNCHANGED <<dir, data, name, fd, pos, buffer, call, into, target, at, from, got, clean, was, failed>>
  BY DEF files
<1>2. F!Returned' = F!Returned
  BY <1>1, ReturnedTexts
<1>3. QED
  BY <1>1, <1>2 DEF FilesInv, FilesTypes, Running, ReadSoFar, LinesEnd, CopiedSoFar

LEMMA FilesShow == FilesInv => F!LinesAreTheFile
<1> SUFFICES ASSUME FilesInv, fd # None, clean PROVE F!LinesAreTheFile
  BY DEF F!LinesAreTheFile
<1>1. /\ from <= pos /\ pos <= Len(data[fd])
      /\ (F!Returned \o into) \o buffer = SubSeq(data[fd], from + 1, pos)
  BY DEF FilesInv, ReadSoFar
<1>2. from \in Nat /\ pos \in Nat /\ data[fd] \in Seq(Chars)
  BY DEF FilesInv, FilesTypes
<1>3. F!Part(data[fd], from + 1, pos) = SubSeq(data[fd], from + 1, pos)
  BY <1>1, <1>2, PartType
<1>4. QED
  BY <1>1, <1>3 DEF F!LinesAreTheFile, FilesInv, LinesEnd, IsLine

\* What Copy returns when it ends.
LEMMA CopyShows ==
    ASSUME FilesInv, F!Next, call = "copy", call' = "none"
    PROVE  IF ok'
           THEN \/ failed
                \/ target = fd
                \/ F!IsPrefix(was, data[target]) /\ F!IsPrefix(data[fd], data[target])
           ELSE dir'[into] = None
<1>1. /\ into \in Paths /\ fd # None /\ fd \in Inodes /\ target \in Inodes
      /\ dir \in [Paths -> Inodes \cup {None}] /\ data \in [Inodes -> Seq(Chars)] /\ pos \in Nat
      /\ pos <= Len(data[fd]) /\ at \in 0 .. Len(data[target])
  BY DEF FilesInv, Running, FilesTypes
<1>2. F!CopyDone \/ F!CopyError
  BY DEF F!Next, F!Open, F!Close, F!Read, F!Delete, F!Seek, F!Truncate, F!Write, F!BeginReadLine,
         F!ReadLine, F!BeginReadFile, F!ReadFile, F!Move, F!Copy, F!CopyChunk, F!Appended, F!Call
<1>3. CASE F!CopyError
  <2>1. ok' = FALSE /\ dir' = [dir EXCEPT ![into] = None]
    BY <1>3 DEF F!CopyError, F!CopyEnds, F!Returns
  <2>2. QED
    BY <1>1, <2>1
<1>4. CASE F!CopyDone
  <2>1. ok' = TRUE /\ F!Chunk(READ_BUF) = <<>>
    BY <1>4 DEF F!CopyDone, F!CopyEnds, F!Returns
  <2>2. SUFFICES ASSUME ~failed, target # fd
                 PROVE  F!IsPrefix(was, data[target]) /\ F!IsPrefix(data[fd], data[target])
    BY <2>1
  <2>3. /\ at = pos
        /\ \A i \in 1 .. pos : data[target][i] = data[fd][i]
        /\ was \in Seq(Chars) /\ Len(was) <= Len(data[fd])
        /\ \A i \in 1 .. Len(was) : data[fd][i] = was[i]
    BY <2>2 DEF FilesInv, CopiedSoFar
  <2>4. PICK s \in Seq(Chars) : s = data[fd]
    BY <1>1
  <2>5. PICK t \in Seq(Chars) : t = data[target]
    BY <1>1
  <2>6. Len(s) <= pos
    BY <1>1, <2>1, <2>4, ReadMore
  <2>7. Len(s) \in Nat /\ Len(t) \in Nat /\ Len(was) \in Nat
    BY <2>3, LenProperties
  <2>8. Len(s) = pos /\ Len(s) <= Len(t) /\ Len(was) <= Len(t) /\ Len(was) <= Len(s)
    BY <1>1, <2>3, <2>4, <2>5, <2>6, <2>7
  <2>9. \A i \in 1 .. Len(s) : t[i] = s[i]
    BY <2>3, <2>4, <2>5, <2>8
  <2>10. \A i \in 1 .. Len(was) : t[i] = was[i]
    <3>1. ASSUME NEW i \in 1 .. Len(was) PROVE t[i] = was[i]
      <4>1. i \in 1 .. Len(s) /\ s[i] = was[i]
        BY <2>3, <2>4, <2>7, <2>8
      <4>2. QED
        BY <2>9, <4>1
    <3>2. QED
      BY <3>1
  <2>11. F!IsPrefix(s, t) /\ F!IsPrefix(was, t)
    BY <2>3, <2>8, <2>9, <2>10, PrefixByElements DEF F!IsPrefix, Z!IsPrefix
  <2>12. QED
    BY <2>4, <2>5, <2>11
<1>5. QED
  BY <1>2, <1>3, <1>4

-----------------------------------------------------------------------------
(* ConversionsInvert *)

\* A multiple does not change what is left.
LEMMA ModMultiple ==
    ASSUME NEW n \in Nat \ {0}, NEW a \in Int, NEW r \in 0 .. n - 1
    PROVE  (a * n + r) % n = r
<1> DEFINE x == a * n + r
<1>1. x \in Int
  OBVIOUS
<1> HIDE DEF x
<1>2. PICK d \in Int, m \in 0 .. n - 1 : x = n * d + m /\ x % n = m
  <2>1. x \div n \in Int
    BY <1>1
  <2>2. x % n \in 0 .. n - 1
    BY <1>1
  <2>3. x = n * (x \div n) + (x % n)
    BY <1>1
  <2>4. QED
    BY <2>1, <2>2, <2>3
<1>3. n * (a - d) = m - r
  BY <1>2 DEF x
<1>4. a - d = 0
  <2>1. CASE a - d >= 1
    <3>1. n * (a - d) >= n
      BY <2>1
    <3>2. QED
      BY <1>3, <3>1
  <2>2. CASE a - d <= -1
    <3>1. n * (a - d) <= -n
      BY <2>2
    <3>2. QED
      BY <1>3, <3>1
  <2>3. QED
    BY <2>1, <2>2
<1>5. m = r
  BY <1>3, <1>4
<1>6. QED
  BY <1>2, <1>5 DEF x

\* An even number is twice its half.
LEMMA Half ==
    ASSUME NEW n \in Nat \ {0}, n % 2 = 0
    PROVE  n \div 2 \in Nat \ {0} /\ n = 2 * (n \div 2)
OBVIOUS

\* A conversion of a long to the type that a value came from gives it back.
LEMMA CastBack ==
    ASSUME NEW size \in Nat \ {0}, size % 2 = 0, NEW n \in Nat, n > 0,
           NEW v \in -(size \div 2) .. size - 1
    PROVE  /\ v >= 0 => S!Cast(v % (n * size), size, FALSE) = v
           /\ v < size \div 2 => S!Cast(v % (n * size), size, TRUE) = v
<1>0. PICK h \in Nat \ {0} : h = size \div 2 /\ size = 2 * h
  BY Half
<1>1. CASE v >= 0
  <2>1. n * size >= size /\ n * size \in Nat \ {0}
    OBVIOUS
  <2>2. v % (n * size) = v
    <3>1. (0 * (n * size) + v) % (n * size) = v
      BY <1>0, <1>1, <2>1, ModMultiple
    <3>2. 0 * (n * size) + v = v
      BY <2>1
    <3>3. QED
      BY <3>1, <3>2
  <2>3. v % size = v
    BY <1>0, <1>1
  <2>4. QED
    BY <1>0, <1>1, <2>2, <2>3 DEF S!Cast
<1>2. CASE v < 0
  <2>0. v \in -h .. -1
    BY <1>0, <1>2
  <2>1. n * size >= size /\ n * size \in Nat \ {0} /\ (n - 1) * size = n * size - size
        /\ (n - 1) * size \in Nat
    OBVIOUS
  <2>2. v % (n * size) = n * size + v
    <3>1. n * size + v \in 0 .. n * size - 1
      BY <1>0, <2>0, <2>1
    <3>2. (-1 * (n * size) + (n * size + v)) % (n * size) = n * size + v
      BY <2>1, <3>1, ModMultiple
    <3>3. -1 * (n * size) + (n * size + v) = v
      BY <2>1
    <3>4. QED
      BY <3>2, <3>3
  <2>3. (n * size + v) % size = size + v
    <3>1. size + v \in 0 .. size - 1
      BY <1>0, <2>0
    <3>2. ((n - 1) * size + (size + v)) % size = size + v
      <4>1. \A a \in Int, r \in 0 .. size - 1 : (a * size + r) % size = r
        BY ModMultiple
      <4>2. n - 1 \in Int
        OBVIOUS
      <4>3. QED
        BY <3>1, <4>1, <4>2
    <3>3. (n - 1) * size + (size + v) = n * size + v
      BY <2>1
    <3>4. QED
      BY <3>2, <3>3
  <2>4. size + v >= size \div 2 /\ (size + v) - size = v
    BY <1>0, <2>0
  <2>5. QED
    BY <1>0, <2>0, <2>2, <2>3, <2>4 DEF S!Cast
<1>3. v >= 0 \/ v < 0
  BY <1>0
<1>4. QED
  BY <1>1, <1>2, <1>3, Zenon

\* A long has as many values as a smaller type, several times over.
LEMMA Multiples ==
    ASSUME NEW size \in {ShortSize, IntSize}
    PROVE  \E n \in Nat : LongSize = n * size /\ n > 0 /\ 2 * size <= LongSize
<1>1. size \in Nat \ {0} /\ LongSize \in Nat \ {0} /\ LongSize % (2 * size) = 0
  BY ConversionAssumption
<1>2. PICK d \in Int : LongSize = (2 * size) * d
  <2> DEFINE m == 2 * size
  <2>1. m \in Nat \ {0} /\ LongSize % m = 0
    BY <1>1
  <2> HIDE DEF m
  <2>2. PICK d \in Int : LongSize = m * d
    BY <1>1, <2>1
  <2>3. QED
    BY <2>2 DEF m
<1>3. d >= 1
  <2>1. CASE d <= 0
    <3>1. (2 * size) * d <= 0
      BY <1>1, <2>1
    <3>2. QED
      BY <1>1, <1>2, <3>1
  <2>2. QED
    BY <2>1
<1>4. LongSize = (2 * d) * size /\ 2 * d \in Nat /\ 2 * d > 0 /\ 2 * size <= (2 * size) * d
  BY <1>1, <1>2, <1>3
<1>5. QED
  BY <1>2, <1>4

\* The type that each conversion returns.
LEMMA TypesAre ==
    /\ \A c \in {"ToShort", "ToInt", "ToLong", "ToLongLong", "ToInt32", "ToInt64"} :
           S!Type[c].signed = TRUE
    /\ \A c \in {"ToUShort", "ToUInt", "ToULong", "ToULongLong", "ToUInt32", "ToUInt64"} :
           S!Type[c].signed = FALSE
    /\ \A c \in {"ToShort", "ToUShort"} : S!Type[c].size = ShortSize
    /\ \A c \in {"ToInt", "ToUInt", "ToInt32", "ToUInt32"} : S!Type[c].size = IntSize
    /\ \A c \in {"ToLong", "ToULong", "ToLongLong", "ToULongLong", "ToInt64", "ToUInt64"} :
           S!Type[c].size = LongSize
<1>1. S!Type["ToShort"].size = ShortSize /\ S!Type["ToShort"].signed = TRUE
  BY DEF S!Type
<1>2. S!Type["ToUShort"].size = ShortSize /\ S!Type["ToUShort"].signed = FALSE
  BY DEF S!Type
<1>3. S!Type["ToInt"].size = IntSize /\ S!Type["ToInt"].signed = TRUE
  BY DEF S!Type
<1>4. S!Type["ToUInt"].size = IntSize /\ S!Type["ToUInt"].signed = FALSE
  BY DEF S!Type
<1>5. S!Type["ToLong"].size = LongSize /\ S!Type["ToLong"].signed = TRUE
  BY DEF S!Type
<1>6. S!Type["ToULong"].size = LongSize /\ S!Type["ToULong"].signed = FALSE
  BY DEF S!Type
<1>7. S!Type["ToLongLong"].size = LongSize /\ S!Type["ToLongLong"].signed = TRUE
  BY DEF S!Type
<1>8. S!Type["ToULongLong"].size = LongSize /\ S!Type["ToULongLong"].signed = FALSE
  BY DEF S!Type
<1>9. S!Type["ToInt32"].size = IntSize /\ S!Type["ToInt32"].signed = TRUE
  BY DEF S!Type
<1>10. S!Type["ToUInt32"].size = IntSize /\ S!Type["ToUInt32"].signed = FALSE
  BY DEF S!Type
<1>11. S!Type["ToInt64"].size = LongSize /\ S!Type["ToInt64"].signed = TRUE
  BY DEF S!Type
<1>12. S!Type["ToUInt64"].size = LongSize /\ S!Type["ToUInt64"].signed = FALSE
  BY DEF S!Type
<1>13. S!Conversions = {"ToShort", "ToUShort", "ToInt", "ToUInt", "ToLong", "ToULong", "ToLongLong",
                        "ToULongLong", "ToInt32", "ToUInt32", "ToInt64", "ToUInt64"}
  BY DEF S!Conversions, S!Type
<1>14. QED
  BY <1>1, <1>2, <1>3, <1>4, <1>5, <1>6, <1>7, <1>8, <1>9, <1>10, <1>11, <1>12, <1>13, Zenon

\* A number that was written in digits is read back by the conversion to its type,
\* but for those that strtoll cuts off.
LEMMA NumbersInvert ==
    ASSUME NEW c \in S!Conversions, NEW v \in S!ValuesOf(c)
    PROVE  \/ S!Convert(c, v) = v
           \/ c \in {"ToULongLong", "ToUInt64"} /\ v >= LongSize \div 2
<1> DEFINE size == S!Type[c].size
           signed == S!Type[c].signed
<1>1. /\ size \in {ShortSize, IntSize, LongSize} /\ signed \in BOOLEAN
      /\ size = LongSize /\ ~signed => c \in {"ToULong", "ToULongLong", "ToUInt64"}
      /\ S!UsesStrToUL(c) \/ size \in {IntSize, LongSize}
      /\ c = "ToULong" => S!UsesStrToUL(c)
  <2>1. c \in {"ToShort", "ToUShort", "ToInt", "ToUInt", "ToLong", "ToULong", "ToLongLong",
               "ToULongLong", "ToInt32", "ToUInt32", "ToInt64", "ToUInt64"}
    BY DEF S!Conversions, S!Type
  <2>2. CASE c \in {"ToShort", "ToUShort"}
    <3>1. size = ShortSize /\ signed \in BOOLEAN
      BY <2>2, TypesAre, Zenon
    <3>2. S!UsesStrToUL(c)
      BY <2>2 DEF S!UsesStrToUL
    <3>3. c \in {"ToULong", "ToULongLong", "ToUInt64"} \/ ShortSize # LongSize
      BY Multiples, ConversionAssumption
    <3>4. QED
      BY <2>2, <3>1, <3>2, <3>3
  <2>3. CASE c \in {"ToInt", "ToUInt", "ToInt32", "ToUInt32"}
    <3>1. size = IntSize /\ signed \in BOOLEAN
      BY <2>3, TypesAre, Zenon
    <3>2. 2 * IntSize <= LongSize /\ IntSize \in Nat \ {0}
      BY Multiples, ConversionAssumption
    <3>3. IntSize # LongSize
      BY <3>2
    <3>4. QED
      BY <2>3, <3>1, <3>3
  <2>4. CASE c \in {"ToLong", "ToLongLong", "ToInt64"}
    <3>1. size = LongSize /\ signed = TRUE
      BY <2>4, TypesAre, Zenon
    <3>2. QED
      BY <2>4, <3>1
  <2>5. CASE c \in {"ToULong", "ToULongLong", "ToUInt64"}
    <3>1. size = LongSize /\ signed = FALSE
      BY <2>5, TypesAre, Zenon
    <3>2. c = "ToULong" => S!UsesStrToUL(c)
      BY DEF S!UsesStrToUL
    <3>3. QED
      BY <2>5, <3>1, <3>2
  <2>6. QED
    BY <2>1, <2>2, <2>3, <2>4, <2>5
<1>2. size \in Nat \ {0} /\ size % 2 = 0 /\ LongSize \in Nat \ {0} /\ LongSize % 2 = 0
  BY <1>1, ConversionAssumption
<1>3. PICK n \in Nat : LongSize = n * size /\ n > 0 /\ (2 * size <= LongSize \/ size = LongSize)
  <2>1. CASE size = LongSize
    <3>1. LongSize = 1 * size
      BY <1>2, <2>1
    <3>2. QED
      BY <2>1, <3>1
  <2>2. CASE size \in {ShortSize, IntSize}
    BY <2>2, Multiples
  <2>3. QED
    BY <1>1, <2>1, <2>2
<1>4. v \in IF signed THEN -(size \div 2) .. size \div 2 - 1 ELSE 0 .. size - 1
  BY DEF S!ValuesOf
<1>5. S!Convert(c, v) = S!Cast(IF S!UsesStrToUL(c) THEN S!StrToUL(v) ELSE S!StrToLL(v), size, signed)
  BY DEF S!Convert
<1> HIDE DEF size, signed
<1>6. PICK h \in Nat \ {0} : h = size \div 2 /\ size = 2 * h
  BY <1>2, Half
<1>7. PICK half \in Nat \ {0} : half = LongSize \div 2 /\ LongSize = 2 * half
  BY <1>2, Half
<1>8. v \in -(size \div 2) .. size - 1 /\ (signed => v < size \div 2) /\ (~signed => v >= 0)
  BY <1>1, <1>4, <1>6
<1>9. size <= LongSize /\ h <= half
  BY <1>2, <1>3, <1>6, <1>7
<1>10. S!Cast(v % LongSize, size, signed) = v
  <2>1. S!Cast(v % (n * size), size, signed) = v
    BY <1>1, <1>2, <1>3, <1>8, CastBack
  <2>2. QED
    BY <1>3, <2>1
<1>11. CASE S!UsesStrToUL(c)
  <2>1. ~(v > S!ULongMax \/ -v > S!ULongMax)
    BY <1>6, <1>7, <1>8, <1>9 DEF S!ULongMax
  <2>2. S!StrToUL(v) = v % LongSize
    BY <2>1 DEF S!StrToUL
  <2>3. QED
    BY <1>5, <1>10, <1>11, <2>2
<1>12. CASE ~S!UsesStrToUL(c) /\ v < half
  <2>1. ~(v > half - 1) /\ ~(v < -(half - 1) - 1)
    BY <1>6, <1>7, <1>8, <1>9, <1>12
  <2>2. S!StrToLL(v) = v % LongSize
    BY <1>7, <2>1 DEF S!StrToLL
  <2>3. QED
    BY <1>5, <1>10, <1>12, <2>2
<1>13. CASE ~S!UsesStrToUL(c) /\ v >= half
  <2>1. size = LongSize
    BY <1>3, <1>6, <1>7, <1>8, <1>13
  <2>2. ~signed
    BY <1>6, <1>7, <1>8, <1>13, <2>1
  <2>3. c \in {"ToULongLong", "ToUInt64"}
    BY <1>1, <1>13, <2>1, <2>2
  <2>4. QED
    BY <1>7, <1>13, <2>3
<1>14. QED
  BY <1>7, <1>8, <1>11, <1>12, <1>13

\* What Base64Encode reads at i; behind the end it is 0.
ByteAt(b, i) == IF i <= Len(b) THEN b[i] ELSE 0

\* Base64Encode writes four characters for each three bytes, or what is left of them.
LEMMA EncodedDigits ==
    ASSUME NEW b \in Seq(0 .. 255), NEW q \in Nat, 3 * q < Len(b)
    PROVE  LET e == S!Base64Encode(b)
               x == ByteAt(b, 3 * q + 1)
               y == ByteAt(b, 3 * q + 2)
               z == ByteAt(b, 3 * q + 3)
           IN
           /\ e[4 * q + 1] = x \div 4
           /\ e[4 * q + 2] = ((x % 4) * 16) + (y \div 16)
           /\ e[4 * q + 3] = IF 3 * q + 2 > Len(b) THEN 64 ELSE ((y % 16) * 4) + (z \div 64)
           /\ e[4 * q + 4] = IF 3 * q + 3 > Len(b) THEN 64 ELSE z % 64
<1>0. PICK n \in Nat : n = Len(b) /\ DOMAIN b = 1 .. n
  BY LenProperties
<1> DEFINE x == ByteAt(b, 3 * q + 1)
           y == ByteAt(b, 3 * q + 2)
           z == ByteAt(b, 3 * q + 3)
           In(i) == IF i <= n THEN b[i] ELSE 0
           First(i) == In(i) \div 4
           Second(i) == ((In(i) % 4) * 16) + (In(i + 1) \div 16)
           Third(i) == IF i + 1 > n THEN 64 ELSE ((In(i + 1) % 16) * 4) + (In(i + 2) \div 64)
           Fourth(i) == IF i + 2 > n THEN 64 ELSE In(i + 2) % 64
           Digit(k) ==
            LET i == 3 * (k \div 4) + 1 IN
            CASE k % 4 = 0 -> First(i)
              [] k % 4 = 1 -> Second(i)
              [] k % 4 = 2 -> Third(i)
              [] k % 4 = 3 -> Fourth(i)
           e == S!Base64Encode(b)
<1>1. e = [k \in 1 .. 4 * ((n + 2) \div 3) |-> Digit(k - 1)]
  BY <1>0 DEF S!Base64Encode, S!Pad
<1> HIDE DEF e
<1>2. \A c \in 1 .. 4 : /\ 4 * q + c \in 1 .. 4 * ((n + 2) \div 3)
                        /\ ((4 * q + c) - 1) \div 4 = q /\ ((4 * q + c) - 1) % 4 = c - 1
  <2>1. ASSUME NEW c \in 1 .. 4 PROVE 4 * q + c \in 1 .. 4 * ((n + 2) \div 3)
    BY <1>0, SMTT(30)
  <2>2. ASSUME NEW c \in 1 .. 4
        PROVE ((4 * q + c) - 1) \div 4 = q /\ ((4 * q + c) - 1) % 4 = c - 1
    OBVIOUS
  <2>3. QED
    BY <2>1, <2>2
<1>3. \A c \in 1 .. 4 : e[4 * q + c] = Digit((4 * q + c) - 1)
  <2> HIDE DEF Digit
  <2>1. QED
    BY <1>1, <1>2
<1>4. In(3 * q + 1) = x /\ In((3 * q + 1) + 1) = y /\ In((3 * q + 1) + 2) = z
  BY <1>0 DEF ByteAt
<1> HIDE DEF In, First, Second, Third, Fourth
<1>5. e[4 * q + 1] = First(3 * q + 1)
  <2>1. PICK k \in Nat : k = (4 * q + 1) - 1 /\ k \div 4 = q /\ k % 4 = 0
    BY <1>2
  <2>2. k % 4 # 1 /\ k % 4 # 2 /\ k % 4 # 3
    BY <2>1
  <2>3. Digit(k) = First(3 * q + 1)
    BY <2>1, <2>2, Zenon
  <2> HIDE DEF Digit
  <2>4. QED
    BY <1>3, <2>1, <2>3
<1>6. e[4 * q + 2] = Second(3 * q + 1)
  <2>1. PICK k \in Nat : k = (4 * q + 2) - 1 /\ k \div 4 = q /\ k % 4 = 1
    BY <1>2
  <2>2. k % 4 # 0 /\ k % 4 # 2 /\ k % 4 # 3
    BY <2>1
  <2>3. Digit(k) = Second(3 * q + 1)
    BY <2>1, <2>2, Zenon
  <2> HIDE DEF Digit
  <2>4. QED
    BY <1>3, <2>1, <2>3
<1>7. e[4 * q + 3] = Third(3 * q + 1)
  <2>1. PICK k \in Nat : k = (4 * q + 3) - 1 /\ k \div 4 = q /\ k % 4 = 2
    BY <1>2
  <2>2. k % 4 # 0 /\ k % 4 # 1 /\ k % 4 # 3
    BY <2>1
  <2>3. Digit(k) = Third(3 * q + 1)
    BY <2>1, <2>2, Zenon
  <2> HIDE DEF Digit
  <2>4. QED
    BY <1>3, <2>1, <2>3
<1>8. e[4 * q + 4] = Fourth(3 * q + 1)
  <2>1. PICK k \in Nat : k = (4 * q + 4) - 1 /\ k \div 4 = q /\ k % 4 = 3
    BY <1>2
  <2>2. k % 4 # 0 /\ k % 4 # 1 /\ k % 4 # 2
    BY <2>1
  <2>3. Digit(k) = Fourth(3 * q + 1)
    BY <2>1, <2>2, Zenon
  <2> HIDE DEF Digit
  <2>4. QED
    BY <1>3, <2>1, <2>3
<1>9. (3 * q + 1) + 1 = 3 * q + 2 /\ (3 * q + 1) + 2 = 3 * q + 3
  OBVIOUS
<1>10. /\ e[4 * q + 1] = x \div 4
       /\ e[4 * q + 2] = ((x % 4) * 16) + (y \div 16)
       /\ e[4 * q + 3] = IF 3 * q + 2 > Len(b) THEN 64 ELSE ((y % 16) * 4) + (z \div 64)
       /\ e[4 * q + 4] = IF 3 * q + 3 > Len(b) THEN 64 ELSE z % 64
  BY <1>0, <1>4, <1>5, <1>6, <1>7, <1>8, <1>9 DEF First, Second, Third, Fourth
<1>11. QED
  BY <1>10 DEF e

\* No character of an encoding is a blank; '=' is 64.
LEMMA EncodedType ==
    ASSUME NEW b \in Seq(0 .. 255)
    PROVE  /\ S!Base64Encode(b) \in Seq(0 .. 64)
           /\ Len(S!Base64Encode(b)) = 4 * ((Len(b) + 2) \div 3)
<1>0. PICK n \in Nat : n = Len(b) /\ DOMAIN b = 1 .. n
  BY LenProperties
<1> DEFINE e == S!Base64Encode(b)
           m == 4 * ((n + 2) \div 3)
<1>1. DOMAIN e = 1 .. m /\ e = [k \in 1 .. m |-> e[k]]
  BY <1>0 DEF S!Base64Encode
<1>2. ASSUME NEW k \in 1 .. m PROVE e[k] \in 0 .. 64
  <2>1. PICK q \in Nat, c \in 1 .. 4 : k = 4 * q + c /\ 3 * q < n
    <3>0. PICK r \in Nat : n + 2 = 3 * r + ((n + 2) % 3) /\ (n + 2) % 3 \in 0 .. 2 /\ m = 4 * r
      BY <1>0
    <3>1. PICK j \in Nat : k = j + 1 /\ j < 4 * r
      BY <3>0
    <3>2. PICK q \in Nat : q = j \div 4
      BY <3>1
    <3>3. PICK d \in 0 .. 3 : d = j % 4
      BY <3>1
    <3>4. j = 4 * (j \div 4) + (j % 4)
      BY <3>1
    <3>5. j = 4 * q + d
      BY <3>2, <3>3, <3>4
    <3>6. k = 4 * q + (d + 1) /\ d + 1 \in 1 .. 4 /\ q < r
      BY <3>1, <3>5
    <3>7. 3 * q < n
      BY <1>0, <3>0, <3>6
    <3>8. QED
      BY <3>6, <3>7
  <2> DEFINE x == ByteAt(b, 3 * q + 1)
             y == ByteAt(b, 3 * q + 2)
             z == ByteAt(b, 3 * q + 3)
  <2>2. \A i \in Nat \ {0} : ByteAt(b, i) \in 0 .. 255
    <3>1. \A i \in 1 .. n : b[i] \in 0 .. 255
      BY <1>0, ElementOfSeq
    <3>2. QED
      BY <1>0, <3>1 DEF ByteAt
  <2>3. /\ e[4 * q + 1] = x \div 4
        /\ e[4 * q + 2] = ((x % 4) * 16) + (y \div 16)
        /\ e[4 * q + 3] = IF 3 * q + 2 > Len(b) THEN 64 ELSE ((y % 16) * 4) + (z \div 64)
        /\ e[4 * q + 4] = IF 3 * q + 3 > Len(b) THEN 64 ELSE z % 64
    BY <1>0, <2>1, EncodedDigits
  <2>4. x \in 0 .. 255 /\ y \in 0 .. 255 /\ z \in 0 .. 255
    BY <2>1, <2>2, SMTT(30)
  <2> HIDE DEF e, x, y, z
  <2>5. x \div 4 \in 0 .. 64 /\ ((x % 4) * 16) + (y \div 16) \in 0 .. 64
        /\ ((y % 16) * 4) + (z \div 64) \in 0 .. 64 /\ z % 64 \in 0 .. 64 /\ 64 \in 0 .. 64
    BY <2>4
  <2>6. e[4 * q + 1] \in 0 .. 64 /\ e[4 * q + 2] \in 0 .. 64
    BY <2>3, <2>5
  <2>7. e[4 * q + 3] \in 0 .. 64 /\ e[4 * q + 4] \in 0 .. 64
    <3>1. QED
      BY <2>3, <2>5, Zenon
  <2>8. c = 1 \/ c = 2 \/ c = 3 \/ c = 4
    BY <2>1
  <2>9. QED
    BY <2>1, <2>6, <2>7, <2>8
<1>3. m \in Nat
  BY <1>0
<1>4. e \in [1 .. m -> 0 .. 64]
  <2> HIDE DEF e, m
  <2>1. QED
    BY <1>1, <1>2
<1> HIDE DEF e, m
<1>5. e \in Seq(0 .. 64) /\ Len(e) = m
  BY <1>3, <1>4, LenProperties
<1>6. QED
  BY <1>0, <1>5 DEF e, m

\* Where the last character that is no blank is, and where the first.
LEMMA LastIs ==
    ASSUME NEW s \in Seq(0 .. 65), NEW i \in 1 .. Len(s), s[i] # 65,
           \A k \in i + 1 .. Len(s) : s[k] = 65
    PROVE  S!LastNotOf(s, {65}) = i
<1> DEFINE p == {k \in DOMAIN s : s[k] \notin {65}}
<1>1. DOMAIN s = 1 .. Len(s) /\ Len(s) \in Nat
  BY LenProperties
<1>2. i \in p /\ \A k \in p : k <= i
  BY <1>1
<1>3. p \subseteq Nat /\ p # {}
  BY <1>1, <1>2
<1>4. S!LastNotOf(s, {65}) = IF p = {} THEN 0 ELSE S!Max(p)
  BY DEF S!LastNotOf
<1> HIDE DEF p
<1>5. S!Max(p) \in p /\ S!Max(p) >= i
  BY <1>2, <1>3 DEF S!Max
<1>6. S!Max(p) \in Nat /\ S!Max(p) <= i
  BY <1>2, <1>3, <1>5
<1>7. S!Max(p) = i
  BY <1>1, <1>5, <1>6
<1>8. QED
  BY <1>3, <1>4, <1>7

LEMMA FirstIs ==
    ASSUME NEW s \in Seq(0 .. 65), NEW i \in 1 .. Len(s), s[i] # 65,
           \A k \in 1 .. i - 1 : s[k] = 65
    PROVE  S!FirstNotOf(s, {65}) = i
<1> DEFINE p == {k \in DOMAIN s : s[k] \notin {65}}
<1>1. DOMAIN s = 1 .. Len(s) /\ Len(s) \in Nat
  BY LenProperties
<1>2. i \in p /\ \A k \in p : k >= i
  BY <1>1
<1>3. p \subseteq Nat /\ p # {}
  BY <1>1, <1>2
<1>4. S!FirstNotOf(s, {65}) = IF p = {} THEN 0 ELSE S!Min(p)
  BY DEF S!FirstNotOf
<1> HIDE DEF p
<1>5. S!Min(p) \in p /\ S!Min(p) <= i
  BY <1>2, <1>3 DEF S!Min
<1>6. S!Min(p) \in Nat /\ S!Min(p) >= i
  BY <1>2, <1>3, <1>5
<1>7. S!Min(p) = i
  BY <1>1, <1>5, <1>6
<1>8. QED
  BY <1>3, <1>4, <1>7

LEMMA NoneIs ==
    ASSUME NEW s \in Seq(0 .. 65), \A k \in 1 .. Len(s) : s[k] = 65
    PROVE  S!LastNotOf(s, {65}) = 0 /\ S!FirstNotOf(s, {65}) = 0
<1>1. DOMAIN s = 1 .. Len(s)
  BY LenProperties
<1>2. {k \in DOMAIN s : s[k] \notin {65}} = {}
  BY <1>1
<1>3. QED
  BY <1>2 DEF S!LastNotOf, S!FirstNotOf

\* Trim takes the blanks off a text that has none inside, on whichever side they are.
LEMMA TrimTakes ==
    ASSUME NEW s \in Seq(0 .. 65), NEW l \in 0 .. Len(s), NEW r \in l .. Len(s),
           \A k \in 1 .. Len(s) : s[k] = 65 <=> k \notin l + 1 .. r,
           l = 0 \/ r = Len(s)
    PROVE  S!Trim(s, {65}).text = SubSeq(s, l + 1, r)
<1>0. PICK n \in Nat : n = Len(s)
  BY LenProperties
<1>1. CASE l = r /\ n > 0
  <2>1. S!LastNotOf(s, {65}) = 0
    BY <1>1, NoneIs
  <2>2. S!TrimRight(s, {65}) = [ret |-> TRUE, text |-> SubSeq(s, 1, 0)]
    <3>1. 0 # Len(s)
      BY <1>0, <1>1
    <3>2. QED
      BY <2>1, <3>1, Zenon DEF S!TrimRight
  <2>3. S!Trim(s, {65}).text = SubSeq(s, 1, 0)
    BY <2>2 DEF S!Trim
  <2>4. SubSeq(s, 1, 0) = <<>> /\ SubSeq(s, l + 1, r) = <<>>
    BY <1>0, <1>1, SubSeqProperties
  <2>5. QED
    BY <2>3, <2>4
<1>2. CASE n = 0
  <2>1. l = 0 /\ r = 0 /\ s = <<>>
    <3>1. s = <<>>
      BY <1>0, <1>2, EmptySeq, Zenon
    <3>2. QED
      BY <1>0, <1>2, <3>1
  <2>2. S!LastNotOf(s, {65}) = 0 /\ S!FirstNotOf(s, {65}) = 0
    <3>1. \A k \in 1 .. Len(s) : s[k] = 65
      BY <1>0, <1>2
    <3>2. QED
      BY <3>1, NoneIs
  <2>3. S!TrimRight(s, {65}) = [ret |-> FALSE, text |-> s]
    BY <1>0, <1>2, <2>2 DEF S!TrimRight
  <2>4. S!TrimLeft(s, {65}).text = <<>>
    <3>1. 0 # 1
      OBVIOUS
    <3>2. S!TrimLeft(s, {65}) = [ret |-> TRUE, text |-> <<>>]
      BY <2>2, <3>1, Zenon DEF S!TrimLeft
    <3>3. QED
      BY <3>2
  <2>5. S!Trim(s, {65}).text = <<>>
    BY <2>3, <2>4 DEF S!Trim
  <2>6. SubSeq(s, l + 1, r) = <<>>
    BY <1>0, <2>1, SubSeqProperties
  <2>7. QED
    BY <2>5, <2>6
<1>3. CASE l < r /\ r < n
  <2>1. S!LastNotOf(s, {65}) = r /\ l = 0
    BY <1>0, <1>3, LastIs
  <2>2. S!TrimRight(s, {65}) = [ret |-> TRUE, text |-> SubSeq(s, 1, r)]
    <3>1. r # Len(s)
      BY <1>0, <1>3
    <3>2. QED
      BY <2>1, <3>1, Zenon DEF S!TrimRight
  <2>3. QED
    BY <2>1, <2>2 DEF S!Trim
<1>4. CASE l < r /\ r = n
  <2>1. S!LastNotOf(s, {65}) = n
    BY <1>0, <1>4, LastIs
  <2>2. S!TrimRight(s, {65}) = [ret |-> FALSE, text |-> s]
    BY <1>0, <2>1 DEF S!TrimRight
  <2>3. S!Trim(s, {65}) = S!TrimLeft(s, {65})
    BY <2>2 DEF S!Trim
  <2>4. S!FirstNotOf(s, {65}) = l + 1
    BY <1>0, <1>4, FirstIs
  <2>5. CASE l = 0
    <3>1. S!FirstNotOf(s, {65}) = 1 /\ 1 # 0
      BY <2>4, <2>5
    <3>2. S!TrimLeft(s, {65}) = [ret |-> FALSE, text |-> s]
      BY <3>1, Zenon DEF S!TrimLeft
    <3>3. SubSeq(s, 1, n) = s
      BY <1>0, SubSeqProperties, SeqEqual
    <3>4. QED
      BY <1>4, <2>3, <2>5, <3>2, <3>3
  <2>6. CASE l # 0
    <3>1. l + 1 # 0 /\ l + 1 # 1
      BY <2>6
    <3>2. S!TrimLeft(s, {65}) = [ret |-> TRUE, text |-> SubSeq(s, l + 1, Len(s))]
      BY <2>4, <3>1, Zenon DEF S!TrimLeft
    <3>3. QED
      BY <1>0, <1>4, <2>3, <3>2
  <2>7. QED
    BY <2>5, <2>6
<1>5. QED
  BY <1>0, <1>1, <1>2, <1>3, <1>4

\* Base64Decode sees the encoding, wherever the blank is.
LEMMA TrimWritten ==
    ASSUME NEW e \in Seq(0 .. 64), NEW l \in 0 .. 1, NEW r \in 0 .. 1, l + r # 2
    PROVE  S!Trim(S!Blanks(l) \o e \o S!Blanks(r), {65}).text = e
<1>0. PICK n \in Nat : n = Len(e) /\ DOMAIN e = 1 .. n
  BY LenProperties
<1>1. ASSUME NEW k \in 0 .. 1
      PROVE S!Blanks(k) \in Seq(0 .. 65) /\ Len(S!Blanks(k)) = k /\ \A i \in 1 .. k : S!Blanks(k)[i] = 65
  <2>1. S!Blanks(k) \in [1 .. k -> 0 .. 65]
    BY DEF S!Blanks, S!Blank
  <2>2. QED
    BY <2>1, LenProperties DEF S!Blanks, S!Blank
<1>2. e \in Seq(0 .. 65)
  BY <1>0, ElementOfSeq, SeqDef
<1> DEFINE x == S!Blanks(l)
           y == S!Blanks(r)
           s == x \o e \o y
<1>3. x \in Seq(0 .. 65) /\ Len(x) = l /\ \A i \in 1 .. l : x[i] = 65
  BY <1>1
<1>4. y \in Seq(0 .. 65) /\ Len(y) = r /\ \A i \in 1 .. r : y[i] = 65
  BY <1>1
<1> HIDE DEF x, y
<1>5. s \in Seq(0 .. 65) /\ Len(s) = l + n + r
  BY <1>0, <1>2, <1>3, <1>4
<1>6. \A i \in 1 .. Len(s) : s[i] = IF i <= l THEN x[i] ELSE IF i <= l + n THEN e[i - l] ELSE y[i - l - n]
  BY <1>0, <1>2, <1>3, <1>4, SMTT(30)
<1>7. \A i \in 1 .. n : e[i] # 65
  <2>1. ASSUME NEW i \in 1 .. n PROVE e[i] # 65
    <3>1. e[i] \in 0 .. 64
      BY <1>0, ElementOfSeq
    <3>2. \A v \in 0 .. 64 : v # 65
      OBVIOUS
    <3>3. QED
      BY <3>1, <3>2, Zenon
  <2>2. QED
    BY <2>1
<1> HIDE DEF s
<1>8. \A i \in 1 .. Len(s) : s[i] = 65 <=> i \notin l + 1 .. l + n
  BY <1>0, <1>3, <1>4, <1>5, <1>6, <1>7
<1>9. S!Trim(s, {65}).text = SubSeq(s, l + 1, l + n)
  <2>1. l \in 0 .. Len(s) /\ l + n \in l .. Len(s) /\ (l = 0 \/ l + n = Len(s))
    BY <1>0, <1>5
  <2>2. PICK k \in l .. Len(s) : k = l + n
    BY <2>1
  <2>3. \A i \in 1 .. Len(s) : s[i] = 65 <=> i \notin l + 1 .. k
    BY <1>8, <2>2
  <2>4. l \in 0 .. Len(s) /\ k \in l .. Len(s) /\ (l = 0 \/ k = Len(s))
    BY <2>1, <2>2
  <2>5. S!Trim(s, {65}).text = SubSeq(s, l + 1, k)
    <3>1. \A l1 \in 0 .. Len(s) : \A r1 \in l1 .. Len(s) :
            /\ \A i \in 1 .. Len(s) : s[i] = 65 <=> i \notin l1 + 1 .. r1
            /\ l1 = 0 \/ r1 = Len(s)
            => S!Trim(s, {65}).text = SubSeq(s, l1 + 1, r1)
      <4>1. s \in Seq(0 .. 65)
        BY <1>5
      <4>2. QED
        BY <4>1, TrimTakes
    <3>2. QED
      BY <2>3, <2>4, <3>1
  <2>6. QED
    BY <2>2, <2>5
<1>10. SubSeq(s, l + 1, l + n) = e
  <2>1. /\ SubSeq(s, l + 1, l + n) \in Seq(0 .. 65)
        /\ Len(SubSeq(s, l + 1, l + n)) = n
        /\ \A i \in 1 .. n : SubSeq(s, l + 1, l + n)[i] = s[l + i]
    <3>1. \A i \in 1 .. Len(s) : s[i] \in 0 .. 65
      BY <1>5, ElementOfSeq
    <3>2. PICK p \in Int, q \in Int : p = l + 1 /\ q = l + n
      BY <1>0
    <3>3. \A i \in p .. q : s[i] \in 0 .. 65
      <4>1. p .. q \subseteq 1 .. Len(s)
        BY <1>0, <1>5, <3>2
      <4>2. QED
        BY <3>1, <4>1
    <3>4. /\ SubSeq(s, p, q) \in Seq(0 .. 65)
          /\ Len(SubSeq(s, p, q)) = IF p <= q THEN q - p + 1 ELSE 0
          /\ \A i \in 1 .. q - p + 1 : SubSeq(s, p, q)[i] = s[p + i - 1]
      BY <3>3, SubSeqProperties
    <3>5. (IF p <= q THEN q - p + 1 ELSE 0) = n /\ q - p + 1 = n
          /\ \A i \in 1 .. n : p + i - 1 = l + i
      BY <1>0, <3>2
    <3>6. QED
      BY <3>2, <3>4, <3>5
  <2>2. \A i \in 1 .. n : s[l + i] = e[i]
    BY <1>0, <1>5, <1>6
  <2>3. QED
    BY <1>0, <1>2, <2>1, <2>2, SeqEqual
<1>11. QED
  BY <1>9, <1>10 DEF s, x, y

\* What is left of a sequence begins with its next element.
LEMMA PieceHead ==
    ASSUME NEW E, NEW s \in Seq(E), NEW a \in Nat, a < Len(s)
    PROVE  SubSeq(s, a + 1, Len(s)) = <<s[a + 1]>> \o SubSeq(s, (a + 1) + 1, Len(s))
<1>0. PICK n \in Nat : n = Len(s) /\ a + 1 \in 1 .. n /\ s[a + 1] \in E
  BY LenProperties, ElementOfSeq
<1> DEFINE t == SubSeq(s, a + 1, n)
           u == SubSeq(s, (a + 1) + 1, n)
<1>1. t \in Seq(E) /\ Len(t) = n - a /\ \A i \in 1 .. n - a : t[i] = s[a + i]
  BY <1>0, PieceType
<1>2. u \in Seq(E) /\ Len(u) = n - (a + 1) /\ \A i \in 1 .. n - (a + 1) : u[i] = s[(a + 1) + i]
  BY <1>0, PieceType
<1> HIDE DEF t, u
<1>3. PICK w \in Seq(E) : w = <<s[a + 1]>> /\ Len(w) = 1 /\ w[1] = s[a + 1]
  <2>1. PICK c \in E : c = s[a + 1]
    BY <1>0
  <2>2. <<c>> \in Seq(E) /\ Len(<<c>>) = 1 /\ <<c>>[1] = c
    OBVIOUS
  <2>3. QED
    BY <2>1, <2>2
<1>4. PICK v \in Seq(E) :
         /\ v = w \o u /\ Len(v) = 1 + (n - (a + 1))
         /\ \A i \in 1 .. 1 + (n - (a + 1)) : v[i] = IF i <= 1 THEN w[i] ELSE u[i - 1]
  <2>0. u \in Seq(E)
    BY <1>2
  <2>1. /\ w \o u \in Seq(E) /\ Len(w \o u) = Len(w) + Len(u)
        /\ \A i \in 1 .. Len(w) + Len(u) :
              (w \o u)[i] = IF i <= Len(w) THEN w[i] ELSE u[i - Len(w)]
    BY <2>0, ConcatProperties, Zenon
  <2>2. QED
    BY <1>2, <1>3, <2>1
<1>5. Len(v) = n - a
  BY <1>0, <1>4
<1>6. \A i \in 1 .. n - a : v[i] = s[a + i]
  <2>1. ASSUME NEW i \in 1 .. n - a, i = 1 PROVE v[i] = s[a + i]
    BY <1>0, <1>3, <1>4, <2>1
  <2>2. ASSUME NEW i \in 1 .. n - a, i # 1 PROVE v[i] = s[a + i]
    <3>1. i - 1 \in 1 .. n - (a + 1) /\ (a + 1) + (i - 1) = a + i
      BY <1>0, <2>2
    <3>2. v[i] = u[i - 1]
      BY <1>0, <1>4, <2>2
    <3>3. QED
      BY <1>2, <3>1, <3>2
  <2>3. QED
    BY <2>1, <2>2
<1>7. t = v
  <2>1. Len(t) = Len(v) /\ Len(t) = n - a /\ \A i \in 1 .. n - a : t[i] = v[i]
    BY <1>0, <1>1, <1>5, <1>6
  <2>2. \A i \in 1 .. Len(t) : t[i] = v[i]
    BY <2>1, Zenon
  <2>3. QED
    BY <1>1, <1>4, <2>1, <2>2, SeqEqual, Zenon
<1>8. QED
  BY <1>0, <1>3, <1>4, <1>7 DEF t, u

\* Less than a divisor is its own rest.
LEMMA SmallRest == \A c \in 0 .. 15 : c % 16 = c
OBVIOUS

\* Three texts of bytes are joined in either order, and so are four.
LEMMA AssociativeOctets ==
    \A f \in Seq(0 .. 255) : \A g \in Seq(0 .. 255) : \A h \in Seq(0 .. 255) :
       (f \o g) \o h = f \o (g \o h)
<1>1. TAKE f \in Seq(0 .. 255)
<1>2. TAKE g \in Seq(0 .. 255)
<1>3. TAKE h \in Seq(0 .. 255)
<1>4. QED
  BY Associative

LEMMA FourTexts ==
    ASSUME NEW s1 \in Seq(0 .. 255), NEW s2 \in Seq(0 .. 255),
           NEW s3 \in Seq(0 .. 255), NEW s4 \in Seq(0 .. 255)
    PROVE  s1 \o s2 \o s3 \o s4 = s1 \o (s2 \o (s3 \o s4))
<1>1. s1 \o s2 \in Seq(0 .. 255) /\ s3 \o s4 \in Seq(0 .. 255)
  <2>0. \A f \in Seq(0 .. 255) : \A g \in Seq(0 .. 255) : f \o g \in Seq(0 .. 255)
    BY ConcatProperties, Zenon
  <2>1. \A g \in Seq(0 .. 255) : s1 \o g \in Seq(0 .. 255)
    BY <2>0, Zenon
  <2>2. \A g \in Seq(0 .. 255) : s3 \o g \in Seq(0 .. 255)
    BY <2>0, Zenon
  <2>3. QED
    BY <2>1, <2>2, Zenon
<1>2. ((s1 \o s2) \o s3) \o s4 = (s1 \o s2) \o (s3 \o s4)
  <2>1. \A g \in Seq(0 .. 255) : \A h \in Seq(0 .. 255) :
           ((s1 \o s2) \o g) \o h = (s1 \o s2) \o (g \o h)
    BY <1>1, AssociativeOctets, Zenon
  <2>2. \A h \in Seq(0 .. 255) : ((s1 \o s2) \o s3) \o h = (s1 \o s2) \o (s3 \o h)
    BY <2>1, Zenon
  <2>3. QED
    BY <2>2, Zenon
<1>3. (s1 \o s2) \o (s3 \o s4) = s1 \o (s2 \o (s3 \o s4))
  <2>1. \A g \in Seq(0 .. 255) : \A h \in Seq(0 .. 255) : (s1 \o g) \o h = s1 \o (g \o h)
    BY AssociativeOctets, Zenon
  <2>2. \A h \in Seq(0 .. 255) : (s1 \o s2) \o h = s1 \o (s2 \o h)
    BY <2>1, Zenon
  <2>3. QED
    BY <1>1, <2>2, Zenon
<1>4. QED
  BY <1>2, <1>3, Zenon

LEMMA FourTextsIn ==
    \A f \in Seq(0 .. 255) : \A g \in Seq(0 .. 255) :
    \A h \in Seq(0 .. 255) : \A k \in Seq(0 .. 255) :
       f \o g \o h \o k = f \o (g \o (h \o k))
BY FourTexts, Zenon

\* A round decodes what was written for three bytes, or for those that were left.
LEMMA RoundDecodes ==
    ASSUME NEW b \in Seq(0 .. 255), NEW q \in Nat, 3 * q < Len(b)
    PROVE  S!Round(S!Base64Encode(b), 4 * q + 1, SubSeq(b, 3 * (q + 1) + 1, Len(b)))
             = SubSeq(b, 3 * q + 1, Len(b))
<1>0. PICK n \in Nat : n = Len(b)
  BY LenProperties
<1> DEFINE e == S!Base64Encode(b)
           after == SubSeq(b, 3 * (q + 1) + 1, n)
<1>1. \A i \in Nat \ {0} : ByteAt(b, i) \in 0 .. 255
  <2>1. \A i \in 1 .. n : b[i] \in 0 .. 255
    BY <1>0, ElementOfSeq
  <2>2. QED
    BY <1>0, <2>1 DEF ByteAt
<1>2. PICK x, y, z \in 0 .. 255 :
         x = ByteAt(b, 3 * q + 1) /\ y = ByteAt(b, 3 * q + 2) /\ z = ByteAt(b, 3 * q + 3)
  <2>1. 3 * q + 1 \in Nat \ {0} /\ 3 * q + 2 \in Nat \ {0} /\ 3 * q + 3 \in Nat \ {0}
    OBVIOUS
  <2>2. QED
    BY <1>1, <2>1, Zenon
<1>3. /\ e[4 * q + 1] = x \div 4
      /\ e[4 * q + 2] = ((x % 4) * 16) + (y \div 16)
      /\ e[4 * q + 3] = IF 3 * q + 2 > Len(b) THEN 64 ELSE ((y % 16) * 4) + (z \div 64)
      /\ e[4 * q + 4] = IF 3 * q + 3 > Len(b) THEN 64 ELSE z % 64
  <2> HIDE DEF e
  <2>1. LET f == ByteAt(b, 3 * q + 1)
            g == ByteAt(b, 3 * q + 2)
            h == ByteAt(b, 3 * q + 3)
        IN /\ e[4 * q + 1] = f \div 4
           /\ e[4 * q + 2] = ((f % 4) * 16) + (g \div 16)
           /\ e[4 * q + 3] = IF 3 * q + 2 > Len(b) THEN 64 ELSE ((g % 16) * 4) + (h \div 64)
           /\ e[4 * q + 4] = IF 3 * q + 3 > Len(b) THEN 64 ELSE h % 64
    BY EncodedDigits DEF e
  <2>2. QED
    BY <1>2, <2>1, Zenon
<1>4. Len(e) \in Nat /\ (4 * q + 1) + 3 <= Len(e)
  BY <1>0, EncodedType
<1> HIDE DEF e, after
<1> DEFINE v1 == S!Value(e, 4 * q + 1)
           v2 == S!Value(e, (4 * q + 1) + 1)
           v3 == S!Value(e, (4 * q + 1) + 2)
           v4 == S!Value(e, (4 * q + 1) + 3)
           A == ((v1 * 4) % 256) + ((v2 \div 16) % 4)
           B == ((v2 % 16) * 16) + ((v3 \div 4) % 16)
           C == IF v4 = 255 THEN 255 ELSE (v3 % 4) * 64 + v4
<1>5. S!Round(e, 4 * q + 1, after) =
        IF e[(4 * q + 1) + 2] = 64 THEN <<A>>
        ELSE IF e[(4 * q + 1) + 3] = 64 THEN <<A>> \o <<B>>
        ELSE <<A>> \o <<B>> \o <<C>> \o after
  <2>1. ~((4 * q + 1) + 2 > Len(e)) /\ ~((4 * q + 1) + 3 > Len(e))
    BY <1>4
  <2>2. QED
    BY <2>1, ZenonT(30) DEF S!Round, S!Pad, S!Invalid
<1> HIDE DEF v1, v2, v3, v4
<1>30. /\ (((x \div 4) * 4) % 256) + (((((x % 4) * 16) + (y \div 16)) \div 16) % 4) = x
       /\ (((((x % 4) * 16) + (y \div 16)) % 16) * 16)
             + (((((y % 16) * 4) + (z \div 64)) \div 4) % 16) = y
       /\ ((((y % 16) * 4) + (z \div 64)) % 4) * 64 + (z % 64) = z
       /\ x \div 4 < 64 /\ ((x % 4) * 16) + (y \div 16) < 64
       /\ ((y % 16) * 4) + (z \div 64) < 64 /\ z % 64 < 64
  <2>1. PICK p \in 0 .. 63, a \in 0 .. 3 : x = 4 * p + a /\ x \div 4 = p /\ x % 4 = a
    OBVIOUS
  <2>2. PICK g \in 0 .. 15, c \in 0 .. 15 : y = 16 * g + c /\ y \div 16 = g /\ y % 16 = c
    OBVIOUS
  <2>3. PICK r \in 0 .. 3, d \in 0 .. 63 : z = 64 * r + d /\ z \div 64 = r /\ z % 64 = d
    OBVIOUS
  <2>4. (p * 4) % 256 = 4 * p /\ a % 4 = a
    OBVIOUS
  <2>5. ((a * 16) + g) \div 16 = a /\ ((a * 16) + g) % 16 = g
    <3>1. PICK v \in Nat : v = (a * 16) + g
      OBVIOUS
    <3>2. v = 16 * (v \div 16) + (v % 16) /\ v % 16 \in 0 .. 15 /\ v \div 16 \in Int
      OBVIOUS
    <3>3. v \div 16 = a
      BY <3>1, <3>2
    <3>4. v % 16 = g
      BY <3>1, <3>2, <3>3
    <3>5. QED
      BY <3>1, <3>3, <3>4
  <2>6. ((c * 4) + r) \div 4 = c /\ ((c * 4) + r) % 4 = r /\ c % 16 = c
    <3>1. PICK v \in Nat : v = (c * 4) + r
      OBVIOUS
    <3>2. v = 4 * (v \div 4) + (v % 4) /\ v % 4 \in 0 .. 3 /\ v \div 4 \in Int
      OBVIOUS
    <3>3. v \div 4 = c
      BY <3>1, <3>2
    <3>4. v % 4 = r
      BY <3>1, <3>2, <3>3
    <3>5. c % 16 = c
      BY SmallRest
    <3>6. QED
      BY <3>1, <3>3, <3>4, <3>5
  <2>7. (((x \div 4) * 4) % 256) + (((((x % 4) * 16) + (y \div 16)) \div 16) % 4) = x
    <3>1. ((p * 4) % 256) + ((((a * 16) + g) \div 16) % 4) = 4 * p + a
      BY <2>4, <2>5
    <3>2. QED
      BY <2>1, <2>2, <3>1
  <2>8. (((((x % 4) * 16) + (y \div 16)) % 16) * 16)
          + (((((y % 16) * 4) + (z \div 64)) \div 4) % 16) = y
    <3>1. ((((a * 16) + g) % 16) * 16) + ((((c * 4) + r) \div 4) % 16) = 16 * g + c
      BY <2>5, <2>6
    <3>2. QED
      BY <2>1, <2>2, <2>3, <3>1
  <2>9. ((((y % 16) * 4) + (z \div 64)) % 4) * 64 + (z % 64) = z
    <3>1. (((c * 4) + r) % 4) * 64 + d = 64 * r + d
      BY <2>6
    <3>2. QED
      BY <2>2, <2>3, <3>1
  <2>10. /\ x \div 4 < 64 /\ ((x % 4) * 16) + (y \div 16) < 64
         /\ ((y % 16) * 4) + (z \div 64) < 64 /\ z % 64 < 64
    BY <2>1, <2>2, <2>3
  <2>11. QED
    BY <2>7, <2>8, <2>9, <2>10
<1>6. v1 = x \div 4 /\ v2 = ((x % 4) * 16) + (y \div 16)
  <2>1. (4 * q + 1) + 1 = 4 * q + 2 /\ 4 * q + 1 <= Len(e) /\ 4 * q + 2 <= Len(e)
    BY <1>4
  <2>2. e[4 * q + 1] < 64 /\ e[4 * q + 2] < 64
    BY <1>3, <1>30
  <2>3. QED
    BY <1>3, <2>1, <2>2 DEF v1, v2, S!Value
<1>7. n >= 3 * q + 2 => v3 = ((y % 16) * 4) + (z \div 64) /\ e[(4 * q + 1) + 2] # 64
  <2>1. (4 * q + 1) + 2 = 4 * q + 3 /\ 4 * q + 3 <= Len(e)
    BY <1>4
  <2>2. n >= 3 * q + 2 => e[4 * q + 3] = ((y % 16) * 4) + (z \div 64)
    BY <1>0, <1>3
  <2>3. ((y % 16) * 4) + (z \div 64) < 64 /\ ((y % 16) * 4) + (z \div 64) # 64
    BY <1>30
  <2>4. QED
    BY <2>1, <2>2, <2>3 DEF v3, v4, S!Value
<1>8. n >= 3 * q + 3 => v4 = z % 64 /\ e[(4 * q + 1) + 3] # 64 /\ v4 # 255
  <2>1. (4 * q + 1) + 3 = 4 * q + 4 /\ 4 * q + 4 <= Len(e)
    BY <1>4
  <2>2. n >= 3 * q + 3 => e[4 * q + 4] = z % 64
    BY <1>0, <1>3
  <2>3. z % 64 < 64 /\ z % 64 # 64 /\ z % 64 # 255
    BY <1>30
  <2>4. QED
    BY <2>1, <2>2, <2>3 DEF v3, v4, S!Value
<1>9. e[(4 * q + 1) + 2] = 64 <=> n < 3 * q + 2
  <2>1. (4 * q + 1) + 2 = 4 * q + 3
    OBVIOUS
  <2>2. QED
    BY <1>0, <1>3, <1>7, <2>1
<1>10. n >= 3 * q + 2 => (e[(4 * q + 1) + 3] = 64 <=> n < 3 * q + 3)
  <2>1. (4 * q + 1) + 3 = 4 * q + 4
    OBVIOUS
  <2>2. QED
    BY <1>0, <1>3, <1>8, <2>1
<1>11. A = x
  BY <1>6, <1>30
<1>12. n >= 3 * q + 2 => B = y
  BY <1>6, <1>7, <1>30
<1>13. n >= 3 * q + 3 => C = z
  <2>1. SUFFICES ASSUME n >= 3 * q + 3 PROVE C = z
    OBVIOUS
  <2>2. v3 = ((y % 16) * 4) + (z \div 64) /\ v4 = z % 64 /\ v4 # 255
    BY <1>7, <1>8, <2>1
  <2>3. C = (v3 % 4) * 64 + v4
    BY <2>2
  <2> HIDE DEF C
  <2>4. QED
    BY <1>30, <2>2, <2>3
<1> HIDE DEF A, B, C
<1> DEFINE P(a) == SubSeq(b, a + 1, n)
<1>14. \A a \in 0 .. n : P(a) \in Seq(0 .. 255)
  <2>1. ASSUME NEW a \in 0 .. n PROVE P(a) \in Seq(0 .. 255)
    <3>1. a \in Nat /\ Len(b) \in a .. Len(b)
      BY <1>0
    <3>2. SubSeq(b, a + 1, Len(b)) \in Seq(0 .. 255)
      BY <3>1, PieceType
    <3>3. QED
      BY <1>0, <3>2
  <2>2. QED
    BY <2>1
<1>15. \A a \in 0 .. n - 1 : P(a) = <<ByteAt(b, a + 1)>> \o P(a + 1)
  <2>1. ASSUME NEW a \in 0 .. n - 1 PROVE P(a) = <<ByteAt(b, a + 1)>> \o P(a + 1)
    <3>1. P(a) = <<b[a + 1]>> \o P(a + 1)
      BY <1>0, PieceHead
    <3>2. ByteAt(b, a + 1) = b[a + 1]
      BY <1>0 DEF ByteAt
    <3>3. QED
      BY <3>1, <3>2
  <2>2. QED
    BY <2>1
<1>16. P(n) = <<>>
  BY <1>0, SubSeqEmpty
<1> HIDE DEF P
<1>17. P(3 * q) = <<x>> \o P(3 * q + 1)
  BY <1>0, <1>2, <1>15
<1>18. n >= 3 * q + 2 => P(3 * q + 1) = <<y>> \o P(3 * q + 2)
  <2>1. (3 * q + 1) + 1 = 3 * q + 2 /\ (n >= 3 * q + 2 => 3 * q + 1 \in 0 .. n - 1)
    OBVIOUS
  <2>2. QED
    BY <1>2, <1>15, <2>1
<1>19. n >= 3 * q + 3 => P(3 * q + 2) = <<z>> \o P(3 * q + 3)
  <2>1. (3 * q + 2) + 1 = 3 * q + 3 /\ (n >= 3 * q + 3 => 3 * q + 2 \in 0 .. n - 1)
    OBVIOUS
  <2>2. QED
    BY <1>2, <1>15, <2>1
<1>20. <<x>> \in Seq(0 .. 255) /\ <<y>> \in Seq(0 .. 255) /\ <<z>> \in Seq(0 .. 255)
  OBVIOUS
<1>21. S!Round(e, 4 * q + 1, after) = P(3 * q)
  <2>1. CASE n = 3 * q + 1
    <3>1. S!Round(e, 4 * q + 1, after) = <<x>>
      BY <1>5, <1>9, <1>11, <2>1
    <3>2. P(3 * q + 1) = <<>>
      BY <1>16, <2>1
    <3>3. <<x>> \o <<>> = <<x>>
      BY <1>20, ConcatEmptySeq
    <3>4. QED
      BY <1>17, <3>1, <3>2, <3>3
  <2>2. CASE n = 3 * q + 2
    <3>1. S!Round(e, 4 * q + 1, after) = <<x>> \o <<y>>
      <4>1. B = y /\ e[(4 * q + 1) + 2] # 64 /\ e[(4 * q + 1) + 3] = 64
        BY <1>9, <1>10, <1>12, <2>2
      <4>2. QED
        BY <1>5, <1>11, <4>1, Zenon
    <3>2. P(3 * q + 2) = <<>>
      BY <1>16, <2>2
    <3>3. <<y>> \o <<>> = <<y>>
      BY <1>20, ConcatEmptySeq
    <3>4. P(3 * q + 1) = <<y>>
      BY <1>18, <2>2, <3>2, <3>3
    <3>5. QED
      BY <1>17, <3>1, <3>4
  <2>3. CASE n >= 3 * q + 3
    <3>1. S!Round(e, 4 * q + 1, after) = <<x>> \o <<y>> \o <<z>> \o after
      <4>1. B = y /\ C = z /\ e[(4 * q + 1) + 2] # 64 /\ e[(4 * q + 1) + 3] # 64
        BY <1>9, <1>10, <1>12, <1>13, <2>3
      <4>2. QED
        BY <1>5, <1>11, <4>1, Zenon
    <3>2. after = P(3 * q + 3)
      BY DEF after, P
    <3>3. P(3 * q + 3) \in Seq(0 .. 255)
      BY <1>14, <2>3
    <3>4. PICK s1, s2, s3, s4 \in Seq(0 .. 255) :
             s1 = <<x>> /\ s2 = <<y>> /\ s3 = <<z>> /\ s4 = P(3 * q + 3)
      BY <1>20, <3>3
    <3>5. s1 \o s2 \o s3 \o s4 = s1 \o (s2 \o (s3 \o s4))
      <4>1. \A g \in Seq(0 .. 255) : \A h \in Seq(0 .. 255) : \A k \in Seq(0 .. 255) :
               s1 \o g \o h \o k = s1 \o (g \o (h \o k))
        BY FourTextsIn, Zenon
      <4>2. \A h \in Seq(0 .. 255) : \A k \in Seq(0 .. 255) :
               s1 \o s2 \o h \o k = s1 \o (s2 \o (h \o k))
        BY <4>1, Zenon
      <4>3. \A k \in Seq(0 .. 255) : s1 \o s2 \o s3 \o k = s1 \o (s2 \o (s3 \o k))
        BY <4>2, Zenon
      <4>4. QED
        BY <4>3, Zenon
    <3>6. P(3 * q) = s1 \o (s2 \o (s3 \o s4))
      <4>1. P(3 * q + 1) = <<y>> \o P(3 * q + 2) /\ P(3 * q + 2) = <<z>> \o P(3 * q + 3)
        BY <1>18, <1>19, <2>3, SMTT(30)
      <4>2. QED
        BY <1>17, <3>4, <4>1, Zenon
    <3>7. S!Round(e, 4 * q + 1, after) = s1 \o s2 \o s3 \o s4
      BY <3>1, <3>2, <3>4, Zenon
    <3>8. QED
      BY <3>5, <3>6, <3>7, Zenon
  <2>4. QED
    BY <1>0, <2>1, <2>2, <2>3
<1>22. QED
  BY <1>0, <1>21 DEF e, after, P

\* The rounds of the loop decode all that was written: the function that DecodeFrom
\* defines by recursion is the one that gives what is left of the bytes.
LEMMA DecodesBack ==
    ASSUME NEW b \in Seq(0 .. 255)
    PROVE  S!DecodeFrom(S!Base64Encode(b)) = b
<1>0. PICK n \in Nat, m \in Nat : n = Len(b) /\ m = (n + 2) \div 3
  BY LenProperties
<1> DEFINE e == S!Base64Encode(b)
           D == 0 .. Len(e) \div 4 + 1
           P(q) == SubSeq(b, 3 * q + 1, n)
           Rec(g) == g = [q \in D |-> IF 4 * q >= Len(e) THEN <<>>
                                      ELSE S!Round(e, 4 * q + 1, g[q + 1])]
           dec == CHOOSE g : Rec(g)
<1>1. S!DecodeFrom(e) = dec[0]
  BY DEF S!DecodeFrom
<1>2. Len(e) = 4 * m /\ Len(e) \div 4 = m
  BY <1>0, EncodedType
<1>3. D = 0 .. m + 1
  BY <1>2
<1>4. \A q \in 0 .. m - 1 : S!Round(e, 4 * q + 1, P(q + 1)) = P(q)
  <2>1. ASSUME NEW q \in 0 .. m - 1
        PROVE  S!Round(e, 4 * q + 1, P(q + 1)) = P(q)
    <3>1. q \in Nat /\ 3 * q < Len(b)
      BY <1>0
    <3>2. QED
      BY <1>0, <3>1, RoundDecodes
  <2>2. QED
    BY <2>1
<1>5. \A q \in m .. m + 1 : P(q) = <<>>
  BY <1>0, SubSeqEmpty
<1>6. P(0) = b
  <2>1. SubSeq(b, 1, Len(b)) = b
    BY <1>0, SubSeqProperties, SeqEqual
  <2>2. 3 * 0 + 1 = 1
    OBVIOUS
  <2>3. QED
    BY <1>0, <2>1, <2>2
<1> HIDE DEF e, P, D
<1>7. \A q \in D : /\ 4 * q >= Len(e) <=> q \in m .. m + 1
                   /\ ~(4 * q >= Len(e)) <=> q \in 0 .. m - 1
                   /\ q \in 0 .. m - 1 => q + 1 \in D
  BY <1>0, <1>2, <1>3
<1>8. Rec(dec)
  <2>1. PICK f : f = [q \in D |-> P(q)]
    OBVIOUS
  <2>2. ASSUME NEW q \in D
        PROVE  P(q) = IF 4 * q >= Len(e) THEN <<>> ELSE S!Round(e, 4 * q + 1, f[q + 1])
    <3>1. CASE 4 * q >= Len(e)
      BY <1>5, <1>7, <2>2, <3>1
    <3>2. CASE ~(4 * q >= Len(e))
      <4>1. q \in 0 .. m - 1 /\ f[q + 1] = P(q + 1)
        BY <1>7, <2>1, <2>2, <3>2
      <4>2. QED
        BY <1>4, <3>2, <4>1, Zenon
    <3>3. QED
      BY <3>1, <3>2
  <2>3. Rec(f)
    BY <2>1, <2>2
  <2>4. QED
    BY <2>3
<1> HIDE DEF dec
<1>9. \A q \in D : dec[q] = IF 4 * q >= Len(e) THEN <<>> ELSE S!Round(e, 4 * q + 1, dec[q + 1])
  BY <1>8
<1> HIDE DEF Rec
<1> DEFINE N == {j \in Nat : j <= m => dec[m - j] = P(m - j)}
<1>10. 0 \in N
  <2>1. m \in D /\ m \in m .. m + 1 /\ m - 0 = m
    BY <1>0, <1>3
  <2>2. dec[m] = <<>> /\ P(m) = <<>>
    BY <1>5, <1>7, <1>9, <2>1
  <2>3. QED
    BY <2>1, <2>2
<1>11. ASSUME NEW j \in N PROVE j + 1 \in N
  <2>1. j \in Nat /\ (j <= m => dec[m - j] = P(m - j))
    OBVIOUS
  <2>2. ASSUME j + 1 <= m PROVE dec[m - (j + 1)] = P(m - (j + 1))
    <3>1. PICK q \in 0 .. m - 1 : q = m - (j + 1) /\ q + 1 = m - j /\ q \in D
      <4>1. m - (j + 1) \in 0 .. m - 1 /\ (m - (j + 1)) + 1 = m - j
        BY <1>0, <2>1, <2>2
      <4>2. 0 .. m - 1 \subseteq D
        BY <1>0, <1>3
      <4>3. QED
        BY <4>1, <4>2
    <3>2. dec[q + 1] = P(q + 1)
      BY <1>0, <2>1, <2>2, <3>1
    <3>3. dec[q] = S!Round(e, 4 * q + 1, dec[q + 1])
      BY <1>7, <1>9, <3>1
    <3>4. QED
      BY <1>4, <3>1, <3>2, <3>3
  <2>3. QED
    BY <2>1, <2>2
<1>12. N = Nat
  <2>1. N \in SUBSET Nat
    OBVIOUS
  <2> HIDE DEF N
  <2>2. QED
    BY <1>10, <1>11, <2>1, Induction
<1>13. dec[0] = P(0)
  <2>1. m \in N /\ m <= m /\ m - m = 0
    <3> HIDE DEF N
    <3>1. QED
      BY <1>0, <1>12
  <2>2. QED
    BY <2>1
<1>14. QED
  BY <1>1, <1>6, <1>13 DEF e

\* A base64 text gives the bytes back, with a blank on one side.
LEMMA Base64Inverts ==
    ASSUME NEW b \in Seq(0 .. 255), NEW l \in 0 .. 1, NEW r \in 0 .. 1, l + r # 2
    PROVE  S!Base64Decode(S!Blanks(l) \o S!Base64Encode(b) \o S!Blanks(r)) = b
<1>1. S!Base64Encode(b) \in Seq(0 .. 64)
  BY EncodedType
<1>2. S!Trim(S!Blanks(l) \o S!Base64Encode(b) \o S!Blanks(r), {65}).text = S!Base64Encode(b)
  BY <1>1, TrimWritten
<1>3. QED
  BY <1>2, DecodesBack DEF S!Base64Decode, S!Blank

\* What Base64Encode allocates is enough for the text and its terminator.
LEMMA Allocated ==
    ASSUME NEW b \in Seq(0 .. 255)
    PROVE  Len(S!Base64Encode(b)) + 1 <= S!ToAlloc(Len(b))
<1>0. PICK n \in Nat : n = Len(b)
  BY LenProperties
<1>1. Len(S!Base64Encode(b)) = 4 * ((n + 2) \div 3)
  BY <1>0, EncodedType
<1>2. PICK k \in Nat, d \in 0 .. 2 : n = 3 * k + d /\ n \div 3 = k /\ n % 3 = d
  OBVIOUS
<1>3. (n + 2) \div 3 = IF d = 0 THEN k ELSE k + 1
  BY <1>2
<1>4. (3 - d) % 3 = IF d = 0 THEN 0 ELSE 3 - d
  BY <1>2
<1>5. QED
  BY <1>0, <1>1, <1>2, <1>3, <1>4 DEF S!ToAlloc

\* What Reply was asked, and that it answered right.
Asked ==
    \/ \E c \in S!Conversions : \E v \in S!ValuesOf(c) :
         called = [op |-> "number", how |-> c, value |-> v]
    \/ \E n \in Nat : \E b \in [1 .. n -> TextBytes], left, right \in 0 .. 1 :
         called = [op |-> "base64", bytes |-> b, left |-> left, right |-> right]

StringsInv == Asked /\ S!ConversionsInvert

LEMMA StringsInit == S!Init => StringsInv
<1>1. SUFFICES ASSUME S!Init PROVE StringsInv
  OBVIOUS
<1>2. answer = <<>>
  BY <1>1 DEF S!Init
<1>3. Asked
  <2>1. 0 .. MaxTextBytes \subseteq Nat
    OBVIOUS
  <2>2. QED
    BY <1>1, <2>1, Zenon DEF S!Init, Asked
<1>4. QED
  BY <1>2, <1>3 DEF StringsInv, S!ConversionsInvert

LEMMA StringsNext == StringsInv /\ S!Reply => StringsInv'
<1>1. SUFFICES ASSUME StringsInv, S!Reply PROVE StringsInv'
  OBVIOUS
<1>2. called' = called /\ Asked'
  BY <1>1 DEF S!Reply, StringsInv, Asked
<1>3. CASE \E c \in S!Conversions : \E v \in S!ValuesOf(c) :
             called = [op |-> "number", how |-> c, value |-> v]
  <2>0. PICK c \in S!Conversions :
           \E v \in S!ValuesOf(c) : called = [op |-> "number", how |-> c, value |-> v]
    BY <1>3
  <2>1. PICK v \in S!ValuesOf(c) : called = [op |-> "number", how |-> c, value |-> v]
    BY <2>0
  <2>2. called.op = "number" /\ called.how = c /\ called.value = v
    BY <2>1
  <2>3. answer' = <<S!Convert(c, v)>>
    BY <1>1, <2>2 DEF S!Reply
  <2>4. answer' = <<v>> \/ (c \in {"ToULongLong", "ToUInt64"} /\ v >= LongSize \div 2)
    BY <2>3, NumbersInvert
  <2>5. S!ConversionsInvert'
    BY <1>2, <2>2, <2>4 DEF S!ConversionsInvert
  <2>6. QED
    BY <1>2, <2>5 DEF StringsInv
<1>4. CASE \E n \in Nat : \E b \in [1 .. n -> TextBytes], left, right \in 0 .. 1 :
             called = [op |-> "base64", bytes |-> b, left |-> left, right |-> right]
  <2>0. PICK n \in Nat :
           \E b \in [1 .. n -> TextBytes], left, right \in 0 .. 1 :
             called = [op |-> "base64", bytes |-> b, left |-> left, right |-> right]
    BY <1>4
  <2>1. PICK b \in [1 .. n -> TextBytes], l \in 0 .. 1, r \in 0 .. 1 :
           called = [op |-> "base64", bytes |-> b, left |-> l, right |-> r]
    BY <2>0
  <2>2. called.op = "base64" /\ called.bytes = b /\ called.left = l /\ called.right = r
    BY <2>1
  <2>3. b \in Seq(0 .. 255)
    <3>1. b \in [1 .. n -> 0 .. 255]
      BY ConversionAssumption
    <3>2. QED
      BY <3>1
  <2>4. answer' = <<S!Base64Decode(S!Blanks(l) \o S!Base64Encode(b) \o S!Blanks(r))>>
    <3>1. called.op # "number"
      BY <2>2
    <3>2. QED
      BY <1>1, <2>2, <3>1 DEF S!Reply, S!Written
  <2>5. answer' = <<b>> \/ l + r = 2
    BY <2>3, <2>4, Base64Inverts
  <2>6. Len(S!Base64Encode(b)) + 1 <= S!ToAlloc(Len(b))
    BY <2>3, Allocated
  <2>7. S!ConversionsInvert'
    BY <1>2, <2>2, <2>5, <2>6 DEF S!ConversionsInvert
  <2>8. QED
    BY <1>2, <2>7 DEF StringsInv
<1>5. QED
  BY <1>1, <1>3, <1>4 DEF StringsInv, Asked

-----------------------------------------------------------------------------
(* All of them: a behaviour is one of one part, and the others do nothing. *)

\* A step is one of the part that there is.
LEMMA LibraryStep ==
    ASSUME [LibraryNext]_lvars
    PROVE  /\ part' = part
           /\ part = "WildCmp" => [Next]_vars
           /\ part # "WildCmp" => UNCHANGED vars
           /\ part = "Strings" => S!Reply \/ UNCHANGED strings
           /\ part # "Strings" => UNCHANGED strings
           /\ part = "Streams" => Z!Next \/ UNCHANGED streams
           /\ part # "Streams" => UNCHANGED streams
           /\ part = "Files" => F!Next \/ UNCHANGED files
           /\ part # "Files" => UNCHANGED files
           /\ part = "Socket" => K!Next \/ UNCHANGED socket
           /\ part # "Socket" => UNCHANGED socket
<1>1. CASE UNCHANGED lvars
  <2>1. UNCHANGED <<part, vars, strings, streams, files, socket>>
    BY <1>1 DEF lvars
  <2>2. QED
    BY <2>1
<1>2. CASE LibraryNext
  <2>1. part' = part
    BY <1>2 DEF LibraryNext
  <2>2. CASE part = "WildCmp" /\ Next /\ UNCHANGED <<strings, streams, files, socket>>
    BY <2>1, <2>2
  <2>3. CASE part = "Strings" /\ S!Reply /\ UNCHANGED <<vars, streams, files, socket>>
    BY <2>1, <2>3
  <2>4. CASE part = "Streams" /\ Z!Next /\ UNCHANGED <<vars, strings, files, socket>>
    BY <2>1, <2>4
  <2>5. CASE part = "Files" /\ F!Next /\ UNCHANGED <<vars, strings, streams, socket>>
    BY <2>1, <2>5
  <2>6. CASE part = "Socket" /\ K!Next /\ UNCHANGED <<vars, strings, streams, files>>
    BY <2>1, <2>6
  <2>7. QED
    BY <1>2, <2>2, <2>3, <2>4, <2>5, <2>6, Zenon DEF LibraryNext
<1>3. QED
  BY <1>1, <1>2

StreamsPart == IF part = "Streams" THEN StreamsInv ELSE NoStreams
StringsPart == IF part = "Strings" THEN StringsInv ELSE NoStrings
FilesPart == IF part = "Files" THEN FilesInv ELSE NoFiles
SocketPart == part = "Socket" => SettingsInv /\ ReadInv

\* Whenever a Write of GZipCompressor has returned, with any input and whatever
\* deflate takes of it at a time, all that was ever written is in its writer, and
\* GZipDecompressor gives it all to its own, in whatever pieces it is passed on;
\* LZMACompressor gives a beginning of it (Compressor.cpp:56-83, 100-127,
\* Decompressor.cpp:52-79).
THEOREM WritesHoldNothingBack == LibrarySpec => []NothingHeldBack
<1>1. LibraryInit => StreamsPart
  BY StreamsInit DEF LibraryInit, StreamsPart
<1>2. StreamsPart /\ [LibraryNext]_lvars => StreamsPart'
  <2>1. SUFFICES ASSUME StreamsPart, [LibraryNext]_lvars PROVE StreamsPart'
    OBVIOUS
  <2>2. CASE part = "Streams"
    BY <2>1, <2>2, LibraryStep, StreamsNext, StreamsStill DEF StreamsPart
  <2>3. CASE part # "Streams"
    BY <2>1, <2>3, LibraryStep DEF StreamsPart, NoStreams, streams
  <2>4. QED
    BY <2>2, <2>3
<1>3. StreamsPart => NothingHeldBack
  <2>1. ASSUME NoStreams PROVE NothingHeldBack
    <3>1. fed = <<>> /\ received = <<>> /\ window = <<>> /\ carried = <<>>
      BY <2>1 DEF NoStreams
    <3>2. <<>> \o <<>> = <<>> /\ <<>> \in Seq(StreamBytes) /\ Len(<<>>) = 0
      BY ConcatEmptySeq
    <3>3. Z!IsPrefix(<<>>, <<>>)
      BY <3>2 DEF Z!IsPrefix
    <3>4. QED
      BY <3>1, <3>2, <3>3, UnpackEmpty DEF NothingHeldBack, Z!NothingHeldBack
  <2>2. QED
    BY <2>1, StreamsShow DEF StreamsPart, NothingHeldBack
<1>4. QED
  BY <1>1, <1>2, <1>3, PTL DEF LibrarySpec

\* WildCmp is right in the library as it is by itself (String.cpp:64-92): it reads
\* no pointer it must not, and returns what the wildcard says.
THEOREM LibraryCompares == LibrarySpec => [](InBounds /\ WildCmpRight)
<1> DEFINE Inv == IF part = "WildCmp" THEN BoundsInv /\ RightInv ELSE NoWildCmp
<1>1. LibraryInit => Inv
  BY BoundsInit, RightInit DEF LibraryInit
<1>2. Inv /\ [LibraryNext]_lvars => Inv'
  <2>1. SUFFICES ASSUME Inv, [LibraryNext]_lvars PROVE Inv'
    OBVIOUS
  <2>2. CASE part = "WildCmp"
    BY <2>1, <2>2, LibraryStep, BoundsNext, RightNext
  <2>3. CASE part # "WildCmp"
    BY <2>1, <2>3, LibraryStep DEF NoWildCmp, vars
  <2>4. QED
    BY <2>2, <2>3
<1>3. Inv => InBounds /\ WildCmpRight
  <2>1. CASE BoundsInv /\ RightInv
    <3>1. Matches(text, wild) \in BOOLEAN
      BY DEF Matches, MatchesFrom
    <3>2. QED
      BY <2>1, <3>1 DEF BoundsInv, RightInv, WildCmpRight
  <2>2. CASE NoWildCmp
    <3>1. text = <<>> /\ wild = <<>> /\ ret = TRUE /\ Len(<<>>) = 0
      BY <2>2 DEF NoWildCmp
    <3>2. Matches(<<>>, <<>>)
      <4> DEFINE f == [k \in 1 .. 1 |-> 1]
      <4>1. f \in Alignments(<<>>, <<>>, 1) /\ f[1] = 1
        BY DEF Alignments
      <4>2. Alignment(<<>>, <<>>, f, 1, 1)
        BY <4>1 DEF Alignment
      <4>3. QED
        BY <4>1, <4>2 DEF Matches, MatchesFrom
    <3>3. InBounds
      BY <2>2, <3>1 DEF NoWildCmp, InBounds
    <3>4. QED
      BY <3>1, <3>2, <3>3 DEF WildCmpRight
  <2>3. QED
    BY <2>1, <2>2
<1>4. QED
  BY <1>1, <1>2, <1>3, PTL DEF LibrarySpec

LEMMA FilesPartInit == LibraryInit => FilesPart
BY FilesInit DEF LibraryInit, FilesPart

LEMMA FilesPartNext == FilesPart /\ [LibraryNext]_lvars => FilesPart'
<1>1. SUFFICES ASSUME FilesPart, [LibraryNext]_lvars PROVE FilesPart'
  OBVIOUS
<1>2. CASE part = "Files"
  BY <1>1, <1>2, LibraryStep, FilesNext, FilesStill DEF FilesPart
<1>3. CASE part # "Files"
  BY <1>1, <1>3, LibraryStep DEF FilesPart, NoFiles, files
<1>4. QED
  BY <1>2, <1>3

\* However the reads cut the file, and whoever appends to it meanwhile, ReadLine and
\* ReadFile return it from where reading began, without a byte lost or doubled, and
\* what ReadLine returns ends with the first delimiter in it (Files.cpp:189-231).
THEOREM ReadsTheFile == LibrarySpec => []LinesAreTheFile
<1>1. FilesPart => LinesAreTheFile
  <2>1. NoFiles => LinesAreTheFile
    BY DEF NoFiles, LinesAreTheFile, F!LinesAreTheFile
  <2>2. QED
    BY <2>1, FilesShow DEF FilesPart, LinesAreTheFile
<1>2. QED
  BY <1>1, FilesPartInit, FilesPartNext, PTL DEF LibrarySpec

\* A Copy that returns true has copied all that the file held, and what was appended
\* to it meanwhile, but where a write failed or the file was its own copy; one that
\* returns false after it has begun leaves no copy (Files.cpp:118-142).
THEOREM CopyTellsTheTruth == LibrarySpec => CopyTells
<1>1. FilesPart /\ [LibraryNext]_lvars
        => [call = "copy" /\ call' = "none" =>
              IF ok'
              THEN \/ failed
                   \/ target = fd
                   \/ F!IsPrefix(was, data[target]) /\ F!IsPrefix(data[fd], data[target])
              ELSE dir'[into] = None]_(F!vars)
  <2>1. SUFFICES ASSUME FilesPart, [LibraryNext]_lvars, call = "copy", call' = "none",
                        ~UNCHANGED F!vars
                 PROVE  IF ok'
                        THEN \/ failed
                             \/ target = fd
                             \/ /\ F!IsPrefix(was, data[target])
                                /\ F!IsPrefix(data[fd], data[target])
                        ELSE dir'[into] = None
    OBVIOUS
  <2>2. UNCHANGED files => UNCHANGED F!vars
    BY DEF files, F!vars, F!file, F!ghosts
  <2>3. part = "Files" /\ F!Next
    BY <2>1, <2>2, LibraryStep
  <2>4. FilesInv
    BY <2>1, <2>3 DEF FilesPart
  <2>5. QED
    BY <2>1, <2>3, <2>4, CopyShows
<1>2. QED
  BY <1>1, FilesPartInit, FilesPartNext, PTL DEF LibrarySpec, CopyTells, F!CopyTells

LEMMA SocketPartInit == LibraryInit => SocketPart
BY SettingsInit, ReadInit DEF LibraryInit, SocketPart

LEMMA SocketStill == UNCHANGED socket => UNCHANGED K!svars
BY DEF socket, K!svars

LEMMA SocketPartNext == SocketPart /\ [LibraryNext]_lvars => SocketPart'
<1>1. SUFFICES ASSUME SocketPart, [LibraryNext]_lvars, part' = "Socket"
               PROVE  SettingsInv' /\ ReadInv'
  BY DEF SocketPart
<1>2. part = "Socket" /\ [K!Next]_(K!svars)
  BY <1>1, LibraryStep, SocketStill
<1>3. QED
  BY <1>1, <1>2, SettingsNext, ReadNext DEF SocketPart

\* Whenever an option or a timeout is set, before Connect, while connecting or later,
\* and in whatever order, a connected socket has it; but for the options that are
\* set in Connected (Socket.cpp:117-128, 147-189, 209-210).
THEOREM SettingsReachTheConnection == LibrarySpec => []SettingsApplied
<1>1. SocketPart => SettingsApplied
  BY DEF SocketPart, SettingsInv, Applied, SettingsApplied, K!SettingsApplied
<1>2. QED
  BY <1>1, SocketPartInit, SocketPartNext, PTL DEF LibrarySpec

\* However often ReadLine, ReadData and anyone between them change the mode, readcb
\* gives ReadData nothing in line mode and leaves no complete line in the input;
\* unless ReadData changed the mode and consumed nothing (Socket.cpp:75-109).
THEOREM AlwaysReadsInMode == LibrarySpec => ReadsInMode
<1>1. SocketPart /\ [LibraryNext]_lvars
        => [/\ place = "data" /\ place' = "ReadData" => ~readline \/ kept
            /\ place \in {"lines", "data", "ReadData"} /\ place' = "idle" /\ readline
                 => K!Lines' = {} \/ kept']_(K!svars)
  <2>1. SUFFICES ASSUME SocketPart, [LibraryNext]_lvars, ~UNCHANGED K!svars
                 PROVE  /\ place = "data" /\ place' = "ReadData" => ~readline \/ kept
                        /\ place \in {"lines", "data", "ReadData"} /\ place' = "idle" /\ readline
                             => K!Lines' = {} \/ kept'
    OBVIOUS
  <2>2. part = "Socket" /\ [K!Next]_(K!svars)
    BY <2>1, LibraryStep, SocketStill
  <2>3. QED
    BY <2>1, <2>2, ReadNext DEF SocketPart
<1>2. QED
  BY <1>1, SocketPartInit, SocketPartNext, PTL DEF LibrarySpec, ReadsInMode, K!ReadsInMode

\* A number that String writes in digits is read back by the conversion to its type,
\* whatever the widths of the types are, but for unsigned long longs that strtoll cuts
\* off; and base64 gives back any bytes, with a blank before or after the text, in a
\* buffer that is large enough (String.cpp:94-118, 149-179, 189-272).
THEOREM ReadsBackWhatItWrites == LibrarySpec => []ConversionsInvert
<1>1. LibraryInit => StringsPart
  BY StringsInit DEF LibraryInit, StringsPart
<1>2. StringsPart /\ [LibraryNext]_lvars => StringsPart'
  <2>1. SUFFICES ASSUME StringsPart, [LibraryNext]_lvars PROVE StringsPart'
    OBVIOUS
  <2>2. CASE part = "Strings" /\ S!Reply
    BY <2>1, <2>2, LibraryStep, StringsNext DEF StringsPart
  <2>3. CASE part = "Strings" /\ UNCHANGED strings
    <3>1. StringsInv /\ UNCHANGED <<called, answer>> => StringsInv'
      BY DEF StringsInv, Asked, S!ConversionsInvert
    <3>2. QED
      BY <2>1, <2>3, <3>1, LibraryStep DEF StringsPart, strings
  <2>4. CASE part # "Strings"
    BY <2>1, <2>4, LibraryStep DEF StringsPart, NoStrings, strings
  <2>5. QED
    BY <2>1, <2>2, <2>3, <2>4, LibraryStep
<1>3. StringsPart => ConversionsInvert
  <2>1. NoStrings => ConversionsInvert
    BY DEF NoStrings, ConversionsInvert, S!ConversionsInvert
  <2>2. QED
    BY <2>1 DEF StringsPart, StringsInv, ConversionsInvert
<1>4. QED
  BY <1>1, <1>2, <1>3, PTL DEF LibrarySpec

================================================================================
