-------------------------------- MODULE WildCmp --------------------------------
(***************************************************************************)
(* String::WildCmp (String.cpp), one test of a loop per step.  Pointers are *)
(* positions, 1 for the first character, and 0 for NULL; the position after *)
(* the last character holds the terminator.                                 *)
(***************************************************************************)
EXTENDS Naturals, Sequences

CONSTANTS
    Char,    \* the characters
    Star,    \* '*'
    Query,   \* '?'
    NUL,     \* the terminator
    Texts,   \* the strings compared
    Wilds    \* the wildcards they are compared to

ASSUME CharAssumption == Star \in Char /\ Query \in Char /\ NUL \notin Char /\ Star # Query
ASSUME StringsAssumption == Texts \subseteq Seq(Char) /\ Wilds \subseteq Seq(Char)

VARIABLES
    text, wild,  \* what str and wild pointed to first
    str, wc,     \* the pointers str and wild
    cp, mp,      \* the pointers cp and mp
    pc,          \* the loop that is running, or "done"
    ret          \* what WildCmp returned

vars == <<text, wild, str, wc, cp, mp, pc, ret>>

At(s, i) == IF i <= Len(s) THEN s[i] ELSE NUL

Init ==
    /\ text \in Texts
    /\ wild \in Wilds
    /\ str = 1 /\ wc = 1
    /\ cp = 0 /\ mp = 0
    /\ pc = "prefix"
    /\ ret = FALSE

Return(b) ==
    /\ pc' = "done"
    /\ ret' = b
    /\ UNCHANGED <<str, wc, cp, mp>>

Goto(loop) ==
    /\ pc' = loop
    /\ UNCHANGED <<str, wc, cp, mp, ret>>

Match(s, w) == At(wild, w) = At(text, s) \/ At(wild, w) = Query

Advance ==
    /\ str' = str + 1
    /\ wc' = wc + 1
    /\ UNCHANGED <<cp, mp, pc, ret>>

\* Up to the first '*' the characters must match one to one.
Prefix ==
    /\ pc = "prefix"
    /\ UNCHANGED <<text, wild>>
    /\ \/ At(text, str) # NUL /\ At(wild, wc) # Star /\ Match(str, wc) /\ Advance
       \/ At(text, str) # NUL /\ At(wild, wc) # Star /\ ~Match(str, wc) /\ Return(FALSE)
       \/ (At(text, str) = NUL \/ At(wild, wc) = Star) /\ Goto("scan")

\* Mutant: the '*' must take at least one character.
SeeStarTakesOne ==
    IF At(wild, wc + 1) = NUL
    THEN /\ wc' = wc + 1
         /\ pc' = "done"
         /\ ret' = TRUE
         /\ UNCHANGED <<str, cp, mp>>
    ELSE /\ wc' = wc + 1
         /\ mp' = wc + 1
         /\ str' = str + 1
         /\ cp' = str + 1
         /\ UNCHANGED <<pc, ret>>

\* A '*' is remembered with what follows it; '*' at the end takes the rest.
SeeStar ==
    IF At(wild, wc + 1) = NUL
    THEN /\ wc' = wc + 1
         /\ pc' = "done"
         /\ ret' = TRUE
         /\ UNCHANGED <<str, cp, mp>>
    ELSE /\ wc' = wc + 1
         /\ mp' = wc + 1
         /\ cp' = str + 1
         /\ UNCHANGED <<str, pc, ret>>

\* Mutant: cp stays where it is.
BackTrackForgets ==
    /\ wc' = mp
    /\ str' = cp
    /\ UNCHANGED <<cp, mp, pc, ret>>

\* Mutant: cp is advanced past the end of what is left to compare.
BackTrackTwice ==
    /\ wc' = mp
    /\ str' = cp
    /\ cp' = cp + 2
    /\ UNCHANGED <<mp, pc, ret>>

\* The last '*' takes one character more.
BackTrack ==
    /\ wc' = mp
    /\ str' = cp
    /\ cp' = cp + 1
    /\ UNCHANGED <<mp, pc, ret>>

Scan ==
    /\ pc = "scan"
    /\ UNCHANGED <<text, wild>>
    /\ \/ At(text, str) = NUL /\ Goto("tail")
       \/ At(text, str) # NUL /\ At(wild, wc) = Star /\ SeeStar
       \/ At(text, str) # NUL /\ At(wild, wc) # Star /\ Match(str, wc) /\ Advance
       \/ At(text, str) # NUL /\ At(wild, wc) # Star /\ ~Match(str, wc) /\ BackTrack

Tail1 ==
    /\ pc = "tail"
    /\ UNCHANGED <<text, wild>>
    /\ \/ /\ At(wild, wc) = Star
          /\ wc' = wc + 1
          /\ UNCHANGED <<str, cp, mp, pc, ret>>
       \/ At(wild, wc) # Star /\ Return(At(wild, wc) = NUL)

Next == Prefix \/ Scan \/ Tail1

Spec == Init /\ [][Next]_vars

FairSpec == Spec /\ WF_vars(Next)

--------------------------------------------------------------------------------
(* Properties *)

\* No pointer is read that is NULL or lies behind a terminator (the loops of
\* WildCmp, String.cpp:69-90, test nothing but characters).
InBounds ==
    /\ str \in 1 .. Len(text) + 1
    /\ wc \in 1 .. Len(wild) + 1
    /\ cp \in 0 .. Len(text) + 2  \* one behind the terminator, and not read there
    /\ mp \in 0 .. Len(wild)
    /\ pc = "scan" /\ At(text, str) # NUL /\ At(wild, wc) # Star /\ ~Match(str, wc) =>
         cp # 0 /\ mp # 0

\* String.h:67-68: a '*' is any number of characters, a '?' is one.  The text t from
\* i on is what the wildcard w says from j on: f places each character of w.
Alignment(t, w, f, i, j) ==
    /\ f[j] = i
    /\ f[Len(w) + 1] = Len(t) + 1
    /\ \A k \in j .. Len(w) :
         IF w[k] = Star THEN f[k] <= f[k + 1]
         ELSE f[k + 1] = f[k] + 1 /\ w[k] \in {t[f[k]], Query}

Alignments(t, w, j) == [j .. Len(w) + 1 -> 1 .. Len(t) + 1]

MatchesFrom(t, w, i, j) == \E f \in Alignments(t, w, j) : Alignment(t, w, f, i, j)

Matches(t, w) == MatchesFrom(t, w, 1, 1)

\* What WildCmp returns after its jumps back and forth is what the definition of
\* a wildcard says, for every text and wildcard (String.cpp:64-92).
WildCmpRight == pc = "done" => ret = Matches(text, wild)

\* No text and wildcard send the loops round for ever (String.cpp:75-88, where
\* both pointers go back).
WildCmpEnds == <>(pc = "done")

================================================================================
