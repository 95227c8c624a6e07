------------------------------- MODULE Timer_proofs -------------------------------
(***************************************************************************)
(* Theorems about Timer for any timers and any width of its counters.       *)
(***************************************************************************)
EXTENDS Timer, TLAPS

\* _currentCycle counts the RunJob calls that have returned, of as many as were
\* asked for.  A timer that was not asked for anything, or is not born, waits for
\* no event but Stop's, and Finished comes with the end of the object.
Counts(t) ==
    /\ life[t] = "unborn" => /\ timer[t] = "none" /\ ~stop[t] /\ finished[t] = 0
                             /\ asked[t] = Wrap /\ ran[t] = 0
    /\ asked[t] = Wrap => (stop[t] \/ timer[t] = "none") /\ running # t
    /\ asked[t] # Wrap => maxCycles[t] = asked[t]
    /\ asked[t] \in 1 .. Wrap - 1 /\ life[t] = "alive" =>
         /\ currentCycle[t] < asked[t]
         /\ ran[t] = currentCycle[t] + (IF running = t THEN 1 ELSE 0)
    /\ finished[t] # 0 => life[t] = "deleted"

DueOf(t) ==
    /\ finished[t] <= 1
    /\ asked[t] \in 1 .. Wrap - 1 => ran[t] <= asked[t]
    /\ finished[t] = 1 => \/ stop[t]
                          \/ asked[t] > 0 /\ ran[t] = asked[t]

CountsInv == TypeOK /\ \A t \in Timers : Counts(t) /\ DueOf(t)

\* An unsigned int stays one.
LEMMA WrapsAround == \A c \in UnsignedInt : (c + 1) % Wrap \in UnsignedInt
                                            /\ (c + 1 < Wrap => (c + 1) % Wrap = c + 1)
BY WrapAssumption DEF UnsignedInt

LEMMA TypeInit == Init => TypeOK
BY TimersAssumption, WrapAssumption DEF Init, TypeOK, UnsignedInt

LEMMA TypeNext == TypeOK /\ [Next]_vars => TypeOK'
<1> SUFFICES ASSUME TypeOK, [Next]_vars PROVE TypeOK'
  OBVIOUS
<1> USE TimersAssumption, WrapAssumption
<1>1. ASSUME NEW t \in Timers, New(t) PROVE TypeOK'
  BY <1>1 DEF New, TypeOK
<1>2. ASSUME NEW t \in Timers, Start(t) PROVE TypeOK'
  BY <1>2 DEF Start, Started, TypeOK
<1>3. ASSUME NEW t \in Timers, Stop(t) PROVE TypeOK'
  BY <1>3 DEF Stop, TypeOK
<1>4. ASSUME NEW t \in Timers, Delete(t) PROVE TypeOK'
  BY <1>4 DEF Delete, Destroy, TypeOK
<1>5. ASSUME NEW t \in Timers, NEW n \in UnsignedInt, NewStarted(t, n) PROVE TypeOK'
  BY <1>5 DEF NewStarted, Started, TypeOK, UnsignedInt
<1>6. ASSUME NEW t \in Timers, NEW n \in UnsignedInt, StartMaxCycles(t, n) PROVE TypeOK'
  BY <1>6 DEF StartMaxCycles, Started, TypeOK, UnsignedInt
<1>7. ASSUME NEW t \in Timers, EventCallback(t) PROVE TypeOK'
  <2>1. CASE stop[t]
    BY <1>7, <2>1 DEF EventCallback, Destroy, TypeOK
  <2>2. CASE ~stop[t]
    BY <1>7, <2>2 DEF EventCallback, TypeOK
  <2>3. QED
    BY <2>1, <2>2
<1>8. ASSUME NEW t \in Timers, RunJobReturns(t) PROVE TypeOK'
  <2>1. currentCycle' \in [Timers -> UnsignedInt]
    BY <1>8, WrapsAround DEF RunJobReturns, TypeOK
  <2>2. finished' \in [Timers -> Nat]
    BY <1>8 DEF RunJobReturns, TypeOK
  <2>3. /\ life' \in [Timers -> {"unborn", "alive", "deleted"}]
        /\ timer' \in [Timers -> {"none", "interval", "now"}]
        /\ \A u \in Timers : timer'[u] # "none" => life'[u] = "alive"
    BY <1>8 DEF RunJobReturns, Destroy, TypeOK
  <2>4. QED
    BY <1>8, <2>1, <2>2, <2>3 DEF RunJobReturns, TypeOK
<1>9. CASE UNCHANGED vars
  BY <1>9 DEF vars, TypeOK
<1>10. QED
  BY <1>1, <1>2, <1>3, <1>4, <1>5, <1>6, <1>7, <1>8, <1>9
     DEF Next, Application, EventLoop

\* The type invariant; in particular no event of a deleted timer is left.
THEOREM TimerTypes == Spec => []TypeOK
BY TypeInit, TypeNext, PTL DEF Spec

-----------------------------------------------------------------------------
LEMMA CountsInit == Init => CountsInv
<1> SUFFICES ASSUME Init PROVE CountsInv
  OBVIOUS
<1>0. ASSUME NEW t \in Timers PROVE ~stop[t]
  BY Zenon DEF Init
<1>1. ASSUME NEW t \in Timers PROVE Counts(t) /\ DueOf(t)
  <2>1. /\ life[t] = "unborn" /\ timer[t] = "none" /\ finished[t] = 0
        /\ asked[t] = Wrap /\ ran[t] = 0 /\ running # t
    BY TimersAssumption DEF Init
  <2>2. QED
    BY <1>0, <2>1, WrapAssumption DEF Counts, DueOf
<1>2. QED
  BY <1>1, TypeInit DEF CountsInv

\* A step at one timer leaves what is counted for another as it is.
LEMMA OtherTimer ==
    ASSUME NEW t \in Timers, Counts(t), DueOf(t),
           life'[t] = life[t], maxCycles'[t] = maxCycles[t],
           currentCycle'[t] = currentCycle[t], stop'[t] = stop[t],
           timer'[t] = timer[t], asked'[t] = asked[t], ran'[t] = ran[t],
           finished'[t] = finished[t], (running' = t) <=> (running = t)
    PROVE  Counts(t)' /\ DueOf(t)'
BY DEF Counts, DueOf

\* A step keeps what is counted if it keeps it for the timer it is at.
LEMMA CountsNext ==
    ASSUME PlainStart = FALSE
    PROVE  CountsInv /\ [Next]_vars => CountsInv'
<1> SUFFICES ASSUME CountsInv, [Next]_vars PROVE CountsInv'
  OBVIOUS
<1>0. TypeOK /\ TypeOK'
  BY TypeNext DEF CountsInv
<1> SUFFICES ASSUME NEW t \in Timers PROVE Counts(t)' /\ DueOf(t)'
  BY <1>0 DEF CountsInv
<1>a. Counts(t) /\ DueOf(t)
  BY DEF CountsInv
<1> USE TimersAssumption, WrapAssumption
<1>1. ASSUME NEW u \in Timers, New(u) PROVE Counts(t)' /\ DueOf(t)'
  <2>1. CASE u # t
    BY <1>0, <1>1, <1>a, <2>1, OtherTimer DEF New, TypeOK
  <2>2. CASE u = t
    BY <1>0, <1>1, <1>a, <2>2 DEF New, TypeOK, Counts, DueOf
  <2>3. QED
    BY <2>1, <2>2
<1>2. ASSUME NEW u \in Timers, Start(u) PROVE Counts(t)' /\ DueOf(t)'
  <2>1. CASE u # t
    BY <1>0, <1>2, <1>a, <2>1, OtherTimer DEF Start, Started, TypeOK
  <2>2. CASE u = t
    BY <1>0, <1>2, <1>a, <2>2 DEF Start, Started, TypeOK, Counts, DueOf
  <2>3. QED
    BY <2>1, <2>2
<1>3. ASSUME NEW u \in Timers, Stop(u) PROVE Counts(t)' /\ DueOf(t)'
  <2>1. CASE u # t
    BY <1>0, <1>3, <1>a, <2>1, OtherTimer DEF Stop, TypeOK
  <2>2. CASE u = t
    BY <1>0, <1>3, <1>a, <2>2 DEF Stop, TypeOK, Counts, DueOf
  <2>3. QED
    BY <2>1, <2>2
<1>4. ASSUME NEW u \in Timers, Delete(u) PROVE Counts(t)' /\ DueOf(t)'
  <2>1. CASE u # t
    BY <1>0, <1>4, <1>a, <2>1, OtherTimer DEF Delete, Destroy, TypeOK
  <2>2. CASE u = t
    BY <1>0, <1>4, <1>a, <2>2 DEF Delete, Destroy, TypeOK, Counts, DueOf
  <2>3. QED
    BY <2>1, <2>2
<1>5. ASSUME NEW u \in Timers, NEW n \in UnsignedInt, NewStarted(u, n)
      PROVE  Counts(t)' /\ DueOf(t)'
  <2>1. CASE u # t
    BY <1>0, <1>5, <1>a, <2>1, OtherTimer DEF NewStarted, Started, TypeOK
  <2>2. CASE u = t
    BY <1>0, <1>5, <1>a, <2>2
       DEF NewStarted, Started, TypeOK, Counts, DueOf, UnsignedInt
  <2>3. QED
    BY <2>1, <2>2
<1>6. ASSUME NEW u \in Timers, NEW n \in UnsignedInt, StartMaxCycles(u, n)
      PROVE  Counts(t)' /\ DueOf(t)'
  <2>1. CASE u # t
    BY <1>0, <1>6, <1>a, <2>1, OtherTimer DEF StartMaxCycles, Started, TypeOK
  <2>2. CASE u = t
    BY <1>0, <1>6, <1>a, <2>2
       DEF StartMaxCycles, Started, TypeOK, Counts, DueOf, UnsignedInt
  <2>3. QED
    BY <2>1, <2>2
<1>7. ASSUME NEW u \in Timers, EventCallback(u) PROVE Counts(t)' /\ DueOf(t)'
  <2>1. CASE u # t
    BY <1>0, <1>7, <1>a, <2>1, OtherTimer DEF EventCallback, Destroy, TypeOK
  <2>2. CASE u = t /\ stop[t]
    BY <1>0, <1>7, <1>a, <2>2 DEF EventCallback, Destroy, TypeOK, Counts, DueOf
  <2>3. CASE u = t /\ ~stop[t]
    <3>1. life[t] = "alive" /\ asked[t] # Wrap /\ running # t /\ finished[t] = 0
      BY <1>0, <1>7, <1>a, <2>3 DEF EventCallback, TypeOK, Counts
    <3>2. ran[t] < Wrap => ran'[t] = ran[t] + 1
      BY <1>0, <1>7, <2>3 DEF EventCallback, TypeOK
    <3>3. /\ running' = t /\ life' = life /\ finished' = finished /\ asked' = asked
          /\ maxCycles' = maxCycles /\ currentCycle' = currentCycle
      BY <1>7, <2>3 DEF EventCallback
    <3>4. Counts(t)' /\ (asked[t] \in 1 .. Wrap - 1 => ran'[t] <= asked[t])
      <4>1. CASE asked[t] = 0
        BY <1>a, <3>1, <3>3, <4>1 DEF Counts
      <4>2. CASE asked[t] \in 1 .. Wrap - 1
        <5>1. currentCycle[t] \in Nat /\ asked[t] \in Nat /\ currentCycle[t] < asked[t]
          BY <1>0, <1>a, <3>1, <4>2 DEF TypeOK, Counts, UnsignedInt
        <5>2. ran[t] = currentCycle[t]
          BY <1>a, <3>1, <4>2, <5>1 DEF Counts
        <5>3. ran'[t] = currentCycle[t] + 1
          BY <3>2, <4>2, <5>1, <5>2
        <5>4. QED
          BY <1>a, <3>1, <3>3, <4>2, <5>1, <5>3 DEF Counts
      <4>3. QED
        BY <1>0, <3>1, <4>1, <4>2 DEF TypeOK
    <3>5. QED
      BY <3>1, <3>3, <3>4 DEF DueOf
  <2>4. QED
    BY <2>1, <2>2, <2>3
<1>8. ASSUME NEW u \in Timers, RunJobReturns(u) PROVE Counts(t)' /\ DueOf(t)'
  <2>1. CASE u # t
    BY <1>0, <1>8, <1>a, <2>1, OtherTimer DEF RunJobReturns, Destroy, TypeOK
  <2>2. CASE u = t
    <3>1. /\ life[t] = "alive" /\ asked[t] # Wrap /\ running = t /\ finished[t] = 0
          /\ running' # t /\ maxCycles[t] = asked[t] /\ asked' = asked /\ ran' = ran
          /\ maxCycles' = maxCycles /\ stop' = stop
      BY <1>0, <1>8, <1>a, <2>2 DEF RunJobReturns, TypeOK, Counts
    <3>2. CASE asked[t] = 0
      BY <1>0, <1>8, <1>a, <2>2, <3>1, <3>2 DEF RunJobReturns, TypeOK, Counts, DueOf
    <3>3. CASE asked[t] # 0
      <4>1. asked[t] \in 1 .. Wrap - 1
        BY <1>0, <3>1, <3>3 DEF TypeOK
      <4>2. currentCycle'[t] = currentCycle[t] + 1 /\ ran[t] = currentCycle[t] + 1
        BY <1>0, <1>8, <1>a, <2>2, <3>1, <4>1, WrapsAround
           DEF RunJobReturns, TypeOK, Counts, UnsignedInt
      <4>3. CASE currentCycle'[t] = maxCycles[t]
        <5>1. finished'[t] = 1 /\ life'[t] = "deleted"
          BY <1>0, <1>8, <2>2, <3>1, <4>1, <4>3 DEF RunJobReturns, Destroy, TypeOK
        <5>2. QED
          BY <1>0, <1>a, <3>1, <4>1, <4>2, <4>3, <5>1 DEF TypeOK, Counts, DueOf
      <4>4. CASE currentCycle'[t] # maxCycles[t]
        <5>1. finished' = finished /\ life' = life /\ timer' = timer
          BY <1>0, <1>8, <2>2, <3>1, <4>1, <4>4 DEF RunJobReturns, TypeOK
        <5>2. QED
          BY <1>0, <1>a, <3>1, <4>1, <4>2, <4>4, <5>1
             DEF TypeOK, Counts, DueOf, UnsignedInt
      <4>5. QED
        BY <4>3, <4>4
    <3>4. QED
      BY <3>2, <3>3
  <2>3. QED
    BY <2>1, <2>2
<1>9. CASE UNCHANGED vars
  BY <1>9, <1>a DEF vars, Counts, DueOf
<1>10. QED
  BY <1>1, <1>2, <1>3, <1>4, <1>5, <1>6, <1>7, <1>8, <1>9
     DEF Next, Application, EventLoop

LEMMA CountsGive == CountsInv => FinishedWhenDue
BY DEF CountsInv, DueOf, FinishedWhenDue

\* A timer that is always given a number of cycles, 0 included, finishes once,
\* after exactly that many RunJob calls or after Stop, for every width of the
\* counters, although they wrap around.
THEOREM FinishedInTime ==
    ASSUME PlainStart = FALSE
    PROVE  Spec => []FinishedWhenDue
<1>1. CountsInv /\ [Next]_vars => CountsInv'
  BY CountsNext
<1>2. QED
  BY <1>1, CountsInit, CountsGive, PTL DEF Spec

-----------------------------------------------------------------------------
\* No step but EventCallback's has a RunJob called, and it looks at _stop first.
LEMMA StopHolds ==
    ASSUME TypeOK, [Next]_vars, NEW t \in Timers, stop[t], running' = t
    PROVE  running = t
<1> USE TimersAssumption
<1>1. ASSUME NEW u \in Timers, EventCallback(u) PROVE running = t
  BY <1>1 DEF EventCallback
<1>2. ASSUME NEW u \in Timers, RunJobReturns(u) PROVE running = t
  BY <1>2 DEF RunJobReturns
<1>3. CASE Application \/ UNCHANGED vars
  BY <1>3 DEF Application, New, Start, Stop, Delete, NewStarted, StartMaxCycles, vars
<1>4. QED
  BY <1>1, <1>2, <1>3 DEF Next, EventLoop

\* Once a timer was stopped no RunJob of it starts, whatever the application starts
\* anew, for any timers (Timer.cpp:57-62, 70-81).
THEOREM StoppedStaysSo == Spec => StopStops
<1>1. TypeOK /\ [Next]_vars
        => [\A t \in Timers : stop[t] /\ running' = t => running = t]_vars
  BY StopHolds
<1>2. QED
  BY <1>1, TypeInit, TypeNext, PTL DEF Spec, StopStops
================================================================================
