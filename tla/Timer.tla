--------------------------------- MODULE Timer ---------------------------------
(***************************************************************************)
(* Timer (Timer.h, Timer.cpp) on the thread of an event loop: the           *)
(* application starts, restarts, stops and deletes timers from the loop and *)
(* from RunJob, that of the timer itself included (which it does not delete *)
(* there), and EventCallback decides after RunJob whether it was the last   *)
(* cycle.  LamdbaTimer is a Timer whose RunJob calls a function.  How long  *)
(* an interval is does not matter here.                                     *)
(***************************************************************************)
EXTENDS Naturals

CONSTANTS
    Timers,     \* the Timer objects the application creates, each one once
    NoTimer,
    Wrap,       \* an unsigned int wraps around here
    PlainStart  \* may Timer(module) be followed by Start(interval)?

ASSUME TimersAssumption == NoTimer \notin Timers
ASSUME WrapAssumption == Wrap \in Nat /\ Wrap > 1
ASSUME PlainStartAssumption == PlainStart \in BOOLEAN

VARIABLES
    life,          \* whether the object is unborn, alive or deleted
    maxCycles,     \* _maxCycles
    currentCycle,  \* _currentCycle
    stop,          \* _stop
    timer,         \* _timer: none, one for the interval, or one for right now
    running,       \* the timer whose RunJob is being called
    asked,         \* the cycles asked for, 0 for no end; not known yet: Wrap
    ran,           \* the RunJob calls since then, up to Wrap
    finished       \* how often Finished was called

vars == <<life, maxCycles, currentCycle, stop, timer, running, asked, ran, finished>>

UnsignedInt == 0 .. Wrap - 1

Init ==
    /\ life = [t \in Timers |-> "unborn"]
    /\ maxCycles = [t \in Timers |-> 0]
    /\ currentCycle = [t \in Timers |-> 0]
    /\ stop = [t \in Timers |-> FALSE]
    /\ timer = [t \in Timers |-> "none"]
    /\ running = NoTimer
    /\ asked = [t \in Timers |-> Wrap]
    /\ ran = [t \in Timers |-> 0]
    /\ finished = [t \in Timers |-> 0]

\* Timer(module) leaves both counters as it finds them.
New(t) ==
    /\ life[t] = "unborn"
    /\ life' = [life EXCEPT ![t] = "alive"]
    /\ \E max, cycle \in UnsignedInt :
         /\ maxCycles' = [maxCycles EXCEPT ![t] = max]
         /\ currentCycle' = [currentCycle EXCEPT ![t] = cycle]
    /\ UNCHANGED <<stop, timer, running, asked, ran, finished>>

\* A timer that runs already keeps its interval.
Started(t) == [timer EXCEPT ![t] = IF @ = "none" THEN "interval" ELSE @]

\* Timer(module, interval, n) starts the timer; without n it never counts.
NewStarted(t, n) ==
    /\ life[t] = "unborn"
    /\ life' = [life EXCEPT ![t] = "alive"]
    /\ maxCycles' = [maxCycles EXCEPT ![t] = n]
    /\ \E cycle \in UnsignedInt :
         /\ n > 0 => cycle = 0
         /\ currentCycle' = [currentCycle EXCEPT ![t] = cycle]
    /\ timer' = Started(t)
    /\ asked' = [asked EXCEPT ![t] = n]
    /\ UNCHANGED <<stop, running, ran, finished>>

Start(t) ==
    /\ life[t] = "alive"
    /\ PlainStart \/ asked[t] # Wrap
    /\ timer' = Started(t)
    /\ asked' = [asked EXCEPT ![t] = IF @ = Wrap THEN 0 ELSE @]
    /\ UNCHANGED <<life, maxCycles, currentCycle, stop, running, ran, finished>>

\* Mutant: _currentCycle goes on from where it was.
StartMaxCyclesGoesOn(t, n) ==
    /\ life[t] = "alive"
    /\ maxCycles' = [maxCycles EXCEPT ![t] = n]
    /\ timer' = Started(t)
    /\ asked' = [asked EXCEPT ![t] = n]
    /\ ran' = [ran EXCEPT ![t] = IF running = t THEN 1 ELSE 0]
    /\ UNCHANGED <<life, currentCycle, stop, running, finished>>

\* Called from RunJob, the cycle that is running is the first of the n.
StartMaxCycles(t, n) ==
    /\ life[t] = "alive"
    /\ maxCycles' = [maxCycles EXCEPT ![t] = n]
    /\ currentCycle' = [currentCycle EXCEPT ![t] = 0]
    /\ timer' = Started(t)
    /\ asked' = [asked EXCEPT ![t] = n]
    /\ ran' = [ran EXCEPT ![t] = IF running = t THEN 1 ELSE 0]
    /\ UNCHANGED <<life, stop, running, finished>>

\* Mutant: Stop frees the event and starts none.
StopForGood(t) ==
    /\ life[t] = "alive"
    /\ stop' = [stop EXCEPT ![t] = TRUE]
    /\ timer' = [timer EXCEPT ![t] = "none"]
    /\ UNCHANGED <<life, maxCycles, currentCycle, running, asked, ran, finished>>

\* The event is replaced by one that fires as soon as possible.
Stop(t) ==
    /\ life[t] = "alive"
    /\ stop' = [stop EXCEPT ![t] = TRUE]
    /\ timer' = [timer EXCEPT ![t] = "now"]
    /\ UNCHANGED <<life, maxCycles, currentCycle, running, asked, ran, finished>>

\* Mutant: the destructor leaves its event to libevent.
DestroyKeepsEvent(t) ==
    /\ life' = [life EXCEPT ![t] = "deleted"]
    /\ UNCHANGED timer

\* ~Timer frees the event.
Destroy(t) ==
    /\ life' = [life EXCEPT ![t] = "deleted"]
    /\ timer' = [timer EXCEPT ![t] = "none"]

Delete(t) ==
    /\ life[t] = "alive"
    /\ running # t
    /\ Destroy(t)
    /\ UNCHANGED <<maxCycles, currentCycle, stop, running, asked, ran, finished>>

\* Mutant: _stop is not looked at.
EventCallbackRuns(t) ==
    /\ running = NoTimer
    /\ timer[t] # "none"
    /\ running' = t
    /\ ran' = [ran EXCEPT ![t] = IF @ < Wrap THEN @ + 1 ELSE @]
    /\ UNCHANGED <<life, timer, finished, maxCycles, currentCycle, stop, asked>>

\* libevent fires the event.
EventCallback(t) ==
    /\ running = NoTimer
    /\ timer[t] # "none"
    /\ IF stop[t]
       THEN /\ finished' = [finished EXCEPT ![t] = @ + 1]
            /\ Destroy(t)
            /\ UNCHANGED <<running, ran>>
       ELSE /\ running' = t
            /\ ran' = [ran EXCEPT ![t] = IF @ < Wrap THEN @ + 1 ELSE @]
            /\ UNCHANGED <<life, timer, finished>>
    /\ UNCHANGED <<maxCycles, currentCycle, stop, asked>>

\* RunJob returns to EventCallback, which counts it if there is a limit.
RunJobReturns(t) ==
    /\ running = t
    /\ running' = NoTimer
    /\ LET cycle == IF maxCycles[t] > 0 THEN (currentCycle[t] + 1) % Wrap
                                        ELSE currentCycle[t]
       IN  /\ currentCycle' = [currentCycle EXCEPT ![t] = cycle]
           /\ IF maxCycles[t] > 0 /\ cycle = maxCycles[t]
              THEN finished' = [finished EXCEPT ![t] = @ + 1] /\ Destroy(t)
              ELSE UNCHANGED <<life, timer, finished>>
    /\ UNCHANGED <<maxCycles, stop, asked, ran>>

Application ==
    \E t \in Timers :
        \/ New(t) \/ Start(t) \/ Stop(t) \/ Delete(t)
        \/ \E n \in UnsignedInt : NewStarted(t, n) \/ StartMaxCycles(t, n)

EventLoop == \E t \in Timers : EventCallback(t) \/ RunJobReturns(t)

Next == Application \/ EventLoop

Spec == Init /\ [][Next]_vars

\* RunJob returns and libevent fires the events that are due, in turn.
Fairness ==
    \A t \in Timers : SF_vars(EventCallback(t)) /\ WF_vars(RunJobReturns(t))

FairSpec == Spec /\ Fairness

-----------------------------------------------------------------------------
(***************************************************************************)
(* Properties.                                                              *)
(***************************************************************************)

\* Every variable keeps its type; no event of a deleted timer is left for
\* libevent to call back with, and no timer is deleted in its own RunJob.
TypeOK ==
    /\ life \in [Timers -> {"unborn", "alive", "deleted"}]
    /\ maxCycles \in [Timers -> UnsignedInt]
    /\ currentCycle \in [Timers -> UnsignedInt]
    /\ stop \in [Timers -> BOOLEAN]
    /\ timer \in [Timers -> {"none", "interval", "now"}]
    /\ running \in Timers \cup {NoTimer}
    /\ asked \in [Timers -> 0 .. Wrap]
    /\ ran \in [Timers -> 0 .. Wrap]
    /\ finished \in [Timers -> Nat]
    /\ \A t \in Timers : timer[t] # "none" => life[t] = "alive"
    /\ running # NoTimer => life[running] = "alive"

\* Finished is called once our timer has ran its last cycle: after as many
\* RunJob calls as were asked for last, or after Stop, never both, and not for
\* a timer without an end (Timer.h:46, 75).
FinishedWhenDue ==
    \A t \in Timers :
        /\ finished[t] <= 1
        /\ asked[t] \in 1 .. Wrap - 1 => ran[t] <= asked[t]
        /\ finished[t] = 1 => \/ stop[t]
                              \/ asked[t] > 0 /\ ran[t] = asked[t]

\* No RunJob starts after Stop, whatever is started anew in between.
StopStops == [][\A t \in Timers : stop[t] /\ running' = t => running = t]_vars

\* A timer that was stopped gets deleted (Timer.h:66), unless the application
\* is faster.
StopEnds == \A t \in Timers : stop[t] ~> life[t] = "deleted"
================================================================================
