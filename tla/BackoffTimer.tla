------------------------------ MODULE BackoffTimer ------------------------------
(***************************************************************************)
(* BackoffTimer (BackoffTimer.h, BackoffTimer.cpp) with the one-cycle Timer *)
(* it waits with: the state and the effect of each operation, for a module  *)
(* that owns one.  The timer deletes itself when its only RunJob returns,   *)
(* and its destructor calls ResetTimer on the BackoffTimer.  How long an    *)
(* interval is does not matter here.                                        *)
(***************************************************************************)
EXTENDS Naturals

VARIABLES
    backoff,   \* the BackoffTimer and its _timer
    failing,   \* BackoffTimer::_still_failing
    freed,     \* RunJob was called by a timer that has been deleted since
    orphans    \* timers that wait for a BackoffTimer that has been deleted

backoffVars == <<backoff, failing, freed, orphans>>

BackoffStates == {"none",      \* no BackoffTimer exists
                  "waiting",   \* its _timer waits for the interval to pass
                  "running",   \* its _timer is calling RunJob
                  "spent"}     \* it has no _timer

BackoffInit ==
    /\ backoff = "none"
    /\ failing = FALSE
    /\ freed = FALSE
    /\ orphans = 0

NewBackoffTimer ==
    /\ backoff = "none"
    /\ backoff' = "waiting"
    /\ failing' = FALSE
    /\ UNCHANGED <<freed, orphans>>

SetStillFailing ==
    /\ IF backoff = "spent" THEN backoff' = "waiting" /\ UNCHANGED failing
                            ELSE failing' = TRUE /\ UNCHANGED backoff
    /\ UNCHANGED <<freed, orphans>>

\* ~BackoffTimer deletes the timer, which calls ResetTimer: one that is still
\* failing gets a new timer in the middle of its own destruction.
DeleteBackoffTimer ==
    /\ backoff' = "none"
    /\ freed' = (freed \/ backoff = "running")
    /\ orphans' = IF failing /\ backoff # "spent" THEN orphans + 1 ELSE orphans
    /\ failing' = FALSE

\* The event loop calls Timer::EventCallback, which calls RunJob.
Fire ==
    /\ backoff = "waiting"
    /\ backoff' = "running"
    /\ UNCHANGED <<failing, freed, orphans>>

FireOrphan ==
    /\ orphans > 0
    /\ orphans' = orphans - 1
    /\ UNCHANGED <<backoff, failing, freed>>

\* Mutant: ResetTimer forgets _still_failing.
RunJobReturnsSpent ==
    /\ backoff = "running"
    /\ backoff' = "spent"
    /\ failing' = FALSE
    /\ UNCHANGED <<freed, orphans>>

\* RunJob returns to EventCallback: the one cycle is over, the timer is
\* deleted, and ResetTimer creates the next one if asked to.
RunJobReturns ==
    /\ backoff = "running"
    /\ backoff' = IF failing THEN "waiting" ELSE "spent"
    /\ failing' = FALSE
    /\ UNCHANGED <<freed, orphans>>
================================================================================
