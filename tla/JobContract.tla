------------------------------ MODULE JobContract ------------------------------
(***************************************************************************)
(* What a JobThread promises each Job (JobThread.h:30-59): the hooks of a  *)
(* job run in the order preExecuteMain, execute, postExecuteMain, each at  *)
(* most once; a refused job is never executed; the one worker thread       *)
(* executes one job at a time; a job is let go of once, after its last     *)
(* hook.  How jobs travel between the threads is not said here.            *)
(***************************************************************************)
EXTENDS FiniteSets

CONSTANT Jobs

VARIABLE phase   \* where each job is in its life

Phases == {"fresh", "queued", "ready", "running", "ran", "done"}

Init == phase = [j \in Jobs |-> "fresh"]

\* Move job j from one phase to the next.
Move(j, from, to) ==
    /\ phase[j] = from
    /\ phase' = [phase EXCEPT ![j] = to]

Submit(j) == Move(j, "fresh", "queued")     \* Add or AddFront is called
Accept(j) == Move(j, "queued", "ready")     \* preExecuteMain() said yes
Refuse(j) == Move(j, "queued", "done")      \* preExecuteMain() said no

\* The worker thread begins a job only when it executes none.
Begin(j) ==
    /\ \A k \in Jobs : phase[k] # "running"
    /\ Move(j, "ready", "running")

End(j)    == Move(j, "running", "ran")      \* execute() returned
Finish(j) == Move(j, "ran", "done")         \* after postExecuteMain(), if asked for

Next ==
    \E j \in Jobs : \/ Submit(j) \/ Accept(j) \/ Refuse(j)
                    \/ Begin(j)  \/ End(j)    \/ Finish(j)

Spec == Init /\ [][Next]_phase
================================================================================
