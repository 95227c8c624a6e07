------------------------------- MODULE JobThread -------------------------------
(***************************************************************************)
(* JobThread (JobThread.h, JobThread.cpp) with the part of Thread it runs   *)
(* on (Thread.cpp: Start, Stop, Join, shouldContinue).                      *)
(*                                                                         *)
(* Three kinds of threads touch one JobThread:                              *)
(*   Main       the thread of the Module, running libevent's loop: it owns  *)
(*              the JobThread, and JobRunnerPipe::OnRead is called there;   *)
(*   Worker     the thread Start creates: JobThread::run;                   *)
(*   Producers  other application threads that call Add or AddFront.        *)
(* A job goes from Add through the pipe to Main (preExecuteMain), into the  *)
(* list _jobs, to the Worker (execute), and through the same pipe back to   *)
(* Main (postExecuteMain).                                                  *)
(*                                                                         *)
(* Main reads and pushes without JobThread::_mutex, so each access of the   *)
(* Worker to _jobs is an action of its own: size(), front(), pop_front().   *)
(* Elsewhere one action stands for the statements between two points where  *)
(* another thread can get in between.                                       *)
(***************************************************************************)
EXTENDS Naturals, Sequences, FiniteSets

CONSTANTS
    Jobs,        \* the Job objects the application hands over, each one once
    Urgent,      \* those it hands over with AddFront, the others with Add
    Quiet,       \* those whose runPostHook it may set to false
    Producers,   \* application threads other than Main and the Worker
    Main, Worker,
    NoJob, NoThread,
    PipeCap,     \* messages the kernel's pipe buffer holds
    AddFrom,     \* the program points Add and AddFront are called from
    OwnerOps     \* which of Stop and Join the owner calls

Threads == Producers \cup {Main, Worker}

\* Program points of application code, where it may call into a JobThread:
\* a producer, Main in another callback, and the three hooks of a job.
CallSites == {"idle", "loop", "pre", "post", "exec"}

ASSUME ThreadsAssumption ==
    /\ Main # Worker
    /\ Main \notin Producers
    /\ Worker \notin Producers
    /\ NoThread \notin Threads
ASSUME JobsAssumption == NoJob \notin Jobs
ASSUME PipeCapAssumption == PipeCap \in Nat \ {0}
ASSUME UseAssumption ==
    /\ Urgent \subseteq Jobs
    /\ Quiet \subseteq Jobs
    /\ AddFrom \subseteq CallSites
    /\ OwnerOps \subseteq {"stop", "join"}

VARIABLES
    pc,        \* where each thread is
    back,      \* where a thread inside Add returns to
    adding,    \* the job a thread inside Add was given
    hand,      \* the job Main's OnRead or the Worker's run is busy with
    mode,      \* the mode of the message OnRead is busy with
    pipe,      \* JobThread::_pipe, oldest message first
    jobs,      \* JobThread::_jobs, front first
    mutex,     \* the holder of JobThread::_mutex
    stopLock,  \* Thread::_mutex is locked: the thread should continue
    hook,      \* Job::runPostHook
    done,      \* jobs let go of, deleted if shouldDelete() says so
    list,      \* what unlocked accesses of Main have done to the list, see below
    listed     \* jobs that were ever a node of the list

vars == <<pc, back, adding, hand, mode, pipe, jobs, mutex, stopLock, hook,
          done, list, listed>>

Kernel == INSTANCE MessagePipe

Modes == {"back", "front", "done"}      \* JobRunner::mode 0, 1 and 2
Messages == [mode : Modes, job : Jobs]

MainAt == {"loop", "startLock", "joining", "read", "pre", "push", "signal",
           "post"}
WorkerAt == {"unborn", "check", "take", "test", "sleep", "wait", "pop", "unlink",
             "exec", "finish", "report", "exited"}
InAdd == {"addLock", "addWrite"}

\* What unlocked pushes have done to _jobs so far.
\*   sound    nothing: pop_front() removed the node front() had read, each time
\*   slipped  a push_front() came between the two, and they met different nodes
\*   torn     two accesses overlapped, or the process is gone: where the links
\*            and the size lead is left to the machine
ListStates == {"sound", "slipped", "torn"}

\* The program points of thread t; all threads end with the process.
PointsOf(t) ==
    InAdd \cup {"dead"} \cup (CASE t = Main   -> MainAt
                              [] t = Worker -> WorkerAt
                              [] OTHER      -> {"idle"})

Crashed == pc[Main] = "dead"

\* Where a thread is in its own code: a call of Add made from a hook is part
\* of that hook.
At(t) == IF pc[t] \in InAdd THEN back[t] ELSE pc[t]

Range(s) == {s[i] : i \in DOMAIN s}
JobsInPipe == {pipe[i].job : i \in DOMAIN pipe}

\* The application still owns the job: it never called Add or AddFront with it.
Fresh(j) ==
    /\ j \notin done \cup listed \cup JobsInPipe \cup Range(jobs)
    /\ \A t \in Threads : adding[t] # j /\ hand[t] # j

Init ==
    /\ pc = [t \in Threads |-> CASE t = Main   -> "loop"
                                 [] t = Worker -> "unborn"
                                 [] OTHER      -> "idle"]
    /\ back = [t \in Threads |-> "idle"]
    /\ adding = [t \in Threads |-> NoJob]
    /\ hand = [t \in Threads |-> NoJob]
    /\ mode = "done"
    /\ pipe = << >>
    /\ jobs = << >>
    /\ mutex = NoThread
    /\ stopLock = FALSE
    /\ hook = [j \in Jobs |-> TRUE]
    /\ done = {}
    /\ list = "sound"
    /\ listed = {}

Goto(t, point) == pc' = [pc EXCEPT ![t] = point]

-----------------------------------------------------------------------------
\* Thread::Start, Stop and Join, called by the owner between two callbacks.

\* pthread_create succeeds: from here on the new thread runs.
StartCreate ==
    /\ pc[Main] = "loop"
    /\ pc[Worker] = "unborn"
    /\ pc' = [pc EXCEPT ![Main] = "startLock", ![Worker] = "check"]
    /\ UNCHANGED <<back, adding, hand, mode, pipe, jobs, mutex, stopLock, hook,
                   done, list, listed>>

\* Only then does Start lock the mutex that means "continue".
StartLock ==
    /\ pc[Main] = "startLock"
    /\ ~stopLock
    /\ stopLock' = TRUE
    /\ Goto(Main, "loop")
    /\ UNCHANGED <<back, adding, hand, mode, pipe, jobs, mutex, hook, done, list, listed>>

Stop ==
    /\ "stop" \in OwnerOps
    /\ pc[Main] = "loop"
    /\ stopLock' = FALSE
    /\ UNCHANGED <<pc, back, adding, hand, mode, pipe, jobs, mutex, hook, done,
                   list, listed>>

JoinCall ==
    /\ "join" \in OwnerOps
    /\ pc[Main] = "loop"
    /\ pc[Worker] # "unborn"
    /\ Goto(Main, "joining")
    /\ UNCHANGED <<back, adding, hand, mode, pipe, jobs, mutex, stopLock, hook,
                   done, list, listed>>

\* pthread_join returns: the thread is gone and may be started once more.
JoinReturn ==
    /\ pc[Main] = "joining"
    /\ pc[Worker] = "exited"
    /\ pc' = [pc EXCEPT ![Main] = "loop", ![Worker] = "unborn"]
    /\ UNCHANGED <<back, adding, hand, mode, pipe, jobs, mutex, stopLock, hook,
                   done, list, listed>>

-----------------------------------------------------------------------------
\* Add and AddFront, on any thread.  (Add(NULL) returns at once.)

AddCall(t, j) ==
    /\ pc[t] \in AddFrom
    /\ Fresh(j)
    /\ adding' = [adding EXCEPT ![t] = j]
    /\ back' = [back EXCEPT ![t] = pc[t]]
    /\ Goto(t, "addLock")
    /\ UNCHANGED <<hand, mode, pipe, jobs, mutex, stopLock, hook, done, list, listed>>

AddLock(t) ==
    /\ pc[t] = "addLock"
    /\ mutex = NoThread
    /\ mutex' = t
    /\ Goto(t, "addWrite")
    /\ UNCHANGED <<back, adding, hand, mode, pipe, jobs, stopLock, hook, done,
                   list, listed>>

\* The write may sleep in the kernel, the mutex held; on return it is freed.
AddWrite(t) ==
    /\ pc[t] = "addWrite"
    /\ Kernel!HasRoom(pipe)
    /\ pipe' = Kernel!Written(pipe,
                 [mode |-> IF adding[t] \in Urgent THEN "front" ELSE "back",
                  job  |-> adding[t]])
    /\ adding' = [adding EXCEPT ![t] = NoJob]
    /\ mutex' = NoThread
    /\ Goto(t, back[t])
    /\ UNCHANGED <<back, hand, mode, jobs, stopLock, hook, done, list, listed>>

\* The application no longer wants postExecuteMain: Main in any callback that
\* still knows the job, or execute() itself.
ClearHook(j) ==
    /\ j \in Quiet \ done
    /\ \/ pc[Main] \in {"loop", "pre", "post"}
       \/ pc[Worker] = "exec" /\ hand[Worker] = j
    /\ hook[j]
    /\ hook' = [hook EXCEPT ![j] = FALSE]
    /\ UNCHANGED <<pc, back, adding, hand, mode, pipe, jobs, mutex, stopLock, done,
                   list, listed>>

-----------------------------------------------------------------------------
\* JobRunnerPipe::OnRead on Main: one message after the other until read(2)
\* finds none; no other callback of Main runs in between.

\* The JobThread lets go of job j: it is deleted if shouldDelete() says so.
LetGo(j) == done' = done \cup {j}

\* What a test of runPostHook may find: the memory of a deleted job may by then
\* hold anything.
HookOf(j) == IF j \in done THEN BOOLEAN ELSE {hook[j]}

\* Mutant: OnRead locks JobThread::_mutex before it looks at a job.
ReadNewJobLocks ==
    /\ pc[Main] \in {"loop", "read"}
    /\ mutex = NoThread
    /\ Kernel!Readable(pipe)
    /\ Kernel!NextMessage(pipe).mode \in {"back", "front"}
    /\ mode' = Kernel!NextMessage(pipe).mode
    /\ hand' = [hand EXCEPT ![Main] = Kernel!NextMessage(pipe).job]
    /\ pipe' = Kernel!AfterRead(pipe)
    /\ Goto(Main, "pre")
    /\ UNCHANGED <<back, adding, jobs, mutex, stopLock, hook, done, list, listed>>

ReadNewJob ==
    /\ pc[Main] \in {"loop", "read"}
    /\ Kernel!Readable(pipe)
    /\ Kernel!NextMessage(pipe).mode \in {"back", "front"}
    /\ mode' = Kernel!NextMessage(pipe).mode
    /\ hand' = [hand EXCEPT ![Main] = Kernel!NextMessage(pipe).job]
    /\ pipe' = Kernel!AfterRead(pipe)
    /\ Goto(Main, "pre")
    /\ UNCHANGED <<back, adding, jobs, mutex, stopLock, hook, done, list, listed>>

\* Mutant: a job without a post hook is forgotten instead of let go of.
ReadExecutedJobLeaks ==
    /\ pc[Main] \in {"loop", "read"}
    /\ Kernel!Readable(pipe)
    /\ Kernel!NextMessage(pipe).mode = "done"
    /\ LET j == Kernel!NextMessage(pipe).job IN
         \/ TRUE \in HookOf(j) /\ hand' = [hand EXCEPT ![Main] = j] /\ Goto(Main, "post")
         \/ FALSE \in HookOf(j) /\ UNCHANGED hand /\ Goto(Main, "read")
    /\ pipe' = Kernel!AfterRead(pipe)
    /\ UNCHANGED <<back, adding, mode, jobs, mutex, stopLock, hook, done, list, listed>>

ReadExecutedJob ==
    /\ pc[Main] \in {"loop", "read"}
    /\ Kernel!Readable(pipe)
    /\ Kernel!NextMessage(pipe).mode = "done"
    /\ LET j == Kernel!NextMessage(pipe).job IN
         \/ /\ TRUE \in HookOf(j)
            /\ hand' = [hand EXCEPT ![Main] = j]
            /\ Goto(Main, "post")
            /\ UNCHANGED done
         \/ /\ FALSE \in HookOf(j)
            /\ LetGo(j)
            /\ Goto(Main, "read")
            /\ UNCHANGED hand
    /\ pipe' = Kernel!AfterRead(pipe)
    /\ UNCHANGED <<back, adding, mode, jobs, mutex, stopLock, hook, list, listed>>

ReadNothing ==
    /\ pc[Main] = "read"
    /\ ~Kernel!Readable(pipe)
    /\ Goto(Main, "loop")
    /\ UNCHANGED <<back, adding, hand, mode, pipe, jobs, mutex, stopLock, hook,
                   done, list, listed>>

\* preExecuteMain() returns true.
PreAccept ==
    /\ pc[Main] = "pre"
    /\ Goto(Main, "push")
    /\ UNCHANGED <<back, adding, hand, mode, pipe, jobs, mutex, stopLock, hook,
                   done, list, listed>>

\* Mutant: a refused job is forgotten.
PreRefuseLeaks ==
    /\ pc[Main] = "pre"
    /\ hand' = [hand EXCEPT ![Main] = NoJob]
    /\ mode' = "done"
    /\ Goto(Main, "read")
    /\ UNCHANGED <<back, adding, pipe, jobs, mutex, stopLock, hook, done, list, listed>>

\* preExecuteMain() returns false.
PreRefuse ==
    /\ pc[Main] = "pre"
    /\ LetGo(hand[Main])
    /\ hand' = [hand EXCEPT ![Main] = NoJob]
    /\ mode' = "done"
    /\ Goto(Main, "read")
    /\ UNCHANGED <<back, adding, pipe, jobs, mutex, stopLock, hook, list, listed>>

\* The list becomes s.  A torn one has no order: its nodes are those of listed.
Relink(s) == jobs' = IF list = "torn" THEN << >> ELSE s

\* push_back or push_front runs without the mutex.  A push_front that comes
\* between the Worker's front() and pop_front() makes the two differ.
AfterPush ==
    /\ listed' = listed \cup {hand[Main]}
    /\ list' = IF list = "sound" /\ mode = "front" /\ pc[Worker] = "unlink"
               THEN "slipped" ELSE list
    /\ hand' = [hand EXCEPT ![Main] = NoJob]
    /\ mode' = "done"
    /\ Goto(Main, "signal")
    /\ UNCHANGED <<back, adding, pipe, mutex, stopLock, hook, done>>

\* Mutants: mode is ignored.
PushJobBack ==
    /\ pc[Main] = "push"
    /\ Relink(Append(jobs, hand[Main]))
    /\ AfterPush

PushJobFront ==
    /\ pc[Main] = "push"
    /\ Relink(<<hand[Main]>> \o jobs)
    /\ AfterPush

PushJob ==
    /\ pc[Main] = "push"
    /\ Relink(IF mode = "front" THEN <<hand[Main]>> \o jobs
                                ELSE Append(jobs, hand[Main]))
    /\ AfterPush

\* Points at which the Worker is about to access the list, or in the middle.
ListAccess == {"test", "pop", "unlink"}

\* The push overlaps an access of the Worker, a data race, and tears the list.
\* From then on size() may say anything, nodes may be out of reach, and front()
\* may lead to any node there ever was, freed ones included.
Tear ==
    /\ pc[Main] = "push"
    /\ pc[Worker] \in ListAccess
    /\ list # "torn"
    /\ list' = "torn"
    /\ jobs' = << >>
    /\ UNCHANGED <<pc, back, adding, hand, mode, pipe, mutex, stopLock, hook,
                   done, listed>>

\* A thread uses a job the JobThread has let go of.
UsesDeleted ==
    \/ {hand[Main], hand[Worker]} \cap done # {}
    \/ /\ pc[Main] \in {"loop", "read"}
       /\ Kernel!Readable(pipe)
       /\ Kernel!NextMessage(pipe).job \in done

\* Following a torn link, or using a deleted job, may end the process, and the
\* memory of all threads goes with it.
Crash ==
    /\ ~Crashed
    /\ \/ list = "torn" /\ (pc[Main] = "push" \/ pc[Worker] \in ListAccess)
       \/ UsesDeleted
    /\ pc' = [t \in Threads |-> "dead"]
    /\ back' = [t \in Threads |-> "idle"]
    /\ adding' = [t \in Threads |-> NoJob]
    /\ hand' = [t \in Threads |-> NoJob]
    /\ hook' = [j \in Jobs |-> TRUE]
    /\ mode' = "done" /\ mutex' = NoThread /\ stopLock' = FALSE
    /\ pipe' = << >> /\ jobs' = << >> /\ listed' = {}
    /\ list' = "torn"
    /\ UNCHANGED done

\* CondVar::Signal wakes a Worker that waits; otherwise it is forgotten.
Signal ==
    /\ pc[Main] = "signal"
    /\ pc' = [pc EXCEPT ![Main] = "read",
                        ![Worker] = IF @ = "wait" THEN "take" ELSE @]
    /\ UNCHANGED <<back, adding, hand, mode, pipe, jobs, mutex, stopLock, hook,
                   done, list, listed>>

\* postExecuteMain() returns.
PostReturn ==
    /\ pc[Main] = "post"
    /\ LetGo(hand[Main])
    /\ hand' = [hand EXCEPT ![Main] = NoJob]
    /\ Goto(Main, "read")
    /\ UNCHANGED <<back, adding, mode, pipe, jobs, mutex, stopLock, hook, list, listed>>

-----------------------------------------------------------------------------
\* JobThread::run and Remove on the Worker.

\* Mutant: the loop in run() does not ask.
ShouldContinueAlways ==
    /\ pc[Worker] = "check"
    /\ Goto(Worker, "take")
    /\ UNCHANGED <<back, adding, hand, mode, pipe, jobs, mutex, stopLock, hook,
                   done, list, listed>>

\* shouldContinue(): trylock fails as long as Start's lock is held.
ShouldContinue ==
    /\ pc[Worker] = "check"
    /\ Goto(Worker, IF stopLock THEN "take" ELSE "exited")
    /\ UNCHANGED <<back, adding, hand, mode, pipe, jobs, mutex, stopLock, hook,
                   done, list, listed>>

\* Remove locks the mutex, on entry and when a Wait returns.
TakeMutex ==
    /\ pc[Worker] = "take"
    /\ mutex = NoThread
    /\ mutex' = Worker
    /\ Goto(Worker, "test")
    /\ UNCHANGED <<back, adding, hand, mode, pipe, jobs, stopLock, hook, done,
                   list, listed>>

TestSize ==
    /\ pc[Worker] = "test"
    /\ \/ (jobs = << >> \/ list = "torn") /\ Goto(Worker, "sleep")
       \/ (jobs # << >> \/ list = "torn") /\ Goto(Worker, "pop")
    /\ UNCHANGED <<back, adding, hand, mode, pipe, jobs, mutex, stopLock, hook,
                   done, list, listed>>

\* CondVar::Wait frees the mutex and goes to sleep in one step.
Wait ==
    /\ pc[Worker] = "sleep"
    /\ mutex' = NoThread
    /\ Goto(Worker, "wait")
    /\ UNCHANGED <<back, adding, hand, mode, pipe, jobs, stopLock, hook, done,
                   list, listed>>

\* Mutant: `if` for `while` around Wait, the size is not tested again.
SpuriousWakeupPops ==
    /\ pc[Worker] = "wait"
    /\ mutex = NoThread
    /\ mutex' = Worker
    /\ Goto(Worker, "pop")
    /\ UNCHANGED <<back, adding, hand, mode, pipe, jobs, stopLock, hook, done,
                   list, listed>>

\* pthread_cond_wait may return without a signal.
SpuriousWakeup ==
    /\ pc[Worker] = "wait"
    /\ Goto(Worker, "take")
    /\ UNCHANGED <<back, adding, hand, mode, pipe, jobs, mutex, stopLock, hook,
                   done, list, listed>>

\* front() reads the first node, or where a torn link leads.
Front ==
    /\ pc[Worker] = "pop"
    /\ \E j \in IF list = "torn" THEN listed ELSE {Head(jobs)} :
         hand' = [hand EXCEPT ![Worker] = j]
    /\ Goto(Worker, "unlink")
    /\ UNCHANGED <<back, adding, mode, pipe, jobs, mutex, stopLock, hook, done,
                   list, listed>>

\* Mutant: pop_front() is forgotten.
PopFrontStays ==
    /\ pc[Worker] = "unlink"
    /\ mutex' = NoThread
    /\ Goto(Worker, "exec")
    /\ UNCHANGED <<back, adding, hand, mode, pipe, jobs, stopLock, hook, done,
                   list, listed>>

\* pop_front() removes what is the first node now, and the mutex is freed on
\* return.
PopFront ==
    /\ pc[Worker] = "unlink"
    /\ Relink(Tail(jobs))
    /\ mutex' = NoThread
    /\ Goto(Worker, "exec")
    /\ UNCHANGED <<back, adding, hand, mode, pipe, stopLock, hook, done, list,
                   listed>>

\* execute() returns.
ExecuteReturn ==
    /\ pc[Worker] = "exec"
    /\ Goto(Worker, "finish")
    /\ UNCHANGED <<back, adding, hand, mode, pipe, jobs, mutex, stopLock, hook,
                   done, list, listed>>

\* Mutant: the `else` before the delete is missing.
FinishJobLetsGo ==
    /\ pc[Worker] = "finish"
    /\ LetGo(hand[Worker])
    /\ \/ /\ TRUE \in HookOf(hand[Worker])
          /\ Goto(Worker, "report")
          /\ UNCHANGED hand
       \/ /\ FALSE \in HookOf(hand[Worker])
          /\ hand' = [hand EXCEPT ![Worker] = NoJob]
          /\ Goto(Worker, "check")
    /\ UNCHANGED <<back, adding, mode, pipe, jobs, mutex, stopLock, hook, list, listed>>

\* Report to Main if the job wants its post hook, let go of it otherwise.
FinishJob ==
    /\ pc[Worker] = "finish"
    /\ \/ /\ TRUE \in HookOf(hand[Worker])
          /\ Goto(Worker, "report")
          /\ UNCHANGED <<hand, done>>
       \/ /\ FALSE \in HookOf(hand[Worker])
          /\ LetGo(hand[Worker])
          /\ hand' = [hand EXCEPT ![Worker] = NoJob]
          /\ Goto(Worker, "check")
    /\ UNCHANGED <<back, adding, mode, pipe, jobs, mutex, stopLock, hook, list, listed>>

\* The write may sleep in the kernel, no mutex held.
ReportJob ==
    /\ pc[Worker] = "report"
    /\ Kernel!HasRoom(pipe)
    /\ pipe' = Kernel!Written(pipe, [mode |-> "done", job |-> hand[Worker]])
    /\ hand' = [hand EXCEPT ![Worker] = NoJob]
    /\ Goto(Worker, "check")
    /\ UNCHANGED <<back, adding, mode, jobs, mutex, stopLock, hook, done, list, listed>>

-----------------------------------------------------------------------------
OwnerNext == StartCreate \/ StartLock \/ Stop \/ JoinCall \/ JoinReturn

AddNext ==
    \/ \E t \in Threads, j \in Jobs : AddCall(t, j)
    \/ \E t \in Threads : AddLock(t) \/ AddWrite(t)
    \/ \E j \in Jobs : ClearHook(j)

OnRead ==
    \/ ReadNewJob \/ ReadExecutedJob \/ ReadNothing
    \/ PreAccept \/ PreRefuse \/ PushJob \/ Signal \/ PostReturn

run ==
    \/ ShouldContinue \/ TakeMutex \/ TestSize \/ Wait \/ Front \/ PopFront
    \/ ExecuteReturn \/ FinishJob \/ ReportJob

Next == OwnerNext \/ AddNext \/ OnRead \/ run \/ SpuriousWakeup \/ Tear \/ Crash

Spec == Init /\ [][Next]_vars

\* Every thread gets to run and the hooks of the jobs return.  A thread that
\* sleeps on the mutex gets it if it keeps being freed: each unlock wakes a
\* sleeper, which loses the race for it only so often.  A condition variable
\* wakes its thread without a signal only by chance.
Fairness ==
    /\ WF_vars(StartLock)
    /\ WF_vars(JoinReturn)
    /\ \A t \in Threads : SF_vars(AddLock(t)) /\ WF_vars(AddWrite(t))
    /\ WF_vars(OnRead)
    /\ WF_vars(run)

FairSpec == Spec /\ Fairness

-----------------------------------------------------------------------------
(***************************************************************************)
(* Properties.                                                              *)
(***************************************************************************)

\* Every variable keeps its type: Main, the Worker and the producers are each
\* at one of their own program points, and the pipe never overflows.
TypeOK ==
    /\ pc \in [Threads -> PointsOf(Main) \cup PointsOf(Worker) \cup {"idle"}]
    /\ \A t \in Threads : pc[t] \in PointsOf(t)
    /\ back \in [Threads -> PointsOf(Main) \cup PointsOf(Worker) \cup {"idle"}]
    /\ adding \in [Threads -> Jobs \cup {NoJob}]
    /\ hand \in [Threads -> Jobs \cup {NoJob}]
    /\ mode \in Modes
    /\ pipe \in Seq(Messages) /\ Len(pipe) <= PipeCap
    /\ jobs \in Seq(Jobs)
    /\ mutex \in Threads \cup {NoThread}
    /\ stopLock \in BOOLEAN
    /\ hook \in [Jobs -> BOOLEAN]
    /\ done \subseteq Jobs
    /\ list \in ListStates
    /\ listed \subseteq Jobs

\* The jobs a thread has in its hands, as a handler or as a caller of Add.
\* Between front() and pop_front() the job is still the list's.
Held(t) ==
    {IF t = Worker /\ pc[t] = "unlink" THEN NoJob ELSE hand[t], adding[t]} \ {NoJob}

\* As long as the list is sound, a job is in one place only: being added by one
\* thread, one message in the pipe, handled by one thread, or one node of the
\* list; and one the JobThread let go of (and may have deleted,
\* JobThread.cpp:52, 59 and 123) is in none.  So no thread touches a deleted
\* job, none is deleted twice, and pop_front() removes the job front() read.
OneOwner ==
    list = "sound" =>
      /\ \A i, k \in DOMAIN pipe : pipe[i].job = pipe[k].job => i = k
      /\ \A i, k \in DOMAIN jobs : jobs[i] = jobs[k] => i = k
      /\ JobsInPipe \cap Range(jobs) = {}
      /\ \A t \in Threads :
           /\ hand[t] = adding[t] => hand[t] = NoJob
           /\ Held(t) \cap (JobsInPipe \cup Range(jobs)) = {}
           /\ \A u \in Threads \ {t} : Held(t) \cap Held(u) = {}
           /\ Held(t) \cap done = {}
      /\ done \cap (JobsInPipe \cup Range(jobs)) = {}
      /\ pc[Worker] = "unlink" => jobs # << >> /\ hand[Worker] = Head(jobs)

\* What a job's hooks have been through, from where the job is.
PhaseOf(j) ==
    IF j \in done THEN "done"
    ELSE IF j \in Range(jobs) THEN "ready"
    ELSE IF \E i \in DOMAIN pipe : pipe[i].job = j /\ pipe[i].mode = "done" THEN "ran"
    ELSE IF j \in JobsInPipe \/ \E t \in Threads : adding[t] = j THEN "queued"
    ELSE IF hand[Main] = j THEN
           CASE At(Main) = "pre"  -> "queued"
             [] At(Main) = "push" -> "ready"
             [] OTHER             -> "ran"
    ELSE IF hand[Worker] = j THEN
           CASE At(Worker) = "unlink" -> "ready"
             [] At(Worker) = "exec"   -> "running"
             [] OTHER                 -> "ran"
    ELSE IF j \in listed THEN "ready"     \* removed by pop_front(), never executed
    ELSE "fresh"

Phase == [j \in Jobs |-> PhaseOf(j)]

Contract == INSTANCE JobContract WITH phase <- Phase

\* As long as the list is sound, the threads together keep the contract of a
\* single job: preExecuteMain, then execute unless it was refused, then
\* postExecuteMain if asked for, then the job is let go of, each once and on the
\* one thread it belongs to (JobThread.h:40-58).
KeepsContract ==
    Contract!Init /\ [][list' = "sound" => Contract!Next]_Phase

\* The jobs on their way to execute() are in the list, then the one OnRead handles,
\* then in the pipe.
Handled(j) == At(Main) \in {"pre", "push"} /\ hand[Main] = j
Sent(i, j) == pipe[i].mode # "done" /\ pipe[i].job = j

Ahead(a, b) ==
    \/ \E i, k \in DOMAIN jobs : i < k /\ jobs[i] = a /\ jobs[k] = b
    \/ \E i, k \in DOMAIN pipe : i < k /\ Sent(i, a) /\ Sent(k, b)
    \/ a \in Range(jobs) /\ Handled(b)
    \/ (a \in Range(jobs) \/ Handled(a)) /\ \E k \in DOMAIN pipe : Sent(k, b)

\* Jobs given to Add reach the Worker in the order of the Add calls: from the
\* write into the pipe to pop_front no other one overtakes a job, whatever
\* AddFront and refusals do to the rest of the line, also when an AddFront slips
\* between front and pop_front, and as long as no link is torn
\* (JobThread.cpp:40-50, 106-107).
AddsInOrder ==
    [][\A a, b \in Jobs \ Urgent :
          Ahead(a, b) => \/ Ahead(a, b)'
                         \/ hand'[Worker] = a
                         \/ {a, b} \cap done' # {}
                         \/ list' = "torn"]_vars

\* A job given to AddFront that preExecuteMain accepted is not behind a job of
\* Add in the list (JobThread.cpp:47-48), as long as no link is torn.
UrgentFirst ==
    list # "torn" =>
      \A i, k \in DOMAIN jobs : i < k /\ jobs[k] \in Urgent => jobs[i] \in Urgent

\* Exactly the thread inside its critical section holds JobThread::_mutex, so
\* the Worker never pops from a list it has not found non-empty itself.
MutexHeldInside ==
    ~Crashed =>
      /\ \A t \in Threads :
           mutex = t <=>
             \/ pc[t] = "addWrite"
             \/ t = Worker /\ pc[t] \in {"test", "sleep", "pop", "unlink"}
      /\ pc[Worker] \in {"pop", "unlink"} /\ list # "torn" => jobs # << >>

-----------------------------------------------------------------------------
\* Liveness.

\* Each Add of a producer, or of a job that is executed, returns, however full
\* the pipe is and whoever holds the mutex: OnRead takes no lock, so Main always
\* empties the pipe (JobThread.cpp:83-93, 25-65).
AddReturns ==
    \A t \in Producers \cup {Worker} : []<>(pc[t] \notin InAdd)

\* This step leaves job j in phase from, or takes it to one in to.
Moves(j, from, to) == PhaseOf(j) = from => PhaseOf(j)' \in {from} \cup to \/ Crashed'

\* A message in the pipe is read, and a job that was executed is let go of on the
\* thread that should, with its post hook run if it has one
\* (JobThread.cpp:53-62, 116-124).
Settled ==
    /\ [][\A j \in Jobs : Moves(j, "ran", {"done"})]_vars
    /\ \A j \in Jobs : []<>(PhaseOf(j) # "ran" \/ Crashed)

\* preExecuteMain is asked about every job given to Add, and its answer decides
\* (JobThread.cpp:40-52).
Considered ==
    /\ [][\A j \in Jobs : Moves(j, "queued", {"ready", "done"})]_vars
    /\ \A j \in Jobs : []<>(PhaseOf(j) # "queued" \/ Crashed)

\* A Worker that executes a job when Stop is called ends after that job, and
\* neither starts another one from the list nor goes to sleep for one.
StopEndsRun ==
    (~stopLock /\ At(Worker) \in {"exec", "finish", "report"})
        ~> (Crashed \/ stopLock \/ pc[Worker] \in {"exited", "unborn"})

-----------------------------------------------------------------------------
\* What the documentation promises and the code does not keep.

\* A job is executed once, and not when it may have been deleted, even if no link
\* of the list is ever torn: "EXPECT_EQ(1, counter++);" in execute() fails if it
\* is called again (JobThread_test.cpp:72), "Add a new job to the front of our
\* job queue" (JobThread.h:76).
ExecutesOnce ==
    list # "torn" /\ pc[Worker] = "exec" => hand[Worker] \notin done

\* A Worker that waits has nothing to do: "A job queue that will run your jobs
\* on a seperate thread" (JobThread.h:66).
WaitsOnlyWhenIdle ==
    pc[Worker] = "wait" /\ jobs # << >> => pc[Main] = "signal"

\* A thread that was told to stop ends: "Tells the thread to stop"
\* (Thread.h:66), "True if you should not stop" (Thread.h:87).
StopEndsThread ==
    (~stopLock /\ pc[Main] # "startLock" /\ pc[Worker] # "unborn")
        ~> (Crashed \/ stopLock \/ pc[Worker] \in {"exited", "unborn"})
================================================================================
