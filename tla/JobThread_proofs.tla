---------------------------- MODULE JobThread_proofs ----------------------------
(***************************************************************************)
(* Theorems about JobThread for every number of jobs, producers and pipe    *)
(* messages, and whatever places Add is called from: its safety invariants, *)
(* the order of the jobs, and that it implements JobContract.               *)
(***************************************************************************)
EXTENDS JobThread, TLAPS

\* A thread inside Add holds a job and goes back to one of its own points.
CallsOK ==
    \A t \in Threads :
        pc[t] \in InAdd => /\ adding[t] \in Jobs
                           /\ back[t] \in PointsOf(t) \cap CallSites

\* Main and the Worker have a job in hand wherever they use one, also when a
\* hook of that job is inside Add; and the Worker pops only what is there, as long
\* as no link of the list is torn.
HandsOK ==
    /\ \/ pc[Main] \in {"pre", "push", "post"}
       \/ pc[Main] \in InAdd /\ back[Main] \in {"pre", "post"}
       => hand[Main] \in Jobs
    /\ pc[Worker] \in {"unlink", "exec", "finish", "report"} \cup InAdd
         => hand[Worker] \in Jobs
    /\ pc[Worker] \in {"pop", "unlink"} /\ list # "torn" => jobs # << >>

TypeInv == TypeOK /\ CallsOK /\ HandsOK

\* The values of TypeOK's sets of program points, for the provers.
LEMMA Points ==
    /\ PointsOf(Main) = InAdd \cup {"dead"} \cup MainAt
    /\ PointsOf(Worker) = InAdd \cup {"dead"} \cup WorkerAt
    /\ \A t \in Producers : PointsOf(t) = InAdd \cup {"dead", "idle"}
    /\ Main \in Threads /\ Worker \in Threads /\ Main # Worker
    /\ \A t \in Threads : t # Main /\ t # Worker => t \in Producers
BY ThreadsAssumption DEF PointsOf, Threads, InAdd

\* A thread inside PointsOf stays there when it goes to one of its points.
LEMMA GotoOK ==
    ASSUME TypeOK, NEW t \in Threads, NEW p \in PointsOf(t), Goto(t, p)
    PROVE  /\ pc' \in [Threads -> PointsOf(Main) \cup PointsOf(Worker) \cup {"idle"}]
           /\ \A u \in Threads : pc'[u] \in PointsOf(u)
<1>1. PointsOf(t) \subseteq PointsOf(Main) \cup PointsOf(Worker) \cup {"idle"}
  BY Points
<1>2. QED
  BY <1>1 DEF TypeOK, Goto

LEMMA TypeInit == Init => TypeInv
<1>1. SUFFICES ASSUME Init PROVE TypeInv
  OBVIOUS
<1>2. pc \in [Threads -> PointsOf(Main) \cup PointsOf(Worker) \cup {"idle"}]
  BY <1>1, Points DEF Init, MainAt, WorkerAt
<1>3. \A t \in Threads : pc[t] \in PointsOf(t) /\ pc[t] \notin InAdd
  BY <1>1, Points DEF Init, MainAt, WorkerAt, InAdd
<1>4. hook \in [Jobs -> BOOLEAN] /\ stopLock \in BOOLEAN
  BY <1>1, Zenon DEF Init
<1>5. pipe \in Seq(Messages) /\ Len(pipe) <= PipeCap /\ jobs \in Seq(Jobs)
  BY <1>1, PipeCapAssumption DEF Init
<1>6. HandsOK
  BY <1>1, Points DEF Init, HandsOK, InAdd
<1>7. QED
  BY <1>1, <1>2, <1>3, <1>4, <1>5, <1>6
     DEF Init, TypeInv, TypeOK, CallsOK, Modes, ListStates

\* What a step that moves one thread, and leaves Add's variables alone, keeps.
LEMMA GotoCalls ==
    ASSUME TypeInv, NEW t \in Threads, NEW p \in PointsOf(t) \ InAdd, Goto(t, p),
           UNCHANGED <<back, adding>>
    PROVE  CallsOK'
<1>1. ASSUME NEW u \in Threads, pc'[u] \in InAdd
      PROVE  u # t /\ pc[u] \in InAdd
  BY <1>1 DEF TypeInv, TypeOK, Goto
<1>2. QED
  BY <1>1 DEF TypeInv, CallsOK

\* The message at the head of the pipe, and what is left behind it.
LEMMA ReadType ==
    ASSUME TypeOK, pipe # << >>
    PROVE  /\ Head(pipe) \in Messages
           /\ Head(pipe).mode \in Modes /\ Head(pipe).job \in Jobs
           /\ Tail(pipe) \in Seq(Messages) /\ Len(Tail(pipe)) <= PipeCap
<1>1. pipe \in Seq(Messages) /\ Len(pipe) <= PipeCap /\ PipeCap \in Nat
  BY PipeCapAssumption DEF TypeOK
<1>2. Head(pipe) \in Messages /\ Tail(pipe) \in Seq(Messages)
  BY <1>1
<1>3. Len(Tail(pipe)) <= PipeCap
  BY <1>1
<1>4. QED
  BY <1>2, <1>3 DEF Messages

\* The steps of the owner.
LEMMA TypeOwner == TypeInv /\ OwnerNext => TypeInv'
<1> SUFFICES ASSUME TypeInv, OwnerNext PROVE TypeInv'
  OBVIOUS
<1> USE DEF TypeInv
<1>1. CASE StartCreate
  <2>1. pc' \in [Threads -> PointsOf(Main) \cup PointsOf(Worker) \cup {"idle"}]
        /\ \A t \in Threads : pc'[t] \in PointsOf(t)
    BY <1>1, Points DEF StartCreate, TypeOK, InAdd, MainAt, WorkerAt
  <2>2. CallsOK' /\ HandsOK'
    BY <1>1, Points DEF StartCreate, TypeOK, CallsOK, HandsOK, InAdd
  <2>3. QED
    BY <1>1, <2>1, <2>2 DEF StartCreate, TypeOK
<1>2. CASE StartLock
  <2>1. CallsOK' /\ HandsOK'
    BY <1>2, Points, GotoCalls DEF StartLock, TypeOK, HandsOK, InAdd, MainAt, Goto
  <2>2. QED
    BY <1>2, <2>1, Points, GotoOK DEF StartLock, TypeOK, InAdd, MainAt
<1>3. CASE Stop
  BY <1>3 DEF Stop, TypeOK, CallsOK, HandsOK
<1>4. CASE JoinCall
  <2>1. CallsOK' /\ HandsOK'
    BY <1>4, Points, GotoCalls DEF JoinCall, TypeOK, HandsOK, InAdd, MainAt, Goto
  <2>2. QED
    BY <1>4, <2>1, Points, GotoOK DEF JoinCall, TypeOK, InAdd, MainAt
<1>5. CASE JoinReturn
  <2>1. pc' \in [Threads -> PointsOf(Main) \cup PointsOf(Worker) \cup {"idle"}]
        /\ \A t \in Threads : pc'[t] \in PointsOf(t)
    BY <1>5, Points DEF JoinReturn, TypeOK, InAdd, MainAt, WorkerAt
  <2>2. CallsOK' /\ HandsOK'
    BY <1>5, Points DEF JoinReturn, TypeOK, CallsOK, HandsOK, InAdd
  <2>3. QED
    BY <1>5, <2>1, <2>2 DEF JoinReturn, TypeOK
<1>6. QED
  BY <1>1, <1>2, <1>3, <1>4, <1>5 DEF OwnerNext

\* The steps of Add and AddFront, and the application's ClearHook.
LEMMA TypeAdd == TypeInv /\ AddNext => TypeInv'
<1> SUFFICES ASSUME TypeInv, AddNext PROVE TypeInv'
  OBVIOUS
<1> USE DEF TypeInv
<1>1. ASSUME NEW t \in Threads, NEW j \in Jobs, AddCall(t, j) PROVE TypeInv'
  <2>1. "addLock" \in PointsOf(t) /\ pc[t] \in PointsOf(t) \cap CallSites
    BY <1>1, UseAssumption DEF AddCall, InAdd, PointsOf, TypeOK
  <2>2. PointsOf(t) \subseteq PointsOf(Main) \cup PointsOf(Worker) \cup {"idle"}
    BY Points
  <2>3. TypeOK'
    BY <1>1, <2>1, <2>2, GotoOK DEF AddCall, TypeOK
  <2>4. CallsOK'
    BY <1>1, <2>1 DEF AddCall, CallsOK, TypeOK, Goto
  <2>5. HandsOK'
    BY <1>1, <2>1, Points
       DEF AddCall, HandsOK, TypeOK, Goto, InAdd, CallSites, WorkerAt
  <2>6. QED
    BY <2>3, <2>4, <2>5
<1>2. ASSUME NEW t \in Threads, AddLock(t) PROVE TypeInv'
  <2>1. "addWrite" \in PointsOf(t)
    BY DEF PointsOf, InAdd
  <2>2. TypeOK'
    BY <1>2, <2>1, GotoOK DEF AddLock, TypeOK
  <2>3. CallsOK' /\ HandsOK'
    BY <1>2, Points DEF AddLock, CallsOK, HandsOK, TypeOK, Goto, InAdd
  <2>4. QED
    BY <2>2, <2>3
<1>3. ASSUME NEW t \in Threads, AddWrite(t) PROVE TypeInv'
  <2>1. back[t] \in PointsOf(t) \cap CallSites /\ adding[t] \in Jobs
    BY <1>3 DEF AddWrite, CallsOK, InAdd
  <2>2. back[t] \notin InAdd
    BY <2>1 DEF CallSites, InAdd
  <2>3. pipe' \in Seq(Messages) /\ Len(pipe') <= PipeCap
    BY <1>3, <2>1, PipeCapAssumption
       DEF AddWrite, TypeOK, Messages, Modes, Kernel!HasRoom, Kernel!Written
  <2>4. TypeOK'
    BY <1>3, <2>1, <2>3, GotoOK DEF AddWrite, TypeOK
  <2>5. CallsOK'
    BY <1>3, <2>2 DEF AddWrite, CallsOK, TypeOK, Goto
  <2>6. HandsOK'
    BY <1>3, <2>1, Points
       DEF AddWrite, HandsOK, TypeOK, Goto, InAdd, CallSites, WorkerAt
  <2>7. QED
    BY <2>4, <2>5, <2>6
<1>4. ASSUME NEW j \in Jobs, ClearHook(j) PROVE TypeInv'
  <2>1. hook' \in [Jobs -> BOOLEAN]
    BY <1>4 DEF ClearHook, TypeOK
  <2>2. QED
    BY <1>4, <2>1 DEF ClearHook, TypeOK, CallsOK, HandsOK
<1>5. QED
  BY <1>1, <1>2, <1>3, <1>4 DEF AddNext

\* The steps of JobRunnerPipe::OnRead.
LEMMA TypeOnRead == TypeInv /\ OnRead => TypeInv'
<1> SUFFICES ASSUME TypeInv, OnRead PROVE TypeInv'
  OBVIOUS
<1> USE DEF TypeInv
<1>1. CASE ReadNewJob
  <2> USE DEF Kernel!Readable, Kernel!NextMessage, Kernel!AfterRead
  <2>1. CallsOK' /\ HandsOK'
    BY <1>1, Points, ReadType, GotoCalls
       DEF ReadNewJob, TypeOK, HandsOK, InAdd, MainAt, Goto
  <2>2. QED
    BY <1>1, <2>1, Points, ReadType, GotoOK DEF ReadNewJob, TypeOK, InAdd, MainAt
<1>2. CASE ReadExecutedJob
  <2> USE DEF Kernel!Readable, Kernel!NextMessage, Kernel!AfterRead
  <2> DEFINE j == Head(pipe).job
  <2>1. j \in Jobs /\ Tail(pipe) \in Seq(Messages) /\ Len(Tail(pipe)) <= PipeCap
    BY <1>2, ReadType DEF ReadExecutedJob
  <2>2. CASE Goto(Main, "post") /\ hand' = [hand EXCEPT ![Main] = j] /\ UNCHANGED done
    <3>1. CallsOK' /\ HandsOK'
      BY <1>2, <2>1, <2>2, Points, GotoCalls
         DEF ReadExecutedJob, TypeOK, HandsOK, InAdd, MainAt, Goto
    <3>2. QED
      BY <1>2, <2>1, <2>2, <3>1, Points, GotoOK
         DEF ReadExecutedJob, TypeOK, InAdd, MainAt
  <2>3. CASE Goto(Main, "read") /\ LetGo(j) /\ UNCHANGED hand
    <3>1. CallsOK' /\ HandsOK'
      BY <1>2, <2>1, <2>3, Points, GotoCalls
         DEF ReadExecutedJob, TypeOK, HandsOK, InAdd, MainAt, Goto
    <3>2. QED
      BY <1>2, <2>1, <2>3, <3>1, Points, GotoOK
         DEF ReadExecutedJob, LetGo, TypeOK, InAdd, MainAt
  <2>4. QED
    BY <1>2, <2>2, <2>3 DEF ReadExecutedJob
<1>3. CASE ReadNothing
  <2>1. CallsOK' /\ HandsOK'
    BY <1>3, Points, GotoCalls DEF ReadNothing, TypeOK, HandsOK, InAdd, MainAt, Goto
  <2>2. QED
    BY <1>3, <2>1, Points, GotoOK DEF ReadNothing, TypeOK, InAdd, MainAt
<1>4. CASE PreAccept
  <2>1. CallsOK' /\ HandsOK'
    BY <1>4, Points, GotoCalls DEF PreAccept, TypeOK, HandsOK, InAdd, MainAt, Goto
  <2>2. QED
    BY <1>4, <2>1, Points, GotoOK DEF PreAccept, TypeOK, InAdd, MainAt
<1>5. CASE PreRefuse
  <2>1. CallsOK' /\ HandsOK'
    BY <1>5, Points, GotoCalls DEF PreRefuse, TypeOK, HandsOK, InAdd, MainAt, Goto
  <2>2. hand[Main] \in Jobs
    BY <1>5 DEF PreRefuse, HandsOK
  <2>3. QED
    BY <1>5, <2>1, <2>2, Points, GotoOK
       DEF PreRefuse, LetGo, TypeOK, InAdd, MainAt, Modes
<1>6. CASE PushJob
  <2>1. hand[Main] \in Jobs
    BY <1>6 DEF PushJob, HandsOK
  <2>2. jobs' \in Seq(Jobs) /\ (list # "torn" => jobs' # << >>)
    <3>1. jobs \in Seq(Jobs) /\ <<hand[Main]>> \in Seq(Jobs) /\ << >> \in Seq(Jobs)
      BY <2>1 DEF TypeOK
    <3>2. \/ list # "torn" /\ jobs' = <<hand[Main]>> \o jobs
          \/ list # "torn" /\ jobs' = Append(jobs, hand[Main])
          \/ list = "torn" /\ jobs' = << >>
      BY <1>6 DEF PushJob, Relink
    <3>3. CASE jobs' = <<hand[Main]>> \o jobs
      <4>1. jobs' \in Seq(Jobs) /\ Len(jobs') = 1 + Len(jobs)
        BY <3>1, <3>3
      <4>2. QED
        BY <3>1, <4>1
    <3>4. CASE jobs' = Append(jobs, hand[Main])
      BY <2>1, <3>1, <3>4
    <3>5. QED
      BY <3>1, <3>2, <3>3, <3>4
  <2>3. list' # "torn" => list # "torn"
    BY <1>6 DEF PushJob, AfterPush
  <2>4. list' \in ListStates /\ listed' \subseteq Jobs
    BY <1>6, <2>1 DEF PushJob, AfterPush, TypeOK, ListStates
  <2>5. CallsOK' /\ HandsOK'
    BY <1>6, <2>2, <2>3, Points, GotoCalls
       DEF PushJob, AfterPush, TypeOK, HandsOK, InAdd, MainAt, Goto
  <2>6. QED
    BY <1>6, <2>2, <2>4, <2>5, Points, GotoOK
       DEF PushJob, AfterPush, TypeOK, InAdd, MainAt, Modes
<1>7. CASE Signal
  <2>1. pc' \in [Threads -> PointsOf(Main) \cup PointsOf(Worker) \cup {"idle"}]
        /\ \A t \in Threads : pc'[t] \in PointsOf(t)
    BY <1>7, Points DEF Signal, TypeOK, MainAt, WorkerAt
  <2>2. CallsOK' /\ HandsOK'
    BY <1>7, Points DEF Signal, TypeOK, CallsOK, HandsOK, InAdd
  <2>3. QED
    BY <1>7, <2>1, <2>2 DEF Signal, TypeOK
<1>8. CASE PostReturn
  <2>1. CallsOK' /\ HandsOK'
    BY <1>8, Points, GotoCalls DEF PostReturn, TypeOK, HandsOK, InAdd, MainAt, Goto
  <2>2. hand[Main] \in Jobs
    BY <1>8 DEF PostReturn, HandsOK
  <2>3. QED
    BY <1>8, <2>1, <2>2, Points, GotoOK DEF PostReturn, LetGo, TypeOK, InAdd, MainAt
<1>9. QED
  BY <1>1, <1>2, <1>3, <1>4, <1>5, <1>6, <1>7, <1>8 DEF OnRead

\* The steps of JobThread::run, and the wakeup no Signal caused.
LEMMA TypeRun == TypeInv /\ (run \/ SpuriousWakeup) => TypeInv'
<1> SUFFICES ASSUME TypeInv, run \/ SpuriousWakeup PROVE TypeInv'
  OBVIOUS
<1> USE DEF TypeInv
<1>1. CASE ShouldContinue
  <2>1. CallsOK' /\ HandsOK'
    BY <1>1, Points, GotoCalls
       DEF ShouldContinue, TypeOK, HandsOK, InAdd, WorkerAt, Goto
  <2>2. QED
    BY <1>1, <2>1, Points, GotoOK DEF ShouldContinue, TypeOK, InAdd, WorkerAt
<1>2. CASE TakeMutex
  <2>1. CallsOK' /\ HandsOK'
    BY <1>2, Points, GotoCalls DEF TakeMutex, TypeOK, HandsOK, InAdd, WorkerAt, Goto
  <2>2. QED
    BY <1>2, <2>1, Points, GotoOK DEF TakeMutex, TypeOK, InAdd, WorkerAt
<1>3. CASE TestSize
  <2>1. CallsOK' /\ HandsOK'
    BY <1>3, Points, GotoCalls DEF TestSize, TypeOK, HandsOK, InAdd, WorkerAt, Goto
  <2>2. QED
    BY <1>3, <2>1, Points, GotoOK DEF TestSize, TypeOK, InAdd, WorkerAt
<1>4. CASE Wait
  <2>1. CallsOK' /\ HandsOK'
    BY <1>4, Points, GotoCalls DEF Wait, TypeOK, HandsOK, InAdd, WorkerAt, Goto
  <2>2. QED
    BY <1>4, <2>1, Points, GotoOK DEF Wait, TypeOK, InAdd, WorkerAt
<1>5. CASE SpuriousWakeup
  <2>1. CallsOK' /\ HandsOK'
    BY <1>5, Points, GotoCalls
       DEF SpuriousWakeup, TypeOK, HandsOK, InAdd, WorkerAt, Goto
  <2>2. QED
    BY <1>5, <2>1, Points, GotoOK DEF SpuriousWakeup, TypeOK, InAdd, WorkerAt
<1>6. CASE Front
  <2>1. PICK j \in Jobs : hand' = [hand EXCEPT ![Worker] = j]
    <3>1. list # "torn" => Head(jobs) \in Jobs
      BY <1>6 DEF Front, HandsOK, TypeOK
    <3>2. QED
      BY <1>6, <3>1 DEF Front, TypeOK
  <2>2. UNCHANGED <<back, adding, mode, pipe, jobs, mutex, stopLock, hook, done, list, listed>>
        /\ pc[Worker] = "pop" /\ Goto(Worker, "unlink")
    BY <1>6 DEF Front
  <2>3. CallsOK' /\ HandsOK'
    BY <2>1, <2>2, Points, GotoCalls DEF TypeOK, HandsOK, InAdd, WorkerAt, Goto
  <2>4. QED
    BY <2>1, <2>2, <2>3, Points, GotoOK DEF TypeOK, InAdd, WorkerAt
<1>7. CASE ExecuteReturn
  <2>1. CallsOK' /\ HandsOK'
    BY <1>7, Points, GotoCalls
       DEF ExecuteReturn, TypeOK, HandsOK, InAdd, WorkerAt, Goto
  <2>2. QED
    BY <1>7, <2>1, Points, GotoOK DEF ExecuteReturn, TypeOK, InAdd, WorkerAt
<1>8. CASE FinishJob
  <2>1. hand[Worker] \in Jobs
    BY <1>8 DEF FinishJob, HandsOK
  <2>2. CASE Goto(Worker, "report") /\ UNCHANGED <<hand, done>>
    <3>1. CallsOK' /\ HandsOK'
      BY <1>8, <2>1, <2>2, Points, GotoCalls
         DEF FinishJob, TypeOK, HandsOK, InAdd, WorkerAt, Goto
    <3>2. QED
      BY <1>8, <2>2, <3>1, Points, GotoOK DEF FinishJob, TypeOK, InAdd, WorkerAt
  <2>3. CASE /\ Goto(Worker, "check") /\ LetGo(hand[Worker])
             /\ hand' = [hand EXCEPT ![Worker] = NoJob]
    <3>1. CallsOK' /\ HandsOK'
      BY <1>8, <2>3, Points, GotoCalls
         DEF FinishJob, TypeOK, HandsOK, InAdd, WorkerAt, Goto
    <3>2. QED
      BY <1>8, <2>1, <2>3, <3>1, Points, GotoOK
         DEF FinishJob, LetGo, TypeOK, InAdd, WorkerAt
  <2>4. QED
    BY <1>8, <2>2, <2>3 DEF FinishJob
<1>9. CASE ReportJob
  <2>1. hand[Worker] \in Jobs
    BY <1>9 DEF ReportJob, HandsOK
  <2>2. pipe' \in Seq(Messages) /\ Len(pipe') <= PipeCap
    BY <1>9, <2>1, PipeCapAssumption
       DEF ReportJob, TypeOK, Messages, Modes, Kernel!HasRoom, Kernel!Written
  <2>3. CallsOK' /\ HandsOK'
    BY <1>9, Points, GotoCalls DEF ReportJob, TypeOK, HandsOK, InAdd, WorkerAt, Goto
  <2>4. QED
    BY <1>9, <2>2, <2>3, Points, GotoOK DEF ReportJob, TypeOK, InAdd, WorkerAt
<1>10. CASE PopFront
  <2>1. jobs' \in Seq(Jobs)
    <3>1. << >> \in Seq(Jobs) /\ (list # "torn" => Tail(jobs) \in Seq(Jobs))
      BY <1>10 DEF PopFront, HandsOK, TypeOK
    <3>2. QED
      BY <1>10, <3>1 DEF PopFront, Relink
  <2>2. CallsOK' /\ HandsOK'
    BY <1>10, <2>1, Points, GotoCalls
       DEF PopFront, TypeOK, HandsOK, InAdd, WorkerAt, Goto
  <2>3. QED
    BY <1>10, <2>1, <2>2, Points, GotoOK DEF PopFront, TypeOK, InAdd, WorkerAt
<1>11. QED
  BY <1>1, <1>2, <1>3, <1>4, <1>5, <1>6, <1>7, <1>8, <1>9, <1>10 DEF run

\* A torn list has no order any more; with the process all memory is gone.
LEMMA TypeTorn == TypeInv /\ (Tear \/ Crash) => TypeInv'
<1> SUFFICES ASSUME TypeInv, Tear \/ Crash PROVE TypeInv'
  OBVIOUS
<1> USE DEF TypeInv
<1>1. CASE Tear
  <2>1. jobs' \in Seq(Jobs) /\ list' \in ListStates /\ list' = "torn"
    BY <1>1 DEF Tear, ListStates
  <2>2. QED
    BY <1>1, <2>1 DEF Tear, TypeOK, CallsOK, HandsOK
<1>2. CASE Crash
  <2>1. \A t \in Threads : pc'[t] = "dead" /\ "dead" \in PointsOf(t)
    BY <1>2 DEF Crash, PointsOf
  <2>2. pc' \in [Threads -> PointsOf(Main) \cup PointsOf(Worker) \cup {"idle"}]
    BY <1>2, Points DEF Crash
  <2>3. back' \in [Threads -> PointsOf(Main) \cup PointsOf(Worker) \cup {"idle"}]
    BY <1>2 DEF Crash
  <2>4. /\ adding' \in [Threads -> Jobs \cup {NoJob}]
        /\ hand' \in [Threads -> Jobs \cup {NoJob}]
    BY <1>2 DEF Crash
  <2>5. /\ pipe' \in Seq(Messages) /\ Len(pipe') <= PipeCap /\ jobs' \in Seq(Jobs)
        /\ list' \in ListStates /\ listed' \subseteq Jobs /\ mode' \in Modes
        /\ mutex' \in Threads \cup {NoThread} /\ done' \subseteq Jobs
    BY <1>2, PipeCapAssumption DEF Crash, ListStates, Modes, TypeOK
  <2>6. hook' \in [Jobs -> BOOLEAN] /\ stopLock' \in BOOLEAN
    BY <1>2, Zenon DEF Crash
  <2>7. CallsOK' /\ HandsOK'
    BY <2>1, Points DEF CallsOK, HandsOK, InAdd
  <2>8. QED
    BY <2>1, <2>2, <2>3, <2>4, <2>5, <2>6, <2>7 DEF TypeOK
<1>3. QED
  BY <1>1, <1>2

LEMMA TypeStep == TypeInv /\ [Next]_vars => TypeInv'
<1> SUFFICES ASSUME TypeInv, [Next]_vars PROVE TypeInv'
  OBVIOUS
<1>1. CASE UNCHANGED vars
  BY <1>1 DEF vars, TypeInv, TypeOK, CallsOK, HandsOK
<1>2. QED
  BY <1>1, TypeOwner, TypeAdd, TypeOnRead, TypeRun, TypeTorn DEF Next

\* Every variable keeps its type, whatever the interleaving: no program point
\* of one thread is reached by another, the pipe never holds more than the
\* kernel's buffer, and what is handed from thread to thread is a job.
THEOREM TypeCorrect == Spec => []TypeOK
<1>1. TypeInv => TypeOK
  BY DEF TypeInv
<1>2. QED
  BY TypeInit, TypeStep, <1>1, PTL DEF Spec

LEMMA TypeInvariant == Spec => []TypeInv
BY TypeInit, TypeStep, PTL DEF Spec

-----------------------------------------------------------------------------
(***************************************************************************)
(* OneOwner.  The invariant is inductive given TypeInv: each action moves   *)
(* one job from a place it leaves to a place it was not in, or the list is  *)
(* not sound after it; and no step makes a list sound again.                *)
(***************************************************************************)

\* What OneOwner says of a sound list.
Owned ==
    /\ \A i, k \in DOMAIN pipe : pipe[i].job = pipe[k].job => i = k
    /\ \A i, k \in DOMAIN jobs : jobs[i] = jobs[k] => i = k
    /\ JobsInPipe \cap Range(jobs) = {}
    /\ \A t \in Threads :
         /\ hand[t] = adding[t] => hand[t] = NoJob
         /\ Held(t) \cap (JobsInPipe \cup Range(jobs)) = {}
         /\ \A u \in Threads \ {t} : Held(t) \cap Held(u) = {}
         /\ Held(t) \cap done = {}
    /\ done \cap (JobsInPipe \cup Range(jobs)) = {}
    /\ pc[Worker] = "unlink" => jobs # << >> /\ hand[Worker] = Head(jobs)

LEMMA OwnedIs == OneOwner <=> (list = "sound" => Owned)
BY DEF OneOwner, Owned

LEMMA StaysUnsound == [Next]_vars /\ list' = "sound" => list = "sound"
<1> SUFFICES ASSUME [Next]_vars, list' # list PROVE list' # "sound"
  OBVIOUS
<1>1. PushJob \/ Tear \/ Crash
  BY DEF Next, OwnerNext, StartCreate, StartLock, Stop, JoinCall, JoinReturn,
         AddNext, AddCall, AddLock, AddWrite, ClearHook,
         OnRead, ReadNewJob, ReadExecutedJob, ReadNothing, PreAccept, PreRefuse,
         Signal, PostReturn,
         run, ShouldContinue, TakeMutex, TestSize, Wait, Front, PopFront,
         ExecuteReturn, FinishJob, ReportJob, SpuriousWakeup, vars
<1>2. QED
  BY <1>1 DEF PushJob, AfterPush, Tear, Crash

\* The jobs of a pipe's messages, and that no two messages or nodes share one.
JobsOf(p) == {p[i].job : i \in DOMAIN p}
OneMessageEach(p) == \A i, k \in DOMAIN p : p[i].job = p[k].job => i = k
OneNodeEach(s) == \A i, k \in DOMAIN s : s[i] = s[k] => i = k

LEMMA OwnedParts ==
    Owned => OneMessageEach(pipe) /\ OneNodeEach(jobs) /\ JobsInPipe = JobsOf(pipe)
BY DEF Owned, OneMessageEach, OneNodeEach, JobsInPipe, JobsOf

LEMMA OwnerInit == Init => Owned
BY Points DEF Init, Owned, Held, JobsInPipe, Range

\* Writing a message of a job the pipe does not hold keeps messages apart.
LEMMA AppendPipe ==
    ASSUME NEW p \in Seq(Messages), NEW m \in Messages, NEW q, q = Append(p, m),
           OneMessageEach(p),
           m.job \notin JobsOf(p)
    PROVE  /\ OneMessageEach(q)
           /\ JobsOf(q) = JobsOf(p) \cup {m.job}
<1> USE DEF OneMessageEach, OneNodeEach, JobsOf
<1>1. /\ DOMAIN q = (DOMAIN p) \cup {Len(p) + 1}
      /\ Len(p) + 1 \notin DOMAIN p
      /\ q[Len(p) + 1] = m
      /\ \A i \in DOMAIN p : q[i] = p[i]
  OBVIOUS
<1>2. \A i, k \in DOMAIN q : q[i].job = q[k].job => i = k
  BY <1>1
<1>3. {q[i].job : i \in DOMAIN q} = {p[i].job : i \in DOMAIN p} \cup {m.job}
  BY <1>1
<1>4. QED
  BY <1>2, <1>3

\* Reading a message takes its job, and only it, out of the pipe.
LEMMA TailPipe ==
    ASSUME NEW p \in Seq(Messages), p # << >>, NEW q, q = Tail(p),
           OneMessageEach(p)
    PROVE  /\ OneMessageEach(q)
           /\ JobsOf(q) = JobsOf(p) \ {Head(p).job}
           /\ Head(p).job \in JobsOf(p)
<1> USE DEF OneMessageEach, OneNodeEach, JobsOf
<1>1. /\ \A i \in DOMAIN q : i + 1 \in DOMAIN p /\ q[i] = p[i + 1] /\ i + 1 # 1
      /\ \A i \in DOMAIN p : i # 1 => i - 1 \in DOMAIN q /\ q[i - 1] = p[i]
      /\ 1 \in DOMAIN p /\ Head(p) = p[1]
      /\ DOMAIN q \subseteq Nat /\ DOMAIN p \subseteq Nat
  OBVIOUS
<1>2. ASSUME NEW i \in DOMAIN q, NEW k \in DOMAIN q, q[i].job = q[k].job
      PROVE  i = k
  <2>1. i + 1 \in DOMAIN p /\ k + 1 \in DOMAIN p /\ i \in Nat /\ k \in Nat
    BY <1>1
  <2>2. p[i + 1].job = p[k + 1].job
    BY <1>1, <1>2
  <2>3. i + 1 = k + 1
    BY <2>1, <2>2
  <2>4. QED
    BY <2>1, <2>3
<1>3. {q[i].job : i \in DOMAIN q} = {p[i].job : i \in DOMAIN p} \ {Head(p).job}
  <2>1. ASSUME NEW i \in DOMAIN q
        PROVE  q[i].job \in {p[x].job : x \in DOMAIN p} \ {Head(p).job}
    BY <1>1
  <2>2. ASSUME NEW i \in DOMAIN p, p[i].job # Head(p).job
        PROVE  p[i].job \in {q[x].job : x \in DOMAIN q}
    BY <1>1, <2>2
  <2>3. QED
    BY <2>1, <2>2
<1>4. QED
  BY <1>1, <1>2, <1>3

\* The same for the list: a new node at either end, and pop_front.
LEMMA PushList ==
    ASSUME NEW s \in Seq(Jobs), NEW j \in Jobs,
           OneNodeEach(s),
           j \notin Range(s)
    PROVE  \A q \in {Append(s, j), <<j>> \o s} :
           /\ OneNodeEach(q)
           /\ Range(q) = Range(s) \cup {j}
<1> USE DEF OneNodeEach
<1>1. ASSUME NEW q, q = Append(s, j)
      PROVE  /\ OneNodeEach(q)
             /\ Range(q) = Range(s) \cup {j}
  <2>1. /\ DOMAIN q = (DOMAIN s) \cup {Len(s) + 1}
        /\ Len(s) + 1 \notin DOMAIN s
        /\ q[Len(s) + 1] = j
        /\ \A i \in DOMAIN s : q[i] = s[i]
    BY <1>1
  <2>2. QED
    BY <2>1 DEF Range
<1>2. ASSUME NEW q, q = <<j>> \o s
      PROVE  /\ OneNodeEach(q)
             /\ Range(q) = Range(s) \cup {j}
  <2>1. /\ \A i \in DOMAIN q : i # 1 => i - 1 \in DOMAIN s /\ q[i] = s[i - 1]
        /\ \A i \in DOMAIN s : i + 1 \in DOMAIN q /\ q[i + 1] = s[i] /\ i + 1 # 1
        /\ 1 \in DOMAIN q /\ q[1] = j
        /\ DOMAIN q \subseteq Nat /\ DOMAIN s \subseteq Nat
    BY <1>2
  <2>2. \A i, k \in DOMAIN q : q[i] = q[k] => i = k
    BY <2>1 DEF Range
  <2>3. Range(q) = Range(s) \cup {j}
    <3>1. Range(q) \subseteq Range(s) \cup {j}
      BY <2>1 DEF Range
    <3>2. ASSUME NEW i \in DOMAIN s PROVE s[i] \in Range(q)
      BY <2>1 DEF Range
    <3>3. QED
      BY <2>1, <3>1, <3>2 DEF Range
  <2>4. QED
    BY <2>2, <2>3
<1>3. QED
  BY <1>1, <1>2

LEMMA PopList ==
    ASSUME NEW s \in Seq(Jobs), s # << >>, NEW q, q = Tail(s),
           OneNodeEach(s)
    PROVE  /\ OneNodeEach(q)
           /\ Range(q) = Range(s) \ {Head(s)}
           /\ Head(s) \in Range(s)
<1> USE DEF OneMessageEach, OneNodeEach, JobsOf
<1>1. /\ \A i \in DOMAIN q : i + 1 \in DOMAIN s /\ q[i] = s[i + 1] /\ i + 1 # 1
      /\ \A i \in DOMAIN s : i # 1 => i - 1 \in DOMAIN q /\ q[i - 1] = s[i]
      /\ 1 \in DOMAIN s /\ Head(s) = s[1]
      /\ DOMAIN q \subseteq Nat /\ DOMAIN s \subseteq Nat
  OBVIOUS
<1>2. ASSUME NEW i \in DOMAIN q, NEW k \in DOMAIN q, q[i] = q[k]
      PROVE  i = k
  <2>1. i + 1 \in DOMAIN s /\ k + 1 \in DOMAIN s /\ i \in Nat /\ k \in Nat
    BY <1>1
  <2>2. s[i + 1] = s[k + 1]
    BY <1>1, <1>2
  <2>3. i + 1 = k + 1
    BY <2>1, <2>2
  <2>4. QED
    BY <2>1, <2>3
<1>3. Range(q) = Range(s) \ {Head(s)}
  <2>1. ASSUME NEW x \in Range(q) PROVE x \in Range(s) \ {Head(s)}
    <3>1. PICK i \in DOMAIN q : x = q[i]
      BY DEF Range
    <3>2. /\ i + 1 \in DOMAIN s /\ i + 1 # 1 /\ q[i] = s[i + 1]
          /\ 1 \in DOMAIN s /\ Head(s) = s[1]
      BY <1>1
    <3>3. s[i + 1] # s[1]
      BY <3>2
    <3>4. QED
      BY <3>1, <3>2, <3>3 DEF Range
  <2>2. ASSUME NEW x \in Range(s) \ {Head(s)} PROVE x \in Range(q)
    <3>1. PICK i \in DOMAIN s : x = s[i]
      BY DEF Range
    <3>2. i - 1 \in DOMAIN q /\ q[i - 1] = s[i]
      BY <1>1, <3>1
    <3>3. QED
      BY <3>1, <3>2 DEF Range
  <2>3. QED
    BY <2>1, <2>2
<1>4. QED
  BY <1>1, <1>2, <1>3 DEF Range

\* Actions that move no job.
LEMMA NobodyMoves ==
    ASSUME Owned, UNCHANGED <<adding, hand, pipe, jobs, done>>,
           pc'[Worker] = "unlink" <=> pc[Worker] = "unlink"
    PROVE  Owned'
<1>1. \A t \in Threads : Held(t)' = Held(t)
  BY DEF Held
<1>2. JobsInPipe' = JobsInPipe /\ Range(jobs') = Range(jobs)
  BY DEF JobsInPipe, Range
<1>3. QED
  BY <1>1, <1>2 DEF Owned

\* A caller takes a fresh job; Add writes its message.
LEMMA OwnerAdd == TypeInv /\ Owned /\ AddNext => Owned'
<1> SUFFICES ASSUME TypeInv, Owned, AddNext PROVE Owned'
  OBVIOUS
<1> DEFINE Unlinking == pc[Worker] = "unlink"
<1>0. Unlinking' <=> Unlinking
  <2>1. ASSUME NEW t \in Threads, NEW j \in Jobs, AddCall(t, j) PROVE Unlinking' <=> Unlinking
    BY <2>1, UseAssumption DEF AddCall, Goto, CallSites, TypeInv, TypeOK
  <2>2. ASSUME NEW t \in Threads, AddLock(t) PROVE Unlinking' <=> Unlinking
    BY <2>2 DEF AddLock, Goto, TypeInv, TypeOK
  <2>3. ASSUME NEW t \in Threads, AddWrite(t) PROVE Unlinking' <=> Unlinking
    BY <2>3 DEF AddWrite, Goto, TypeInv, TypeOK, CallsOK, InAdd, CallSites
  <2>4. ASSUME NEW j \in Jobs, ClearHook(j) PROVE Unlinking' <=> Unlinking
    BY <2>4 DEF ClearHook
  <2>5. QED
    BY <2>1, <2>2, <2>3, <2>4 DEF AddNext
<1> USE <1>0
<1>1. ASSUME NEW t \in Threads, NEW j \in Jobs, AddCall(t, j) PROVE Owned'
  <2>1. adding' = [adding EXCEPT ![t] = j] /\ adding \in [Threads -> Jobs \cup {NoJob}]
    BY <1>1 DEF AddCall, TypeInv, TypeOK
  <2>2. UNCHANGED <<hand, pipe, jobs, done>> /\ UNCHANGED JobsInPipe
    BY <1>1 DEF AddCall, JobsInPipe
  <2>3. /\ j \notin done \cup JobsInPipe \cup Range(jobs)
        /\ \A u \in Threads : adding[u] # j /\ hand[u] # j
    BY <1>1 DEF AddCall, Fresh
  <2>4. \A u \in Threads \ {t} : Held(u)' = Held(u)
    BY <2>1, <2>2 DEF Held
  <2>5. Held(t)' \subseteq Held(t) \cup {j}
    BY <2>1, <2>2 DEF Held
  <2>6. \A u \in Threads : j \notin Held(u)
    BY <2>3 DEF Held
  <2>7. \A u \in Threads : hand'[u] = adding'[u] => hand'[u] = NoJob
    BY <2>1, <2>2, <2>3 DEF Owned
  <2>8. \A u \in Threads :
          /\ Held(u)' \cap (JobsInPipe' \cup Range(jobs')) = {}
          /\ \A v \in Threads \ {u} : Held(u)' \cap Held(v)' = {}
          /\ Held(u)' \cap done' = {}
    BY <2>2, <2>3, <2>4, <2>5, <2>6 DEF Owned
  <2>9. QED
    BY <2>2, <2>7, <2>8 DEF Owned
<1>2. ASSUME NEW t \in Threads, AddLock(t) PROVE Owned'
  BY <1>2, NobodyMoves DEF AddLock
<1>3. ASSUME NEW t \in Threads, AddWrite(t) PROVE Owned'
  <2> DEFINE j == adding[t]
  <2> DEFINE m == [mode |-> IF j \in Urgent THEN "front" ELSE "back", job |-> j]
  <2>1. /\ adding' = [adding EXCEPT ![t] = NoJob]
        /\ UNCHANGED <<hand, jobs, done>>
        /\ pipe' = Append(pipe, m)
        /\ adding \in [Threads -> Jobs \cup {NoJob}]
    BY <1>3 DEF AddWrite, Kernel!Written, TypeInv, TypeOK
  <2>2. j \in Jobs /\ m \in Messages /\ pipe \in Seq(Messages) /\ m.job = j
    BY <1>3 DEF AddWrite, TypeInv, CallsOK, InAdd, TypeOK, Messages, Modes
  <2>3. j \in Held(t)
    BY <2>2, JobsAssumption DEF Held
  <2>4. m.job \notin JobsOf(pipe)
    BY <2>2, <2>3, OwnedParts DEF Owned
  <2> HIDE DEF m
  <2>5. OneMessageEach(pipe') /\ JobsInPipe' = JobsInPipe \cup {j}
    <3>1. OneMessageEach(pipe') /\ JobsOf(pipe') = JobsOf(pipe) \cup {j}
      BY <2>1, <2>2, <2>4, AppendPipe, OwnedParts
    <3>2. QED
      BY <3>1 DEF JobsInPipe, JobsOf
  <2>6. \A u \in Threads \ {t} : Held(u)' = Held(u)
    BY <2>1 DEF Held
  <2>7. Held(t)' = Held(t) \ {j}
    BY <2>1, <2>2, JobsAssumption DEF Held, Owned
  <2>8. \A u \in Threads : hand'[u] = adding'[u] => hand'[u] = NoJob
    BY <2>1 DEF Owned
  <2>9. \A u \in Threads \ {t} : Held(u) \cap Held(t) = {} /\ j \notin Held(u)
    BY <2>3 DEF Owned
  <2>10. j \notin done \cup JobsInPipe \cup Range(jobs)
    BY <2>3 DEF Owned
  <2>11. \A u \in Threads : Held(u)' \subseteq Held(u) /\ j \notin Held(u)'
    BY <2>6, <2>7, <2>9
  <2>12. UNCHANGED <<Range(jobs), done>>
    BY <2>1 DEF Range
  <2>13. \A u \in Threads :
           /\ Held(u)' \cap (JobsInPipe' \cup Range(jobs')) = {}
           /\ \A v \in Threads \ {u} : Held(u)' \cap Held(v)' = {}
           /\ Held(u)' \cap done' = {}
    BY <2>5, <2>11, <2>12 DEF Owned
  <2>14. QED
    BY <2>1, <2>5, <2>8, <2>10, <2>12, <2>13 DEF Owned, OneMessageEach
<1>4. ASSUME NEW j \in Jobs, ClearHook(j) PROVE Owned'
  BY <1>4, NobodyMoves DEF ClearHook
<1>5. QED
  BY <1>1, <1>2, <1>3, <1>4 DEF AddNext

\* What a thread with a job in hand knows of the other places.
LEMMA HandAlone ==
    ASSUME TypeInv, Owned, NEW t \in Threads, hand[t] \in Jobs,
           t = Worker => pc[t] # "unlink"
    PROVE  /\ hand[t] \notin JobsInPipe \cup Range(jobs) \cup done
           /\ OneNodeEach(jobs)
           /\ done \cap Range(jobs) = {}
           /\ hand[t] # adding[t]
           /\ \A u \in Threads \ {t} : hand[t] \notin Held(u)
<1>1. hand[t] \in Held(t) /\ hand[t] # NoJob
  BY JobsAssumption DEF Held
<1>2. QED
  BY <1>1, OwnedParts DEF Owned

\* When a thread's hand changes, nobody else's hands do.
LEMMA HandMoves ==
    ASSUME TypeInv, Owned, NEW t \in Threads, NEW h, UNCHANGED adding,
           hand' = [hand EXCEPT ![t] = h],
           IF t = Worker THEN pc'[t] # "unlink" ELSE pc'[Worker] = pc[Worker]
    PROVE  /\ \A u \in Threads \ {t} : Held(u)' = Held(u)
           /\ Held(t)' = {h, adding[t]} \ {NoJob}
           /\ \A u \in Threads \ {t} : hand'[u] = adding'[u] => hand'[u] = NoJob
<1>1. hand \in [Threads -> Jobs \cup {NoJob}]
  BY DEF TypeInv, TypeOK
<1>2. QED
  BY <1>1 DEF Held, Owned

\* A thread puts the job it had in hand into the list, or lets go of it.
LEMMA HandEmptied ==
    ASSUME TypeInv, Owned, NEW t \in Threads, hand[t] \in Jobs,
           UNCHANGED <<adding, pipe>>, hand' = [hand EXCEPT ![t] = NoJob],
           IF t = Worker THEN pc[t] # "unlink" /\ pc'[t] # "unlink"
                         ELSE pc'[Worker] = pc[Worker],
           OneNodeEach(jobs'),
           Range(jobs') \cup done' = Range(jobs) \cup done \cup {hand[t]},
           done' \cap Range(jobs') = {},
           pc'[Worker] = "unlink" => jobs' # << >> /\ hand'[Worker] = Head(jobs')
    PROVE  Owned'
<1> DEFINE j == hand[t]
<1>1. /\ j \notin JobsInPipe /\ j # adding[t]
      /\ \A u \in Threads \ {t} : j \notin Held(u)
  BY HandAlone
<1>2. /\ Held(t)' = {NoJob, adding[t]} \ {NoJob}
      /\ \A u \in Threads \ {t} : Held(u)' = Held(u)
      /\ \A u \in Threads \ {t} : hand'[u] = adding'[u] => hand'[u] = NoJob
  BY HandMoves
<1>3. \A u \in Threads : Held(u)' \subseteq Held(u) /\ j \notin Held(u)'
  BY <1>1, <1>2 DEF Held
<1>4. JobsInPipe' = JobsInPipe
  BY DEF JobsInPipe
<1>5. \A u \in Threads : hand'[u] = adding'[u] => hand'[u] = NoJob
  BY <1>2 DEF TypeInv, TypeOK
<1>6. \A u \in Threads :
         /\ Held(u)' \cap (JobsInPipe' \cup Range(jobs')) = {}
         /\ \A v \in Threads \ {u} : Held(u)' \cap Held(v)' = {}
         /\ Held(u)' \cap done' = {}
  BY <1>3, <1>4 DEF Owned
<1>7. /\ JobsInPipe' \cap Range(jobs') = {}
      /\ done' \cap (JobsInPipe' \cup Range(jobs')) = {}
  BY <1>1, <1>4 DEF Owned
<1>8. \A i, k \in DOMAIN pipe' : pipe'[i].job = pipe'[k].job => i = k
  BY DEF Owned
<1>9. QED
  BY <1>5, <1>6, <1>7, <1>8 DEF Owned, OneNodeEach

\* The steps of OnRead: from the pipe to Main's hand, to the list or away.
LEMMA OwnerOnRead ==
    TypeInv /\ Owned /\ OnRead /\ list = "sound" /\ list' = "sound" => Owned'
<1> SUFFICES ASSUME TypeInv, Owned, OnRead, list = "sound", list' = "sound" PROVE Owned'
  OBVIOUS
<1>0. /\ pc'[Worker] = "unlink" <=> pc[Worker] = "unlink"
      /\ ReadNewJob \/ ReadExecutedJob \/ PreRefuse \/ PushJob \/ PostReturn
           => pc'[Worker] = pc[Worker]
      /\ Worker # Main
  BY Points
     DEF OnRead, ReadNewJob, ReadExecutedJob, ReadNothing, PreAccept, PreRefuse,
         PushJob, AfterPush, Signal, PostReturn, Goto, TypeInv, TypeOK
<1>1. Main \in Threads /\ Worker \in Threads
  BY Points
<1>2. hand \in [Threads -> Jobs \cup {NoJob}] /\ pipe \in Seq(Messages)
  BY DEF TypeInv, TypeOK
<1>3. CASE ReadNewJob
  <2> DEFINE j == Head(pipe).job
  <2>1. /\ pipe # << >> /\ pipe' = Tail(pipe)
        /\ hand' = [hand EXCEPT ![Main] = j]
        /\ UNCHANGED <<adding, jobs, done>>
    BY <1>3 DEF ReadNewJob, Kernel!Readable, Kernel!NextMessage, Kernel!AfterRead
  <2>2. OneMessageEach(pipe) /\ JobsInPipe = JobsOf(pipe)
    BY OwnedParts
  <2>3. OneMessageEach(pipe') /\ JobsInPipe' = JobsInPipe \ {j} /\ j \in JobsInPipe
    <3>1. /\ OneMessageEach(pipe') /\ JobsOf(pipe') = JobsOf(pipe) \ {j}
          /\ j \in JobsOf(pipe)
      BY <1>2, <2>1, <2>2, TailPipe
    <3>2. QED
      BY <2>2, <3>1 DEF JobsInPipe, JobsOf
  <2>4. UNCHANGED <<Range(jobs), done>>
    BY <2>1 DEF Range
  <2>5. j \notin Range(jobs) \cup done /\ \A u \in Threads : j \notin Held(u)
    BY <2>3 DEF Owned
  <2>6. /\ \A u \in Threads : j \notin Held(u)
        /\ \A u \in Threads \ {Main} : Held(u)' = Held(u)
        /\ Held(Main)' \subseteq Held(Main) \cup {j}
        /\ j # adding[Main] \/ j = NoJob
    <3>1. Held(Main)' = {j, adding[Main]} \ {NoJob}
          /\ \A u \in Threads \ {Main} : Held(u)' = Held(u)
      BY <1>0, <1>1, <1>3, <2>1, HandMoves
    <3>2. QED
      BY <1>0, <1>1, <2>5, <3>1 DEF Held
  <2>7. \A u \in Threads : hand'[u] = adding'[u] => hand'[u] = NoJob
    BY <1>0, <1>1, <1>2, <1>3, <2>1, <2>6, HandMoves
  <2>8. \A u \in Threads :
           /\ Held(u)' \cap (JobsInPipe' \cup Range(jobs')) = {}
           /\ \A v \in Threads \ {u} : Held(u)' \cap Held(v)' = {}
           /\ Held(u)' \cap done' = {}
    BY <2>3, <2>4, <2>5, <2>6 DEF Owned
  <2>9. QED
    <3>1. pc'[Worker] = "unlink" => jobs' # << >> /\ hand'[Worker] = Head(jobs')
      BY <1>0, <1>1, <1>2, <2>1 DEF Owned
    <3>2. QED
      BY <2>1, <2>3, <2>4, <2>7, <2>8, <3>1 DEF Owned, OneMessageEach
<1>4. CASE ReadExecutedJob
  <2> DEFINE j == Head(pipe).job
  <2>1. /\ pipe # << >> /\ pipe' = Tail(pipe)
        /\ UNCHANGED <<adding, jobs>>
        /\ \/ hand' = [hand EXCEPT ![Main] = j] /\ UNCHANGED done
           \/ UNCHANGED hand /\ done' = done \cup {j}
    BY <1>4 DEF ReadExecutedJob, LetGo, Kernel!Readable, Kernel!NextMessage,
                Kernel!AfterRead
  <2>2. OneMessageEach(pipe) /\ JobsInPipe = JobsOf(pipe)
    BY OwnedParts
  <2>3. OneMessageEach(pipe') /\ JobsInPipe' = JobsInPipe \ {j} /\ j \in JobsInPipe
    <3>1. /\ OneMessageEach(pipe') /\ JobsOf(pipe') = JobsOf(pipe) \ {j}
          /\ j \in JobsOf(pipe)
      BY <1>2, <2>1, <2>2, TailPipe
    <3>2. QED
      BY <2>2, <3>1 DEF JobsInPipe, JobsOf
  <2>4. UNCHANGED <<Range(jobs)>>
    BY <2>1 DEF Range
  <2>5. j \notin Range(jobs) \cup done /\ \A u \in Threads : j \notin Held(u)
    BY <2>3 DEF Owned
  <2>6. CASE hand' = [hand EXCEPT ![Main] = j] /\ UNCHANGED done
    <3>1. /\ \A u \in Threads \ {Main} : Held(u)' = Held(u)
          /\ Held(Main)' \subseteq Held(Main) \cup {j}
          /\ j # adding[Main] \/ j = NoJob
      <4>1. Held(Main)' = {j, adding[Main]} \ {NoJob}
            /\ \A u \in Threads \ {Main} : Held(u)' = Held(u)
        BY <1>0, <1>1, <1>4, <2>1, <2>6, HandMoves
      <4>2. QED
        BY <1>0, <1>1, <2>5, <4>1 DEF Held
    <3>2. \A u \in Threads : hand'[u] = adding'[u] => hand'[u] = NoJob
      BY <1>0, <1>1, <1>2, <1>4, <2>1, <2>6, <3>1, HandMoves
    <3>3. \A u \in Threads :
             /\ Held(u)' \cap (JobsInPipe' \cup Range(jobs')) = {}
             /\ \A v \in Threads \ {u} : Held(u)' \cap Held(v)' = {}
             /\ Held(u)' \cap done' = {}
      BY <2>3, <2>4, <2>5, <2>6, <3>1 DEF Owned
    <3>4. pc'[Worker] = "unlink" => jobs' # << >> /\ hand'[Worker] = Head(jobs')
      BY <1>0, <1>1, <1>2, <2>1, <2>6 DEF Owned
    <3>5. QED
      BY <2>1, <2>3, <2>4, <2>5, <2>6, <3>2, <3>3, <3>4 DEF Owned, OneMessageEach
  <2>7. CASE UNCHANGED hand /\ done' = done \cup {j}
    <3>1. \A u \in Threads : Held(u)' = Held(u)
      BY <1>0, <2>1, <2>7 DEF Held
    <3>2. \A u \in Threads : hand'[u] = adding'[u] => hand'[u] = NoJob
      BY <2>1, <2>7 DEF Owned
    <3>3. \A u \in Threads :
             /\ Held(u)' \cap (JobsInPipe' \cup Range(jobs')) = {}
             /\ \A v \in Threads \ {u} : Held(u)' \cap Held(v)' = {}
             /\ Held(u)' \cap done' = {}
      BY <2>3, <2>4, <2>5, <2>7, <3>1 DEF Owned
    <3>4. pc'[Worker] = "unlink" => jobs' # << >> /\ hand'[Worker] = Head(jobs')
      BY <1>0, <2>1, <2>7 DEF Owned
    <3>5. QED
      BY <2>1, <2>3, <2>4, <2>5, <2>7, <3>2, <3>3, <3>4 DEF Owned, OneMessageEach
  <2>8. QED
    BY <2>1, <2>6, <2>7
<1>5. CASE ReadNothing
  BY <1>0, <1>5, NobodyMoves DEF ReadNothing
<1>6. CASE PreAccept
  BY <1>0, <1>6, NobodyMoves DEF PreAccept
<1>7. CASE PreRefuse
  <2>1. hand[Main] \in Jobs
    BY <1>7 DEF PreRefuse, TypeInv, HandsOK
  <2>2. /\ UNCHANGED <<adding, pipe, jobs>>
        /\ hand' = [hand EXCEPT ![Main] = NoJob] /\ done' = done \cup {hand[Main]}
    BY <1>7 DEF PreRefuse, LetGo
  <2>3. Range(jobs') = Range(jobs) /\ OneNodeEach(jobs')
    BY <1>0, <1>1, <2>1, <2>2, HandAlone
  <2>4. pc'[Worker] = "unlink" => jobs' # << >> /\ hand'[Worker] = Head(jobs')
    BY <1>0, <1>1, <1>2, <2>2 DEF Owned
  <2>5. done \cap Range(jobs) = {} /\ hand[Main] \notin Range(jobs)
    BY <1>0, <1>1, <2>1, HandAlone
  <2>6. pc'[Worker] = pc[Worker]
    BY <1>0, <1>7
  <2>7. QED
    BY <1>0, <1>1, <2>1, <2>2, <2>3, <2>4, <2>5, <2>6, HandEmptied
<1>8. CASE PushJob
  <2>1. hand[Main] \in Jobs /\ jobs \in Seq(Jobs)
    BY <1>8 DEF PushJob, TypeInv, HandsOK, TypeOK
  <2>2. /\ UNCHANGED <<adding, pipe, done>>
        /\ hand' = [hand EXCEPT ![Main] = NoJob]
        /\ jobs' \in {Append(jobs, hand[Main]), <<hand[Main]>> \o jobs}
    BY <1>8 DEF PushJob, AfterPush, Relink
  <2>3. Range(jobs') = Range(jobs) \cup {hand[Main]} /\ OneNodeEach(jobs')
    BY <1>0, <1>1, <2>1, <2>2, HandAlone, PushList
  <2>4. pc'[Worker] = pc[Worker]
    BY <1>0, <1>8
  <2>5. pc'[Worker] = "unlink" => jobs' # << >> /\ hand'[Worker] = Head(jobs')
    <3>1. SUFFICES ASSUME pc[Worker] = "unlink"
                   PROVE  jobs' # << >> /\ hand'[Worker] = Head(jobs')
      BY <2>4
    <3>2. jobs' = Append(jobs, hand[Main])
      BY <1>8, <3>1 DEF PushJob, AfterPush, Relink
    <3>3. jobs # << >> /\ hand[Worker] = Head(jobs)
      BY <3>1 DEF Owned
    <3>4. jobs' # << >> /\ Head(jobs') = Head(jobs)
      BY <2>1, <3>2, <3>3
    <3>5. QED
      BY <1>0, <1>1, <1>2, <2>2, <3>3, <3>4
  <2>6. done \cap Range(jobs) = {} /\ hand[Main] \notin done
    BY <1>0, <1>1, <2>1, HandAlone
  <2>7. QED
    BY <1>0, <1>1, <2>1, <2>2, <2>3, <2>4, <2>5, <2>6, HandEmptied
<1>9. CASE Signal
  BY <1>0, <1>9, NobodyMoves DEF Signal
<1>10. CASE PostReturn
  <2>1. hand[Main] \in Jobs
    BY <1>10 DEF PostReturn, TypeInv, HandsOK
  <2>2. /\ UNCHANGED <<adding, pipe, jobs>>
        /\ hand' = [hand EXCEPT ![Main] = NoJob] /\ done' = done \cup {hand[Main]}
    BY <1>10 DEF PostReturn, LetGo
  <2>3. Range(jobs') = Range(jobs) /\ OneNodeEach(jobs')
    BY <1>0, <1>1, <2>1, <2>2, HandAlone
  <2>4. pc'[Worker] = "unlink" => jobs' # << >> /\ hand'[Worker] = Head(jobs')
    BY <1>0, <1>1, <1>2, <2>2 DEF Owned
  <2>5. done \cap Range(jobs) = {} /\ hand[Main] \notin Range(jobs)
    BY <1>0, <1>1, <2>1, HandAlone
  <2>6. pc'[Worker] = pc[Worker]
    BY <1>0, <1>10
  <2>7. QED
    BY <1>0, <1>1, <2>1, <2>2, <2>3, <2>4, <2>5, <2>6, HandEmptied
<1>11. QED
  BY <1>3, <1>4, <1>5, <1>6, <1>7, <1>8, <1>9, <1>10 DEF OnRead

\* The steps of run: from the list to the Worker's hand, to the pipe or away.
LEMMA OwnerRun ==
    TypeInv /\ Owned /\ (run \/ SpuriousWakeup) /\ list = "sound" => Owned'
<1> SUFFICES ASSUME TypeInv, Owned, run \/ SpuriousWakeup, list = "sound" PROVE Owned'
  OBVIOUS
<1>1. Worker \in Threads
  BY Points
<1>2. hand \in [Threads -> Jobs \cup {NoJob}] /\ pipe \in Seq(Messages)
  BY DEF TypeInv, TypeOK
<1>3. CASE ShouldContinue \/ TakeMutex \/ TestSize \/ Wait \/ SpuriousWakeup
           \/ ExecuteReturn
  <2>1. pc[Worker] # "unlink" /\ pc'[Worker] # "unlink"
    BY <1>1, <1>3
       DEF ShouldContinue, TakeMutex, TestSize, Wait, SpuriousWakeup, ExecuteReturn, Goto,
           TypeInv, TypeOK
  <2>2. QED
    BY <1>3, <2>1, NobodyMoves
       DEF ShouldContinue, TakeMutex, TestSize, Wait, SpuriousWakeup, ExecuteReturn
<1>4. CASE Front
  <2> DEFINE j == Head(jobs)
  <2>1. /\ pc[Worker] = "pop" /\ pc'[Worker] = "unlink"
        /\ jobs # << >> /\ jobs \in Seq(Jobs)
        /\ hand' = [hand EXCEPT ![Worker] = j]
        /\ UNCHANGED <<adding, pipe, jobs, done>>
    BY <1>1, <1>4 DEF Front, Goto, TypeInv, HandsOK, TypeOK
  <2>2. j \in Range(jobs) /\ j # NoJob
    <3>1. 1 \in DOMAIN jobs /\ j = jobs[1] /\ j \in Jobs
      BY <2>1
    <3>2. QED
      BY <3>1, JobsAssumption DEF Range
  <2>3. /\ \A u \in Threads \ {Worker} : Held(u)' = Held(u)
        /\ Held(Worker)' = {adding[Worker]} \ {NoJob}
        /\ Held(Worker) = {hand[Worker], adding[Worker]} \ {NoJob}
    BY <1>1, <1>2, <2>1 DEF Held
  <2>4. adding[Worker] # j
    BY <1>1, <2>2, <2>3 DEF Owned
  <2>5. \A u \in Threads : hand'[u] = adding'[u] => hand'[u] = NoJob
    BY <1>1, <1>2, <2>1, <2>4 DEF Owned
  <2>6. JobsInPipe' = JobsInPipe /\ Range(jobs') = Range(jobs)
    BY <2>1 DEF JobsInPipe, Range
  <2>7. \A u \in Threads : Held(u)' \subseteq Held(u)
    BY <2>3
  <2>8. \A u \in Threads :
           /\ Held(u)' \cap (JobsInPipe' \cup Range(jobs')) = {}
           /\ \A v \in Threads \ {u} : Held(u)' \cap Held(v)' = {}
           /\ Held(u)' \cap done' = {}
    BY <2>1, <2>6, <2>7 DEF Owned
  <2>9. hand'[Worker] = Head(jobs')
    BY <1>1, <1>2, <2>1
  <2>10. QED
    BY <2>1, <2>5, <2>6, <2>8, <2>9 DEF Owned
<1>5. CASE FinishJob
  <2>1. hand[Worker] \in Jobs /\ UNCHANGED <<adding, pipe, jobs>> /\ pc[Worker] = "finish"
    BY <1>5 DEF FinishJob, TypeInv, HandsOK
  <2>2. CASE Goto(Worker, "report") /\ UNCHANGED <<hand, done>>
    <3>1. pc'[Worker] # "unlink"
      BY <1>1, <2>2 DEF Goto, TypeInv, TypeOK
    <3>2. QED
      BY <2>1, <2>2, <3>1, NobodyMoves
  <2>3. CASE /\ Goto(Worker, "check") /\ LetGo(hand[Worker])
             /\ hand' = [hand EXCEPT ![Worker] = NoJob]
    <3>1. pc'[Worker] # "unlink" /\ done' = done \cup {hand[Worker]}
      BY <1>1, <2>3 DEF Goto, LetGo, TypeInv, TypeOK
    <3>2. Range(jobs') = Range(jobs) /\ OneNodeEach(jobs')
      BY <2>1, OwnedParts DEF Range, OneNodeEach
    <3>3. done \cap Range(jobs) = {} /\ hand[Worker] \notin Range(jobs)
      BY <1>1, <2>1, HandAlone
    <3>4. QED
      BY <1>1, <2>1, <2>3, <3>1, <3>2, <3>3, HandEmptied
  <2>4. QED
    BY <1>5, <2>2, <2>3 DEF FinishJob
<1>6. CASE ReportJob
  <2> DEFINE j == hand[Worker]
  <2> DEFINE m == [mode |-> "done", job |-> j]
  <2>1. /\ j \in Jobs /\ m \in Messages /\ m.job = j
        /\ pipe' = Append(pipe, m) /\ hand' = [hand EXCEPT ![Worker] = NoJob]
        /\ UNCHANGED <<adding, jobs, done>>
        /\ pc[Worker] = "report" /\ pc'[Worker] = "check"
    BY <1>1, <1>6
       DEF ReportJob, Goto, TypeInv, TypeOK, HandsOK, Kernel!Written, Messages, Modes
  <2>2. /\ j \notin JobsInPipe \cup Range(jobs) \cup done
        /\ j # adding[Worker]
        /\ \A u \in Threads \ {Worker} : j \notin Held(u)
    BY <1>1, <2>1, HandAlone
  <2> HIDE DEF m
  <2>3. OneMessageEach(pipe') /\ JobsInPipe' = JobsInPipe \cup {j}
    <3>1. m.job \notin JobsOf(pipe) /\ OneMessageEach(pipe)
      BY <2>1, <2>2, OwnedParts
    <3>2. OneMessageEach(pipe') /\ JobsOf(pipe') = JobsOf(pipe) \cup {m.job}
      BY <1>2, <2>1, <3>1, AppendPipe
    <3>3. QED
      BY <2>1, <3>2, OwnedParts DEF JobsInPipe, JobsOf
  <2>4. Range(jobs') = Range(jobs)
    BY <2>1 DEF Range
  <2>5. \A u \in Threads : Held(u)' \subseteq Held(u) /\ j \notin Held(u)'
    <3>1. Held(Worker)' = {NoJob, adding[Worker]} \ {NoJob}
          /\ \A u \in Threads \ {Worker} : Held(u)' = Held(u)
      BY <1>1, <2>1, HandMoves
    <3>2. QED
      BY <2>2, <3>1 DEF Held
  <2>6. \A u \in Threads : hand'[u] = adding'[u] => hand'[u] = NoJob
    BY <1>1, <1>2, <2>1, HandMoves
  <2>7. \A u \in Threads :
           /\ Held(u)' \cap (JobsInPipe' \cup Range(jobs')) = {}
           /\ \A v \in Threads \ {u} : Held(u)' \cap Held(v)' = {}
           /\ Held(u)' \cap done' = {}
    BY <2>1, <2>3, <2>4, <2>5 DEF Owned
  <2>8. /\ JobsInPipe' \cap Range(jobs') = {}
        /\ done' \cap (JobsInPipe' \cup Range(jobs')) = {}
    BY <2>1, <2>2, <2>3, <2>4 DEF Owned
  <2>9. \A i, k \in DOMAIN jobs' : jobs'[i] = jobs'[k] => i = k
    BY <2>1 DEF Owned
  <2>10. QED
    BY <2>1, <2>3, <2>6, <2>7, <2>8, <2>9 DEF Owned, OneMessageEach
<1>7. CASE PopFront
  <2> DEFINE j == Head(jobs)
  <2>1. /\ pc[Worker] = "unlink" /\ pc'[Worker] = "exec"
        /\ jobs # << >> /\ jobs \in Seq(Jobs) /\ jobs' = Tail(jobs)
        /\ hand[Worker] = j
        /\ UNCHANGED <<adding, hand, pipe, done>>
    BY <1>1, <1>7 DEF PopFront, Relink, Goto, TypeInv, HandsOK, TypeOK, Owned
  <2>2. OneNodeEach(jobs') /\ Range(jobs') = Range(jobs) \ {j} /\ j \in Range(jobs)
    BY <2>1, PopList, OwnedParts
  <2>3. JobsInPipe' = JobsInPipe /\ OneMessageEach(pipe')
    BY <2>1, OwnedParts DEF JobsInPipe
  <2>4. j \notin JobsInPipe \cup done /\ \A u \in Threads : j \notin Held(u)
    BY <2>2 DEF Owned
  <2>5. /\ \A u \in Threads \ {Worker} : Held(u)' = Held(u)
        /\ Held(Worker)' \subseteq Held(Worker) \cup {j}
    BY <1>1, <2>1 DEF Held
  <2>6. \A u \in Threads : hand'[u] = adding'[u] => hand'[u] = NoJob
    BY <2>1 DEF Owned
  <2>7. \A u \in Threads :
           /\ Held(u)' \cap (JobsInPipe' \cup Range(jobs')) = {}
           /\ \A v \in Threads \ {u} : Held(u)' \cap Held(v)' = {}
           /\ Held(u)' \cap done' = {}
    BY <2>1, <2>2, <2>3, <2>4, <2>5 DEF Owned
  <2>8. QED
    BY <2>1, <2>2, <2>3, <2>6, <2>7 DEF Owned, OneMessageEach, OneNodeEach
<1>8. QED
  BY <1>3, <1>4, <1>5, <1>6, <1>7 DEF run

LEMMA OwnerStep == TypeInv /\ OneOwner /\ [Next]_vars => OneOwner'
<1> SUFFICES ASSUME TypeInv, OneOwner, [Next]_vars, list' = "sound" PROVE Owned'
  BY DEF OneOwner, Owned
<1>0. list = "sound" /\ Owned
  BY StaysUnsound, OwnedIs
<1>1. CASE OwnerNext
  <2>1. pc'[Worker] = "unlink" <=> pc[Worker] = "unlink"
    BY <1>1, Points
       DEF OwnerNext, StartCreate, StartLock, Stop, JoinCall, JoinReturn, Goto, TypeInv, TypeOK
  <2>2. QED
    BY <1>0, <1>1, <2>1, NobodyMoves
       DEF OwnerNext, StartCreate, StartLock, Stop, JoinCall, JoinReturn
<1>2. CASE Tear \/ Crash
  BY <1>2 DEF Tear, Crash
<1>3. CASE UNCHANGED vars
  BY <1>0, <1>3, NobodyMoves DEF vars
<1>4. QED
  BY <1>0, <1>1, <1>2, <1>3, OwnerAdd, OwnerOnRead, OwnerRun DEF Next

\* As long as the list is sound, every job is in one place at a time on its way
\* through two threads, a pipe and an unlocked list, so that no thread touches a
\* job the JobThread may have deleted and none is deleted twice.  A list is sound
\* until the first push_front between front() and pop_front(), or the first push
\* that overlaps an access of the Worker (JobThread.cpp:44-49, 104-107).
THEOREM OneOwnerAlways == Spec => []OneOwner
<1>1. Init => OneOwner
  BY OwnerInit, OwnedIs
<1>2. QED
  BY TypeInvariant, <1>1, OwnerStep, PTL DEF Spec

-----------------------------------------------------------------------------
(***************************************************************************)
(* MutexHeldInside.                                                         *)
(***************************************************************************)

\* Thread t is between locking and freeing JobThread::_mutex.
Inside(t) == pc[t] = "addWrite" \/ (t = Worker /\ pc[t] \in {"test", "sleep", "pop", "unlink"})

\* The holder of the mutex is the one inside, and all threads die together.
MutexInv ==
    /\ ~Crashed => \A t \in Threads : mutex = t <=> Inside(t)
    /\ Crashed => \A t \in Threads : pc[t] = "dead"

LEMMA MutexInit == Init => MutexInv
BY Points, ThreadsAssumption DEF Init, MutexInv, Inside, Crashed

\* A step of one thread that neither enters nor leaves its critical section.
LEMMA StaysOutside ==
    ASSUME TypeInv, MutexInv, NEW t \in Threads, NEW p, pc[t] # "dead", p # "dead",
           Goto(t, p), mutex' = mutex,
           Inside(t) <=> (p = "addWrite" \/ (t = Worker /\ p \in {"test", "sleep", "pop", "unlink"}))
    PROVE  MutexInv'
<1>1. ~Crashed
  BY DEF MutexInv
<1>2. \A u \in Threads : pc'[u] = IF u = t THEN p ELSE pc[u]
  BY DEF Goto, TypeInv, TypeOK
<1>3. ~Crashed'
  BY <1>1, <1>2, Points DEF Crashed
<1>4. \A u \in Threads : Inside(u)' <=> Inside(u)
  BY <1>2 DEF Inside
<1>5. QED
  BY <1>1, <1>3, <1>4 DEF MutexInv

\* Thread t locks the free mutex.
LEMMA GoesInside ==
    ASSUME TypeInv, MutexInv, NEW t \in Threads, NEW p, pc[t] # "dead",
           Goto(t, p), mutex = NoThread, mutex' = t,
           p = "addWrite" \/ (t = Worker /\ p = "test")
    PROVE  MutexInv'
<1>1. ~Crashed
  BY DEF MutexInv
<1>2. \A u \in Threads : pc'[u] = IF u = t THEN p ELSE pc[u]
  BY DEF Goto, TypeInv, TypeOK
<1>3. ~Crashed'
  BY <1>1, <1>2, Points DEF Crashed
<1>4. \A u \in Threads : ~Inside(u)
  BY <1>1, ThreadsAssumption DEF MutexInv
<1>5. \A u \in Threads : Inside(u)' <=> u = t
  BY <1>2, <1>4 DEF Inside
<1>6. QED
  BY <1>3, <1>5 DEF MutexInv

\* Thread t, inside, frees the mutex and goes on outside.
LEMMA GoesOutside ==
    ASSUME TypeInv, MutexInv, NEW t \in Threads, NEW p, Inside(t), p # "dead",
           Goto(t, p), mutex' = NoThread,
           p # "addWrite", p \notin {"test", "sleep", "pop", "unlink"}
    PROVE  MutexInv'
<1>1. ~Crashed
  BY DEF MutexInv, Inside
<1>2. \A u \in Threads : pc'[u] = IF u = t THEN p ELSE pc[u]
  BY DEF Goto, TypeInv, TypeOK
<1>3. ~Crashed'
  BY <1>1, <1>2, Points DEF Crashed
<1>4. \A u \in Threads : Inside(u) => u = t
  BY <1>1 DEF MutexInv
<1>5. \A u \in Threads : ~Inside(u)'
  BY <1>2, <1>4 DEF Inside
<1>6. QED
  BY <1>3, <1>5, ThreadsAssumption DEF MutexInv

LEMMA MutexNext == TypeInv /\ MutexInv /\ [Next]_vars => MutexInv'
<1> SUFFICES ASSUME TypeInv, MutexInv, [Next]_vars PROVE MutexInv'
  OBVIOUS
<1>1. CASE UNCHANGED <<pc, mutex>>
  BY <1>1 DEF MutexInv, Inside, Crashed
<1>2. CASE OwnerNext
  <2>1. CASE StartCreate \/ JoinReturn
    <3>1. /\ pc' = [pc EXCEPT ![Main] = pc'[Main], ![Worker] = pc'[Worker]]
          /\ pc[Main] \in {"loop", "joining"} /\ pc'[Main] \in {"startLock", "loop"}
          /\ pc[Worker] \in {"unborn", "exited"} /\ pc'[Worker] \in {"check", "unborn"}
          /\ mutex' = mutex
      BY <2>1, Points DEF StartCreate, JoinReturn, TypeInv, TypeOK
    <3>2. /\ ~Crashed /\ ~Crashed'
          /\ \A u \in Threads : Inside(u)' <=> Inside(u)
      BY <3>1, Points DEF Crashed, Inside, TypeInv, TypeOK
    <3>3. QED
      BY <3>1, <3>2 DEF MutexInv
  <2>2. CASE StartLock \/ JoinCall
    BY <2>2, Points, StaysOutside DEF StartLock, JoinCall, Inside
  <2>3. CASE Stop
    BY <1>1, <2>3 DEF Stop
  <2>4. QED
    BY <1>2, <2>1, <2>2, <2>3 DEF OwnerNext
<1>3. CASE AddNext
  <2>1. ASSUME NEW t \in Threads, NEW j \in Jobs, AddCall(t, j) PROVE MutexInv'
    <3>1. pc[t] \in CallSites /\ Goto(t, "addLock") /\ mutex' = mutex
      BY <2>1, UseAssumption DEF AddCall
    <3>2. ~Inside(t) /\ pc[t] # "dead"
      BY <3>1 DEF Inside, CallSites
    <3>3. QED
      BY <3>1, <3>2, StaysOutside
  <2>2. ASSUME NEW t \in Threads, AddLock(t) PROVE MutexInv'
    <3>1. pc[t] # "dead" /\ Goto(t, "addWrite") /\ mutex = NoThread /\ mutex' = t
      BY <2>2 DEF AddLock
    <3>2. QED
      BY <3>1, GoesInside
  <2>3. ASSUME NEW t \in Threads, AddWrite(t) PROVE MutexInv'
    <3>1. back[t] \in CallSites /\ Goto(t, back[t]) /\ mutex' = NoThread /\ Inside(t)
      BY <2>3 DEF AddWrite, TypeInv, CallsOK, InAdd, Inside
    <3>2. back[t] \notin {"dead", "addWrite", "test", "sleep", "pop", "unlink"}
      BY <3>1 DEF CallSites
    <3>3. QED
      BY <3>1, <3>2, GoesOutside
  <2>4. ASSUME NEW j \in Jobs, ClearHook(j) PROVE MutexInv'
    BY <1>1, <2>4 DEF ClearHook
  <2>5. QED
    BY <1>3, <2>1, <2>2, <2>3, <2>4 DEF AddNext
<1>4. CASE OnRead
  <2>1. CASE Signal
    <3>1. \A u \in Threads : Inside(u)' <=> Inside(u)
      BY <2>1, Points DEF Signal, Inside, TypeInv, TypeOK
    <3>2. ~Crashed /\ ~Crashed' /\ mutex' = mutex
      BY <2>1, Points DEF Signal, Crashed, TypeInv, TypeOK
    <3>3. QED
      BY <3>1, <3>2 DEF MutexInv
  <2>2. CASE ~Signal
    <3>1. /\ pc[Main] \in {"loop", "read", "pre", "push", "post"} /\ mutex' = mutex
          /\ \E p \in {"pre", "post", "read", "loop", "push", "signal"} : Goto(Main, p)
      BY <1>4, <2>2
      DEF OnRead, ReadNewJob, ReadExecutedJob, ReadNothing, PreAccept, PreRefuse, PushJob,
          AfterPush, PostReturn
    <3>2. QED
      BY <3>1, Points, StaysOutside DEF Inside
  <2>3. QED
    BY <2>1, <2>2
<1>5. CASE run \/ SpuriousWakeup
  <2>1. CASE TakeMutex
    BY <2>1, Points, GoesInside DEF TakeMutex
  <2>2. CASE Wait \/ PopFront
    BY <2>2, Points, GoesOutside DEF Wait, PopFront, Inside
  <2>3. CASE TestSize \/ Front
    BY <2>3, Points, StaysOutside DEF TestSize, Front, Inside
  <2>4. CASE ShouldContinue \/ ExecuteReturn \/ FinishJob \/ ReportJob \/ SpuriousWakeup
    <3>1. /\ pc[Worker] \in {"check", "exec", "finish", "report", "wait"} /\ mutex' = mutex
          /\ \E p \in {"take", "exited", "finish", "report", "check"} : Goto(Worker, p)
      BY <2>4 DEF ShouldContinue, ExecuteReturn, FinishJob, ReportJob, SpuriousWakeup
    <3>2. QED
      BY <3>1, Points, StaysOutside DEF Inside
  <2>5. QED
    BY <1>5, <2>1, <2>2, <2>3, <2>4 DEF run
<1>6. CASE Crash
  <2>1. \A t \in Threads : pc'[t] = "dead"
    BY <1>6 DEF Crash
  <2>2. QED
    BY <2>1, Points DEF MutexInv, Crashed
<1>7. CASE Tear
  BY <1>1, <1>7 DEF Tear
<1>8. QED
  BY <1>1, <1>2, <1>3, <1>4, <1>5, <1>6, <1>7 DEF Next, vars

\* JobThread::_mutex is held by exactly the thread that is between its lock and
\* its unlock, and Remove pops only from a list it has found non-empty as long as
\* no link is torn, for any number of producers and any places they call Add
\* from (JobThread.cpp:74-124).
THEOREM MutexAlwaysHeldInside == Spec => []MutexHeldInside
<1>1. TypeInv /\ MutexInv => MutexHeldInside
  BY DEF TypeInv, HandsOK, MutexInv, MutexHeldInside, Inside
<1>2. QED
  BY <1>1, TypeInvariant, MutexInit, MutexNext, PTL DEF Spec

-----------------------------------------------------------------------------
(***************************************************************************)
(* UrgentFirst.                                                             *)
(***************************************************************************)

UrgentBeforeOthers(s) == \A i, k \in DOMAIN s : i < k /\ s[k] \in Urgent => s[i] \in Urgent

\* A message says how its job was added, and so does mode while OnRead has the job.
ModesOK ==
    /\ \A k \in DOMAIN pipe :
         pipe[k].mode # "done" => (pipe[k].mode = "front" <=> pipe[k].job \in Urgent)
    /\ (\/ pc[Main] \in {"pre", "push"}
        \/ pc[Main] \in InAdd /\ back[Main] = "pre")
       => (mode = "front" <=> hand[Main] \in Urgent)

LEMMA UrgentInit == Init => ModesOK /\ UrgentFirst
BY Points DEF Init, ModesOK, UrgentFirst, InAdd

LEMMA PushUrgent ==
    ASSUME NEW s \in Seq(Jobs), NEW j \in Jobs, UrgentBeforeOthers(s)
    PROVE  /\ j \in Urgent => UrgentBeforeOthers(<<j>> \o s)
           /\ j \notin Urgent => UrgentBeforeOthers(Append(s, j))
<1>1. Len(s) \in Nat /\ DOMAIN s = 1 .. Len(s)
  OBVIOUS
<1>2. ASSUME j \in Urgent PROVE UrgentBeforeOthers(<<j>> \o s)
  <2> DEFINE t == <<j>> \o s
  <2>1. /\ DOMAIN t = 1 .. Len(s) + 1 /\ t[1] = j
        /\ \A i \in 2 .. Len(s) + 1 : t[i] = s[i - 1]
    OBVIOUS
  <2> HIDE DEF t
  <2>2. ASSUME NEW i \in 1 .. Len(s) + 1, NEW k \in 1 .. Len(s) + 1, i < k, t[k] \in Urgent
        PROVE  t[i] \in Urgent
    <3>1. CASE i = 1
      BY <1>2, <2>1, <3>1
    <3>2. CASE i # 1
      <4>1. /\ t[i] = s[i - 1] /\ t[k] = s[k - 1]
            /\ i - 1 \in 1 .. Len(s) /\ k - 1 \in 1 .. Len(s) /\ i - 1 < k - 1
        BY <1>1, <2>1, <2>2, <3>2
      <4>2. QED
        BY <1>1, <2>2, <4>1 DEF UrgentBeforeOthers
    <3>3. QED
      BY <3>1, <3>2
  <2>3. QED
    BY <2>1, <2>2 DEF UrgentBeforeOthers, t
<1>3. ASSUME j \notin Urgent PROVE UrgentBeforeOthers(Append(s, j))
  <2> DEFINE t == Append(s, j)
  <2>1. /\ DOMAIN t = 1 .. Len(s) + 1 /\ t[Len(s) + 1] = j
        /\ \A i \in 1 .. Len(s) : t[i] = s[i]
    OBVIOUS
  <2> HIDE DEF t
  <2>2. ASSUME NEW i \in 1 .. Len(s) + 1, NEW k \in 1 .. Len(s) + 1, i < k, t[k] \in Urgent
        PROVE  t[i] \in Urgent
    <3>1. i \in 1 .. Len(s) /\ k \in 1 .. Len(s)
      BY <1>1, <1>3, <2>1, <2>2
    <3>2. QED
      BY <1>1, <2>1, <2>2, <3>1 DEF UrgentBeforeOthers
  <2>3. QED
    BY <2>1, <2>2 DEF UrgentBeforeOthers, t
<1>4. QED
  BY <1>2, <1>3

LEMMA PopUrgent ==
    ASSUME NEW s \in Seq(Jobs), s # << >>, UrgentBeforeOthers(s)
    PROVE  UrgentBeforeOthers(Tail(s))
<1>1. /\ Len(s) \in Nat /\ DOMAIN s = 1 .. Len(s) /\ DOMAIN Tail(s) = 1 .. Len(s) - 1
      /\ \A i \in 1 .. Len(s) - 1 : Tail(s)[i] = s[i + 1]
  OBVIOUS
<1>2. QED
  BY <1>1 DEF UrgentBeforeOthers

\* The list changes where a job is pushed or popped.
LEMMA UrgentStep ==
    ASSUME TypeInv, ModesOK, UrgentFirst, [Next]_vars
    PROVE  UrgentFirst'
<1>1. UrgentFirst <=> (list # "torn" => UrgentBeforeOthers(jobs))
  BY DEF UrgentFirst, UrgentBeforeOthers
<1>2. UrgentFirst' <=> (list' # "torn" => UrgentBeforeOthers(jobs'))
  BY DEF UrgentFirst, UrgentBeforeOthers
<1>3. CASE PushJob
  <2>1. hand[Main] \in Jobs /\ jobs \in Seq(Jobs)
        /\ (mode = "front" <=> hand[Main] \in Urgent)
    BY <1>3 DEF PushJob, TypeInv, TypeOK, HandsOK, ModesOK
  <2>2. list' # "torn" => list # "torn"
    BY <1>3 DEF PushJob, AfterPush
  <2>3. QED
    BY <1>1, <1>2, <1>3, <2>1, <2>2, PushUrgent DEF PushJob, Relink
<1>4. CASE PopFront
  <2>1. jobs \in Seq(Jobs) /\ (list # "torn" => jobs # << >>) /\ list' = list
    BY <1>4 DEF PopFront, TypeInv, TypeOK, HandsOK
  <2>2. QED
    BY <1>1, <1>2, <1>4, <2>1, PopUrgent DEF PopFront, Relink
<1>5. CASE jobs' = jobs /\ list' = list
  BY <1>1, <1>2, <1>5
<1>6. CASE list' = "torn"
  BY <1>2, <1>6
<1>7. (jobs' = jobs /\ list' = list) \/ PushJob \/ PopFront \/ list' = "torn"
  <2>1. CASE OwnerNext
    BY <2>1 DEF OwnerNext, StartCreate, StartLock, Stop, JoinCall, JoinReturn
  <2>2. CASE AddNext
    BY <2>2 DEF AddNext, AddCall, AddLock, AddWrite, ClearHook
  <2>3. CASE OnRead
    BY <2>3
    DEF OnRead, ReadNewJob, ReadExecutedJob, ReadNothing, PreAccept, PreRefuse, Signal,
        PostReturn
  <2>4. CASE run \/ SpuriousWakeup
    BY <2>4
    DEF run, ShouldContinue, TakeMutex, TestSize, Wait, Front, ExecuteReturn, FinishJob,
        ReportJob, SpuriousWakeup
  <2>5. CASE Tear \/ Crash \/ UNCHANGED vars
    BY <2>5 DEF Tear, Crash, vars
  <2>6. QED
    BY <2>1, <2>2, <2>3, <2>4, <2>5 DEF Next
<1>8. QED
  BY <1>3, <1>4, <1>5, <1>6, <1>7

\* What is written says how the job was added, what is read is one of these.
LEMMA ModesStep ==
    ASSUME TypeInv, ModesOK, [Next]_vars
    PROVE  ModesOK'
<1> DEFINE Right(m) == m.mode # "done" => (m.mode = "front" <=> m.job \in Urgent)
           Reads(point, from) == \/ point \in {"pre", "push"}
                                 \/ point \in InAdd /\ from = "pre"
<1>1. pipe \in Seq(Messages) /\ \A k \in DOMAIN pipe : Right(pipe[k])
  BY DEF TypeInv, TypeOK, ModesOK
<1>2. Reads(pc[Main], back[Main]) => (mode = "front" <=> hand[Main] \in Urgent)
  BY DEF ModesOK
<1>3. ASSUME NEW m, Right(m), m \in Messages, pipe' = Append(pipe, m)
      PROVE  \A k \in DOMAIN pipe' : Right(pipe'[k])
  <2>1. /\ Len(pipe) \in Nat /\ DOMAIN pipe = 1 .. Len(pipe)
        /\ DOMAIN pipe' = 1 .. Len(pipe) + 1 /\ pipe'[Len(pipe) + 1] = m
        /\ \A k \in 1 .. Len(pipe) : pipe'[k] = pipe[k]
    BY <1>1, <1>3
  <2>2. QED
    BY <1>1, <1>3, <2>1
<1>4. ASSUME pipe # << >>, pipe' = Tail(pipe)
      PROVE  (\A k \in DOMAIN pipe' : Right(pipe'[k])) /\ Right(Head(pipe))
  <2>1. /\ Len(pipe) \in Nat \ {0} /\ DOMAIN pipe = 1 .. Len(pipe)
        /\ DOMAIN pipe' = 1 .. Len(pipe) - 1 /\ Head(pipe) = pipe[1]
        /\ \A k \in 1 .. Len(pipe) - 1 : pipe'[k] = pipe[k + 1]
    BY <1>1, <1>4
  <2>2. QED
    BY <1>1, <2>1, SMTT(30)
<1> HIDE DEF Right
<1>5. ASSUME \A k \in DOMAIN pipe' : Right(pipe'[k]),
             Reads(pc'[Main], back'[Main]) => (mode' = "front" <=> hand'[Main] \in Urgent)
      PROVE  ModesOK'
  BY <1>5 DEF ModesOK, Right
<1>6. ASSUME UNCHANGED <<pipe, mode>>, hand'[Main] = hand[Main],
             Reads(pc'[Main], back'[Main]) => Reads(pc[Main], back[Main])
      PROVE  ModesOK'
  BY <1>1, <1>2, <1>5, <1>6
<1>7. CASE OwnerNext
  <2>1. UNCHANGED <<pipe, mode, hand, back>>
    BY <1>7 DEF OwnerNext, StartCreate, StartLock, Stop, JoinCall, JoinReturn
  <2>2. Reads(pc'[Main], back'[Main]) => Reads(pc[Main], back[Main])
    BY <1>7, <2>1, Points
    DEF OwnerNext, StartCreate, StartLock, Stop, JoinCall, JoinReturn, Goto, TypeInv, TypeOK, InAdd
  <2>3. QED
    BY <1>6, <2>1, <2>2
<1>8. CASE AddNext
  <2>1. ASSUME NEW t \in Threads, NEW j \in Jobs, AddCall(t, j) PROVE ModesOK'
    <3>1. /\ UNCHANGED <<pipe, mode, hand>>
          /\ pc[t] \in CallSites
          /\ pc' = [pc EXCEPT ![t] = "addLock"] /\ back' = [back EXCEPT ![t] = pc[t]]
      BY <2>1, UseAssumption DEF AddCall, Goto
    <3>2. Reads(pc'[Main], back'[Main]) => Reads(pc[Main], back[Main])
      BY <3>1, Points DEF TypeInv, TypeOK, InAdd
    <3>3. QED
      BY <1>6, <3>1, <3>2
  <2>2. ASSUME NEW t \in Threads, AddLock(t) PROVE ModesOK'
    <3>1. UNCHANGED <<pipe, mode, hand, back>> /\ pc[t] = "addLock" /\ Goto(t, "addWrite")
      BY <2>2 DEF AddLock
    <3>2. Reads(pc'[Main], back'[Main]) => Reads(pc[Main], back[Main])
      BY <3>1, Points DEF Goto, TypeInv, TypeOK, InAdd
    <3>3. QED
      BY <1>6, <3>1, <3>2
  <2>3. ASSUME NEW t \in Threads, AddWrite(t) PROVE ModesOK'
    <3> DEFINE m == [mode |-> IF adding[t] \in Urgent THEN "front" ELSE "back",
                     job  |-> adding[t]]
    <3>1. /\ UNCHANGED <<mode, hand, back>> /\ pc[t] = "addWrite" /\ Goto(t, back[t])
          /\ pipe' = Append(pipe, m)
      BY <2>3 DEF AddWrite, Kernel!Written
    <3>2. adding[t] \in Jobs /\ back[t] \in PointsOf(t) \cap CallSites
      BY <3>1 DEF TypeInv, CallsOK, InAdd
    <3>3. m \in Messages /\ Right(m)
      BY <3>2 DEF Messages, Modes, Right
    <3>4. Reads(pc'[Main], back'[Main]) => Reads(pc[Main], back[Main])
      BY <3>1, <3>2, Points DEF Goto, TypeInv, TypeOK, InAdd, CallSites
    <3>5. QED
      BY <1>2, <1>3, <1>5, <3>1, <3>3, <3>4
  <2>4. ASSUME NEW j \in Jobs, ClearHook(j) PROVE ModesOK'
    BY <1>6, <2>4 DEF ClearHook
  <2>5. QED
    BY <1>8, <2>1, <2>2, <2>3, <2>4 DEF AddNext
<1>9. CASE OnRead
  <2>1. CASE ReadNewJob
    <3>1. /\ pipe # << >> /\ pipe' = Tail(pipe) /\ Head(pipe).mode # "done"
          /\ mode' = Head(pipe).mode /\ hand'[Main] = Head(pipe).job
      BY <2>1, Points
      DEF ReadNewJob, TypeInv, TypeOK, Kernel!Readable, Kernel!NextMessage, Kernel!AfterRead
    <3>2. QED
      BY <1>4, <1>5, <3>1 DEF Right
  <2>2. CASE ReadExecutedJob
    <3>1. pipe # << >> /\ pipe' = Tail(pipe)
      BY <2>2 DEF ReadExecutedJob, Kernel!Readable, Kernel!AfterRead
    <3>2. ~Reads(pc'[Main], back'[Main])
      BY <2>2, Points DEF ReadExecutedJob, Goto, TypeInv, TypeOK, InAdd
    <3>3. QED
      BY <1>4, <1>5, <3>1, <3>2
  <2>3. CASE PreAccept
    <3>1. UNCHANGED <<pipe, mode, hand, back>> /\ pc[Main] = "pre"
      BY <2>3 DEF PreAccept
    <3>2. QED
      BY <1>6, <3>1
  <2>4. CASE ReadNothing \/ PreRefuse \/ PushJob \/ Signal \/ PostReturn
    <3>1. pipe' = pipe
      BY <2>4 DEF ReadNothing, PreRefuse, PushJob, AfterPush, Signal, PostReturn
    <3>2. pc'[Main] \in {"loop", "read", "signal"}
      BY <2>4, Points
      DEF ReadNothing, PreRefuse, PushJob, AfterPush, Signal, PostReturn, Goto,
          TypeInv, TypeOK
    <3>3. QED
      BY <1>1, <1>5, <3>1, <3>2 DEF InAdd
  <2>5. QED
    BY <1>9, <2>1, <2>2, <2>3, <2>4 DEF OnRead
<1>10. CASE run \/ SpuriousWakeup
  <2>1. UNCHANGED <<mode, back>> /\ \E p : Goto(Worker, p)
    BY <1>10
    DEF run, ShouldContinue, TakeMutex, TestSize, Wait, Front, PopFront, ExecuteReturn, FinishJob,
        ReportJob, SpuriousWakeup
  <2>2. hand' = hand \/ \E h : hand' = [hand EXCEPT ![Worker] = h]
    BY <1>10
    DEF run, ShouldContinue, TakeMutex, TestSize, Wait, Front, PopFront, ExecuteReturn, FinishJob,
        ReportJob, SpuriousWakeup
  <2>3. pc'[Main] = pc[Main] /\ back'[Main] = back[Main] /\ hand'[Main] = hand[Main]
    BY <2>1, <2>2, Points DEF Goto, TypeInv, TypeOK
  <2>4. CASE ReportJob
    <3>1. /\ pipe' = Append(pipe, [mode |-> "done", job |-> hand[Worker]])
          /\ hand[Worker] \in Jobs
      BY <2>4 DEF ReportJob, TypeInv, HandsOK, Kernel!Written
    <3>2. [mode |-> "done", job |-> hand[Worker]] \in Messages
      BY <3>1 DEF Messages, Modes
    <3>3. QED
      BY <1>2, <1>3, <1>5, <2>1, <2>3, <3>1, <3>2 DEF Right
  <2>5. CASE ~ReportJob
    <3>1. pipe' = pipe
      BY <1>10, <2>5
      DEF run, ShouldContinue, TakeMutex, TestSize, Wait, Front, PopFront, ExecuteReturn, FinishJob,
          SpuriousWakeup
    <3>2. QED
      BY <1>6, <2>1, <2>3, <3>1
  <2>6. QED
    BY <2>4, <2>5
<1>11. CASE Crash
  <2>1. pipe' = << >> /\ pc'[Main] = "dead"
    BY <1>11, Points DEF Crash
  <2>2. QED
    BY <1>5, <2>1 DEF InAdd
<1>12. CASE Tear \/ UNCHANGED vars
  BY <1>6, <1>12 DEF Tear, vars
<1>13. QED
  BY <1>7, <1>8, <1>9, <1>10, <1>11, <1>12 DEF Next

\* In the list no accepted job of AddFront is ever behind one of Add, however
\* producers, hooks and the Worker interleave, as long as no link is torn
\* (JobThread.cpp:47-48).
THEOREM UrgentAlwaysFirst == Spec => []UrgentFirst
BY TypeInvariant, UrgentInit, ModesStep, UrgentStep, PTL DEF Spec

\* A push to the front slips only if it is for a job of AddFront.
LEMMA SlipStep ==
    ASSUME TypeInv, ModesOK, list = "slipped" => Urgent # {}, [Next]_vars
    PROVE  list' = "slipped" => Urgent # {}
<1>1. CASE PushJob
  BY <1>1 DEF PushJob, AfterPush, ModesOK
<1>2. CASE list' = list \/ list' = "torn"
  BY <1>2
<1>3. PushJob \/ list' = list \/ list' = "torn"
  <2>1. CASE OwnerNext
    BY <2>1 DEF OwnerNext, StartCreate, StartLock, Stop, JoinCall, JoinReturn
  <2>2. CASE AddNext
    BY <2>2 DEF AddNext, AddCall, AddLock, AddWrite, ClearHook
  <2>3. CASE OnRead
    BY <2>3
    DEF OnRead, ReadNewJob, ReadExecutedJob, ReadNothing, PreAccept, PreRefuse, Signal,
        PostReturn
  <2>4. CASE run \/ SpuriousWakeup
    BY <2>4
    DEF run, ShouldContinue, TakeMutex, TestSize, Wait, Front, PopFront, ExecuteReturn,
        FinishJob, ReportJob, SpuriousWakeup
  <2>5. CASE Tear \/ Crash \/ UNCHANGED vars
    BY <2>5 DEF Tear, Crash, vars
  <2>6. QED
    BY <2>1, <2>2, <2>3, <2>4, <2>5 DEF Next
<1>4. QED
  BY <1>1, <1>2, <1>3

\* A program that never calls AddFront is spared the slip between front() and
\* pop_front(): until a link is torn its list is sound (JobThread.cpp:48, 106-107).
THEOREM OnlyAddFrontSlips == Spec => [](list = "slipped" => Urgent # {})
<1> DEFINE SlipInv == list = "slipped" => Urgent # {}
<1>1. Init => SlipInv
  BY DEF Init
<1>2. TypeInv /\ ModesOK /\ SlipInv /\ [Next]_vars => SlipInv'
  BY SlipStep
<1> HIDE DEF SlipInv
<1>3. Spec => []SlipInv
  BY <1>1, <1>2, TypeInvariant, UrgentInit, ModesStep, PTL DEF Spec
<1>4. QED
  BY <1>3 DEF SlipInv

-----------------------------------------------------------------------------
(***************************************************************************)
(* AddsInOrder.                                                             *)
(***************************************************************************)

\* Whoever is ahead of whom stays so as long as the list and the unread messages
\* stay, and Main keeps the job it handles.
LEMMA AheadStays ==
    ASSUME NEW a, NEW b, Ahead(a, b), jobs' = jobs,
           \A k \in DOMAIN pipe : k \in DOMAIN pipe' /\ pipe'[k] = pipe[k],
           Handled(a) => Handled(a)', Handled(b) => Handled(b)'
    PROVE  Ahead(a, b)'
<1>1. \A j : \A k \in DOMAIN pipe : Sent(k, j) => k \in DOMAIN pipe' /\ Sent(k, j)'
  BY DEF Sent
<1>2. a \in Range(jobs) => a \in Range(jobs')
  BY DEF Range
<1>3. CASE \E i, k \in DOMAIN jobs : i < k /\ jobs[i] = a /\ jobs[k] = b
  BY <1>3 DEF Ahead
<1>4. CASE \E i, k \in DOMAIN pipe : i < k /\ Sent(i, a) /\ Sent(k, b)
  BY <1>1, <1>4 DEF Ahead
<1>5. CASE a \in Range(jobs) /\ Handled(b)
  BY <1>2, <1>5 DEF Ahead, Range
<1>6. CASE (a \in Range(jobs) \/ Handled(a)) /\ \E k \in DOMAIN pipe : Sent(k, b)
  <2>1. (a \in Range(jobs) \/ Handled(a))'
    BY <1>2, <1>6 DEF Range
  <2>2. PICK k \in DOMAIN pipe : Sent(k, b)
    BY <1>6
  <2>3. (\E i \in DOMAIN pipe : Sent(i, b))'
    BY <1>1, <2>2
  <2>4. QED
    BY <2>1, <2>3 DEF Ahead
<1>7. QED
  BY <1>3, <1>4, <1>5, <1>6 DEF Ahead

\* Where Main is in its own code matters only while it handles a new job, and
\* nothing but OnRead changes that: a hook may call Add.
LEMMA MainStays ==
    ASSUME TypeInv, NEW j, UNCHANGED hand, Handled(j),
           \/ UNCHANGED <<pc, back>>
           \/ pc'[Main] = pc[Main] /\ back'[Main] = back[Main]
           \/ pc'[Main] \in InAdd /\ back'[Main] = At(Main)
           \/ pc[Main] \in InAdd /\ pc'[Main] = back[Main]
    PROVE  Handled(j)'
<1>1. At(Main)' = IF pc'[Main] \in InAdd THEN back'[Main] ELSE pc'[Main]
  BY DEF At
<1>2. pc[Main] \in InAdd => back[Main] \in CallSites
  BY Points DEF TypeInv, CallsOK
<1>3. At(Main)' = At(Main)
  BY <1>1, <1>2 DEF At, CallSites, InAdd
<1>4. QED
  BY <1>3 DEF Handled

\* OnRead takes a message: if it is a new job, it is the next in the line.
LEMMA AheadRead ==
    ASSUME TypeInv, NEW a, NEW b, Ahead(a, b), pc[Main] \in {"loop", "read"},
           jobs' = jobs, pipe # << >>, pipe' = Tail(pipe),
           \A j : Sent(1, j) => Handled(j)'
    PROVE  Ahead(a, b)'
<1>1. pipe \in Seq(Messages)
  BY DEF TypeInv, TypeOK
<1>2. /\ Len(pipe) \in Nat \ {0} /\ DOMAIN pipe = 1 .. Len(pipe) /\ Head(pipe) = pipe[1]
      /\ DOMAIN pipe' = 1 .. Len(pipe) - 1
      /\ \A i \in 1 .. Len(pipe) - 1 : pipe'[i] = pipe[i + 1]
  BY <1>1
<1>3. ~Handled(a) /\ ~Handled(b)
  BY DEF Handled, At, InAdd
<1>4. ASSUME NEW j, NEW k \in DOMAIN pipe, Sent(k, j)
      PROVE  \/ k = 1 /\ Handled(j)'
             \/ k > 1 /\ k - 1 \in DOMAIN pipe' /\ Sent(k - 1, j)'
  <2>1. CASE k = 1
    BY <1>2, <1>4, <2>1 DEF Sent
  <2>2. CASE k # 1
    <3>1. k - 1 \in 1 .. Len(pipe) - 1 /\ (k - 1) + 1 = k /\ k > 1
      BY <1>2, <2>2
    <3>2. pipe'[k - 1] = pipe[k] /\ k - 1 \in DOMAIN pipe'
      BY <1>2, <3>1
    <3>3. QED
      BY <1>4, <3>1, <3>2 DEF Sent
  <2>3. QED
    BY <2>1, <2>2
<1>5. CASE \E i, k \in DOMAIN jobs : i < k /\ jobs[i] = a /\ jobs[k] = b
  BY <1>5 DEF Ahead
<1>6. CASE \E i, k \in DOMAIN pipe : i < k /\ Sent(i, a) /\ Sent(k, b)
  <2>1. PICK i \in DOMAIN pipe, k \in DOMAIN pipe : i < k /\ Sent(i, a) /\ Sent(k, b)
    BY <1>6
  <2>2. k # 1 /\ i - 1 < k - 1
    BY <1>2, <2>1
  <2>3. k - 1 \in DOMAIN pipe' /\ Sent(k - 1, b)'
    BY <1>4, <2>1, <2>2
  <2>4. Handled(a)' \/ (i - 1 \in DOMAIN pipe' /\ Sent(i - 1, a)')
    BY <1>4, <2>1
  <2>5. QED
    BY <2>2, <2>3, <2>4 DEF Ahead
<1>7. CASE a \in Range(jobs) /\ \E k \in DOMAIN pipe : Sent(k, b)
  <2>1. PICK k \in DOMAIN pipe : Sent(k, b)
    BY <1>7
  <2>2. Handled(b)' \/ (k - 1 \in DOMAIN pipe' /\ Sent(k - 1, b)')
    BY <1>4, <2>1
  <2>3. (a \in Range(jobs))'
    BY <1>7 DEF Range
  <2>4. QED
    BY <2>2, <2>3 DEF Ahead
<1>8. QED
  BY <1>3, <1>5, <1>6, <1>7 DEF Ahead

\* The job OnRead handles goes behind those in the list if it was given to Add.
LEMMA AheadPush ==
    ASSUME TypeInv, ModesOK, PushJob, list # "torn",
           NEW a \in Jobs \ Urgent, NEW b \in Jobs \ Urgent, Ahead(a, b)
    PROVE  Ahead(a, b)'
<1>1. /\ jobs \in Seq(Jobs) /\ hand[Main] \in Jobs /\ pipe' = pipe /\ pc[Main] = "push"
      /\ mode = "front" <=> hand[Main] \in Urgent
      /\ jobs' = IF mode = "front" THEN <<hand[Main]>> \o jobs ELSE Append(jobs, hand[Main])
  BY DEF PushJob, Relink, AfterPush, TypeInv, TypeOK, HandsOK, ModesOK
<1>2. \A j : Handled(j) <=> hand[Main] = j
  BY <1>1 DEF Handled, At, InAdd
<1>3. \A k, j : Sent(k, j) => Sent(k, j)'
  BY <1>1 DEF Sent
<1>4. Len(jobs) \in Nat /\ DOMAIN jobs = 1 .. Len(jobs)
  BY <1>1
<1>5. CASE mode = "front"
  <2>1. /\ DOMAIN jobs' = 1 .. Len(jobs) + 1
        /\ \A i \in 1 .. Len(jobs) : jobs'[i + 1] = jobs[i] /\ i + 1 \in DOMAIN jobs'
    BY <1>1, <1>4, <1>5
  <2>2. hand[Main] # a /\ hand[Main] # b
    BY <1>1, <1>5
  <2>3. CASE \E i, k \in DOMAIN jobs : i < k /\ jobs[i] = a /\ jobs[k] = b
    <3>1. PICK i \in DOMAIN jobs, k \in DOMAIN jobs : i < k /\ jobs[i] = a /\ jobs[k] = b
      BY <2>3
    <3>2. i + 1 < k + 1 /\ i + 1 \in DOMAIN jobs' /\ k + 1 \in DOMAIN jobs'
          /\ jobs'[i + 1] = a /\ jobs'[k + 1] = b
      BY <1>4, <2>1, <3>1
    <3>3. QED
      BY <3>2 DEF Ahead
  <2>4. CASE \E i, k \in DOMAIN pipe : i < k /\ Sent(i, a) /\ Sent(k, b)
    BY <1>1, <1>3, <2>4 DEF Ahead
  <2>5. CASE a \in Range(jobs) /\ \E k \in DOMAIN pipe : Sent(k, b)
    <3>1. (a \in Range(jobs))'
      BY <1>4, <2>1, <2>5 DEF Range
    <3>2. QED
      BY <1>1, <1>3, <2>5, <3>1 DEF Ahead
  <2>6. QED
    BY <1>2, <2>2, <2>3, <2>4, <2>5 DEF Ahead
<1>6. CASE mode # "front"
  <2>1. /\ DOMAIN jobs' = 1 .. Len(jobs) + 1 /\ jobs'[Len(jobs) + 1] = hand[Main]
        /\ \A i \in 1 .. Len(jobs) : jobs'[i] = jobs[i] /\ i \in DOMAIN jobs'
    BY <1>1, <1>4, <1>6
  <2>2. \A i \in DOMAIN jobs : i < Len(jobs) + 1
    BY <1>4
  <2>3. CASE \E i, k \in DOMAIN jobs : i < k /\ jobs[i] = a /\ jobs[k] = b
    BY <1>4, <2>1, <2>3 DEF Ahead
  <2>4. CASE \E i, k \in DOMAIN pipe : i < k /\ Sent(i, a) /\ Sent(k, b)
    BY <1>1, <1>3, <2>4 DEF Ahead
  <2>5. CASE a \in Range(jobs) /\ hand[Main] = b
    <3>1. PICK i \in DOMAIN jobs : jobs[i] = a
      BY <2>5 DEF Range
    <3>2. i < Len(jobs) + 1 /\ i \in DOMAIN jobs' /\ Len(jobs) + 1 \in DOMAIN jobs'
          /\ jobs'[i] = a /\ jobs'[Len(jobs) + 1] = b
      BY <1>4, <2>1, <2>2, <2>5, <3>1
    <3>3. QED
      BY <3>2 DEF Ahead
  <2>6. CASE (a \in Range(jobs) \/ hand[Main] = a) /\ \E k \in DOMAIN pipe : Sent(k, b)
    <3>1. (a \in Range(jobs))'
      BY <1>4, <2>1, <2>6 DEF Range
    <3>2. QED
      BY <1>1, <1>3, <2>6, <3>1 DEF Ahead
  <2>7. QED
    BY <1>2, <2>3, <2>4, <2>5, <2>6 DEF Ahead
<1>7. QED
  BY <1>5, <1>6

\* What pop_front() removes is the job that front() read, or one of AddFront that
\* slipped in between.
HeadOK ==
    pc[Worker] = "unlink" /\ list # "torn"
      => hand[Worker] = Head(jobs) \/ Head(jobs) \in Urgent

LEMMA HeadStep ==
    ASSUME TypeInv, ModesOK, HeadOK, [Next]_vars
    PROVE  HeadOK'
<1>1. CASE pc'[Worker] # "unlink" \/ list' = "torn"
  BY <1>1 DEF HeadOK
<1>2. CASE UNCHANGED <<jobs, list>> /\ pc'[Worker] = pc[Worker] /\ hand'[Worker] = hand[Worker]
  BY <1>2 DEF HeadOK
<1>3. CASE OwnerNext
  <2>1. UNCHANGED <<jobs, list, hand>>
    BY <1>3 DEF OwnerNext, StartCreate, StartLock, Stop, JoinCall, JoinReturn
  <2>2. pc'[Worker] = pc[Worker] \/ pc'[Worker] # "unlink"
    BY <1>3, Points
       DEF OwnerNext, StartCreate, StartLock, Stop, JoinCall, JoinReturn, Goto, TypeInv, TypeOK
  <2>3. QED
    BY <1>1, <1>2, <2>1, <2>2
<1>4. CASE AddNext
  <2>1. UNCHANGED <<jobs, list, hand>>
    BY <1>4 DEF AddNext, AddCall, AddLock, AddWrite, ClearHook
  <2>2. pc'[Worker] = pc[Worker] \/ pc'[Worker] # "unlink"
    <3>1. ASSUME NEW t \in Threads, NEW j \in Jobs, AddCall(t, j)
          PROVE  pc'[Worker] = pc[Worker] \/ pc'[Worker] # "unlink"
      BY <3>1, Points DEF AddCall, Goto, TypeInv, TypeOK
    <3>2. ASSUME NEW t \in Threads, AddLock(t)
          PROVE  pc'[Worker] = pc[Worker] \/ pc'[Worker] # "unlink"
      BY <3>2, Points DEF AddLock, Goto, TypeInv, TypeOK
    <3>3. ASSUME NEW t \in Threads, AddWrite(t)
          PROVE  pc'[Worker] = pc[Worker] \/ pc'[Worker] # "unlink"
      BY <3>3, Points DEF AddWrite, Goto, TypeInv, TypeOK, CallsOK, InAdd, CallSites
    <3>4. ASSUME NEW j \in Jobs, ClearHook(j) PROVE pc'[Worker] = pc[Worker]
      BY <3>4 DEF ClearHook
    <3>5. QED
      BY <1>4, <3>1, <3>2, <3>3, <3>4 DEF AddNext
  <2>3. QED
    BY <1>1, <1>2, <2>1, <2>2
<1>5. CASE PushJob
  <2>1. /\ pc'[Worker] = pc[Worker] /\ hand'[Worker] = hand[Worker]
        /\ (mode = "front" <=> hand[Main] \in Urgent)
        /\ jobs \in Seq(Jobs) /\ hand[Main] \in Jobs
    BY <1>5, Points
       DEF PushJob, AfterPush, Goto, TypeInv, TypeOK, HandsOK, ModesOK
  <2>2. CASE pc[Worker] = "unlink" /\ list' # "torn"
    <3>1. list # "torn" /\ jobs # << >>
      BY <1>5, <2>2 DEF PushJob, AfterPush, TypeInv, HandsOK
    <3>2. CASE mode = "front"
      <4>1. Head(jobs') = hand[Main]
        BY <1>5, <2>1, <3>1, <3>2 DEF PushJob, Relink
      <4>2. QED
        BY <2>1, <3>2, <4>1 DEF HeadOK
    <3>3. CASE mode # "front"
      <4>1. Head(jobs') = Head(jobs)
        BY <1>5, <2>1, <3>1, <3>3 DEF PushJob, Relink
      <4>2. QED
        BY <2>1, <2>2, <3>1, <4>1 DEF HeadOK
    <3>4. QED
      BY <3>2, <3>3
  <2>3. QED
    BY <1>1, <2>1, <2>2
<1>6. CASE OnRead /\ ~PushJob
  <2>1. UNCHANGED <<jobs, list>>
    BY <1>6
    DEF OnRead, ReadNewJob, ReadExecutedJob, ReadNothing, PreAccept, PreRefuse, Signal,
        PostReturn
  <2>2. hand'[Worker] = hand[Worker]
    BY <1>6, Points
    DEF OnRead, ReadNewJob, ReadExecutedJob, ReadNothing, PreAccept, PreRefuse, Signal,
        PostReturn, TypeInv, TypeOK
  <2>3. pc'[Worker] = pc[Worker] \/ pc'[Worker] # "unlink"
    BY <1>6, Points
    DEF OnRead, ReadNewJob, ReadExecutedJob, ReadNothing, PreAccept, PreRefuse, Signal,
        PostReturn, Goto, TypeInv, TypeOK
  <2>4. QED
    BY <1>1, <1>2, <2>1, <2>2, <2>3
<1>7. CASE Front
  BY <1>7, Points DEF Front, Goto, HeadOK, TypeInv, TypeOK
<1>8. CASE (run \/ SpuriousWakeup) /\ ~Front
  <2>1. pc'[Worker] # "unlink"
    BY <1>8, Points
    DEF run, ShouldContinue, TakeMutex, TestSize, Wait, PopFront, ExecuteReturn, FinishJob,
        ReportJob, SpuriousWakeup, Goto, TypeInv, TypeOK
  <2>2. QED
    BY <1>1, <2>1
<1>9. CASE Tear \/ Crash
  BY <1>1, <1>9 DEF Tear, Crash
<1>10. CASE UNCHANGED vars
  BY <1>2, <1>10 DEF vars
<1>11. QED
  BY <1>3, <1>4, <1>5, <1>6, <1>7, <1>8, <1>9, <1>10 DEF Next

\* The Worker takes the first job of the list, and the others keep their order.
LEMMA AheadPop ==
    ASSUME TypeInv, HeadOK, PopFront, list # "torn",
           NEW a \in Jobs \ Urgent, NEW b, Ahead(a, b)
    PROVE  Ahead(a, b)' \/ hand'[Worker] = a
<1>1. /\ jobs \in Seq(Jobs) /\ jobs # << >> /\ jobs' = Tail(jobs)
      /\ UNCHANGED <<pipe, back, hand>>
      /\ pc' = [pc EXCEPT ![Worker] = "exec"]
      /\ hand[Worker] = Head(jobs) \/ Head(jobs) \in Urgent
  BY DEF PopFront, Relink, Goto, HeadOK, TypeInv, TypeOK, HandsOK
<1>2. /\ Len(jobs) \in Nat \ {0} /\ DOMAIN jobs = 1 .. Len(jobs) /\ Head(jobs) = jobs[1]
      /\ DOMAIN jobs' = 1 .. Len(jobs) - 1
      /\ \A i \in 1 .. Len(jobs) - 1 : jobs'[i] = jobs[i + 1]
  BY <1>1
<1>3. (jobs[1] = a => hand'[Worker] = a) /\ pc'[Main] = pc[Main]
  BY <1>1, <1>2, Points DEF TypeInv, TypeOK
<1>4. \A j : Handled(j) => Handled(j)'
  BY <1>1, <1>3 DEF Handled, At
<1>5. \A k, j : Sent(k, j) => Sent(k, j)'
  BY <1>1 DEF Sent
<1> SUFFICES ASSUME jobs[1] # a PROVE Ahead(a, b)'
  BY <1>3
<1>6. \A i \in DOMAIN jobs : i # 1 => i - 1 \in DOMAIN jobs' /\ jobs'[i - 1] = jobs[i]
  <2> SUFFICES ASSUME NEW i \in DOMAIN jobs, i # 1
               PROVE  i - 1 \in DOMAIN jobs' /\ jobs'[i - 1] = jobs[i]
    OBVIOUS
  <2>1. i - 1 \in 1 .. Len(jobs) - 1 /\ (i - 1) + 1 = i
    BY <1>2
  <2>2. QED
    BY <1>2, <2>1
<1>7. a \in Range(jobs) => (a \in Range(jobs))'
  BY <1>6 DEF Range
<1>8. CASE \E i, k \in DOMAIN jobs : i < k /\ jobs[i] = a /\ jobs[k] = b
  <2>1. PICK i \in DOMAIN jobs, k \in DOMAIN jobs : i < k /\ jobs[i] = a /\ jobs[k] = b
    BY <1>8
  <2>2. i # 1 /\ k # 1 /\ i - 1 < k - 1
    BY <1>2, <2>1
  <2>3. /\ i - 1 \in DOMAIN jobs' /\ k - 1 \in DOMAIN jobs'
        /\ jobs'[i - 1] = a /\ jobs'[k - 1] = b
    BY <1>6, <2>1, <2>2
  <2>4. QED
    BY <2>2, <2>3 DEF Ahead
<1>9. CASE \E i, k \in DOMAIN pipe : i < k /\ Sent(i, a) /\ Sent(k, b)
  BY <1>1, <1>5, <1>9 DEF Ahead
<1>10. CASE a \in Range(jobs) /\ Handled(b)
  BY <1>4, <1>7, <1>10 DEF Ahead
<1>11. CASE (a \in Range(jobs) \/ Handled(a)) /\ \E k \in DOMAIN pipe : Sent(k, b)
  BY <1>1, <1>4, <1>5, <1>7, <1>11 DEF Ahead
<1>12. QED
  BY <1>8, <1>9, <1>10, <1>11 DEF Ahead

\* What a step may do to two jobs of Add on their way.
LEMMA AheadStep ==
    ASSUME TypeInv, ModesOK, HeadOK, [Next]_vars,
           NEW a \in Jobs \ Urgent, NEW b \in Jobs \ Urgent, Ahead(a, b)
    PROVE  \/ Ahead(a, b)'
           \/ hand'[Worker] = a
           \/ {a, b} \cap done' # {}
           \/ list' = "torn"
<1>1. CASE OwnerNext
  <2>1. /\ UNCHANGED <<jobs, pipe, hand, back>>
        /\ pc[Main] \in {"loop", "startLock", "joining"} \/ UNCHANGED pc
    BY <1>1 DEF OwnerNext, StartCreate, StartLock, Stop, JoinCall, JoinReturn
  <2>2. \A j : Handled(j) => Handled(j)'
    BY <2>1 DEF Handled, At, InAdd
  <2>3. QED
    BY <2>1, <2>2, AheadStays
<1>2. CASE AddNext
  <2>1. ASSUME NEW t \in Threads, NEW j \in Jobs, AddCall(t, j) PROVE Ahead(a, b)'
    <3>1. /\ UNCHANGED <<jobs, pipe, hand>> /\ pc[t] \in CallSites
          /\ pc' = [pc EXCEPT ![t] = "addLock"] /\ back' = [back EXCEPT ![t] = pc[t]]
      BY <2>1, UseAssumption DEF AddCall, Goto
    <3>2. \/ pc'[Main] = pc[Main] /\ back'[Main] = back[Main]
          \/ pc'[Main] \in InAdd /\ back'[Main] = At(Main)
      <4>1. CASE t = Main
        BY <3>1, <4>1, Points DEF TypeInv, TypeOK, At, InAdd, CallSites
      <4>2. CASE t # Main
        BY <3>1, <4>2, Points DEF TypeInv, TypeOK
      <4>3. QED
        BY <4>1, <4>2
    <3>3. QED
      BY <3>1, <3>2, MainStays, AheadStays
  <2>2. ASSUME NEW t \in Threads, AddLock(t) PROVE Ahead(a, b)'
    <3>1. /\ UNCHANGED <<jobs, pipe, hand, back>> /\ pc[t] = "addLock"
          /\ pc' = [pc EXCEPT ![t] = "addWrite"]
      BY <2>2 DEF AddLock, Goto
    <3>2. \/ pc'[Main] = pc[Main] /\ back'[Main] = back[Main]
          \/ pc'[Main] \in InAdd /\ back'[Main] = At(Main)
      <4>1. CASE t = Main
        BY <3>1, <4>1, Points DEF TypeInv, TypeOK, At, InAdd
      <4>2. CASE t # Main
        BY <3>1, <4>2, Points DEF TypeInv, TypeOK
      <4>3. QED
        BY <4>1, <4>2
    <3>3. QED
      BY <3>1, <3>2, MainStays, AheadStays
  <2>3. ASSUME NEW t \in Threads, AddWrite(t) PROVE Ahead(a, b)'
    <3> DEFINE m == [mode |-> IF adding[t] \in Urgent THEN "front" ELSE "back",
                     job |-> adding[t]]
    <3>1. /\ UNCHANGED <<jobs, hand, back>> /\ pc[t] = "addWrite"
          /\ pc' = [pc EXCEPT ![t] = back[t]] /\ pipe' = Append(pipe, m)
          /\ pipe \in Seq(Messages)
      BY <2>3 DEF AddWrite, Goto, Kernel!Written, TypeInv, TypeOK
    <3>2. \A k \in DOMAIN pipe : k \in DOMAIN pipe' /\ pipe'[k] = pipe[k]
      <4>1. adding[t] \in Jobs
        BY <3>1 DEF TypeInv, CallsOK, InAdd
      <4>2. m \in Messages
        BY <4>1 DEF Messages, Modes
      <4> HIDE DEF m
      <4>3. QED
        BY <3>1, <4>2
    <3>3. \/ pc'[Main] = pc[Main] /\ back'[Main] = back[Main]
          \/ pc[Main] \in InAdd /\ pc'[Main] = back[Main]
      <4>1. CASE t = Main
        BY <3>1, <4>1, Points DEF TypeInv, TypeOK, InAdd
      <4>2. CASE t # Main
        BY <3>1, <4>2, Points DEF TypeInv, TypeOK
      <4>3. QED
        BY <4>1, <4>2
    <3>4. QED
      BY <3>1, <3>2, <3>3, MainStays, AheadStays
  <2>4. ASSUME NEW j \in Jobs, ClearHook(j) PROVE Ahead(a, b)'
    <3>1. UNCHANGED <<jobs, pipe, hand, back, pc>>
      BY <2>4 DEF ClearHook
    <3>2. QED
      BY <3>1, MainStays, AheadStays
  <2>5. QED
    BY <1>2, <2>1, <2>2, <2>3, <2>4 DEF AddNext
<1>3. CASE ReadNewJob
  <2>1. /\ pc[Main] \in {"loop", "read"} /\ jobs' = jobs /\ pipe # << >> /\ pipe' = Tail(pipe)
        /\ pc' = [pc EXCEPT ![Main] = "pre"]
        /\ hand' = [hand EXCEPT ![Main] = Head(pipe).job]
    BY <1>3 DEF ReadNewJob, Goto, Kernel!Readable, Kernel!NextMessage, Kernel!AfterRead
  <2>2. ASSUME NEW j, Sent(1, j) PROVE Handled(j)'
    <3>1. Head(pipe) = pipe[1]
      BY <2>1 DEF TypeInv, TypeOK
    <3>2. hand'[Main] = j /\ pc'[Main] = "pre"
      BY <2>1, <2>2, <3>1, Points DEF TypeInv, TypeOK, Sent
    <3>3. QED
      BY <3>2 DEF Handled, At, InAdd
  <2>3. QED
    BY <2>1, <2>2, AheadRead
<1>4. CASE ReadExecutedJob
  <2>1. /\ pc[Main] \in {"loop", "read"} /\ jobs' = jobs /\ pipe # << >> /\ pipe' = Tail(pipe)
        /\ Head(pipe).mode = "done"
    BY <1>4 DEF ReadExecutedJob, Kernel!Readable, Kernel!NextMessage, Kernel!AfterRead
  <2>2. Head(pipe) = pipe[1]
    BY <2>1 DEF TypeInv, TypeOK
  <2>3. \A j : ~Sent(1, j)
    BY <2>1, <2>2 DEF Sent
  <2>4. QED
    BY <2>1, <2>3, AheadRead
<1>5. CASE ReadNothing \/ Signal \/ PostReturn
  <2>1. UNCHANGED <<jobs, pipe>> /\ pc[Main] \in {"read", "signal", "post"}
    BY <1>5 DEF ReadNothing, Signal, PostReturn
  <2>2. \A j : ~Handled(j)
    BY <2>1 DEF Handled, At, InAdd
  <2>3. QED
    BY <2>1, <2>2, AheadStays
<1>6. CASE PreAccept
  <2>1. /\ UNCHANGED <<jobs, pipe, hand>>
        /\ pc' = [pc EXCEPT ![Main] = "push"]
    BY <1>6 DEF PreAccept, Goto
  <2>2. \A j : Handled(j) => Handled(j)'
    BY <2>1, Points DEF TypeInv, TypeOK, Handled, At, InAdd
  <2>3. QED
    BY <2>1, <2>2, AheadStays
<1>7. CASE PreRefuse
  <2>1. UNCHANGED <<jobs, pipe>> /\ hand[Main] \in done'
    BY <1>7 DEF PreRefuse, LetGo
  <2>2. CASE Handled(a) \/ Handled(b)
    BY <2>1, <2>2 DEF Handled
  <2>3. CASE ~Handled(a) /\ ~Handled(b)
    BY <2>1, <2>3, AheadStays
  <2>4. QED
    BY <2>2, <2>3
<1>8. CASE PushJob
  <2>1. list' # "torn" => list # "torn"
    BY <1>8 DEF PushJob, AfterPush
  <2>2. QED
    BY <1>8, <2>1, AheadPush
<1>9. CASE PopFront
  <2>1. list' = list
    BY <1>9 DEF PopFront
  <2>2. QED
    BY <1>9, <2>1, AheadPop
<1>10. ASSUME UNCHANGED <<jobs, pipe, back>>, pc'[Main] = pc[Main], hand'[Main] = hand[Main]
       PROVE  Ahead(a, b)'
  <2>1. \A j : Handled(j) => Handled(j)'
    BY <1>10 DEF Handled, At
  <2>2. QED
    BY <1>10, <2>1, AheadStays
<1>11. CASE ShouldContinue \/ TakeMutex \/ TestSize \/ Wait \/ ExecuteReturn \/ SpuriousWakeup
  <2>1. UNCHANGED <<jobs, pipe, back, hand>>
    BY <1>11 DEF ShouldContinue, TakeMutex, TestSize, Wait, ExecuteReturn, SpuriousWakeup
  <2>2. pc'[Main] = pc[Main]
    BY <1>11, Points
       DEF ShouldContinue, TakeMutex, TestSize, Wait, ExecuteReturn, SpuriousWakeup, Goto,
           TypeInv, TypeOK
  <2>3. QED
    BY <1>10, <2>1, <2>2
<1>12. CASE Front \/ FinishJob
  <2>1. UNCHANGED <<jobs, pipe, back>>
    BY <1>12 DEF Front, FinishJob
  <2>2. pc'[Main] = pc[Main] /\ hand'[Main] = hand[Main]
    BY <1>12, Points DEF Front, FinishJob, Goto, TypeInv, TypeOK
  <2>3. QED
    BY <1>10, <2>1, <2>2
<1>13. CASE ReportJob
  <2> DEFINE m == [mode |-> "done", job |-> hand[Worker]]
  <2>1. /\ UNCHANGED <<jobs, back>> /\ pc[Worker] = "report" /\ pipe' = Append(pipe, m)
        /\ pc' = [pc EXCEPT ![Worker] = "check"]
        /\ hand' = [hand EXCEPT ![Worker] = NoJob] /\ pipe \in Seq(Messages)
    BY <1>13 DEF ReportJob, Goto, Kernel!Written, TypeInv, TypeOK
  <2>2. m \in Messages
    BY <2>1 DEF TypeInv, HandsOK, Messages, Modes
  <2> HIDE DEF m
  <2>3. \A k \in DOMAIN pipe : k \in DOMAIN pipe' /\ pipe'[k] = pipe[k]
    BY <2>1, <2>2
  <2>4. pc'[Main] = pc[Main] /\ hand'[Main] = hand[Main]
    BY <2>1, Points DEF TypeInv, TypeOK
  <2>5. \A j : Handled(j) => Handled(j)'
    BY <2>1, <2>4 DEF Handled, At
  <2>6. QED
    BY <2>1, <2>3, <2>5, AheadStays
<1>14. CASE Tear \/ Crash
  BY <1>14 DEF Tear, Crash
<1>15. CASE UNCHANGED vars
  BY <1>15, MainStays, AheadStays DEF vars
<1>16. QED
  BY <1>1, <1>2, <1>3, <1>4, <1>5, <1>6, <1>7, <1>8, <1>9, <1>11, <1>12, <1>13, <1>14, <1>15
     DEF Next, OnRead, run

\* Whatever the producers, AddFront, the hooks and the Worker do, no job given to
\* Add overtakes another one between the write into the pipe and the Worker's
\* pop_front, also when an AddFront slips between front and pop_front, and as
\* long as no link is torn (JobThread.cpp:40-50, 106-107).
THEOREM AddsKeepTheirOrder == Spec => AddsInOrder
<1>1. TypeInv /\ ModesOK /\ HeadOK /\ [Next]_vars
        => [\A a, b \in Jobs \ Urgent :
              Ahead(a, b) => \/ Ahead(a, b)'
                             \/ hand'[Worker] = a
                             \/ {a, b} \cap done' # {}
                             \/ list' = "torn"]_vars
  BY AheadStep
<1>2. Init => HeadOK
  BY Points DEF Init, HeadOK
<1>3. QED
  BY <1>1, <1>2, TypeInit, TypeStep, UrgentInit, ModesStep, HeadStep, PTL
     DEF Spec, AddsInOrder

-----------------------------------------------------------------------------
(***************************************************************************)
(* KeepsContract: JobThread implements JobContract.                         *)
(***************************************************************************)

\* A thread outside Add adds no job, and Main and the Worker have none in hand
\* where they use none.
HandsEmpty ==
    /\ \A t \in Threads : pc[t] \notin InAdd \cup {"dead"} => adding[t] = NoJob
    /\ pc[Main] \in MainAt \ {"pre", "push", "post"} => hand[Main] = NoJob
    /\ pc[Main] \in InAdd /\ back[Main] \notin {"pre", "post"} => hand[Main] = NoJob
    /\ pc[Worker] \in WorkerAt \ {"unlink", "exec", "finish", "report"} => hand[Worker] = NoJob
    /\ pc[Worker] \in InAdd => back[Worker] = "exec"

--------------------------------------------------------------------------------
(* Where a job is, and the phase it is in there *)

DoneJobs(p) == {p[i].job : i \in {x \in DOMAIN p : p[x].mode = "done"}}
NewJobs(p) == {p[i].job : i \in {x \in DOMAIN p : p[x].mode # "done"}}
Adding == {adding[t] : t \in Threads}

MainPhase ==
    CASE At(Main) = "pre"  -> "queued"
      [] At(Main) = "push" -> "ready"
      [] OTHER             -> "ran"
WorkerPhase ==
    CASE At(Worker) = "unlink" -> "ready"
      [] At(Worker) = "exec"   -> "running"
      [] OTHER                 -> "ran"

Nowhere(j) ==
    /\ j \notin done \cup Range(jobs) \cup DoneJobs(pipe) \cup NewJobs(pipe) \cup Adding
    /\ hand[Main] # j /\ hand[Worker] # j

Located ==
    \A j \in Jobs :
        /\ j \in done => PhaseOf(j) = "done"
        /\ j \in Range(jobs) => PhaseOf(j) = "ready"
        /\ j \in DoneJobs(pipe) => PhaseOf(j) = "ran"
        /\ j \in NewJobs(pipe) => PhaseOf(j) = "queued"
        /\ j \in Adding => PhaseOf(j) = "queued"
        /\ hand[Main] = j => PhaseOf(j) = MainPhase
        /\ hand[Worker] = j => PhaseOf(j) = WorkerPhase
        /\ Nowhere(j) => PhaseOf(j) = IF j \in listed THEN "ready" ELSE "fresh"

\* No job is in two places, so that its phase is the one of its place.
LEMMA Places == TypeInv /\ Owned => Located
<1> SUFFICES ASSUME TypeInv, Owned, NEW j \in Jobs
             PROVE  /\ j \in done => PhaseOf(j) = "done"
                    /\ j \in Range(jobs) => PhaseOf(j) = "ready"
                    /\ j \in DoneJobs(pipe) => PhaseOf(j) = "ran"
                    /\ j \in NewJobs(pipe) => PhaseOf(j) = "queued"
                    /\ j \in Adding => PhaseOf(j) = "queued"
                    /\ hand[Main] = j => PhaseOf(j) = MainPhase
                    /\ hand[Worker] = j => PhaseOf(j) = WorkerPhase
                    /\ Nowhere(j) => PhaseOf(j) = IF j \in listed THEN "ready" ELSE "fresh"
  BY DEF Located
<1> DEFINE d == j \in done
           r == j \in Range(jobs)
           l == j \in listed
           x == \E i \in DOMAIN pipe : pipe[i].job = j /\ pipe[i].mode = "done"
           n == \E i \in DOMAIN pipe : pipe[i].job = j /\ pipe[i].mode # "done"
           a == \E t \in Threads : adding[t] = j
           m == hand[Main] = j
           w == hand[Worker] = j
<1>1. /\ x <=> j \in DoneJobs(pipe)
      /\ n <=> j \in NewJobs(pipe)
      /\ a <=> j \in Adding
      /\ x \/ n <=> j \in JobsInPipe
  BY DEF DoneJobs, NewJobs, Adding, JobsInPipe
<1>2. /\ ~(x /\ n)
      /\ j \in JobsInPipe => ~d /\ ~r
      /\ ~(d /\ r)
  BY DEF Owned
<1>3. /\ a => ~d /\ ~r /\ j \notin JobsInPipe /\ ~m /\ ~w
      /\ m => ~d /\ ~r /\ j \notin JobsInPipe /\ ~w
      /\ w => ~d /\ (r => WorkerPhase = "ready") /\ j \notin JobsInPipe
  <2>1. \A t \in Threads : adding[t] = j \/ (hand[t] = j /\ ~(t = Worker /\ pc[t] = "unlink"))
                              => j \in Held(t)
    BY JobsAssumption DEF Held
  <2>2. Main \in Threads /\ Worker \in Threads /\ Main # Worker /\ j # NoJob
    BY Points, JobsAssumption
  <2>3. \A t \in Threads : j \in Held(t) => ~d /\ ~r /\ j \notin JobsInPipe
    BY DEF Owned
  <2>4. \A t, u \in Threads : j \in Held(t) /\ j \in Held(u) => t = u
    BY DEF Owned
  <2>5. \A t \in Threads : ~(adding[t] = j /\ hand[t] = j)
    BY <2>2 DEF Owned
  <2>6. CASE pc[Worker] = "unlink"
    <3>1. w => r
      <4>1. jobs \in Seq(Jobs) /\ jobs # << >> /\ hand[Worker] = Head(jobs)
        BY <2>6 DEF TypeInv, TypeOK, Owned
      <4>2. 1 \in DOMAIN jobs /\ hand[Worker] = jobs[1]
        BY <4>1
      <4>3. QED
        BY <4>2 DEF Range
    <3>2. WorkerPhase = "ready"
      <4>1. At(Worker) = "unlink"
        BY <2>6 DEF At, InAdd
      <4>2. QED
        BY <4>1 DEF WorkerPhase
    <3>3. (a => ~r) /\ (m => ~r)
      BY <2>1, <2>2, <2>3
    <3>4. QED
      BY <1>2, <2>1, <2>2, <2>3, <2>4, <2>5, <3>1, <3>2, <3>3
  <2>7. CASE pc[Worker] # "unlink"
    BY <2>1, <2>2, <2>3, <2>4, <2>5, <2>7
  <2>8. QED
    BY <2>6, <2>7
<1>4. PhaseOf(j) = IF d THEN "done" ELSE IF r THEN "ready" ELSE IF x THEN "ran"
                   ELSE IF x \/ n \/ a THEN "queued" ELSE IF m THEN MainPhase
                   ELSE IF w THEN WorkerPhase ELSE IF l THEN "ready" ELSE "fresh"
  BY <1>1 DEF PhaseOf, MainPhase, WorkerPhase
<1> HIDE DEF d, r, x, n, a, m, w, l
<1>5. /\ d => PhaseOf(j) = "done"
      /\ r => PhaseOf(j) = "ready"
      /\ x => PhaseOf(j) = "ran"
      /\ n => PhaseOf(j) = "queued"
      /\ a => PhaseOf(j) = "queued"
      /\ m => PhaseOf(j) = MainPhase
      /\ w => PhaseOf(j) = WorkerPhase
      /\ ~d /\ ~r /\ ~x /\ ~n /\ ~a /\ ~m /\ ~w
           => PhaseOf(j) = IF l THEN "ready" ELSE "fresh"
  BY <1>1, <1>2, <1>3, <1>4
<1>6. QED
  BY <1>1, <1>5 DEF d, r, m, w, l, Nowhere

LEMMA PlacesNext == (TypeInv /\ Owned)' => Located'
BY Places, PTL
--------------------------------------------------------------------------------
(* HandsEmpty *)

LEMMA EmptyInit == Init => HandsEmpty
BY Points DEF Init, HandsEmpty, InAdd, MainAt, WorkerAt

LEMMA EmptyStep == TypeInv /\ HandsEmpty /\ [Next]_vars => HandsEmpty'
<1> SUFFICES ASSUME TypeInv, HandsEmpty, [Next]_vars PROVE HandsEmpty'
  OBVIOUS
<1>1. /\ Main \in Threads /\ Worker \in Threads /\ Main # Worker
      /\ pc \in [Threads -> PointsOf(Main) \cup PointsOf(Worker) \cup {"idle"}]
      /\ adding \in [Threads -> Jobs \cup {NoJob}]
      /\ hand \in [Threads -> Jobs \cup {NoJob}]
      /\ back \in [Threads -> PointsOf(Main) \cup PointsOf(Worker) \cup {"idle"}]
      /\ pc[Main] \in InAdd \cup {"dead"} \cup MainAt
      /\ pc[Worker] \in InAdd \cup {"dead"} \cup WorkerAt
  BY Points DEF TypeInv, TypeOK
<1> USE <1>1 DEF HandsEmpty, InAdd, MainAt, WorkerAt, Goto
<1>2. CASE OwnerNext
  BY <1>2 DEF OwnerNext, StartCreate, StartLock, Stop, JoinCall, JoinReturn
<1>3. ASSUME NEW t \in Threads, NEW j \in Jobs, AddCall(t, j) PROVE HandsEmpty'
  <2>1. pc[t] \in CallSites
    BY <1>3, UseAssumption DEF AddCall
  <2>2. QED
    BY <1>3, <2>1 DEF AddCall, CallSites
<1>4. ASSUME NEW t \in Threads, AddLock(t) \/ AddWrite(t) PROVE HandsEmpty'
  <2>1. back[t] \in PointsOf(t) \cap CallSites
    BY <1>4 DEF AddLock, AddWrite, TypeInv, CallsOK
  <2>2. /\ t = Main => back[t] \in {"loop", "pre", "post"}
        /\ t = Worker => back[t] = "exec"
    BY <2>1, Points DEF CallSites
  <2>3. QED
    BY <1>4, <2>2 DEF AddLock, AddWrite
<1>5. ASSUME NEW j \in Jobs, ClearHook(j) PROVE HandsEmpty'
  BY <1>5 DEF ClearHook
<1>6. CASE OnRead
  <2>1. CASE ReadNewJob \/ ReadNothing \/ PreAccept \/ PreRefuse
    BY <2>1 DEF ReadNewJob, ReadNothing, PreAccept, PreRefuse
  <2>2. CASE ReadExecutedJob
    BY <2>2 DEF ReadExecutedJob
  <2>3. CASE PushJob \/ Signal \/ PostReturn
    BY <2>3 DEF PushJob, AfterPush, Signal, PostReturn
  <2>4. QED
    BY <1>6, <2>1, <2>2, <2>3 DEF OnRead
<1>7. CASE run \/ SpuriousWakeup
  <2>1. CASE ShouldContinue \/ TakeMutex \/ TestSize \/ Wait \/ SpuriousWakeup
    BY <2>1 DEF ShouldContinue, TakeMutex, TestSize, Wait, SpuriousWakeup
  <2>2. CASE Front \/ PopFront \/ ExecuteReturn \/ ReportJob
    BY <2>2 DEF Front, PopFront, ExecuteReturn, ReportJob
  <2>3. CASE FinishJob
    BY <2>3 DEF FinishJob
  <2>4. QED
    BY <1>7, <2>1, <2>2, <2>3 DEF run
<1>8. CASE Tear \/ Crash
  BY <1>8 DEF Tear, Crash
<1>9. CASE UNCHANGED vars
  BY <1>9 DEF vars
<1>10. QED
  BY <1>2, <1>3, <1>4, <1>5, <1>6, <1>7, <1>8, <1>9 DEF Next, AddNext

--------------------------------------------------------------------------------
(* Steps that leave a job where it is *)

\* This step does not move job k.
Stays(k) ==
    /\ k \in done' <=> k \in done
    /\ k \in Range(jobs') <=> k \in Range(jobs)
    /\ k \in listed' <=> k \in listed
    /\ k \in DoneJobs(pipe') <=> k \in DoneJobs(pipe)
    /\ k \in NewJobs(pipe') <=> k \in NewJobs(pipe)
    /\ k \in Adding' <=> k \in Adding
    /\ hand'[Main] = k <=> hand[Main] = k
    /\ hand'[Worker] = k <=> hand[Worker] = k
    /\ hand[Main] = k => MainPhase' = MainPhase
    /\ hand[Worker] = k => WorkerPhase' = WorkerPhase

LEMMA StaysInPhase ==
    ASSUME Located, Located', NEW k \in Jobs, Stays(k)
    PROVE  PhaseOf(k)' = PhaseOf(k)
<1>1. \/ k \in done \/ k \in Range(jobs) \/ k \in DoneJobs(pipe)
      \/ k \in NewJobs(pipe) \/ k \in Adding \/ hand[Main] = k \/ hand[Worker] = k
      \/ Nowhere(k)
  BY DEF Nowhere
<1>2. Nowhere(k) => Nowhere(k)'
  BY DEF Nowhere, Stays
<1>3. QED
  BY <1>1, <1>2 DEF Located, Stays

\* The job that moves, if there is one, makes the step of the contract.
LEMMA OneMoves ==
    ASSUME Located, Located', NEW j \in Jobs, \A k \in Jobs \ {j} : Stays(k)
    PROVE  /\ Phase' = [Phase EXCEPT ![j] = PhaseOf(j)']
           /\ Phase[j] = PhaseOf(j)
<1>1. \A k \in Jobs \ {j} : PhaseOf(k)' = PhaseOf(k)
  BY StaysInPhase
<1>2. QED
  BY <1>1 DEF Phase

LEMMA NoneMoves ==
    ASSUME Located, Located', \A k \in Jobs : Stays(k)
    PROVE  Phase' = Phase
<1>1. \A k \in Jobs : PhaseOf(k)' = PhaseOf(k)
  BY StaysInPhase
<1>2. QED
  BY <1>1 DEF Phase

\* What a write and a read do to the jobs in the pipe.
LEMMA PipeWritten ==
    ASSUME NEW p \in Seq(Messages), NEW m \in Messages
    PROVE  /\ DoneJobs(Append(p, m)) = DoneJobs(p) \cup (IF m.mode = "done" THEN {m.job} ELSE {})
           /\ NewJobs(Append(p, m)) = NewJobs(p) \cup (IF m.mode = "done" THEN {} ELSE {m.job})
<1> DEFINE q == Append(p, m)
<1>1. /\ DOMAIN q = (DOMAIN p) \cup {Len(p) + 1}
      /\ q[Len(p) + 1] = m
      /\ \A i \in DOMAIN p : q[i] = p[i]
  OBVIOUS
<1> HIDE DEF q
<1>2. /\ DoneJobs(q) = DoneJobs(p) \cup (IF m.mode = "done" THEN {m.job} ELSE {})
      /\ NewJobs(q) = NewJobs(p) \cup (IF m.mode = "done" THEN {} ELSE {m.job})
  <2>1. CASE m.mode = "done"
    BY <1>1, <2>1 DEF DoneJobs, NewJobs
  <2>2. CASE m.mode # "done"
    BY <1>1, <2>2 DEF DoneJobs, NewJobs
  <2>3. QED
    BY <2>1, <2>2
<1>3. QED
  BY <1>2 DEF q

LEMMA PipeRead ==
    ASSUME NEW p \in Seq(Messages), p # << >>, NEW k, k # Head(p).job
    PROVE  /\ k \in DoneJobs(Tail(p)) <=> k \in DoneJobs(p)
           /\ k \in NewJobs(Tail(p)) <=> k \in NewJobs(p)
<1> DEFINE q == Tail(p)
<1>1. /\ \A i \in DOMAIN q : i + 1 \in DOMAIN p /\ q[i] = p[i + 1]
      /\ \A i \in DOMAIN p : i # 1 => i - 1 \in DOMAIN q /\ q[i - 1] = p[i]
      /\ Head(p) = p[1]
  OBVIOUS
<1> HIDE DEF q
<1>2. k \in DoneJobs(q) <=> k \in DoneJobs(p)
  BY <1>1 DEF DoneJobs
<1>3. k \in NewJobs(q) <=> k \in NewJobs(p)
  BY <1>1 DEF NewJobs
<1>4. QED
  BY <1>2, <1>3 DEF q

LEMMA PipeHead ==
    ASSUME NEW p \in Seq(Messages), p # << >>
    PROVE  Head(p).job \in IF Head(p).mode = "done" THEN DoneJobs(p) ELSE NewJobs(p)
<1>1. 1 \in DOMAIN p /\ Head(p) = p[1]
  OBVIOUS
<1>2. QED
  BY <1>1 DEF DoneJobs, NewJobs

--------------------------------------------------------------------------------
(* Every step is a step of the contract or none *)

\* What holds as long as the list is sound.
ContractInv == list = "sound" /\ TypeInv /\ Owned /\ HandsEmpty

LEMMA Facts ==
    TypeInv =>
      /\ Main \in Threads /\ Worker \in Threads /\ Main # Worker
      /\ pc \in [Threads -> PointsOf(Main) \cup PointsOf(Worker) \cup {"idle"}]
      /\ back \in [Threads -> PointsOf(Main) \cup PointsOf(Worker) \cup {"idle"}]
      /\ adding \in [Threads -> Jobs \cup {NoJob}]
      /\ hand \in [Threads -> Jobs \cup {NoJob}]
      /\ pc[Main] \in InAdd \cup {"dead"} \cup MainAt
      /\ pc[Worker] \in InAdd \cup {"dead"} \cup WorkerAt
      /\ pipe \in Seq(Messages) /\ jobs \in Seq(Jobs)
      /\ NoJob \notin Jobs
BY Points, JobsAssumption DEF TypeInv, TypeOK

\* A step that changes no place, nor the point of a thread with a job in hand.
LEMMA AllStay ==
    ASSUME UNCHANGED <<adding, hand, pipe, jobs, done, listed>>,
           At(Main)' = At(Main) \/ hand[Main] = NoJob,
           At(Worker)' = At(Worker) \/ hand[Worker] = NoJob
    PROVE  \A k \in Jobs : Stays(k)
<1>1. hand[Main] # NoJob => MainPhase' = MainPhase
  BY DEF MainPhase
<1>2. hand[Worker] # NoJob => WorkerPhase' = WorkerPhase
  BY DEF WorkerPhase
<1>3. Adding' = Adding
  BY DEF Adding
<1>4. QED
  BY <1>1, <1>2, <1>3, JobsAssumption DEF Stays

\* The steps that move no job.
LEMMA NobodyStays ==
    ASSUME ContractInv,
           \/ OwnerNext \/ SpuriousWakeup \/ UNCHANGED vars
           \/ \E t \in Threads : AddLock(t)
           \/ \E j \in Jobs : ClearHook(j)
           \/ ReadNothing \/ Signal \/ ShouldContinue \/ TakeMutex \/ TestSize \/ Wait
    PROVE  \A k \in Jobs : Stays(k)
<1> USE Facts DEF ContractInv, HandsEmpty, InAdd, MainAt, WorkerAt, Goto, At
<1>1. CASE OwnerNext
  BY <1>1, AllStay DEF OwnerNext, StartCreate, StartLock, Stop, JoinCall, JoinReturn
<1>3. CASE SpuriousWakeup \/ ShouldContinue \/ TakeMutex \/ TestSize \/ Wait
  BY <1>3, AllStay DEF SpuriousWakeup, ShouldContinue, TakeMutex, TestSize, Wait
<1>4. CASE UNCHANGED vars
  BY <1>4, AllStay DEF vars
<1>5. ASSUME NEW t \in Threads, AddLock(t) PROVE \A k \in Jobs : Stays(k)
  BY <1>5, AllStay DEF AddLock
<1>6. ASSUME NEW j \in Jobs, ClearHook(j) PROVE \A k \in Jobs : Stays(k)
  BY <1>6, AllStay DEF ClearHook
<1>7. CASE ReadNothing
  BY <1>7, AllStay DEF ReadNothing
<1>8. CASE Signal
  BY <1>8, AllStay DEF Signal
<1>9. QED
  BY <1>1, <1>3, <1>4, <1>5, <1>6, <1>7, <1>8

\* The contract's view of a step that moves at most job j.
LEMMA JobMoves ==
    ASSUME ContractInv, ContractInv', NEW j \in Jobs, \A k \in Jobs \ {j} : Stays(k)
    PROVE  /\ Contract!Move(j, PhaseOf(j), PhaseOf(j)')
           /\ PhaseOf(j)' = PhaseOf(j) => Phase' = Phase
<1>1. Located /\ Located'
  BY Places, PlacesNext DEF ContractInv
<1>2. Phase' = [Phase EXCEPT ![j] = PhaseOf(j)'] /\ Phase[j] = PhaseOf(j)
  BY <1>1, OneMoves
<1>3. PhaseOf(j)' = PhaseOf(j) => Phase' = Phase
  BY <1>2 DEF Phase
<1>4. QED
  BY <1>2, <1>3 DEF Contract!Move, Phase

\* Add takes a job that is nowhere, and puts it into the pipe.
LEMMA ContractAdd ==
    ASSUME ContractInv, ContractInv',
           NEW t \in Threads, (\E j \in Jobs : AddCall(t, j)) \/ AddWrite(t)
    PROVE  Contract!Next \/ Phase' = Phase
<1> USE Facts DEF ContractInv
<1>1. Located /\ Located'
  BY Places, PlacesNext
<1>2. ASSUME NEW j \in Jobs, AddCall(t, j) PROVE Contract!Next
  <2>1. /\ pc[t] \in CallSites /\ adding[t] = NoJob
        /\ adding' = [adding EXCEPT ![t] = j] /\ back' = [back EXCEPT ![t] = pc[t]]
        /\ pc' = [pc EXCEPT ![t] = "addLock"]
        /\ UNCHANGED <<hand, pipe, jobs, done, listed>>
    BY <1>2, UseAssumption DEF AddCall, Goto, CallSites, HandsEmpty, InAdd
  <2>2. Adding' = (Adding \ {NoJob}) \cup {j} \cup (Adding' \cap {NoJob})
    BY <2>1 DEF Adding
  <2>3. At(Main)' = At(Main) /\ At(Worker)' = At(Worker)
    BY <2>1 DEF At, InAdd, CallSites
  <2>4. MainPhase' = MainPhase /\ WorkerPhase' = WorkerPhase
    BY <2>3 DEF MainPhase, WorkerPhase
  <2>5. \A k \in Jobs \ {j} : Stays(k)
    BY <2>1, <2>2, <2>4 DEF Stays
  <2>6. Nowhere(j) /\ j \notin listed
    BY <1>2 DEF AddCall, Fresh, Nowhere, DoneJobs, NewJobs, JobsInPipe, Adding
  <2>7. PhaseOf(j) = "fresh" /\ PhaseOf(j)' = "queued"
    BY <1>1, <2>2, <2>6 DEF Located
  <2>8. Contract!Submit(j)
    BY <2>5, <2>7, JobMoves DEF Contract!Submit
  <2>9. QED
    BY <2>8 DEF Contract!Next
<1>3. CASE AddWrite(t)
  <2>0. PICK j \in Jobs : j = adding[t]
    BY <1>3 DEF AddWrite, TypeInv, CallsOK, InAdd
  <2> DEFINE m == [mode |-> IF j \in Urgent THEN "front" ELSE "back", job |-> j]
  <2>1. /\ pc[t] = "addWrite" /\ j = adding[t] /\ back[t] \in CallSites
        /\ adding' = [adding EXCEPT ![t] = NoJob] /\ pc' = [pc EXCEPT ![t] = back[t]]
        /\ pipe' = Append(pipe, m)
        /\ UNCHANGED <<back, hand, jobs, done, listed>>
    BY <1>3, <2>0 DEF AddWrite, Kernel!Written, Goto, TypeInv, CallsOK, InAdd
  <2>2. m \in Messages /\ m.mode # "done" /\ m.job = j
    BY <2>1 DEF Messages, Modes
  <2> HIDE DEF m
  <2>3. DoneJobs(pipe') = DoneJobs(pipe) /\ NewJobs(pipe') = NewJobs(pipe) \cup {j}
    BY <2>1, <2>2, PipeWritten
  <2>4. \A k \in Jobs \ {j} : k \in Adding' <=> k \in Adding
    BY <2>1 DEF Adding
  <2>5. At(Main)' = At(Main) /\ At(Worker)' = At(Worker)
    BY <2>1 DEF At, InAdd, CallSites
  <2>6. MainPhase' = MainPhase /\ WorkerPhase' = WorkerPhase
    BY <2>5 DEF MainPhase, WorkerPhase
  <2>7. \A k \in Jobs \ {j} : Stays(k)
    BY <2>1, <2>3, <2>4, <2>6 DEF Stays
  <2>8. PhaseOf(j) = "queued" /\ PhaseOf(j)' = "queued"
    BY <1>1, <2>1, <2>3 DEF Located, Adding
  <2>9. QED
    BY <2>1, <2>7, <2>8, JobMoves
<1>4. QED
  BY <1>2, <1>3

\* OnRead reads the message of a job, asks about it, and passes it on.
LEMMA ContractRead ==
    ASSUME ContractInv, ContractInv', ReadNewJob \/ ReadExecutedJob
    PROVE  Contract!Next \/ Phase' = Phase
<1> USE Facts DEF ContractInv
<1>1. Located /\ Located'
  BY Places, PlacesNext
<1>2. /\ pc[Main] \in {"loop", "read"} /\ hand[Main] = NoJob
      /\ pipe # << >> /\ pipe' = Tail(pipe)
      /\ UNCHANGED <<back, adding, jobs, listed>>
  BY DEF ReadNewJob, ReadExecutedJob, HandsEmpty, MainAt,
         Kernel!Readable, Kernel!AfterRead
<1>0. PICK j \in Jobs : j = Head(pipe).job
  BY <1>2, ReadType DEF TypeInv
<1>3. /\ j = Head(pipe).job
      /\ j \in IF Head(pipe).mode = "done" THEN DoneJobs(pipe) ELSE NewJobs(pipe)
      /\ \A k \in Jobs \ {j} : /\ k \in DoneJobs(pipe') <=> k \in DoneJobs(pipe)
                               /\ k \in NewJobs(pipe') <=> k \in NewJobs(pipe)
  BY <1>0, <1>2, PipeHead, PipeRead
<1>4. ASSUME NEW p, p \in {"read", "pre", "post"}, pc' = [pc EXCEPT ![Main] = p],
             hand' = hand \/ hand' = [hand EXCEPT ![Main] = j], done' \ {j} = done \ {j}
      PROVE  \A k \in Jobs \ {j} : Stays(k)
  <2>1. At(Worker)' = At(Worker)
    BY <1>2, <1>4 DEF At
  <2>2. WorkerPhase' = WorkerPhase /\ Adding' = Adding
    BY <1>2, <2>1 DEF WorkerPhase, Adding
  <2>3. QED
    BY <1>2, <1>3, <1>4, <2>2 DEF Stays
<1>5. CASE ReadNewJob
  <2>1. /\ hand' = [hand EXCEPT ![Main] = j] /\ pc' = [pc EXCEPT ![Main] = "pre"]
        /\ done' = done /\ Head(pipe).mode # "done"
    BY <1>5, <1>0 DEF ReadNewJob, Goto, Kernel!NextMessage
  <2>2. \A k \in Jobs \ {j} : Stays(k)
    BY <1>4, <2>1
  <2>3. At(Main)' = "pre" /\ hand'[Main] = j
    BY <2>1 DEF At, InAdd
  <2>4. PhaseOf(j) = "queued" /\ PhaseOf(j)' = "queued"
    BY <1>1, <1>3, <2>1, <2>3 DEF Located, MainPhase
  <2>5. QED
    BY <1>3, <2>2, <2>4, JobMoves
<1>6. CASE ReadExecutedJob /\ hand' = [hand EXCEPT ![Main] = j] /\ Goto(Main, "post")
             /\ done' = done
  <2>1. /\ hand' = [hand EXCEPT ![Main] = j] /\ pc' = [pc EXCEPT ![Main] = "post"]
        /\ done' = done /\ Head(pipe).mode = "done"
    BY <1>6 DEF ReadExecutedJob, Goto, Kernel!NextMessage
  <2>2. \A k \in Jobs \ {j} : Stays(k)
    BY <1>4, <2>1
  <2>3. At(Main)' = "post" /\ hand'[Main] = j
    BY <2>1 DEF At, InAdd
  <2>4. PhaseOf(j) = "ran" /\ PhaseOf(j)' = "ran"
    BY <1>1, <1>3, <2>1, <2>3 DEF Located, MainPhase
  <2>5. QED
    BY <1>3, <2>2, <2>4, JobMoves
<1>7. CASE ReadExecutedJob /\ LetGo(j) /\ Goto(Main, "read") /\ hand' = hand
  <2>1. /\ hand' = hand /\ pc' = [pc EXCEPT ![Main] = "read"]
        /\ done' = done \cup {j} /\ Head(pipe).mode = "done"
    BY <1>7 DEF ReadExecutedJob, Goto, Kernel!NextMessage, LetGo
  <2>2. \A k \in Jobs \ {j} : Stays(k)
    BY <1>4, <2>1
  <2>3. PhaseOf(j) = "ran" /\ PhaseOf(j)' = "done"
    BY <1>1, <1>3, <2>1 DEF Located
  <2>4. Contract!Finish(j)
    BY <1>3, <2>2, <2>3, JobMoves DEF Contract!Finish
  <2>5. QED
    BY <1>3, <2>4 DEF Contract!Next
<1>8. CASE ReadExecutedJob
  <2>1. \/ hand' = [hand EXCEPT ![Main] = j] /\ Goto(Main, "post") /\ done' = done
        \/ LetGo(j) /\ Goto(Main, "read") /\ hand' = hand
    BY <1>8, <1>0 DEF ReadExecutedJob, Kernel!NextMessage
  <2>2. QED
    BY <1>6, <1>7, <1>8, <2>1
<1>9. QED
  BY <1>5, <1>8

\* OnRead has the job in hand: preExecuteMain, the push or postExecuteMain.
LEMMA ContractPass ==
    ASSUME ContractInv, ContractInv',
           PreAccept \/ PreRefuse \/ PushJob \/ PostReturn
    PROVE  Contract!Next \/ Phase' = Phase
<1> USE Facts DEF ContractInv
<1>1. Located /\ Located'
  BY Places, PlacesNext
<1>0. PICK j \in Jobs : j = hand[Main]
  BY DEF PreAccept, PreRefuse, PushJob, PostReturn, TypeInv, HandsOK
<1>2. /\ pc[Main] \in {"pre", "push", "post"} /\ j = hand[Main]
      /\ UNCHANGED <<back, adding, pipe>>
  BY <1>0 DEF PreAccept, PreRefuse, PushJob, AfterPush, PostReturn
<1>3. At(Main) = pc[Main]
  BY <1>2 DEF At, InAdd
<1>4. ASSUME NEW p, p \in MainAt, pc' = [pc EXCEPT ![Main] = p],
             hand' = hand \/ hand' = [hand EXCEPT ![Main] = NoJob],
             done' \ {j} = done \ {j},
             listed' \ {j} = listed \ {j}, Range(jobs') \ {j} = Range(jobs) \ {j}
      PROVE  \A k \in Jobs \ {j} : Stays(k)
  <2>1. At(Worker)' = At(Worker)
    BY <1>2, <1>4 DEF At
  <2>2. WorkerPhase' = WorkerPhase /\ Adding' = Adding
    BY <1>2, <2>1 DEF WorkerPhase, Adding
  <2>3. \A k \in Jobs \ {j} : hand[Main] # k /\ hand'[Main] # k
                              /\ (hand'[Worker] = k <=> hand[Worker] = k)
    BY <1>2, <1>4
  <2>4. QED
    BY <1>2, <1>4, <2>2, <2>3 DEF Stays
<1>5. CASE PreAccept
  <2>1. /\ pc[Main] = "pre" /\ pc' = [pc EXCEPT ![Main] = "push"]
        /\ UNCHANGED <<hand, done, listed, jobs>>
    BY <1>5 DEF PreAccept, Goto
  <2>2. \A k \in Jobs \ {j} : Stays(k)
    BY <1>4, <2>1 DEF MainAt
  <2>3. At(Main)' = "push" /\ hand'[Main] = j
    BY <1>2, <2>1 DEF At, InAdd
  <2>4. PhaseOf(j) = "queued" /\ PhaseOf(j)' = "ready"
    BY <1>1, <1>2, <1>3, <2>1, <2>3 DEF Located, MainPhase
  <2>5. Contract!Accept(j)
    BY <1>2, <2>2, <2>4, JobMoves DEF Contract!Accept
  <2>6. QED
    BY <1>2, <2>5 DEF Contract!Next
<1>6. CASE PreRefuse
  <2>1. /\ pc[Main] = "pre" /\ pc' = [pc EXCEPT ![Main] = "read"]
        /\ hand' = [hand EXCEPT ![Main] = NoJob]
        /\ done' = done \cup {j} /\ UNCHANGED <<listed, jobs>>
    BY <1>6, <1>0 DEF PreRefuse, Goto, LetGo
  <2>2. \A k \in Jobs \ {j} : Stays(k)
    BY <1>4, <2>1 DEF MainAt
  <2>3. PhaseOf(j) = "queued" /\ PhaseOf(j)' = "done"
    BY <1>1, <1>2, <1>3, <2>1 DEF Located, MainPhase
  <2>4. Contract!Refuse(j)
    BY <1>2, <2>2, <2>3, JobMoves DEF Contract!Refuse
  <2>5. QED
    BY <1>2, <2>4 DEF Contract!Next
<1>7. CASE PushJob
  <2>1. /\ pc[Main] = "push" /\ pc' = [pc EXCEPT ![Main] = "signal"]
        /\ hand' = [hand EXCEPT ![Main] = NoJob] /\ done' = done
        /\ listed' = listed \cup {j}
    BY <1>7, <1>0 DEF PushJob, AfterPush, Goto
  <2>2. Range(jobs') = Range(jobs) \cup {j}
    <3>1. OneNodeEach(jobs) /\ j \notin Range(jobs)
      BY <1>2, HandAlone
    <3>2. QED
      BY <1>0, <1>7, <3>1, PushList DEF PushJob, Relink
  <2>3. \A k \in Jobs \ {j} : Stays(k)
    BY <1>4, <2>1, <2>2 DEF MainAt
  <2>4. PhaseOf(j) = "ready" /\ PhaseOf(j)' = "ready"
    BY <1>1, <1>2, <1>3, <2>1, <2>2 DEF Located, MainPhase
  <2>5. QED
    BY <1>2, <2>3, <2>4, JobMoves
<1>8. CASE PostReturn
  <2>1. /\ pc[Main] = "post" /\ pc' = [pc EXCEPT ![Main] = "read"]
        /\ hand' = [hand EXCEPT ![Main] = NoJob]
        /\ done' = done \cup {j} /\ UNCHANGED <<listed, jobs>>
    BY <1>8, <1>0 DEF PostReturn, Goto, LetGo
  <2>2. \A k \in Jobs \ {j} : Stays(k)
    BY <1>4, <2>1 DEF MainAt
  <2>3. PhaseOf(j) = "ran" /\ PhaseOf(j)' = "done"
    BY <1>1, <1>2, <1>3, <2>1 DEF Located, MainPhase
  <2>4. Contract!Finish(j)
    BY <1>2, <2>2, <2>3, JobMoves DEF Contract!Finish
  <2>5. QED
    BY <1>2, <2>4 DEF Contract!Next
<1>9. QED
  BY <1>5, <1>6, <1>7, <1>8

\* The Worker takes a job from the list, executes it, and reports it.
LEMMA ContractRun ==
    ASSUME ContractInv, ContractInv', Front \/ PopFront \/ ExecuteReturn \/ FinishJob \/ ReportJob
    PROVE  Contract!Next \/ Phase' = Phase
<1> USE Facts DEF ContractInv
<1>1. Located /\ Located'
  BY Places, PlacesNext
<1>2. UNCHANGED <<back, adding, listed>> /\ \E p : pc' = [pc EXCEPT ![Worker] = p]
  BY DEF Front, PopFront, ExecuteReturn, FinishJob, ReportJob, Goto
<1>3. MainPhase' = MainPhase /\ Adding' = Adding
  BY <1>2 DEF MainPhase, At, Adding
<1>4. At(Worker) = pc[Worker]
  BY DEF Front, PopFront, ExecuteReturn, FinishJob, ReportJob, At, InAdd
<1>0. CASE Front
  <2>0. /\ pc[Worker] = "pop" /\ hand[Worker] = NoJob /\ jobs # << >>
        /\ UNCHANGED <<jobs, pipe, done>>
        /\ hand' = [hand EXCEPT ![Worker] = Head(jobs)]
    BY <1>0 DEF Front, TypeInv, HandsOK, HandsEmpty, WorkerAt
  <2>1. Head(jobs) \in Range(jobs) /\ Head(jobs) \in Jobs
    <3>1. jobs \in Seq(Jobs) /\ jobs # << >> /\ OneNodeEach(jobs) /\ Head(jobs) \in Jobs
      BY <2>0, OwnedParts
    <3>2. QED
      BY <3>1, PopList
  <2>2. PICK j \in Jobs : j = Head(jobs)
    BY <2>1
  <2>3. \A k \in Jobs \ {j} : Stays(k)
    BY <1>2, <1>3, <2>0, <2>2 DEF Stays
  <2>4. PhaseOf(j) = "ready" /\ PhaseOf(j)' = "ready"
    BY <1>1, <2>0, <2>1, <2>2 DEF Located
  <2>5. QED
    BY <2>3, <2>4, JobMoves
<1>5. CASE PopFront
  <2>0. /\ pc[Worker] = "unlink" /\ hand[Worker] = Head(jobs)
        /\ jobs # << >> /\ jobs' = Tail(jobs)
        /\ UNCHANGED <<pipe, done, hand>> /\ pc' = [pc EXCEPT ![Worker] = "exec"]
    BY <1>5 DEF PopFront, Relink, Goto, Owned
  <2>1. /\ Range(jobs') = Range(jobs) \ {Head(jobs)} /\ Head(jobs) \in Range(jobs)
        /\ Head(jobs) \in Jobs
    <3>1. jobs \in Seq(Jobs) /\ jobs # << >> /\ OneNodeEach(jobs) /\ Head(jobs) \in Jobs
      BY <2>0, OwnedParts
    <3>2. QED
      BY <2>0, <3>1, PopList
  <2>2. PICK j \in Jobs : j = Head(jobs)
    BY <2>1
  <2>3. \A k \in Jobs \ {j} : Stays(k)
    BY <1>2, <1>3, <2>0, <2>1, <2>2 DEF Stays
  <2>4. At(Worker)' = "exec" /\ hand'[Worker] = j
    BY <2>0, <2>2 DEF At, InAdd
  <2>5. PhaseOf(j) = "ready" /\ PhaseOf(j)' = "running"
    BY <1>1, <2>1, <2>2, <2>4 DEF Located, WorkerPhase
  <2>6. ASSUME NEW k \in Jobs PROVE PhaseOf(k) # "running"
    <3>1. \/ k \in done \/ k \in Range(jobs) \/ k \in DoneJobs(pipe)
          \/ k \in NewJobs(pipe) \/ k \in Adding \/ hand[Main] = k \/ Nowhere(k)
      BY <2>0, <2>1 DEF Nowhere
    <3>2. MainPhase # "running"
      BY DEF MainPhase
    <3>3. QED
      BY <1>1, <3>1, <3>2 DEF Located
  <2>7. Contract!Move(j, "ready", "running")
    BY <2>3, <2>5, JobMoves
  <2>8. Contract!Begin(j)
    <3>1. \A k \in Jobs : Phase[k] # "running"
      BY <2>6 DEF Phase
    <3>2. QED
      BY <2>7, <3>1 DEF Contract!Begin
  <2>9. QED
    BY <2>8 DEF Contract!Next
<1>6. CASE ExecuteReturn
  <2>0. PICK j \in Jobs : j = hand[Worker]
    BY <1>6 DEF ExecuteReturn, TypeInv, HandsOK
  <2>1. /\ pc[Worker] = "exec" /\ pc' = [pc EXCEPT ![Worker] = "finish"]
        /\ UNCHANGED <<hand, pipe, jobs, done>>
    BY <1>6 DEF ExecuteReturn, Goto
  <2>2. \A k \in Jobs \ {j} : Stays(k)
    BY <1>2, <1>3, <2>0, <2>1 DEF Stays
  <2>3. At(Worker)' = "finish" /\ hand'[Worker] = j
    BY <2>0, <2>1 DEF At, InAdd
  <2>4. PhaseOf(j) = "running" /\ PhaseOf(j)' = "ran"
    BY <1>1, <1>4, <2>0, <2>1, <2>3 DEF Located, WorkerPhase
  <2>5. Contract!End(j)
    BY <2>2, <2>4, JobMoves DEF Contract!End
  <2>6. QED
    BY <2>5 DEF Contract!Next
<1>7. CASE FinishJob
  <2>0. PICK j \in Jobs : j = hand[Worker]
    BY <1>7 DEF FinishJob, TypeInv, HandsOK
  <2>1. pc[Worker] = "finish" /\ UNCHANGED <<pipe, jobs>> /\ PhaseOf(j) = "ran"
    BY <1>1, <1>4, <1>7, <2>0 DEF FinishJob, Located, WorkerPhase
  <2>2. CASE Goto(Worker, "report") /\ UNCHANGED <<hand, done>>
    <3>1. pc' = [pc EXCEPT ![Worker] = "report"] /\ UNCHANGED <<hand, done>>
      BY <2>2 DEF Goto
    <3>2. \A k \in Jobs \ {j} : Stays(k)
      BY <1>2, <1>3, <2>0, <2>1, <3>1 DEF Stays
    <3>3. At(Worker)' = "report" /\ hand'[Worker] = j
      BY <2>0, <3>1 DEF At, InAdd
    <3>4. PhaseOf(j)' = "ran"
      BY <1>1, <3>3 DEF Located, WorkerPhase
    <3>5. QED
      BY <2>1, <3>2, <3>4, JobMoves
  <2>3. CASE LetGo(j) /\ hand' = [hand EXCEPT ![Worker] = NoJob]
    <3>1. done' = done \cup {j} /\ hand' = [hand EXCEPT ![Worker] = NoJob]
      BY <2>3 DEF LetGo
    <3>2. \A k \in Jobs \ {j} : Stays(k)
      BY <1>2, <1>3, <2>0, <2>1, <3>1 DEF Stays
    <3>3. PhaseOf(j)' = "done"
      BY <1>1, <3>1 DEF Located
    <3>4. Contract!Finish(j)
      BY <2>1, <3>2, <3>3, JobMoves DEF Contract!Finish
    <3>5. QED
      BY <3>4 DEF Contract!Next
  <2>4. QED
    BY <1>7, <2>0, <2>2, <2>3 DEF FinishJob
<1>8. CASE ReportJob
  <2>0. PICK j \in Jobs : j = hand[Worker]
    BY <1>8 DEF ReportJob, TypeInv, HandsOK
  <2> DEFINE m == [mode |-> "done", job |-> j]
  <2>1. /\ pc[Worker] = "report" /\ pipe' = Append(pipe, m)
        /\ hand' = [hand EXCEPT ![Worker] = NoJob] /\ UNCHANGED <<jobs, done>>
    BY <1>8, <2>0 DEF ReportJob, Kernel!Written
  <2>2. m \in Messages /\ m.mode = "done" /\ m.job = j
    BY <2>0 DEF Messages, Modes
  <2> HIDE DEF m
  <2>3. DoneJobs(pipe') = DoneJobs(pipe) \cup {j} /\ NewJobs(pipe') = NewJobs(pipe)
    <3>1. /\ DoneJobs(Append(pipe, m)) = DoneJobs(pipe) \cup {m.job}
          /\ NewJobs(Append(pipe, m)) = NewJobs(pipe) \cup {}
      BY <2>2, PipeWritten
    <3>2. QED
      BY <2>1, <2>2, <3>1
  <2>4. \A k \in Jobs \ {j} : Stays(k)
    BY <1>2, <1>3, <2>0, <2>1, <2>3 DEF Stays
  <2>5. PhaseOf(j) = "ran" /\ PhaseOf(j)' = "ran"
    BY <1>1, <1>4, <2>0, <2>1, <2>3 DEF Located, WorkerPhase
  <2>6. QED
    BY <2>4, <2>5, JobMoves
<1>9. QED
  BY <1>0, <1>5, <1>6, <1>7, <1>8

\* As long as the list is sound, a step of any thread is a step of one job or none.
LEMMA ContractStep ==
    ASSUME ContractInv, ContractInv', [Next]_vars
    PROVE  Contract!Next \/ Phase' = Phase
<1>1. ASSUME \A k \in Jobs : Stays(k) PROVE Phase' = Phase
  BY <1>1, Places, PlacesNext, NoneMoves DEF ContractInv
<1>2. CASE OwnerNext \/ SpuriousWakeup \/ UNCHANGED vars
  BY <1>1, <1>2, NobodyStays
<1>3. CASE AddNext
  <2>1. ASSUME NEW t \in Threads, NEW j \in Jobs, AddCall(t, j)
        PROVE  Contract!Next \/ Phase' = Phase
    BY <2>1, ContractAdd
  <2>2. ASSUME NEW t \in Threads, AddWrite(t) PROVE Contract!Next \/ Phase' = Phase
    BY <2>2, ContractAdd
  <2>3. ASSUME NEW t \in Threads, AddLock(t) PROVE Phase' = Phase
    BY <1>1, <2>3, NobodyStays
  <2>4. ASSUME NEW j \in Jobs, ClearHook(j) PROVE Phase' = Phase
    BY <1>1, <2>4, NobodyStays
  <2>5. QED
    BY <1>3, <2>1, <2>2, <2>3, <2>4 DEF AddNext
<1>4. CASE OnRead
  <2>1. CASE ReadNothing \/ Signal
    BY <1>1, <2>1, NobodyStays
  <2>2. QED
    BY <1>4, <2>1, ContractRead, ContractPass DEF OnRead
<1>5. CASE run
  <2>1. CASE ShouldContinue \/ TakeMutex \/ TestSize \/ Wait
    BY <1>1, <2>1, NobodyStays
  <2>2. QED
    BY <1>5, <2>1, ContractRun DEF run
<1>6. CASE Tear \/ Crash
  BY <1>6 DEF Tear, Crash, ContractInv
<1>7. QED
  BY <1>2, <1>3, <1>4, <1>5, <1>6 DEF Next

LEMMA ContractInit == Init => Contract!Init
<1> SUFFICES ASSUME Init, NEW j \in Jobs PROVE PhaseOf(j) = "fresh"
  BY DEF Contract!Init, Phase
<1>1. Nowhere(j) /\ j \notin listed
  BY Points, JobsAssumption DEF Init, Nowhere, DoneJobs, NewJobs, Adding, Range
<1>2. Located
  BY OwnerInit, TypeInit, Places
<1>3. QED
  BY <1>1, <1>2 DEF Located

\* As long as the list is sound, the producers, Main, the Worker, the pipe and the
\* list implement the contract of a single job: its hooks run in order, each at
\* most once and one execute() at a time, and the JobThread lets go of it once
\* (JobThread.h:40-58).  A push_front between front() and pop_front(), or a push
\* that overlaps an access of the Worker, ends the guarantee for good.
THEOREM ImplementsContract == Spec => KeepsContract
<1>1. TypeInv /\ OneOwner /\ HandsEmpty /\ [Next]_vars
        => [list' = "sound" => Contract!Next]_Phase
  <2> SUFFICES ASSUME TypeInv, OneOwner, HandsEmpty, [Next]_vars, list' = "sound"
               PROVE  Contract!Next \/ Phase' = Phase
    OBVIOUS
  <2>1. ContractInv
    BY StaysUnsound, OwnedIs DEF ContractInv
  <2>2. TypeInv' /\ HandsEmpty' /\ OneOwner'
    BY TypeStep, EmptyStep, OwnerStep
  <2>3. ContractInv'
    BY <2>2 DEF ContractInv, OneOwner, Owned
  <2>4. QED
    BY <2>1, <2>3, ContractStep
<1>2. Spec => []HandsEmpty
  BY TypeInvariant, EmptyInit, EmptyStep, PTL DEF Spec
<1>3. QED
  BY <1>1, <1>2, TypeInvariant, OneOwnerAlways, ContractInit, PTL DEF Spec, KeepsContract
================================================================================
