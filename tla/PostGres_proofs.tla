---------------------------- MODULE PostGres_proofs ----------------------------
(***************************************************************************)
(* Theorems about PostGres for any number of queries, channels, lost        *)
(* connections, queued jobs and nested calls.                               *)
(***************************************************************************)
EXTENDS PostGres, FiniteSetTheorems, SequenceTheorems, TLAPS

Args == Queries \cup Keys \cup {NoArg}
JobRecords == [verb : Verbs, arg : Args, sent : BOOLEAN]

\* Loop waits for the result of the job at the head.
Waiting == pc \in {"result", "callback", "done"}

QueueTypes ==
    /\ pc \in Points
    /\ depth \in Nat
    /\ conn \in {"none", "up", "broken"}
    /\ jobs \in Seq(JobRecords)
    /\ listeners \subseteq Keys /\ IsFiniteSet(listeners)
    /\ inLoop <=> Waiting
    /\ pc \in {"head", "result", "callback", "done"} => jobs # << >>

QueueInv == QueueTypes /\ OneOutstanding

--------------------------------------------------------------------------------
(* What happens to the queue *)

Unsent(s) == \A i \in DOMAIN s : ~s[i].sent

LEMMA JobType ==
    ASSUME NEW v \in Verbs, NEW a \in Args
    PROVE  Job(v, a) \in JobRecords /\ ~Job(v, a).sent /\ Job(v, a).verb = v /\ Job(v, a).arg = a
BY DEF Job, JobRecords, Args

\* What ConnectSucceeds puts in front of the queue.
LEMMA Listens ==
    ASSUME listeners \subseteq Keys, IsFiniteSet(listeners), NEW s \in ListenJobs
    PROVE  /\ s \in Seq(JobRecords) /\ Unsent(s)
           /\ \A i \in DOMAIN s : s[i].verb = "LISTEN" /\ s[i].arg \in listeners
           /\ \A k \in listeners : \E i \in DOMAIN s : s[i].arg = k
<1>1. Cardinality(listeners) \in Nat
  BY FS_CardinalityType
<1>2. s \in [1 .. Cardinality(listeners) -> {Job("LISTEN", k) : k \in listeners}]
      /\ Elements(Arguments(s)) = listeners
  BY DEF ListenJobs
<1>3. \A i \in DOMAIN s : \E k \in listeners : s[i] = Job("LISTEN", k)
  BY <1>2
<1>4. \A k \in listeners : /\ Job("LISTEN", k) \in JobRecords /\ ~Job("LISTEN", k).sent
                           /\ Job("LISTEN", k).verb = "LISTEN" /\ Job("LISTEN", k).arg = k
  BY JobType DEF Verbs, Args
<1>5. s \in [1 .. Cardinality(listeners) -> JobRecords]
  BY <1>2, <1>4
<1>6. s \in Seq(JobRecords)
  BY <1>1, <1>5
<1>7. \A k \in listeners : \E i \in DOMAIN s : s[i].arg = k
  BY <1>2 DEF Elements, Arguments
<1>8. QED
  BY <1>3, <1>4, <1>6, <1>7 DEF Unsent

LEMMA AutoCommitJob ==
    LET a == IF AutoCommit THEN <<Job("AUTOCOMMIT", NoArg)>> ELSE << >>
    IN  /\ a \in Seq(JobRecords) /\ Unsent(a)
        /\ \A i \in DOMAIN a : a[i].verb = "AUTOCOMMIT"
<1>1. Job("AUTOCOMMIT", NoArg) \in JobRecords /\ ~Job("AUTOCOMMIT", NoArg).sent
      /\ Job("AUTOCOMMIT", NoArg).verb = "AUTOCOMMIT"
  BY JobType DEF Verbs, Args
<1> DEFINE j == Job("AUTOCOMMIT", NoArg)
<1> HIDE DEF j
<1>2. <<j>> \in Seq(JobRecords) /\ DOMAIN <<j>> = {1} /\ <<j>>[1] = j
  BY <1>1 DEF j
<1>3. QED
  BY <1>1, <1>2 DEF Unsent, j

LEMMA Concatenated ==
    ASSUME NEW s \in Seq(JobRecords), NEW t \in Seq(JobRecords)
    PROVE  /\ s \o t \in Seq(JobRecords)
           /\ DOMAIN (s \o t) = 1 .. Len(s) + Len(t)
           /\ DOMAIN s = 1 .. Len(s) /\ Len(s) \in Nat
           /\ DOMAIN t = 1 .. Len(t) /\ Len(t) \in Nat
           /\ \A i \in 1 .. Len(s) : (s \o t)[i] = s[i]
           /\ \A i \in 1 .. Len(t) : (s \o t)[Len(s) + i] = t[i]
OBVIOUS

LEMMA UnsentConcatenated ==
    ASSUME NEW s \in Seq(JobRecords), NEW t \in Seq(JobRecords), Unsent(s), Unsent(t)
    PROVE  Unsent(s \o t)
<1>1. ASSUME NEW i \in 1 .. Len(s) + Len(t) PROVE ~(s \o t)[i].sent
  <2>1. CASE i <= Len(s)
    BY <2>1, Concatenated DEF Unsent
  <2>2. CASE i > Len(s)
    <3>1. i - Len(s) \in 1 .. Len(t) /\ i = Len(s) + (i - Len(s))
      BY <2>2, Concatenated
    <3>2. QED
      BY <3>1, Concatenated DEF Unsent
  <2>3. QED
    BY <2>1, <2>2, Concatenated
<1>2. QED
  BY <1>1, Concatenated DEF Unsent

--------------------------------------------------------------------------------
(* OneOutstanding *)

\* OneOutstanding says that exactly the head has been sent, or no job.
HeadSent(s) == \A i \in DOMAIN s : s[i].sent <=> i = 1

LEMMA OutstandingParts ==
    OneOutstanding <=> IF Waiting THEN HeadSent(jobs) ELSE Unsent(jobs)
BY DEF OneOutstanding, Waiting, HeadSent, Unsent

LEMMA QueueInit == Init => QueueInv
<1> SUFFICES ASSUME Init PROVE QueueInv
  OBVIOUS
<1>1. IsFiniteSet({}) /\ << >> \in Seq(JobRecords)
  BY FS_EmptySet
<1>2. inLoop = FALSE /\ pc = "idle" /\ listeners = {} /\ jobs = << >> /\ conn = "none"
      /\ depth = 0
  BY DEF Init
<1>3. QED
  BY <1>1, <1>2 DEF QueueInv, QueueTypes, Points, Waiting, OneOutstanding

LEMMA Appended ==
    ASSUME NEW s \in Seq(JobRecords), NEW j \in JobRecords, ~j.sent
    PROVE  /\ Append(s, j) \in Seq(JobRecords) /\ Append(s, j) # << >>
           /\ Unsent(s) => Unsent(Append(s, j))
           /\ s # << >> /\ HeadSent(s) => HeadSent(Append(s, j))
<1>1. /\ Len(s) \in Nat /\ DOMAIN s = 1 .. Len(s) /\ DOMAIN Append(s, j) = 1 .. Len(s) + 1
      /\ \A i \in 1 .. Len(s) : Append(s, j)[i] = s[i]
      /\ Append(s, j)[Len(s) + 1] = j
      /\ s # << >> => Len(s) >= 1
      /\ Append(s, j) \in Seq(JobRecords) /\ Append(s, j) # << >>
  BY AppendProperties, LenProperties, EmptySeq
<1>2. QED
  BY <1>1 DEF Unsent, HeadSent

\* The application queues a job: nothing but the queue changes if Loop waits for
\* a result, and Loop is called otherwise.
LEMMA QueueKeeps ==
    ASSUME QueueInv, NEW job \in JobRecords, ~job.sent, Queue(job), inLoop' = inLoop,
           conn' = conn
    PROVE  /\ jobs' \in Seq(JobRecords) /\ jobs' # << >> /\ OneOutstanding'
           /\ pc' \in Points /\ depth' \in Nat /\ (inLoop' <=> Waiting')
<1>1. /\ jobs' = Append(jobs, job) /\ jobs \in Seq(JobRecords)
      /\ jobs' \in Seq(JobRecords) /\ jobs' # << >>
  BY Appended DEF Queue, QueueInv, QueueTypes
<1>2. IF Waiting THEN pc' = pc /\ depth' = depth
      ELSE pc' = "loop" /\ (depth' = depth + 1 \/ depth' = depth)
  BY DEF Queue, CallLoop, QueueInv, QueueTypes
<1>3. /\ pc' \in Points /\ depth' \in Nat /\ (inLoop' <=> Waiting')
  BY <1>2 DEF QueueInv, QueueTypes, Points, Waiting
<1>4. Waiting => jobs # << >> /\ Waiting'
  BY <1>2 DEF QueueInv, QueueTypes, Waiting
<1>5. ~Waiting => ~Waiting'
  BY <1>2 DEF Waiting
<1>6. OneOutstanding' <=> IF Waiting' THEN HeadSent(jobs') ELSE Unsent(jobs')
  BY DEF OneOutstanding, Waiting, HeadSent, Unsent
<1>7. QED
  BY <1>1, <1>3, <1>4, <1>5, <1>6, Appended, OutstandingParts DEF QueueInv, QueueTypes

LEMMA QueueApplication == QueueInv /\ Application => QueueInv'
<1> SUFFICES ASSUME QueueInv, Application PROVE QueueInv'
  OBVIOUS
<1>1. ASSUME NEW q \in Queries, Select(q) PROVE QueueInv'
  <2>1. Job("QUERY", q) \in JobRecords /\ ~Job("QUERY", q).sent
    BY JobType DEF Verbs, Args
  <2>2. Queue(Job("QUERY", q)) /\ UNCHANGED <<inLoop, conn, listeners>>
    BY <1>1 DEF Select
  <2>3. QED
    BY <2>1, <2>2, QueueKeeps DEF QueueInv, QueueTypes
<1>2. ASSUME NEW k \in Keys, Listen(k) PROVE QueueInv'
  <2>1. Job("LISTEN", k) \in JobRecords /\ ~Job("LISTEN", k).sent
    BY JobType DEF Verbs, Args
  <2>2. Queue(Job("LISTEN", k)) /\ UNCHANGED <<inLoop, conn>> /\ listeners' = listeners \cup {k}
    BY <1>2 DEF Listen
  <2>3. IsFiniteSet(listeners \cup {k}) /\ listeners \cup {k} \subseteq Keys
    BY FS_AddElement DEF QueueInv, QueueTypes
  <2>4. QED
    BY <2>1, <2>2, <2>3, QueueKeeps DEF QueueInv, QueueTypes
<1>3. ASSUME NEW k \in Keys, Unlisten(k) PROVE QueueInv'
  <2>1. Job("UNLISTEN", k) \in JobRecords /\ ~Job("UNLISTEN", k).sent
    BY JobType DEF Verbs, Args
  <2>2. Queue(Job("UNLISTEN", k)) /\ UNCHANGED <<inLoop, conn>> /\ listeners' = listeners \ {k}
    BY <1>3 DEF Unlisten
  <2>3. IsFiniteSet(listeners \ {k}) /\ listeners \ {k} \subseteq Keys
    BY FS_RemoveElement DEF QueueInv, QueueTypes
  <2>4. QED
    BY <2>1, <2>2, <2>3, QueueKeeps DEF QueueInv, QueueTypes
<1>4. ASSUME NEW b \in BOOLEAN, SetStayConnected(b) PROVE QueueInv'
  BY <1>4 DEF SetStayConnected, QueueInv, QueueTypes, OneOutstanding, Waiting
<1>5. QED
  BY <1>1, <1>2, <1>3, <1>4 DEF Application

LEMMA QueueLoop == QueueInv /\ Loop => QueueInv'
<1> SUFFICES ASSUME QueueInv, Loop PROVE QueueInv'
  OBVIOUS
<1> USE DEF QueueInv, QueueTypes, Waiting, Points
<1>1. CASE LoopUnconnected \/ NothingNotified
  <2>1. /\ UNCHANGED <<conn, jobs, listeners, inLoop>> /\ depth' \in Nat
        /\ pc \notin {"result", "callback", "done"}
        /\ \/ pc' \in {"onNotify", "return", "idle", "connect"}
           \/ pc' = "head" /\ jobs # << >>
    BY <1>1 DEF LoopUnconnected, NothingNotified, Return
  <2>2. QED
    BY <2>1 DEF OneOutstanding
<1>2. CASE LoopConnected \/ LoopLost
  <2>1. /\ UNCHANGED <<jobs, listeners, inLoop, depth>> /\ pc = "loop" /\ pc' = "notify"
        /\ conn' \in {"none", "up"}
    BY <1>2 DEF LoopConnected, LoopLost
  <2>2. QED
    BY <2>1 DEF OneOutstanding
<1>3. CASE SendHead
  <2>1. /\ pc = "head" /\ jobs' = [jobs EXCEPT ![1].sent = TRUE] /\ jobs # << >>
        /\ inLoop' = TRUE /\ pc' = "result" /\ UNCHANGED <<depth, conn, listeners>>
    BY <1>3 DEF SendHead
  <2>2. Unsent(jobs)
    BY <2>1, OutstandingParts
  <2>3. /\ Len(jobs) \in Nat \ {0} /\ DOMAIN jobs = 1 .. Len(jobs)
        /\ \A i \in DOMAIN jobs : jobs[i] \in JobRecords
    BY <2>1
  <2>4. [jobs[1] EXCEPT !.sent = TRUE] \in JobRecords
    <3>1. jobs[1] \in JobRecords
      BY <2>3
    <3>2. ASSUME NEW r \in JobRecords PROVE [r EXCEPT !.sent = TRUE] \in JobRecords
      BY DEF JobRecords
    <3>3. QED
      BY <3>1, <3>2
  <2>5. jobs' = [jobs EXCEPT ![1] = [jobs[1] EXCEPT !.sent = TRUE]]
    BY <2>1, <2>3
  <2>6. jobs' \in Seq(JobRecords) /\ jobs' # << >> /\ HeadSent(jobs')
    <3>1. jobs' \in Seq(JobRecords) /\ DOMAIN jobs' = 1 .. Len(jobs)
      BY <2>3, <2>4, <2>5
    <3>2. jobs'[1].sent /\ \A i \in 2 .. Len(jobs) : ~jobs'[i].sent
      BY <2>2, <2>3, <2>5 DEF Unsent, JobRecords
    <3>3. QED
      BY <2>3, <3>1, <3>2 DEF HeadSent
  <2>7. OneOutstanding'
    BY <2>1, <2>6 DEF OneOutstanding, HeadSent
  <2>8. QED
    BY <2>1, <2>6, <2>7
<1>4. CASE Answer \/ NoAnswer
  <2>1. /\ pc = "result" /\ pc' \in {"callback", "done"}
        /\ UNCHANGED <<depth, conn, jobs, listeners, inLoop>>
    BY <1>4 DEF Answer, NoAnswer
  <2>2. QED
    BY <2>1 DEF OneOutstanding
<1>5. CASE CallbackReturns
  <2>1. /\ \/ pc = "onNotify" /\ pc' = "notify"
           \/ pc = "callback" /\ pc' = "done"
        /\ UNCHANGED <<depth, conn, jobs, listeners, inLoop>>
    BY <1>5 DEF CallbackReturns
  <2>2. QED
    BY <2>1 DEF OneOutstanding
<1>6. CASE PopHead
  <2>1. /\ pc = "done" /\ jobs' = Tail(jobs) /\ inLoop' = FALSE /\ pc' = "loop"
        /\ UNCHANGED <<depth, conn, listeners>> /\ jobs # << >>
    BY <1>6 DEF PopHead
  <2>2. HeadSent(jobs)
    BY <2>1, OutstandingParts
  <2>3. /\ Len(jobs) \in Nat \ {0} /\ DOMAIN jobs = 1 .. Len(jobs)
        /\ Tail(jobs) \in Seq(JobRecords) /\ DOMAIN Tail(jobs) = 1 .. Len(jobs) - 1
        /\ \A i \in 1 .. Len(jobs) - 1 : Tail(jobs)[i] = jobs[i + 1]
    BY <2>1
  <2>4. \A i \in DOMAIN Tail(jobs) : ~Tail(jobs)[i].sent
    BY <2>2, <2>3 DEF HeadSent
  <2>5. QED
    BY <2>1, <2>3, <2>4 DEF OneOutstanding
<1>7. QED
  BY <1>1, <1>2, <1>3, <1>4, <1>5, <1>6 DEF Loop

LEMMA QueueConnect == QueueInv /\ Connect => QueueInv'
<1> SUFFICES ASSUME QueueInv, Connect PROVE QueueInv'
  OBVIOUS
<1> USE DEF QueueInv, QueueTypes, Waiting, Points
<1>1. CASE ConnectFails
  <2>1. /\ pc = "connect" /\ UNCHANGED <<conn, jobs, listeners, inLoop>> /\ depth' \in Nat
        /\ pc' \in {"onNotify", "return", "idle"}
    BY <1>1 DEF ConnectFails, Return
  <2>2. QED
    BY <2>1 DEF OneOutstanding
<1>2. CASE ConnectSucceeds
  <2> DEFINE a == IF AutoCommit THEN <<Job("AUTOCOMMIT", NoArg)>> ELSE << >>
  <2>1. PICK s \in ListenJobs : jobs' = s \o a \o jobs
    BY <1>2 DEF ConnectSucceeds
  <2>2. /\ pc = "connect" /\ pc' = "loop" /\ conn' = "up"
        /\ UNCHANGED <<depth, listeners, inLoop>>
    BY <1>2 DEF ConnectSucceeds
  <2>3. s \in Seq(JobRecords) /\ Unsent(s)
    BY Listens
  <2>4. a \in Seq(JobRecords) /\ Unsent(a)
    BY AutoCommitJob
  <2>5. jobs \in Seq(JobRecords) /\ Unsent(jobs)
    BY <2>2, OutstandingParts
  <2> HIDE DEF a
  <2>6. s \o a \in Seq(JobRecords) /\ Unsent(s \o a)
    BY <2>3, <2>4, Concatenated, UnsentConcatenated
  <2>7. jobs' \in Seq(JobRecords) /\ Unsent(jobs')
    BY <2>1, <2>5, <2>6, Concatenated, UnsentConcatenated
  <2>8. QED
    BY <2>2, <2>7 DEF OneOutstanding, Unsent
<1>3. QED
  BY <1>1, <1>2 DEF Connect

LEMMA QueueNext == QueueInv /\ [Next]_vars => QueueInv'
<1> SUFFICES ASSUME QueueInv, [Next]_vars PROVE QueueInv'
  OBVIOUS
<1> USE DEF QueueInv, QueueTypes, Waiting, Points
<1>1. CASE UNCHANGED vars
  BY <1>1 DEF vars, OneOutstanding
<1>2. CASE Break \/ EventCallback \/ Notified \/ UseAfterDelete
  <2>1. /\ UNCHANGED <<depth, jobs, listeners, inLoop>> /\ conn' \in {conn, "broken"}
        /\ \/ pc' = pc
           \/ pc \in {"idle", "notify", "return"} /\ pc' \in {"loop", "onNotify", "dead"}
    BY <1>2 DEF Break, EventCallback, Notified, UseAfterDelete
  <2>2. QED
    BY <2>1 DEF OneOutstanding
<1>3. CASE BackoffFires \/ OrphanFires \/ TimerReturns
  <2>1. /\ UNCHANGED <<depth, jobs, listeners, inLoop, conn>>
        /\ pc \in {"idle", "return"} /\ pc' \in {"connect", "return", "idle"}
    BY <1>3 DEF BackoffFires, OrphanFires, TimerReturns, TimerCalls
  <2>2. QED
    BY <2>1 DEF OneOutstanding
<1>4. QED
  BY <1>1, <1>2, <1>3, QueueApplication, QueueLoop, QueueConnect DEF Next

\* For any number of queries, channels, lost connections and nested calls, the
\* only job ever sent is the one at the head, while Loop waits for its result:
\* no reconnect pushes anything in front of it (Postgres.cpp:188, 212-217).
THEOREM OnlyHeadOutstanding == Spec => []OneOutstanding
<1>1. QueueInv => OneOutstanding
  BY DEF QueueInv
<1>2. QED
  BY <1>1, QueueInit, QueueNext, PTL DEF Spec

--------------------------------------------------------------------------------
(* NeverStranded *)

\* There is something to connect for.
Wanted == jobs # << >> \/ listeners # {}

\* What connects again, and where it is known to: a timer runs only inside a
\* Connect that it calls itself, and one whose Connect failed waits again.
RetryInv ==
    /\ conn # "none" => backoff = "none"
    /\ pc = "connect" => conn = "none"
    /\ pc = "callback" => conn # "none"
    /\ pc \in {"idle", "return"} => depth = 0
    /\ backoff \in {"none", "waiting", "running"}
    /\ backoff = "running" => /\ inTimer /\ depth = 0
                              /\ pc \in {"connect", "dead"} \/ (pc = "return" /\ failing)
    /\ listeners # {} => stay
    /\ conn = "none" /\ pc \in {"head", "result", "done"} => backoff = "waiting"
    /\ conn = "none" /\ pc = "loop" /\ jobs = << >> /\ listeners # {} => backoff = "waiting"
    /\ conn = "none" /\ pc \in {"idle", "notify", "onNotify"} /\ Wanted => backoff = "waiting"
    /\ conn = "none" /\ pc = "return" /\ Wanted => backoff # "none"

LEMMA RetryInit == Init => RetryInv
BY DEF Init, RetryInv, Wanted, BackoffInit

\* The application's calls leave the timer alone.
LEMMA RetryApplication == QueueInv /\ RetryInv /\ Application => RetryInv'
<1> SUFFICES ASSUME QueueInv, RetryInv, Application PROVE RetryInv'
  OBVIOUS
<1>1. ASSUME NEW job \in JobRecords, ~job.sent, Queue(job),
             UNCHANGED <<inTimer, conn, inLoop, backoffVars>>,
             listeners' # {} => stay' \/ (listeners # {} /\ stay' = stay)
      PROVE  RetryInv'
  <2>1. /\ jobs' # << >>
        /\ IF Waiting THEN pc' = pc /\ depth' = depth
           ELSE pc \in {"idle", "onNotify"} /\ pc' = "loop"
    <3>1. jobs' # << >>
      BY <1>1, QueueKeeps
    <3>2. QED
      BY <1>1, <3>1 DEF Queue, CallLoop, AppCodeRuns, Waiting, QueueInv, QueueTypes
  <2>2. backoff' = backoff /\ failing' = failing
    BY <1>1 DEF backoffVars
  <2>3. QED
    BY <1>1, <2>1, <2>2 DEF RetryInv, Waiting, Wanted
<1>2. ASSUME NEW q \in Queries, Select(q) PROVE RetryInv'
  <2>1. Job("QUERY", q) \in JobRecords /\ ~Job("QUERY", q).sent
    BY JobType DEF Verbs, Args
  <2>2. QED
    BY <1>1, <1>2, <2>1 DEF Select
<1>3. ASSUME NEW k \in Keys, Listen(k) PROVE RetryInv'
  <2>1. Job("LISTEN", k) \in JobRecords /\ ~Job("LISTEN", k).sent
    BY JobType DEF Verbs, Args
  <2>2. QED
    BY <1>1, <1>3, <2>1 DEF Listen
<1>4. ASSUME NEW k \in Keys, Unlisten(k) PROVE RetryInv'
  <2>1. Job("UNLISTEN", k) \in JobRecords /\ ~Job("UNLISTEN", k).sent
    BY JobType DEF Verbs, Args
  <2>2. QED
    BY <1>1, <1>4, <2>1 DEF Unlisten
<1>5. ASSUME NEW b \in BOOLEAN, SetStayConnected(b) PROVE RetryInv'
  BY <1>5 DEF SetStayConnected, RetryInv, Wanted, backoffVars
<1>6. QED
  BY <1>2, <1>3, <1>4, <1>5 DEF Application

LEMMA RetryLoop == QueueInv /\ RetryInv /\ Loop => RetryInv'
<1> SUFFICES ASSUME QueueInv, RetryInv, Loop PROVE RetryInv'
  OBVIOUS
<1> USE DEF RetryInv, Wanted, backoffVars, QueueInv, QueueTypes
<1>1. CASE LoopUnconnected
  BY <1>1 DEF LoopUnconnected, Return
<1>2. CASE LoopConnected
  BY <1>2 DEF LoopConnected
<1>3. CASE LoopLost
  BY <1>3 DEF LoopLost, NewBackoffTimer
<1>4. CASE NothingNotified
  BY <1>4 DEF NothingNotified, Return
<1>5. CASE SendHead
  BY <1>5 DEF SendHead
<1>6. CASE Answer \/ NoAnswer
  BY <1>6 DEF Answer, NoAnswer
<1>7. CASE PopHead
  BY <1>7 DEF PopHead
<1>8. CASE CallbackReturns
  BY <1>8 DEF CallbackReturns
<1>9. QED
  BY <1>1, <1>2, <1>3, <1>4, <1>5, <1>6, <1>7, <1>8 DEF Loop

LEMMA RetryNext == QueueInv /\ RetryInv /\ [Next]_vars => RetryInv'
<1> SUFFICES ASSUME QueueInv, RetryInv, [Next]_vars PROVE RetryInv'
  OBVIOUS
<1> USE DEF RetryInv, Wanted, backoffVars, QueueInv, QueueTypes
<1>1. CASE ConnectFails
  BY <1>1 DEF ConnectFails, Return, SetStillFailing, NewBackoffTimer
<1>2. CASE ConnectSucceeds
  BY <1>2 DEF ConnectSucceeds, DeleteBackoffTimer
<1>3. CASE Break \/ EventCallback \/ Notified \/ UseAfterDelete
  BY <1>3 DEF Break, EventCallback, Notified, UseAfterDelete
<1>4. CASE BackoffFires
  BY <1>4 DEF BackoffFires, Fire, TimerCalls
<1>5. CASE OrphanFires
  BY <1>5 DEF OrphanFires, FireOrphan, TimerCalls
<1>6. CASE TimerReturns
  BY <1>6 DEF TimerReturns, RunJobReturns
<1>7. CASE UNCHANGED vars
  BY <1>7 DEF vars
<1>8. QED
  BY <1>1, <1>2, <1>3, <1>4, <1>5, <1>6, <1>7, RetryApplication, RetryLoop DEF Next, Connect

LEMMA RetryInvariant == Spec => [](QueueInv /\ RetryInv)
BY QueueInit, QueueNext, RetryInit, RetryNext, PTL DEF Spec

\* Between two callbacks of the event loop a PostGres with queries or listeners
\* is connected or about to connect, whatever calls, failures and timers of
\* deleted BackoffTimers came before (Postgres.cpp:190-201, 253-271).
THEOREM AlwaysTriesAgain == Spec => []NeverStranded
<1>1. QueueInv /\ RetryInv => NeverStranded
  BY DEF RetryInv, NeverStranded, Wanted
<1>2. QED
  BY <1>1, RetryInvariant, PTL
--------------------------------------------------------------------------------
(* ListensInSync *)

\* A job that changes whether this session LISTENs on k.
About(job, k) == job.verb \in {"LISTEN", "UNLISTEN"} /\ job.arg = k
NoneAbout(s, k) == \A i \in DOMAIN s : ~About(s[i], k)

\* The last job of s about k, if there is one, leaves k as L has it.
EndsAs(s, k, L) ==
    \A i \in DOMAIN s :
        /\ About(s[i], k)
        /\ \A j \in DOMAIN s : j > i => ~About(s[j], k)
        => (s[i].verb = "LISTEN" <=> k \in L)

LEMMA AppendAbout ==
    ASSUME NEW s \in Seq(JobRecords), NEW job \in JobRecords, NEW k, NEW L
    PROVE  /\ About(job, k) /\ (job.verb = "LISTEN" <=> k \in L) => EndsAs(Append(s, job), k, L)
           /\ About(job, k) => ~NoneAbout(Append(s, job), k)
           /\ ~About(job, k) /\ EndsAs(s, k, L) => EndsAs(Append(s, job), k, L)
           /\ NoneAbout(Append(s, job), k) => NoneAbout(s, k)
<1>1. /\ Len(s) \in Nat /\ DOMAIN s = 1 .. Len(s) /\ DOMAIN Append(s, job) = 1 .. Len(s) + 1
      /\ \A i \in 1 .. Len(s) : Append(s, job)[i] = s[i]
      /\ Append(s, job)[Len(s) + 1] = job
  BY AppendProperties, LenProperties
<1> DEFINE t == Append(s, job)
<1>2. /\ Len(s) \in Nat /\ DOMAIN s = 1 .. Len(s) /\ DOMAIN t = 1 .. Len(s) + 1
      /\ \A i \in 1 .. Len(s) : t[i] = s[i]
      /\ t[Len(s) + 1] = job
  BY <1>1
<1> HIDE DEF t
<1>3. About(job, k) /\ (job.verb = "LISTEN" <=> k \in L) => EndsAs(t, k, L)
  BY <1>2 DEF EndsAs
<1>4. About(job, k) => ~NoneAbout(t, k)
  BY <1>2 DEF NoneAbout
<1>5. ~About(job, k) /\ EndsAs(s, k, L) => EndsAs(t, k, L)
  BY <1>2 DEF EndsAs
<1>6. NoneAbout(t, k) => NoneAbout(s, k)
  BY <1>2 DEF NoneAbout
<1>7. QED
  BY <1>3, <1>4, <1>5, <1>6 DEF t

LEMMA TailAbout ==
    ASSUME NEW s \in Seq(JobRecords), s # << >>, NEW k, NEW L, EndsAs(s, k, L)
    PROVE  /\ EndsAs(Tail(s), k, L)
           /\ NoneAbout(Tail(s), k) =>
                \/ NoneAbout(s, k)
                \/ About(s[1], k) /\ (s[1].verb = "LISTEN" <=> k \in L)
<1> DEFINE t == Tail(s)
<1>1. /\ Len(s) \in Nat \ {0} /\ DOMAIN s = 1 .. Len(s)
      /\ DOMAIN t = 1 .. Len(s) - 1
      /\ \A i \in 1 .. Len(s) - 1 : t[i] = s[i + 1]
  OBVIOUS
<1> HIDE DEF t
<1>2. EndsAs(t, k, L)
  <2> SUFFICES ASSUME NEW i \in DOMAIN t, About(t[i], k),
                      \A j \in DOMAIN t : j > i => ~About(t[j], k)
               PROVE  t[i].verb = "LISTEN" <=> k \in L
    BY DEF EndsAs
  <2>1. i + 1 \in DOMAIN s /\ t[i] = s[i + 1]
    BY <1>1
  <2>2. ASSUME NEW j \in DOMAIN s, j > i + 1 PROVE ~About(s[j], k)
    <3>1. j - 1 \in DOMAIN t /\ j - 1 > i /\ t[j - 1] = s[j]
      BY <1>1, <2>2
    <3>2. QED
      BY <3>1
  <2>3. QED
    BY <2>1, <2>2 DEF EndsAs
<1>3. ASSUME NoneAbout(t, k), ~NoneAbout(s, k)
      PROVE  About(s[1], k) /\ (s[1].verb = "LISTEN" <=> k \in L)
  <2>1. ASSUME NEW j \in DOMAIN s, j > 1 PROVE ~About(s[j], k)
    <3>1. j - 1 \in DOMAIN t /\ t[j - 1] = s[j]
      BY <1>1, <2>1
    <3>2. QED
      BY <3>1, <1>3 DEF NoneAbout
  <2>2. PICK i \in DOMAIN s : About(s[i], k)
    BY <1>3 DEF NoneAbout
  <2>3. i = 1
    BY <1>1, <2>1, <2>2
  <2>4. QED
    BY <2>1, <2>2, <2>3 DEF EndsAs
<1>4. QED
  BY <1>2, <1>3 DEF t

LEMMA ConcatenatedAbout ==
    ASSUME NEW p \in Seq(JobRecords), NEW s \in Seq(JobRecords), NEW k, NEW L
    PROVE  /\ NoneAbout(p \o s, k) <=> NoneAbout(p, k) /\ NoneAbout(s, k)
           /\ EndsAs(s, k, L) /\ (NoneAbout(s, k) => EndsAs(p, k, L)) => EndsAs(p \o s, k, L)
<1> DEFINE t == p \o s
<1>1. /\ DOMAIN t = 1 .. Len(p) + Len(s)
      /\ DOMAIN p = 1 .. Len(p) /\ Len(p) \in Nat
      /\ DOMAIN s = 1 .. Len(s) /\ Len(s) \in Nat
      /\ \A i \in 1 .. Len(p) : t[i] = p[i]
      /\ \A i \in 1 .. Len(s) : t[Len(p) + i] = s[i]
  BY Concatenated
<1> HIDE DEF t
<1>2. ASSUME NEW i \in DOMAIN t
      PROVE  \/ i \in DOMAIN p /\ t[i] = p[i]
             \/ i > Len(p) /\ i - Len(p) \in DOMAIN s /\ t[i] = s[i - Len(p)]
  <2>1. CASE i <= Len(p)
    BY <1>1, <2>1
  <2>2. CASE i > Len(p)
    <3>1. i - Len(p) \in 1 .. Len(s) /\ i = Len(p) + (i - Len(p))
      BY <1>1, <2>2
    <3>2. QED
      BY <1>1, <2>2, <3>1
  <2>3. QED
    BY <1>1, <2>1, <2>2
<1>3. \A i \in DOMAIN p : i \in DOMAIN t /\ t[i] = p[i]
  BY <1>1
<1>4. \A i \in DOMAIN s : /\ Len(p) + i \in DOMAIN t /\ t[Len(p) + i] = s[i]
                          /\ Len(p) + i > Len(p)
  BY <1>1
<1>5. NoneAbout(t, k) <=> NoneAbout(p, k) /\ NoneAbout(s, k)
  BY <1>2, <1>3, <1>4 DEF NoneAbout
<1>6. ASSUME EndsAs(s, k, L), NoneAbout(s, k) => EndsAs(p, k, L)
      PROVE  EndsAs(t, k, L)
  <2> SUFFICES ASSUME NEW i \in DOMAIN t, About(t[i], k),
                      \A j \in DOMAIN t : j > i => ~About(t[j], k)
               PROVE  t[i].verb = "LISTEN" <=> k \in L
    BY DEF EndsAs
  <2>1. CASE i \in DOMAIN p /\ t[i] = p[i]
    <3>1. ASSUME NEW j \in DOMAIN s PROVE ~About(s[j], k)
      <4>1. Len(p) + j > i
        BY <1>1, <2>1
      <4>2. QED
        BY <4>1, <1>4
    <3>2. EndsAs(p, k, L)
      BY <3>1, <1>6 DEF NoneAbout
    <3>3. \A j \in DOMAIN p : j > i => ~About(p[j], k)
      BY <1>3
    <3>4. QED
      BY <2>1, <3>2, <3>3 DEF EndsAs
  <2>2. CASE i > Len(p) /\ i - Len(p) \in DOMAIN s /\ t[i] = s[i - Len(p)]
    <3>1. ASSUME NEW j \in DOMAIN s, j > i - Len(p) PROVE ~About(s[j], k)
      <4>1. Len(p) + j > i
        BY <1>1, <3>1
      <4>2. QED
        BY <4>1, <1>4
    <3>2. QED
      BY <2>2, <3>1, <1>6 DEF EndsAs
  <2>3. QED
    BY <1>2, <2>1, <2>2
<1>7. QED
  BY <1>5, <1>6 DEF t

\* What the session listens on is what the listeners ask for, up to the jobs that
\* are still queued; a job the server has answered has had its effect.
ListenInv ==
    /\ \A k \in Args : EndsAs(jobs, k, listeners)
    /\ conn = "up" => \A k \in Args :
                        NoneAbout(jobs, k) => (k \in listening <=> k \in listeners)
    /\ conn = "none" => listening = {}
    /\ conn = "up" /\ pc \in {"callback", "done"} =>
         \A k \in Args : About(jobs[1], k) => (k \in listening <=> jobs[1].verb = "LISTEN")
    /\ conn = "up" /\ pc \in {"idle", "return"} => jobs = << >>
    /\ listening \subseteq Args

LEMMA ListenInit == Init => ListenInv
BY DEF Init, ListenInv, EndsAs, NoneAbout

\* The application queues a job, about the channels it (un)registers if any.
LEMMA ListenQueues ==
    ASSUME QueueInv, ListenInv, NEW job \in JobRecords, Queue(job),
           UNCHANGED <<conn, inLoop, listening>>,
           \A k \in Args : \/ About(job, k) /\ (job.verb = "LISTEN" <=> k \in listeners')
                           \/ ~About(job, k) /\ (k \in listeners' <=> k \in listeners)
    PROVE  ListenInv'
<1>1. jobs \in Seq(JobRecords) /\ jobs' = Append(jobs, job)
  BY DEF Queue, QueueInv, QueueTypes
<1>2. \A k \in Args : EndsAs(Append(jobs, job), k, listeners')
  <2> TAKE k \in Args
  <2>1. CASE About(job, k) /\ (job.verb = "LISTEN" <=> k \in listeners')
    BY <2>1, <1>1, AppendAbout
  <2>2. CASE ~About(job, k) /\ (k \in listeners' <=> k \in listeners)
    <3>1. EndsAs(jobs, k, listeners')
      BY <2>2 DEF ListenInv, EndsAs
    <3>2. QED
      BY <2>2, <3>1, <1>1, AppendAbout
  <2>3. QED
    BY <2>1, <2>2
<1>3. conn' = "up" => \A k \in Args : NoneAbout(Append(jobs, job), k)
                                        => (k \in listening' <=> k \in listeners')
  <2> SUFFICES ASSUME conn' = "up", NEW k \in Args, NoneAbout(Append(jobs, job), k)
               PROVE  k \in listening' <=> k \in listeners'
    OBVIOUS
  <2>1. NoneAbout(jobs, k) /\ ~About(job, k)
    BY <1>1, AppendAbout
  <2>2. QED
    BY <2>1 DEF ListenInv
<1>4. /\ pc' \in {"callback", "done"} => pc' = pc /\ jobs # << >>
      /\ pc' \notin {"idle", "return"}
  BY DEF Queue, CallLoop, AppCodeRuns, QueueInv, QueueTypes, Waiting
<1>5. jobs # << >> => Append(jobs, job)[1] = jobs[1]
  BY <1>1
<1>6. QED
  BY <1>1, <1>2, <1>3, <1>4, <1>5 DEF ListenInv

LEMMA ListenApplication == QueueInv /\ ListenInv /\ Application => ListenInv'
<1> SUFFICES ASSUME QueueInv, ListenInv, Application PROVE ListenInv'
  OBVIOUS
<1>1. ASSUME NEW q \in Queries, Select(q) PROVE ListenInv'
  <2>1. /\ Job("QUERY", q) \in JobRecords /\ Job("QUERY", q).verb = "QUERY"
        /\ Queue(Job("QUERY", q)) /\ UNCHANGED <<conn, inLoop, listening, listeners>>
    BY <1>1, JobType DEF Args, Verbs, Select
  <2>2. QED
    BY <2>1, ListenQueues DEF About
<1>2. ASSUME NEW k \in Keys, Listen(k) PROVE ListenInv'
  <2>1. /\ Job("LISTEN", k) \in JobRecords
        /\ Job("LISTEN", k).verb = "LISTEN" /\ Job("LISTEN", k).arg = k
        /\ Queue(Job("LISTEN", k)) /\ UNCHANGED <<conn, inLoop, listening>>
        /\ listeners' = listeners \cup {k}
    BY <1>2, JobType DEF Args, Verbs, Listen
  <2>2. QED
    BY <2>1, ListenQueues DEF About
<1>3. ASSUME NEW k \in Keys, Unlisten(k) PROVE ListenInv'
  <2>1. /\ Job("UNLISTEN", k) \in JobRecords
        /\ Job("UNLISTEN", k).verb = "UNLISTEN" /\ Job("UNLISTEN", k).arg = k
        /\ Queue(Job("UNLISTEN", k)) /\ UNCHANGED <<conn, inLoop, listening>>
        /\ listeners' = listeners \ {k}
    BY <1>3, JobType DEF Args, Verbs, Unlisten
  <2>2. QED
    BY <2>1, ListenQueues DEF About
<1>4. ASSUME NEW b \in BOOLEAN, SetStayConnected(b) PROVE ListenInv'
  BY <1>4 DEF SetStayConnected, ListenInv
<1>5. QED
  BY <1>1, <1>2, <1>3, <1>4 DEF Application

LEMMA ListenLoop == QueueInv /\ ListenInv /\ Loop => ListenInv'
<1> SUFFICES ASSUME QueueInv, ListenInv, Loop PROVE ListenInv'
  OBVIOUS
<1>1. CASE LoopUnconnected
  BY <1>1 DEF LoopUnconnected, Return, ListenInv
<1>2. CASE LoopConnected
  BY <1>2 DEF LoopConnected, ListenInv
<1>3. CASE LoopLost
  BY <1>3 DEF LoopLost, ListenInv
<1>4. CASE NothingNotified
  BY <1>4 DEF NothingNotified, Return, ListenInv
<1>5. CASE SendHead
  <2>1. /\ jobs # << >> /\ jobs' = [jobs EXCEPT ![1].sent = TRUE] /\ pc' = "result"
        /\ UNCHANGED <<conn, listeners, listening>>
    BY <1>5 DEF SendHead, QueueInv, QueueTypes
  <2>2. /\ DOMAIN jobs' = DOMAIN jobs
        /\ \A i \in DOMAIN jobs : jobs'[i].verb = jobs[i].verb /\ jobs'[i].arg = jobs[i].arg
    <3>1. \A i \in DOMAIN jobs : jobs[i] \in JobRecords
      BY DEF QueueInv, QueueTypes
    <3>2. QED
      BY <2>1, <3>1 DEF JobRecords
  <2>3. \A k \in Args : /\ EndsAs(jobs', k, listeners)
                        /\ NoneAbout(jobs', k) <=> NoneAbout(jobs, k)
    BY <2>2 DEF ListenInv, EndsAs, NoneAbout, About
  <2>4. QED
    BY <2>1, <2>3 DEF ListenInv
<1>6. CASE Answer
  <2>1. /\ jobs # << >> /\ Head(jobs) = jobs[1] /\ 1 \in DOMAIN jobs
        /\ jobs[1].arg \in Args
        /\ UNCHANGED <<conn, jobs, listeners>>
        /\ pc' \in {"callback", "done"}
    <3>1. /\ pc = "result" /\ UNCHANGED <<conn, jobs, listeners>>
          /\ pc' \in {"callback", "done"}
      BY <1>6 DEF Answer
    <3>2. jobs # << >> /\ jobs \in Seq(JobRecords)
      BY <3>1 DEF QueueInv, QueueTypes
    <3>3. Head(jobs) = jobs[1] /\ 1 \in DOMAIN jobs
      BY <3>2
    <3>4. jobs[1] \in JobRecords
      BY <3>2, <3>3
    <3>5. QED
      BY <3>1, <3>2, <3>3, <3>4 DEF JobRecords
  <2>2. QED
    BY <1>6, <2>1 DEF Answer, ListenInv, NoneAbout, About
<1>7. CASE NoAnswer
  BY <1>7 DEF NoAnswer, ListenInv
<1>8. CASE PopHead
  <2>1. /\ pc = "done" /\ pc' = "loop" /\ jobs # << >> /\ jobs \in Seq(JobRecords)
        /\ jobs' = Tail(jobs) /\ UNCHANGED <<conn, listeners, listening>>
    BY <1>8 DEF PopHead, QueueInv, QueueTypes
  <2>2. \A k \in Args : /\ EndsAs(Tail(jobs), k, listeners)
                        /\ NoneAbout(Tail(jobs), k) =>
                             \/ NoneAbout(jobs, k)
                             \/ /\ About(jobs[1], k)
                                /\ (jobs[1].verb = "LISTEN" <=> k \in listeners)
    BY <2>1, TailAbout DEF ListenInv
  <2>3. QED
    BY <2>1, <2>2 DEF ListenInv
<1>9. CASE CallbackReturns
  <2>1. /\ UNCHANGED <<conn, jobs, listeners, listening>>
        /\ pc' = "notify" \/ (pc = "callback" /\ pc' = "done")
    BY <1>9 DEF CallbackReturns
  <2>2. QED
    BY <2>1 DEF ListenInv
<1>10. QED
  BY <1>1, <1>2, <1>3, <1>4, <1>5, <1>6, <1>7, <1>8, <1>9 DEF Loop

\* Connect starts a session that listens on nothing, and queues a LISTEN for every
\* listener in front of whatever is queued already.
LEMMA ListenConnects == QueueInv /\ ListenInv /\ RetryInv /\ ConnectSucceeds => ListenInv'
<1> SUFFICES ASSUME QueueInv, ListenInv, RetryInv, ConnectSucceeds PROVE ListenInv'
  OBVIOUS
<1> DEFINE a == IF AutoCommit THEN <<Job("AUTOCOMMIT", NoArg)>> ELSE << >>
<1>1. PICK s \in ListenJobs : jobs' = s \o a \o jobs
  BY DEF ConnectSucceeds
<1>2. /\ conn = "none" /\ listening = {} /\ pc' = "loop" /\ UNCHANGED <<listening, listeners>>
  BY DEF ConnectSucceeds, RetryInv, ListenInv
<1>3. /\ s \in Seq(JobRecords)
      /\ \A i \in DOMAIN s : s[i].verb = "LISTEN" /\ s[i].arg \in listeners
      /\ \A k \in listeners : \E i \in DOMAIN s : s[i].arg = k
  BY Listens DEF QueueInv, QueueTypes
<1>4. a \in Seq(JobRecords) /\ \A i \in DOMAIN a : a[i].verb = "AUTOCOMMIT"
  BY AutoCommitJob
<1>5. jobs \in Seq(JobRecords)
  BY DEF QueueInv, QueueTypes
<1> HIDE DEF a
<1>6. s \o a \in Seq(JobRecords)
  BY <1>3, <1>4, Concatenated
<1>7. ASSUME NEW k \in Args
      PROVE  /\ EndsAs(s \o a \o jobs, k, listeners)
             /\ NoneAbout(s \o a \o jobs, k) => k \notin listeners
  <2>1. EndsAs(s, k, listeners) /\ (NoneAbout(s, k) => k \notin listeners)
    BY <1>3 DEF EndsAs, NoneAbout, About
  <2>2. EndsAs(a, k, listeners) /\ NoneAbout(a, k)
    BY <1>4 DEF EndsAs, NoneAbout, About
  <2>3. /\ EndsAs(s \o a, k, listeners)
        /\ NoneAbout(s \o a, k) <=> NoneAbout(s, k)
    BY <1>3, <1>4, <2>1, <2>2, ConcatenatedAbout
  <2>4. EndsAs(jobs, k, listeners)
    BY DEF ListenInv
  <2>5. /\ EndsAs(s \o a \o jobs, k, listeners)
        /\ NoneAbout(s \o a \o jobs, k) => NoneAbout(s \o a, k)
    BY <1>5, <1>6, <2>3, <2>4, ConcatenatedAbout
  <2>6. QED
    BY <2>1, <2>3, <2>5
<1>8. QED
  BY <1>1, <1>2, <1>7 DEF ListenInv

LEMMA ListenNext == QueueInv /\ RetryInv /\ ListenInv /\ [Next]_vars => ListenInv'
<1> SUFFICES ASSUME QueueInv, RetryInv, ListenInv, [Next]_vars PROVE ListenInv'
  OBVIOUS
<1>1. CASE UNCHANGED vars
  BY <1>1 DEF vars, ListenInv
<1>2. CASE ConnectFails
  <2>1. conn = "none"
    BY <1>2 DEF ConnectFails, RetryInv
  <2>2. QED
    BY <1>2, <2>1 DEF ConnectFails, ListenInv
<1>3. CASE Break \/ EventCallback \/ Notified \/ UseAfterDelete
  BY <1>3 DEF Break, EventCallback, Notified, UseAfterDelete, ListenInv
<1>4. CASE BackoffFires \/ OrphanFires \/ TimerReturns
  BY <1>4 DEF BackoffFires, OrphanFires, TimerReturns, TimerCalls, ListenInv
<1>5. QED
  BY <1>1, <1>2, <1>3, <1>4, ListenApplication, ListenLoop, ListenConnects DEF Next, Connect

\* Whenever the event loop is on its own and the session lives, the server
\* notifies us of exactly what we have listeners for, however many reconnects, and
\* Listen and Unlisten calls from callbacks, came before (Postgres.cpp:160-181,
\* 276-282).
THEOREM SessionListens == Spec => []ListensInSync
<1>1. QueueInv /\ ListenInv => ListensInSync
  <2> SUFFICES ASSUME QueueInv, ListenInv, pc = "idle", conn = "up"
               PROVE  jobs = << >> /\ listening = listeners
    BY DEF ListensInSync
  <2>1. jobs = << >> /\ DOMAIN jobs = {}
    BY DEF ListenInv
  <2>2. \A k \in Args : k \in listening <=> k \in listeners
    BY <2>1 DEF ListenInv, NoneAbout
  <2>3. QED
    BY <2>1, <2>2 DEF ListenInv, QueueInv, QueueTypes, Args
<1>2. QED
  BY <1>1, QueueInit, QueueNext, RetryInit, RetryNext, ListenInit, ListenNext, PTL DEF Spec

--------------------------------------------------------------------------------
(* NothingLostOrReordered *)

\* A query asked for is put behind those that wait; any other job is none of them.
LEMMA AppendOrder ==
    ASSUME NEW s \in Seq(JobRecords), NEW job \in JobRecords,
           NEW a \in Seq(Queries), NEW n \in 1 .. Len(a) + 1, InOrder(s, a, n)
    PROVE  /\ job.verb = "QUERY" /\ job.arg \in Queries
                => InOrder(Append(s, job), Append(a, job.arg), n)
           /\ job.verb # "QUERY" => InOrder(Append(s, job), a, n)
<1> DEFINE t == Append(s, job)
<1>1. /\ Len(s) \in Nat /\ DOMAIN s = 1 .. Len(s) /\ DOMAIN t = 1 .. Len(s) + 1
      /\ \A i \in 1 .. Len(s) : t[i] = s[i]
      /\ t[Len(s) + 1] = job
  BY AppendProperties, LenProperties
<1>2. Len(a) \in Nat /\ n \in Nat /\ n >= 1 /\ n <= Len(a) + 1
  BY LenProperties
<1> HIDE DEF t
<1>3. PICK at \in [n .. Len(a) -> QueriesIn(s)] : Places(at, s, a)
  BY DEF InOrder
<1>4. \A i \in QueriesIn(s) : i \in QueriesIn(t) /\ i \in 1 .. Len(s) /\ t[i] = s[i]
  BY <1>1 DEF QueriesIn
<1>5. ASSUME job.verb = "QUERY", job.arg \in Queries
      PROVE  InOrder(t, Append(a, job.arg), n)
  <2> DEFINE b == Append(a, job.arg)
             bt == [m \in n .. Len(b) |-> IF m = Len(b) THEN Len(s) + 1 ELSE at[m]]
  <2>1. /\ Len(b) = Len(a) + 1 /\ b[Len(a) + 1] = job.arg
        /\ \A m \in 1 .. Len(a) : b[m] = a[m]
    BY <1>5, AppendProperties, LenProperties
  <2> HIDE DEF b
  <2>2. Len(s) + 1 \in QueriesIn(t)
    BY <1>1, <1>5 DEF QueriesIn
  <2>3. bt \in [n .. Len(b) -> QueriesIn(t)]
    BY <1>2, <1>3, <1>4, <2>1, <2>2
  <2>4. \A m \in n .. Len(a) : bt[m] = at[m] /\ at[m] \in QueriesIn(s)
    BY <1>2, <1>3, <2>1
  <2>5. bt[Len(a) + 1] = Len(s) + 1 /\ Len(a) + 1 \in n .. Len(b)
    BY <1>2, <2>1
  <2>6. DOMAIN bt = n .. Len(a) + 1 /\ DOMAIN at = n .. Len(a)
    BY <1>3, <2>1
  <2> HIDE DEF bt
  <2>7. ASSUME NEW m \in DOMAIN bt PROVE t[bt[m]].arg = b[m]
    <3>1. CASE m = Len(a) + 1
      BY <3>1, <1>1, <2>1, <2>5
    <3>2. CASE m \in n .. Len(a)
      <4>1. s[at[m]].arg = a[m] /\ m \in 1 .. Len(a)
        BY <1>2, <1>3, <2>6, <3>2 DEF Places
      <4>2. QED
        BY <4>1, <3>2, <1>4, <2>1, <2>4
    <3>3. QED
      BY <3>1, <3>2, <2>6, <1>2
  <2>8. ASSUME NEW l \in DOMAIN bt, NEW m \in DOMAIN bt, l < m PROVE bt[l] < bt[m]
    <3>1. l \in n .. Len(a)
      BY <1>2, <2>6, <2>8
    <3>2. CASE m = Len(a) + 1
      <4>1. bt[l] \in 1 .. Len(s)
        BY <3>1, <1>4, <2>4
      <4>2. QED
        BY <3>2, <4>1, <1>1, <2>5
    <3>3. CASE m \in n .. Len(a)
      BY <3>1, <3>3, <1>3, <2>4, <2>6, <2>8 DEF Places
    <3>4. QED
      BY <3>2, <3>3, <2>6, <1>2
  <2>9. ASSUME NEW i \in QueriesIn(t) PROVE \E m \in DOMAIN bt : bt[m] = i
    <3>1. CASE i = Len(s) + 1
      BY <3>1, <1>2, <2>5, <2>6
    <3>2. CASE i # Len(s) + 1
      <4>1. i \in QueriesIn(s)
        BY <3>2, <1>1, <2>9 DEF QueriesIn
      <4>2. PICK m \in DOMAIN at : at[m] = i
        BY <4>1, <1>3 DEF Places
      <4>3. QED
        BY <4>2, <1>2, <2>4, <2>6
    <3>3. QED
      BY <3>1, <3>2
  <2>10. QED
    BY <2>3, <2>7, <2>8, <2>9 DEF InOrder, Places, b
<1>6. ASSUME job.verb # "QUERY" PROVE InOrder(t, a, n)
  <2>1. QueriesIn(t) = QueriesIn(s)
    BY <1>1, <1>6 DEF QueriesIn
  <2>2. Places(at, t, a)
    BY <1>3, <1>4, <2>1 DEF Places
  <2>3. QED
    BY <2>1, <2>2 DEF InOrder
<1>7. QED
  BY <1>5, <1>6 DEF t

\* What is not a query may be put in front of the queue.
LEMMA PrependOrder ==
    ASSUME NEW p \in Seq(JobRecords), NEW s \in Seq(JobRecords), NEW a, NEW n,
           \A i \in DOMAIN p : p[i].verb # "QUERY", InOrder(s, a, n)
    PROVE  InOrder(p \o s, a, n)
<1> DEFINE t == p \o s
<1>1. /\ DOMAIN t = 1 .. Len(p) + Len(s)
      /\ DOMAIN p = 1 .. Len(p) /\ Len(p) \in Nat
      /\ DOMAIN s = 1 .. Len(s) /\ Len(s) \in Nat
      /\ \A i \in 1 .. Len(p) : t[i] = p[i]
      /\ \A i \in 1 .. Len(s) : t[Len(p) + i] = s[i]
  BY Concatenated
<1> HIDE DEF t
<1>2. PICK at \in [n .. Len(a) -> QueriesIn(s)] : Places(at, s, a)
  BY DEF InOrder
<1> DEFINE bt == [m \in n .. Len(a) |-> Len(p) + at[m]]
<1>3. \A i \in QueriesIn(s) : /\ i \in 1 .. Len(s) /\ Len(p) + i \in QueriesIn(t)
                              /\ t[Len(p) + i] = s[i]
  BY <1>1 DEF QueriesIn
<1>4. ASSUME NEW i \in QueriesIn(t) PROVE i - Len(p) \in QueriesIn(s) /\ i \in Nat
  <2>1. i > Len(p)
    BY <1>1 DEF QueriesIn
  <2>2. i - Len(p) \in 1 .. Len(s) /\ i = Len(p) + (i - Len(p))
    BY <1>1, <2>1 DEF QueriesIn
  <2>3. QED
    BY <1>1, <2>2 DEF QueriesIn
<1>5. /\ bt \in [n .. Len(a) -> QueriesIn(t)]
      /\ \A m \in n .. Len(a) : bt[m] = Len(p) + at[m] /\ at[m] \in QueriesIn(s)
      /\ DOMAIN bt = n .. Len(a) /\ DOMAIN at = n .. Len(a)
  BY <1>2, <1>3
<1> HIDE DEF bt
<1>6. \A m \in DOMAIN bt : t[bt[m]].arg = a[m]
  BY <1>2, <1>3, <1>5 DEF Places
<1>7. \A l, m \in DOMAIN bt : l < m => bt[l] < bt[m]
  BY <1>1, <1>2, <1>3, <1>5 DEF Places
<1>8. ASSUME NEW i \in QueriesIn(t) PROVE \E m \in DOMAIN bt : bt[m] = i
  <2>1. PICK m \in DOMAIN at : at[m] = i - Len(p)
    BY <1>2, <1>4 DEF Places
  <2>2. bt[m] = i
    BY <2>1, <1>1, <1>4, <1>5
  <2>3. QED
    BY <2>2, <1>5
<1>9. QED
  BY <1>5, <1>6, <1>7, <1>8 DEF InOrder, Places, t

\* If the job at the head is a query, it is the next to end.
LEMMA TailOrder ==
    ASSUME NEW s \in Seq(JobRecords), s # << >>,
           NEW a \in Seq(Queries), NEW n \in 1 .. Len(a) + 1, InOrder(s, a, n)
    PROVE  /\ s[1].verb = "QUERY" =>
                n <= Len(a) /\ a[n] = s[1].arg /\ InOrder(Tail(s), a, n + 1)
           /\ s[1].verb # "QUERY" => InOrder(Tail(s), a, n)
<1> DEFINE t == Tail(s)
<1>1. /\ Len(s) \in Nat \ {0} /\ DOMAIN s = 1 .. Len(s)
      /\ DOMAIN t = 1 .. Len(s) - 1
      /\ \A i \in 1 .. Len(s) - 1 : t[i] = s[i + 1]
  OBVIOUS
<1>2. Len(a) \in Nat /\ n \in Nat /\ n >= 1 /\ n <= Len(a) + 1
  BY LenProperties
<1> HIDE DEF t
<1>3. PICK at \in [n .. Len(a) -> QueriesIn(s)] : Places(at, s, a)
  BY DEF InOrder
<1>4. \A i \in QueriesIn(s) : /\ i \in 1 .. Len(s)
                              /\ i # 1 => i - 1 \in QueriesIn(t) /\ t[i - 1] = s[i]
  <2> SUFFICES ASSUME NEW i \in QueriesIn(s), i # 1
               PROVE  i - 1 \in QueriesIn(t) /\ t[i - 1] = s[i]
    BY <1>1 DEF QueriesIn
  <2>1. i \in 1 .. Len(s) /\ i - 1 \in 1 .. Len(s) - 1 /\ (i - 1) + 1 = i
    BY <1>1 DEF QueriesIn
  <2>2. QED
    BY <1>1, <2>1 DEF QueriesIn
<1>5. \A i \in QueriesIn(t) : i \in Nat /\ i >= 1 /\ i + 1 \in QueriesIn(s)
  BY <1>1 DEF QueriesIn
<1>6. DOMAIN at = n .. Len(a) /\ \A m \in n .. Len(a) : at[m] \in QueriesIn(s)
  BY <1>3
\* From whatever place on the queries are not at the head, they move up by one.
<1>7. ASSUME NEW k \in n .. Len(a) + 1, \A m \in k .. Len(a) : at[m] # 1,
             \A m \in n .. k - 1 : at[m] = 1
      PROVE  InOrder(t, a, k)
  <2> DEFINE bt == [m \in k .. Len(a) |-> at[m] - 1]
  <2>1. \A m \in k .. Len(a) : m \in n .. Len(a)
    BY <1>2
  <2>2. /\ bt \in [k .. Len(a) -> QueriesIn(t)] /\ DOMAIN bt = k .. Len(a)
        /\ \A m \in k .. Len(a) : bt[m] = at[m] - 1
    BY <1>4, <1>6, <1>7, <2>1
  <2> HIDE DEF bt
  <2>3. \A m \in DOMAIN bt : t[bt[m]].arg = a[m]
    BY <1>3, <1>4, <1>6, <1>7, <2>1, <2>2 DEF Places
  <2>4. ASSUME NEW l \in DOMAIN bt, NEW m \in DOMAIN bt, l < m PROVE bt[l] < bt[m]
    <3>1. at[l] < at[m]
      BY <1>3, <1>6, <2>1, <2>2, <2>4 DEF Places
    <3>2. at[l] \in Int /\ at[m] \in Int
      BY <1>4, <1>6, <2>1, <2>2
    <3>3. QED
      BY <2>2, <3>1, <3>2
  <2>5. ASSUME NEW i \in QueriesIn(t) PROVE \E m \in DOMAIN bt : bt[m] = i
    <3>1. PICK m \in n .. Len(a) : at[m] = i + 1
      BY <1>3, <1>5, <1>6 DEF Places
    <3>2. at[m] # 1
      BY <3>1, <1>5
    <3>3. m \in k .. Len(a)
      BY <1>2, <1>7, <3>2
    <3>4. bt[m] = i
      BY <1>5, <2>2, <3>1, <3>3
    <3>5. QED
      BY <2>2, <3>3, <3>4
  <2>6. QED
    BY <2>2, <2>3, <2>4, <2>5 DEF InOrder, Places
<1>8. ASSUME s[1].verb = "QUERY"
      PROVE  n <= Len(a) /\ a[n] = s[1].arg /\ InOrder(t, a, n + 1)
  <2>1. 1 \in QueriesIn(s)
    BY <1>1, <1>8 DEF QueriesIn
  <2>2. PICK m \in n .. Len(a) : at[m] = 1
    BY <2>1, <1>3, <1>6 DEF Places
  <2>3. n <= Len(a) /\ n \in n .. Len(a)
    BY <1>2
  <2>4. m = n
    <3>1. ASSUME n < m PROVE FALSE
      BY <1>3, <1>4, <1>6, <2>2, <2>3, <3>1 DEF Places
    <3>2. QED
      BY <3>1, <1>2
  <2>5. a[n] = s[1].arg
    BY <1>3, <1>6, <2>2, <2>4 DEF Places
  <2>6. ASSUME NEW l \in n + 1 .. Len(a) PROVE at[l] # 1
    <3>1. l \in n .. Len(a) /\ n < l
      BY <1>2
    <3>2. at[n] < at[l]
      BY <1>3, <1>6, <2>3, <3>1 DEF Places
    <3>3. QED
      BY <2>2, <2>4, <3>2
  <2>7. \A l \in n .. (n + 1) - 1 : at[l] = 1
    BY <1>2, <2>2, <2>4
  <2>8. InOrder(t, a, n + 1)
    BY <1>2, <1>7, <2>3, <2>6, <2>7
  <2>9. QED
    BY <2>3, <2>5, <2>8
<1>9. ASSUME s[1].verb # "QUERY" PROVE InOrder(t, a, n)
  <2>1. \A m \in n .. Len(a) : at[m] # 1
    BY <1>6, <1>9 DEF QueriesIn
  <2>2. \A m \in n .. n - 1 : at[m] = 1
    BY <1>2
  <2>3. QED
    BY <1>2, <1>7, <2>1, <2>2
<1>10. QED
  BY <1>8, <1>9 DEF t

\* Sending a job moves none.
LEMMA SameOrder ==
    ASSUME NEW s, NEW t, DOMAIN s = DOMAIN t, NEW a, NEW n, InOrder(s, a, n),
           \A i \in DOMAIN s : t[i].verb = s[i].verb /\ t[i].arg = s[i].arg
    PROVE  InOrder(t, a, n)
<1>1. QueriesIn(t) = QueriesIn(s)
  BY DEF QueriesIn
<1>2. PICK at \in [n .. Len(a) -> QueriesIn(s)] : Places(at, s, a)
  BY DEF InOrder
<1>3. \A m \in DOMAIN at : at[m] \in DOMAIN s
  BY <1>2 DEF QueriesIn
<1>4. Places(at, t, a)
  BY <1>1, <1>2, <1>3 DEF Places
<1>5. QED
  BY <1>1, <1>2, <1>4 DEF InOrder

OrderInv ==
    /\ asked \in Seq(Queries)
    /\ ended \in Seq(Queries)
    /\ NothingLostOrReordered

LEMMA OrderInit == Init => OrderInv
<1> SUFFICES ASSUME Init PROVE OrderInv
  OBVIOUS
<1>1. jobs = << >> /\ asked = << >> /\ ended = << >>
  BY DEF Init
<1>2. QueriesIn(jobs) = {} /\ 0 + 1 .. 0 = {} /\ Len(asked) = 0 /\ Len(ended) = 0
  BY <1>1 DEF QueriesIn
<1> DEFINE at == [n \in 0 + 1 .. 0 |-> 0]
<1>3. at \in [0 + 1 .. 0 -> QueriesIn(jobs)] /\ DOMAIN at = {}
  BY <1>2
<1>4. Places(at, jobs, asked)
  BY <1>2, <1>3 DEF Places
<1>5. InOrder(jobs, asked, Len(ended) + 1)
  BY <1>2, <1>3, <1>4 DEF InOrder
<1>6. QED
  BY <1>1, <1>2, <1>5 DEF OrderInv, NothingLostOrReordered

LEMMA OrderQueues ==
    ASSUME QueueInv, OrderInv, NEW job \in JobRecords, Queue(job), ended' = ended,
           \/ job.verb = "QUERY" /\ job.arg \in Queries /\ asked' = Append(asked, job.arg)
           \/ job.verb # "QUERY" /\ asked' = asked
    PROVE  OrderInv'
<1>1. jobs \in Seq(JobRecords) /\ jobs' = Append(jobs, job)
  BY DEF Queue, QueueInv, QueueTypes
<1>2. /\ Len(ended) \in Nat /\ Len(asked) \in Nat /\ Len(ended) <= Len(asked)
      /\ DOMAIN ended = 1 .. Len(ended)
      /\ Len(ended) + 1 \in 1 .. Len(asked) + 1
      /\ asked \in Seq(Queries) /\ ended \in Seq(Queries)
      /\ \A n \in DOMAIN ended : ended[n] = asked[n]
      /\ InOrder(jobs, asked, Len(ended) + 1)
  BY DEF OrderInv, NothingLostOrReordered
<1>3. InOrder(jobs', asked', Len(ended) + 1)
  BY <1>1, <1>2, AppendOrder
<1>4. /\ asked' \in Seq(Queries) /\ Len(asked') >= Len(asked) /\ Len(asked') \in Nat
      /\ \A n \in 1 .. Len(asked) : asked'[n] = asked[n]
  <2>1. CASE job.verb = "QUERY"
    <3>1. job.arg \in Queries /\ asked' = Append(asked, job.arg)
      BY <2>1
    <3>2. QED
      BY <1>2, <3>1, AppendProperties, LenProperties
  <2>2. CASE job.verb # "QUERY"
    BY <1>2, <2>2
  <2>3. QED
    BY <2>1, <2>2
<1>5. Len(ended') <= Len(asked') /\ \A n \in DOMAIN ended' : ended'[n] = asked'[n]
  BY <1>2, <1>4
<1>6. QED
  BY <1>2, <1>3, <1>4, <1>5 DEF OrderInv, NothingLostOrReordered

LEMMA OrderApplication == QueueInv /\ OrderInv /\ Application => OrderInv'
<1> SUFFICES ASSUME QueueInv, OrderInv, Application PROVE OrderInv'
  OBVIOUS
<1>1. ASSUME NEW q \in Queries, Select(q) PROVE OrderInv'
  <2>1. /\ Job("QUERY", q) \in JobRecords /\ Job("QUERY", q).verb = "QUERY"
        /\ Job("QUERY", q).arg = q /\ Queue(Job("QUERY", q))
        /\ asked' = Append(asked, q) /\ ended' = ended
    BY <1>1, JobType DEF Args, Verbs, Select
  <2>2. QED
    BY <2>1, OrderQueues
<1>2. ASSUME NEW k \in Keys, Listen(k) PROVE OrderInv'
  <2>1. /\ Job("LISTEN", k) \in JobRecords /\ Job("LISTEN", k).verb = "LISTEN"
        /\ Queue(Job("LISTEN", k)) /\ UNCHANGED <<asked, ended>>
    BY <1>2, JobType DEF Args, Verbs, Listen
  <2>2. QED
    BY <2>1, OrderQueues
<1>3. ASSUME NEW k \in Keys, Unlisten(k) PROVE OrderInv'
  <2>1. /\ Job("UNLISTEN", k) \in JobRecords /\ Job("UNLISTEN", k).verb = "UNLISTEN"
        /\ Queue(Job("UNLISTEN", k)) /\ UNCHANGED <<asked, ended>>
    BY <1>3, JobType DEF Args, Verbs, Unlisten
  <2>2. QED
    BY <2>1, OrderQueues
<1>4. ASSUME NEW b \in BOOLEAN, SetStayConnected(b) PROVE OrderInv'
  BY <1>4 DEF SetStayConnected, OrderInv, NothingLostOrReordered
<1>5. QED
  BY <1>1, <1>2, <1>3, <1>4 DEF Application

LEMMA OrderPops == QueueInv /\ OrderInv /\ PopHead => OrderInv'
<1> SUFFICES ASSUME QueueInv, OrderInv, PopHead PROVE OrderInv'
  OBVIOUS
<1>1. /\ jobs \in Seq(JobRecords) /\ jobs # << >> /\ Head(jobs) = jobs[1]
      /\ jobs' = Tail(jobs) /\ asked' = asked
      /\ ended' = IF jobs[1].verb = "QUERY" THEN Append(ended, jobs[1].arg) ELSE ended
  BY DEF PopHead, QueueInv, QueueTypes
<1>2. /\ Len(ended) \in Nat /\ Len(asked) \in Nat /\ Len(ended) <= Len(asked)
      /\ DOMAIN ended = 1 .. Len(ended) /\ DOMAIN asked = 1 .. Len(asked)
      /\ Len(ended) + 1 \in 1 .. Len(asked) + 1
      /\ asked \in Seq(Queries) /\ ended \in Seq(Queries)
      /\ \A n \in DOMAIN ended : ended[n] = asked[n]
      /\ InOrder(jobs, asked, Len(ended) + 1)
  BY DEF OrderInv, NothingLostOrReordered
<1>3. CASE jobs[1].verb = "QUERY"
  <2>1. /\ Len(ended) + 1 <= Len(asked) /\ asked[Len(ended) + 1] = jobs[1].arg
        /\ InOrder(jobs', asked, (Len(ended) + 1) + 1)
    BY <1>1, <1>2, <1>3, TailOrder
  <2>2. Len(ended) + 1 \in DOMAIN asked /\ jobs[1].arg \in Queries
    BY <1>2, <2>1
  <2>3. /\ ended' \in Seq(Queries) /\ Len(ended') = Len(ended) + 1
        /\ DOMAIN ended' = 1 .. Len(ended) + 1
        /\ \A n \in 1 .. Len(ended) : ended'[n] = ended[n]
        /\ ended'[Len(ended) + 1] = jobs[1].arg
    BY <1>1, <1>2, <1>3, <2>2, AppendProperties, LenProperties
  <2>4. \A n \in DOMAIN ended' : ended'[n] = asked[n]
    BY <1>2, <2>1, <2>3
  <2>5. QED
    BY <1>1, <1>2, <2>1, <2>3, <2>4 DEF OrderInv, NothingLostOrReordered
<1>4. CASE jobs[1].verb # "QUERY"
  <2>1. InOrder(jobs', asked, Len(ended) + 1)
    BY <1>1, <1>2, <1>4, TailOrder
  <2>2. QED
    BY <1>1, <1>2, <1>4, <2>1 DEF OrderInv, NothingLostOrReordered
<1>5. QED
  BY <1>3, <1>4

LEMMA OrderConnects == QueueInv /\ OrderInv /\ ConnectSucceeds => OrderInv'
<1> SUFFICES ASSUME QueueInv, OrderInv, ConnectSucceeds PROVE OrderInv'
  OBVIOUS
<1> DEFINE a == IF AutoCommit THEN <<Job("AUTOCOMMIT", NoArg)>> ELSE << >>
<1>1. PICK s \in ListenJobs : jobs' = s \o a \o jobs
  BY DEF ConnectSucceeds
<1>2. s \in Seq(JobRecords) /\ \A i \in DOMAIN s : s[i].verb = "LISTEN"
  BY Listens DEF QueueInv, QueueTypes
<1>3. a \in Seq(JobRecords) /\ \A i \in DOMAIN a : a[i].verb = "AUTOCOMMIT"
  BY AutoCommitJob
<1>4. jobs \in Seq(JobRecords) /\ UNCHANGED <<asked, ended>>
  BY DEF QueueInv, QueueTypes, ConnectSucceeds
<1> HIDE DEF a
<1>5. InOrder(a \o jobs, asked, Len(ended) + 1)
  BY <1>3, <1>4, PrependOrder DEF OrderInv, NothingLostOrReordered
<1>6. a \o jobs \in Seq(JobRecords) /\ s \o a \o jobs = s \o (a \o jobs)
  BY <1>2, <1>3, <1>4
<1>7. InOrder(jobs', asked, Len(ended) + 1)
  BY <1>1, <1>2, <1>5, <1>6, PrependOrder
<1>8. QED
  BY <1>4, <1>7 DEF OrderInv, NothingLostOrReordered

LEMMA OrderNext == QueueInv /\ OrderInv /\ [Next]_vars => OrderInv'
<1> SUFFICES ASSUME QueueInv, OrderInv, [Next]_vars PROVE OrderInv'
  OBVIOUS
<1>1. CASE SendHead
  <2>1. /\ jobs' = [jobs EXCEPT ![1].sent = TRUE] /\ UNCHANGED <<asked, ended>>
        /\ \A i \in DOMAIN jobs : jobs[i] \in JobRecords
    BY <1>1 DEF SendHead, QueueInv, QueueTypes
  <2>2. /\ DOMAIN jobs' = DOMAIN jobs
        /\ \A i \in DOMAIN jobs : jobs'[i].verb = jobs[i].verb /\ jobs'[i].arg = jobs[i].arg
    BY <2>1 DEF JobRecords
  <2>3. InOrder(jobs', asked, Len(ended) + 1)
    BY <2>2, SameOrder DEF OrderInv, NothingLostOrReordered
  <2>4. QED
    BY <2>1, <2>3 DEF OrderInv, NothingLostOrReordered
<1>2. ASSUME UNCHANGED <<jobs, asked, ended>> PROVE OrderInv'
  BY <1>2 DEF OrderInv, NothingLostOrReordered
<1>3. CASE UNCHANGED vars
  BY <1>2, <1>3 DEF vars
<1>4. CASE Break \/ EventCallback \/ Notified \/ UseAfterDelete \/ ConnectFails
  BY <1>2, <1>4 DEF Break, EventCallback, Notified, UseAfterDelete, ConnectFails
<1>5. CASE BackoffFires \/ OrphanFires \/ TimerReturns
  BY <1>2, <1>5 DEF BackoffFires, OrphanFires, TimerReturns, TimerCalls
<1>6. CASE LoopUnconnected \/ LoopConnected \/ LoopLost \/ NothingNotified
  BY <1>2, <1>6 DEF LoopUnconnected, LoopConnected, LoopLost, NothingNotified
<1>7. CASE Answer \/ NoAnswer \/ CallbackReturns
  BY <1>2, <1>7 DEF Answer, NoAnswer, CallbackReturns
<1>8. QED
  BY <1>1, <1>3, <1>4, <1>5, <1>6, <1>7, OrderApplication, OrderPops, OrderConnects
     DEF Next, Loop, Connect

\* For any number of queries and channels, and however often the server goes away,
\* queries end in the order of the Select calls and none gets lost or is handed
\* out twice, whatever a reconnect pushes in front of them and whoever queues more
\* from a callback (Postgres.cpp:147-153, 240, 273-282).
THEOREM QueriesKeepTheirOrder == Spec => []NothingLostOrReordered
<1>1. OrderInv => NothingLostOrReordered
  BY DEF OrderInv
<1>2. QED
  BY <1>1, QueueInit, QueueNext, OrderInit, OrderNext, PTL DEF Spec

================================================================================
