-------------------------------- MODULE PostGres --------------------------------
(***************************************************************************)
(* PostGres (Postgres.h, Postgres.cpp): a queue of queries, the connection  *)
(* they are sent over, LISTEN/NOTIFY, and the BackoffTimer that reconnects. *)
(* Everything runs on the thread of the Module's event loop; what makes it  *)
(* hard is that Loop calls the application back, that the application calls *)
(* Select, Listen and Unlisten from there, that Loop and Connect call each  *)
(* other, and that the server may go away between any two steps.            *)
(* Lambdas behave like a DBCallback.  The branch of Loop for a connection   *)
(* libpq calls busy is not modelled: it is busy only while a query is       *)
(* outstanding, and Loop leaves none outstanding when it returns.           *)
(***************************************************************************)
EXTENDS BackoffTimer, Sequences, FiniteSets

CONSTANTS
    Queries,      \* the application's calls of Select and Insert, one each
    Keys,         \* the channels it may listen on
    NoArg,
    AutoCommit,   \* enableAutoCommit() was called
    MaxLosses,    \* bound: how often the server goes away
    MaxJobs,      \* bound: queued jobs, beyond which the application waits
    MaxDepth      \* bound: onNotify calls nested in one another

ASSUME AutoCommitAssumption == AutoCommit \in BOOLEAN
ASSUME BoundsAssumption == {MaxLosses, MaxJobs, MaxDepth} \subseteq Nat

VARIABLES
    pc,         \* where the thread is
    depth,      \* calls of onNotify that wait for a Loop they have caused
    inTimer,    \* a timer's RunJob is what called Connect
    conn,       \* _conn: none, up, or broken without PostGres knowing
    jobs,       \* _jobs
    listeners,  \* the keys of _listeners
    stay,       \* _stay_connected
    inLoop,     \* _in_loop
    listening,  \* the channels this session LISTENs on, at the server
    asked,      \* the queries in the order of the Select calls
    ended,      \* the queries that were popped, in that order
    answered,   \* those whose QueryResult or QueryError was called
    losses      \* connections lost so far

vars == <<pc, depth, inTimer, conn, jobs, listeners, stay, inLoop, listening,
          asked, ended, answered, losses, backoffVars>>

Points == {"idle", "loop", "notify", "onNotify", "head", "result", "callback",
           "done", "connect", "return", "dead"}
Verbs == {"QUERY", "LISTEN", "UNLISTEN", "AUTOCOMMIT"}

Job(verb, arg) == [verb |-> verb, arg |-> arg, sent |-> FALSE]
Arguments(queue) == [i \in DOMAIN queue |-> queue[i].arg]
QueriesIn(queue) == {i \in DOMAIN queue : queue[i].verb = "QUERY"}
Elements(s) == {s[i] : i \in DOMAIN s}

Init ==
    /\ pc = "idle"
    /\ depth = 0
    /\ inTimer = FALSE
    /\ conn = "none"
    /\ jobs = << >>
    /\ listeners = {}
    /\ stay = FALSE
    /\ inLoop = FALSE
    /\ listening = {}
    /\ asked = << >>
    /\ ended = << >>
    /\ answered = {}
    /\ losses = 0
    /\ BackoffInit

-----------------------------------------------------------------------------
\* The application, in the event loop or in one of the callbacks of Loop.

AppCodeRuns ==
    \/ pc \in {"idle", "onNotify", "callback"}
    \/ pc = "done" /\ Head(jobs).verb = "QUERY"      \* in QueryDone

\* Mutant: Loop does not look at _in_loop.
CallLoopReenters == pc' = "loop" /\ UNCHANGED depth

\* Select and Insert end with a call of Loop, which returns at once if this is
\* a callback about a query.
CallLoop ==
    IF inLoop
    THEN UNCHANGED <<pc, depth>>
    ELSE /\ pc = "onNotify" => depth < MaxDepth
         /\ depth' = IF pc = "onNotify" THEN depth + 1 ELSE depth
         /\ pc' = "loop"

\* Mutant: a new query is put in front.
QueueFront(job) ==
    /\ AppCodeRuns
    /\ Len(jobs) < MaxJobs
    /\ jobs' = <<job>> \o jobs
    /\ CallLoop

Queue(job) ==
    /\ AppCodeRuns
    /\ Len(jobs) < MaxJobs
    /\ jobs' = Append(jobs, job)
    /\ CallLoop

Select(q) ==
    /\ q \notin Elements(asked)
    /\ Queue(Job("QUERY", q))
    /\ asked' = Append(asked, q)
    /\ UNCHANGED <<inTimer, conn, listeners, stay, inLoop, listening, ended,
                   answered, losses, backoffVars>>

Listen(k) ==
    /\ k \notin listeners
    /\ listeners' = listeners \cup {k}
    /\ stay' = TRUE
    /\ Queue(Job("LISTEN", k))
    /\ UNCHANGED <<inTimer, conn, inLoop, listening, asked, ended, answered,
                   losses, backoffVars>>

Unlisten(k) ==
    /\ k \in listeners
    /\ listeners' = listeners \ {k}
    /\ Queue(Job("UNLISTEN", k))
    /\ UNCHANGED <<inTimer, conn, stay, inLoop, listening, asked, ended, answered,
                   losses, backoffVars>>

SetStayConnected(b) ==
    /\ AppCodeRuns
    /\ listeners = {}
    /\ stay' = b
    /\ UNCHANGED <<pc, depth, inTimer, conn, jobs, listeners, inLoop, listening,
                   asked, ended, answered, losses, backoffVars>>

\* The application returns from onNotify, or from QueryResult or QueryError.
CallbackReturns ==
    /\ pc \in {"onNotify", "callback"}
    /\ pc' = IF pc = "onNotify" THEN "notify" ELSE "done"
    /\ UNCHANGED <<depth, inTimer, conn, jobs, listeners, stay, inLoop, listening,
                   asked, ended, answered, losses, backoffVars>>

-----------------------------------------------------------------------------
\* The server and the network.

Break ==
    /\ pc # "dead"
    /\ conn = "up"
    /\ losses < MaxLosses
    /\ conn' = "broken"
    /\ losses' = losses + 1
    /\ UNCHANGED <<pc, depth, inTimer, jobs, listeners, stay, inLoop, listening,
                   asked, ended, answered, backoffVars>>

\* The socket is readable: libevent calls EventCallback.
EventCallback ==
    /\ pc = "idle"
    /\ conn # "none"
    /\ pc' = "loop"
    /\ UNCHANGED <<depth, inTimer, conn, jobs, listeners, stay, inLoop, listening,
                   asked, ended, answered, losses, backoffVars>>

-----------------------------------------------------------------------------
\* Loop.

\* Mutant: every return leaves an onNotify behind.
ReturnUnwinds ==
    /\ pc' = IF depth > 0 THEN "onNotify" ELSE IF inTimer THEN "return" ELSE "idle"
    /\ depth' = depth - 1

\* Where a call of Loop or Connect returns to.
Return ==
    /\ pc' = IF depth > 0 THEN "onNotify" ELSE IF inTimer THEN "return" ELSE "idle"
    /\ depth' = IF depth > 0 THEN depth - 1 ELSE 0

LoopUnconnected ==
    /\ pc = "loop"
    /\ conn = "none"
    /\ IF jobs = << >> THEN Return ELSE pc' = "connect" /\ UNCHANGED depth
    /\ UNCHANGED <<inTimer, conn, jobs, listeners, stay, inLoop, listening, asked,
                   ended, answered, losses, backoffVars>>

LoopConnected ==
    /\ pc = "loop"
    /\ conn = "up"
    /\ pc' = "notify"
    /\ UNCHANGED <<depth, inTimer, conn, jobs, listeners, stay, inLoop, listening,
                   asked, ended, answered, losses, backoffVars>>

\* PQconsumeInput fails.  Loop drops the connection and goes on without one.
LoopLost ==
    /\ pc = "loop"
    /\ conn = "broken"
    /\ conn' = "none"
    /\ listening' = {}
    /\ IF (stay \/ jobs # << >>) /\ backoff = "none"
       THEN NewBackoffTimer
       ELSE UNCHANGED backoffVars
    /\ pc' = "notify"
    /\ UNCHANGED <<depth, inTimer, jobs, listeners, stay, inLoop, asked, ended,
                   answered, losses>>

\* A notification for a registered listener.
Notified ==
    /\ pc = "notify"
    /\ conn # "none"
    /\ listening \cap listeners # {}
    /\ pc' = "onNotify"
    /\ UNCHANGED <<depth, inTimer, conn, jobs, listeners, stay, inLoop, listening,
                   asked, ended, answered, losses, backoffVars>>

NothingNotified ==
    /\ pc = "notify"
    /\ IF jobs = << >> THEN Return ELSE pc' = "head" /\ UNCHANGED depth
    /\ UNCHANGED <<inTimer, conn, jobs, listeners, stay, inLoop, listening, asked,
                   ended, answered, losses, backoffVars>>

SendHead ==
    /\ pc = "head"
    /\ jobs' = [jobs EXCEPT ![1].sent = TRUE]
    /\ inLoop' = TRUE
    /\ pc' = "result"
    /\ UNCHANGED <<depth, inTimer, conn, listeners, stay, listening, asked, ended,
                   answered, losses, backoffVars>>

\* PQgetResult has the server's answer, or says that the connection broke.
Answer ==
    /\ pc = "result"
    /\ conn # "none"
    /\ IF Head(jobs).verb = "QUERY"
       THEN /\ answered' = answered \cup {Head(jobs).arg}
            /\ pc' = "callback"
       ELSE /\ pc' = "done"
            /\ UNCHANGED answered
    /\ listening' = IF conn = "broken" THEN listening ELSE
                    CASE Head(jobs).verb = "LISTEN" -> listening \cup {Head(jobs).arg}
                      [] Head(jobs).verb = "UNLISTEN" -> listening \ {Head(jobs).arg}
                      [] OTHER -> listening
    /\ UNCHANGED <<depth, inTimer, conn, jobs, listeners, stay, inLoop, asked, ended,
                   losses, backoffVars>>

\* PQgetResult has nothing: there is no connection, or the query was not sent.
NoAnswer ==
    /\ pc = "result"
    /\ conn # "up"
    /\ pc' = "done"
    /\ UNCHANGED <<depth, inTimer, conn, jobs, listeners, stay, inLoop, listening,
                   asked, ended, answered, losses, backoffVars>>

\* QueryDone returns, if there is anyone to call.
PopHead ==
    /\ pc = "done"
    /\ ended' = IF Head(jobs).verb = "QUERY" THEN Append(ended, Head(jobs).arg)
                                             ELSE ended
    /\ jobs' = Tail(jobs)
    /\ inLoop' = FALSE
    /\ pc' = "loop"
    /\ UNCHANGED <<depth, inTimer, conn, listeners, stay, listening, asked,
                   answered, losses, backoffVars>>

-----------------------------------------------------------------------------
\* Connect, and the timer that calls it.

\* Mutant: whoever failed before is not told that it still fails.
ConnectFailsSilently ==
    /\ pc = "connect"
    /\ IF backoff = "none" /\ (stay \/ jobs # << >>) THEN NewBackoffTimer
       ELSE UNCHANGED backoffVars
    /\ Return
    /\ UNCHANGED <<inTimer, conn, jobs, listeners, stay, inLoop, listening, asked,
                   ended, answered, losses>>

ConnectFails ==
    /\ pc = "connect"
    /\ IF backoff # "none" THEN SetStillFailing
       ELSE IF stay \/ jobs # << >> THEN NewBackoffTimer
       ELSE UNCHANGED backoffVars
    /\ Return
    /\ UNCHANGED <<inTimer, conn, jobs, listeners, stay, inLoop, listening, asked,
                   ended, answered, losses>>

\* Every listener's LISTEN goes in front of the queue, in the order of a map,
\* each before the one of the key before it.
ListenJobs == {s \in [1 .. Cardinality(listeners) -> {Job("LISTEN", k) : k \in listeners}] :
                 Elements(Arguments(s)) = listeners}

\* Mutant: a new session does not LISTEN again.
ConnectSucceedsDeaf ==
    /\ pc = "connect"
    /\ conn' = "up"
    /\ IF backoff # "none" THEN DeleteBackoffTimer ELSE UNCHANGED backoffVars
    /\ jobs' = (IF AutoCommit THEN <<Job("AUTOCOMMIT", NoArg)>> ELSE << >>) \o jobs
    /\ pc' = "loop"
    /\ UNCHANGED <<depth, inTimer, listeners, stay, inLoop, listening, asked, ended,
                   answered, losses>>

ConnectSucceeds ==
    /\ pc = "connect"
    /\ conn' = "up"
    /\ IF backoff # "none" THEN DeleteBackoffTimer ELSE UNCHANGED backoffVars
    /\ \E listens \in ListenJobs :
         jobs' = listens
                   \o (IF AutoCommit THEN <<Job("AUTOCOMMIT", NoArg)>> ELSE << >>)
                   \o jobs
    /\ pc' = "loop"
    /\ UNCHANGED <<depth, inTimer, listeners, stay, inLoop, listening, asked, ended,
                   answered, losses>>

\* RunJob calls Connect, which does nothing if there is a connection.
TimerCalls ==
    /\ inTimer' = TRUE
    /\ pc' = IF conn = "none" THEN "connect" ELSE "return"
    /\ UNCHANGED <<depth, conn, jobs, listeners, stay, inLoop, listening, asked,
                   ended, answered, losses>>

BackoffFires ==
    /\ pc = "idle"
    /\ Fire
    /\ TimerCalls

\* The timer of a deleted BackoffTimer calls its RunJob, where the memory still
\* holds what it held.
OrphanFires ==
    /\ pc = "idle"
    /\ FireOrphan
    /\ TimerCalls

TimerReturns ==
    /\ pc = "return"
    /\ IF backoff = "running" THEN RunJobReturns
       ELSE freed' = FALSE /\ UNCHANGED <<backoff, failing, orphans>>
    /\ inTimer' = FALSE
    /\ pc' = "idle"
    /\ UNCHANGED <<depth, conn, jobs, listeners, stay, inLoop, listening, asked,
                   ended, answered, losses>>

\* A callback into, or a second delete of, an object that no longer exists.
UseAfterDelete ==
    /\ \/ pc = "return" /\ freed
       \/ pc = "idle" /\ orphans > 0
    /\ pc' = "dead"
    /\ UNCHANGED <<depth, inTimer, conn, jobs, listeners, stay, inLoop, listening,
                   asked, ended, answered, losses, backoffVars>>

-----------------------------------------------------------------------------
Application ==
    \/ \E q \in Queries : Select(q)
    \/ \E k \in Keys : Listen(k) \/ Unlisten(k)
    \/ \E b \in BOOLEAN : SetStayConnected(b)

Loop ==
    \/ LoopUnconnected \/ LoopConnected \/ LoopLost \/ NothingNotified
    \/ SendHead \/ Answer \/ NoAnswer \/ PopHead \/ CallbackReturns

Connect == ConnectFails \/ ConnectSucceeds

Next ==
    \/ Application \/ Break \/ EventCallback \/ Loop \/ Notified \/ Connect
    \/ BackoffFires \/ OrphanFires \/ TimerReturns \/ UseAfterDelete

Spec == Init /\ [][Next]_vars

\* The thread runs, timers fire and callbacks return; a dead connection is
\* noticed, a server sends so many notifications at once and no more, and one
\* that is tried again and again is reached in the end.
Fairness ==
    /\ WF_vars(Loop)
    /\ SF_vars(NothingNotified)
    /\ WF_vars(Connect)
    /\ SF_vars(ConnectSucceeds)
    /\ WF_vars(BackoffFires)
    /\ WF_vars(TimerReturns)
    /\ WF_vars(EventCallback /\ conn = "broken")

FairSpec == Spec /\ Fairness

-----------------------------------------------------------------------------
(***************************************************************************)
(* Properties.                                                              *)
(***************************************************************************)

\* Every variable keeps its type.
TypeOK ==
    /\ pc \in Points
    /\ depth \in 0 .. MaxDepth
    /\ inTimer \in BOOLEAN
    /\ conn \in {"none", "up", "broken"}
    /\ jobs \in Seq([verb : Verbs, arg : Queries \cup Keys \cup {NoArg}, sent : BOOLEAN])
    /\ listeners \subseteq Keys
    /\ stay \in BOOLEAN
    /\ inLoop \in BOOLEAN
    /\ listening \subseteq Keys
    /\ asked \in Seq(Queries)
    /\ ended \in Seq(Queries)
    /\ answered \subseteq Queries
    /\ losses \in 0 .. MaxLosses
    /\ backoff \in BackoffStates
    /\ failing \in BOOLEAN
    /\ freed \in BOOLEAN
    /\ orphans \in Nat

\* at says where in the queue each of the queries is that have not ended: in that
\* order, and no other query is there.
Places(at, queue, queries) ==
    /\ \A n \in DOMAIN at : queue[at[n]].arg = queries[n]
    /\ \A m, n \in DOMAIN at : m < n => at[m] < at[n]
    /\ \A i \in QueriesIn(queue) : \E n \in DOMAIN at : at[n] = i

InOrder(queue, queries, first) ==
    \E at \in [first .. Len(queries) -> QueriesIn(queue)] : Places(at, queue, queries)

\* Queries end in the order of the Select calls and none gets lost, whatever is
\* pushed in front of them and whoever queues more from a callback: the first of
\* those asked have ended, and the others are the queries in the queue, in the
\* same order (Postgres.cpp:147-153, 240, 273-282).
NothingLostOrReordered ==
    /\ Len(ended) <= Len(asked)
    /\ \A n \in DOMAIN ended : ended[n] = asked[n]
    /\ InOrder(jobs, asked, Len(ended) + 1)

\* Only the job at the head was ever sent, and only while Loop waits for its
\* result: nothing is pushed in front of it, and no query is sent twice or
\* waits for the result of another one (Postgres.cpp:188, 212-217).
OneOutstanding ==
    \A i \in DOMAIN jobs :
        jobs[i].sent <=> i = 1 /\ pc \in {"result", "callback", "done"}

\* Whenever the event loop is on its own, a PostGres that has queries or
\* listeners is connected or has a timer that will connect it.
NeverStranded ==
    pc = "idle" /\ conn = "none" /\ (jobs # << >> \/ listeners # {})
        => backoff = "waiting"

\* Whenever the event loop is on its own and the session lives, every query has
\* been executed and the server notifies us of what we have listeners for,
\* reconnects and Listen and Unlisten calls from callbacks notwithstanding.
ListensInSync ==
    pc = "idle" /\ conn = "up" => jobs = << >> /\ listening = listeners

\* Every query ends, one way or the other.
EveryQueryEnds ==
    \A q \in Queries :
        (q \in Elements(asked)) ~> (pc = "dead" \/ q \in Elements(ended))

-----------------------------------------------------------------------------
\* What the documentation promises and the code does not keep.

\* QueryDone "will get called after either QueryResult or QueryError"
\* (Database.h:75).
DoneMeansAnswered == Elements(ended) \subseteq answered
================================================================================
