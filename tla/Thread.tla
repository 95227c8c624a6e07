--------------------------------- MODULE Thread ---------------------------------
(***************************************************************************)
(* Thread and ThreadManager (Thread.h, Thread.cpp): Thread objects, each    *)
(* used by one owner; the threads of the system they start, known by their  *)
(* pthread_t, which the system gives to a new thread once the old one is    *)
(* gone; and the registry that finds the Thread of the current pthread_t.   *)
(* run() asks shouldContinue() again and again, or returns when it is done. *)
(* What run() returns is left out, and so are failing system calls.         *)
(***************************************************************************)
EXTENDS Naturals, FiniteSets

CONSTANTS
    Objects,    \* Thread objects, constructed
    NoObject,
    Ids,        \* values of pthread_t
    NoId        \* 0: Start was never called

ASSUME ObjectsAssumption == NoObject \notin Objects
ASSUME IdsAssumption == NoId \notin Ids

VARIABLES
    owner,      \* what the owner of each object does or did last
    tid,        \* _tid
    running,    \* _running
    detached,   \* _detached
    locked,     \* _mutex is locked: the thread should continue
    thread,     \* what the thread with each pthread_t does
    object,     \* the argument of its runThread
    joinable,   \* nobody has joined or detached it
    cancelled,  \* pthread_cancel was called on it
    threads,    \* ThreadManager::_threads, NoObject where there is no entry
    stopped,    \* history: Stop was called since the last Start
    killed      \* history: a thread ended by pthread_cancel

vars == <<owner, tid, running, detached, locked, thread, object, joinable,
          cancelled, threads, stopped, killed>>

objectVars == <<owner, tid, running, detached, locked, stopped>>
systemVars == <<thread, object, joinable, cancelled, killed>>

Init ==
    /\ owner = [o \in Objects |-> "new"]
    /\ tid = [o \in Objects |-> NoId]
    /\ running = [o \in Objects |-> FALSE]
    /\ detached = [o \in Objects |-> FALSE]
    /\ locked = [o \in Objects |-> FALSE]
    /\ thread = [i \in Ids |-> "none"]
    /\ object = [i \in Ids |-> NoObject]
    /\ joinable = [i \in Ids |-> FALSE]
    /\ cancelled = [i \in Ids |-> FALSE]
    /\ threads = [i \in Ids |-> NoObject]
    /\ stopped = [o \in Objects |-> FALSE]
    /\ killed = FALSE

Owner(o, point) == owner' = [owner EXCEPT ![o] = point]

-----------------------------------------------------------------------------
\* The owner's calls.

\* pthread_create.  A Thread is started once, or again after a Join.
StartCreate(o) ==
    /\ owner[o] \in {"new", "joined"}
    /\ \E i \in Ids :
         /\ thread[i] = "none"
         /\ tid' = [tid EXCEPT ![o] = i]
         /\ thread' = [thread EXCEPT ![i] = "start"]
         /\ object' = [object EXCEPT ![i] = o]
         /\ joinable' = [joinable EXCEPT ![i] = TRUE]
         /\ cancelled' = [cancelled EXCEPT ![i] = FALSE]
    /\ stopped' = [stopped EXCEPT ![o] = FALSE]
    /\ Owner(o, "created")
    /\ UNCHANGED <<running, detached, locked, threads, killed>>

\* Mutant: Start does not set _running.
StartMarkNot(o) ==
    /\ owner[o] = "created"
    /\ Owner(o, "lock")
    /\ UNCHANGED <<tid, running, detached, locked, systemVars, threads, stopped>>

StartMark(o) ==
    /\ owner[o] = "created"
    /\ running' = [running EXCEPT ![o] = TRUE]
    /\ Owner(o, "lock")
    /\ UNCHANGED <<tid, detached, locked, systemVars, threads, stopped>>

StartLock(o) ==
    /\ owner[o] = "lock"
    /\ ~locked[o]
    /\ locked' = [locked EXCEPT ![o] = TRUE]
    /\ Owner(o, "started")
    /\ UNCHANGED <<tid, running, detached, systemVars, threads, stopped>>

CanStop(o) == owner[o] \in {"started", "joined", "detached"}

\* Mutant: Stop tells a thread only as long as the flag says it is joinable.
StopUndetached(o) ==
    /\ CanStop(o)
    /\ locked' = IF detached[o] THEN locked ELSE [locked EXCEPT ![o] = FALSE]
    /\ stopped' = [stopped EXCEPT ![o] = TRUE]
    /\ UNCHANGED <<owner, tid, running, detached, systemVars, threads>>

Stop(o) ==
    /\ CanStop(o)
    /\ locked' = [locked EXCEPT ![o] = FALSE]
    /\ stopped' = [stopped EXCEPT ![o] = TRUE]
    /\ UNCHANGED <<owner, tid, running, detached, systemVars, threads>>

\* POSIX lets a thread be joined once, and not once it is detached.
JoinCall(o) ==
    /\ owner[o] = "started"
    /\ Owner(o, "joining")
    /\ UNCHANGED <<tid, running, detached, locked, systemVars, threads, stopped>>

\* Mutant: pthread_join's result is not looked at.
JoinReturnsAnyhow(o) ==
    /\ owner[o] = "joining"
    /\ thread' = [thread EXCEPT ![tid[o]] = IF @ = "ended" THEN "none" ELSE @]
    /\ joinable' = [joinable EXCEPT ![tid[o]] = FALSE]
    /\ detached' = [detached EXCEPT ![o] = TRUE]
    /\ Owner(o, "joined")
    /\ UNCHANGED <<tid, running, locked, object, cancelled, threads, stopped, killed>>

\* pthread_join waits for the end of the thread and frees its pthread_t.
JoinReturns(o) ==
    /\ owner[o] = "joining"
    /\ thread[tid[o]] = "ended"
    /\ thread' = [thread EXCEPT ![tid[o]] = "none"]
    /\ joinable' = [joinable EXCEPT ![tid[o]] = FALSE]
    /\ detached' = [detached EXCEPT ![o] = TRUE]
    /\ Owner(o, "joined")
    /\ UNCHANGED <<tid, running, locked, object, cancelled, threads, stopped, killed>>

\* pthread_detach: the pthread_t is free when the thread ends, or at once.
SystemDetach(i) ==
    /\ joinable' = [joinable EXCEPT ![i] = FALSE]
    /\ thread' = [thread EXCEPT ![i] = IF @ = "ended" THEN "none" ELSE @]

\* _detached stays set when a joined object is started again: Detach is
\* then refused.
Detach(o) ==
    /\ owner[o] = "started"
    /\ ~detached[o]
    /\ SystemDetach(tid[o])
    /\ detached' = [detached EXCEPT ![o] = TRUE]
    /\ Owner(o, "detached")
    /\ UNCHANGED <<tid, running, locked, object, cancelled, threads, stopped, killed>>

\* ~Thread of an object that was never started, or was joined.  _running still
\* says 1 after a Join, so ~Thread cancels _tid, whosever it is by now.
Delete(o) ==
    /\ owner[o] \in {"new", "joined"}
    /\ locked' = [locked EXCEPT ![o] = FALSE]
    /\ cancelled' = IF running[o] THEN [cancelled EXCEPT ![tid[o]] = TRUE]
                                  ELSE cancelled
    /\ Owner(o, "gone")
    /\ UNCHANGED <<tid, running, detached, thread, object, joinable, threads,
                   stopped, killed>>

-----------------------------------------------------------------------------
\* The thread: runThread and run.

\* registerThread asks the object for its pthread_t and whether it runs, which
\* Start may not have said yet; the map keeps an entry it has.
Register(i) ==
    /\ thread[i] = "start"
    /\ LET o == object[i] IN
         threads' = IF running[o] /\ threads[tid[o]] = NoObject
                    THEN [threads EXCEPT ![tid[o]] = o]
                    ELSE threads
    /\ thread' = [thread EXCEPT ![i] = "run"]
    /\ UNCHANGED <<objectVars, object, joinable, cancelled, killed>>

\* shouldContinue() says no, or the work is done.
RunStopped(i) ==
    /\ thread[i] = "run"
    /\ ~locked[object[i]]
    /\ thread' = [thread EXCEPT ![i] = "unregister"]
    /\ UNCHANGED <<objectVars, object, joinable, cancelled, killed, threads>>

RunReturns(i) ==
    /\ thread[i] = "run"
    /\ thread' = [thread EXCEPT ![i] = "unregister"]
    /\ UNCHANGED <<objectVars, object, joinable, cancelled, killed, threads>>

\* The thread is over: only a joinable one keeps its pthread_t.
Ended(i) == [thread EXCEPT ![i] = IF joinable[i] THEN "ended" ELSE "none"]

\* A cancelled thread ends at the next cancellation point in run().
RunCancelled(i) ==
    /\ thread[i] = "run"
    /\ cancelled[i]
    /\ thread' = Ended(i)
    /\ killed' = TRUE
    /\ UNCHANGED <<objectVars, object, joinable, cancelled, threads>>

\* Mutant: unregisterThread is forgotten.
UnregisterNot(i) ==
    /\ thread[i] = "unregister"
    /\ thread' = Ended(i)
    /\ UNCHANGED <<objectVars, object, joinable, cancelled, killed, threads>>

Unregister(i) ==
    /\ thread[i] = "unregister"
    /\ threads' = [threads EXCEPT ![tid[object[i]]] = NoObject]
    /\ thread' = Ended(i)
    /\ UNCHANGED <<objectVars, object, joinable, cancelled, killed>>

-----------------------------------------------------------------------------
OwnerNext ==
    \E o \in Objects :
        \/ StartCreate(o) \/ StartMark(o) \/ StartLock(o) \/ Stop(o)
        \/ JoinCall(o) \/ JoinReturns(o) \/ Detach(o) \/ Delete(o)

ThreadNext ==
    \E i \in Ids :
        \/ Register(i) \/ RunStopped(i) \/ RunReturns(i) \/ RunCancelled(i)
        \/ Unregister(i)

Next == OwnerNext \/ ThreadNext

Spec == Init /\ [][Next]_vars

\* Every thread runs and asks shouldContinue() again and again.
Fairness ==
    /\ \A o \in Objects : WF_vars(StartMark(o)) /\ WF_vars(StartLock(o))
                          /\ WF_vars(JoinReturns(o))
    /\ \A i \in Ids : WF_vars(Register(i)) /\ WF_vars(RunStopped(i))
                      /\ WF_vars(Unregister(i))

FairSpec == Spec /\ Fairness

-----------------------------------------------------------------------------
(***************************************************************************)
(* Properties.                                                              *)
(***************************************************************************)

\* Every variable keeps its type, and a started object has a
\* tid and is marked as running.
TypeOK ==
    /\ owner \in [Objects -> {"new", "created", "lock", "started", "joining", "joined",
                           "detached", "gone"}]
    /\ tid \in [Objects -> Ids \cup {NoId}]
    /\ running \in [Objects -> BOOLEAN]
    /\ detached \in [Objects -> BOOLEAN]
    /\ locked \in [Objects -> BOOLEAN]
    /\ thread \in [Ids -> {"none", "start", "run", "unregister", "ended"}]
    /\ object \in [Ids -> Objects \cup {NoObject}]
    /\ joinable \in [Ids -> BOOLEAN]
    /\ cancelled \in [Ids -> BOOLEAN]
    /\ threads \in [Ids -> Objects \cup {NoObject}]
    /\ stopped \in [Objects -> BOOLEAN]
    /\ killed \in BOOLEAN
    /\ \A o \in Objects :
         /\ owner[o] \notin {"new", "gone"} => tid[o] # NoId
         /\ owner[o] \notin {"new", "created", "gone"} => running[o]
    /\ \A i \in Ids : thread[i] # "none" => object[i] # NoObject

Lives(i) == thread[i] \in {"start", "run", "unregister"}

\* An object that is joined before it is started again never has two threads,
\* and the one it has is the one it knows the pthread_t of.
OneThreadPerObject ==
    \A i \in Ids : Lives(i) => tid[object[i]] = i

\* Whatever getCurrentThread returns is the Thread of the thread that asks, and
\* the registry has no entry for a thread that is over, although registerThread
\* may find the object not yet running and pthread_t values come back: as long
\* as no destructor has cancelled another object's thread.
RegistryExact ==
    ~killed => \A i \in Ids : threads[i] # NoObject =>
        thread[i] \in {"run", "unregister"} /\ threads[i] = object[i]

\* Stop ends a thread that asks shouldContinue(), so that a Join returns, also
\* when the object is started a second time with flags that say it is detached.
StoppedIsJoined ==
    \A o \in Objects :
        (stopped[o] /\ owner[o] = "joining") ~> (owner[o] # "joining")

-----------------------------------------------------------------------------
\* What the documentation promises and the code does not keep.

\* getCurrentThread returns "The Thread* object of this current thread, NULL on
\* error (main thread)" (Thread.h:184).
CurrentThreadIsRight ==
    \A i \in Ids : thread[i] = "run" => threads[i] \in {object[i], NoObject}
================================================================================
