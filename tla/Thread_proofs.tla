------------------------------- MODULE Thread_proofs -------------------------------
(***************************************************************************)
(* Theorems about Thread for any number of objects and pthread_t values.    *)
(***************************************************************************)
EXTENDS Thread, TLAPS

\* A thread that lives is the one its object knows, and its owner is neither
\* free to start another one nor to delete the object.
OwnedThread(i) ==
    Lives(i) => /\ tid[object[i]] = i
                /\ owner[object[i]] \notin {"new", "joined", "gone"}

ThreadInv == TypeOK /\ \A i \in Ids : OwnedThread(i)

LEMMA TypeInit == Init => TypeOK
<1> SUFFICES ASSUME Init PROVE TypeOK
  OBVIOUS
<1>1. /\ running \in [Objects -> BOOLEAN] /\ detached \in [Objects -> BOOLEAN]
      /\ locked \in [Objects -> BOOLEAN] /\ stopped \in [Objects -> BOOLEAN]
      /\ joinable \in [Ids -> BOOLEAN] /\ cancelled \in [Ids -> BOOLEAN]
      /\ killed \in BOOLEAN
  BY Zenon DEF Init
<1>2. QED
  BY <1>1 DEF Init, TypeOK

\* What the steps of an owner and of a thread keep.
LEMMA TypeOwner ==
    ASSUME TypeOK, NEW o \in Objects,
           \/ StartCreate(o) \/ StartMark(o) \/ StartLock(o) \/ Stop(o)
           \/ JoinCall(o) \/ JoinReturns(o) \/ Detach(o) \/ Delete(o)
    PROVE  TypeOK'
<1> USE ObjectsAssumption, IdsAssumption DEF Owner
<1>1. CASE StartCreate(o)
  BY <1>1 DEF StartCreate, TypeOK
<1>2. CASE StartMark(o)
  BY <1>2 DEF StartMark, TypeOK, systemVars
<1>3. CASE StartLock(o)
  BY <1>3 DEF StartLock, TypeOK, systemVars
<1>4. CASE Stop(o)
  BY <1>4 DEF Stop, TypeOK, systemVars
<1>5. CASE JoinCall(o)
  BY <1>5 DEF JoinCall, TypeOK, systemVars
<1>6. CASE JoinReturns(o)
  BY <1>6 DEF JoinReturns, TypeOK
<1>7. CASE Detach(o)
  BY <1>7 DEF Detach, SystemDetach, TypeOK
<1>8. CASE Delete(o)
  BY <1>8 DEF Delete, TypeOK
<1>9. QED
  BY <1>1, <1>2, <1>3, <1>4, <1>5, <1>6, <1>7, <1>8

LEMMA TypeThread ==
    ASSUME TypeOK, NEW i \in Ids,
           Register(i) \/ RunStopped(i) \/ RunReturns(i) \/ RunCancelled(i) \/ Unregister(i)
    PROVE  TypeOK'
<1> USE ObjectsAssumption, IdsAssumption DEF objectVars
<1>1. CASE Register(i)
  BY <1>1 DEF Register, TypeOK
<1>2. CASE RunStopped(i)
  BY <1>2 DEF RunStopped, TypeOK
<1>3. CASE RunReturns(i)
  BY <1>3 DEF RunReturns, TypeOK
<1>4. CASE RunCancelled(i)
  BY <1>4 DEF RunCancelled, Ended, TypeOK
<1>5. CASE Unregister(i)
  BY <1>5 DEF Unregister, Ended, TypeOK
<1>6. QED
  BY <1>1, <1>2, <1>3, <1>4, <1>5

LEMMA TypeNext == TypeOK /\ [Next]_vars => TypeOK'
<1> SUFFICES ASSUME TypeOK, [Next]_vars PROVE TypeOK'
  OBVIOUS
<1>1. CASE UNCHANGED vars
  BY <1>1 DEF vars, TypeOK
<1>2. QED
  BY <1>1, TypeOwner, TypeThread DEF Next, OwnerNext, ThreadNext

\* The type invariant; in particular a started object has a pthread_t.
THEOREM ThreadTypes == Spec => []TypeOK
BY TypeInit, TypeNext, PTL DEF Spec

-----------------------------------------------------------------------------
LEMMA OwnedInit == Init => ThreadInv
BY TypeInit DEF Init, ThreadInv, OwnedThread, Lives

\* A step that lets no thread come to life, and moves no owner of a living one
\* to where it may start or delete the object, keeps what OwnedThread says.
LEMMA OwnedKept ==
    ASSUME NEW i \in Ids, OwnedThread(i), Lives(i)' => Lives(i),
           object'[i] = object[i], tid'[object[i]] = tid[object[i]],
           Lives(i) => owner'[object[i]] \notin {"new", "joined", "gone"}
    PROVE  OwnedThread(i)'
BY DEF OwnedThread, Lives

LEMMA OwnedNext == ThreadInv /\ [Next]_vars => ThreadInv'
<1> SUFFICES ASSUME ThreadInv, [Next]_vars PROVE ThreadInv'
  OBVIOUS
<1>0. TypeOK /\ TypeOK'
  BY TypeNext DEF ThreadInv
<1> SUFFICES ASSUME NEW i \in Ids PROVE OwnedThread(i)'
  BY <1>0 DEF ThreadInv
<1>a. \A j \in Ids : OwnedThread(j)
  BY DEF ThreadInv
<1>b. Lives(i) => object[i] \in Objects
  BY <1>0 DEF TypeOK, Lives
<1>1. ASSUME NEW o \in Objects, StartCreate(o) PROVE OwnedThread(i)'
  <2>1. PICK j \in Ids : /\ thread[j] = "none"
                         /\ tid' = [tid EXCEPT ![o] = j]
                         /\ thread' = [thread EXCEPT ![j] = "start"]
                         /\ object' = [object EXCEPT ![j] = o]
    BY <1>1 DEF StartCreate
  <2>2. owner' = [owner EXCEPT ![o] = "created"] /\ owner[o] \in {"new", "joined"}
    BY <1>1 DEF StartCreate, Owner
  <2>3. CASE i = j
    BY <1>0, <2>1, <2>2, <2>3 DEF OwnedThread, Lives, TypeOK
  <2>4. CASE i # j
    <3>1. Lives(i) => object[i] # o
      BY <1>a, <2>2 DEF OwnedThread
    <3>2. object'[i] = object[i] /\ (Lives(i)' <=> Lives(i))
      BY <1>0, <2>1, <2>4 DEF Lives, TypeOK
    <3>3. QED
      BY <1>0, <1>a, <1>b, <2>1, <2>2, <3>1, <3>2 DEF OwnedThread, TypeOK
  <2>5. QED
    BY <2>3, <2>4
<1>2. ASSUME NEW o \in Objects, StartMark(o) \/ StartLock(o) \/ Stop(o) \/ JoinCall(o)
      PROVE  OwnedThread(i)'
  <2>1. thread' = thread /\ object' = object /\ tid' = tid
    BY <1>2 DEF StartMark, StartLock, Stop, JoinCall, systemVars
  <2>2. \/ owner' = owner
        \/ \E p \in {"lock", "started", "joining"} : owner' = [owner EXCEPT ![o] = p]
    BY <1>2 DEF StartMark, StartLock, Stop, JoinCall, Owner
  <2>3. QED
    BY <1>0, <1>a, <1>b, <2>1, <2>2 DEF OwnedThread, Lives, TypeOK
<1>3. ASSUME NEW o \in Objects, JoinReturns(o) PROVE OwnedThread(i)'
  <2>1. /\ thread[tid[o]] = "ended" /\ owner' = [owner EXCEPT ![o] = "joined"]
        /\ tid' = tid /\ object' = object
        /\ thread' = [thread EXCEPT ![tid[o]] = "none"]
    BY <1>3 DEF JoinReturns, Owner
  <2>2. Lives(i)' => Lives(i)
    BY <1>0, <2>1 DEF Lives, TypeOK
  <2>3. Lives(i) => object[i] # o
    BY <1>a, <2>1 DEF OwnedThread, Lives
  <2>4. QED
    BY <1>0, <1>a, <1>b, <2>1, <2>2, <2>3 DEF OwnedThread, TypeOK
<1>4. ASSUME NEW o \in Objects, Detach(o) PROVE OwnedThread(i)'
  <2>1. /\ owner' = [owner EXCEPT ![o] = "detached"] /\ tid' = tid /\ object' = object
        /\ thread' = [thread EXCEPT ![tid[o]] = IF @ = "ended" THEN "none" ELSE @]
    BY <1>4 DEF Detach, SystemDetach, Owner
  <2>2. Lives(i)' => Lives(i)
    BY <1>0, <2>1 DEF Lives, TypeOK
  <2>3. QED
    BY <1>0, <1>a, <1>b, <2>1, <2>2 DEF OwnedThread, TypeOK
<1>5. ASSUME NEW o \in Objects, Delete(o) PROVE OwnedThread(i)'
  <2>1. /\ owner[o] \in {"new", "joined"} /\ owner' = [owner EXCEPT ![o] = "gone"]
        /\ tid' = tid /\ object' = object /\ thread' = thread
    BY <1>5 DEF Delete, Owner
  <2>2. Lives(i) => object[i] # o
    BY <1>a, <2>1 DEF OwnedThread
  <2>3. QED
    BY <1>0, <1>a, <1>b, <2>1, <2>2 DEF OwnedThread, Lives, TypeOK
<1>6. ASSUME NEW j \in Ids,
             Register(j) \/ RunStopped(j) \/ RunReturns(j) \/ RunCancelled(j) \/ Unregister(j)
      PROVE  OwnedThread(i)'
  <2>1. owner' = owner /\ tid' = tid /\ object' = object
    BY <1>6 DEF Register, RunStopped, RunReturns, RunCancelled, Unregister, objectVars
  <2>2. Lives(j) /\ \E s : thread' = [thread EXCEPT ![j] = s]
    BY <1>6 DEF Register, RunStopped, RunReturns, RunCancelled, Unregister, Ended, Lives
  <2>3. Lives(i)' => Lives(i)
    BY <1>0, <2>2 DEF Lives, TypeOK
  <2>4. QED
    BY <1>a, <2>1, <2>3 DEF OwnedThread
<1>7. CASE UNCHANGED vars
  BY <1>7, <1>a DEF vars, OwnedThread, Lives
<1>8. QED
  BY <1>1, <1>2, <1>3, <1>4, <1>5, <1>6, <1>7 DEF Next, OwnerNext, ThreadNext

\* However often it is started and joined, an object never has two threads, and
\* it knows the pthread_t of the one it has, although these values come back and
\* destructors cancel threads they do not own.
THEOREM NeverTwoThreads == Spec => []OneThreadPerObject
<1>1. ThreadInv => OneThreadPerObject
  BY DEF ThreadInv, OwnedThread, OneThreadPerObject
<1>2. QED
  BY <1>1, OwnedInit, OwnedNext, PTL DEF Spec

-----------------------------------------------------------------------------
LEMMA RegistryNext == ThreadInv /\ RegistryExact /\ [Next]_vars => RegistryExact'
<1> SUFFICES ASSUME ThreadInv, RegistryExact, [Next]_vars PROVE RegistryExact'
  OBVIOUS
<1> USE ObjectsAssumption, IdsAssumption
<1>1. TypeOK /\ \A i \in Ids : Lives(i) => tid[object[i]] = i
  BY DEF ThreadInv, OwnedThread
<1>2. ASSUME NEW o \in Objects, StartCreate(o) PROVE RegistryExact'
  BY <1>1, <1>2 DEF StartCreate, RegistryExact, TypeOK
<1>3. ASSUME NEW o \in Objects, StartMark(o) \/ StartLock(o) \/ Stop(o) \/ JoinCall(o) \/ Delete(o)
      PROVE  RegistryExact'
  BY <1>3 DEF StartMark, StartLock, Stop, JoinCall, Delete, systemVars, RegistryExact
<1>4. ASSUME NEW o \in Objects, JoinReturns(o) PROVE RegistryExact'
  <2>1. /\ thread[tid[o]] = "ended" /\ thread' = [thread EXCEPT ![tid[o]] = "none"]
        /\ UNCHANGED <<object, threads, killed>>
    BY <1>4 DEF JoinReturns
  <2>2. QED
    BY <1>1, <2>1 DEF RegistryExact, TypeOK
<1>5. ASSUME NEW o \in Objects, Detach(o) PROVE RegistryExact'
  <2>1. /\ thread' = [thread EXCEPT ![tid[o]] = IF @ = "ended" THEN "none" ELSE @]
        /\ UNCHANGED <<object, threads, killed>>
    BY <1>5 DEF Detach, SystemDetach
  <2>2. QED
    BY <1>1, <2>1 DEF RegistryExact, TypeOK
<1>6. ASSUME NEW i \in Ids, Register(i) PROVE RegistryExact'
  <2>1. tid[object[i]] = i
    BY <1>1, <1>6 DEF Register, Lives
  <2>2. QED
    BY <1>1, <1>6, <2>1 DEF Register, objectVars, RegistryExact, TypeOK
<1>7. ASSUME NEW i \in Ids, RunStopped(i) \/ RunReturns(i) \/ RunCancelled(i) PROVE RegistryExact'
  BY <1>1, <1>7 DEF RunStopped, RunReturns, RunCancelled, objectVars, RegistryExact, TypeOK
<1>8. ASSUME NEW i \in Ids, Unregister(i) PROVE RegistryExact'
  <2>1. tid[object[i]] = i
    BY <1>1, <1>8 DEF Unregister, Lives
  <2>2. QED
    BY <1>1, <1>8, <2>1 DEF Unregister, Ended, objectVars, RegistryExact, TypeOK
<1>9. CASE UNCHANGED vars
  BY <1>9 DEF vars, RegistryExact
<1>10. QED
  BY <1>2, <1>3, <1>4, <1>5, <1>6, <1>7, <1>8, <1>9 DEF Next, OwnerNext, ThreadNext

\* While no destructor has cancelled another object's thread, the registry
\* names no thread that is over and no other object than the thread's own, for
\* any reuse of pthread_t values and any order of Start and registerThread.
THEOREM RegistryAlwaysExact == Spec => []RegistryExact
<1>1. Init => RegistryExact
  BY DEF Init, RegistryExact
<1>2. ThreadInv /\ ThreadInv' /\ RegistryExact /\ [Next]_vars => RegistryExact'
  BY RegistryNext
<1>3. QED
  BY <1>1, <1>2, OwnedInit, OwnedNext, PTL DEF Spec
================================================================================
