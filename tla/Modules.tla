-------------------------------- MODULE Modules --------------------------------
(***************************************************************************)
(* Modules and what they own: Global and SubModuleLoader load modules by    *)
(* path and unload them by name; a module deletes the events registered     *)
(* with it (timers, sockets, listeners, lookups) when it is deleted; a      *)
(* ModuleThread catches the crash of its module and has the main loop       *)
(* unload it.  dlopen, libevent's DNS client and the kernel's signals are   *)
(* external.  A use of freed memory ends the process, "undefined".         *)
(***************************************************************************)
EXTENDS Naturals, FiniteSets, SequencesExt

CONSTANTS
    MaxModules,  \* the modules ever loaded (bound)
    MaxEvents,   \* the events ever made (bound)
    MaxMade,     \* and both together (bound)
    Global,      \* the Global, the loader at the root
    Nobody,
    Paths,       \* the shared libraries,
    Suffixed,    \* those whose file name has an extension,
    ModName,     \* the file name of each without it,
    Threaded,    \* those whose module wants a thread,
    OnCrash,     \* and what its constructor asks for: "die", "unload" or "reload"
    Loading,     \* those whose module has a SubModuleLoader
    Signals      \* the signals that run handles: SIGABRT, SIGSEGV ...

Module == 1 .. MaxModules
Event == 1 .. MaxEvents
Loader == Module \cup {Global}

ASSUME ModulesAssumption ==
    /\ MaxModules \in Nat /\ MaxEvents \in Nat /\ MaxMade \in Nat
    /\ Global \notin Module /\ Nobody \notin Module
    /\ Suffixed \subseteq Paths /\ Threaded \subseteq Paths /\ Loading \subseteq Paths
    /\ Nobody \notin Paths
    /\ OnCrash \in [Paths -> {"die", "unload", "reload"}]

VARIABLES
    life,      \* of each module: "unborn", "loaded" or "deleted"
    path,      \* where it was loaded from
    loader,    \* and by which loader
    modules,   \* modules of each loader
    events,    \* events of each module
    kind,      \* of each event: "unborn", "gone", "timer", "socket", "listener" or "lookup"
    owner,     \* its module, or Nobody for NULL
    maker,     \* and the module whose code it runs
    request,   \* what libevent is at with a lookup: "none", "asked", "answered", "cancelled"
    handle,    \* the module that an InterModuleData points to, or Nobody
    thread,    \* the thread of each module: "none", "starting", "running", "ended", or
               \* "cancelled": told to end, and still running
    armed,     \* the signals of which CrashHandler is the handler
    crashes,   \* the messages in the OnCrashPipe
    reloading, \* the path that OnRead is about to load again, or Nobody
    process    \* "up", "killed" or "undefined"

loaders == <<life, path, loader, modules>>
registry == <<events, kind, owner, maker>>
signals == <<armed, crashes, reloading>>
vars == <<life, path, loader, modules, events, kind, owner, maker, request, handle, thread,
          armed, crashes, reloading, process>>

Init ==
    /\ life = [i \in Module |-> "unborn"]
    /\ path = [i \in Module |-> Nobody]
    /\ loader = [i \in Module |-> Nobody]
    /\ modules = [l \in Loader |-> <<>>]
    /\ events = [i \in Module |-> {}]
    /\ kind = [e \in Event |-> "unborn"]
    /\ owner = [e \in Event |-> Nobody]
    /\ maker = [e \in Event |-> Nobody]
    /\ request = [e \in Event |-> "none"]
    /\ handle = Nobody
    /\ thread = [i \in Module |-> "none"]
    /\ armed = {}
    /\ crashes = <<>>
    /\ reloading = Nobody
    /\ process = "up"

\* The process ends, or nobody can say what it does: nothing is left of its modules.
Gone(how) ==
    /\ life' = [i \in Module |-> "unborn"]
    /\ path' = [i \in Module |-> Nobody]
    /\ loader' = [i \in Module |-> Nobody]
    /\ modules' = [l \in Loader |-> <<>>]
    /\ events' = [i \in Module |-> {}]
    /\ kind' = [e \in Event |-> "unborn"]
    /\ owner' = [e \in Event |-> Nobody]
    /\ maker' = [e \in Event |-> Nobody]
    /\ request' = [e \in Event |-> "none"]
    /\ handle' = Nobody
    /\ thread' = [i \in Module |-> "none"]
    /\ armed' = {}
    /\ crashes' = <<>>
    /\ reloading' = Nobody
    /\ process' = how

Room ==
    Cardinality({i \in Module : life[i] # "unborn"})
      + Cardinality({e \in Event : kind[e] # "unborn"}) < MaxMade

Live(e) == kind[e] \notin {"unborn", "gone"}

\* The main thread is in no callback of its own.
MainIdle == process = "up" /\ reloading = Nobody

--------------------------------------------------------------------------------
(* Loading *)

\* The places in a loader's vector where a module has the name.
Named(l, name) == {k \in DOMAIN modules[l] : ModName[path[modules[l][k]]] = name}

\* LoadModule compares the names of its modules with the file name, extension and
\* all.
AlreadyLoaded(l, p) == p \notin Suffixed /\ Named(l, ModName[p]) # {}

\* Module::Module, push_back, and the module's own thread if it wants one.  The
\* ModuleThread is registered with the module as well, and deleted first by
\* ~Module and by nobody else; thread stands for it, and events for the others.
Instantiate(l, p, i) ==
    /\ Room /\ life[i] = "unborn" /\ \A j \in 1 .. i - 1 : life[j] # "unborn"
    /\ life' = [life EXCEPT ![i] = "loaded"]
    /\ path' = [path EXCEPT ![i] = p]
    /\ loader' = [loader EXCEPT ![i] = l]
    /\ modules' = [modules EXCEPT ![l] = Append(@, i)]
    /\ thread' = [thread EXCEPT ![i] = IF p \in Threaded THEN "starting" ELSE "none"]
    /\ UNCHANGED <<registry, request, handle, process>>

\* A path that is already loaded or that dlopen refuses changes nothing.
GlobalLoadModule(p) ==
    /\ MainIdle /\ ~AlreadyLoaded(Global, p)
    /\ \E i \in Module : Instantiate(Global, p, i)
    /\ UNCHANGED signals

\* One that validateModule refuses is deleted again.
SubModuleLoad(l, p) ==
    /\ MainIdle /\ life[l] = "loaded" /\ path[l] \in Loading /\ ~AlreadyLoaded(l, p)
    /\ \E i \in Module : Instantiate(l, p, i)
    /\ UNCHANGED signals

--------------------------------------------------------------------------------
(* Unloading *)

\* Mutant: ~SubModuleLoader leaves its modules alone.
DoomedAlone(i) == {i}

\* The modules that go with i: the destructor of a module deletes its
\* SubModuleLoader, which unloads its modules, to any depth.
Doomed(i) ==
    {j \in Module :
        \A D \in SUBSET Module :
            i \in D /\ (\A l \in D : Range(modules[l]) \subseteq D) => j \in D}

\* Libevent tells a cancelled lookup of it by its callback, later.
Cancelled(E) == [e \in Event |-> IF e \in E /\ request[e] = "asked" THEN "cancelled" ELSE request[e]]

\* while (events.empty() == false) delete *events.begin();
DeleteEvents(G) ==
    LET E == UNION {events[i] : i \in G}
    IN /\ kind' = [e \in Event |-> IF e \in E THEN "gone" ELSE kind[e]]
       /\ request' = Cancelled(E)
       /\ events' = [i \in Module |-> IF i \in G THEN {} ELSE events[i]]
       /\ owner' = [e \in Event |-> IF e \in E THEN Nobody ELSE owner[e]]
       /\ maker' = [e \in Event |-> IF e \in E THEN Nobody ELSE maker[e]]

\* A thread is told to stop and cancelled, and nobody waits for it to end.
CancelThreads(G) ==
    thread' = [i \in Module |-> IF i \in G /\ thread[i] \in {"starting", "running"}
                                THEN "cancelled" ELSE thread[i]]

\* The first module of that name is deleted, with all it has.
Unload(l, name) ==
    \E k \in Named(l, name) :
        /\ \A j \in Named(l, name) : k <= j
        /\ \E G \in {Doomed(modules[l][k])} :
              /\ life' = [i \in Module |-> IF i \in G THEN "deleted" ELSE life[i]]
              /\ path' = [i \in Module |-> IF i \in G THEN Nobody ELSE path[i]]
              /\ loader' = [i \in Module |-> IF i \in G THEN Nobody ELSE loader[i]]
              /\ modules' = [m \in Loader |-> IF m \in G THEN <<>>
                                              ELSE IF m = l THEN RemoveAt(modules[l], k)
                                              ELSE modules[m]]
              /\ DeleteEvents(G)
              /\ CancelThreads(G)
        /\ UNCHANGED <<handle, armed, process>>

GlobalUnloadModule(name) ==
    /\ MainIdle
    /\ Unload(Global, name)
    /\ UNCHANGED <<crashes, reloading>>

SubModuleUnload(l, name) ==
    /\ MainIdle /\ life[l] = "loaded"
    /\ Unload(l, name)
    /\ UNCHANGED <<crashes, reloading>>

\* ModuleInternalApiCall hands out a pointer to the module, which the InterModuleData
\* uses when it is destroyed.
ModuleInternalApiCall(i) ==
    /\ MainIdle /\ life[i] = "loaded" /\ loader[i] = Global
    /\ handle = Nobody /\ handle' = i
    /\ UNCHANGED <<loaders, registry, request, thread, signals, process>>

CleanUpInterData ==
    /\ MainIdle /\ handle # Nobody
    /\ IF life[handle] = "loaded"
       THEN /\ handle' = Nobody
            /\ UNCHANGED <<loaders, registry, request, thread, signals, process>>
       ELSE Gone("undefined")

--------------------------------------------------------------------------------
(* Events *)

\* The constructors of Event: one that has a module is registered with it.
Create(e, k, i, m) ==
    /\ Room /\ kind[e] = "unborn" /\ \A f \in 1 .. e - 1 : kind[f] # "unborn"
    /\ kind' = [kind EXCEPT ![e] = k]
    /\ owner' = [owner EXCEPT ![e] = i]
    /\ maker' = [maker EXCEPT ![e] = m]
    /\ events' = IF i = Nobody THEN events ELSE [events EXCEPT ![i] = @ \cup {e}]
    /\ request' = [request EXCEPT ![e] = IF k = "lookup" THEN "asked" ELSE "none"]
    /\ UNCHANGED <<loaders, handle, thread, signals, process>>

\* OnLoaded and what follows from it makes events of the module.
NewEvent(i, k) ==
    /\ MainIdle /\ life[i] = "loaded" /\ thread[i] \in {"none", "running"}
    /\ \E e \in Event : Create(e, k, i, i)

\* Mutant: the event stays registered with its module.
DestroyUnregistered(e) ==
    /\ kind' = [kind EXCEPT ![e] = "gone"]
    /\ owner' = [owner EXCEPT ![e] = Nobody]
    /\ maker' = [maker EXCEPT ![e] = Nobody]
    /\ UNCHANGED events

\* The destructor of Event.
Destroy(e) ==
    /\ kind' = [kind EXCEPT ![e] = "gone"]
    /\ events' = IF owner[e] = Nobody THEN events
                 ELSE [events EXCEPT ![owner[e]] = @ \ {e}]
    /\ owner' = [owner EXCEPT ![e] = Nobody]
    /\ maker' = [maker EXCEPT ![e] = Nobody]

DeleteEvent(e) ==
    /\ MainIdle /\ Live(e)
    /\ life[maker[e]] = "loaded"
    /\ Destroy(e)
    /\ request' = Cancelled({e})
    /\ UNCHANGED <<loaders, handle, thread, signals, process>>

\* listener_cb: createSocket can only make a socket of no module.
Accept(e) ==
    /\ MainIdle /\ kind[e] = "listener"
    /\ \E s \in Event : Create(s, "socket", Nobody, maker[e])

\* Something happens to a socket, and its code has been unloaded.
StrayCallback(e) ==
    /\ MainIdle /\ Live(e) /\ life[maker[e]] = "deleted"
    /\ Gone("undefined")

\* The answer has come, or none in time; libevent defers the callback.
Resolve(e) ==
    /\ MainIdle /\ request[e] = "asked"
    /\ request' = [request EXCEPT ![e] = "answered"]
    /\ UNCHANGED <<loaders, registry, handle, thread, signals, process>>

\* The lookup gives the answer to its DNSCallback and deletes itself; one that was
\* cancelled is no more.
DNSEventCallback(e) ==
    /\ MainIdle /\ request[e] \in {"answered", "cancelled"}
    /\ IF kind[e] = "lookup"
       THEN /\ Destroy(e)
            /\ request' = [request EXCEPT ![e] = "none"]
            /\ UNCHANGED <<loaders, handle, thread, signals, process>>
       ELSE Gone("undefined")

--------------------------------------------------------------------------------
(* Module threads *)

\* run: OnLoaded, then the handlers.
Run(i) ==
    /\ process = "up" /\ thread[i] = "starting"
    /\ thread' = [thread EXCEPT ![i] = "running"]
    /\ armed' = IF OnCrash[path[i]] = "die" THEN armed ELSE Signals
    /\ UNCHANGED <<loaders, registry, request, handle, crashes, reloading, process>>

\* CrashHandler writes its message and jumps back into run, which returns.
\* SA_RESETHAND has disarmed this signal, and no other.
Caught(i, sig) ==
    /\ thread' = [thread EXCEPT ![i] = "ended"]
    /\ armed' = armed \ {sig}
    /\ crashes' = Append(crashes, [module |-> i, reload |-> OnCrash[path[i]] = "reload"])
    /\ UNCHANGED <<loaders, registry, request, handle, reloading, process>>

\* The module's code raises a signal.  On the main thread the handler returns, and
\* the signal comes again; in a thread that has not come to setjmp, or does not
\* call it, longjmp has nowhere to go.
Crash(i) ==
    /\ process = "up" /\ life[i] = "loaded"
    /\ \E sig \in Signals :
         \/ sig \notin armed /\ thread[i] # "ended" /\ Gone("killed")
         \/ sig \in armed /\ thread[i] = "none" /\ Gone("killed")
         \/ sig \in armed /\ thread[i] = "running" /\ OnCrash[path[i]] # "die" /\ Caught(i, sig)
         \/ sig \in armed /\ thread[i] = "running" /\ OnCrash[path[i]] = "die" /\ Gone("undefined")
         \/ sig \in armed /\ thread[i] = "starting" /\ Gone("undefined")

\* A cancelled thread ends where it can be cancelled, and has used its module before.
ThreadEnds(i) ==
    /\ process = "up" /\ thread[i] = "cancelled"
    /\ \/ /\ thread' = [thread EXCEPT ![i] = "ended"]
          /\ UNCHANGED <<loaders, registry, request, handle, signals, process>>
       \/ Gone("undefined")

\* Mutant: the wrong module is unloaded, the last one loaded.
OnReadLast ==
    /\ MainIdle /\ crashes # <<>>
    /\ LET m == Head(crashes)
       IN IF life[m.module] = "deleted" THEN Gone("undefined")
          ELSE /\ crashes' = Tail(crashes)
               /\ reloading' = IF m.reload THEN path[m.module] ELSE Nobody
               /\ Unload(Global, ModName[path[Last(modules[Global])]])

\* OnCrashPipe::OnRead: the Global is asked for the module by its name, which a
\* submodule is not, and another module may be.
OnRead ==
    /\ MainIdle /\ crashes # <<>>
    /\ LET m == Head(crashes)
       IN IF life[m.module] = "deleted" THEN Gone("undefined")
          ELSE /\ crashes' = Tail(crashes)
               /\ reloading' = IF m.reload THEN path[m.module] ELSE Nobody
               /\ \/ Unload(Global, ModName[path[m.module]])
                  \/ /\ Named(Global, ModName[path[m.module]]) = {}
                     /\ UNCHANGED <<loaders, registry, request, handle, thread, armed, process>>

\* Then it is loaded again, without the configuration it had; or it is not.
Reload ==
    /\ process = "up" /\ reloading # Nobody
    /\ reloading' = Nobody
    /\ UNCHANGED <<armed, crashes>>
    /\ \/ ~AlreadyLoaded(Global, reloading) /\ \E i \in Module : Instantiate(Global, reloading, i)
       \/ UNCHANGED <<loaders, registry, request, handle, thread, process>>

--------------------------------------------------------------------------------
Loop ==
    \/ \E p \in Paths : GlobalLoadModule(p) \/ GlobalUnloadModule(ModName[p])
    \/ \E l \in Module, p \in Paths : SubModuleLoad(l, p) \/ SubModuleUnload(l, ModName[p])
    \/ \E i \in Module : ModuleInternalApiCall(i)
    \/ CleanUpInterData
    \/ \E i \in Module, k \in {"timer", "listener", "lookup"} : NewEvent(i, k)
    \/ \E e \in Event : DeleteEvent(e) \/ Accept(e) \/ StrayCallback(e)
                   \/ Resolve(e) \/ DNSEventCallback(e)

Threads == \E i \in Module : Run(i) \/ Crash(i) \/ ThreadEnds(i)

Next == Loop \/ Threads \/ OnRead \/ Reload

\* Global::Loop comes back to the OnCrashPipe while there is something in it.
Fairness == WF_vars(OnRead \/ Reload)

Spec == Init /\ [][Next]_vars /\ Fairness

--------------------------------------------------------------------------------
(* Properties *)

\* The registry of a loaded module is exactly its live events, and an event that
\* has a module does not outlive it, whatever was loaded, deleted or unloaded and
\* in which order: no event is deleted twice or left behind in libevent's loop
\* (Event.cpp:25-34, Module.cpp:42-51, 87-98).
RegistryExact ==
    \A e \in Event :
        /\ \A i \in Module : e \in events[i] <=> Live(e) /\ owner[e] = i
        /\ Live(e) /\ owner[e] # Nobody => life[owner[e]] = "loaded"

\* A module is loaded while it is in its loader's vector, which is gone when the
\* loader is: unloading a module leaves none of its submodules behind, at any
\* depth (SubModuleLoader.cpp:33-39).
LoadedIsListed ==
    /\ \A l \in Loader : IsInjective(modules[l])
    /\ \A l \in Loader, i \in Module :
         i \in Range(modules[l]) <=> life[i] = "loaded" /\ loader[i] = l
    /\ \A l \in Module : modules[l] # <<>> => life[l] = "loaded"

\* A module of the Global that crashed in its thread is unloaded, unless another
\* one has its name and comes first (ModuleThread.cpp:39-48, 89-104).
CrashedGoes ==
    \A i \in Module :
        (/\ \E k \in DOMAIN crashes : crashes[k].module = i
         /\ life[i] = "loaded" /\ loader[i] = Global
         /\ \A k \in Named(Global, ModName[path[i]]) :
              \E j \in 1 .. k : modules[Global][j] = i)
        ~> life[i] = "deleted" \/ process # "up"

\* "Module [...] is already loaded": a loader has no two modules of one name
\* (Global.cpp:65-70, SubModuleLoader.cpp:44-49).
NoNamesakes ==
    \A l \in Loader : \A j, k \in DOMAIN modules[l] :
        ModName[path[modules[l][j]]] = ModName[path[modules[l][k]]] => j = k

\* Module.h:76-78: timers and sockets "will get cleaned up for you"; no event runs
\* the code of a module that is gone.
CleanedUp ==
    \A e \in Event : Live(e) => life[maker[e]] = "loaded"

================================================================================
