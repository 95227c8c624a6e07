------------------------------ MODULE ControlFiles ------------------------------
(***************************************************************************)
(* ModuleLoader (main.cpp): other processes append lines to the files       *)
(* loadmodule and unloadmodule in ./sys; when FileObserver reports such a   *)
(* file closed, OnCloseWrite executes its lines and copies /dev/null over   *)
(* it, which closes a file in ./sys once more.  Nothing keeps the processes *)
(* from writing while it does so.                                           *)
(***************************************************************************)
EXTENDS FileObserver

CONSTANTS
    Sys,       \* ./sys
    Loader,    \* the ModuleLoader
    Files,     \* the files in Sys,
    Mode,      \* and for each what its lines do: LOAD, UNLOAD or UNKNOWN
    Commands   \* the lines, each of them written once at most

ASSUME ControlFilesAssumption ==
    /\ Sys \in Directories /\ Loader \in Callbacks
    /\ Mode \in [Files -> {"LOAD", "UNLOAD", "UNKNOWN"}]

VARIABLES
    data,      \* what is in each file
    writing,   \* the commands of processes that have the file open, and the file
    unwritten, \* the commands still to be written
    pc,        \* where OnCloseWrite is: "idle", "size", "open", "read" or "truncate"
    file,      \* the File it was given,
    pos,       \* and where its descriptor is
    done,      \* the commands executed, with their modes
    overrun    \* the commands written after OnCloseWrite has seen the end of the file

loader == <<pc, file, pos, done>>
writers == <<writing, unwritten, overrun>>
vars == <<watches, made, queue, folders, callbacks, spare, data, writing, unwritten, pc,
          file, pos, done, overrun>>

\* main has registered ./sys; the constructor has made the files, empty.
Init ==
    /\ watches = [d \in Directories |-> IF d = Sys THEN 1 ELSE 0]
    /\ made = 1
    /\ queue = <<>>
    /\ folders = <<Sys>>
    /\ callbacks = <<Loader>>
    /\ spare = Callbacks \ {Loader}
    /\ data = [f \in Files |-> <<>>]
    /\ writing = {}
    /\ unwritten = Commands
    /\ pc = "idle" /\ file \in Files /\ pos = 0
    /\ done = {}
    /\ overrun = {}

--------------------------------------------------------------------------------
(* The other processes *)

\* A command is one line, appended whole in one write; half a line at the end of
\* the file would be executed as a command.
WriteCommand(f, c) ==
    /\ c \in unwritten
    /\ unwritten' = unwritten \ {c}
    /\ data' = [data EXCEPT ![f] = Append(@, c)]
    /\ writing' = writing \cup {<<c, f>>}
    /\ overrun' = IF pc = "truncate" /\ file = f THEN overrun \cup {c} ELSE overrun
    /\ UNCHANGED <<inotify, queue, observer, loader>>

CloseFile(c, f) ==
    /\ <<c, f>> \in writing
    /\ writing' = writing \ {<<c, f>>}
    /\ queue' = Notify(Sys, f)
    /\ UNCHANGED <<inotify, observer, loader, data, unwritten, overrun>>

--------------------------------------------------------------------------------
(* The event loop *)

Goto(place) ==
    /\ pc' = place
    /\ UNCHANGED <<inotify, observer, writers>>

\* readcb gives an event to its callback; one of a watch that is gone is dropped.
readcb ==
    /\ pc = "idle" /\ queue # <<>>
    /\ queue' = Tail(queue)
    /\ file' = IF Owner = Loader THEN Head(queue).file ELSE file
    /\ Goto(IF Owner = Loader THEN "size" ELSE "idle")
    /\ UNCHANGED <<data, pos, done>>

\* Mutant: an empty file is handled as any other.
CheckSizeNever ==
    /\ pc = "size"
    /\ Goto("open")
    /\ UNCHANGED <<queue, data, file, pos, done>>

\* "Prevent a recursive loop..": nothing is done about an empty file.
CheckSize ==
    /\ pc = "size"
    /\ Goto(IF data[file] = <<>> THEN "idle" ELSE "open")
    /\ UNCHANGED <<queue, data, file, pos, done>>

OpenFile ==
    /\ pc = "open"
    /\ pos' = 0
    /\ Goto("read")
    /\ UNCHANGED <<queue, data, file, done>>

\* Mutant: only one line is read.
ReadLines1 ==
    /\ pc = "read"
    /\ IF pos < Len(data[file])
       THEN /\ pos' = pos + 1
            /\ done' = done \cup {<<data[file][pos + 1], Mode[file]>>}
            /\ Goto("truncate")
       ELSE /\ Goto("truncate")
            /\ UNCHANGED <<pos, done>>
    /\ UNCHANGED <<queue, data, file>>

\* ReadLine reads all that is in the file now; its lines are executed, and then
\* it looks again.
ReadLines ==
    /\ pc = "read"
    /\ IF pos < Len(data[file])
       THEN /\ pos' = Len(data[file])
            /\ done' = done \cup {<<data[file][i], Mode[file]>> : i \in pos + 1 .. pos'}
            /\ Goto("read")
       ELSE /\ Goto("truncate")
            /\ UNCHANGED <<pos, done>>
    /\ UNCHANGED <<queue, data, file>>

\* null.Copy(file.GetName(), true)
Truncate ==
    /\ pc = "truncate"
    /\ data' = [data EXCEPT ![file] = <<>>]
    /\ queue' = Notify(Sys, file)
    /\ Goto("idle")
    /\ UNCHANGED <<file, pos, done>>

\* Modules register and unregister directories of their own, from the event loop.
OthersRegister(d, callback) ==
    /\ pc = "idle"
    /\ Register(d, callback)
    /\ UNCHANGED <<data, loader, writers>>

OthersUnregister(d, slash) ==
    /\ pc = "idle" /\ d # Sys
    /\ Unregister(d, slash)
    /\ UNCHANGED <<data, loader, writers>>

Processes == \E c \in Commands, f \in Files : WriteCommand(f, c) \/ CloseFile(c, f)
Loop == readcb \/ CheckSize \/ OpenFile \/ ReadLines \/ Truncate
Others ==
    \E d \in Directories :
      \/ \E callback \in Callbacks : OthersRegister(d, callback)
      \/ \E slash \in BOOLEAN : OthersUnregister(d, slash)

Next == Processes \/ Loop \/ Others

\* The event loop runs, and a process that has written closes its file.
Fairness ==
    /\ WF_vars(Loop)
    /\ \A c \in Commands, f \in Files : WF_vars(CloseFile(c, f))

Spec == Init /\ [][Next]_vars /\ Fairness

--------------------------------------------------------------------------------
(* Properties *)

\* Who else registers ./sys takes it away from the loader.
Watching == \E wd \in DOMAIN callbacks : callbacks[wd] = Loader

\* Each line that a process writes into a control file is executed, with the mode
\* of that file, however the writes of others, the events and the truncation fall
\* (main.cpp:43-77); all but the lines that come between the last look at the file
\* and its truncation (main.cpp:53 and 76), which are lost.
EveryCommandRuns ==
    \A c \in Commands, f \in Files :
      <<c, f>> \in writing ~> <<c, Mode[f]>> \in done \/ c \in overrun \/ ~Watching

\* When nobody writes any more the loader comes to rest, although each of its
\* truncations is reported to it: "Prevent a recursive loop.." (main.cpp:45).
Quiet == <>[](queue = <<>> /\ pc = "idle")

================================================================================
