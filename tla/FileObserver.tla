------------------------------ MODULE FileObserver ------------------------------
(***************************************************************************)
(* FileObserver (Files.h, Files.cpp) on top of inotify, which is external:  *)
(* the kernel numbers the watches, one per directory, and queues an event   *)
(* per file that was closed after writing, unless the last one in the queue *)
(* says the same.                                                           *)
(***************************************************************************)
EXTENDS Naturals, SequencesExt, Functions

CONSTANTS
    Directories,  \* directories that exist
    Callbacks,    \* the FileObserverCallbacks, each registered at most once
    NoCallback,
    MaxWatches    \* the watches the kernel ever makes (bound)

VARIABLES
    watches,    \* the kernel: the watch descriptor of each directory, or 0
    made,       \* and how many there have been
    queue,      \* the events not read yet
    folders,    \* _folders
    callbacks,  \* _callbacks
    spare       \* the callbacks that nobody has registered yet

observer == <<folders, callbacks, spare>>
inotify == <<watches, made>>

ObserverInit ==
    /\ watches = [d \in Directories |-> 0]
    /\ made = 0
    /\ queue = <<>>
    /\ folders = <<>>
    /\ callbacks = <<>>
    /\ spare = Callbacks

\* wd |-> v put into a map, or taken out of it.
With(map, wd, v) == [w \in DOMAIN map \cup {wd} |-> IF w = wd THEN v ELSE map[w]]
Without(map, wd) == Restrict(map, DOMAIN map \ {wd})

\* inotify_add_watch answers with the watch that is there already.
AddWatch(d) ==
    IF watches[d] # 0 THEN UNCHANGED inotify
    ELSE /\ made < MaxWatches
         /\ made' = made + 1
         /\ watches' = [watches EXCEPT ![d] = made + 1]

\* A callback that was registered for the same directory is dropped, and not
\* deleted.
Register(d, callback) ==
    /\ callback \in spare
    /\ spare' = spare \ {callback}
    /\ AddWatch(d)
    /\ folders' = With(folders, watches'[d], d)
    /\ callbacks' = With(callbacks, watches'[d], callback)
    /\ UNCHANGED queue

\* Unregister knows a directory by the name that is left when Register has trimmed
\* the slashes; asked for another one, it does nothing.
Unregister(d, slash) ==
    /\ UNCHANGED <<made, queue, spare>>
    /\ IF slash \/ \A wd \in DOMAIN folders : folders[wd] # d
       THEN UNCHANGED <<watches, folders, callbacks>>
       ELSE \E wd \in DOMAIN folders :
              /\ folders[wd] = d
              /\ folders' = Without(folders, wd)
              /\ callbacks' = Without(callbacks, wd)
              /\ watches' = [watches EXCEPT ![d] = 0]

\* The event of a file in d that is closed after writing.
Notify(d, file) ==
    LET event == [wd |-> watches[d], file |-> file]
    IN IF watches[d] = 0 \/ (queue # <<>> /\ Last(queue) = event) THEN queue
       ELSE Append(queue, event)

\* The next event that readcb looks at, and whose it is.
Owner == IF Head(queue).wd \in DOMAIN callbacks THEN callbacks[Head(queue).wd] ELSE NoCallback

================================================================================
