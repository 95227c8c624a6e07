# Verification of tripping-cyril

tripping-cyril is a C++ framework of modules around libevent: a program loads
modules, and modules use its threads, job queues, timers, PostgreSQL client,
sockets, HTTP client, files, compressors and strings. This directory holds TLA+
models of the parts whose correctness depends on the order of events, TLC
configurations that check them on small instances, and proofs, checked by TLAPS,
of what holds for every instance. `PROJECT.json` lists components, runs, mutants, hazards, findings and
theorems, and maps every definition to the lines it models.

## 1. Inventory

| part | state it keeps | operations | what is hard | what makes it correct |
|---|---|---|---|---|
| `Thread`, `ThreadManager` | `_tid`, `_running`, `_detached`, the stop mutex; the map from `pthread_t` to `Thread` | Start, Stop, Join, Detach, destructor; register, unregister | the new thread races with the rest of Start; the system uses `pthread_t` values again | one thread per object; the registry has exactly the live threads; a stopped thread ends |
| `JobThread`, `Pipe` | `_jobs`, mutex, condition variable, a pipe of job messages | Add, AddFront, run, Remove, OnRead | three kinds of threads, a blocking pipe that is written with the mutex held, a list written without it | a job is in one place, its hooks run once and in order, nobody waits for ever |
| `PostGres`, `BackoffTimer` | queue of queries, connection, listeners, `_in_loop`, `_stay_connected`, the timer | Select, Insert, Listen, Unlisten, SetStayConnected, Loop, Connect, event callback | callbacks that call back in, Loop and Connect call each other, the server goes away between any two steps | no query lost, reordered or sent twice; never without a way to reconnect |
| `BlockingPostGres` | a connection | Select and others, blocking | nothing is kept between calls | as libpq |
| `Timer`, `LamdbaTimer` | `_timer`, `_currentCycle`, `_maxCycles`, `_stop` | Start, StartMaxCycles, Stop, EventCallback, destructor | RunJob restarts, stops or resizes its own timer | as many cycles as asked for, one Finished, nothing after Stop |
| `Socket` | `_connection`, the mode, `next_read`, `read_more`, options and timeout | SetReadLine, Connect, SetTimeout, SetTCPNoDelay, SetTCPKeepAlive, Close, readcb, eventcb | callbacks change the mode in the middle of readcb; settings come before, during and after the connect | each byte goes to the callback of the mode; what was set is what the connection has |
| `SimpleHTTPSocket` | parser, buffers, `_closing`, `_callback` | Get, Post, Put, Patch, Delete, ReadLine, ReadData, OnWrite, Disconnected, Timeout | any split of the response, line and data mode alternate, errors and ends in any order | the body as it was sent, reported once, as soon as it is there |
| `Event`, `Module`, `Global`, `SubModuleLoader` | the set of a module's events; the lists of modules | AddEvent, DelEvent, LoadModule, UnloadModule, FindModule, ModuleInternalApiCall | deleting a module deletes events and submodules, which unregister meanwhile, and stops a thread | no event of a module outlives it, names are unique |
| `Listener`, `IPv4Lookup`, `IPv4ReverseLookup` | one libevent handle each | Listen, the callbacks, destructors | the handle against the deletion of its owner | one callback, none after deletion |
| `ModuleThread` | jump buffer, the pipe for crashes | run, CrashHandler, OnCrashPipe | a signal handler jumps out of anything; the message outlives the module | a crashed module is unloaded |
| `ModuleLoader` (`main.cpp`) | the control files in `./sys` | OnCloseWrite | a file is written while it is read and truncated | every line is obeyed |
| `File`, `FileObserver` | `_filename`, `_fd`, `_buffer`; watches, folders, callbacks | Open ... Copy, ReadLine, ReadFile; Register, Unregister, readcb | reading ahead against everything that moves the position; other processes append | what is read is the file; a copy is a copy |
| `Compressor`, `Decompressor` | the stream of zlib or liblzma | Write | output of any size against a buffer of one size | what has been written has come out |
| `String` | its characters | WildCmp, Trim, conversions, base64, ... | ends of strings, pointers that jump back, widths | pure functions; what is written can be read back |
| `Logger`, `StatsdClient`, `TermUtils`, `StackTrace` | little or none | formatting and output | | |

They interact through libevent. Everything that is an `Event` belongs to a
`Module` (or to `Global`) and is called on the thread of its event loop; an
object may be deleted by itself, by its owner, or with its module. Only
`Thread`, `JobThread`, `ThreadManager` and `ModuleThread` see more than one
thread. `JobThread` sends its messages through a `Pipe` to the event loop, as
`ModuleThread` sends the news of a crash; `PostGres` owns a `BackoffTimer`;
`SimpleHTTPSocket` is a `Socket`; the `ModuleLoader` hears of its control files
from a `FileObserver` and reads them with `File::ReadLine`.

## 2. Modules, and how they correspond to the code

| module | models | extends / instantiates |
|---|---|---|
| `MessagePipe` | `Pipe` as `JobThread` uses it: whole messages, a bounded kernel buffer, a write that blocks, a read that does not | |
| `JobThread` | `JobThread.cpp` and the part of `Thread.cpp` it runs on | `MessagePipe` |
| `JobContract` | abstract: what a `JobThread` promises each job | refined by `JobThread` |
| `BackoffTimer` | `BackoffTimer.cpp`, its state and effects | |
| `PostGres` | the non-blocking client of `Postgres.cpp` | `BackoffTimer` |
| `Timer` | `Timer.cpp` | |
| `Thread` | `Thread` and `ThreadManager` of `Thread.cpp`, any number of objects | |
| `SimpleHTTPSocket` | `SimpleHTTPSocket.cpp` and the client side of `Socket.cpp` | |
| `Socket` | `Socket.cpp` for any subclass: modes, options, timeouts | |
| `Modules` | `Event.cpp`, `Module.cpp`, `Global.cpp`, `SubModuleLoader.cpp`, `ModuleThread.cpp`, and what `DNS.cpp` and `Listener.cpp` add to it | |
| `FileObserver` | `FileObserver` of `Files.cpp` on inotify | |
| `ControlFiles` | `OnCloseWrite` of `main.cpp`, with the processes that write the files | `FileObserver` |
| `Files` | `File` of `Files.cpp` | |
| `Streams` | `Compressor.cpp`, `Decompressor.cpp`, `StringWriter` | |
| `WildCmp` | `String::WildCmp` | |
| `Strings` | the conversions, Trim and base64 of `String.cpp` | |
| `MC...` | definitions for the TLC instances | the module of that name |
| `Library` | the classes that a caller drives and that know nothing of each other, one of them in each behaviour | `WildCmp`; `Strings`, `Streams`, `Files`, `Socket` as instances |
| `..._proofs` | theorems | the module of that name, TLAPS (`JobThread_proofs` has the refinement of `JobContract` too, `Library_proofs` is about `WildCmp`, `Strings`, `Streams`, `Files` and `Socket`, together and apart) |

Definitions have the names of the functions they model; a comment `Mutant:`
marks a faulty variant of the definition below it, which the property it is
listed with in `PROJECT.json` detects. It is no part of a specification.

**JobThread.** Variables are the members (`_pipe`, `_jobs`, `_mutex`, the stop
mutex, `runPostHook`) and a program point per thread. One action stands for the
statements between two points at which another thread can get in between, so
that `Add` is locking, the write and the unlock; `Remove` the size test, the wait,
`front()` (`Front`) and `pop_front()` (`PopFront`); `OnRead` the read, the hook, the
push and the signal. `Add` may be called from a producer, from Main's loop or from
any hook of a job (`AddFrom`). `PhaseOf` maps where a job is to the phase that
`JobContract` has it in.

`OnRead` pushes without the mutex, as the code does, and `list` says what has come of
it. The list is "sound" until a `push_front` falls between `front()` and `pop_front()`:
then `PopFront` removes the new node, the job in the worker's hand stays in the list
and is executed again, and the list has "slipped". A push that overlaps
an access of the worker (`ListAccess`) is a data race: it may work, end the process, or
leave links "torn" (`Tear`, `Relink`). Of a torn list anything is a possible outcome: `size()` may answer
whatever it likes, `front()` lead to any node that was ever in the list (`listed`), whose job may
have been deleted. A deleted job that is used again works as before, with whatever its
`runPostHook` now reads as (`HookOf`), or ends the process (`UsesDeleted`, `Crash`), of which
nothing is left.

**PostGres.** One thread. `pc` says where in Loop, Connect or a callback it is;
`depth` how many `onNotify` calls wait below it. The actions are the segments
of Loop (look for input, notify, send the head, take results, call back, pop),
Connect, the application's calls, which may come from every callback, and the
server, which goes away at most `MaxLosses` times, unnoticed until the next
use. `BackoffTimer` comes with what the code does to a timer that is replaced
or deleted while it runs.

**Timer.** Variables are the members, `asked` and `ran` what the application last
asked for and got. `New` leaves the counters as it finds them, as the
constructor does. Counters wrap around at `Wrap`.

**Thread.** `owner` is what the object's owner did last: owners start an object,
start it again only after a Join, join once, and delete it only when it was never
started or is joined. Start is three steps (`pthread_create`, `_running`, the
mutex); `thread`, `object`, `joinable` and `cancelled` are the system's side,
by `pthread_t`; a value is free again after a join, or at the end of a detached
thread. Deleting an object whose thread still runs is what a module does to its
`ModuleThread`; that case is in `Modules`.

**SimpleHTTPSocket.** A response is a sequence of tokens, lines and bytes; a byte
carries what comes out of it when it is decoded, which for gzip is anything
from nothing to several units. `Arrive` puts any number of tokens into the input
buffer and starts readcb, which then runs alone, one line or one block per
step, until it returns; a block is taken whole. `Written` drains the request and calls OnWrite.
`Disconnected`, `Timeout` and `Delete` may come at any point between. `WellFormed` says
what an answer is that keeps the framing it announces; it restricts no action and is
a hypothesis of two theorems, which the responses of the run satisfy.

**Socket.** The bytes that arrive are numbered, the input is `drained + 1 .. arrived`.
`Begin`, `TakeLine`, `ReadLineReturns`, `ShowData` and `ReadDataReturns` are the
segments of readcb between its calls of ReadLine and ReadData, in which, as in
Connected and between events, the application makes its settings (`Application`).
`options` are the members, `fd` what setsockopt was told, `timeout` and `armed`
likewise; `asked` and `late` remember what the application wanted. `_timeout` is
set by no constructor and starts with anything.

**Modules.** `modules` and `events` are the vectors of the loaders and the sets
of the modules; `kind`, `owner` and `maker` say of an event whether it lives,
which module it is registered with and whose code it runs. `Unload` is the whole
of `delete module`: the submodules to any depth (`Doomed`), their events, their
threads, which are cancelled and not waited for. `NewEvent`, `DeleteEvent`,
`Accept`, `Resolve` and `DNSEventCallback` are the lives of timers, listeners,
accepted sockets and lookups. `Run`, `Crash` and `OnRead` with `Reload` are
`ModuleThread::run`, a signal with `CrashHandler`, and the main loop's end of the
crash pipe; `armed` has the signals whose handler is still in place, each of which
SA_RESETHAND disarms for itself. The ModuleThread is an Event of its module, too; as ~Module
deletes it before all others and nobody else does, it is in `thread`, not in `events`. A use of freed memory ends the process (`Gone("undefined")`), so that
what the properties say is about all that happens before.

**FileObserver, ControlFiles.** The kernel's side is `watches` and `queue`, the
object's `folders` and `callbacks`. A process writes its lines (`WriteCommand`), each whole, in one write, and
closes the file (`CloseFile`) at any time, the loader takes the steps of
OnCloseWrite (`CheckSize`, `OpenFile`, `ReadLines`, `Truncate`), and other callbacks
come and go. Truncating is a close after writing and is reported like any other.

**Files.** `dir` and `data` are the file system, the rest a File object with its
descriptor and `_buffer`, into which ReadLine reads ahead. ReadLine, ReadFile and
Copy take one `read` per step, because another process appends meanwhile. `from`,
`got` and `clean` remember what was returned since the file was opened.

**Streams.** A compressor writes into a `StringWriter`, whose contents are carried
to a decompressor in any pieces. zlib and liblzma are external: compressed data
are runs of equal bytes, and the end of a flush is a token of its own; `Deflate`,
`LZMACode` and `Inflate` are one time round the loops of Write.

**WildCmp, Strings.** `WildCmp` takes one test of a loop per step; its pointers are
positions, 0 for NULL. The conversions of `Strings` are operators and a call is one
step: a value is written as String writes it, then read back. A type is the number of
its values, 2 to its width; the loop of Base64Decode recurses by rounds of four
characters.

## 3. Runs, and what they show

| run | instance | shows |
|---|---|---|
| `jobthread_safety` | 3 jobs (one urgent, one without post hook), 1 producer, pipe of 2, Add from everywhere, Stop and Join | as long as the list is sound: `OneOwner`, and the refinement of `JobContract` (`KeepsContract`); as long as no link is torn: `UrgentFirst`, `AddsInOrder`; whatever becomes of the list: `MutexHeldInside` (2.1 million states) |
| `jobthread_live` | pipe of 1, Main never calls Add | a blocked Add returns, jobs are considered and settled, Stop ends a busy worker |
| `jobthread_slip` | 3 jobs, one of AddFront | finding: a push_front between `front()` and `pop_front()` makes one job run twice and the other never |
| `jobthread_lost_wakeup` | as above | finding: the worker sleeps with a job in its list |
| `postgres` | 2 queries, 1 channel, 2 lost connections, 3 queued jobs, nesting 1 | queries neither lost nor reordered, one outstanding, never stranded, LISTENs in step, every query ends |
| `timer` | 2 timers, counters modulo 4 | Finished exactly when due, nothing runs after Stop, Stop ends |
| `thread` | 2 objects, 2 pthread_t values | one thread per object, the registry is exact, a stopped thread is joined |
| `http` | 7 responses (length, chunked, until close; plain, gzip, corrupt; empty chunked), request in 2 pieces | reported once, the body as sent, promptly, readcb returns |
| `modules` | 3 modules, 2 events, 4 together, 3 paths: one with submodules, two of one name that want threads; 2 signals | `RegistryExact`: no event deleted twice or left behind; `LoadedIsListed`: no submodule left behind; `CrashedGoes`: a crashed module is unloaded |
| `modules_namesakes` | 2 modules, 1 event, a path with an extension and one without | finding: a library whose file name has an extension is loaded while it is loaded |
| `control_files` | 2 files, 3 lines, 2 directories, 2 callbacks, 3 watches | `EveryCommandRuns`, but for lines written between the last look and the truncation; `Quiet`: the loader's own truncations do not keep it busy |
| `library` | see below | `InBounds`, `WildCmpRight`, `WildCmpEnds`; `ConversionsInvert`; `NothingHeldBack`; `LinesAreTheFile`, `CopyTells`; `SettingsApplied`, `ReadsInMode` |

`library` is an instance of `Library` (`part` says to which of the five specifications
a behaviour belongs): texts and wildcards of up to 4 over two characters, `*`
and `?`; 8, 16 and 64 values (3, 4 and 6 bits) for short, int and long, and up to 5 bytes
of base64, with blanks around them; streams of up to 5 bytes of two kinds through a buffer of 2; a File
with 2 names, 3 inodes, up to 4 characters, reads of 2 and 5 calls; a socket with
3 bytes and 3 settings.

Six more configurations state what the code or its documentation suggests and
TLC finds violated: `MCJobThread_stopidle` (`StopEndsThread`: Stop does not end a
worker that waits for a job), `MCPostGres_dropped` (`DoneMeansAnswered`: a query
is dropped unanswered after QueryDone), `MCTimer_plain` (Timer(module) and
Start(interval) count with uninitialised members), `MCThread_delete` (deleting a
joined object cancels another object's thread, which the system gave the same
`pthread_t`), `MCSimpleHTTPSocket_empty` (a response with Content-Length 0 is
never reported) and `Socket_interval` (`IntervalIsCustom`: a keep alive interval that is
set before the connection is established is forgotten, as `Socket.cpp:182` is in
`if (IsConnected())`, and eventcb applies the default of 45 seconds (123); `Socket.h:155`
promises "a custom tcp keep alive interval"). `CleanedUp` in `Modules` is one more such statement: an accepted
socket runs the code of its module after that is gone.

*Why these bounds.* Three jobs let one be in the pipe, one in the list and one
at the worker, and make an order to get wrong; a pipe of one makes every second
write block; one producer, Main and the worker are all the kinds of threads
there are. Two losses of the server make a reconnect fail as well as a query;
two queries put one behind another. Two timers are needed for one's RunJob to
act on the other; counters modulo 4 wrap around within the run. Two objects with
two `pthread_t` values exchange them; the third object is needed only to find
the stale entry. Two chunks, one of two bytes, put the end of a chunk, a size line
and data into one read, and every cut is taken. Three modules are a loader, its
submodule and another one, or two namesakes and a reload; two events are a listener
and the socket it accepts. Three lines let one be read, one be written meanwhile
and one fall into the gap; three watches let a directory be given up and taken
again. Wildcards of 4 hold two stars with something behind each, so that WildCmp
goes back first to the one and then to the other. The widths keep the order that short < int < long
has; every value of every type is tried. A delimiter of 2 and reads of 2 cut a
delimiter in two. A buffer of 2 is filled exactly, and more than once, by 5 bytes.

*Formulas.* `Settled` and `Considered` say of a job that it goes on to be executed, settled
or asked for. They are stated as an action property with `[]<>` instead of a leads-to,
which means the same here and is checked much faster: a job does not leave its place but
for the next one, and is not there for ever.

*Deadlock.* Every configuration has `CHECK_DEADLOCK FALSE`, since every instance may
come to rest: the jobs, queries, timers, objects, responses, events and calls are
finite, and a thread of the modelled program may die of the race on its list, a
process of a crash. Waiting for ever is what the liveness properties are about.

*Fairness.* JobThread: every thread that can go on does (WF); a thread that
contends for the mutex gets it eventually (SF on `AddLock`), which futex
wakeups give in practice. Spurious wakeups may happen and are not relied upon.
PostGres: the event loop goes on and timers fire (WF); the server comes back at
some time (SF on `ConnectSucceeds`) and does not send notifications for ever in
one read (SF on `NothingNotified`). Timer: an event that is due again and
again is called (SF on `EventCallback`), RunJob returns (WF). Thread: every thread
runs, and run() asks shouldContinue() again and again (WF); that it returns on its
own is not assumed. SimpleHTTPSocket: readcb's own steps go on (WF); nothing is
assumed of the peer or of time. Modules: Global::Loop comes back to the crash pipe
(WF on `OnRead \/ Reload`). ControlFiles: the event loop runs, and a process that
has written closes its file (WF). WildCmp: the function goes on (WF).

## 4. Theorems

All are proved for every value of the constants under the assumptions the
modules name.

* `JobThread_proofs`: `TypeCorrect`, with what a thread has in hand at each
  program point as the strengthening, and `OneOwnerAlways`, as long as the list is sound, by a step for each
  action: it moves one job from a place it leaves to one it was not in, and what
  `pop_front` removes is the job that `front` read. Once a push has slipped in between
  this is false, as `jobthread_slip` shows; `OnlyAddFrontSlips`: that takes a job of AddFront. Lemmas
  about pipes and lists say what Append, Tail and a push do to the sets of jobs.
  `MutexAlwaysHeldInside`: a thread inside holds the mutex, by an invariant that gives
  each program point the holder it implies. `UrgentAlwaysFirst` needs to know the
  modes of all messages in the pipe and in the threads' hands (`ModesOK`).
  `AddsKeepTheirOrder`: a job that is ahead of another one stays ahead. `Ahead` is
  stated by places (both in the pipe, both in the list, one in each, one with Main),
  and each action moves at most one of the two, from the end of one place to the
  end of the next. It holds of a list that has slipped, too: what `pop_front` removes is
  then either the job in hand or one of AddFront (`HeadOK`). `ImplementsContract`: every behaviour of `JobThread` is one of
  `JobContract` for as long as the list is sound. A job that is settled or not yet added is nowhere (`HandsEmpty`,
  with `OneOwner`), so that each action moves the job it handles by one step of the
  contract and leaves the phase of every other job as it was.
* `PostGres_proofs`: `OnlyHeadOutstanding` (a query is sent only as the head of the
  queue, while Loop waits for its result), `AlwaysTriesAgain` (without a
  connection that is wanted a timer is pending, or the code is on its way to one),
  `SessionListens`: the last queued job about a channel agrees with `listeners`,
  and where there is none the server's session does; and `QueriesKeepTheirOrder`:
  the queries that have not ended have places in the queue, in order and with nothing
  but LISTEN, UNLISTEN and AUTOCOMMIT between them. The proof gives the new places for
  a job that is appended, one that is pushed in front, and a head that goes; it needs
  `QueueInv` to see that a head that is dropped is the first query not ended.
* `Timer_proofs`: `TimerTypes`, and `FinishedInTime`: a timer that is always given
  a number of cycles finishes once, after exactly that many, or after Stop. The
  invariant `Counts` says that `_currentCycle` is the number of finished cycles
  since the last request and stays below it; it is needed to see that the
  equality test in EventCallback is never stepped over when the counter wraps.
  `StoppedStaysSo`: no RunJob of a stopped timer starts.
* `Thread_proofs`: `ThreadTypes`, and `NeverTwoThreads`; the invariant says of a living
  thread that its object knows its id and that its owner is at no point from
  which it could start another. `RegistryAlwaysExact` rests on the same invariant:
  only the thread itself enters and leaves its id.
* `SimpleHTTPSocket_proofs`: `OneReport`, for whatever the server sends, well
  formed or not. `TellsTheBody` and `TellsInTime`, for every answer that keeps the
  framing it announces, of any length and cut in any way: their hypothesis is that the
  `Responses` are `WellFormed`, which TLC evaluates for the ones of the run
  (`WithBodyIsWellFormed` in `MCSimpleHTTPSocket`). The invariant `BodyInv` says that as
  long as the callback was not called (`Pending`) the input is the stream from token k
  to token a, and that mode, `next_read` and parser are what token k calls for: in the
  headers they know the lines before k (`InHeaders`); in the body (`InBody`) the buffer
  is what the first k tokens decode to, and a line is expected only where there is
  one, the size or the end of a chunk (`AtSize`), data only as far as the chunk goes
  (`InChunk`). Afterwards (`Told`) what was said stays true. Without `InChunk` the
  first line found in the input need not be the next token. That a stream
  decodes piece by piece (`DecodedConcat`) needs induction over blocks: `Induction`
  states it for a set of naturals, from the well-foundedness of `<`. `ReadTakes`, for
  any tokens: each step with which readcb goes on makes the input shorter, as a block
  of data is never empty (`ModeInv`: within a chunk there is something left of it).
* `Library_proofs`, about `LibrarySpec`: in each behaviour one of the classes acts and
  the others stand still, so that the invariant of each holds for all behaviours.
  The assumptions (`LibraryAssumption`, `ConversionAssumption`) only say what the
  constants are: sizes of buffers, a file name, texts; that types have an even number
  of values and long a multiple of those of int and short.
  - `SettingsReachTheConnection`, by what the members, the descriptor and
    the armed timeout have to do with each other at each point (`SettingsInv`), and
    `AlwaysReadsInMode`, by what each program point of readcb implies for mode and input
    (`ReadInv`); for any timeouts, intervals, bytes and ends of lines.
  - `WritesHoldNothingBack`, for any bytes, any `BUFFER_SIZE` and whatever zlib does in a
    call. The invariant (`StreamsInv`) accounts for every byte at each time round the loops:
    what the decompressor gave, what waits in inflate, on the way, in deflate and before
    it, each unpacked and in this order, are what was fed (`Inflated`, `Compressed`); and
    nothing waits in zlib outside a Write, as `Again` stops only where nothing is left. It
    rests on lemmas about runs: `Unpack` undoes `Pack`, and what is cut anywhere unpacks piece
    by piece (`Unpack` folds over a sequence).
  - `ReadsTheFile` and `CopyTellsTheTruth`, for any contents, delimiter, sizes of reads,
    and appends between them. `FilesInv` says that what was returned together with `_buffer`
    is the file from where reading began to where the descriptor is (`ReadSoFar`), each line
    ends with the first delimiter in it, so that none is in what was searched before
    (`LinesEnd`), that a copy so far is the source up to its position (`CopiedSoFar`), and
    what `data`, `fd` and `pos` may be while a call runs (`Running`).
  - `ReadsBackWhatItWrites`, for types of any size and any bytes. For numbers: no value of
    its own type is cut by strtoul or strtoll, and a cast undoes the wrap-around of a
    wider type (`CastBack`). For base64: a round of Base64Decode gives back the bytes a
    round of Base64Encode wrote, with their padding (`RoundDecodes`), all rounds together the
    text (`DecodesBack`, by induction from the end), and Trim takes one side's blanks
    (`TrimTakes`).
  - `NeverOutOfBounds`, for texts and wildcards of any length. The
    strengthening (`BoundsInv`) adds that in the second loop nothing is remembered only
    as long as the text is at its end or the wildcard at a `*`, where no jump is taken.
    `ComparesRight`: the answer is the one of the definition (`Matches`: the text is cut
    into a piece for each character of the wildcard, of length 1 unless that is a `*`).
    The invariant says that the whole matches exactly if what is left matches what is
    left of the wildcard, or, once a star was seen, some end of the remembered text
    matches what follows that star. Going back to the last star only is right because a
    star may take any end of the text that an earlier star could have left to it.
    `GoesForwards`: no step leads back, in the order of loop, `mp`, `cp`, `wc`; each of
    them is bounded, by `NeverOutOfBounds`.
  - `LibraryCompares`: WildCmp is as right here as by itself.
* `Modules_proofs`: `EventsGoWithTheirModule` and `ModulesGoWithTheirLoader`, for any
  number of modules at any depth. `RegistryExact` and `LoadedIsListed` are inductive
  only together with the types: the set of modules that an unload deletes is closed
  under the vectors of its members, so that no vector of a survivor mentions one.
* `ControlFiles_proofs`: the safety behind `EveryCommandRuns`, for any number of files,
  lines, writers, directories and callbacks. `NoLineForgotten`: a line in a control file that
  was not executed has somebody who will see to it, be it the process that wrote it, an event
  in the queue or the loader on its way to the file. `NoLineLost`: the truncation takes no line
  but those executed and those written after the last look. The invariant (`LoaderInv`) adds
  that the loader's watch is the first one and nobody else's directory ever has it
  (`Registered`), and that what the loader has read of its file is executed (`Progress`).
  What TLC adds is that each line's turn comes.

All safety properties that the runs check are proved. Only model-checked: liveness, which
TLAPS does not prove under fairness. What some of it rests on is proved: that each step of
the loop brings its end nearer (`ReadTakes` for `ReadEnds`, `GoesForwards` for
`WildCmpEnds`), and that no line is forgotten on the way (`NoLineForgotten` for
`EveryCommandRuns`). The recursive functions in what is proved (`DecodeFrom`, the folds of
`Pack` and `Unpack`) are handled by naming the function, showing that there is one that
satisfies the equation, and `Induction` over its domain.

## 5. What is not modelled, and observations

Not modelled:

* Failing system calls (`pthread_create`, `pipe`, `malloc`, `setsockopt`) and NULL jobs or
  callbacks, but for reads and writes of `File`.
* Deleting a `JobThread`; a job that is made in the memory of a deleted one which a broken list
  still leads to; the destructor of `PostGres`; a `Timer` deleted in its own
  RunJob; intervals that are not positive.
* `BlockingPostGres`; the branch of Loop for a busy connection, which no call leaves
  behind; `CrackURL` and the text of HTTP requests; responses that break the
  framing they announce, data behind the end of a gzip stream among them, of which Decompress
  does not use the rest of its block (`SimpleHTTPSocket.cpp:352`); addresses and SSL; what libevent makes of a zero timeout.
* dlopen, configurations, `OnModuleApiCall` and its data; a module that unloads
  a sibling in its own destructor; `TriggerEvent`, an event that calls one method.
* Commands that are written to a control file in pieces: a last line without an end is obeyed as
  it is (`main.cpp:53-74`).
* `Dir`, permissions and times of `File`; the rest of `String` (Split, Token, formats,
  case, Replace, hashes), wrappers of the standard library without state; `Logger`,
  `StatsdClient`, `StackTrace`, `TermUtils`, which format and print.

Observations, beyond the findings:

* *PostGres, threads, HTTP.* `hasError` is true for every status but PGRES_COMMAND_OK
  (`Postgres.cpp:73-76`), so that Loop calls QueryError, not QueryResult, for the
  rows of a SELECT (221), the status of which is PGRES_TUPLES_OK; the model calls
  both "answered". A thread that asks shouldContinue() before Start has locked the
  mutex ends at once (`Thread.cpp:62-65`); a thread that returned on its own leaves
  it locked, so that a second Start hangs; a connect that fails is reported to nobody
  (`SimpleHTTPSocket.cpp:143`), and a body cut short is reported as finished (234).
* *Modules.* OnRead unloads by name (`ModuleThread.cpp:44`): with a namesake loaded
  first, that one goes; a submodule that crashed stays, and may be loaded again
  at the top. A reload has no configuration. SA_RESETHAND leaves the handler of a signal off
  until another module thread arms it. A crash in OnLoaded (67) comes before
  setjmp. A module's thread is cancelled and not waited for, while its code is
  unmapped. When ModLoad returns NULL the configuration is not freed
  (`Module.cpp:77-82`). An `InterModuleData` uses its module when it is
  destroyed, loaded or not. A cancelled lookup is called back after its deletion
  (`DNS.cpp:43`); lookups of a threaded module use Global's DNS base.
* *Sockets.* An accepted socket never counts as connected, so that options set on it
  are never applied, nor are those set in Connected() (`Socket.cpp:126-127`). Close
  sets both timeouts to zero (142).
* *Files.* Every file closed in `./sys` is truncated, whatever its name
  (`main.cpp:76`). Copy does not look at what Write returns and copies a file onto
  itself as nothing; it leaves the source open when the target cannot be opened
  (`Files.cpp:126-127`); Dir never closes its DIR (277). ReadFile may return more than
  maxSize, by less than one read. ReadLine returns true for a last line without a
  delimiter, where `Files.h` says "true if the delimiter was found".
* *String, streams.* Trim leaves the left side alone when there was something on the
  right (`String.cpp:95`); an unsigned long long above the largest long long is cut
  (178). LZMACompressor is never flushed or finished (`Compressor.cpp:111`), and no
  compressor looks at what its writer returns.

## 6. What is left

* An abstract `Request` that `SimpleHTTPSocket` implements, and an abstract queue that
  `PostGres` implements, with their refinements; the status of a result in PostGres.
* `Split` and `Token` of `String`, whose many flags are the point; `Dir`.
* `JobThread` and `PostGres` as objects of a module, deleted in the middle of their work,
  which needs the code to say what that means.
