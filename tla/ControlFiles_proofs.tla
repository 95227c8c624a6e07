--------------------------- MODULE ControlFiles_proofs ---------------------------
(***************************************************************************)
(* The loader forgets no line of a control file: whatever the processes     *)
(* that write, the files, the directories that others watch and the order   *)
(* in which all of it happens.  That it comes to each of them in the end is *)
(* EveryCommandRuns, which is left to TLC.                                  *)
(***************************************************************************)
EXTENDS ControlFiles, SequenceTheorems, TLAPS

\* The kernel gave ./sys the first watch, and no other directory ever has that one;
\* the loader is under it, as long as it is registered at all.
Registered ==
    /\ made \in Nat \ {0} /\ watches \in [Directories -> 0 .. made]
    /\ watches[Sys] = 1
    /\ \A d, e \in Directories : watches[d] = watches[e] /\ watches[d] # 0 => d = e
    /\ 1 \in DOMAIN folders /\ folders[1] = Sys
    /\ \A wd \in DOMAIN folders : folders[wd] = Sys => wd = 1
    /\ 1 \in DOMAIN callbacks
    /\ \A wd \in DOMAIN callbacks : callbacks[wd] = Loader => wd = 1
    /\ Loader \notin spare

Contents ==
    /\ queue \in Seq([wd : 1 .. made, file : Files])
    /\ file \in Files /\ pos \in Nat
    /\ data \in [Files -> Seq(Commands)]

Executed(f, i) == <<data[f][i], Mode[f]>> \in done \/ data[f][i] \in overrun

\* Where OnCloseWrite is in its file, and what it has done of it.
Progress ==
    /\ pc \in {"idle", "size", "open", "read", "truncate"}
    /\ pc = "read" => /\ pos <= Len(data[file])
                      /\ \A i \in 1 .. pos : <<data[file][i], Mode[file]>> \in done
    /\ pc = "truncate" => \A i \in 1 .. Len(data[file]) : Executed(file, i)

Announced(f) == \E k \in 1 .. Len(queue) : queue[k] = [wd |-> 1, file |-> f]

\* A line in a control file that is not executed yet has somebody who will see to
\* it: the process that wrote it still has to close the file, or an event of the
\* file waits, or OnCloseWrite has its last look at the file before it.
Remembered(f, i) ==
    \/ Executed(f, i)
    \/ <<data[f][i], f>> \in writing
    \/ Announced(f)
    \/ pc \in {"size", "open", "read"} /\ file = f
    \/ ~Watching

NoneForgotten == \A f \in Files : \A i \in 1 .. Len(data[f]) : Remembered(f, i)

LoaderInv == Registered /\ Contents /\ Progress /\ NoneForgotten

LEMMA LoaderInit == Init => LoaderInv
<1>1. SUFFICES ASSUME Init PROVE LoaderInv
  OBVIOUS
<1>2. Sys \in Directories /\ Loader \in Callbacks
  BY ControlFilesAssumption
<1>3. Registered
  BY <1>1, <1>2 DEF Init, Registered
<1>4. Contents
  BY <1>1, <1>2 DEF Init, Contents
<1>5. \A f \in Files : Len(data[f]) = 0
  BY <1>1 DEF Init
<1>6. Progress /\ NoneForgotten
  BY <1>1, <1>5 DEF Init, Progress, NoneForgotten
<1>7. QED
  BY <1>3, <1>4, <1>6 DEF LoaderInv

\* An event of a control file is the last in the queue after it was reported, and
\* those that were there before still are.
LEMMA NotifyAnnounces ==
    ASSUME Registered, Contents, NEW f \in Files
    PROVE  /\ Notify(Sys, f) \in Seq([wd : 1 .. made, file : Files])
           /\ Len(queue) <= Len(Notify(Sys, f))
           /\ \A k \in 1 .. Len(queue) : Notify(Sys, f)[k] = queue[k]
           /\ \E k \in 1 .. Len(Notify(Sys, f)) : Notify(Sys, f)[k] = [wd |-> 1, file |-> f]
<1> DEFINE e == [wd |-> 1, file |-> f]
           E == [wd : 1 .. made, file : Files]
<1>1. e \in E /\ queue \in Seq(E) /\ watches[Sys] = 1 /\ Len(queue) \in Nat
  BY LenProperties DEF Registered, Contents
<1>2. Notify(Sys, f) = IF queue # <<>> /\ Last(queue) = e THEN queue ELSE Append(queue, e)
  BY <1>1 DEF Notify
<1> HIDE DEF e, E
<1>3. CASE queue # <<>> /\ Last(queue) = e
  <2>1. Len(queue) \in 1 .. Len(queue) /\ queue[Len(queue)] = e
    BY <1>1, <1>3, EmptySeq DEF Last
  <2>2. QED
    BY <1>1, <1>2, <1>3, <2>1 DEF e, E
<1>4. CASE ~(queue # <<>> /\ Last(queue) = e)
  <2>1. Notify(Sys, f) = Append(queue, e)
    BY <1>2, <1>4
  <2>2. /\ Append(queue, e) \in Seq(E) /\ Len(Append(queue, e)) = Len(queue) + 1
        /\ \A k \in 1 .. Len(queue) : Append(queue, e)[k] = queue[k]
        /\ Append(queue, e)[Len(queue) + 1] = e
    BY <1>1, AppendProperties
  <2>3. QED
    BY <1>1, <2>1, <2>2 DEF e, E
<1>5. QED
  BY <1>3, <1>4

\* A line is remembered as long as none of what remembers it is taken back.
LEMMA StillRemembered ==
    ASSUME NEW f \in Files, NEW i \in 1 .. Len(data[f]), Remembered(f, i),
           data'[f][i] = data[f][i],
           done \subseteq done', overrun \subseteq overrun',
           <<data[f][i], f>> \in writing => <<data[f][i], f>> \in writing' \/ Announced(f)',
           Announced(f) => Announced(f)' \/ (pc' = "size" /\ file' = f) \/ ~Watching',
           pc \in {"size", "open", "read"} /\ file = f
             => (pc' \in {"size", "open", "read"} /\ file' = f) \/ Executed(f, i)',
           ~Watching => ~Watching'
    PROVE  Remembered(f, i)'
<1>1. Executed(f, i) => Executed(f, i)'
  BY DEF Executed
<1>2. QED
  BY <1>1 DEF Remembered

LEMMA WriteCommandKeeps ==
    ASSUME LoaderInv, NEW f \in Files, NEW c \in Commands, WriteCommand(f, c)
    PROVE  LoaderInv'
<1>1. /\ writing' = writing \cup {<<c, f>>}
      /\ data' = [data EXCEPT ![f] = Append(@, c)]
      /\ overrun' = IF pc = "truncate" /\ file = f THEN overrun \cup {c} ELSE overrun
      /\ UNCHANGED <<watches, made, queue, folders, callbacks, spare, pc, file, pos, done>>
  BY DEF WriteCommand, inotify, observer, loader
<1>2. Registered'
  BY <1>1 DEF LoaderInv, Registered
<1>3. data[f] \in Seq(Commands) /\ \A g \in Files : Len(data[g]) \in Nat
  BY LenProperties DEF LoaderInv, Contents
<1>4. /\ data'[f] = Append(data[f], c) /\ \A g \in Files \ {f} : data'[g] = data[g]
      /\ data'[f] \in Seq(Commands) /\ Len(data'[f]) = Len(data[f]) + 1
      /\ \A i \in 1 .. Len(data[f]) : data'[f][i] = data[f][i]
      /\ data'[f][Len(data[f]) + 1] = c
  BY <1>1, <1>3, AppendProperties DEF LoaderInv, Contents
<1>5. Contents'
  BY <1>1, <1>3, <1>4 DEF LoaderInv, Contents
<1>6. \A g \in Files : /\ Len(data[g]) <= Len(data'[g])
                       /\ \A i \in 1 .. Len(data[g]) : data'[g][i] = data[g][i]
                       /\ \A i \in 1 .. Len(data'[g]) :
                             i \in 1 .. Len(data[g]) \/ (g = f /\ data'[g][i] = c)
  <2>1. PICK n \in Nat : n = Len(data[f])
    BY <1>3
  <2>2. \A i \in 1 .. n + 1 : i \in 1 .. n \/ i = n + 1
    BY <2>1
  <2>3. /\ Len(data[f]) <= Len(data'[f])
        /\ \A i \in 1 .. Len(data[f]) : data'[f][i] = data[f][i]
        /\ \A i \in 1 .. Len(data'[f]) : i \in 1 .. Len(data[f]) \/ data'[f][i] = c
    BY <1>4, <2>1, <2>2
  <2>4. \A g \in Files \ {f} : data'[g] = data[g] /\ Len(data[g]) <= Len(data'[g])
    BY <1>3, <1>4
  <2>5. QED
    BY <2>3, <2>4
<1>7. Progress'
  <2>1. CASE pc = "read"
    BY <1>1, <1>3, <1>6, <2>1 DEF LoaderInv, Progress, Contents
  <2>2. CASE pc = "truncate"
    <3>1. ASSUME NEW i \in 1 .. Len(data'[file]) PROVE Executed(file, i)'
      <4>1. file \in Files
        BY DEF LoaderInv, Contents
      <4>2. CASE i \in 1 .. Len(data[file])
        <5>1. Executed(file, i) /\ data'[file][i] = data[file][i]
          BY <1>6, <2>2, <4>1, <4>2 DEF LoaderInv, Progress
        <5>2. QED
          BY <1>1, <5>1 DEF Executed
      <4>3. CASE file = f /\ data'[file][i] = c
        BY <1>1, <2>2, <4>3 DEF Executed
      <4>4. QED
        BY <1>6, <4>1, <4>2, <4>3
    <3>2. QED
      BY <1>1, <2>2, <3>1 DEF Progress
  <2>3. QED
    BY <1>1, <2>1, <2>2 DEF LoaderInv, Progress
<1>8. NoneForgotten'
  <2>1. SUFFICES ASSUME NEW g \in Files, NEW i \in 1 .. Len(data'[g]) PROVE Remembered(g, i)'
    BY DEF NoneForgotten
  <2>2. CASE i \in 1 .. Len(data[g])
    <3>1. Remembered(g, i) /\ data'[g][i] = data[g][i]
      BY <1>6, <2>2 DEF LoaderInv, NoneForgotten
    <3>2. /\ done \subseteq done' /\ overrun \subseteq overrun' /\ writing \subseteq writing'
          /\ Announced(g) => Announced(g)'
          /\ pc' = pc /\ file' = file /\ (~Watching => ~Watching')
      BY <1>1 DEF Announced, Watching
    <3>3. QED
      BY <2>2, <3>1, <3>2, StillRemembered
  <2>3. CASE g = f /\ data'[g][i] = c
    BY <1>1, <2>3 DEF Remembered
  <2>4. QED
    BY <1>6, <2>2, <2>3
<1>9. QED
  BY <1>2, <1>5, <1>7, <1>8 DEF LoaderInv

LEMMA CloseFileKeeps ==
    ASSUME LoaderInv, NEW f \in Files, NEW c \in Commands, CloseFile(c, f)
    PROVE  LoaderInv'
<1>1. /\ writing' = writing \ {<<c, f>>}
      /\ queue' = Notify(Sys, f)
      /\ UNCHANGED <<watches, made, folders, callbacks, spare, pc, file, pos, done, data, overrun>>
  BY DEF CloseFile, inotify, observer, loader
<1>2. Registered'
  BY <1>1 DEF LoaderInv, Registered
<1>3. /\ queue' \in Seq([wd : 1 .. made, file : Files])
      /\ Len(queue) <= Len(queue')
      /\ \A k \in 1 .. Len(queue) : queue'[k] = queue[k]
      /\ \E k \in 1 .. Len(queue') : queue'[k] = [wd |-> 1, file |-> f]
      /\ Len(queue) \in Nat /\ Len(queue') \in Nat
  BY <1>1, NotifyAnnounces, LenProperties DEF LoaderInv, Contents
<1>4. Contents'
  BY <1>1, <1>3 DEF LoaderInv, Contents
<1>5. Progress'
  BY <1>1 DEF LoaderInv, Progress, Executed
<1>6. NoneForgotten'
  <2>1. SUFFICES ASSUME NEW g \in Files, NEW i \in 1 .. Len(data'[g]) PROVE Remembered(g, i)'
    BY DEF NoneForgotten
  <2>2. i \in 1 .. Len(data[g]) /\ Remembered(g, i) /\ data'[g][i] = data[g][i]
    BY <1>1 DEF LoaderInv, NoneForgotten
  <2>3. (Announced(g) => Announced(g)') /\ Announced(f)'
    BY <1>3 DEF Announced
  <2>4. <<data[g][i], g>> \in writing => <<data[g][i], g>> \in writing' \/ Announced(g)'
    BY <1>1, <2>3
  <2>5. /\ done \subseteq done' /\ overrun \subseteq overrun'
        /\ pc' = pc /\ file' = file /\ (~Watching => ~Watching')
    BY <1>1 DEF Watching
  <2>6. QED
    BY <2>2, <2>3, <2>4, <2>5, StillRemembered
<1>7. QED
  BY <1>2, <1>4, <1>5, <1>6 DEF LoaderInv

LEMMA ReadcbKeeps ==
    ASSUME LoaderInv, readcb
    PROVE  LoaderInv'
<1>1. /\ pc = "idle" /\ queue # <<>>
      /\ queue' = Tail(queue)
      /\ file' = IF Owner = Loader THEN Head(queue).file ELSE file
      /\ pc' = IF Owner = Loader THEN "size" ELSE "idle"
      /\ UNCHANGED <<watches, made, folders, callbacks, spare, pos, done, data,
                     writing, unwritten, overrun>>
  BY DEF readcb, Goto, inotify, observer, writers
<1>2. Registered'
  BY <1>1 DEF LoaderInv, Registered
<1> DEFINE E == [wd : 1 .. made, file : Files]
<1>3. /\ queue \in Seq(E) /\ Len(queue) \in Nat \ {0} /\ Head(queue) \in E
      /\ Head(queue) = queue[1]
      /\ queue' \in Seq(E) /\ Len(queue') = Len(queue) - 1
      /\ \A k \in 1 .. Len(queue) - 1 : queue'[k] = queue[k + 1]
  <2>1. queue \in Seq(E)
    BY DEF LoaderInv, Contents
  <2> HIDE DEF E
  <2>2. QED
    BY <1>1, <2>1, HeadTailProperties, EmptySeq, LenProperties, ElementOfSeq
<1>4. Contents'
  <2>1. file' \in Files
    BY <1>1, <1>3 DEF LoaderInv, Contents
  <2>2. QED
    BY <1>1, <1>3, <2>1 DEF LoaderInv, Contents
<1>5. Progress'
  BY <1>1 DEF Progress
<1>6. NoneForgotten'
  <2>1. SUFFICES ASSUME NEW g \in Files, NEW i \in 1 .. Len(data'[g]) PROVE Remembered(g, i)'
    BY DEF NoneForgotten
  <2>2. i \in 1 .. Len(data[g]) /\ Remembered(g, i) /\ data'[g][i] = data[g][i]
    BY <1>1 DEF LoaderInv, NoneForgotten
  <2>3. ASSUME Announced(g)
        PROVE  Announced(g)' \/ (pc' = "size" /\ file' = g) \/ ~Watching'
    <3>1. PICK k \in 1 .. Len(queue) : queue[k] = [wd |-> 1, file |-> g]
      BY <2>3 DEF Announced
    <3>2. CASE k = 1
      <4>1. Head(queue).wd = 1 /\ Head(queue).file = g
        BY <1>3, <3>1, <3>2
      <4>2. Owner = callbacks[1]
        BY <4>1 DEF Owner, LoaderInv, Registered
      <4>3. CASE callbacks[1] = Loader
        BY <1>1, <4>1, <4>2, <4>3
      <4>4. CASE callbacks[1] # Loader
        BY <1>1, <4>4 DEF Watching, LoaderInv, Registered
      <4>5. QED
        BY <4>3, <4>4
    <3>3. CASE k # 1
      <4>1. PICK j \in 1 .. Len(queue) - 1 : k = j + 1
        BY <1>3, <3>1, <3>3
      <4>2. queue'[j] = queue[j + 1]
        BY <1>3, <4>1
      <4>3. j \in 1 .. Len(queue')
        BY <1>3, <4>1
      <4>4. QED
        BY <3>1, <4>1, <4>2, <4>3 DEF Announced
    <3>4. QED
      BY <3>2, <3>3
  <2>4. /\ done \subseteq done' /\ overrun \subseteq overrun' /\ writing \subseteq writing'
        /\ pc = "idle" /\ (~Watching => ~Watching')
    BY <1>1 DEF Watching
  <2>5. QED
    BY <2>2, <2>3, <2>4, StillRemembered
<1>7. QED
  BY <1>2, <1>4, <1>5, <1>6 DEF LoaderInv

LEMMA CheckSizeKeeps ==
    ASSUME LoaderInv, CheckSize
    PROVE  LoaderInv'
<1>1. /\ pc = "size"
      /\ pc' = IF data[file] = <<>> THEN "idle" ELSE "open"
      /\ UNCHANGED <<watches, made, queue, folders, callbacks, spare, file, pos, done, data,
                     writing, unwritten, overrun>>
  BY DEF CheckSize, Goto, inotify, observer, writers
<1>2. Registered' /\ Contents' /\ Progress'
  BY <1>1 DEF LoaderInv, Registered, Contents, Progress
<1>3. NoneForgotten'
  <2>1. SUFFICES ASSUME NEW g \in Files, NEW i \in 1 .. Len(data'[g]) PROVE Remembered(g, i)'
    BY DEF NoneForgotten
  <2>2. i \in 1 .. Len(data[g]) /\ Remembered(g, i) /\ data'[g][i] = data[g][i]
    BY <1>1 DEF LoaderInv, NoneForgotten
  <2>3. file = g => data[file] # <<>>
    BY <2>2
  <2>4. /\ done \subseteq done' /\ overrun \subseteq overrun' /\ writing \subseteq writing'
        /\ Announced(g) => Announced(g)'
        /\ file = g => pc' = "open" /\ file' = g
        /\ ~Watching => ~Watching'
    BY <1>1, <2>3 DEF Watching, Announced
  <2>5. QED
    BY <2>2, <2>4, StillRemembered
<1>4. QED
  BY <1>2, <1>3 DEF LoaderInv

LEMMA OpenFileKeeps ==
    ASSUME LoaderInv, OpenFile
    PROVE  LoaderInv'
<1>1. /\ pc = "open" /\ pc' = "read" /\ pos' = 0
      /\ UNCHANGED <<watches, made, queue, folders, callbacks, spare, file, done, data,
                     writing, unwritten, overrun>>
  BY DEF OpenFile, Goto, inotify, observer, writers
<1>2. Registered' /\ Contents'
  BY <1>1 DEF LoaderInv, Registered, Contents
<1>3. Len(data[file]) \in Nat
  BY LenProperties DEF LoaderInv, Contents
<1>4. Progress'
  BY <1>1, <1>3 DEF Progress
<1>5. NoneForgotten'
  BY <1>1 DEF LoaderInv, NoneForgotten, Remembered, Executed, Announced, Watching
<1>6. QED
  BY <1>2, <1>4, <1>5 DEF LoaderInv

LEMMA ReadLinesKeeps ==
    ASSUME LoaderInv, ReadLines
    PROVE  LoaderInv'
<1>1. /\ pc = "read"
      /\ UNCHANGED <<watches, made, queue, folders, callbacks, spare, file, data,
                     writing, unwritten, overrun>>
  BY DEF ReadLines, Goto, inotify, observer, writers
<1>2. PICK n \in Nat : n = Len(data[file]) /\ pos \in 0 .. n
  BY <1>1, LenProperties DEF LoaderInv, Contents, Progress
<1>3. Registered'
  BY <1>1 DEF LoaderInv, Registered
<1>4. CASE pos < n
  <2>1. /\ pos' = n /\ pc' = "read"
        /\ done' = done \cup {<<data[file][i], Mode[file]>> : i \in pos + 1 .. n}
    BY <1>2, <1>4 DEF ReadLines, Goto
  <2>2. Contents'
    BY <1>1, <2>1 DEF LoaderInv, Contents
  <2>3. ASSUME NEW i \in 1 .. n PROVE <<data[file][i], Mode[file]>> \in done'
    <3>1. CASE i \in 1 .. pos
      BY <1>1, <2>1, <3>1 DEF LoaderInv, Progress
    <3>2. CASE i \in pos + 1 .. n
      BY <2>1, <3>2
    <3>3. QED
      BY <1>2, <3>1, <3>2
  <2>4. Progress'
    BY <1>1, <1>2, <2>1, <2>3 DEF Progress
  <2>5. NoneForgotten'
    BY <1>1, <2>1 DEF LoaderInv, NoneForgotten, Remembered, Executed, Announced, Watching
  <2>6. QED
    BY <1>3, <2>2, <2>4, <2>5 DEF LoaderInv
<1>5. CASE pos = n
  <2>1. pos' = pos /\ done' = done /\ pc' = "truncate"
    BY <1>2, <1>5 DEF ReadLines, Goto
  <2>2. Contents'
    BY <1>1, <2>1 DEF LoaderInv, Contents
  <2>3. \A i \in 1 .. Len(data[file]) : Executed(file, i)
    BY <1>1, <1>2, <1>5 DEF LoaderInv, Progress, Executed
  <2>4. \A i \in 1 .. Len(data[file]) : Executed(file, i)'
    BY <1>1, <2>1, <2>3 DEF Executed
  <2>5. Progress'
    BY <1>1, <2>1, <2>4 DEF Progress
  <2>6. NoneForgotten'
    <3>1. SUFFICES ASSUME NEW g \in Files, NEW i \in 1 .. Len(data'[g])
                   PROVE  Remembered(g, i)'
      BY DEF NoneForgotten
    <3>2. i \in 1 .. Len(data[g]) /\ Remembered(g, i) /\ data'[g][i] = data[g][i]
      BY <1>1 DEF LoaderInv, NoneForgotten
    <3>3. /\ done \subseteq done' /\ overrun \subseteq overrun' /\ writing \subseteq writing'
          /\ Announced(g) => Announced(g)'
          /\ file = g => Executed(g, i)'
          /\ ~Watching => ~Watching'
      BY <1>1, <2>1, <2>4, <3>2 DEF Watching, Announced
    <3>4. QED
      BY <3>2, <3>3, StillRemembered
  <2>7. QED
    BY <1>3, <2>2, <2>5, <2>6 DEF LoaderInv
<1>6. QED
  BY <1>2, <1>4, <1>5

LEMMA TruncateKeeps ==
    ASSUME LoaderInv, Truncate
    PROVE  LoaderInv'
<1>1. /\ pc = "truncate" /\ pc' = "idle"
      /\ data' = [data EXCEPT ![file] = <<>>]
      /\ queue' = Notify(Sys, file)
      /\ UNCHANGED <<watches, made, folders, callbacks, spare, file, pos, done,
                     writing, unwritten, overrun>>
  BY DEF Truncate, Goto, inotify, observer, writers
<1>2. Registered'
  BY <1>1 DEF LoaderInv, Registered
<1>3. /\ queue' \in Seq([wd : 1 .. made, file : Files])
      /\ Len(queue) <= Len(queue')
      /\ \A k \in 1 .. Len(queue) : queue'[k] = queue[k]
      /\ Len(queue) \in Nat /\ Len(queue') \in Nat
  BY <1>1, NotifyAnnounces, LenProperties DEF LoaderInv, Contents
<1>4. /\ data' \in [Files -> Seq(Commands)]
      /\ Len(data'[file]) = 0
      /\ \A g \in Files \ {file} : data'[g] = data[g]
  BY <1>1 DEF LoaderInv, Contents
<1>5. Contents'
  BY <1>1, <1>3, <1>4 DEF LoaderInv, Contents
<1>6. Progress'
  BY <1>1 DEF Progress
<1>7. NoneForgotten'
  <2>1. SUFFICES ASSUME NEW g \in Files, NEW i \in 1 .. Len(data'[g]) PROVE Remembered(g, i)'
    BY DEF NoneForgotten
  <2>2. g # file /\ i \in 1 .. Len(data[g]) /\ Remembered(g, i) /\ data'[g][i] = data[g][i]
    BY <1>1, <1>4 DEF LoaderInv, NoneForgotten
  <2>3. Announced(g) => Announced(g)'
    BY <1>3 DEF Announced
  <2>4. /\ done \subseteq done' /\ overrun \subseteq overrun' /\ writing \subseteq writing'
        /\ ~Watching => ~Watching'
    BY <1>1 DEF Watching
  <2>5. QED
    BY <2>2, <2>3, <2>4, StillRemembered
<1>8. QED
  BY <1>2, <1>5, <1>6, <1>7 DEF LoaderInv

\* Others never take the loader's watch for another directory, nor give it back once
\* they have taken it.
LEMMA RegisterKeeps ==
    ASSUME LoaderInv, NEW d \in Directories, NEW callback \in Callbacks,
           OthersRegister(d, callback)
    PROVE  LoaderInv'
<1>1. /\ callback \in spare /\ spare' = spare \ {callback}
      /\ AddWatch(d)
      /\ folders' = With(folders, watches'[d], d)
      /\ callbacks' = With(callbacks, watches'[d], callback)
      /\ UNCHANGED <<queue, data, pc, file, pos, done, writing, unwritten, overrun>>
  BY DEF OthersRegister, Register, loader, writers
<1>2. /\ made' \in Nat \ {0} /\ made <= made'
      /\ watches' \in [Directories -> 0 .. made'] /\ watches'[Sys] = 1
      /\ \A a, b \in Directories : watches'[a] = watches'[b] /\ watches'[a] # 0 => a = b
  <2>1. CASE watches[d] # 0
    BY <1>1, <2>1 DEF AddWatch, inotify, LoaderInv, Registered
  <2>2. CASE watches[d] = 0
    <3>1. made' = made + 1 /\ watches' = [watches EXCEPT ![d] = made + 1]
      BY <1>1, <2>2 DEF AddWatch
    <3>2. /\ watches \in [Directories -> 0 .. made] /\ made \in Nat \ {0} /\ watches[Sys] = 1
          /\ \A a, b \in Directories : watches[a] = watches[b] /\ watches[a] # 0 => a = b
      BY DEF LoaderInv, Registered
    <3>3. \A a \in Directories : watches'[a] = IF a = d THEN made + 1 ELSE watches[a]
      BY <3>1, <3>2
    <3>4. \A a \in Directories : watches[a] \in 0 .. made /\ watches[a] # made + 1
      BY <3>2
    <3>5. ASSUME NEW a \in Directories, NEW b \in Directories,
                 watches'[a] = watches'[b], watches'[a] # 0
          PROVE  a = b
      BY <3>2, <3>3, <3>4, <3>5
    <3>6. QED
      BY <2>2, <3>1, <3>2, <3>3, <3>5
  <2>3. QED
    BY <2>1, <2>2
<1>3. Sys \in Directories
  BY ControlFilesAssumption
<1>4. d = Sys <=> watches'[d] = 1
  BY <1>2, <1>3
<1>5. /\ DOMAIN folders' = DOMAIN folders \cup {watches'[d]}
      /\ \A wd \in DOMAIN folders' : folders'[wd] = IF wd = watches'[d] THEN d ELSE folders[wd]
      /\ DOMAIN callbacks' = DOMAIN callbacks \cup {watches'[d]}
      /\ \A wd \in DOMAIN callbacks' :
            callbacks'[wd] = IF wd = watches'[d] THEN callback ELSE callbacks[wd]
  BY <1>1 DEF With
<1>6. callback # Loader
  BY <1>1 DEF LoaderInv, Registered
<1>7. Registered'
  <2>1. 1 \in DOMAIN folders' /\ folders'[1] = Sys
    BY <1>4, <1>5 DEF LoaderInv, Registered
  <2>2. \A wd \in DOMAIN folders' : folders'[wd] = Sys => wd = 1
    BY <1>4, <1>5 DEF LoaderInv, Registered
  <2>3. 1 \in DOMAIN callbacks' /\ \A wd \in DOMAIN callbacks' : callbacks'[wd] = Loader => wd = 1
    BY <1>5, <1>6 DEF LoaderInv, Registered
  <2>4. Loader \notin spare'
    BY <1>1 DEF LoaderInv, Registered
  <2>5. QED
    BY <1>2, <2>1, <2>2, <2>3, <2>4 DEF Registered
<1>8. Contents'
  <2>1. [wd : 1 .. made, file : Files] \subseteq [wd : 1 .. made', file : Files]
    BY <1>2 DEF LoaderInv, Registered
  <2>2. queue \in Seq([wd : 1 .. made', file : Files])
    BY <2>1, SeqMonotonic, Zenon DEF LoaderInv, Contents
  <2>3. QED
    BY <1>1, <2>2 DEF LoaderInv, Contents
<1>9. Progress'
  BY <1>1 DEF LoaderInv, Progress, Executed
<1>10. ~Watching => ~Watching'
  BY <1>5, <1>6 DEF Watching
<1>11. NoneForgotten'
  BY <1>1, <1>10 DEF LoaderInv, NoneForgotten, Remembered, Executed, Announced
<1>12. QED
  BY <1>7, <1>8, <1>9, <1>11 DEF LoaderInv

LEMMA UnregisterKeeps ==
    ASSUME LoaderInv, NEW d \in Directories, NEW slash \in BOOLEAN, OthersUnregister(d, slash)
    PROVE  LoaderInv'
<1>1. /\ d # Sys /\ Unregister(d, slash)
      /\ UNCHANGED <<made, spare, queue, data, pc, file, pos, done, writing, unwritten, overrun>>
  BY DEF OthersUnregister, Unregister, loader, writers
<1>2. Registered' /\ (~Watching => ~Watching')
  <2>1. CASE UNCHANGED <<watches, folders, callbacks>>
    BY <1>1, <2>1 DEF LoaderInv, Registered, Watching
  <2>2. ASSUME NEW wd \in DOMAIN folders, folders[wd] = d,
               folders' = Without(folders, wd), callbacks' = Without(callbacks, wd),
               watches' = [watches EXCEPT ![d] = 0]
        PROVE  Registered' /\ (~Watching => ~Watching')
    <3>1. wd # 1
      BY <1>1, <2>2 DEF LoaderInv, Registered
    <3>2. /\ DOMAIN folders' = DOMAIN folders \ {wd}
          /\ \A w \in DOMAIN folders' : folders'[w] = folders[w]
          /\ DOMAIN callbacks' = DOMAIN callbacks \ {wd}
          /\ \A w \in DOMAIN callbacks' : callbacks'[w] = callbacks[w]
      BY <2>2 DEF Without, Restrict
    <3>3. /\ watches' \in [Directories -> 0 .. made] /\ watches'[Sys] = 1
          /\ \A a, b \in Directories : watches'[a] = watches'[b] /\ watches'[a] # 0 => a = b
      BY <1>1, <2>2, ControlFilesAssumption DEF LoaderInv, Registered
    <3>4. Registered'
      BY <1>1, <3>1, <3>2, <3>3 DEF LoaderInv, Registered
    <3>5. ~Watching => ~Watching'
      BY <3>2 DEF Watching
    <3>6. QED
      BY <3>4, <3>5
  <2>3. QED
    BY <1>1, <2>1, <2>2 DEF Unregister
<1>3. Contents' /\ Progress'
  BY <1>1 DEF LoaderInv, Contents, Progress, Executed
<1>4. NoneForgotten'
  BY <1>1, <1>2 DEF LoaderInv, NoneForgotten, Remembered, Executed, Announced
<1>5. QED
  BY <1>2, <1>3, <1>4 DEF LoaderInv

LEMMA LoaderNext == LoaderInv /\ [Next]_vars => LoaderInv'
<1> SUFFICES ASSUME LoaderInv, [Next]_vars PROVE LoaderInv'
  OBVIOUS
<1>1. CASE UNCHANGED vars
  <2>1. Registered' /\ Contents' /\ Progress'
    BY <1>1 DEF vars, LoaderInv, Registered, Contents, Progress, Executed
  <2>2. NoneForgotten'
    BY <1>1 DEF vars, LoaderInv, NoneForgotten, Remembered, Executed, Announced, Watching
  <2>3. QED
    BY <2>1, <2>2 DEF LoaderInv
<1>2. CASE Processes
  BY <1>2, WriteCommandKeeps, CloseFileKeeps DEF Processes
<1>3. CASE Loop
  BY <1>3, ReadcbKeeps, CheckSizeKeeps, OpenFileKeeps, ReadLinesKeeps, TruncateKeeps DEF Loop
<1>4. CASE Others
  BY <1>4, RegisterKeeps, UnregisterKeeps DEF Others
<1>5. QED
  BY <1>1, <1>2, <1>3, <1>4 DEF Next

LEMMA LoaderInvariant == Spec => []LoaderInv
<1>1. Init => LoaderInv
  BY LoaderInit
<1>2. LoaderInv /\ [Next]_vars => LoaderInv'
  BY LoaderNext
<1>3. QED
  BY <1>1, <1>2, PTL DEF Spec

\* Each line in a control file is executed, or came after the last look at the file,
\* or somebody still sees to it: who wrote it will close the file, an event of the
\* file waits, OnCloseWrite has yet to look at the file; unless another callback has
\* taken ./sys from the loader (main.cpp:43-77, Files.cpp:328-387).
THEOREM NoLineForgotten == Spec => []NoneForgotten
<1>1. LoaderInv => NoneForgotten
  BY DEF LoaderInv
<1>2. QED
  BY <1>1, LoaderInvariant, PTL

-----------------------------------------------------------------------------

\* What a step leaves of a line: it has been executed, or it stays.
GoneWhenExecuted ==
    \A f \in Files : \A i \in 1 .. Len(data[f]) :
       Executed(f, i) \/ (i \in 1 .. Len(data'[f]) /\ data'[f][i] = data[f][i])

\* Nothing but the truncation takes a line out of a control file or changes it, and
\* it takes none that was not executed with the mode of the file, but those that came
\* after the last look at it (main.cpp:53 and 76).
THEOREM NoLineLost == Spec => [][GoneWhenExecuted]_vars
<1>1. ASSUME LoaderInv, Next PROVE GoneWhenExecuted
  <2>1. CASE data' = data
    BY <2>1 DEF GoneWhenExecuted
  <2>2. CASE \E c \in Commands, f \in Files : WriteCommand(f, c)
    <3>1. PICK c \in Commands, f \in Files : WriteCommand(f, c)
      BY <2>2
    <3>2. data' = [data EXCEPT ![f] = Append(@, c)]
      BY <3>1 DEF WriteCommand
    <3>3. data[f] \in Seq(Commands) /\ \A g \in Files : Len(data[g]) \in Nat
      BY <1>1, LenProperties DEF LoaderInv, Contents
    <3>4. /\ data'[f] = Append(data[f], c) /\ \A g \in Files \ {f} : data'[g] = data[g]
          /\ Len(data'[f]) = Len(data[f]) + 1
          /\ \A i \in 1 .. Len(data[f]) : data'[f][i] = data[f][i]
      BY <1>1, <3>2, <3>3, AppendProperties DEF LoaderInv, Contents
    <3>5. QED
      BY <3>3, <3>4 DEF GoneWhenExecuted
  <2>3. CASE Truncate
    <3>1. pc = "truncate" /\ data' = [data EXCEPT ![file] = <<>>]
      BY <2>3 DEF Truncate
    <3>2. \A i \in 1 .. Len(data[file]) : Executed(file, i)
      BY <1>1, <3>1 DEF LoaderInv, Progress
    <3>3. \A g \in Files \ {file} : data'[g] = data[g]
      BY <1>1, <3>1 DEF LoaderInv, Contents
    <3>4. QED
      BY <3>2, <3>3 DEF GoneWhenExecuted
  <2>4. QED
    BY <1>1, <2>1, <2>2, <2>3
    DEF Next, Processes, Loop, Others, CloseFile, readcb, CheckSize, OpenFile, ReadLines,
        OthersRegister, OthersUnregister
<1>2. LoaderInv /\ [Next]_vars => [GoneWhenExecuted]_vars
  BY <1>1
<1>3. QED
  BY <1>2, LoaderInvariant, PTL DEF Spec

================================================================================
