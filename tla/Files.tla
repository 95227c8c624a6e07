--------------------------------- MODULE Files ---------------------------------
(***************************************************************************)
(* A File (Files.h, Files.cpp) and the file system under it: names, what    *)
(* they stand for, and one File object with its descriptor, whose position  *)
(* the kernel keeps, and the buffer ReadLine reads ahead into.  The loops    *)
(* of ReadLine, ReadFile and Copy take one read at a time, because another   *)
(* process appends to the files meanwhile.  The application opens files for  *)
(* reading and writing, O_RDWR; a read and a write may fail at any time.     *)
(***************************************************************************)
EXTENDS Integers, SequencesExt

CONSTANTS
    Paths,       \* names of files
    Name,        \* the one the File is made for
    Inodes,      \* and what they may stand for
    None,        \* no file, no descriptor
    Chars,       \* what is in the files,
    Delimiter,   \* and what ends a line
    Contents,    \* what is in a file at first
    MaxData,     \* the longest file (bound)
    MaxCalls,    \* the calls of the application and the appends of others (bound)
    READ_BUF,    \* the most that is read at once, WRITE_BUFFER for Copy
    MaxSize      \* the maxSize ReadFile is given

VARIABLES
    dir,      \* the inode of each name
    data,     \* what each inode holds
    name,     \* _filename
    fd,       \* _fd: the inode it is open on, or None
    pos,      \* where the descriptor is
    buffer,   \* _buffer
    call,     \* "none", or the loop that is running
    into,     \* its data or, for Copy, its newpath
    target,   \* Copy: the inode of newfile,
    at,       \* and where its descriptor is
    ok,       \* what the last call returned
    from,     \* the position where reading began,
    got,      \* what was returned since then,
    clean,    \* and whether nothing but ReadLine and ReadFile moved the position
    was,      \* Copy: what there was to copy,
    failed,   \* and whether a write did not succeed
    calls     \* how many there were

file == <<name, fd, pos, buffer>>
ghosts == <<from, got, clean>>
vars == <<dir, data, file, call, into, target, at, ok, ghosts, was, failed, calls>>

Init ==
    /\ dir \in [Paths -> Inodes \cup {None}]
    /\ \A p, q \in Paths : dir[p] = dir[q] => p = q \/ dir[p] = None
    /\ dir[Name] \in {None, CHOOSE i \in Inodes : TRUE}
    /\ data \in [Inodes -> Contents \cup {<<>>}]
    /\ \A i \in Inodes : data[i] # <<>> => i = dir[Name]
    /\ name = Name
    /\ fd = None /\ pos = 0 /\ buffer = <<>>
    /\ call = "none" /\ into = <<>> /\ target = None /\ at = 0
    /\ ok = FALSE
    /\ from = 0 /\ got = <<>> /\ clean = TRUE
    /\ was = <<>> /\ failed = FALSE
    /\ calls = 0

\* stat(2)
Exists(p) == dir[p] # None

\* open(2) of p, which may create it; ino is what it is open on then.
OpenPath(p, ino, create) ==
    \/ /\ dir[p] = ino /\ ino # None
       /\ UNCHANGED dir
    \/ /\ dir[p] = None /\ create
       /\ ino = CHOOSE i \in Inodes : i \notin {dir[q] : q \in Paths} \cup {fd, target}
       /\ dir' = [dir EXCEPT ![p] = ino]

\* All that was read since reading began.
Returned == FlattenSeq([i \in DOMAIN got |-> got[i].text])

Returns(b) ==
    /\ call' = "none"
    /\ ok' = b

\* From m to n, as far as there is something.
Part(s, m, n) == SubSeq(s, m, IF n < Len(s) THEN n ELSE Len(s))

\* read(2) from pos: the bytes of one read, at most n.
Chunk(n) == Part(data[fd], pos + 1, pos + n)

\* What is read from now on is not compared any more.
Spoil == clean' = FALSE /\ got' = <<>> /\ from' = 0

\* Where a sequence occurs in another one first, 0 for npos.
Find(s, what) ==
    LET starts == {i \in 1 .. Len(s) : Part(s, i, i + Len(what) - 1) = what}
    IN IF starts = {} THEN 0 ELSE CHOOSE i \in starts : \A j \in starts : i <= j

--------------------------------------------------------------------------------

\* The application makes a call.
Call ==
    /\ call = "none" /\ calls < MaxCalls
    /\ calls' = calls + 1

\* Open forgets the descriptor it had, and leaves _buffer as it is.
Open ==
    /\ Call
    /\ \/ /\ ~Exists(name)
          /\ fd' = None
          /\ Returns(FALSE)
          /\ UNCHANGED <<pos, from, got, clean>>
       \/ /\ Exists(name)
          /\ fd' = dir[name]
          /\ pos' = 0 /\ from' = 0 /\ got' = <<>>
          /\ clean' = (buffer = <<>>)
          /\ Returns(TRUE)
    /\ UNCHANGED <<dir, data, name, buffer, into, target, at, was, failed>>

Close ==
    /\ Call
    /\ fd' = None
    /\ Spoil
    /\ pos' = 0
    /\ UNCHANGED <<dir, data, name, buffer, call, into, target, at, ok, was, failed>>

\* Seek and Tell know nothing of what was read ahead.
Seek(p) ==
    /\ Call /\ fd # None
    /\ pos' = p
    /\ Spoil
    /\ Returns(TRUE)
    /\ UNCHANGED <<dir, data, name, fd, buffer, into, target, at, was, failed>>

Truncate(n) ==
    /\ Call /\ fd # None
    /\ data' = [data EXCEPT ![fd] = Part(@, 1, n)]
    /\ buffer' = <<>>
    /\ Spoil
    /\ Returns(TRUE)
    /\ UNCHANGED <<dir, name, fd, pos, into, target, at, was, failed>>

\* The application's own Read goes past _buffer.
Read ==
    /\ Call /\ fd # None
    /\ pos' = pos + Len(Chunk(READ_BUF))
    /\ Spoil
    /\ UNCHANGED <<dir, data, name, fd, buffer, call, into, target, at, ok, was, failed>>

\* s in the place of what an inode holds from n on.
Overwritten(old, n, s) == SubSeq(old, 1, n) \o s \o SubSeq(old, n + Len(s) + 1, Len(old))

\* Write writes all of s, or part of it when there is no room.
Write(s) ==
    /\ Call /\ fd # None /\ pos <= Len(data[fd]) /\ pos + Len(s) <= MaxData
    /\ \E n \in 0 .. Len(s) :
         /\ data' = [data EXCEPT ![fd] = Overwritten(@, pos, SubSeq(s, 1, n))]
         /\ pos' = pos + n
         /\ Returns(n = Len(s))
    /\ Spoil
    /\ UNCHANGED <<dir, name, fd, buffer, into, target, at, was, failed>>

Delete ==
    /\ Call
    /\ dir' = [dir EXCEPT ![name] = None]
    /\ Returns(Exists(name))
    /\ UNCHANGED <<data, file, into, target, at, ghosts, was, failed>>

\* Move looks whether there is something in the way and renames; the File keeps
\* the name it had.
Move(newpath, overwrite) ==
    /\ Call
    /\ LET may == (overwrite \/ ~Exists(newpath)) /\ Exists(name) IN
       /\ dir' = IF may THEN [dir EXCEPT ![name] = None, ![newpath] = dir[name]] ELSE dir
       /\ Returns(may)
    /\ UNCHANGED <<data, file, into, target, at, ghosts, was, failed>>

--------------------------------------------------------------------------------
(* ReadLine and ReadFile *)

BeginReadLine ==
    /\ Call /\ fd # None
    /\ call' = "readline"
    /\ UNCHANGED <<dir, data, file, into, target, at, ok, ghosts, was, failed>>

\* Mutant: what was read behind the line is forgotten.
LineForgets(n) ==
    /\ got' = IF clean THEN Append(got, [by |-> "ReadLine", text |-> SubSeq(buffer, 1, n)]) ELSE got
    /\ buffer' = <<>>
    /\ Returns(TRUE)

Line(n) ==
    /\ got' = IF clean THEN Append(got, [by |-> "ReadLine", text |-> SubSeq(buffer, 1, n)]) ELSE got
    /\ buffer' = SubSeq(buffer, n + 1, Len(buffer))
    /\ Returns(TRUE)

\* The loop: a line that is there is returned; nothing more to read, or an error,
\* returns the rest.
ReadLine ==
    /\ call = "readline"
    /\ LET find == Find(buffer, Delimiter) IN
       \/ /\ find # 0
          /\ Line(find + Len(Delimiter) - 1)
          /\ UNCHANGED pos
       \/ /\ find = 0 /\ Chunk(READ_BUF) # <<>>
          /\ pos' = pos + Len(Chunk(READ_BUF))
          /\ buffer' = buffer \o Chunk(READ_BUF)
          /\ UNCHANGED <<call, ok, got>>
       \/ /\ find = 0 /\ buffer # <<>>
          /\ Line(Len(buffer))
          /\ UNCHANGED pos
       \/ /\ find = 0 /\ buffer = <<>>
          /\ Returns(FALSE)
          /\ UNCHANGED <<pos, buffer, got>>
    /\ UNCHANGED <<dir, data, name, fd, into, target, at, from, clean, was, failed, calls>>

\* ReadFile starts where the descriptor is, and what was read ahead is passed over.
BeginReadFile ==
    /\ Call /\ fd # None
    /\ call' = "readfile"
    /\ into' = <<>>
    /\ IF buffer = <<>> THEN UNCHANGED ghosts ELSE Spoil
    /\ UNCHANGED <<dir, data, file, target, at, ok, was, failed>>

ReadFile ==
    /\ call = "readfile"
    /\ \/ /\ Len(into) < MaxSize /\ Chunk(READ_BUF) # <<>>
          /\ into' = into \o Chunk(READ_BUF)
          /\ pos' = pos + Len(Chunk(READ_BUF))
          /\ UNCHANGED <<call, ok, got>>
       \/ /\ \/ Len(into) < MaxSize /\ Chunk(READ_BUF) = <<>> /\ Returns(TRUE)
             \/ Len(into) < MaxSize /\ Returns(FALSE)   \* an error
             \/ Len(into) >= MaxSize /\ Returns(FALSE)
          /\ got' = IF clean /\ into # <<>> THEN Append(got, [by |-> "ReadFile", text |-> into]) ELSE got
          /\ into' = <<>>
          /\ UNCHANGED pos
    /\ UNCHANGED <<dir, data, name, fd, buffer, target, at, from, clean, was, failed, calls>>

--------------------------------------------------------------------------------
(* Copy *)

Copy(newpath, overwrite) ==
    /\ Call
    /\ \/ /\ \/ ~overwrite /\ Exists(newpath) /\ UNCHANGED fd
             \/ (overwrite \/ ~Exists(newpath)) /\ ~Exists(name) /\ fd' = None
          /\ Returns(FALSE)
          /\ UNCHANGED <<dir, data, pos, into, target, at, ghosts, was, failed>>
       \/ /\ (overwrite \/ ~Exists(newpath)) /\ Exists(name)   \* newfile cannot be opened
          /\ fd' = dir[name] /\ pos' = 0
          /\ Spoil
          /\ Returns(FALSE)
          /\ UNCHANGED <<dir, data, into, target, at, was, failed>>
       \/ /\ (overwrite \/ ~Exists(newpath)) /\ Exists(name)
          /\ fd' = dir[name] /\ pos' = 0
          /\ Spoil
          /\ was' = data[dir[name]]
          /\ \E ino \in Inodes :
               /\ OpenPath(newpath, ino, TRUE)
               /\ target' = ino /\ at' = 0
               /\ data' = [data EXCEPT ![ino] = <<>>]
          /\ call' = "copy"
          /\ into' = newpath
          /\ failed' = FALSE
          /\ UNCHANGED ok
    /\ UNCHANGED <<name, buffer>>

\* What newfile.Write returns is not looked at.
CopyChunk ==
    /\ call = "copy" /\ Chunk(READ_BUF) # <<>> /\ at + Len(Chunk(READ_BUF)) <= MaxData
    /\ pos' = pos + Len(Chunk(READ_BUF))
    /\ \E n \in 0 .. Len(Chunk(READ_BUF)) :
         /\ data' = [data EXCEPT ![target] = Overwritten(@, at, SubSeq(Chunk(READ_BUF), 1, n))]
         /\ at' = at + n
         /\ failed' = (failed \/ n < Len(Chunk(READ_BUF)))
    /\ UNCHANGED <<dir, name, fd, buffer, call, into, target, ok, ghosts, was, calls>>

CopyEnds(b) ==
    /\ fd' = None
    /\ target' = None /\ at' = 0
    /\ into' = <<>>
    /\ was' = <<>> /\ failed' = FALSE
    /\ Returns(b)
    /\ UNCHANGED <<data, name, pos, buffer, ghosts, calls>>

CopyDone ==
    /\ call = "copy" /\ Chunk(READ_BUF) = <<>>
    /\ CopyEnds(TRUE)
    /\ UNCHANGED dir

\* Mutant: an error while reading is taken for the end of the file.
CopyErrorIsTheEnd ==
    /\ call = "copy"
    /\ CopyEnds(TRUE)
    /\ UNCHANGED dir

\* An error while reading: what there is of the copy is deleted.
CopyError ==
    /\ call = "copy"
    /\ CopyEnds(FALSE)
    /\ dir' = [dir EXCEPT ![into] = None]

--------------------------------------------------------------------------------

\* Another process appends to a file.
Appended(p, c) ==
    /\ Exists(p) /\ Len(data[dir[p]]) < MaxData /\ calls < MaxCalls
    /\ calls' = calls + 1
    /\ data' = [data EXCEPT ![dir[p]] = Append(@, c)]
    /\ UNCHANGED <<dir, file, call, into, target, at, ok, ghosts, was, failed>>

Next ==
    \/ Open \/ Close \/ Read \/ Delete
    \/ \E p \in 0 .. 1 : Seek(p) \/ Truncate(p)
    \/ \E c \in Chars : Write(<<c>>) \/ Write(<<c, c>>)
    \/ BeginReadLine \/ ReadLine \/ BeginReadFile \/ ReadFile
    \/ \E p \in Paths, b \in BOOLEAN : Move(p, b) \/ Copy(p, b)
    \/ CopyChunk \/ CopyDone \/ CopyError
    \/ \E p \in Paths, c \in Chars : Appended(p, c)

Spec == Init /\ [][Next]_vars

--------------------------------------------------------------------------------
(* Properties *)

\* What ReadLine and ReadFile returned, and what they hold, is the file, from where reading
\* began to where the descriptor is: nothing is lost, doubled or put in another
\* order where a read ends in the middle of a line or of a delimiter, and a
\* delimiter is only ever at the end of a line (Files.cpp:189-213).  Any Seek,
\* Truncate, Read or Write in between, a ReadFile after a ReadLine, and an Open of
\* a File that still has something in _buffer, are outside of it: none of them
\* but Truncate touches _buffer.
LinesAreTheFile ==
    fd # None /\ clean =>
      /\ Returned \o into \o buffer = Part(data[fd], from + 1, pos)
      /\ \A i \in DOMAIN got :
           got[i].by = "ReadLine" =>
             Find(got[i].text, Delimiter) \in {0, Len(got[i].text) - Len(Delimiter) + 1}

\* A Copy that says it succeeded has copied all that there was, and what was
\* appended since; one that could not read on leaves no copy (Files.cpp:118-142).
\* Two successes are none: a write that fails is not noticed (Files.cpp:137), and a
\* file copied onto itself is empty.
CopyTells ==
    [][call = "copy" /\ call' = "none" =>
         IF ok'
         THEN \/ failed
              \/ target = fd
              \/ IsPrefix(was, data[target]) /\ IsPrefix(data[fd], data[target])
         ELSE dir'[into] = None]_vars

================================================================================
