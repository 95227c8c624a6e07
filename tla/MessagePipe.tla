------------------------------ MODULE MessagePipe ------------------------------
(***************************************************************************)
(* The pipe(2) behind Pipe.h and Pipe.cpp, as its users in this code base   *)
(* see it: fixed-size messages no longer than PIPE_BUF, so that a write     *)
(* puts a whole message or waits; the write end blocks when the kernel      *)
(* buffer is full, and only the read end is O_NONBLOCK (Pipe.cpp:32).       *)
(***************************************************************************)
EXTENDS Naturals, Sequences

CONSTANT PipeCap   \* messages the kernel buffer holds (65536 / sizeof(message))

\* Mutant: room for one message too many.
HasRoomForMore(pipe) == Len(pipe) <= PipeCap

\* write(2) returns at once: otherwise the writer sleeps in the kernel.
HasRoom(pipe) == Len(pipe) < PipeCap

\* read(2) finds a message: otherwise it returns -1 with EAGAIN.
Readable(pipe) == pipe # << >>

Written(pipe, msg) == Append(pipe, msg)

NextMessage(pipe) == Head(pipe)

AfterRead(pipe) == Tail(pipe)
================================================================================
