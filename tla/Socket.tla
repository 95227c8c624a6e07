--------------------------------- MODULE Socket ---------------------------------
(***************************************************************************)
(* Socket (Socket.h, Socket.cpp): a connection on a libevent bufferevent,   *)
(* which is external.  The bytes that arrive are numbered, so the input is  *)
(* drained + 1 .. arrived; some of them end a line.  The application calls  *)
(* the socket from its callbacks and between them; the socket itself is     *)
(* only run by the event loop.  setsockopt succeeds.                        *)
(***************************************************************************)
EXTENDS Integers, FiniteSets

CONSTANTS
    MaxBytes,  \* the bytes that arrive (bound)
    MaxCalls,  \* the settings that the application makes (bound)
    Intervals, \* keep alive intervals
    Timeouts,  \* the timeouts that it sets, 0 for none
    Default    \* 45, the interval that the constructors set

VARIABLES
    connection, \* _connection: "none" (NULL), "connecting", "open" or "deleted" with the socket
    readline,   \* _readline, read_more, next_read, _is_connected, _closing
    read_more,
    next_read,
    is_connected,
    closing,
    options,    \* _tcp_no_delay, _tcp_keep_alive, _tcp_keep_alive_interval
    fd,         \* and those options of the descriptor
    timeout,    \* _timeout,
    armed,      \* and the timeout of the bufferevent, 0 for none
    ends,       \* the bytes that end a line
    arrived,
    drained,
    shown,      \* how many bytes ReadData is given
    pc,         \* "idle", a place of readcb, or the callback that runs
    asked,      \* the timeout and the interval that the application set last
    late,       \* the options that it set in Connected
    kept,       \* the last ReadData has consumed nothing
    calls

buffer == <<ends, arrived, drained>>
flow == <<buffer, shown, kept, pc, read_more, next_read>>
settings == <<options, fd, timeout, armed, asked, late>>
svars == <<connection, readline, read_more, next_read, is_connected, closing, options, fd,
           timeout, armed, ends, arrived, drained, shown, pc, asked, late, kept, calls>>

Defaults == [no_delay |-> FALSE, keep_alive |-> TRUE, interval |-> Default]
Fresh == [no_delay |-> FALSE, keep_alive |-> FALSE, interval |-> 0]

\* The two constructors; the second is given the bufferevent of an accepted
\* connection.  Neither sets _timeout, so it is what was in the memory
\* (-7 stands for anything but zero).
Init ==
    /\ connection \in {"none", "open"}
    /\ readline = FALSE /\ read_more = FALSE /\ next_read = 0
    /\ is_connected = FALSE /\ closing = FALSE
    /\ options = Defaults /\ fd = Fresh
    /\ timeout \in {0, -7} /\ armed = 0
    /\ ends \in SUBSET (1 .. MaxBytes) /\ arrived = 0 /\ drained = 0
    /\ shown = 0 /\ pc = "idle"
    /\ asked = [timeout |-> 0, interval |-> Default] /\ late = {} /\ kept = FALSE
    /\ calls = 0

--------------------------------------------------------------------------------
(* What the application calls *)

Calls ==
    /\ connection # "deleted"
    /\ pc \in {"idle", "ReadLine", "ReadData", "Connected"}
    /\ calls < MaxCalls /\ calls' = calls + 1

SetReadLine(b) ==
    /\ Calls
    /\ readline' = b
    /\ UNCHANGED <<connection, is_connected, closing, flow, settings>>

\* What ReadData may set before it returns.
AskFor(more, n) ==
    /\ Calls /\ pc = "ReadData"
    /\ read_more' = more
    /\ next_read' = n
    /\ UNCHANGED <<connection, readline, is_connected, closing, buffer, shown, kept, pc, settings>>

\* A timeout that is not positive is taken away from the bufferevent; _timeout stays.
TimeoutSet(t, connected) ==
    /\ timeout' = IF t > 0 THEN t ELSE timeout
    /\ armed' = IF connected THEN t ELSE armed
    /\ asked' = [asked EXCEPT !.timeout = t]

SetTimeout(t) ==
    /\ Calls
    /\ TimeoutSet(t, connection # "none")
    /\ UNCHANGED <<connection, readline, is_connected, closing, flow, options, fd, late>>

\* In Connected the socket does not count as connected.
Late(option) == late' = IF pc = "Connected" THEN late \cup {option} ELSE late \ {option}

\* Mutant: a connected socket only remembers it.
SetTCPNoDelayLater(b) ==
    /\ Calls
    /\ options' = [options EXCEPT !.no_delay = b]
    /\ Late("no_delay")
    /\ UNCHANGED <<connection, readline, is_connected, closing, flow, fd, timeout, armed, asked>>

SetTCPNoDelay(b) ==
    /\ Calls
    /\ options' = [options EXCEPT !.no_delay = b]
    /\ fd' = IF is_connected THEN [fd EXCEPT !.no_delay = b] ELSE fd
    /\ Late("no_delay")
    /\ UNCHANGED <<connection, readline, is_connected, closing, flow, timeout, armed, asked>>

\* The interval is remembered only if the socket is connected.
SetTCPKeepAlive(b, delay) ==
    /\ Calls
    /\ options' = [options EXCEPT !.keep_alive = b,
                                  !.interval = IF is_connected /\ b THEN delay ELSE @]
    /\ fd' = IF ~is_connected THEN fd
             ELSE [fd EXCEPT !.keep_alive = b, !.interval = IF b THEN delay ELSE @]
    /\ asked' = [asked EXCEPT !.interval = IF b THEN delay ELSE @]
    /\ Late("keep_alive")
    /\ UNCHANGED <<connection, readline, is_connected, closing, flow, timeout, armed>>

\* A connect that is refused at once frees the bufferevent and leaves the socket as
\* it was; the second one returns false.
Connect(t) ==
    /\ Calls /\ connection = "none"
    /\ connection' = "connecting"
    /\ IF t > 0 THEN TimeoutSet(t, TRUE) ELSE UNCHANGED <<timeout, armed, asked>>
    /\ UNCHANGED <<readline, is_connected, closing, flow, options, fd, late>>

\* Zero is for libevent no timeout.
Close ==
    /\ Calls /\ connection # "none"
    /\ closing' = TRUE
    /\ timeout' = 0
    /\ armed' = 0
    /\ UNCHANGED <<connection, readline, is_connected, flow, options, fd, asked, late>>

--------------------------------------------------------------------------------
(* readcb *)

Input == arrived - drained
Lines == {p \in ends : drained < p /\ p <= arrived}

At(place) == pc = place /\ connection # "deleted"
Goto(place) ==
    /\ pc' = place
    /\ UNCHANGED <<connection, readline, is_connected, closing, settings, calls>>

Receive(n) ==
    /\ At("idle") /\ connection = "open" /\ arrived + n <= MaxBytes
    /\ arrived' = arrived + n
    /\ kept' = FALSE
    /\ Goto("begin")
    /\ UNCHANGED <<ends, drained, shown, read_more, next_read>>

Begin ==
    /\ At("begin")
    /\ Goto(IF readline THEN "lines" ELSE "data")
    /\ UNCHANGED <<buffer, shown, kept, read_more, next_read>>

\* evbuffer_readln takes the first line that is complete out of the input.
TakeLine ==
    /\ At("lines")
    /\ IF Lines = {}
       THEN /\ Goto("idle")
            /\ UNCHANGED drained
       ELSE /\ Goto("ReadLine")
            /\ drained' \in Lines /\ \A p \in Lines : drained' <= p
    /\ UNCHANGED <<ends, arrived, shown, kept, read_more, next_read>>

ReadLineReturns ==
    /\ At("ReadLine")
    /\ Goto(IF readline THEN "lines" ELSE "begin")
    /\ UNCHANGED <<buffer, shown, kept, read_more, next_read>>

\* ReadData is given all of the input, or as much as it has asked for.
ShowData ==
    /\ At("data")
    /\ read_more' = FALSE
    /\ IF Input = 0
       THEN /\ Goto("idle")
            /\ UNCHANGED <<shown, next_read>>
       ELSE /\ Goto("ReadData")
            /\ IF next_read > 0 /\ Input >= next_read
               THEN shown' = next_read /\ next_read' = 0
               ELSE shown' = Input /\ UNCHANGED next_read
    /\ UNCHANGED <<buffer, kept>>

\* Mutant: nobody looks whether ReadData has changed the mode.
ReadDataReturnsBlind(used) ==
    /\ At("ReadData") /\ used <= shown
    /\ drained' = drained + used
    /\ kept' = (used = 0)
    /\ Goto(IF read_more THEN "data" ELSE "idle")
    /\ UNCHANGED <<ends, arrived, shown, read_more, next_read>>

\* It returns what it has consumed; the mode is looked at if that is not nothing.
ReadDataReturns(used) ==
    /\ At("ReadData") /\ used <= shown
    /\ drained' = drained + used
    /\ kept' = (used = 0)
    /\ Goto(CASE used > 0 /\ used = Input -> "idle"
              [] used > 0 /\ used < Input /\ readline -> "begin"
              [] OTHER -> IF read_more THEN "data" ELSE "idle")
    /\ UNCHANGED <<ends, arrived, shown, read_more, next_read>>

--------------------------------------------------------------------------------
(* eventcb *)

\* BEV_EVENT_CONNECTED, up to the call of Connected.
EventConnected ==
    /\ At("idle") /\ connection = "connecting"
    /\ connection' = "open"
    /\ fd' = [options EXCEPT !.interval = IF options.keep_alive THEN @ ELSE fd.interval]
    /\ armed' = IF timeout # 0 THEN timeout ELSE armed
    /\ pc' = "Connected"
    /\ UNCHANGED <<readline, read_more, next_read, is_connected, closing, options, timeout,
                   buffer, shown, asked, late, kept, calls>>

ConnectedReturns ==
    /\ At("Connected")
    /\ pc' = "idle"
    /\ is_connected' = TRUE
    /\ UNCHANGED <<connection, readline, read_more, next_read, closing, settings, buffer,
                   shown, kept, calls>>

\* A timeout, the end of the connection or an error; Timeout or Disconnected is
\* called and the socket deletes itself.
EventEnd ==
    /\ At("idle") /\ connection # "none"
    /\ connection' = "deleted"
    /\ UNCHANGED <<readline, is_connected, closing, flow, settings, calls>>

--------------------------------------------------------------------------------
Application ==
    \/ \E b \in BOOLEAN : SetReadLine(b) \/ SetTCPNoDelay(b)
    \/ \E b \in BOOLEAN, delay \in Intervals : SetTCPKeepAlive(b, delay)
    \/ \E more \in BOOLEAN, n \in 0 .. MaxBytes : AskFor(more, n)
    \/ \E t \in Timeouts : SetTimeout(t) \/ Connect(t)
    \/ Close

readcb ==
    \/ \E n \in 1 .. MaxBytes : Receive(n)
    \/ Begin \/ TakeLine \/ ReadLineReturns \/ ShowData
    \/ \E used \in 0 .. MaxBytes : ReadDataReturns(used)

eventcb == EventConnected \/ ConnectedReturns \/ EventEnd

Next == Application \/ readcb \/ eventcb

Spec == Init /\ [][Next]_svars

--------------------------------------------------------------------------------
(* Properties *)

\* What the application has set is what the connection has, whenever it was set,
\* except an option that it set in Connected, which waits for ever; a timeout is
\* armed however Connect, SetTimeout and the connection's establishment come to
\* follow each other (Socket.cpp:117-128, 147-189, 209-210).
SettingsApplied ==
    is_connected =>
        /\ fd.no_delay = options.no_delay \/ "no_delay" \in late
        /\ fd.keep_alive = options.keep_alive \/ "keep_alive" \in late
        /\ asked.timeout > 0 /\ ~closing => armed = asked.timeout

\* However often the callbacks change the mode, ReadData is not called in line mode
\* and no complete line stays in the input when readcb returns; unless ReadData
\* changed it and consumed nothing (Socket.cpp:75-109).
ReadsInMode ==
    [][/\ pc = "data" /\ pc' = "ReadData" => ~readline \/ kept
       /\ pc \in {"lines", "data", "ReadData"} /\ pc' = "idle" /\ readline => Lines' = {} \/ kept']_svars

\* Socket.h:155: SetTCPKeepAlive "allows you to set a custom tcp keep alive interval".
IntervalIsCustom == is_connected /\ fd.keep_alive => fd.interval = asked.interval

================================================================================
