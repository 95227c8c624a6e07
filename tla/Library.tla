-------------------------------- MODULE Library --------------------------------
(***************************************************************************)
(* The classes that a caller drives: String (WildCmp, Strings), the         *)
(* compressors (Streams), File (Files) and Socket.  They do not know of     *)
(* each other; a behaviour is one of one of them, part.                     *)
(***************************************************************************)
EXTENDS WildCmp, Integers

CONSTANTS
    None,                          \* what the others hold
    ShortSize, IntSize, LongSize,  \* Strings: how many values the types have,
    TextBytes, MaxTextBytes,       \* the bytes base64 is tried on, and how many
    StreamBytes, MaxStreamBytes,   \* Streams: the bytes written, and how many
    BUFFER_SIZE,
    Paths, Name, Inodes,           \* Files
    Chars, Delimiter, Contents,
    MaxData, MaxFileCalls, READ_BUF, MaxSize,
    MaxSocketBytes, MaxSettings,   \* Socket
    Intervals, Timeouts, Default

\* A type with one more bit has twice as many values; long has more than short and int.
ASSUME ConversionAssumption ==
    /\ \A size \in {ShortSize, IntSize, LongSize} : size \in Nat \ {0} /\ size % 2 = 0
    /\ LongSize % (2 * IntSize) = 0 /\ LongSize % (2 * ShortSize) = 0
    /\ TextBytes \subseteq 0 .. 255 /\ MaxTextBytes \in Nat

ASSUME LibraryAssumption ==
    /\ BUFFER_SIZE \in Nat /\ MaxStreamBytes \in Nat
    /\ Name \in Paths /\ READ_BUF \in Nat \ {0}
    /\ Delimiter \in Seq(Chars) /\ Contents \subseteq Seq(Chars)

VARIABLES
    part,
    called, answer,
    kind, writing, zIn, pending, flushed, stuck, carried, dIn, window, outLen, fed, received,
    dir, data, name, fd, pos, buffer, call, into, target, at, ok, from, got, clean, was,
    failed, calls,
    connection, readline, read_more, next_read, is_connected, closing, options, sfd, timeout,
    armed, ends, arrived, drained, shown, place, asked, late, kept, settings

S == INSTANCE Strings WITH Bytes <- TextBytes, MaxBytes <- MaxTextBytes

Z == INSTANCE Streams WITH Bytes <- StreamBytes, MaxBytes <- MaxStreamBytes

F == INSTANCE Files WITH MaxCalls <- MaxFileCalls

K == INSTANCE Socket WITH
       fd <- sfd, pc <- place, calls <- settings,
       MaxBytes <- MaxSocketBytes, MaxCalls <- MaxSettings

strings == <<called, answer>>
streams == <<kind, writing, zIn, pending, flushed, stuck, carried, dIn, window, outLen, fed,
             received>>
files == <<dir, data, name, fd, pos, buffer, call, into, target, at, ok, from, got, clean,
           was, failed, calls>>
socket == <<connection, readline, read_more, next_read, is_connected, closing, options, sfd,
            timeout, armed, ends, arrived, drained, shown, place, asked, late, kept, settings>>
lvars == <<part, vars, strings, streams, files, socket>>

\* The others do nothing.
NoWildCmp ==
    /\ text = <<>> /\ wild = <<>> /\ str = 1 /\ wc = 1 /\ cp = 0 /\ mp = 0
    /\ pc = "done" /\ ret = TRUE

NoStrings == called = None /\ answer = <<>>

NoStreams ==
    /\ kind = None /\ writing = None /\ zIn = <<>> /\ pending = <<>> /\ flushed = FALSE
    /\ stuck = FALSE /\ carried = <<>> /\ dIn = <<>> /\ window = <<>> /\ outLen = 0
    /\ fed = <<>> /\ received = <<>>

NoFiles ==
    /\ dir = None /\ data = None /\ name = None /\ fd = None /\ pos = 0 /\ buffer = <<>>
    /\ call = None /\ into = <<>> /\ target = None /\ at = 0 /\ ok = FALSE /\ from = 0
    /\ got = <<>> /\ clean = TRUE /\ was = <<>> /\ failed = FALSE /\ calls = 0

NoSocket ==
    /\ connection = None /\ readline = FALSE /\ read_more = FALSE /\ next_read = 0
    /\ is_connected = FALSE /\ closing = FALSE /\ options = None /\ sfd = None
    /\ timeout = 0 /\ armed = 0 /\ ends = {} /\ arrived = 0 /\ drained = 0 /\ shown = 0
    /\ place = None /\ asked = None /\ late = {} /\ kept = FALSE /\ settings = 0

LibraryInit ==
    \/ part = "WildCmp" /\ Init /\ NoStrings /\ NoStreams /\ NoFiles /\ NoSocket
    \/ part = "Strings" /\ NoWildCmp /\ S!Init /\ NoStreams /\ NoFiles /\ NoSocket
    \/ part = "Streams" /\ NoWildCmp /\ NoStrings /\ Z!Init /\ NoFiles /\ NoSocket
    \/ part = "Files" /\ NoWildCmp /\ NoStrings /\ NoStreams /\ F!Init /\ NoSocket
    \/ part = "Socket" /\ NoWildCmp /\ NoStrings /\ NoStreams /\ NoFiles /\ K!Init

LibraryNext ==
    /\ UNCHANGED part
    /\ \/ part = "WildCmp" /\ Next /\ UNCHANGED <<strings, streams, files, socket>>
       \/ part = "Strings" /\ S!Reply /\ UNCHANGED <<vars, streams, files, socket>>
       \/ part = "Streams" /\ Z!Next /\ UNCHANGED <<vars, strings, files, socket>>
       \/ part = "Files" /\ F!Next /\ UNCHANGED <<vars, strings, streams, socket>>
       \/ part = "Socket" /\ K!Next /\ UNCHANGED <<vars, strings, streams, files>>

LibrarySpec == LibraryInit /\ [][LibraryNext]_lvars /\ WF_vars(Next)

\* What String writes in digits or in base64 it reads back (Strings.tla;
\* String.cpp:149-179, 189-272).
ConversionsInvert == S!ConversionsInvert

\* A Write of a compressor or decompressor leaves nothing behind in zlib
\* (Streams.tla; Compressor.cpp:56-83, Decompressor.cpp:52-79).
NothingHeldBack == Z!NothingHeldBack

\* ReadLine and ReadFile return the file (Files.tla; Files.cpp:189-231).
LinesAreTheFile == F!LinesAreTheFile

\* Copy tells whether there is a copy (Files.tla; Files.cpp:118-142).
CopyTells == F!CopyTells

\* What the application sets is what the connection has (Socket.tla;
\* Socket.cpp:117-128, 147-189).
SettingsApplied == part = "Socket" => K!SettingsApplied

\* readcb calls the callback of the mode it is in, and leaves no line behind
\* (Socket.tla; Socket.cpp:75-109).
ReadsInMode == K!ReadsInMode

================================================================================
