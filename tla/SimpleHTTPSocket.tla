---------------------------- MODULE SimpleHTTPSocket ----------------------------
(***************************************************************************)
(* SimpleHTTPSocket (SimpleHTTPSocket.h, .cpp) and the Socket it is         *)
(* (Socket.h, .cpp): one request, against a server that answers when it     *)
(* likes and goes away when it likes, with its answer cut into any pieces.  *)
(* The answer is a sequence of tokens: a line, or a byte of data with the   *)
(* part of the body that comes out when it is decoded, none for a byte that *)
(* inflate only keeps.  A line whose end has not come yet is not there yet. *)
(* Everything runs in the event loop: while readcb is busy nothing else is. *)
(***************************************************************************)
EXTENDS Integers, Sequences, SequencesExt

CONSTANTS
    Responses,   \* what the server may answer: stream, body and framing
    RequestSize  \* the pieces in which the request is written

VARIABLES
    response,    \* what the server answers
    unsent,      \* what of it has not arrived
    input,       \* the input evbuffer
    output,      \* length of the output evbuffer
    connection,  \* none, failed, connecting, up; deleted: there is no object
    reading,     \* readcb is running
    readline,    \* Socket::_readline
    nextRead,    \* Socket::next_read
    closing,     \* Socket::_closing
    sentData,    \* _sent_data
    buffer,      \* _buffer: the request until it is written, then the body
    callback,    \* _callback is not NULL
    parser,      \* _parser
    reports,     \* history: the calls of _callback
    gone         \* history: how the object came to be deleted

vars == <<response, unsent, input, output, connection, reading, readline,
          nextRead, closing, sentData, buffer, callback, parser, reports, gone>>

serverVars == <<response, unsent>>

Request == <<0>>

Init ==
    /\ response \in Responses
    /\ unsent = response.stream
    /\ input = <<>>
    /\ output = 0
    /\ connection = "none"
    /\ reading = FALSE
    /\ readline = FALSE
    /\ nextRead = 0
    /\ closing = FALSE
    /\ sentData = FALSE
    /\ buffer = <<>>
    /\ callback = TRUE
    /\ parser = [responseCode |-> 0, contentLength |-> -1, chunked |-> FALSE,
                 currentChunk |-> 0, headersDone |-> FALSE,
                 compressed |-> FALSE, totalIn |-> 0]
    /\ reports = <<>>
    /\ gone = "no"

-----------------------------------------------------------------------------
\* What the callback is told, at most once: afterwards it is NULL.

Report(what, body) ==
    /\ reports' = IF callback THEN Append(reports, [what |-> what, body |-> body])
                              ELSE reports
    /\ callback' = FALSE

\* Mutant: the callback is not forgotten once it was called.
OnRequestDoneAgain(body) ==
    /\ reports' = IF callback THEN Append(reports, [what |-> "done", body |-> body])
                              ELSE reports
    /\ UNCHANGED callback

OnRequestDone(body) == Report("done", body)

OnRequestError(code) == Report(code, <<>>)

NoReport == UNCHANGED <<reports, callback>>

\* The connection is told to time out at once.
Close == closing' = TRUE

-----------------------------------------------------------------------------
\* The request.

\* Get, Post and the others: a socket is used for one request.  They do not
\* look at what Connect returns.
Get ==
    /\ connection = "none"
    /\ buffer' = Request
    /\ connection' \in {"connecting", "failed"}
    /\ UNCHANGED <<serverVars, input, output, reading, readline, nextRead, closing,
                   sentData, callback, parser, reports, gone>>

Connected ==
    /\ connection = "connecting"
    /\ connection' = "up"
    /\ output' = RequestSize
    /\ buffer' = <<>>
    /\ readline' = TRUE
    /\ UNCHANGED <<serverVars, input, reading, nextRead, closing, sentData, callback,
                   parser, reports, gone>>

\* The system takes a piece of the request; libevent calls writecb, and it
\* OnWrite, when nothing is left.
Written ==
    /\ connection = "up" /\ ~reading
    /\ output > 0
    /\ output' = output - 1
    /\ sentData' = (output' = 0)
    /\ UNCHANGED <<serverVars, input, connection, reading, readline, nextRead,
                   closing, buffer, callback, parser, reports, gone>>

-----------------------------------------------------------------------------
\* The response: readcb, one line or one block of data at a time.

\* More of it arrives, perhaps before the request is sent: libevent calls readcb.
Arrive ==
    /\ connection = "up" /\ ~reading
    /\ \E n \in 1..Len(unsent) :
         /\ input' = input \o SubSeq(unsent, 1, n)
         /\ unsent' = SubSeq(unsent, n + 1, Len(unsent))
    /\ reading' = TRUE
    /\ UNCHANGED <<response, output, connection, readline, nextRead, closing,
                   sentData, buffer, callback, parser, reports, gone>>

IsLine(token) == token.kind \notin {"byte", "bad"}
HasLine == \E i \in DOMAIN input : IsLine(input[i])

\* evbuffer_readln: everything up to the first end of a line; data in front of
\* it makes a line that means nothing.
NextLine == IF IsLine(Head(input)) THEN Head(input) ELSE [kind |-> "other"]

LineMode == connection = "up" /\ reading /\ readline

TakeLine ==
    /\ LineMode /\ HasLine
    /\ input' = LET n == CHOOSE n \in DOMAIN input :
                              IsLine(input[n]) /\ \A m \in 1..(n - 1) : ~IsLine(input[m])
                IN SubSeq(input, n + 1, Len(input))

NoMoreLines ==
    /\ LineMode /\ ~HasLine
    /\ reading' = FALSE
    /\ UNCHANGED <<serverVars, input, output, connection, readline, nextRead, closing,
                   sentData, buffer, callback, parser, reports, gone>>

ReadLineTooEarly ==
    /\ TakeLine
    /\ ~sentData
    /\ OnRequestError("too early")
    /\ Close
    /\ UNCHANGED <<serverVars, output, connection, reading, readline, nextRead,
                   sentData, buffer, parser, gone>>

\* The parser after a header line; a status line counts only as the first one,
\* and of a header only the first.
Header(line) ==
    IF parser.responseCode = 0 THEN
        [parser EXCEPT !.responseCode = IF line.kind = "status" THEN line.value ELSE 0]
    ELSE CASE line.kind = "blank" -> [parser EXCEPT !.headersDone = TRUE]
           [] line.kind = "length" /\ parser.contentLength = -1 ->
                [parser EXCEPT !.contentLength = line.value]
           [] line.kind = "chunked" -> [parser EXCEPT !.chunked = TRUE]
           [] line.kind = "gzip" -> [parser EXCEPT !.compressed = TRUE]
           [] OTHER -> parser

ParseLine ==
    /\ TakeLine
    /\ sentData
    /\ ~parser.headersDone
    /\ parser' = Header(NextLine)
    /\ readline' = ~(parser'.headersDone /\ ~parser.chunked)
    /\ NoReport
    /\ UNCHANGED <<serverVars, output, connection, reading, nextRead, closing,
                   sentData, buffer, gone>>

\* Mutant: chunk 0 is taken for the end of a chunk.
ReadChunkSizeGoesOn ==
    /\ TakeLine
    /\ sentData /\ parser.headersDone
    /\ IF NextLine.kind = "size" /\ NextLine.value > 0
       THEN /\ parser' = [parser EXCEPT !.currentChunk = NextLine.value]
            /\ readline' = FALSE
            /\ nextRead' = NextLine.value
       ELSE UNCHANGED <<parser, readline, nextRead>>
    /\ NoReport
    /\ UNCHANGED <<serverVars, output, connection, reading, closing, sentData,
                   buffer, gone>>

\* A line after the headers is the size of a chunk, or the end of one.
ReadChunkSize ==
    /\ TakeLine
    /\ sentData /\ parser.headersDone
    /\ IF parser.chunked /\ parser.currentChunk = 0 /\ NextLine.kind # "blank"
       THEN IF NextLine.kind = "size" /\ NextLine.value > 0
            THEN /\ parser' = [parser EXCEPT !.currentChunk = NextLine.value]
                 /\ readline' = FALSE
                 /\ nextRead' = NextLine.value
                 /\ NoReport
                 /\ UNCHANGED closing
            ELSE /\ OnRequestDone(buffer)
                 /\ Close
                 /\ UNCHANGED <<parser, readline, nextRead>>
       ELSE NoReport /\ UNCHANGED <<parser, readline, nextRead, closing>>
    /\ UNCHANGED <<serverVars, output, connection, reading, sentData, buffer, gone>>

-----------------------------------------------------------------------------
\* ReadData.

DataMode == connection = "up" /\ reading /\ ~readline

\* How much readcb hands to ReadData, and how much of that is for the chunk.
Offered ==
    IF nextRead > 0 /\ Len(input) >= nextRead THEN nextRead ELSE Len(input)

\* Mutant: ReadData takes what it is offered, beyond the end of the chunk.
BlockUncut == SubSeq(input, 1, Offered)

Block ==
    IF parser.chunked /\ parser.currentChunk < Offered
    THEN SubSeq(input, 1, parser.currentChunk)
    ELSE SubSeq(input, 1, Offered)

\* What comes out of it.
Decoded(block) ==
    LET out[n \in 0 .. Len(block)] ==
          IF n = 0 THEN <<>> ELSE out[n - 1] \o block[n].part
    IN  out[Len(block)]

IsCorrupt(block) == \E i \in DOMAIN block : block[i].kind = "bad"

\* Mutant: a compressed body is measured after it was inflated.
LengthReachedInflated(p, body) ==
    p.contentLength > 0 /\ Len(body) >= p.contentLength

\* The body is as long as Content-Length says, in bytes as they came.
LengthReached(p, body) ==
    /\ p.contentLength > 0
    /\ (IF p.compressed THEN p.totalIn ELSE Len(body)) >= p.contentLength

\* A block is taken whole.  A gzip stream ends with the body, so that inflate has
\* used all of it: data behind the end of the stream are left out of Responses.
ReadData ==
    /\ DataMode /\ input # <<>>
    /\ ~(parser.compressed /\ IsCorrupt(Block))
    /\ nextRead' = IF nextRead > 0 /\ Len(input) >= nextRead THEN 0 ELSE nextRead
    /\ buffer' = buffer \o Decoded(Block)
    /\ parser' = [parser EXCEPT !.totalIn = @ + Len(Block),
                                !.currentChunk = IF parser.chunked THEN @ - Len(Block)
                                                                   ELSE @]
    /\ readline' = (parser.chunked /\ parser'.currentChunk = 0)
    /\ input' = SubSeq(input, Len(Block) + 1, Len(input))
    /\ reading' = (input' # <<>> /\ readline')
    /\ IF LengthReached(parser', buffer')
       THEN OnRequestDone(buffer') /\ Close
       ELSE NoReport /\ UNCHANGED closing
    /\ UNCHANGED <<serverVars, output, connection, sentData, gone>>

\* Mutant: readcb goes on for as long as there is input.
DecompressionErrorLoops ==
    /\ DataMode /\ input # <<>>
    /\ parser.compressed /\ IsCorrupt(Block)
    /\ nextRead' = IF nextRead > 0 /\ Len(input) >= nextRead THEN 0 ELSE nextRead
    /\ OnRequestError("decompression")
    /\ Close
    /\ UNCHANGED <<serverVars, input, output, connection, reading, readline, sentData,
                   buffer, parser, gone>>

\* inflate fails: nothing of the block is used, and readcb is left.
DecompressionError ==
    /\ DataMode /\ input # <<>>
    /\ parser.compressed /\ IsCorrupt(Block)
    /\ nextRead' = IF nextRead > 0 /\ Len(input) >= nextRead THEN 0 ELSE nextRead
    /\ OnRequestError("decompression")
    /\ Close
    /\ reading' = FALSE
    /\ UNCHANGED <<serverVars, input, output, connection, readline, sentData, buffer,
                   parser, gone>>

ReadDataDone ==
    /\ DataMode /\ input = <<>>
    /\ reading' = FALSE
    /\ UNCHANGED <<serverVars, input, output, connection, readline, nextRead, closing,
                   sentData, buffer, callback, parser, reports, gone>>

-----------------------------------------------------------------------------
\* The end of the object.

Deleted(how) ==
    /\ connection' = "deleted"
    /\ gone' = how
    /\ UNCHANGED <<serverVars, input, output, reading, readline, nextRead, closing,
                   sentData, buffer, parser>>

\* The peer, or the network, ends the connection, or the connect fails.
Disconnected ==
    /\ connection \in {"connecting", "up"} /\ ~reading
    /\ IF buffer # <<>> /\ parser.responseCode # 0
       THEN OnRequestDone(buffer)
       ELSE NoReport
    /\ Deleted("disconnected")

\* Nothing happened for a minute, or Close was called.
Timeout ==
    /\ connection \in {"connecting", "up"} /\ ~reading
    /\ IF closing THEN NoReport ELSE OnRequestError("timeout")
    /\ Deleted("timeout")

\* The owner, or its Module, deletes the object.
Delete ==
    /\ connection # "deleted" /\ ~reading
    /\ NoReport
    /\ Deleted("owner")

Next ==
    \/ Get \/ Connected \/ Written \/ Arrive
    \/ NoMoreLines \/ ReadLineTooEarly \/ ParseLine \/ ReadChunkSize
    \/ ReadData \/ DecompressionError \/ ReadDataDone
    \/ Disconnected \/ Timeout \/ Delete

Spec == Init /\ [][Next]_vars
\* readcb goes on until it returns.
ReadSteps == NoMoreLines \/ ReadLineTooEarly \/ ParseLine \/ ReadChunkSize
             \/ ReadData \/ DecompressionError \/ ReadDataDone

FairSpec == Spec /\ WF_vars(ReadSteps)

-----------------------------------------------------------------------------
(***************************************************************************)
(* Properties.                                                              *)
(***************************************************************************)

\* Every variable keeps its type; a chunk is never read beyond its end.
TypeOK ==
    /\ response \in Responses
    /\ unsent = <<>> \/ IsSuffix(unsent, response.stream)
    /\ \A i \in DOMAIN input : input[i] \in Range(response.stream)
    /\ output \in 0..RequestSize
    /\ connection \in {"none", "failed", "connecting", "up", "deleted"}
    /\ gone \in {"no", "disconnected", "timeout", "owner"}
    /\ {reading, readline, closing, sentData, callback} \subseteq BOOLEAN
    /\ nextRead \in Nat
    /\ parser.responseCode \in Nat /\ parser.contentLength \in Nat \cup {-1}
    /\ parser.currentChunk \in Nat /\ parser.totalIn \in Nat
    /\ \A i \in DOMAIN reports :
         reports[i].what \in {"done", "too early", "decompression", "timeout"}

\* A request is reported at most once, whatever mix of the end of the body, an
\* error, a timeout and the end of the connection follows, and the callback,
\* which may have deleted itself, is not used again.
ReportedOnce == Len(reports) <= 1

\* The body that is reported is the one the server sent, however it arrived,
\* and all of it unless the connection was cut before the end.
DoneIsTheBody ==
    \A i \in DOMAIN reports : reports[i].what = "done" =>
        \/ reports[i].body = response.body
        \/ /\ IsPrefix(reports[i].body, response.body)
           /\ gone = "disconnected" /\ unsent # <<>>

\* When readcb has seen all of a response that says where it ends, the request
\* has been reported: nothing waits in a buffer for another read or a timeout.
PromptlyReported ==
    (connection = "up" /\ ~reading /\ unsent = <<>> /\ response.framing # "close")
        => reports # <<>>

\* readcb returns: its loops come to an end on whatever arrived.
ReadEnds == reading ~> ~reading

-----------------------------------------------------------------------------
(***************************************************************************)
(* A response that keeps to the framing it announces: its headers end with  *)
(* line h, a body of a length has it, and one in chunks has as many bytes   *)
(* in each as its size says.  The body is what the bytes decode to.         *)
(***************************************************************************)

Bytes(stream) ==
    [i \in DOMAIN stream |-> IF IsLine(stream[i]) THEN [stream[i] EXCEPT !.part = <<>>]
                                                  ELSE stream[i]]

Has(header, stream, h) == \E i \in 2 .. h - 1 : stream[i].kind = header

Headers(stream, h) ==
    /\ stream[1].kind = "status" /\ stream[1].value > 0
    /\ \A i \in 2 .. h - 1 : IsLine(stream[i]) /\ stream[i].kind # "blank"
    /\ stream[h].kind = "blank"

InOnePiece(stream, h) == \A i \in h + 1 .. Len(stream) : ~IsLine(stream[i])

IsChunk(stream, i) ==
    LET end == i + stream[i].value
    IN  /\ end + 2 <= Len(stream)
        /\ \A j \in i + 1 .. end : ~IsLine(stream[j])
        /\ stream[end + 1].kind = "blank" /\ stream[end + 2].kind = "size"

InChunks(stream, h) ==
    /\ h < Len(stream) /\ stream[h + 1].kind = "size"
    /\ \A i \in h + 1 .. Len(stream) : stream[i].kind = "size" =>
         IF stream[i].value > 0 THEN IsChunk(stream, i)
                                ELSE \A j \in i .. Len(stream) : IsLine(stream[j])

Framed(framing, stream, h) ==
    /\ framing \in {"length", "chunked", "close"}
    /\ Headers(stream, h)
    /\ Has("chunked", stream, h) <=> framing = "chunked"
    /\ Has("length", stream, h) <=> framing = "length"
    /\ \A i \in 2 .. h - 1 : stream[i].kind = "length" =>
                                stream[i].value = Len(stream) - h /\ stream[i].value > 0
    /\ IF framing = "chunked" THEN InChunks(stream, h) ELSE InOnePiece(stream, h)
    /\ Has("gzip", stream, h) \/ \A i \in h + 1 .. Len(stream) :
                                     IsLine(stream[i]) \/ Len(stream[i].part) = 1

Token == [kind : STRING, value : Nat, part : Seq(Nat)]

WellFormed(r) ==
    /\ r.stream \in Seq(Token)
    /\ r.body = Decoded(Bytes(r.stream))
    /\ \E h \in 2 .. Len(r.stream) : Framed(r.framing, r.stream, h)

-----------------------------------------------------------------------------
\* What the documentation promises and the code does not keep.

\* OnRequestDone is "Called if our request finished without any http parsing
\* errors" (SimpleHTTPSocket.h:53): also if the response has no body.
FinishedIsReported ==
    (gone = "disconnected" /\ unsent = <<>>) => reports # <<>>
================================================================================
