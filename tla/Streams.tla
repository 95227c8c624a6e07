-------------------------------- MODULE Streams --------------------------------
(***************************************************************************)
(* GZipCompressor, LZMACompressor and GZipDecompressor (Compressor.cpp,     *)
(* Decompressor.cpp), each the Writer that the next one is given: the       *)
(* compressor writes into a StringWriter, and whoever carries its contents  *)
(* hands them to the decompressor in pieces, whose StringWriter collects    *)
(* what went in.  zlib and liblzma are external; their streams are pairs of *)
(* a byte and how often it comes, Sync for the end of a flush.              *)
(***************************************************************************)
EXTENDS Integers, SequencesExt

CONSTANTS
    Bytes,        \* the bytes written
    MaxBytes,     \* how many of them, all in all (bound)
    BUFFER_SIZE   \* Writer::BUFFER_SIZE

VARIABLES
    kind,      \* the compressor: "gzip" or "lzma"
    writing,      \* whose Write is running: "none", "compressor" or "decompressor"
    zIn,       \* avail_in and next_in of the compressor
    pending,   \* what deflate (lzma_code) has for us and found no room for
    flushed,   \* the end of what was fed has been compressed
    stuck,     \* lzma_code could do nothing the last time
    carried,   \* the buffer of the StringWriter in between
    dIn,       \* avail_in and next_in of the decompressor
    window,    \* what inflate has for us and found no room for
    outLen,    \* out_len, and what Write returned last
    fed,       \* all that was ever given to the compressor
    received     \* the buffer of the StringWriter at the end

vars == <<kind, writing, zIn, pending, flushed, stuck, carried, dIn, window, outLen,
          fed, received>>

Sync == [byte |-> "sync", times |-> 0]

Init ==
    /\ kind \in {"gzip", "lzma"}
    /\ writing = "none"
    /\ zIn = <<>> /\ pending = <<>> /\ flushed = FALSE /\ stuck = FALSE
    /\ carried = <<>>
    /\ dIn = <<>> /\ window = <<>>
    /\ outLen = 0
    /\ fed = <<>> /\ received = <<>>

--------------------------------------------------------------------------------
(* zlib and liblzma *)

\* The bytes s as pairs, the ones that are equal put together.
Pack(s) ==
    LET p[n \in 0 .. Len(s)] ==
          IF n = 0 THEN <<>>
          ELSE LET before == p[n - 1] IN
               IF before # <<>> /\ Last(before).byte = s[n]
               THEN [before EXCEPT ![Len(before)].times = @ + 1]
               ELSE Append(before, [byte |-> s[n], times |-> 1])
    IN p[Len(s)]

Unpack(s) == FlattenSeq([i \in DOMAIN s |-> [j \in 1 .. s[i].times |-> s[i].byte]])

Least(a, b) == IF a < b THEN a ELSE b

Rest(s, n) == SubSeq(s, n + 1, Len(s))

\* deflate and lzma_code take input as long as there is room for what becomes of
\* it; Z_SYNC_FLUSH wants everything written, LZMA_RUN nothing in particular.
Encode(taken, packed, room) ==
    /\ \E n \in 0 .. Least(room, Len(packed)) :
         /\ taken < Len(zIn) => n = room
         /\ kind = "gzip" => n = Least(room, Len(packed))
         /\ zIn' = Rest(zIn, taken)
         /\ pending' = Rest(packed, n)
         /\ carried' = carried \o SubSeq(packed, 1, n)
         /\ outLen' = outLen + n

--------------------------------------------------------------------------------

\* Mutant: there is only one time round.
AgainNever(written) == FALSE

\* do ... while (avail_out == 0)
Again(written) == written = BUFFER_SIZE

\* Write of a compressor, up to its loop.
Compress(data) ==
    /\ writing = "none"
    /\ Len(fed) + Len(data) <= MaxBytes
    /\ writing' = "compressor"
    /\ zIn' = data
    /\ flushed' = (flushed /\ data = <<>>)
    /\ outLen' = 0
    /\ fed' = fed \o data
    /\ UNCHANGED <<kind, pending, stuck, carried, dIn, window, received>>

\* One time round the loop of GZipCompressor::Write.  Nothing to do is
\* Z_BUF_ERROR, which ends the loop as a buffer that is not full does.
Deflate ==
    /\ writing = "compressor" /\ kind = "gzip"
    /\ \E taken \in 0 .. Len(zIn) :
         LET end    == taken = Len(zIn) /\ ~flushed
             packed == pending \o Pack(SubSeq(zIn, 1, taken)) \o (IF end THEN <<Sync>> ELSE <<>>)
         IN /\ Encode(taken, packed, BUFFER_SIZE)
            /\ flushed' = (flushed \/ end)
            /\ writing' = IF Again(outLen' - outLen) THEN writing ELSE "none"
    /\ UNCHANGED <<kind, stuck, dIn, window, fed, received>>

\* One time round the loop of LZMACompressor::Write; nothing to do for the second
\* time is LZMA_BUF_ERROR and returns -1.
LZMACode ==
    /\ writing = "compressor" /\ kind = "lzma"
    /\ \E taken \in 0 .. Len(zIn) :
         LET packed == pending \o Pack(SubSeq(zIn, 1, taken))
             idle   == zIn = <<>> /\ carried' = carried
         IN \/ /\ Encode(taken, packed, BUFFER_SIZE)
               /\ ~(idle /\ stuck)
               /\ stuck' = idle
               /\ writing' = IF Again(outLen' - outLen) THEN writing ELSE "none"
            \/ /\ taken = Len(zIn) /\ zIn = <<>> /\ stuck
               /\ outLen' = -1
               /\ writing' = "none"
               /\ UNCHANGED <<zIn, pending, stuck, carried>>
    /\ UNCHANGED <<kind, flushed, dIn, window, fed, received>>

\* Write of the decompressor, up to its loop, with the next n of what was carried.
Decompress(n) ==
    /\ writing = "none" /\ kind = "gzip"
    /\ writing' = "decompressor"
    /\ dIn' = SubSeq(carried, 1, n)
    /\ carried' = Rest(carried, n)
    /\ outLen' = 0
    /\ UNCHANGED <<kind, zIn, pending, flushed, stuck, window, fed, received>>

\* One time round the loop of GZipDecompressor::Write; inflate takes no more input
\* than it has room for.
Inflate ==
    /\ writing = "decompressor"
    /\ \E taken \in 0 .. Len(dIn) :
         LET unpacked == window \o Unpack(SubSeq(dIn, 1, taken))
             before   == window \o Unpack(SubSeq(dIn, 1, taken - 1))
             n        == Least(BUFFER_SIZE, Len(unpacked))
         IN /\ taken < Len(dIn) => Len(unpacked) >= BUFFER_SIZE
            /\ taken > 0 => Len(before) < BUFFER_SIZE
            /\ dIn' = Rest(dIn, taken)
            /\ window' = Rest(unpacked, n)
            /\ received' = received \o SubSeq(unpacked, 1, n)
            /\ outLen' = outLen + n
            /\ UNCHANGED zIn
            /\ writing' = IF Again(n) THEN writing ELSE "none"
    /\ UNCHANGED <<kind, pending, flushed, stuck, carried, fed>>

Next ==
    \/ \E n \in 0 .. MaxBytes : \E data \in [1 .. n -> Bytes] : Compress(data)
    \/ Deflate
    \/ LZMACode
    \/ \E n \in 1 .. Len(carried) : Decompress(n)
    \/ Inflate

Spec == Init /\ [][Next]_vars

--------------------------------------------------------------------------------
(* Properties *)

\* When a Write of GZipCompressor has returned, everything it was ever given is in
\* its writer, and the same holds for GZipDecompressor: whoever has passed on what
\* was written, in whatever pieces, has all of the bytes at the other end
\* (Compressor.cpp:56-83, Decompressor.cpp:52-79).  Without it the last bytes of a
\* message wait for the next one.  LZMACompressor, which runs with LZMA_RUN and is
\* never finished (Compressor.cpp:111), only promises a beginning of them.
NothingHeldBack ==
    writing = "none" =>
      LET through == received \o window \o Unpack(carried) IN
      /\ IsPrefix(through, fed)
      /\ kind = "gzip" => through = fed /\ window = <<>>

================================================================================
