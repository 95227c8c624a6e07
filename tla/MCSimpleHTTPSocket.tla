--------------------------- MODULE MCSimpleHTTPSocket ---------------------------
(***************************************************************************)
(* Responses for SimpleHTTPSocket: every framing, with and without gzip, one *)
(* that does not inflate, and one that has no body.                         *)
(***************************************************************************)
EXTENDS SimpleHTTPSocket

Line(kind, value) == <<[kind |-> kind, value |-> value, part |-> <<0>>]>>
Byte(part) == <<[kind |-> "byte", value |-> 0, part |-> part]>>
Bad(part) == <<[kind |-> "bad", value |-> 0, part |-> part]>>

Status == Line("status", 200)
Blank == Line("blank", 0)
Chunk(bytes) == Line("size", Len(bytes)) \o bytes \o Blank
LastChunk == Line("size", 0) \o Blank

Answer(framing, head, payload, body) ==
    [framing |-> framing, body |-> body,
     stream |-> Status \o head \o Blank \o payload]

Plain == Byte(<<1>>) \o Byte(<<2>>) \o Byte(<<3>>)
Inflating == Byte(<<>>) \o Byte(<<1, 2, 3>>) \o Byte(<<4>>)
Corrupt == Byte(<<1>>) \o Bad(<<2>>)

WithBody == {
    Answer("length", Line("length", 3), Plain, <<1, 2, 3>>),
    Answer("close", <<>>, Plain, <<1, 2, 3>>),
    Answer("chunked", Line("chunked", 0),
           Chunk(Byte(<<1>>) \o Byte(<<2>>)) \o Chunk(Byte(<<3>>)) \o LastChunk, <<1, 2, 3>>),
    Answer("chunked", Line("chunked", 0), LastChunk, <<>>),
    Answer("length", Line("gzip", 0) \o Line("length", 3), Inflating, <<1, 2, 3, 4>>),
    Answer("chunked", Line("chunked", 0) \o Line("gzip", 0),
           Chunk(Byte(<<>>)) \o Chunk(Byte(<<1, 2>>) \o Byte(<<3>>)) \o LastChunk, <<1, 2, 3>>),
    Answer("length", Line("length", 2) \o Line("gzip", 0), Corrupt, <<1, 2>>) }

\* The theorems about SimpleHTTPSocket are about such responses.
ASSUME WithBodyIsWellFormed == \A r \in WithBody : WellFormed(r)

WithoutBody == { Answer("length", Line("length", 0), <<>>, <<>>) }
================================================================================
