------------------------------- MODULE MCLibrary -------------------------------
(***************************************************************************)
(* An instance of Library for TLC.                                          *)
(***************************************************************************)
EXTENDS Library, SequencesExt

MCTexts == BoundedSeq(Char \ {Star, Query}, 4) \cup BoundedSeq({Star, Query}, 2)
MCWilds == BoundedSeq(Char, 4)
MCDelimiter == <<"d", "d">>
MCContents == {<<"d", "d", "x">>, <<"x", "d", "d">>, <<"d", "x", "d">>, <<"d", "d", "d">>}

================================================================================
