----------------------------- MODULE MCControlFiles -----------------------------
(***************************************************************************)
(* An instance of ControlFiles for TLC.                                     *)
(***************************************************************************)
EXTENDS ControlFiles

MCMode == [f \in Files |-> CASE f = "loadmodule" -> "LOAD"
                             [] f = "unloadmodule" -> "UNLOAD"
                             [] OTHER -> "UNKNOWN"]
================================================================================
