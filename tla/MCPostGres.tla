------------------------------- MODULE MCPostGres -------------------------------
(***************************************************************************)
(* Instances of PostGres for TLC.                                           *)
(***************************************************************************)
EXTENDS PostGres
================================================================================
