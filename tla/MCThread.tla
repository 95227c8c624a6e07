-------------------------------- MODULE MCThread --------------------------------
(***************************************************************************)
(* Instances of Thread for TLC.                                             *)
(***************************************************************************)
EXTENDS Thread
================================================================================
