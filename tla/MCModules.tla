------------------------------- MODULE MCModules -------------------------------
(***************************************************************************)
(* An instance of Modules for TLC: a module that loads submodules, and two  *)
(* of one name that want threads, of which one is loaded again when it      *)
(* crashes.                                                                 *)
(***************************************************************************)
EXTENDS Modules

MCModName == [p \in Paths |-> IF p = "loads" THEN "loads" ELSE "threaded"]
MCOnCrash == [p \in Paths |-> IF p = "threaded.so" THEN "reload" ELSE "die"]
================================================================================
