------------------------------ MODULE MCJobThread ------------------------------
(***************************************************************************)
(* Instances of JobThread for TLC.  The jobs are not interchangeable: some  *)
(* are added in front, some clear their post hook.                          *)
(***************************************************************************)
EXTENDS JobThread

\* From everywhere.
FromAnywhere == CallSites
\* Never on Main: the thread that empties the pipe never waits for room in it.
FromOthers == {"idle", "exec"}
================================================================================
