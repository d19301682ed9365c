------------------------------ MODULE MCSchedule ------------------------------
(***************************************************************************)
(* A host of each kind, one console, the always-on driver and the daily      *)
(* pass.  The install root is sound, or its binary alone can be replaced.    *)
(***************************************************************************)
EXTENDS Schedule

OneLooseLeg == {{}, {"exe"}}
=============================================================================
