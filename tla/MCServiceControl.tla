--------------------------- MODULE MCServiceControl ---------------------------
(***************************************************************************)
(* Two builds installed over each other in turn on a host of each kind; the  *)
(* settling probe asks three times (any number of the manager's transitions  *)
(* may fall between two asks), and three things go wrong in a behaviour.     *)
(***************************************************************************)
EXTENDS ServiceControl
=============================================================================
