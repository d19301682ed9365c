------------------------------ MODULE MCChildIO ------------------------------
(***************************************************************************)
(* All three kinds of call, one after the other.  A pipe holds less than the  *)
(* cap and a child may write more than the cap and a pipe together, so it     *)
(* meets the pipe's end, the cap's, and both at once.                         *)
(***************************************************************************)
EXTENDS ChildIO

MCKinds == {"probe", "ipc", "restricted"}

==============================================================================
