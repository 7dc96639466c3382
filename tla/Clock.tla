------------------------------- MODULE Clock -------------------------------
(***************************************************************************)
(* Date.now() of the API process, in ticks.  The components that read it   *)
(* share the variable; the module that composes them says when it moves.   *)
(***************************************************************************)
VARIABLE now
=============================================================================
