------------------------ MODULE MCOperationalConsole ------------------------
(***************************************************************************)
(* Small instances of OperationalConsole: an organization with a FluentCRM *)
(* company and one without, an operation of a company or a verification,   *)
(* and two slots that may have it in hand.                                 *)
(***************************************************************************)
EXTENDS OperationalConsole
=============================================================================
