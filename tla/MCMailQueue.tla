---------------------------- MODULE MCMailQueue ----------------------------
(***************************************************************************)
(* The instance of MailQueue for TLC.  No symmetry: the run checks a       *)
(* liveness property.                                                      *)
(***************************************************************************)
EXTENDS MailQueue
=============================================================================
