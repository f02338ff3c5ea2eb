---------------------------- MODULE MCInvocation ----------------------------
(***************************************************************************)
(* The instances of Invocation that TLC checks.                            *)
(***************************************************************************)
EXTENDS Invocation
=============================================================================
