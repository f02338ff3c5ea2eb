---------------------------- MODULE MCModuleCache ---------------------------
(***************************************************************************)
(* The instances of ModuleCache that TLC checks.                           *)
(***************************************************************************)
EXTENDS ModuleCache
=============================================================================
