--------------------------- MODULE MCConfigWrites ---------------------------
(***************************************************************************)
(* The instances of ConfigWrites that TLC checks.                          *)
(***************************************************************************)
EXTENDS ConfigWrites, TLC

CONSTANTS t1, h1, m1

\* The tenant has uploaded a module for the hook.
OneModule == m1 :> <<t1, h1>>

NoOwners == [m \in {} |-> None]

Symmetry == Permutations(Clients) \cup Permutations(Caps) \cup Permutations(Specs)
=============================================================================
