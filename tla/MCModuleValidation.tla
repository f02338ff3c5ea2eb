------------------------- MODULE MCModuleValidation -------------------------
(* Two contents, two upload requests at a time.                              *)
EXTENDS ModuleValidation

CONSTANTS m1, m2, u1, u2

MCModules == {m1, m2}
MCUploads == {u1, u2}
=============================================================================
