------------------------- MODULE MCConsoleSession -------------------------
(* Two keys, one of them unknown to the server; one token that ends at once  *)
(* and one that outlives the longest timer.                                  *)
EXTENDS ConsoleSession, TLC

CONSTANTS k1, k2, bad, t1, t2

MCKeys == {k1, k2, bad}
MCBogus == {bad}
MCTokens == {t1, t2}
MCExp == (t1 :> 1) @@ (t2 :> 2)

===========================================================================
