------------------------- MODULE MCConsoleEditors -------------------------
(* One definition the server refuses, two names to allow, a tenant of two    *)
(* fields, two names to create, no parameters or some.                       *)
EXTENDS ConsoleEditors

CONSTANTS c1, c2, bad, x, v1, v2, n1, n2, p0, p1

MCContents == {c1, c2, bad}
MCBadContents == {bad}
MCCaps == {x}
MCFields == {"name", "quota"}
MCVals == {v1, v2}
MCNames == {n1, n2}
MCConfigs == {p0, p1}
============================================================================
