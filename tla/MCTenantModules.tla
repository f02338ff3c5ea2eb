--------------------------- MODULE MCTenantModules ---------------------------
(* A version that is there, one to upload, and a file that is no module.     *)
EXTENDS TenantModules

CONSTANTS m1, m2, bad, u1

MCModules == {m1, m2}
MCUploads == {u1}
MCStored == {m1}
MCBroken == {bad}

\* To spend the states on the rest: the version that is there was rejected.
MCInit == Init /\ \A m \in Stored : status[m] = "rejected"
MCSpec == MCInit /\ [][TenantNext]_vars /\ TenantFairness
==============================================================================
