--------------------------- MODULE ConfigReplica ---------------------------
(***************************************************************************)
(* What the delivery of snapshots promises a data plane, without watchers, *)
(* caches, requests or backoff: a copy of some committed configuration,    *)
(* whole, that only ever moves forward.  A restart starts without one.     *)
(***************************************************************************)
EXTENDS VersionedConfig

CONSTANTS Planes, None

VARIABLE copy    \* the snapshot a data plane runs on, or None

rvars == <<configVars, copy>>

At(v) == [version |-> v, content |-> history[v]]

Init == ConfigInit /\ copy = [d \in Planes |-> None]

Commit == ConfigNext /\ UNCHANGED copy

CatchUp(d, v) ==
    /\ v \in 1..version
    /\ copy[d] = None \/ copy[d].version < v
    /\ copy' = [copy EXCEPT ![d] = At(v)]
    /\ UNCHANGED configVars

Restart(d) ==
    /\ copy' = [copy EXCEPT ![d] = None]
    /\ UNCHANGED configVars

Next ==
    \/ Commit
    \/ \E d \in Planes : (\E v \in 1..version : CatchUp(d, v)) \/ Restart(d)

Spec == Init /\ [][Next]_rvars
=============================================================================
