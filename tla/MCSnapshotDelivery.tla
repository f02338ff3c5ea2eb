------------------------- MODULE MCSnapshotDelivery -------------------------
(***************************************************************************)
(* The instances of SnapshotDelivery that TLC checks.                      *)
(***************************************************************************)
EXTENDS SnapshotDelivery

\* The contents are interchangeable, so that of version 1 is fixed.
FirstContent == [v \in {1} |-> CHOOSE c \in Contents : TRUE]
FixedInit == Init /\ history = FirstContent
FixedFairSpec == FixedInit /\ [][Next]_dvars /\ Fairness
=============================================================================
