--------------------------- MODULE MCInstancePool ---------------------------
(***************************************************************************)
(* The instances of InstancePool that TLC checks.                          *)
(***************************************************************************)
EXTENDS InstancePool

\* With the reaper, under the fairness of the code's scheduling.
ReaperInit == Init /\ reaper.at = "asleep"
FairWithReaper == ReaperInit /\ [][Next]_vars /\ Fairness
=============================================================================
