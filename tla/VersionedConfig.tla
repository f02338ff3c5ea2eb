-------------------------- MODULE VersionedConfig --------------------------
(***************************************************************************)
(* The configuration as its readers see it: a counter of committed         *)
(* versions, and what the snapshot tables hold at each of them             *)
(* (control-plane configstate/version.py).  A version names its content    *)
(* for good.                                                               *)
(***************************************************************************)
EXTENDS Integers

CONSTANTS
    Contents,    \* what the snapshot tables can hold
    MaxVersion   \* bound: publications stop here

ASSUME VersionsAssumption == Contents # {} /\ MaxVersion \in Nat \ {0}

VARIABLES
    version,     \* config_state.version
    history      \* the content committed with each version

configVars == <<version, history>>

ConfigTypeOK ==
    /\ version \in Nat \ {0}
    /\ history \in [1..version -> Contents]

\* The migration that creates the tables inserts version 1.
ConfigInit ==
    /\ version = 1
    /\ history \in [{1} -> Contents]

\* The commit of a transaction that called bump_config_version.
Publish(c) ==
    /\ version < MaxVersion
    /\ version' = version + 1
    /\ history' = [v \in 1..version + 1 |-> IF v = version + 1 THEN c ELSE history[v]]

\* Some content is published: Publish(c) for a c of Contents.
ConfigNext ==
    /\ version < MaxVersion
    /\ version' = version + 1
    /\ history' \in [1..version + 1 -> Contents]
    /\ \A v \in 1..version : history'[v] = history[v]

ConfigSpec == ConfigInit /\ [][ConfigNext]_configVars
=============================================================================
