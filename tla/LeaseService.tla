---------------------------- MODULE LeaseService ----------------------------
(***************************************************************************)
(* What the instance pool promises its callers, without lists, counters,   *)
(* wake-ups or a reaper: a counting semaphore per key under a global one,  *)
(* and an exclusive lease on an instance bound to the key it was made for. *)
(***************************************************************************)
EXTENDS Integers, FiniteSets

CONSTANTS Clients, Keys, Insts, GlobalMax, MaxLimit, None

VARIABLES
    slot,    \* the key whose slot a call holds, or None
    lease,   \* the instance it leases, or None
    owner,   \* the key an instance belongs to, None when it does not exist
    open     \* slots are still given out

svars == <<slot, lease, owner, open>>

Init ==
    /\ slot = [c \in Clients |-> None]
    /\ lease = [c \in Clients |-> None]
    /\ owner = [i \in Insts |-> None]
    /\ open = TRUE

Leased == {lease[c] : c \in Clients} \ {None}

\* A slot is free for the key, globally and under the key's own cap.
HasRoom(k) ==
    /\ Cardinality({c \in Clients : slot[c] # None}) < GlobalMax
    /\ Cardinality({c \in Clients : slot[c] = k}) < MaxLimit

\* A slot first, the instance later.
Enter(c, k) ==
    /\ open
    /\ slot[c] = None
    /\ HasRoom(k)
    /\ slot' = [slot EXCEPT ![c] = k]
    /\ UNCHANGED <<lease, owner, open>>

\* A slot together with a warm instance of the key that nobody holds.
EnterWarm(c, k, i) ==
    /\ open
    /\ slot[c] = None
    /\ HasRoom(k)
    /\ owner[i] = k
    /\ i \notin Leased
    /\ slot' = [slot EXCEPT ![c] = k]
    /\ lease' = [lease EXCEPT ![c] = i]
    /\ UNCHANGED <<owner, open>>

\* A new instance for a slot.
Attach(c, i) ==
    /\ slot[c] # None
    /\ lease[c] = None
    /\ owner[i] = None
    /\ lease' = [lease EXCEPT ![c] = i]
    /\ owner' = [owner EXCEPT ![i] = slot[c]]
    /\ UNCHANGED <<slot, open>>

Leave(c) ==
    /\ slot[c] # None
    /\ slot' = [slot EXCEPT ![c] = None]
    /\ lease' = [lease EXCEPT ![c] = None]
    /\ UNCHANGED <<owner, open>>

Destroy(i) ==
    /\ owner[i] # None
    /\ i \notin Leased
    /\ owner' = [owner EXCEPT ![i] = None]
    /\ UNCHANGED <<slot, lease, open>>

Shut ==
    /\ open
    /\ open' = FALSE
    /\ UNCHANGED <<slot, lease, owner>>

Next ==
    \/ \E c \in Clients :
        \/ \E k \in Keys : Enter(c, k)
        \/ \E k \in Keys, i \in Insts : EnterWarm(c, k, i)
        \/ \E i \in Insts : Attach(c, i)
        \/ Leave(c)
    \/ \E i \in Insts : Destroy(i)
    \/ Shut

Spec == Init /\ [][Next]_svars
=============================================================================
