------------------------- MODULE InstancePoolProofs -------------------------
(***************************************************************************)
(* Theorems about the instance pool, for every number of calls, keys,      *)
(* instances and every option: types, places and counters first, and on    *)
(* top of them the caps, no lost wake-up, isolation of keys, and a map     *)
(* without abandoned entries.                                              *)
(***************************************************************************)
EXTENDS InstancePool, FiniteSetTheorems, TLAPS

\* What a call's place says of its other fields.
Shape ==
    /\ \A c \in Clients :
        /\ pc[c] # "out" => key[c] \in Keys /\ limit[c] >= 1
        /\ c \in Carrying <=> inst[c] # None
        /\ woken[c] => pc[c] = "waiting"
    /\ reaper.at # "closing" => reaper.victims = {}
    /\ closer.at \notin {"joining", "closing"} => closer.victims = {}
    /\ closed <=> closer.at # "none"

\* Cardinalities of sets of calls and of instances are numbers.
LEMMA FiniteParts ==
    /\ \A S \in SUBSET Clients : IsFiniteSet(S) /\ Cardinality(S) \in Nat
    /\ \A S \in SUBSET Insts : IsFiniteSet(S) /\ Cardinality(S) \in Nat
  BY SetsAssumption, FS_Subset, FS_CardinalityType

\* The initial states are well typed and shaped.
LEMMA InitTyped == Init => TypeOK /\ Shape
<1> SUFFICES ASSUME Init PROVE TypeOK /\ Shape
  OBVIOUS
<1>1. PICK a \in {"asleep", "stopped"} :
        reaper = [at |-> a, now |-> 0, victims |-> {}]
  BY DEF Init
<1>2. TypeOK
  <2>0. closed \in BOOLEAN
    BY DEF Init
  <2>1. entries \subseteq Keys /\ total \in Int
        /\ live \subseteq Insts /\ clock \in Nat
    BY DEF Init
  <2>2. idle \in [Keys -> SUBSET Insts] /\ active \in [Keys -> Int]
    BY DEF Init
  <2>3. /\ pc \in [Clients -> Places] /\ key \in [Clients -> Keys \cup {None}]
        /\ limit \in [Clients -> Nat] /\ inst \in [Clients -> Insts \cup {None}]
        /\ woken \in [Clients -> BOOLEAN]
    BY DEF Init, Places
  <2>4. /\ madeFor \in [Insts -> Keys \cup {None}]
        /\ uses \in [Insts -> Nat] /\ lastUsed \in [Insts -> Nat]
    BY DEF Init
  <2>5. /\ reaper \in [at : {"asleep", "ticked", "closing", "stopped"},
                        now : Nat, victims : SUBSET Insts]
        /\ closer \in [at : {"none", "joining", "closing", "done"},
                        victims : SUBSET Insts]
    BY <1>1 DEF Init
  <2>6. QED
    BY <2>0, <2>1, <2>2, <2>3, <2>4, <2>5 DEF TypeOK
<1>3. Shape
  BY <1>1, SetsAssumption DEF Init, Shape, Carrying
<1>4. QED
  BY <1>2, <1>3

\* Every step keeps types and shape; the counters are integers here, that they
\* count something is Accounting.
LEMMA TypedStep == TypeOK /\ Shape /\ [Next]_vars => TypeOK' /\ Shape'
<1> SUFFICES ASSUME TypeOK, Shape, [Next]_vars
             PROVE  TypeOK' /\ Shape'
  OBVIOUS
<1> USE SetsAssumption, OptionsAssumption DEF TypeOK, Shape, Places, Carrying
<1>1. ASSUME NEW c \in Clients, NEW k \in Keys, NEW l \in Limits, Call(c, k, l)
      PROVE  TypeOK' /\ Shape'
  BY <1>1 DEF Call, poolVars, instVars, bgVars
<1>2. ASSUME NEW c \in Clients, RefuseClosed(c)
      PROVE  TypeOK' /\ Shape'
  BY <1>2 DEF RefuseClosed, Return, poolVars, instVars, bgVars
<1>3. ASSUME NEW c \in Clients, NEW i \in Insts, TakeIdle(c, i)
      PROVE  TypeOK' /\ Shape'
  BY <1>3 DEF TakeIdle, instVars, bgVars
<1>4. ASSUME NEW c \in Clients, Reserve(c)
      PROVE  TypeOK' /\ Shape'
  BY <1>4 DEF Reserve, FindsNoneIdle, instVars, bgVars
<1>5. ASSUME NEW c \in Clients, NEW k \in Keys, NEW i \in Insts, Evict(c, k, i)
      PROVE  TypeOK' /\ Shape'
  BY <1>5 DEF Evict, FindsNoneIdle, DropIfEmpty, instVars, bgVars
<1>6. ASSUME NEW c \in Clients, CloseEvicted(c)
      PROVE  TypeOK' /\ Shape'
  BY <1>6 DEF CloseEvicted, Discard, poolVars, bgVars
<1>7. ASSUME NEW c \in Clients, Wait(c)
      PROVE  TypeOK' /\ Shape'
  BY <1>7 DEF Wait, FindsNoneIdle, instVars, bgVars
<1>8. ASSUME NEW c \in Clients, Wake(c) \/ GiveUp(c)
      PROVE  TypeOK' /\ Shape'
  <2>1. CASE Wake(c)
    BY <2>1 DEF Wake, poolVars, instVars, bgVars
  <2>2. CASE GiveUp(c)
    BY <2>2 DEF GiveUp, poolVars, instVars, bgVars
  <2>3. QED
    BY <1>8, <2>1, <2>2
<1>9. ASSUME NEW c \in Clients, Saturated(c)
      PROVE  TypeOK' /\ Shape'
  BY <1>9 DEF Saturated, Return, DropIfEmpty, instVars, bgVars
<1>10. ASSUME NEW c \in Clients, NEW i \in Insts, Create(c, i)
       PROVE  TypeOK' /\ Shape'
  BY <1>10 DEF Create, poolVars, bgVars
<1>11. ASSUME NEW c \in Clients, CreateFails(c)
       PROVE  TypeOK' /\ Shape'
  BY <1>11 DEF CreateFails, FreeSlot, Notify, Return, DropIfEmpty, instVars, bgVars
<1>12. ASSUME NEW c \in Clients, ReleaseIdle(c)
       PROVE  TypeOK' /\ Shape'
  BY <1>12 DEF ReleaseIdle, Notify, Return, bgVars
<1>13. ASSUME NEW c \in Clients, NEW healthy \in BOOLEAN, ReleaseRetire(c, healthy)
       PROVE  TypeOK' /\ Shape'
  BY <1>13 DEF ReleaseRetire, FreeSlot, Notify, DropIfEmpty, bgVars
<1>14. ASSUME NEW c \in Clients, CloseRetired(c)
       PROVE  TypeOK' /\ Shape'
  BY <1>14 DEF CloseRetired, Discard, Return, poolVars, bgVars
<1>15. CASE ReapTick \/ ReapDone \/ ReapStop
  <2>1. CASE ReapTick
    BY <2>1 DEF ReapTick, poolVars, callVars, instVars
  <2>2. CASE ReapDone
    BY <2>2 DEF ReapDone, poolVars, callVars, instVars
  <2>3. CASE ReapStop
    BY <2>3 DEF ReapStop, poolVars, callVars, instVars
  <2>4. QED
    BY <1>15, <2>1, <2>2, <2>3
<1>16. CASE ReapIdle
  <2>1. AllExpired \in SUBSET Insts /\ Cardinality(AllExpired) \in Nat
    BY FiniteParts DEF AllExpired, Expired
  <2>2. idle' \in [Keys -> SUBSET Insts] /\ entries' \subseteq Keys
    BY <1>16 DEF ReapIdle, Expired, instVars
  <2>3. woken' \in [Clients -> BOOLEAN]
        /\ \A c \in Clients : woken'[c] => pc[c] = "waiting"
    <3>1. CASE woken' = woken
      BY <3>1
    <3>2. CASE Notify
      <4>1. \A c \in Clients : woken[c] => pc[c] = "waiting"
        OBVIOUS
      <4>2. woken' = [c \in Clients |-> woken[c] \/ pc[c] = "waiting"]
        BY <3>2 DEF Notify
      <4>3. woken' \in [Clients -> BOOLEAN]
        <5> HIDE DEF TypeOK, Shape
        <5>1. woken \in [Clients -> BOOLEAN]
          BY DEF TypeOK
        <5>2. QED
          BY <4>2, <5>1
      <4>4. \A c \in Clients : woken'[c] => pc[c] = "waiting"
        <5> HIDE DEF TypeOK, Shape
        <5>1. QED
          BY <4>1, <4>2
      <4>5. QED
        BY <4>3, <4>4
    <3>3. woken' = woken \/ Notify
      BY <1>16 DEF ReapIdle
    <3>4. QED
      BY <3>1, <3>2, <3>3
  <2>4. reaper' = [at |-> "closing", now |-> 0, victims |-> AllExpired]
        /\ total' = total - Cardinality(AllExpired)
        /\ UNCHANGED <<active, closed, pc, key, limit, inst, instVars, clock, closer>>
    BY <1>16 DEF ReapIdle
  <2>5. QED
    BY <2>1, <2>2, <2>3, <2>4 DEF instVars
<1>17. ASSUME NEW i \in Insts, ReapClose(i) \/ CloseIdle(i)
       PROVE  TypeOK' /\ Shape'
  BY <1>17 DEF ReapClose, CloseIdle, Discard, poolVars, callVars
<1>18. CASE CloseManager
  <2>1. IdleInsts \in SUBSET Insts /\ Cardinality(IdleInsts) \in Nat
    BY FiniteParts DEF IdleInsts
  <2>2. QED
    BY <1>18, <2>1 DEF CloseManager, Notify, instVars
<1>19. CASE JoinReaper \/ CloseReturns
  BY <1>19 DEF JoinReaper, CloseReturns, poolVars, callVars, instVars
<1>20. CASE Tick
  BY <1>20 DEF Tick, poolVars, callVars, instVars
<1>21. CASE UNCHANGED vars
  BY <1>21 DEF vars, poolVars, callVars, instVars, bgVars
<1>22. QED
  <2> HIDE DEF TypeOK, Shape
  <2>1. ASSUME NEW c \in Clients, AcquireStep(c)
        PROVE  TypeOK' /\ Shape'
    BY <2>1, <1>1, <1>2, <1>3, <1>4, <1>5, <1>6, <1>7, <1>8, <1>9, <1>10, <1>11 DEF AcquireStep
  <2>2. ASSUME NEW c \in Clients, ReleaseStep(c)
        PROVE  TypeOK' /\ Shape'
    BY <2>2, <1>11, <1>12, <1>13, <1>14 DEF ReleaseStep
  <2>3. CASE ReaperStep \/ CloserStep
    BY <2>3, <1>15, <1>16, <1>17, <1>18, <1>19 DEF ReaperStep, CloserStep
  <2>4. ASSUME NEW c \in Clients,
               (\E k \in Keys, l \in Limits : Call(c, k, l)) \/ GiveUp(c)
        PROVE  TypeOK' /\ Shape'
    BY <2>4, <1>1, <1>8
  <2>5. CASE Next
    BY <2>5, <2>1, <2>2, <2>3, <2>4, <1>15, <1>18, <1>20 DEF Next
  <2>6. QED
    BY <2>5, <1>21

\* Every state of the pool is well typed (and its calls well shaped).
THEOREM TypeCorrect == Spec => [](TypeOK /\ Shape)
<1>1. Init => TypeOK /\ Shape
  BY InitTyped
<1>2. (TypeOK /\ Shape) /\ [Next]_vars => (TypeOK /\ Shape)'
  BY TypedStep
<1>3. QED
  BY <1>1, <1>2, PTL DEF Spec

-----------------------------------------------------------------------------
(* Where instances are.                                                    *)

\* OnePlace, instance by instance, in the fields that actions change.
PlaceInv ==
    /\ \A c, d \in Clients : inst[c] = inst[d] /\ inst[c] # None => c = d
    /\ \A j, k \in Keys : \A i \in Insts : i \in idle[j] /\ i \in idle[k] => j = k
    /\ \A c \in Clients : inst[c] # None =>
        /\ inst[c] \in live
        /\ inst[c] \notin reaper.victims /\ inst[c] \notin closer.victims
        /\ \A k \in Keys : inst[c] \notin idle[k]
    /\ \A k \in Keys : \A i \in idle[k] :
        i \in live /\ i \notin reaper.victims /\ i \notin closer.victims
    /\ \A i \in reaper.victims : i \in live /\ i \notin closer.victims
    /\ \A i \in closer.victims : i \in live
    /\ \A i \in live :
        \/ \E c \in Clients : inst[c] = i
        \/ \E k \in Keys : i \in idle[k]
        \/ i \in reaper.victims
        \/ i \in closer.victims

\* The strengthened form, which names the holder of every live instance, gives
\* the place property the runs check.
LEMMA PlaceInvGivesOnePlace == TypeOK /\ Shape /\ PlaceInv => OnePlace
<1> SUFFICES ASSUME TypeOK, Shape, PlaceInv PROVE OnePlace
  OBVIOUS
<1>1. \A c \in Clients : c \in Carrying <=> inst[c] # None
  BY DEF Shape
<1>2. Carrying \subseteq Clients
  BY DEF Carrying
<1> HIDE DEF Carrying
<1> DEFINE carried == {inst[c] : c \in Carrying}
<1>3. \A i \in Insts : i \in carried <=> \E c \in Clients : inst[c] = i
  BY <1>1, <1>2, SetsAssumption
<1>4. carried \subseteq Insts /\ IdleInsts \subseteq Insts
      /\ reaper.victims \subseteq Insts /\ closer.victims \subseteq Insts
  BY <1>1, <1>2 DEF TypeOK, IdleInsts
<1>5. \A i : i \in IdleInsts <=> \E k \in Keys : i \in idle[k]
  BY DEF IdleInsts
<1>6. \A c, d \in Carrying : inst[c] = inst[d] => c = d
  BY <1>1, <1>2 DEF PlaceInv
<1>7. \A j, k \in Keys : j # k => idle[j] \cap idle[k] = {}
  BY DEF PlaceInv, TypeOK
<1>8. carried \cap IdleInsts = {}
  BY <1>1, <1>2, <1>5 DEF PlaceInv
<1>9. (carried \cup IdleInsts) \cap (reaper.victims \cup closer.victims) = {}
  BY <1>1, <1>2, <1>5 DEF PlaceInv
<1>10. reaper.victims \cap closer.victims = {}
  BY DEF PlaceInv
<1>11. live = carried \cup IdleInsts \cup (reaper.victims \cup closer.victims)
  <2> HIDE DEF carried
  <2>1. \A i \in Insts : i \in live <=>
          i \in carried \/ i \in IdleInsts \/ i \in reaper.victims \/ i \in closer.victims
    BY <1>3, <1>5, SetsAssumption DEF PlaceInv
  <2>2. live \subseteq Insts
    BY DEF TypeOK
  <2>3. QED
    BY <1>4, <2>1, <2>2
<1>12. QED
  BY <1>6, <1>7, <1>8, <1>9, <1>10, <1>11 DEF OnePlace

\* The fields PlaceInv speaks of.
placeVars == <<inst, idle, live, reaper.victims, closer.victims>>

\* Every step of pool.go keeps every instance in exactly one place.
LEMMA PlaceInvStep ==
    TypeOK /\ Shape /\ PlaceInv /\ [Next]_vars => PlaceInv'
<1> SUFFICES ASSUME TypeOK, Shape, PlaceInv, [Next]_vars
             PROVE  PlaceInv'
  OBVIOUS
<1> USE SetsAssumption DEF TypeOK, PlaceInv
<1>0. ASSUME UNCHANGED placeVars PROVE PlaceInv'
  BY <1>0 DEF placeVars
<1>1. ASSUME NEW c \in Clients,
             \/ \E k \in Keys, l \in Limits : Call(c, k, l)
             \/ Reserve(c) \/ Wait(c) \/ Wake(c) \/ GiveUp(c)
      PROVE  PlaceInv'
  <2>1. UNCHANGED placeVars
    BY <1>1 DEF Call, Reserve, Wait, Wake, GiveUp, poolVars, instVars, bgVars, placeVars
  <2>2. QED
    BY <1>0, <2>1
<1>2. ASSUME NEW c \in Clients, RefuseClosed(c) \/ Saturated(c) \/ CreateFails(c)
      PROVE  PlaceInv'
  <2>1. inst[c] = None
    BY <1>2 DEF Shape, Carrying, RefuseClosed, Saturated, CreateFails
  <2>2. inst' = inst
    BY <1>2, <2>1 DEF RefuseClosed, Saturated, CreateFails, Return
  <2>3. UNCHANGED placeVars
    BY <1>2, <2>2 DEF RefuseClosed, Saturated, CreateFails, poolVars, instVars, bgVars,
                      placeVars
  <2>4. QED
    BY <1>0, <2>3
<1>3. ASSUME NEW c \in Clients, NEW i \in Insts, TakeIdle(c, i)
      PROVE  PlaceInv'
  <2>1. inst[c] = None /\ key[c] \in Keys
    BY <1>3 DEF Shape, Carrying, TakeIdle
  <2>2. QED
    BY <1>3, <2>1 DEF TakeIdle, instVars, bgVars
<1>4. ASSUME NEW c \in Clients, NEW k \in Keys, NEW i \in Insts, Evict(c, k, i)
      PROVE  PlaceInv'
  <2>1. inst[c] = None
    BY <1>4 DEF Shape, Carrying, Evict, FindsNoneIdle
  <2>2. QED
    BY <1>4, <2>1 DEF Evict, instVars, bgVars
<1>5. ASSUME NEW c \in Clients, CloseEvicted(c) \/ CloseRetired(c)
      PROVE  PlaceInv'
  <2>1. inst[c] \in Insts
    BY <1>5 DEF Shape, Carrying, CloseEvicted, CloseRetired
  <2>2. /\ live' = live \ {inst[c]} /\ inst' = [inst EXCEPT ![c] = None]
        /\ UNCHANGED <<idle, reaper, closer>>
    BY <1>5 DEF CloseEvicted, CloseRetired, Discard, Return, poolVars, bgVars
  <2>3. QED
    BY <2>1, <2>2
<1>6. ASSUME NEW c \in Clients, NEW i \in Insts, Create(c, i)
      PROVE  PlaceInv'
  <2>1. inst[c] = None
    BY <1>6 DEF Shape, Carrying, Create
  <2>2. QED
    BY <1>6, <2>1 DEF Create, poolVars, bgVars
<1>7. ASSUME NEW c \in Clients, ReleaseIdle(c)
      PROVE  PlaceInv'
  <2>1. inst[c] \in Insts /\ key[c] \in Keys
    BY <1>7 DEF Shape, Carrying, ReleaseIdle
  <2>2. /\ idle' = [idle EXCEPT ![key[c]] = @ \cup {inst[c]}]
        /\ inst' = [inst EXCEPT ![c] = None]
        /\ UNCHANGED <<live, reaper, closer>>
    BY <1>7 DEF ReleaseIdle, Return, bgVars
  <2>3. QED
    BY <2>1, <2>2
<1>8. ASSUME NEW c \in Clients, NEW healthy \in BOOLEAN, ReleaseRetire(c, healthy)
      PROVE  PlaceInv'
  <2>1. UNCHANGED placeVars
    <3> HIDE DEF TypeOK, PlaceInv
    <3>1. UNCHANGED <<inst, idle, live, bgVars>>
      BY <1>8 DEF ReleaseRetire
    <3>2. QED
      BY <3>1 DEF bgVars, placeVars
  <2>2. QED
    BY <1>0, <2>1
<1>9. CASE ReapTick \/ ReapDone \/ ReapStop
  <2>1. UNCHANGED placeVars
    <3> HIDE DEF TypeOK, PlaceInv
    <3>1. CASE ReapTick
      BY <3>1 DEF ReapTick, poolVars, callVars, instVars, placeVars
    <3>2. CASE ReapDone
      BY <3>2 DEF ReapDone, poolVars, callVars, instVars, placeVars
    <3>3. CASE ReapStop
      BY <3>3 DEF ReapStop, poolVars, callVars, instVars, placeVars
    <3>4. QED
      BY <1>9, <3>1, <3>2, <3>3
  <2>2. QED
    BY <1>0, <2>1
<1>10. CASE ReapIdle
  <2>1. reaper.victims = {}
    BY <1>10 DEF Shape, ReapIdle
  <2>2. \A i : i \in AllExpired <=> \E k \in Keys : i \in Expired(k)
    BY DEF AllExpired
  <2>3. \A k \in Keys : Expired(k) \subseteq idle[k]
    BY DEF Expired
  <2>4. \A k \in Keys : idle'[k] = idle[k] \ Expired(k)
    BY <1>10 DEF ReapIdle
  <2>5. reaper'.victims = AllExpired /\ UNCHANGED <<inst, live, closer>>
    BY <1>10 DEF ReapIdle, instVars
  <2>6. QED
    BY <2>1, <2>2, <2>3, <2>4, <2>5
<1>11. ASSUME NEW i \in Insts, ReapClose(i)
       PROVE  PlaceInv'
  BY <1>11 DEF ReapClose, Discard, poolVars, callVars
<1>12. ASSUME NEW i \in Insts, CloseIdle(i)
       PROVE  PlaceInv'
  BY <1>12 DEF CloseIdle, Discard, poolVars, callVars
<1>13. CASE CloseManager
  <2>1. closer.victims = {}
    BY <1>13 DEF Shape, CloseManager
  <2>2. \A i : i \in IdleInsts <=> \E k \in Keys : i \in idle[k]
    BY DEF IdleInsts
  <2>3. /\ closer'.victims = IdleInsts
        /\ idle' = [k \in Keys |-> {}] /\ UNCHANGED <<inst, live, reaper>>
    BY <1>13 DEF CloseManager, instVars
  <2>4. QED
    BY <2>1, <2>2, <2>3
<1>14. CASE JoinReaper \/ CloseReturns
  <2>1. UNCHANGED placeVars
    <3> HIDE DEF TypeOK, PlaceInv
    <3>1. CASE JoinReaper
      BY <3>1 DEF JoinReaper, poolVars, callVars, instVars, placeVars
    <3>2. CASE CloseReturns
      BY <3>2 DEF CloseReturns, poolVars, callVars, instVars, placeVars
    <3>3. QED
      BY <1>14, <3>1, <3>2
  <2>2. QED
    BY <1>0, <2>1
<1>15. CASE Tick \/ UNCHANGED vars
  <2>1. UNCHANGED placeVars
    <3> HIDE DEF TypeOK, PlaceInv
    <3>1. QED
      BY <1>15 DEF Tick, vars, poolVars, callVars, instVars, bgVars, placeVars
  <2>2. QED
    BY <1>0, <2>1
<1>16. QED
  <2> HIDE DEF TypeOK, PlaceInv
  <2>1. QED
    BY <1>1, <1>2, <1>3, <1>4, <1>5, <1>6, <1>7, <1>8, <1>9, <1>10, <1>11, <1>12,
     <1>13, <1>14, <1>15
     DEF Next, AcquireStep, ReleaseStep, ReaperStep, CloserStep

\* An instance is in one place only, what is used is open and what is open is
\* reachable: exclusive leases, no use after close, no double close, no leak.
THEOREM InstancesInOnePlace == Spec => []OnePlace
<1>1. Init => PlaceInv
  BY SetsAssumption DEF Init, PlaceInv
<1>2. TypeOK /\ Shape /\ PlaceInv /\ [Next]_vars => PlaceInv'
  BY PlaceInvStep
<1>3. TypeOK /\ Shape /\ PlaceInv => OnePlace
  BY PlaceInvGivesOnePlace
<1>4. QED
  BY <1>1, <1>2, <1>3, TypeCorrect, PTL DEF Spec

-----------------------------------------------------------------------------
(* What the counters count.                                                *)

\* A finite set loses one element, or a part.
LEMMA Shrink ==
    ASSUME NEW S, IsFiniteSet(S), NEW T \in SUBSET S
    PROVE  /\ IsFiniteSet(T) /\ IsFiniteSet(S \ T)
           /\ Cardinality(S \ T) = Cardinality(S) - Cardinality(T)
<1>1. IsFiniteSet(T) /\ IsFiniteSet(S \ T)
  BY FS_Subset
<1>2. T \cup (S \ T) = S /\ T \cap (S \ T) = {}
  OBVIOUS
<1>3. Cardinality(S) = Cardinality(T) + Cardinality(S \ T) - Cardinality({})
  BY <1>1, <1>2, FS_Union
<1>4. /\ Cardinality({}) = 0 /\ Cardinality(S) \in Nat
      /\ Cardinality(T) \in Nat /\ Cardinality(S \ T) \in Nat
  BY <1>1, FS_EmptySet, FS_CardinalityType
<1>5. QED
  BY <1>1, <1>3, <1>4

\* The sets Accounting counts are finite.
LEMMA CountedFinite ==
    ASSUME TypeOK
    PROVE  /\ Holding \in SUBSET Clients /\ IsFiniteSet(Holding)
           /\ IdleInsts \in SUBSET Insts /\ IsFiniteSet(IdleInsts)
           /\ \A k \in Keys : HoldingOf(k) \in SUBSET Holding /\ IsFiniteSet(HoldingOf(k))
           /\ \A k \in Keys : idle[k] \in SUBSET Insts /\ IsFiniteSet(idle[k])
  BY FiniteParts DEF TypeOK, Holding, HoldingOf, IdleInsts

\* A call takes a slot under its key.
LEMMA HoldMore ==
    ASSUME TypeOK, NEW c \in Clients, c \notin Holding, key[c] \in Keys,
           key' = key, pc' \in [Clients -> Places],
           \A d \in Clients : d # c => pc'[d] = pc[d],
           pc'[c] \in {"creating", "leased"}
    PROVE  /\ Cardinality(Holding') = Cardinality(Holding) + 1
           /\ \A k \in Keys : Cardinality(HoldingOf(k)') =
                Cardinality(HoldingOf(k)) + (IF k = key[c] THEN 1 ELSE 0)
<1>1. Holding' = Holding \cup {c}
  BY DEF Holding
<1>2. \A k \in Keys : HoldingOf(k)' =
        IF k = key[c] THEN HoldingOf(k) \cup {c} ELSE HoldingOf(k)
  BY <1>1 DEF HoldingOf
<1>3. Cardinality(Holding') = Cardinality(Holding) + 1
  BY <1>1, CountedFinite, FS_AddElement
<1>4. ASSUME NEW k \in Keys
      PROVE  Cardinality(HoldingOf(k)') =
                Cardinality(HoldingOf(k)) + (IF k = key[c] THEN 1 ELSE 0)
  <2>1. c \notin HoldingOf(k) /\ Cardinality(HoldingOf(k)) \in Nat
    BY CountedFinite, FS_CardinalityType DEF HoldingOf
  <2>2. Cardinality(HoldingOf(k) \cup {c}) = Cardinality(HoldingOf(k)) + 1
    BY <2>1, CountedFinite, FS_AddElement
  <2>3. CASE k = key[c]
    BY <1>2, <2>1, <2>2, <2>3
  <2>4. CASE k # key[c]
    <3>1. HoldingOf(k)' = HoldingOf(k)
      BY <1>2, <2>4
    <3>2. QED
      BY <2>1, <2>4, <3>1
  <2>5. QED
    BY <2>3, <2>4
<1>5. QED
  BY <1>3, <1>4

\* A call gives its slot back.
LEMMA HoldLess ==
    ASSUME TypeOK, NEW c \in Clients, c \in Holding,
           pc' \in [Clients -> Places],
           \A d \in Clients : d # c => pc'[d] = pc[d] /\ key'[d] = key[d],
           pc'[c] \notin {"creating", "leased"}
    PROVE  /\ Cardinality(Holding') = Cardinality(Holding) - 1
           /\ \A k \in Keys : Cardinality(HoldingOf(k)') =
                Cardinality(HoldingOf(k)) - (IF k = key[c] THEN 1 ELSE 0)
<1>1. Holding' = Holding \ {c}
  BY DEF Holding
<1>2. \A k \in Keys : HoldingOf(k)' =
        IF k = key[c] THEN HoldingOf(k) \ {c} ELSE HoldingOf(k)
  BY <1>1 DEF HoldingOf, Holding
<1>3. Cardinality(Holding') = Cardinality(Holding) - 1
  BY <1>1, CountedFinite, FS_RemoveElement
<1>4. ASSUME NEW k \in Keys
      PROVE  Cardinality(HoldingOf(k)') =
                Cardinality(HoldingOf(k)) - (IF k = key[c] THEN 1 ELSE 0)
  <2>1. Cardinality(HoldingOf(k)) \in Nat
    BY CountedFinite, FS_CardinalityType
  <2>2. k = key[c] => Cardinality(HoldingOf(k) \ {c}) = Cardinality(HoldingOf(k)) - 1
    BY CountedFinite, FS_RemoveElement DEF HoldingOf
  <2>3. CASE k = key[c]
    BY <1>2, <2>1, <2>2, <2>3
  <2>4. CASE k # key[c]
    <3>1. HoldingOf(k)' = HoldingOf(k)
      BY <1>2, <2>4
    <3>2. QED
      BY <2>1, <2>4, <3>1
  <2>5. QED
    BY <2>3, <2>4
<1>5. QED
  BY <1>3, <1>4

\* The fields Accounting speaks of, apart from the counters.
countedVars == <<pc, key, idle>>

\* A step that moves a call between places that hold no slot counts the same.
LEMMA HoldSame ==
    ASSUME TypeOK, NEW c \in Clients, c \notin Holding,
           pc' \in [Clients -> Places],
           \A d \in Clients : d # c => pc'[d] = pc[d] /\ key'[d] = key[d],
           pc'[c] \notin {"creating", "leased"}
    PROVE  Holding' = Holding /\ \A k \in Keys : HoldingOf(k)' = HoldingOf(k)
<1>1. Holding' = Holding
  BY DEF Holding
<1>2. QED
  BY <1>1 DEF HoldingOf, Holding

\* Every critical section of pool.go that moves a slot moves total and active
\* by as much.
LEMMA AccountingStep ==
    TypeOK /\ TypeOK' /\ Shape /\ PlaceInv /\ Accounting /\ [Next]_vars => Accounting'
<1> SUFFICES ASSUME TypeOK, TypeOK', Shape, PlaceInv, Accounting, [Next]_vars
             PROVE  Accounting'
  OBVIOUS
<1>0. /\ pc \in [Clients -> Places] /\ pc' \in [Clients -> Places]
      /\ key \in [Clients -> Keys \cup {None}]
      /\ idle \in [Keys -> SUBSET Insts]
      /\ active \in [Keys -> Int] /\ total \in Int
      /\ Cardinality(Holding) \in Nat /\ Cardinality(IdleInsts) \in Nat
      /\ \A k \in Keys : Cardinality(HoldingOf(k)) \in Nat
  BY CountedFinite, FS_CardinalityType DEF TypeOK
<1>q. ASSUME UNCHANGED <<countedVars, active, total>> PROVE Accounting'
  BY <1>q DEF Accounting, countedVars, Holding, HoldingOf, IdleInsts
\* Steps of a call that hold no slot before or after.
<1>s. ASSUME NEW c \in Clients, c \notin Holding,
             \A d \in Clients : d # c => pc'[d] = pc[d] /\ key'[d] = key[d],
             pc'[c] \notin {"creating", "leased"}, UNCHANGED <<idle, active, total>>
      PROVE  Accounting'
  <2>1. Holding' = Holding /\ \A k \in Keys : HoldingOf(k)' = HoldingOf(k)
    BY <1>0, <1>s, HoldSame
  <2>2. IdleInsts' = IdleInsts
    BY <1>s DEF IdleInsts
  <2>3. QED
    BY <1>s, <2>1, <2>2 DEF Accounting
<1>1. ASSUME NEW c \in Clients,
             \/ \E k \in Keys, l \in Limits : Call(c, k, l)
             \/ Wait(c) \/ Wake(c) \/ GiveUp(c)
             \/ RefuseClosed(c) \/ Saturated(c) \/ CloseEvicted(c) \/ CloseRetired(c)
      PROVE  Accounting'
  <2>1. /\ c \notin Holding /\ pc'[c] \notin {"creating", "leased"}
        /\ \A d \in Clients : d # c => pc'[d] = pc[d] /\ key'[d] = key[d]
    BY <1>0, <1>1 DEF Holding, Call, Wait, FindsNoneIdle, Wake, GiveUp, RefuseClosed,
                      Saturated, CloseEvicted, CloseRetired, Return
  <2>2. UNCHANGED <<idle, active, total>>
    BY <1>1 DEF Call, Wait, Wake, GiveUp, RefuseClosed, Saturated, CloseEvicted,
                CloseRetired, poolVars
  <2>3. QED
    BY <1>s, <2>1, <2>2
<1>2. ASSUME NEW c \in Clients, NEW i \in Insts, TakeIdle(c, i)
      PROVE  Accounting'
  <2>1. c \notin Holding /\ key[c] \in Keys /\ pc'[c] = "leased" /\ key' = key
        /\ \A d \in Clients : d # c => pc'[d] = pc[d]
    BY <1>0, <1>2 DEF TakeIdle, Shape, Holding
  <2>2. IdleInsts' = IdleInsts \ {i} /\ i \in IdleInsts
    BY <1>0, <1>2, <2>1 DEF TakeIdle, PlaceInv, IdleInsts
  <2>3. Cardinality(IdleInsts') = Cardinality(IdleInsts) - 1
    BY <2>2, CountedFinite, FS_RemoveElement
  <2>4. /\ Cardinality(Holding') = Cardinality(Holding) + 1
        /\ \A k \in Keys : Cardinality(HoldingOf(k)') =
              Cardinality(HoldingOf(k)) + (IF k = key[c] THEN 1 ELSE 0)
    BY <1>0, <2>1, HoldMore
  <2>5. total' = total /\ active' = [active EXCEPT ![key[c]] = @ + 1]
    BY <1>2 DEF TakeIdle
  <2>6. QED
    BY <1>0, <2>1, <2>3, <2>4, <2>5 DEF Accounting
<1>3. ASSUME NEW c \in Clients, Reserve(c)
      PROVE  Accounting'
  <2>1. c \notin Holding /\ key[c] \in Keys /\ pc'[c] = "creating" /\ key' = key
        /\ \A d \in Clients : d # c => pc'[d] = pc[d]
    BY <1>0, <1>3 DEF Reserve, FindsNoneIdle, Shape, Holding
  <2>2. /\ Cardinality(Holding') = Cardinality(Holding) + 1
        /\ \A k \in Keys : Cardinality(HoldingOf(k)') =
              Cardinality(HoldingOf(k)) + (IF k = key[c] THEN 1 ELSE 0)
    BY <1>0, <2>1, HoldMore
  <2>3. /\ total' = total + 1 /\ active' = [active EXCEPT ![key[c]] = @ + 1]
        /\ idle' = idle /\ IdleInsts' = IdleInsts
    BY <1>3 DEF Reserve, IdleInsts
  <2>4. QED
    BY <1>0, <2>1, <2>2, <2>3 DEF Accounting
<1>4. ASSUME NEW c \in Clients, NEW k \in Keys, NEW i \in Insts, Evict(c, k, i)
      PROVE  Accounting'
  <2>1. IdleInsts' = IdleInsts \ {i} /\ i \in IdleInsts
    BY <1>0, <1>4 DEF Evict, PlaceInv, IdleInsts
  <2>2. Cardinality(IdleInsts') = Cardinality(IdleInsts) - 1
    BY <2>1, CountedFinite, FS_RemoveElement
  <2>3. Holding' = Holding /\ \A j \in Keys : HoldingOf(j)' = HoldingOf(j)
    BY <1>0, <1>4, HoldSame DEF Evict, FindsNoneIdle, Holding
  <2>4. total' = total - 1 /\ active' = active
    BY <1>4 DEF Evict
  <2>5. QED
    BY <1>0, <2>2, <2>3, <2>4 DEF Accounting
<1>5. ASSUME NEW c \in Clients, NEW i \in Insts, Create(c, i)
      PROVE  Accounting'
  <2>1. Holding' = Holding
    BY <1>0, <1>5 DEF Create, Holding
  <2>2. \A k \in Keys : HoldingOf(k)' = HoldingOf(k)
    BY <1>5, <2>1 DEF Create, HoldingOf
  <2>3. UNCHANGED <<total, active, idle>>
    BY <1>5 DEF Create, poolVars
  <2>4. IdleInsts' = IdleInsts
    BY <2>3 DEF IdleInsts
  <2>5. QED
    BY <2>1, <2>2, <2>3, <2>4 DEF Accounting
<1>6. ASSUME NEW c \in Clients,
             CreateFails(c) \/ \E healthy \in BOOLEAN : ReleaseRetire(c, healthy)
      PROVE  Accounting'
  <2>1. /\ c \in Holding /\ key[c] \in Keys /\ pc'[c] \notin {"creating", "leased"}
        /\ \A d \in Clients : d # c => pc'[d] = pc[d] /\ key'[d] = key[d]
    BY <1>0, <1>6 DEF CreateFails, ReleaseRetire, Return, Shape, Holding
  <2>2. /\ Cardinality(Holding') = Cardinality(Holding) - 1
        /\ \A k \in Keys : Cardinality(HoldingOf(k)') =
              Cardinality(HoldingOf(k)) - (IF k = key[c] THEN 1 ELSE 0)
    BY <1>0, <2>1, HoldLess
  <2>3. /\ total' = total - 1 /\ active' = [active EXCEPT ![key[c]] = @ - 1]
        /\ IdleInsts' = IdleInsts
    BY <1>6 DEF CreateFails, ReleaseRetire, FreeSlot, IdleInsts
  <2>4. QED
    BY <1>0, <2>1, <2>2, <2>3 DEF Accounting
<1>7. ASSUME NEW c \in Clients, ReleaseIdle(c)
      PROVE  Accounting'
  <2>1. /\ c \in Holding /\ key[c] \in Keys /\ inst[c] \in Insts
        /\ pc'[c] \notin {"creating", "leased"}
        /\ \A d \in Clients : d # c => pc'[d] = pc[d] /\ key'[d] = key[d]
    BY <1>0, <1>7 DEF ReleaseIdle, Return, Shape, Holding, Carrying, TypeOK
  <2>2. /\ Cardinality(Holding') = Cardinality(Holding) - 1
        /\ \A k \in Keys : Cardinality(HoldingOf(k)') =
              Cardinality(HoldingOf(k)) - (IF k = key[c] THEN 1 ELSE 0)
    BY <1>0, <2>1, HoldLess
  <2>3. inst[c] \notin IdleInsts
    BY <2>1, SetsAssumption DEF PlaceInv, IdleInsts
  <2>4. IdleInsts' = IdleInsts \cup {inst[c]}
    BY <1>0, <1>7, <2>1 DEF ReleaseIdle, IdleInsts
  <2>5. Cardinality(IdleInsts') = Cardinality(IdleInsts) + 1
    BY <2>3, <2>4, CountedFinite, FS_AddElement
  <2>6. total' = total /\ active' = [active EXCEPT ![key[c]] = @ - 1]
    BY <1>7 DEF ReleaseIdle
  <2>7. QED
    BY <1>0, <2>1, <2>2, <2>5, <2>6 DEF Accounting
<1>8. CASE ReapIdle
  <2>1. /\ AllExpired \in SUBSET IdleInsts
        /\ IdleInsts' = IdleInsts \ AllExpired
    <3>1. \A k \in Keys : idle'[k] = idle[k] \ Expired(k)
      BY <1>8 DEF ReapIdle
    <3>2. \A i : i \in AllExpired <=> \E k \in Keys : i \in Expired(k)
      BY DEF AllExpired
    <3>3. \A i : i \in IdleInsts <=> \E k \in Keys : i \in idle[k]
      BY DEF IdleInsts
    <3>4. \A i : i \in IdleInsts' <=> \E k \in Keys : i \in idle'[k]
      BY DEF IdleInsts
    <3>5. \A k \in Keys : Expired(k) \subseteq idle[k]
      BY DEF Expired
    <3>6. \A j, k \in Keys : \A i \in Insts : i \in idle[j] /\ i \in idle[k] => j = k
      BY DEF PlaceInv
    <3>7. QED
      BY <1>0, <3>1, <3>2, <3>3, <3>4, <3>5, <3>6
  <2>2. Cardinality(IdleInsts') = Cardinality(IdleInsts) - Cardinality(AllExpired)
    BY <2>1, CountedFinite, Shrink
  <2>3. total' = total - Cardinality(AllExpired) /\ UNCHANGED <<active, pc, key>>
    BY <1>8 DEF ReapIdle
  <2>4. Holding' = Holding /\ \A k \in Keys : HoldingOf(k)' = HoldingOf(k)
    BY <2>3 DEF Holding, HoldingOf
  <2>5. Cardinality(AllExpired) \in Nat
    BY <2>1, CountedFinite, FiniteParts
  <2>6. QED
    BY <1>0, <2>2, <2>3, <2>4, <2>5 DEF Accounting
<1>9. CASE CloseManager
  <2>1. IdleInsts' = {} /\ Cardinality({}) = 0
    BY <1>9, FS_EmptySet DEF CloseManager, IdleInsts
  <2>2. total' = total - Cardinality(IdleInsts) /\ UNCHANGED <<active, pc, key>>
    BY <1>9 DEF CloseManager
  <2>3. Holding' = Holding /\ \A k \in Keys : HoldingOf(k)' = HoldingOf(k)
    BY <2>2 DEF Holding, HoldingOf
  <2>4. QED
    BY <1>0, <2>1, <2>2, <2>3 DEF Accounting
<1>10. CASE \/ ReapTick \/ ReapDone \/ ReapStop \/ JoinReaper \/ CloseReturns \/ Tick
            \/ \E i \in Insts : ReapClose(i) \/ CloseIdle(i)
            \/ UNCHANGED vars
  <2>1. UNCHANGED <<countedVars, active, total>>
    BY <1>10 DEF ReapTick, ReapDone, ReapStop, JoinReaper, CloseReturns, Tick, ReapClose,
                 CloseIdle, vars, poolVars, callVars, countedVars
  <2>2. QED
    BY <1>q, <2>1
<1>11. QED
  BY <1>1, <1>2, <1>3, <1>4, <1>5, <1>6, <1>7, <1>8, <1>9, <1>10
     DEF Next, AcquireStep, ReleaseStep, ReaperStep, CloserStep

\* The hand-kept counters are exact at every moment the lock is free.
THEOREM CountersExact == Spec => []Accounting
<1>1. Init => PlaceInv
  BY SetsAssumption DEF Init, PlaceInv
<1>2. Init => Accounting
  <2> SUFFICES ASSUME Init PROVE Accounting
    OBVIOUS
  <2>1. Holding = {} /\ IdleInsts = {} /\ \A k \in Keys : HoldingOf(k) = {}
    BY DEF Init, Holding, HoldingOf, IdleInsts
  <2>2. total = 0 /\ \A k \in Keys : active[k] = 0
    BY DEF Init
  <2>3. QED
    BY <2>1, <2>2, FS_EmptySet DEF Accounting
<1>3. TypeOK /\ TypeOK' /\ Shape /\ PlaceInv /\ Accounting /\ [Next]_vars => Accounting'
  BY AccountingStep
<1>4. TypeOK /\ Shape /\ PlaceInv /\ [Next]_vars => PlaceInv'
  BY PlaceInvStep
<1>5. QED
  BY <1>1, <1>2, <1>3, <1>4, TypeCorrect, PTL DEF Spec

-----------------------------------------------------------------------------
(* The pool's promises, on top of types, places and counters.              *)

\* What is established so far of every reachable state.
CoreInv == TypeOK /\ Shape /\ PlaceInv /\ Accounting

\* The same, as one invariant to build on.
LEMMA CoreInvariant == Spec => []CoreInv
<1>1. Init => PlaceInv
  BY SetsAssumption DEF Init, PlaceInv
<1>2. TypeOK /\ Shape /\ PlaceInv /\ [Next]_vars => PlaceInv'
  BY PlaceInvStep
<1>3. QED
  BY <1>1, <1>2, TypeCorrect, CountersExact, PTL DEF Spec, CoreInv

\* Counters are never negative, so a counter that goes up is positive.
LEMMA CountersNat ==
    ASSUME CoreInv
    PROVE  /\ total \in Nat /\ active \in [Keys -> Nat]
           /\ Cardinality(Holding) \in Nat /\ Cardinality(IdleInsts) \in Nat
           /\ \A k \in Keys : Cardinality(idle[k]) \in Nat
<1>1. /\ Cardinality(Holding) \in Nat /\ Cardinality(IdleInsts) \in Nat
      /\ \A k \in Keys : Cardinality(HoldingOf(k)) \in Nat /\ Cardinality(idle[k]) \in Nat
  BY CountedFinite, FS_CardinalityType DEF CoreInv
<1>2. QED
  BY <1>1 DEF CoreInv, Accounting, TypeOK

\* The largest limit exists and bounds the clamped limits.
LEMMA MaxLimitBounds ==
    /\ MaxLimit \in Int /\ 1 <= MaxLimit
    /\ \A l \in Limits : l <= MaxLimit
<1>1. MaxLimit \in Limits \cup {1} /\ \A l \in Limits \cup {1} : l <= MaxLimit
  BY OptionsAssumption DEF MaxLimit
<1>2. QED
  BY <1>1, OptionsAssumption

-----------------------------------------------------------------------------
(* The caps.                                                               *)

\* A call in progress carries a limit no larger than the largest.
LimitBound == \A c \in Clients : limit[c] <= MaxLimit

CapInv == GlobalCap /\ LimitBound /\ KeyCap

\* No step of pool.go takes a slot that a cap does not leave.
LEMMA CapStep == CoreInv /\ CoreInv' /\ CapInv /\ [Next]_vars => CapInv'
<1> SUFFICES ASSUME CoreInv, CoreInv', CapInv, [Next]_vars
             PROVE  CapInv'
  OBVIOUS
<1>0. /\ idle \in [Keys -> SUBSET Insts] /\ active \in [Keys -> Nat] /\ total \in Nat
      /\ limit \in [Clients -> Nat] /\ MaxLimit \in Int /\ 1 <= MaxLimit
      /\ GlobalMax \in Nat
      /\ \A k \in Keys : IsFiniteSet(idle[k]) /\ Cardinality(idle[k]) \in Nat
  BY CountersNat, CountedFinite, MaxLimitBounds, OptionsAssumption DEF CoreInv, TypeOK
<1>k. \A c \in Clients : pc[c] # "out" => key[c] \in Keys
  BY DEF CoreInv, Shape
<1>q. ASSUME UNCHANGED <<idle, active, limit>>, total' \in Int, total' <= total
      PROVE  CapInv'
  BY <1>0, <1>q DEF CapInv, GlobalCap, LimitBound, KeyCap
<1>1. ASSUME NEW c \in Clients, NEW k \in Keys, NEW l \in Limits, Call(c, k, l)
      PROVE  CapInv'
  <2>1. limit' = [limit EXCEPT ![c] = IF l < 1 THEN 1 ELSE l]
        /\ UNCHANGED <<idle, active, total>>
    BY <1>1 DEF Call, poolVars
  <2>2. (IF l < 1 THEN 1 ELSE l) <= MaxLimit
    BY MaxLimitBounds, OptionsAssumption
  <2>3. QED
    BY <1>0, <2>1, <2>2 DEF CapInv, GlobalCap, LimitBound, KeyCap
<1>2. ASSUME NEW c \in Clients,
             RefuseClosed(c) \/ Saturated(c) \/ CloseRetired(c)
      PROVE  CapInv'
  <2>1. limit' = [limit EXCEPT ![c] = 0] /\ UNCHANGED <<idle, active, total>>
    BY <1>2 DEF RefuseClosed, Saturated, CloseRetired, Return, poolVars
  <2>2. QED
    BY <1>0, <2>1 DEF CapInv, GlobalCap, LimitBound, KeyCap
<1>3. ASSUME NEW c \in Clients, NEW i \in Insts, TakeIdle(c, i)
      PROVE  CapInv'
  <2>1. /\ key[c] \in Keys /\ i \in idle[key[c]]
        /\ idle' = [idle EXCEPT ![key[c]] = @ \ {i}]
        /\ active' = [active EXCEPT ![key[c]] = @ + 1]
        /\ UNCHANGED <<total, limit>>
    BY <1>3, <1>k DEF TakeIdle
  <2>2. Cardinality(idle[key[c]] \ {i}) = Cardinality(idle[key[c]]) - 1
    BY <1>0, <2>1, FS_RemoveElement
  <2>3. QED
    BY <1>0, <2>1, <2>2 DEF CapInv, GlobalCap, LimitBound, KeyCap
<1>4. ASSUME NEW c \in Clients, Reserve(c)
      PROVE  CapInv'
  <2>1. /\ key[c] \in Keys /\ idle[key[c]] = {} /\ active[key[c]] < limit[c]
        /\ total < GlobalMax /\ total' = total + 1
        /\ active' = [active EXCEPT ![key[c]] = @ + 1]
        /\ UNCHANGED <<idle, limit>>
    BY <1>4, <1>k DEF Reserve, FindsNoneIdle
  <2>2. Cardinality(idle[key[c]]) = 0
    BY <2>1, FS_EmptySet
  <2>3. GlobalCap' /\ LimitBound'
    BY <1>0, <2>1 DEF CapInv, GlobalCap, LimitBound
  <2>4. ASSUME NEW k \in Keys
        PROVE  active'[k] + Cardinality(idle'[k]) <= MaxLimit
    <3>1. CASE k = key[c]
      <4>1. active'[k] = active[k] + 1 /\ Cardinality(idle'[k]) = 0
        BY <1>0, <2>1, <2>2, <3>1
      <4>2. active[k] + 1 <= limit[c] /\ limit[c] <= MaxLimit
        BY <1>0, <2>1, <3>1 DEF CapInv, LimitBound
      <4>3. QED
        BY <1>0, <4>1, <4>2
    <3>2. CASE k # key[c]
      BY <1>0, <2>1, <3>2 DEF CapInv, KeyCap
    <3>3. QED
      BY <3>1, <3>2
  <2>5. QED
    BY <2>3, <2>4 DEF CapInv, KeyCap
<1>5. ASSUME NEW c \in Clients, NEW k \in Keys, NEW i \in Insts, Evict(c, k, i)
      PROVE  CapInv'
  <2>1. /\ i \in idle[k] /\ idle' = [idle EXCEPT ![k] = @ \ {i}]
        /\ total' = total - 1 /\ UNCHANGED <<active, limit>>
    BY <1>5 DEF Evict
  <2>2. Cardinality(idle[k] \ {i}) = Cardinality(idle[k]) - 1
    BY <1>0, <2>1, FS_RemoveElement
  <2>3. QED
    BY <1>0, <2>1, <2>2 DEF CapInv, GlobalCap, LimitBound, KeyCap
<1>6. ASSUME NEW c \in Clients,
             \/ CloseEvicted(c) \/ Wait(c) \/ Wake(c) \/ GiveUp(c)
             \/ \E i \in Insts : Create(c, i)
      PROVE  CapInv'
  BY <1>0, <1>6, <1>q DEF CloseEvicted, Wait, Wake, GiveUp, Create, poolVars
<1>7. ASSUME NEW c \in Clients, CreateFails(c)
      PROVE  CapInv'
  BY <1>0, <1>7, <1>k DEF CreateFails, FreeSlot, Return, CapInv, GlobalCap, LimitBound, KeyCap
<1>8. ASSUME NEW c \in Clients, NEW healthy \in BOOLEAN, ReleaseRetire(c, healthy)
      PROVE  CapInv'
  BY <1>0, <1>8, <1>k DEF ReleaseRetire, FreeSlot, CapInv, GlobalCap, LimitBound, KeyCap
<1>9. ASSUME NEW c \in Clients, ReleaseIdle(c)
      PROVE  CapInv'
  <2>1. /\ key[c] \in Keys /\ idle' = [idle EXCEPT ![key[c]] = @ \cup {inst[c]}]
        /\ active' = [active EXCEPT ![key[c]] = @ - 1]
        /\ limit' = [limit EXCEPT ![c] = 0] /\ total' = total
    BY <1>9, <1>k DEF ReleaseIdle, Return
  <2>2. inst[c] \notin idle[key[c]]
    BY <1>9, <2>1 DEF ReleaseIdle, CoreInv, Shape, Carrying, PlaceInv
  <2>3. Cardinality(idle[key[c]] \cup {inst[c]}) = Cardinality(idle[key[c]]) + 1
    BY <1>0, <2>1, <2>2, FS_AddElement
  <2>4. QED
    BY <1>0, <2>1, <2>3 DEF CapInv, GlobalCap, LimitBound, KeyCap
<1>10. CASE ReapIdle
  <2>1. Cardinality(AllExpired) \in Nat /\ AllExpired \in SUBSET Insts
    <3>1. AllExpired \in SUBSET Insts
      BY <1>0 DEF AllExpired, Expired
    <3>2. QED
      BY <3>1, FiniteParts
  <2>2. /\ total' = total - Cardinality(AllExpired) /\ UNCHANGED <<active, limit>>
        /\ \A k \in Keys : idle'[k] \in SUBSET idle[k]
    BY <1>10 DEF ReapIdle
  <2>3. \A k \in Keys : Cardinality(idle'[k]) \in Nat /\ Cardinality(idle'[k]) <= Cardinality(idle[k])
    BY <1>0, <2>2, FS_Subset, FS_CardinalityType
  <2>4. QED
    BY <1>0, <2>1, <2>2, <2>3 DEF CapInv, GlobalCap, LimitBound, KeyCap
<1>11. CASE CloseManager
  <2>1. /\ total' = total - Cardinality(IdleInsts) /\ UNCHANGED <<active, limit>>
        /\ \A k \in Keys : idle'[k] = {}
    BY <1>11 DEF CloseManager
  <2>2. Cardinality({}) = 0 /\ Cardinality(IdleInsts) \in Nat
    BY FS_EmptySet, CountersNat
  <2>3. \A k \in Keys : Cardinality(idle'[k]) = 0
    BY <2>1, <2>2
  <2>4. \A k \in Keys : active'[k] + Cardinality(idle'[k]) <= MaxLimit
    BY <1>0, <2>1, <2>3 DEF CapInv, KeyCap
  <2>5. QED
    BY <1>0, <2>1, <2>2, <2>4 DEF CapInv, GlobalCap, LimitBound, KeyCap
<1>12. CASE \/ ReapTick \/ ReapDone \/ ReapStop \/ JoinReaper \/ CloseReturns \/ Tick
            \/ \E i \in Insts : ReapClose(i) \/ CloseIdle(i)
            \/ UNCHANGED vars
  <2>1. UNCHANGED <<idle, active, limit, total>>
    BY <1>12 DEF ReapTick, ReapDone, ReapStop, JoinReaper, CloseReturns, Tick, ReapClose,
                 CloseIdle, vars, poolVars, callVars
  <2>2. QED
    BY <1>0, <1>q, <2>1
<1>13. QED
  BY <1>1, <1>2, <1>3, <1>4, <1>5, <1>6, <1>7, <1>8, <1>9, <1>10, <1>11, <1>12
     DEF Next, AcquireStep, ReleaseStep, ReaperStep, CloserStep

\* Both caps, with the clamped limits they rest on, hold in every state.
LEMMA CapInvariant == Spec => []CapInv
<1>1. Init => CapInv
  <2> SUFFICES ASSUME Init PROVE CapInv
    OBVIOUS
  <2>1. /\ total = 0 /\ \A k \in Keys : active[k] = 0 /\ idle[k] = {}
        /\ \A c \in Clients : limit[c] = 0
    BY DEF Init
  <2>2. QED
    BY <2>1, FS_EmptySet, MaxLimitBounds, OptionsAssumption
       DEF CapInv, GlobalCap, LimitBound, KeyCap
<1>2. CoreInv /\ CoreInv' /\ CapInv /\ [Next]_vars => CapInv'
  BY CapStep
<1>3. QED
  BY <1>1, <1>2, CoreInvariant, PTL DEF Spec

\* The process-wide and the per-key caps hold for every option and every limit.
THEOREM CapsHold == Spec => [](GlobalCap /\ KeyCap)
<1>1. CapInv => GlobalCap /\ KeyCap
  BY DEF CapInv
<1>2. QED
  BY <1>1, CapInvariant, PTL

-----------------------------------------------------------------------------
(* No lost wake-up.                                                        *)

\* A step that notifies leaves no call waiting unwoken.
LEMMA NotifyWakesAll ==
    ASSUME TypeOK, Notify, \A c \in Clients : pc'[c] = "waiting" => pc[c] = "waiting"
    PROVE  \A c \in Clients : pc'[c] = "waiting" => woken'[c]
  BY DEF Notify

\* No step of pool.go makes room for a waiting call without closing the channel
\* it waits on.
LEMMA WakeStep ==
    CoreInv /\ CapInv /\ NoLostWakeup /\ ClosedIsDrained /\ [Next]_vars
        => NoLostWakeup' /\ ClosedIsDrained'
<1> SUFFICES ASSUME CoreInv, CapInv, NoLostWakeup, ClosedIsDrained, [Next]_vars
             PROVE  NoLostWakeup' /\ ClosedIsDrained'
  OBVIOUS
<1>0. TypeOK /\ total <= GlobalMax /\ GlobalMax \in Nat
      /\ \A c \in Clients : pc[c] # "out" => key[c] \in Keys
  BY OptionsAssumption DEF CoreInv, Shape, CapInv, GlobalCap
<1>i. \A i : i \in IdleInsts <=> \E k \in Keys : i \in idle[k]
  BY DEF IdleInsts
<1>j. \A i : i \in IdleInsts' <=> \E k \in Keys : i \in idle'[k]
  BY DEF IdleInsts
<1> USE DEF NoLostWakeup, ClosedIsDrained
\* Steps after which every waiting call is woken.
<1>n. ASSUME Notify, \A c \in Clients : pc'[c] = "waiting" => pc[c] = "waiting",
             closed' => IdleInsts' = {}
      PROVE  NoLostWakeup' /\ ClosedIsDrained'
  BY <1>0, <1>n, NotifyWakesAll
\* Steps that change nothing a waiting call looks at.
<1>q. ASSUME UNCHANGED <<closed, idle, active, total>>, IdleInsts' = IdleInsts,
             \A c \in Clients : pc'[c] = "waiting" =>
                pc[c] = "waiting" /\ woken'[c] = woken[c] /\ key'[c] = key[c]
                /\ limit'[c] = limit[c]
      PROVE  NoLostWakeup' /\ ClosedIsDrained'
  BY <1>0, <1>q
<1>1. ASSUME NEW c \in Clients,
             \/ \E k \in Keys, l \in Limits : Call(c, k, l)
             \/ RefuseClosed(c) \/ CloseEvicted(c) \/ Wake(c) \/ GiveUp(c)
             \/ Saturated(c) \/ CloseRetired(c) \/ \E i \in Insts : Create(c, i)
      PROVE  NoLostWakeup' /\ ClosedIsDrained'
  <2>1. UNCHANGED <<closed, idle, active, total>> /\ IdleInsts' = IdleInsts
    BY <1>1 DEF Call, RefuseClosed, CloseEvicted, Wake, GiveUp, Saturated, CloseRetired,
                Create, poolVars, IdleInsts
  <2>2. /\ pc'[c] # "waiting" /\ \A d \in Clients : d # c =>
              pc'[d] = pc[d] /\ woken'[d] = woken[d] /\ key'[d] = key[d] /\ limit'[d] = limit[d]
    BY <1>0, <1>1 DEF Call, RefuseClosed, CloseEvicted, Wake, GiveUp, Saturated,
                CloseRetired, Create, Return, TypeOK
  <2>3. QED
    BY <1>q, <2>1, <2>2
<1>2. ASSUME NEW c \in Clients, NEW i \in Insts, TakeIdle(c, i)
      PROVE  NoLostWakeup' /\ ClosedIsDrained'
  <2>1. i \in IdleInsts /\ key[c] \in Keys /\ ~closed /\ closed' = closed
    BY <1>0, <1>2, <1>i DEF TakeIdle
  <2>2. /\ UNCHANGED <<total, key, limit, woken>>
        /\ \A d \in Clients : pc'[d] = "waiting" => pc[d] = "waiting"
        /\ \A k \in Keys : idle'[k] \subseteq idle[k] /\ active'[k] >= active[k]
    BY <1>0, <1>2, <2>1 DEF TakeIdle, TypeOK
  <2>3. ASSUME NEW d \in Clients, pc'[d] = "waiting", ~woken'[d]
        PROVE  idle'[key'[d]] = {} /\ active'[key'[d]] >= limit'[d]
    <3>1. key[d] \in Keys /\ idle[key[d]] = {} /\ active[key[d]] >= limit[d]
      BY <1>0, <2>1, <2>2, <2>3
    <3>2. active[key[d]] \in Int /\ active'[key[d]] \in Int /\ limit[d] \in Int
      BY <1>0, <1>2, <2>1, <3>1 DEF TypeOK, TakeIdle
    <3>3. QED
      BY <2>2, <3>1, <3>2
  <2>4. QED
    BY <2>1, <2>3
<1>3. ASSUME NEW c \in Clients, Reserve(c)
      PROVE  NoLostWakeup' /\ ClosedIsDrained'
  <2>1. /\ key[c] \in Keys /\ ~closed /\ total < GlobalMax
        /\ UNCHANGED <<closed, idle, key, limit, woken>>
        /\ active' = [active EXCEPT ![key[c]] = @ + 1]
        /\ \A d \in Clients : pc'[d] = "waiting" => pc[d] = "waiting"
    BY <1>0, <1>3 DEF Reserve, FindsNoneIdle, TypeOK
  <2>2. ASSUME NEW d \in Clients, pc'[d] = "waiting", ~woken'[d]
        PROVE  idle'[key'[d]] = {} /\ active'[key'[d]] >= limit'[d]
    <3>1. key[d] \in Keys /\ idle[key[d]] = {} /\ active[key[d]] >= limit[d]
      BY <1>0, <2>1, <2>2 DEF TypeOK
    <3>2. active[key[d]] \in Int /\ active[key[c]] \in Int /\ limit[d] \in Int
      BY <1>0, <2>1, <3>1 DEF TypeOK
    <3>3. active'[key[d]] >= active[key[d]] /\ active'[key[d]] \in Int
      BY <1>0, <2>1, <3>1, <3>2 DEF TypeOK
    <3>4. QED
      BY <2>1, <3>1, <3>2, <3>3
  <2>3. QED
    BY <2>1, <2>2
<1>4. ASSUME NEW c \in Clients, NEW k \in Keys, NEW i \in Insts, Evict(c, k, i)
      PROVE  NoLostWakeup' /\ ClosedIsDrained'
  <2>1. /\ i \in IdleInsts /\ ~closed
        /\ UNCHANGED <<closed, active, key, limit, woken>>
        /\ \A d \in Clients : pc'[d] = "waiting" => pc[d] = "waiting"
        /\ \A j \in Keys : idle'[j] \subseteq idle[j]
    BY <1>0, <1>4, <1>i DEF Evict, FindsNoneIdle, TypeOK
  <2>2. QED
    BY <1>0, <2>1
<1>5. ASSUME NEW c \in Clients, Wait(c)
      PROVE  NoLostWakeup' /\ ClosedIsDrained'
  <2>1. /\ ~closed /\ idle[key[c]] = {}
        /\ active[key[c]] >= limit[c] \/ (total >= GlobalMax /\ IdleInsts = {})
        /\ UNCHANGED <<closed, idle, active, total, key, limit, woken>>
        /\ IdleInsts' = IdleInsts
        /\ \A d \in Clients : pc'[d] = "waiting" => d = c \/ pc[d] = "waiting"
    BY <1>0, <1>5 DEF Wait, FindsNoneIdle, TypeOK, IdleInsts
  <2>2. total >= GlobalMax => total = GlobalMax
    BY <1>0 DEF TypeOK
  <2>3. QED
    BY <2>1, <2>2
<1>6. ASSUME NEW c \in Clients,
             CreateFails(c) \/ \E healthy \in BOOLEAN : ReleaseRetire(c, healthy)
      PROVE  NoLostWakeup' /\ ClosedIsDrained'
  <2>1. /\ Notify /\ UNCHANGED <<closed, idle>>
        /\ \A d \in Clients : pc'[d] = "waiting" => pc[d] = "waiting"
    BY <1>0, <1>6 DEF CreateFails, ReleaseRetire, FreeSlot, Return, TypeOK
  <2>2. QED
    BY <1>n, <2>1 DEF IdleInsts
<1>7. ASSUME NEW c \in Clients, ReleaseIdle(c)
      PROVE  NoLostWakeup' /\ ClosedIsDrained'
  <2>1. /\ Notify /\ ~closed'
        /\ \A d \in Clients : pc'[d] = "waiting" => pc[d] = "waiting"
    BY <1>0, <1>7 DEF ReleaseIdle, ToRetire, Return, TypeOK
  <2>2. QED
    BY <1>n, <2>1
<1>8. CASE ReapIdle
  <2>1. CASE AllExpired = {}
    <3>1. \A k \in Keys : Expired(k) = {}
      BY <2>1 DEF AllExpired
    <3>2. idle' = idle
      BY <1>0, <1>8, <3>1 DEF ReapIdle, TypeOK
    <3>3. Cardinality(AllExpired) = 0
      BY <2>1, FS_EmptySet
    <3>4. UNCHANGED <<closed, active, total, pc, woken, key, limit>>
      BY <1>0, <1>8, <2>1, <3>3 DEF ReapIdle, TypeOK
    <3>5. IdleInsts' = IdleInsts
      BY <3>2 DEF IdleInsts
    <3>6. QED
      BY <1>q, <3>2, <3>4, <3>5
  <2>2. CASE AllExpired # {}
    <3>1. Notify /\ UNCHANGED <<closed, pc>> /\ \A k \in Keys : idle'[k] \subseteq idle[k]
      BY <1>8, <2>2 DEF ReapIdle
    <3>2. closed' => IdleInsts' = {}
      BY <1>i, <1>j, <3>1
    <3>3. QED
      BY <1>n, <3>1, <3>2
  <2>3. QED
    BY <2>1, <2>2
<1>9. CASE CloseManager
  <2>1. Notify /\ pc' = pc /\ \A k \in Keys : idle'[k] = {}
    BY <1>9 DEF CloseManager
  <2>2. QED
    BY <1>n, <1>j, <2>1
<1>10. CASE \/ ReapTick \/ ReapDone \/ ReapStop \/ JoinReaper \/ CloseReturns \/ Tick
            \/ \E i \in Insts : ReapClose(i) \/ CloseIdle(i)
            \/ UNCHANGED vars
  <2>1. UNCHANGED <<closed, idle, active, total, pc, woken, key, limit>>
    BY <1>10 DEF ReapTick, ReapDone, ReapStop, JoinReaper, CloseReturns, Tick, ReapClose,
                 CloseIdle, vars, poolVars, callVars
  <2>2. IdleInsts' = IdleInsts
    BY <2>1 DEF IdleInsts
  <2>3. QED
    BY <1>q, <2>1, <2>2
<1>11. QED
  BY <1>1, <1>2, <1>3, <1>4, <1>5, <1>6, <1>7, <1>8, <1>9, <1>10
     DEF Next, AcquireStep, ReleaseStep, ReaperStep, CloserStep

\* A call that waits could not be served: eviction may free a slot silently
\* because only instances nobody can wait for are idle.
THEOREM NoWakeupIsLost == Spec => [](NoLostWakeup /\ ClosedIsDrained)
<1>1. Init => NoLostWakeup /\ ClosedIsDrained
  BY DEF Init, NoLostWakeup, ClosedIsDrained
<1>2. CoreInv /\ CapInv /\ NoLostWakeup /\ ClosedIsDrained /\ [Next]_vars
        => NoLostWakeup' /\ ClosedIsDrained'
  BY WakeStep
<1>3. QED
  BY <1>1, <1>2, CoreInvariant, CapInvariant, PTL DEF Spec

-----------------------------------------------------------------------------
(* One key, one tenant.                                                    *)

\* No step of pool.go moves an instance to a key it was not made for, or
\* leaves a worn-out one where it can be handed out.
LEMMA IsolationStep ==
    CoreInv /\ KeyIsolation /\ UseBudget /\ [Next]_vars => KeyIsolation' /\ UseBudget'
<1> SUFFICES ASSUME CoreInv, KeyIsolation, UseBudget, [Next]_vars
             PROVE  KeyIsolation' /\ UseBudget'
  OBVIOUS
\* UseBudget, place by place.
<1>u. \A i \in Insts :
        (\E k \in Keys : i \in idle[k]) \/ (\E c \in Clients : pc[c] = "leased" /\ inst[c] = i)
            => uses[i] < MaxUses
  BY DEF UseBudget, IdleInsts
<1>v. ASSUME \A i \in Insts :
               (\E k \in Keys : i \in idle'[k])
                 \/ (\E c \in Clients : pc'[c] = "leased" /\ inst'[c] = i)
                 => uses'[i] < MaxUses
      PROVE  UseBudget'
  BY <1>v DEF UseBudget, IdleInsts
<1>t. /\ TypeOK
      /\ \A c \in Clients : pc[c] # "out" => key[c] \in Keys
      /\ \A c \in Clients : pc[c] = "leased" => inst[c] \in Insts
      /\ \A c \in Clients : pc[c] \in {"evicting", "retiring"} => inst[c] \in Insts
  BY DEF CoreInv, Shape, Carrying, TypeOK
\* Instances that leave no place, calls that get no new lease.
<1>q. ASSUME \A k \in Keys : idle'[k] \subseteq idle[k],
             UNCHANGED <<madeFor, uses>>,
             \A c \in Clients : pc'[c] = "leased" =>
                pc[c] = "leased" /\ inst'[c] = inst[c] /\ key'[c] = key[c]
      PROVE  KeyIsolation' /\ UseBudget'
  <2>1. KeyIsolation'
    BY <1>q DEF KeyIsolation
  <2>2. UseBudget'
    BY <1>q, <1>u, <1>v
  <2>3. QED
    BY <2>1, <2>2
\* An instance nobody uses is closed.
<1>d. ASSUME NEW i \in Insts, Discard(i), idle' = idle,
             \A k \in Keys : i \notin idle[k],
             \A c \in Clients : pc[c] = "leased" => inst[c] # i,
             \A c \in Clients : pc'[c] = "leased" =>
                pc[c] = "leased" /\ inst'[c] = inst[c] /\ key'[c] = key[c]
      PROVE  KeyIsolation' /\ UseBudget'
  <2>1. \A j \in Insts : j # i => madeFor'[j] = madeFor[j] /\ uses'[j] = uses[j]
    BY <1>d, <1>t DEF Discard, TypeOK
  <2>2. KeyIsolation'
    BY <1>d, <1>t, <2>1 DEF KeyIsolation, TypeOK
  <2>3. UseBudget'
    BY <1>d, <1>t, <1>u, <1>v, <2>1
  <2>4. QED
    BY <2>2, <2>3
<1>1. ASSUME NEW c \in Clients,
             \/ \E k \in Keys, l \in Limits : Call(c, k, l)
             \/ RefuseClosed(c) \/ Reserve(c) \/ Wait(c) \/ Wake(c) \/ GiveUp(c)
             \/ Saturated(c) \/ CreateFails(c)
             \/ \E k \in Keys, i \in Insts : Evict(c, k, i)
      PROVE  KeyIsolation' /\ UseBudget'
  <2>1. UNCHANGED <<madeFor, uses>> /\ \A k \in Keys : idle'[k] \subseteq idle[k]
    BY <1>1, <1>t DEF Call, RefuseClosed, Reserve, Wait, Wake, GiveUp, Saturated, CreateFails,
                Evict, poolVars, instVars, TypeOK
  <2>2. \A d \in Clients : pc'[d] = "leased" =>
          pc[d] = "leased" /\ inst'[d] = inst[d] /\ key'[d] = key[d]
    BY <1>1, <1>t DEF Call, RefuseClosed, Reserve, Wait, Wake, GiveUp, Saturated, CreateFails,
                Evict, FindsNoneIdle, Return, TypeOK
  <2>3. QED
    BY <1>q, <2>1, <2>2
<1>2. ASSUME NEW c \in Clients, NEW i \in Insts, TakeIdle(c, i)
      PROVE  KeyIsolation' /\ UseBudget'
  <2>1. /\ key[c] \in Keys /\ i \in idle[key[c]] /\ UNCHANGED <<madeFor, uses, key>>
        /\ \A k \in Keys : idle'[k] \subseteq idle[k]
        /\ inst'[c] = i /\ pc'[c] = "leased"
        /\ \A d \in Clients : d # c => pc'[d] = pc[d] /\ inst'[d] = inst[d]
    BY <1>2, <1>t DEF TakeIdle, instVars, TypeOK
  <2>2. KeyIsolation'
    BY <2>1 DEF KeyIsolation
  <2>3. UseBudget'
    BY <2>1, <1>u, <1>v
  <2>4. QED
    BY <2>2, <2>3
<1>3. ASSUME NEW c \in Clients, CloseEvicted(c) \/ CloseRetired(c)
      PROVE  KeyIsolation' /\ UseBudget'
  <2>1. /\ inst[c] \in Insts /\ Discard(inst[c]) /\ idle' = idle
        /\ pc[c] # "leased" /\ pc'[c] # "leased"
        /\ \A d \in Clients : d # c =>
              pc'[d] = pc[d] /\ inst'[d] = inst[d] /\ key'[d] = key[d]
    BY <1>3, <1>t DEF CloseEvicted, CloseRetired, Return, poolVars, TypeOK
  <2>2. /\ \A k \in Keys : inst[c] \notin idle[k]
        /\ \A d \in Clients : pc[d] = "leased" => inst[d] # inst[c]
    BY <2>1, SetsAssumption DEF CoreInv, PlaceInv
  <2>3. QED
    BY <1>d, <2>1, <2>2
<1>4. ASSUME NEW c \in Clients, NEW i \in Insts, Create(c, i)
      PROVE  KeyIsolation' /\ UseBudget'
  <2>1. /\ i \notin live /\ key' = key /\ idle' = idle
        /\ madeFor' = [madeFor EXCEPT ![i] = key[c]] /\ uses' = [uses EXCEPT ![i] = 0]
        /\ inst'[c] = i /\ pc'[c] = "leased"
        /\ \A d \in Clients : d # c => pc'[d] = pc[d] /\ inst'[d] = inst[d]
    BY <1>4, <1>t DEF Create, poolVars, TypeOK
  <2>2. /\ \A k \in Keys : i \notin idle[k]
        /\ \A d \in Clients : pc[d] = "leased" => inst[d] # i
    BY <1>t, <2>1, SetsAssumption DEF CoreInv, PlaceInv
  <2>3. /\ madeFor'[i] = key[c] /\ uses'[i] = 0 /\ 0 < MaxUses
        /\ \A j \in Insts : j # i => madeFor'[j] = madeFor[j] /\ uses'[j] = uses[j]
    BY <1>t, <2>1, OptionsAssumption DEF TypeOK
  <2>4. KeyIsolation'
    BY <1>t, <2>1, <2>2, <2>3 DEF KeyIsolation, TypeOK
  <2>5. UseBudget'
    BY <1>t, <1>u, <1>v, <2>1, <2>2, <2>3
  <2>6. QED
    BY <2>4, <2>5
<1>5. ASSUME NEW c \in Clients, ReleaseIdle(c)
      PROVE  KeyIsolation' /\ UseBudget'
  <2>1. /\ key[c] \in Keys /\ inst[c] \in Insts /\ pc[c] = "leased"
        /\ uses[inst[c]] + 1 < MaxUses /\ madeFor' = madeFor
        /\ idle' = [idle EXCEPT ![key[c]] = @ \cup {inst[c]}]
        /\ uses' = [uses EXCEPT ![inst[c]] = @ + 1] /\ pc'[c] = "out"
        /\ \A d \in Clients : d # c =>
              pc'[d] = pc[d] /\ inst'[d] = inst[d] /\ key'[d] = key[d]
    BY <1>5, <1>t, OptionsAssumption DEF ReleaseIdle, ToRetire, Return, TypeOK
  <2>2. \A d \in Clients : d # c /\ pc[d] = "leased" => inst[d] # inst[c]
    BY <2>1, SetsAssumption DEF CoreInv, PlaceInv
  <2>3. KeyIsolation'
    BY <1>t, <2>1 DEF KeyIsolation, TypeOK
  <2>4. /\ uses'[inst[c]] = uses[inst[c]] + 1
        /\ \A j \in Insts : j # inst[c] => uses'[j] = uses[j]
    BY <1>t, <2>1 DEF TypeOK
  <2>5. UseBudget'
    BY <1>t, <1>u, <1>v, <2>1, <2>2, <2>4 DEF TypeOK
  <2>6. QED
    BY <2>3, <2>5
<1>6. ASSUME NEW c \in Clients, NEW healthy \in BOOLEAN, ReleaseRetire(c, healthy)
      PROVE  KeyIsolation' /\ UseBudget'
  <2>1. /\ inst[c] \in Insts /\ pc[c] = "leased" /\ UNCHANGED <<idle, madeFor, inst, key>>
        /\ uses' = [uses EXCEPT ![inst[c]] = @ + 1] /\ pc'[c] = "retiring"
        /\ \A d \in Clients : d # c => pc'[d] = pc[d]
    BY <1>6, <1>t DEF ReleaseRetire, TypeOK
  <2>2. /\ \A d \in Clients : d # c /\ pc[d] = "leased" => inst[d] # inst[c]
        /\ \A k \in Keys : inst[c] \notin idle[k]
    BY <2>1, SetsAssumption DEF CoreInv, PlaceInv
  <2>3. KeyIsolation'
    BY <2>1 DEF KeyIsolation
  <2>4. \A j \in Insts : j # inst[c] => uses'[j] = uses[j]
    BY <1>t, <2>1 DEF TypeOK
  <2>5. UseBudget'
    BY <1>t, <1>u, <1>v, <2>1, <2>2, <2>4
  <2>6. QED
    BY <2>3, <2>5
<1>7. ASSUME NEW i \in Insts, ReapClose(i) \/ CloseIdle(i)
      PROVE  KeyIsolation' /\ UseBudget'
  <2>1. Discard(i) /\ UNCHANGED <<idle, pc, inst, key>>
        /\ (i \in reaper.victims \/ i \in closer.victims)
    BY <1>7 DEF ReapClose, CloseIdle, poolVars, callVars
  <2>2. /\ \A k \in Keys : i \notin idle[k]
        /\ \A d \in Clients : pc[d] = "leased" => inst[d] # i
    BY <1>t, <2>1, SetsAssumption DEF CoreInv, PlaceInv
  <2>3. QED
    BY <1>d, <2>1, <2>2
<1>8. CASE \/ ReapTick \/ ReapIdle \/ ReapDone \/ ReapStop \/ JoinReaper \/ CloseReturns
           \/ CloseManager \/ Tick \/ UNCHANGED vars
  <2>1. /\ UNCHANGED <<madeFor, uses, pc, inst, key>>
        /\ \A k \in Keys : idle'[k] \subseteq idle[k]
    BY <1>8 DEF ReapTick, ReapIdle, ReapDone, ReapStop, JoinReaper, CloseReturns,
                CloseManager, Tick, vars, poolVars, callVars, instVars
  <2>2. QED
    BY <1>q, <2>1
<1>9. QED
  BY <1>1, <1>2, <1>3, <1>4, <1>5, <1>6, <1>7, <1>8
     DEF Next, AcquireStep, ReleaseStep, ReaperStep, CloserStep

\* An instance never serves another key than the one it was created for, and
\* never more than MaxUses calls.
THEOREM KeysAreIsolated == Spec => [](KeyIsolation /\ UseBudget)
<1>1. Init => KeyIsolation /\ UseBudget
  BY DEF Init, KeyIsolation, UseBudget, IdleInsts
<1>2. CoreInv /\ KeyIsolation /\ UseBudget /\ [Next]_vars => KeyIsolation' /\ UseBudget'
  BY IsolationStep
<1>3. QED
  BY <1>1, <1>2, CoreInvariant, PTL DEF Spec

-----------------------------------------------------------------------------
(* The map of pools.                                                       *)

\* After Close only keys with leases are left in the map.
ClosedEntries == closed => \A k \in entries : active[k] > 0

EntriesInv == EntriesCover /\ NoAbandonedEntry /\ ClosedEntries

\* Every step of pool.go keeps the map and the pools it holds in agreement.
LEMMA EntriesStep ==
    CoreInv /\ CoreInv' /\ ClosedIsDrained /\ EntriesInv /\ [Next]_vars => EntriesInv'
<1> SUFFICES ASSUME CoreInv, CoreInv', ClosedIsDrained, EntriesInv, [Next]_vars
             PROVE  EntriesInv'
  OBVIOUS
<1> DEFINE Acquiring == {"acquire", "evicting", "waiting", "saturated"}
<1>0. /\ TypeOK /\ TypeOK' /\ \A c \in Clients : pc[c] # "out" => key[c] \in Keys
      /\ active \in [Keys -> Nat] /\ active' \in [Keys -> Nat]
      /\ closed => \A k \in Keys : idle[k] = {}
  <2>1. active \in [Keys -> Nat]
    BY CountersNat
  <2>2. active' \in [Keys -> Nat]
    <3>1. \A k \in Keys : HoldingOf(k)' \in SUBSET Clients
      BY DEF HoldingOf, Holding
    <3>2. \A k \in Keys : Cardinality(HoldingOf(k)') \in Nat
      BY <3>1, FiniteParts
    <3>3. QED
      BY <3>2 DEF CoreInv, Accounting, TypeOK
  <2>3. QED
    BY <2>1, <2>2 DEF CoreInv, Shape, ClosedIsDrained, IdleInsts
\* EntriesInv, restated over the calls in Acquire.
<1>e. EntriesInv <=>
        /\ \A k \in Keys : active[k] > 0 \/ idle[k] # {} => k \in entries
        /\ \A k \in entries : active[k] > 0 \/ idle[k] # {}
              \/ \E c \in Clients : key[c] = k /\ pc[c] \in Acquiring
        /\ closed => \A k \in entries : active[k] > 0
  BY DEF EntriesInv, EntriesCover, NoAbandonedEntry, ClosedEntries
<1>f. (/\ \A k \in Keys : active'[k] > 0 \/ idle'[k] # {} => k \in entries'
       /\ \A k \in entries' : active'[k] > 0 \/ idle'[k] # {}
             \/ \E c \in Clients : key'[c] = k /\ pc'[c] \in Acquiring
       /\ closed' => \A k \in entries' : active'[k] > 0) => EntriesInv'
  BY DEF EntriesInv, EntriesCover, NoAbandonedEntry, ClosedEntries
\* Steps that keep the map and its pools, and every call that is in Acquire.
<1>q. ASSUME UNCHANGED <<entries, active, idle, closed>>,
             \A c \in Clients : pc[c] \in Acquiring =>
                pc'[c] \in Acquiring /\ key'[c] = key[c]
      PROVE  EntriesInv'
  <2>1. \A k \in entries' : active'[k] > 0 \/ idle'[k] # {}
             \/ \E c \in Clients : key'[c] = k /\ pc'[c] \in Acquiring
    BY <1>e, <1>q
  <2>2. QED
    BY <1>e, <1>f, <1>q, <2>1
<1>1. ASSUME NEW c \in Clients,
             \/ \E k \in Keys, l \in Limits : Call(c, k, l)
             \/ CloseEvicted(c) \/ Wake(c) \/ GiveUp(c) \/ CloseRetired(c)
             \/ \E i \in Insts : Create(c, i)
      PROVE  EntriesInv'
  <2>1. UNCHANGED <<entries, active, idle, closed>>
    BY <1>1 DEF Call, CloseEvicted, Wake, GiveUp, CloseRetired, Create, poolVars
  <2>2. \A d \in Clients : pc[d] \in Acquiring => pc'[d] \in Acquiring /\ key'[d] = key[d]
    BY <1>0, <1>1 DEF Call, CloseEvicted, Wake, GiveUp, CloseRetired, Create, Return, TypeOK
  <2>3. QED
    BY <1>q, <2>1, <2>2
<1>2. ASSUME NEW c \in Clients, RefuseClosed(c)
      PROVE  EntriesInv'
  <2>1. closed /\ UNCHANGED <<entries, active, idle, closed>>
    BY <1>2 DEF RefuseClosed, poolVars
  <2>2. QED
    BY <1>e, <1>f, <2>1
<1>3. ASSUME NEW c \in Clients,
             Reserve(c) \/ \E i \in Insts : TakeIdle(c, i)
      PROVE  EntriesInv'
  <2>1. /\ key[c] \in Keys /\ ~closed' /\ entries' = entries \cup {key[c]}
        /\ active' = [active EXCEPT ![key[c]] = @ + 1] /\ key' = key
        /\ \A k \in Keys : k # key[c] => idle'[k] = idle[k]
        /\ \A d \in Clients : d # c => pc'[d] = pc[d]
    BY <1>0, <1>3 DEF Reserve, FindsNoneIdle, TakeIdle, TypeOK
  <2>2. active'[key[c]] > 0 /\ \A k \in Keys : k # key[c] => active'[k] = active[k]
    BY <1>0, <2>1
  <2>3. ASSUME NEW k \in entries'
        PROVE  active'[k] > 0 \/ idle'[k] # {}
                 \/ \E d \in Clients : key'[d] = k /\ pc'[d] \in Acquiring
    <3>1. k \in Keys
      BY <1>0, <2>1 DEF TypeOK
    <3>2. CASE k = key[c]
      BY <2>2, <3>2
    <3>3. CASE k # key[c]
      BY <1>e, <2>1, <2>2, <3>1, <3>3
    <3>4. QED
      BY <3>2, <3>3
  <2>4. QED
    BY <1>e, <1>f, <2>1, <2>2, <2>3
<1>4. ASSUME NEW c \in Clients, NEW k \in Keys, NEW i \in Insts, Evict(c, k, i)
      PROVE  EntriesInv'
  <2>1. /\ key[c] \in Keys /\ ~closed' /\ active' = active /\ key' = key
        /\ idle' = [idle EXCEPT ![k] = @ \ {i}] /\ pc'[c] = "evicting"
        /\ \A d \in Clients : d # c => pc'[d] = pc[d]
        /\ entries' = IF active[k] = 0 /\ idle'[k] = {} THEN (entries \cup {key[c]}) \ {k}
                      ELSE entries \cup {key[c]}
        /\ i \in idle[k]
    BY <1>0, <1>4 DEF Evict, FindsNoneIdle, DropIfEmpty, TypeOK
  <2>2. ASSUME NEW j \in entries'
        PROVE  active'[j] > 0 \/ idle'[j] # {}
                 \/ \E d \in Clients : key'[d] = j /\ pc'[d] \in Acquiring
    <3>1. j \in Keys /\ j \in entries \cup {key[c]}
      BY <1>0, <2>1 DEF TypeOK
    <3>2. CASE j = key[c]
      BY <2>1, <3>2
    <3>3. CASE j = k
      BY <1>0, <2>1, <3>3
    <3>4. CASE j # key[c] /\ j # k
      BY <1>e, <1>0, <2>1, <3>1, <3>4 DEF TypeOK
    <3>5. QED
      BY <3>2, <3>3, <3>4
  <2>3. ASSUME NEW j \in Keys, active'[j] > 0 \/ idle'[j] # {}
        PROVE  j \in entries'
    <3>1. j \in entries
      BY <1>e, <1>0, <2>1, <2>3 DEF TypeOK
    <3>2. QED
      BY <2>1, <2>3, <3>1
  <2>4. QED
    BY <1>f, <2>1, <2>2, <2>3
<1>5. ASSUME NEW c \in Clients, Wait(c)
      PROVE  EntriesInv'
  <2>1. /\ key[c] \in Keys /\ ~closed' /\ entries' = entries \cup {key[c]}
        /\ UNCHANGED <<idle, active, key>> /\ pc'[c] = "waiting"
        /\ \A d \in Clients : d # c => pc'[d] = pc[d]
    BY <1>0, <1>5 DEF Wait, FindsNoneIdle, TypeOK
  <2>2. QED
    BY <1>e, <1>f, <2>1
<1>6. ASSUME NEW c \in Clients, Saturated(c)
      PROVE  EntriesInv'
  <2>1. /\ key[c] \in Keys /\ UNCHANGED <<idle, active, closed>>
        /\ entries' = IF active[key[c]] = 0 /\ idle[key[c]] = {}
                      THEN entries \ {key[c]} ELSE entries
        /\ \A d \in Clients : d # c => pc'[d] = pc[d] /\ key'[d] = key[d]
    BY <1>0, <1>6 DEF Saturated, DropIfEmpty, Return, TypeOK
  <2>2. ASSUME NEW j \in entries'
        PROVE  active'[j] > 0 \/ idle'[j] # {}
                 \/ \E d \in Clients : key'[d] = j /\ pc'[d] \in Acquiring
    <3>1. j \in entries /\ j \in Keys
      BY <1>0, <2>1 DEF TypeOK
    <3>2. CASE j = key[c]
      BY <1>0, <2>1, <3>2
    <3>3. CASE j # key[c]
      BY <1>e, <2>1, <3>1, <3>3
    <3>4. QED
      BY <3>2, <3>3
  <2>3. QED
    BY <1>e, <1>f, <1>0, <2>1, <2>2
<1>7. ASSUME NEW c \in Clients,
             CreateFails(c) \/ \E healthy \in BOOLEAN : ReleaseRetire(c, healthy)
      PROVE  EntriesInv'
  <2>1. /\ key[c] \in Keys /\ UNCHANGED <<idle, closed>>
        /\ active' = [active EXCEPT ![key[c]] = @ - 1]
        /\ entries' = IF active'[key[c]] = 0 /\ idle[key[c]] = {}
                      THEN (entries \cup {key[c]}) \ {key[c]} ELSE entries \cup {key[c]}
        /\ pc[c] \notin Acquiring
        /\ \A d \in Clients : d # c => pc'[d] = pc[d] /\ key'[d] = key[d]
    BY <1>0, <1>7 DEF CreateFails, ReleaseRetire, FreeSlot, DropIfEmpty, Return, TypeOK
  <2>2. \A j \in Keys : j # key[c] => active'[j] = active[j]
    BY <1>0, <2>1
  <2>3. ASSUME NEW j \in entries'
        PROVE  /\ j # key[c] => j \in entries
               /\ j = key[c] => active'[j] > 0 \/ (idle'[j] # {} /\ ~closed)
    BY <1>0, <2>1, <2>3 DEF TypeOK
  <2>4. ASSUME NEW j \in entries'
        PROVE  active'[j] > 0 \/ idle'[j] # {}
                 \/ \E d \in Clients : key'[d] = j /\ pc'[d] \in Acquiring
    <3>1. j \in Keys
      BY <1>0 DEF TypeOK
    <3>2. CASE j = key[c]
      BY <2>3, <3>2
    <3>3. CASE j # key[c]
      BY <1>e, <2>1, <2>2, <2>3, <3>1, <3>3
    <3>4. QED
      BY <3>2, <3>3
  <2>5. ASSUME NEW j \in Keys, active'[j] > 0 \/ idle'[j] # {}
        PROVE  j \in entries'
    BY <1>e, <1>0, <2>1, <2>2, <2>5
  <2>6. ASSUME closed', NEW j \in entries'
        PROVE  active'[j] > 0
    <3>1. j \in Keys
      BY <1>0 DEF TypeOK
    <3>2. QED
      BY <1>e, <2>1, <2>2, <2>3, <2>6, <3>1
  <2>7. QED
    BY <1>f, <2>4, <2>5, <2>6
<1>8. ASSUME NEW c \in Clients, ReleaseIdle(c)
      PROVE  EntriesInv'
  <2>1. /\ key[c] \in Keys /\ ~closed' /\ entries' = entries \cup {key[c]}
        /\ idle' = [idle EXCEPT ![key[c]] = @ \cup {inst[c]}]
        /\ active' = [active EXCEPT ![key[c]] = @ - 1]
        /\ pc[c] \notin Acquiring
        /\ \A d \in Clients : d # c => pc'[d] = pc[d] /\ key'[d] = key[d]
    BY <1>0, <1>8 DEF ReleaseIdle, ToRetire, Return, TypeOK
  <2>2. /\ idle'[key[c]] # {}
        /\ \A j \in Keys : j # key[c] => active'[j] = active[j] /\ idle'[j] = idle[j]
    BY <1>0, <2>1 DEF TypeOK
  <2>3. ASSUME NEW j \in entries'
        PROVE  active'[j] > 0 \/ idle'[j] # {}
                 \/ \E d \in Clients : key'[d] = j /\ pc'[d] \in Acquiring
    <3>1. j \in Keys
      BY <1>0 DEF TypeOK
    <3>2. CASE j = key[c]
      BY <2>2, <3>2
    <3>3. CASE j # key[c]
      BY <1>e, <2>1, <2>2, <3>1, <3>3
    <3>4. QED
      BY <3>2, <3>3
  <2>4. QED
    BY <1>e, <1>f, <2>1, <2>2, <2>3
<1>9. CASE ReapIdle
  <2>1. /\ UNCHANGED <<active, closed, pc, key>>
        /\ entries' = {k \in entries : active[k] > 0 \/ idle'[k] # {}}
        /\ \A k \in Keys : idle'[k] \subseteq idle[k]
    BY <1>9 DEF ReapIdle
  <2>2. QED
    BY <1>e, <1>f, <1>0, <2>1
<1>10. CASE CloseManager
  <2>1. /\ UNCHANGED <<active, pc, key>>
        /\ entries' = {k \in entries : active[k] > 0}
        /\ \A k \in Keys : idle'[k] = {}
    BY <1>10 DEF CloseManager
  <2>2. QED
    BY <1>e, <1>f, <1>0, <2>1
<1>11. CASE \/ ReapTick \/ ReapDone \/ ReapStop \/ JoinReaper \/ CloseReturns \/ Tick
            \/ \E i \in Insts : ReapClose(i) \/ CloseIdle(i)
            \/ UNCHANGED vars
  <2>1. UNCHANGED <<entries, active, idle, closed, pc, key>>
    BY <1>11 DEF ReapTick, ReapDone, ReapStop, JoinReaper, CloseReturns, Tick, ReapClose,
                 CloseIdle, vars, poolVars, callVars
  <2>2. QED
    BY <1>q, <2>1
<1>12. QED
  BY <1>1, <1>2, <1>3, <1>4, <1>5, <1>6, <1>7, <1>8, <1>9, <1>10, <1>11
     DEF Next, AcquireStep, ReleaseStep, ReaperStep, CloserStep

\* The map holds every pool with instances and no pool nobody needs.
THEOREM MapHasNoLeak == Spec => [](EntriesCover /\ NoAbandonedEntry)
<1>1. Init => EntriesInv
  BY DEF Init, EntriesInv, EntriesCover, NoAbandonedEntry, ClosedEntries
<1>2. CoreInv /\ CoreInv' /\ ClosedIsDrained /\ EntriesInv /\ [Next]_vars => EntriesInv'
  BY EntriesStep
<1>3. EntriesInv => EntriesCover /\ NoAbandonedEntry
  BY DEF EntriesInv
<1>4. QED
  BY <1>1, <1>2, <1>3, CoreInvariant, NoWakeupIsLost, PTL DEF Spec

-----------------------------------------------------------------------------
(* The pool implements LeaseService: every step of its calls, its reaper and  *)
(* its Close is a step of semaphores and exclusive leases, or none.           *)


\* An instance belongs to a key exactly while it is live.
OwnedWhileLive == \A i \in Insts : i \in live <=> madeFor[i] # None

\* No step of pool.go leaves an owner with an instance that is closed, or takes
\* it from one that is live.
LEMMA OwnedStep == CoreInv /\ OwnedWhileLive /\ [Next]_vars => OwnedWhileLive'
<1> SUFFICES ASSUME CoreInv, OwnedWhileLive, [Next]_vars
             PROVE  OwnedWhileLive'
  OBVIOUS
<1> USE SetsAssumption DEF OwnedWhileLive
<1>0. TypeOK /\ \A c \in Clients : pc[c] # "out" => key[c] \in Keys
  BY DEF CoreInv, Shape
<1>q. ASSUME UNCHANGED <<live, madeFor>> PROVE OwnedWhileLive'
  BY <1>q
<1>d. ASSUME NEW i, Discard(i) PROVE OwnedWhileLive'
  BY <1>0, <1>d DEF Discard, TypeOK
<1>1. ASSUME NEW c \in Clients, NEW i \in Insts, Create(c, i) PROVE OwnedWhileLive'
  BY <1>0, <1>1 DEF Create, TypeOK
<1>2. ASSUME NEW c \in Clients, CloseEvicted(c) \/ CloseRetired(c) PROVE OwnedWhileLive'
  BY <1>2, <1>d DEF CloseEvicted, CloseRetired
<1>3. ASSUME NEW i \in Insts, ReapClose(i) \/ CloseIdle(i) PROVE OwnedWhileLive'
  BY <1>3, <1>d DEF ReapClose, CloseIdle
<1>4. ASSUME NEW c \in Clients,
             \/ \E k \in Keys, l \in Limits : Call(c, k, l)
             \/ RefuseClosed(c) \/ Reserve(c) \/ Wait(c) \/ Wake(c) \/ GiveUp(c)
             \/ Saturated(c) \/ CreateFails(c) \/ ReleaseIdle(c)
             \/ \E healthy \in BOOLEAN : ReleaseRetire(c, healthy)
             \/ \E i \in Insts : TakeIdle(c, i)
             \/ \E k \in Keys, i \in Insts : Evict(c, k, i)
      PROVE  OwnedWhileLive'
  BY <1>4, <1>q DEF Call, RefuseClosed, Reserve, Wait, Wake, GiveUp, Saturated,
     CreateFails, ReleaseIdle, ReleaseRetire, TakeIdle, Evict, instVars
<1>5. CASE \/ ReapTick \/ ReapIdle \/ ReapDone \/ ReapStop \/ JoinReaper \/ CloseReturns
           \/ CloseManager \/ Tick \/ UNCHANGED vars
  BY <1>5, <1>q DEF ReapTick, ReapIdle, ReapDone, ReapStop, JoinReaper, CloseReturns,
     CloseManager, Tick, vars, instVars
<1>6. QED
  BY <1>1, <1>2, <1>3, <1>4, <1>5
     DEF Next, AcquireStep, ReleaseStep, ReaperStep, CloserStep

\* In every state the instances with an owner are the live ones.
LEMMA OwnedInvariant == Spec => []OwnedWhileLive
<1>1. Init => OwnedWhileLive
  BY SetsAssumption DEF Init, OwnedWhileLive
<1>2. QED
  BY <1>1, OwnedStep, CoreInvariant, PTL DEF Spec

\* What a free slot is under the pool's sets is what it is under LeaseService's.
LEMMA RoomForSlot ==
    ASSUME CoreInv, NEW k \in Keys,
           Cardinality(Holding) < GlobalMax, Cardinality(HoldingOf(k)) < MaxLimit
    PROVE  Service!HasRoom(k)
<1>1. \A c \in Holding : key[c] \in Keys
  BY DEF CoreInv, Shape, Holding
<1>2. {c \in Clients : slotBar[c] # None} = Holding
  BY <1>1, SetsAssumption DEF Holding, slotBar
<1>3. {c \in Clients : slotBar[c] = k} = HoldingOf(k)
  BY <1>1, SetsAssumption DEF Holding, HoldingOf, slotBar
<1>4. \A S : Service!Cardinality(S) = Cardinality(S)
  BY DEF Service!Cardinality, Cardinality
<1>5. QED
  BY <1>2, <1>3, <1>4 DEF Service!HasRoom

\* The instances leased according to the refinement mapping.
LEMMA LeasedBar ==
    ASSUME CoreInv, NEW i \in Insts
    PROVE  i \in Service!Leased <=> \E c \in Clients : pc[c] = "leased" /\ inst[c] = i
  BY SetsAssumption DEF Service!Leased, leaseBar

\* Every step of the pool is a step of LeaseService or leaves its state alone.
LEMMA ServiceStep ==
    /\ CoreInv /\ CoreInv' /\ CapInv /\ CapInv' /\ KeyIsolation /\ OwnedWhileLive
    /\ [Next]_vars
    => [Service!Next]_(Service!svars)
<1> SUFFICES ASSUME CoreInv, CoreInv', CapInv, CapInv', KeyIsolation, OwnedWhileLive,
                    [Next]_vars
             PROVE  Service!Next \/ UNCHANGED Service!svars
  OBVIOUS
<1>0. /\ TypeOK /\ TypeOK'
      /\ \A c \in Clients : pc[c] # "out" => key[c] \in Keys
      /\ \A c \in Clients : pc[c] = "leased" => inst[c] \in Insts
  BY DEF CoreInv, Shape, Carrying, TypeOK
\* A step that only moves calls between places without slot or lease.
<1>q. ASSUME UNCHANGED <<madeFor, closed>>,
             \A c \in Clients :
                \/ pc'[c] = pc[c] /\ key'[c] = key[c] /\ inst'[c] = inst[c]
                \/ pc[c] \notin {"creating", "leased"} /\ pc'[c] \notin {"creating", "leased"}
      PROVE  UNCHANGED Service!svars
  <2>1. slotBar' = slotBar /\ leaseBar' = leaseBar
    BY <1>q DEF slotBar, leaseBar, Holding
  <2>2. QED
    BY <1>q, <2>1 DEF Service!svars
<1>d. ASSUME NEW i \in Insts, Discard(i), i \in live, closed' = closed,
             \A c \in Clients : pc[c] = "leased" => inst[c] # i,
             \A c \in Clients :
                \/ pc'[c] = pc[c] /\ key'[c] = key[c] /\ inst'[c] = inst[c]
                \/ pc[c] \notin {"creating", "leased"} /\ pc'[c] \notin {"creating", "leased"}
      PROVE  Service!Destroy(i)
  <2>1. slotBar' = slotBar /\ leaseBar' = leaseBar
    BY <1>d DEF slotBar, leaseBar, Holding
  <2>2. madeFor[i] # None /\ i \notin Service!Leased
    BY <1>d, LeasedBar DEF OwnedWhileLive
  <2>3. QED
    BY <1>d, <2>1, <2>2 DEF Service!Destroy, Discard
<1>1. ASSUME NEW c \in Clients,
             \/ \E k \in Keys, l \in Limits : Call(c, k, l)
             \/ RefuseClosed(c) \/ Wait(c) \/ Wake(c) \/ GiveUp(c) \/ Saturated(c)
             \/ \E k \in Keys, i \in Insts : Evict(c, k, i)
      PROVE  UNCHANGED Service!svars
  <2>1. UNCHANGED <<madeFor, closed>>
    BY <1>1 DEF Call, RefuseClosed, Wait, Wake, GiveUp, Saturated, Evict, poolVars, instVars
  <2>2. /\ pc[c] \notin {"creating", "leased"} /\ pc'[c] \notin {"creating", "leased"}
        /\ \A d \in Clients : d # c => pc'[d] = pc[d] /\ key'[d] = key[d] /\ inst'[d] = inst[d]
    BY <1>0, <1>1 DEF Call, RefuseClosed, Wait, Wake, GiveUp, Saturated, Evict,
       FindsNoneIdle, Return, TypeOK
  <2>3. QED
    BY <1>q, <2>1, <2>2
<1>2. ASSUME NEW c \in Clients, Reserve(c)
      PROVE  Service!Enter(c, key[c])
  <2>1. /\ key[c] \in Keys /\ c \notin Holding /\ ~closed /\ pc'[c] = "creating"
        /\ UNCHANGED <<key, inst, closed, madeFor>>
        /\ \A d \in Clients : d # c => pc'[d] = pc[d]
        /\ total < GlobalMax /\ active[key[c]] < limit[c]
    BY <1>0, <1>2 DEF Reserve, FindsNoneIdle, Holding, instVars, TypeOK
  <2>2. Cardinality(Holding) < GlobalMax /\ Cardinality(HoldingOf(key[c])) < MaxLimit
    <3>1. /\ total = Cardinality(Holding) + Cardinality(IdleInsts)
          /\ active[key[c]] = Cardinality(HoldingOf(key[c]))
          /\ limit[c] <= MaxLimit /\ limit[c] \in Nat
          /\ MaxLimit \in Int /\ GlobalMax \in Nat
      BY <1>0, <2>1, MaxLimitBounds, OptionsAssumption
         DEF CoreInv, Accounting, CapInv, LimitBound, TypeOK
    <3>2. /\ Cardinality(Holding) \in Nat /\ Cardinality(IdleInsts) \in Nat
          /\ active[key[c]] \in Nat
      BY <2>1, CountersNat
    <3>3. QED
      BY <2>1, <3>1, <3>2
  <2>3. Service!HasRoom(key[c])
    BY <2>1, <2>2, RoomForSlot
  <2>4. slotBar[c] = None /\ slotBar' = [slotBar EXCEPT ![c] = key[c]]
    BY <2>1 DEF slotBar, Holding
  <2>5. leaseBar' = leaseBar
    BY <2>1 DEF leaseBar, Holding
  <2>6. QED
    BY <2>1, <2>3, <2>4, <2>5 DEF Service!Enter
<1>3. ASSUME NEW c \in Clients, NEW i \in Insts, TakeIdle(c, i)
      PROVE  Service!EnterWarm(c, key[c], i)
  <2>1. /\ key[c] \in Keys /\ c \notin Holding /\ ~closed /\ pc'[c] = "leased"
        /\ i \in idle[key[c]] /\ inst' = [inst EXCEPT ![c] = i]
        /\ UNCHANGED <<key, total, closed, madeFor>>
        /\ active' = [active EXCEPT ![key[c]] = @ + 1]
        /\ pc' = [pc EXCEPT ![c] = "leased"]
        /\ \A d \in Clients : d # c => pc'[d] = pc[d]
    BY <1>0, <1>3 DEF TakeIdle, Holding, instVars, TypeOK
  <2>2. Cardinality(Holding) < GlobalMax
    <3>1. i \in IdleInsts
      BY <2>1 DEF IdleInsts
    <3>2. Cardinality(IdleInsts) # 0 /\ Cardinality(IdleInsts) \in Nat
      BY <3>1, <1>0, CountedFinite, FS_EmptySet, CountersNat
    <3>3. /\ total = Cardinality(Holding) + Cardinality(IdleInsts)
          /\ total <= GlobalMax /\ GlobalMax \in Nat /\ Cardinality(Holding) \in Nat
      BY CountersNat, OptionsAssumption DEF CoreInv, Accounting, CapInv, GlobalCap
    <3>4. QED
      BY <3>2, <3>3
  <2>3. Cardinality(HoldingOf(key[c])) < MaxLimit
    <3>1. Cardinality(idle[key[c]]) # 0 /\ Cardinality(idle[key[c]]) \in Nat
      BY <1>0, <2>1, CountedFinite, FS_EmptySet, CountersNat
    <3>2. /\ active[key[c]] = Cardinality(HoldingOf(key[c])) /\ active[key[c]] \in Nat
          /\ active[key[c]] + Cardinality(idle[key[c]]) <= MaxLimit /\ MaxLimit \in Int
      BY <2>1, CountersNat, MaxLimitBounds DEF CoreInv, Accounting, CapInv, KeyCap
    <3>3. QED
      BY <3>1, <3>2
  <2>4. Service!HasRoom(key[c])
    BY <2>1, <2>2, <2>3, RoomForSlot
  <2>5. madeFor[i] = key[c] /\ i \notin Service!Leased
    <3>1. \A d \in Clients : inst[d] # i
      BY <2>1, SetsAssumption DEF CoreInv, PlaceInv
    <3>2. QED
      BY <2>1, <3>1, LeasedBar DEF KeyIsolation
  <2>6. slotBar[c] = None /\ slotBar' = [slotBar EXCEPT ![c] = key[c]]
    BY <2>1 DEF slotBar, Holding
  <2>7. leaseBar' = [leaseBar EXCEPT ![c] = i]
    BY <1>0, <2>1 DEF leaseBar, TypeOK
  <2>8. QED
    BY <2>1, <2>4, <2>5, <2>6, <2>7 DEF Service!EnterWarm
<1>4. ASSUME NEW c \in Clients, NEW i \in Insts, Create(c, i)
      PROVE  Service!Attach(c, i)
  <2>1. /\ key[c] \in Keys /\ pc[c] = "creating" /\ pc' = [pc EXCEPT ![c] = "leased"]
        /\ i \notin live /\ UNCHANGED <<key, closed>>
        /\ inst' = [inst EXCEPT ![c] = i] /\ madeFor' = [madeFor EXCEPT ![i] = key[c]]
    BY <1>0, <1>4 DEF Create, poolVars
  <2>2. slotBar[c] = key[c] /\ slotBar' = slotBar
    BY <1>0, <2>1 DEF slotBar, Holding, TypeOK
  <2>3. leaseBar[c] = None /\ leaseBar' = [leaseBar EXCEPT ![c] = i]
    BY <1>0, <2>1 DEF leaseBar, TypeOK
  <2>4. madeFor[i] = None
    BY <2>1 DEF OwnedWhileLive
  <2>5. QED
    BY <2>1, <2>2, <2>3, <2>4, SetsAssumption DEF Service!Attach
<1>5. ASSUME NEW c \in Clients,
             \/ CreateFails(c) \/ ReleaseIdle(c)
             \/ \E healthy \in BOOLEAN : ReleaseRetire(c, healthy)
      PROVE  Service!Leave(c)
  <2>1. /\ key[c] \in Keys /\ c \in Holding /\ pc'[c] \notin {"creating", "leased"}
        /\ UNCHANGED <<closed, madeFor>>
        /\ \A d \in Clients : d # c =>
              pc'[d] = pc[d] /\ key'[d] = key[d] /\ inst'[d] = inst[d]
    BY <1>0, <1>5 DEF CreateFails, ReleaseIdle, ReleaseRetire, Return, Holding, instVars, TypeOK
  <2>2. slotBar[c] # None /\ slotBar' = [slotBar EXCEPT ![c] = None]
    BY <2>1, SetsAssumption DEF slotBar, Holding
  <2>3. leaseBar' = [leaseBar EXCEPT ![c] = None]
    BY <2>1 DEF leaseBar
  <2>4. QED
    BY <2>1, <2>2, <2>3 DEF Service!Leave
<1>6. ASSUME NEW c \in Clients, CloseEvicted(c) \/ CloseRetired(c)
      PROVE  \E i \in Insts : Service!Destroy(i)
  <2>1. /\ inst[c] \in Insts /\ Discard(inst[c]) /\ closed' = closed
        /\ pc[c] \notin {"creating", "leased"} /\ pc'[c] \notin {"creating", "leased"}
        /\ \A d \in Clients : d # c =>
              pc'[d] = pc[d] /\ key'[d] = key[d] /\ inst'[d] = inst[d]
    BY <1>0, <1>6 DEF CloseEvicted, CloseRetired, Return, poolVars, CoreInv, Shape, Carrying,
       TypeOK
  <2>2. inst[c] \in live /\ \A d \in Clients : pc[d] = "leased" => inst[d] # inst[c]
    BY <2>1, SetsAssumption DEF CoreInv, PlaceInv
  <2>3. QED
    BY <1>d, <2>1, <2>2
<1>7. ASSUME NEW i \in Insts, ReapClose(i) \/ CloseIdle(i)
      PROVE  Service!Destroy(i)
  <2>1. /\ Discard(i) /\ UNCHANGED <<closed, pc, key, inst>>
        /\ (i \in reaper.victims \/ i \in closer.victims)
    BY <1>7 DEF ReapClose, CloseIdle, poolVars, callVars
  <2>2. i \in live /\ \A d \in Clients : pc[d] = "leased" => inst[d] # i
    BY <1>0, <2>1, SetsAssumption DEF CoreInv, PlaceInv
  <2>3. QED
    BY <1>d, <2>1, <2>2
<1>8. ASSUME CloseManager
      PROVE  Service!Shut
  <2>1. ~closed /\ closed' = TRUE /\ UNCHANGED <<pc, key, inst, madeFor>>
    BY <1>8 DEF CloseManager, instVars
  <2>2. slotBar' = slotBar /\ leaseBar' = leaseBar
    BY <2>1 DEF slotBar, leaseBar, Holding
  <2>3. QED
    BY <2>1, <2>2 DEF Service!Shut
<1>9. CASE \/ ReapTick \/ ReapIdle \/ ReapDone \/ ReapStop \/ JoinReaper \/ CloseReturns
           \/ Tick \/ UNCHANGED vars
  <2>1. UNCHANGED <<madeFor, closed, pc, key, inst>>
    BY <1>9 DEF ReapTick, ReapIdle, ReapDone, ReapStop, JoinReaper, CloseReturns, Tick, vars,
       poolVars, callVars, instVars
  <2>2. QED
    BY <1>q, <2>1
<1>10. ASSUME NEW c \in Clients, AcquireStep(c) \/ GiveUp(c) \/ ReleaseStep(c)
                 \/ \E k \in Keys, l \in Limits : Call(c, k, l)
       PROVE  Service!Next \/ UNCHANGED Service!svars
  BY <1>0, <1>10, <1>1, <1>2, <1>3, <1>4, <1>5, <1>6
     DEF AcquireStep, ReleaseStep, Service!Next, Reserve, FindsNoneIdle, TakeIdle
<1>11. CASE ReaperStep \/ ReapStop \/ CloseManager \/ CloserStep \/ Tick \/ UNCHANGED vars
  BY <1>11, <1>7, <1>8, <1>9 DEF ReaperStep, CloserStep, Service!Next
<1>12. QED
  BY <1>10, <1>11 DEF Next

\* For every number of calls, keys and instances the pool's callers get what
\* LeaseService promises.
THEOREM PoolImplementsService == Spec => ImplementsService
<1>1. Init => Service!Init
  BY DEF Init, Service!Init, slotBar, leaseBar, Holding
<1>2. CoreInv /\ CoreInv' /\ CapInv /\ CapInv' /\ KeyIsolation /\ OwnedWhileLive
        /\ [Next]_vars => [Service!Next]_(Service!svars)
  BY ServiceStep
<1>3. QED
  BY <1>1, <1>2, CoreInvariant, CapInvariant, KeysAreIsolated, OwnedInvariant, PTL
     DEF Spec, ImplementsService, Service!Spec
=============================================================================
