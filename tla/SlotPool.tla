------------------------------ MODULE SlotPool ------------------------------
(***************************************************************************)
(* What admission control promises, whatever keeps the books: a run holds  *)
(* a slot of a pool from its admission to its end, a run is refused at     *)
(* once when the pool is full, and a pool is never filled beyond the       *)
(* capacity a run was admitted under.  The capacity belongs to the         *)
(* admission, not to the pool, because the rules file is read again for    *)
(* every webhook and may change while runs are alive.                      *)
(***************************************************************************)
EXTENDS Naturals, FiniteSets

CONSTANTS Pools,       \* the AI review registry, and one pool per script task
          Runs,
          Capacities   \* the capacities a rules file may give

VARIABLE slots         \* slots[p][r]: capacity run r was admitted under, 0 if it holds no slot

Holders(p) == {r \in Runs : slots[p][r] # 0}

Init == slots = [p \in Pools |-> [r \in Runs |-> 0]]

Admit(p, r, c) ==
  /\ r \notin Holders(p)
  /\ Cardinality(Holders(p)) < c
  /\ slots' = [slots EXCEPT ![p][r] = c]

Release(p, r) ==
  /\ r \in Holders(p)
  /\ slots' = [slots EXCEPT ![p][r] = 0]

\* The process ends: every slot is gone at once.
Reset == slots' = [p \in Pools |-> [r \in Runs |-> 0]]

Next ==
  \/ \E p \in Pools, r \in Runs, c \in Capacities : Admit(p, r, c)
  \/ \E p \in Pools, r \in Runs : Release(p, r)
  \/ Reset

Spec == Init /\ [][Next]_slots

-----------------------------------------------------------------------------
TypeOK == slots \in [Pools -> [Runs -> Nat]]

(* Of any runs that hold slots of one pool together, one was admitted      *)
(* under a capacity that has room for them all.  It says more than a bound *)
(* by the largest capacity: whichever runs end first, those that are left  *)
(* never exceed what the last admitted of them was promised.               *)
CapacityHonoured ==
  \A p \in Pools : \A S \in SUBSET Holders(p) :
    S # {} => \E r \in S : Cardinality(S) <= slots[p][r]
=============================================================================
