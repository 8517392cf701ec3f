------------------------------ MODULE PairSlots ------------------------------
(***************************************************************************)
(* What the pairing table promises its callers, whichever store is behind   *)
(* it (the Store contract of internal/authstore/store.go): a pairing is     *)
(* created only while its license has a free pair slot, the count and the   *)
(* insert being one step, and a revoked pairing frees its slot for good.    *)
(* The in-memory store is this specification: each of its methods runs      *)
(* under one mutex.                                                         *)
(***************************************************************************)
EXTENDS Naturals, FiniteSets

CONSTANTS
  Pair,     \* pair ids; every completion that creates a pairing draws a new one
  License,  \* license ids
  Quota,    \* the values max_pairs may take
  None      \* "no row"

VARIABLES
  slots,   \* slots[p]: the row of pair p, or None
  granted  \* granted[l]: every max_pairs the subscription of l has had so far

slotVars == <<slots, granted>>

Row == [license : License, status : {"active", "revoked"}]

Holds(p, l) == slots[p] # None /\ slots[p].license = l /\ slots[p].status = "active"

ActivePairCount(l) == Cardinality({p \in Pair : Holds(p, l)})

Init ==
  /\ slots = [p \in Pair |-> None]
  /\ granted \in [License -> {{n} : n \in Quota}]

CreatePairingWithinCapacity(p, l) ==
  /\ slots[p] = None
  /\ \E max \in granted[l] : ActivePairCount(l) < max
  /\ slots' = [slots EXCEPT ![p] = [license |-> l, status |-> "active"]]
  /\ UNCHANGED granted

SetPairingStatus(p) ==
  /\ slots[p] # None
  /\ slots' = [slots EXCEPT ![p].status = "revoked"]
  /\ UNCHANGED granted

\* The subscription changes its max_pairs.
Grant(l) ==
  /\ \E n \in Quota : granted' = [granted EXCEPT ![l] = @ \cup {n}]
  /\ UNCHANGED slots

Next ==
  \/ \E p \in Pair, l \in License : CreatePairingWithinCapacity(p, l)
  \/ \E p \in Pair : SetPairingStatus(p)
  \/ \E l \in License : Grant(l)

Spec == Init /\ [][Next]_slotVars
=============================================================================
