------------------------------ MODULE VipLock -------------------------------
(***************************************************************************)
(* What the pair promises about the virtual IP in normal operation         *)
(* (src/src/ha.rs, module comment): the VIP is on one node's interface at  *)
(* a time, and moves only by being removed from one before it is added to  *)
(* the other.                                                              *)
(***************************************************************************)
CONSTANT Node

VARIABLE holders   \* the nodes whose interface has the VIP

Init == holders = {}

Take(n) == holders = {} /\ holders' = {n}

Release(n) == holders = {n} /\ holders' = {}

Next == \E n \in Node : Take(n) \/ Release(n)

Spec == Init /\ [][Next]_holders

=============================================================================
