------------------------------ MODULE MCHaPair ------------------------------
(***************************************************************************)
(* Values for the constants of HaPair: the nodes of docs/High-Availability *)
(* with "a" preferred by weight, and both with the default persist = false.*)
(***************************************************************************)
EXTENDS HaPair

MCNode == {"a", "b"}
MCWeight == [n \in MCNode |-> IF n = "a" THEN 200 ELSE 100]
MCNameOrd == [n \in MCNode |-> IF n = "a" THEN 1 ELSE 2]
MCNoPersist == [n \in MCNode |-> FALSE]

=============================================================================
