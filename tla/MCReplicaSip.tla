---------------------------- MODULE MCReplicaSip ----------------------------
(***************************************************************************)
(* The replication of the HA pair and the SIP bridge of a node, for TLC.   *)
(* They share no state, so a behaviour is one of either: replication runs  *)
(* when no SIP call is planned, and stays as it is at the start otherwise. *)
(***************************************************************************)
EXTENDS HaReplica, SipBridge

(* No SIP call, one of each kind, or two trunk calls at once.              *)
Plans ==
  {<<>>} \union {[c |-> k] : k \in Kinds}
  \union {[c |-> "relay", d |-> "relay"]}

InReplica == DOMAIN target = {}

MCInit == Init /\ SipInit

MCNext ==
  \/ InReplica /\ Next /\ UNCHANGED sipVars
  \/ SipNext /\ UNCHANGED vars

(* Fairness for its half, and SipFairness.                                 *)
MCFairness ==
  /\ \A n \in Node :
       /\ WF_vars(InReplica /\ Start(n)) /\ WF_vars(InReplica /\ TakeOver(n))
       /\ WF_vars(InReplica /\ Yield(n)) /\ WF_vars(InReplica /\ Replicate(n))
  /\ SipFairness

MCSpec == MCInit /\ [][MCNext]_<<vars, sipVars>> /\ MCFairness
=============================================================================
