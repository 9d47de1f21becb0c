---------------------------- MODULE MCGroupCalls ----------------------------
(***************************************************************************)
(* Values for the constants of GroupCalls: a Basestation, a dispatch       *)
(* console and a peer link; two ISSIs, one group with two calls, and a     *)
(* private call, the Basestation's calls also arriving over the peer link. *)
(* A behaviour is of one of three kinds, each with less than all of it.    *)
(***************************************************************************)
EXTENDS GroupCalls

MCMode == [c \in Client |-> IF c = "peer" THEN "Peer" ELSE "Basestation"]

MCGroup == [id \in GroupCallId |-> CHOOSE g \in Gssi : TRUE]

Tx(c, id, i, p) == [client |-> c, id |-> id, source |-> i, priority |-> p]

Setup1(c) == [client |-> c, id |-> "v", source |-> "i1", dest |-> "i2",
              priority |-> 0, ambience |-> FALSE]

(* The Basestation's call, its copy over the peer link, the next over of   *)
(* the call by another talker, and a call of the console that pre-empts it.*)
MCTalks == {Tx("bts", "x", "i1", 0), Tx("peer", "x", "i1", 0),
            Tx("bts", "x", "i2", 0), Tx("desk", "y", "i2", 1)}

MCCalls == {Tx("bts", "x", "i1", 0)}

MCSetups == {Setup1("bts"), Setup1("peer")}

(* Group calls with pre-emption and copies; private calls with copies,     *)
(* beside a group call; calls of both kinds that fall due, with alarms and *)
(* the sweep, but no peer link.                                            *)
Groups == INSTANCE GroupCalls WITH
  Setups <- {}, Alarms <- {}, Stalls <- {}
Privates == INSTANCE GroupCalls WITH
  Talks <- MCCalls, Alarms <- {}, Stalls <- {}
Ends == INSTANCE GroupCalls WITH
  Talks <- MCCalls, Setups <- {Setup1("bts")}

VARIABLE part  \* which of them

MCInit == Init /\ part \in {"groups", "privates", "ends"}

MCNext ==
  /\ UNCHANGED part
  /\ \/ part = "groups" /\ Groups!Next
     \/ part = "privates" /\ Privates!Next
     \/ part = "ends" /\ Ends!Next /\ "peer" \notin clients'

MCSpec == /\ MCInit /\ [][MCNext]_<<vars, part>>
          /\ WF_vars(part = "ends" /\ Collect)
          /\ WF_vars(part = "ends" /\ EndCollected)

(* All of what the constants give, in one behaviour.                       *)
MCSafety == /\ Init /\ part = "all"
            /\ [][Next /\ UNCHANGED part]_<<vars, part>>
=============================================================================
