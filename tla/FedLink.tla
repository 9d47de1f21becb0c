------------------------------ MODULE FedLink ------------------------------
(***************************************************************************)
(* The loop-safe peer links between the servers of a federation            *)
(* (src/src/federation.rs, and attach_client / cleanup_client as far as    *)
(* the link itself goes).                                                  *)
(*                                                                         *)
(* A link is one WebSocket session over TCP, with a sender queue and a     *)
(* reader at either end: what one end sends reaches the other in order,    *)
(* or not at all once one of them has closed.  The ends attach (enter the  *)
(* session among their clients) and close on their own, so a link may be   *)
(* half open: one end has closed, or has not attached yet, and the other   *)
(* does not know.                                                          *)
(*                                                                         *)
(* What is sent, and what reading it does, is up to the modules that       *)
(* extend this one.  Two links between the same servers are two elements   *)
(* of Link.                                                                *)
(***************************************************************************)
EXTENDS Naturals, Sequences

CONSTANTS
  Server,
  Link,
  Ends,          \* the two servers of each link
  None

ASSUME FedLinkAssumption ==
  /\ None \notin Link \union Server \union Nat
  /\ \A l \in Link : \E a, b \in Server : a # b /\ Ends[l] = {a, b}

VARIABLES
  selfId,        \* FedState::self_id, new with every start of the server
  session,       \* at each server, the state of its end of each link
  wire           \* at each server, what is on its way to it over each link

linkVars == <<selfId, session, wire>>

Far(s, l) == CHOOSE t \in Ends[l] : t # s

LinksOf(s) == {l \in Link : s \in Ends[l]}

Idle == [phase |-> "idle", nbr |-> None]

Phase(s, l) == session[s][l].phase

(* fed.links: the negotiated links of s; nbr is the server id the far end  *)
(* gave in its handshake headers.                                          *)
Attached(s) == {l \in Link : Phase(s, l) = "attached"}

NoMessages == [l \in Link |-> <<>>]

(* client.tx of every link of s: a queue the writer task empties into the  *)
(* socket.  A socket the far end has closed swallows what is written.      *)
Sent(w, s, messages) ==
  [t \in Server |-> [l \in Link |->
     IF s \in Ends[l] /\ t = Far(s, l) /\ Phase(t, l) # "idle"
       THEN w[t][l] \o messages[l]
       ELSE w[t][l]]]

(* The handshake of connect_and_run and of the listening server's upgrade: *)
(* each end learns the other's id, and the link is refused if it is one's  *)
(* own (Ends has two servers, so that cannot happen here).                 *)
Connect(l) ==
  /\ \A s \in Ends[l] : session[s][l] = Idle
  /\ session' = [s \in Server |->
       IF s \in Ends[l]
         THEN [session[s] EXCEPT ![l] = [phase |-> "open",
                                         nbr |-> selfId[Far(s, l)]]]
         ELSE session[s]]
  /\ wire' = [s \in Server |-> [wire[s] EXCEPT ![l] = <<>>]]
  /\ UNCHANGED selfId

(* An end enters the session among its clients and queues its full table   *)
(* in the same critical section.                                           *)
AttachEnd(s, l, sync) ==
  /\ l \in LinksOf(s)
  /\ Phase(s, l) = "open"
  /\ session' = [session EXCEPT ![s][l].phase = "attached"]
  /\ wire' = Sent(wire, s, [NoMessages EXCEPT ![l] = sync])
  /\ UNCHANGED selfId

(* The reader takes the next message; "rest" are the queues without it.    *)
Unread(s, l) == l \in Attached(s) /\ wire[s][l] # <<>>

Rest(s, l) == [wire EXCEPT ![s][l] = Tail(@)]

(* The queues after s has given up its ends of the links in gone.          *)
Dropped(s, gone) ==
  [wire EXCEPT ![s] = [l \in Link |-> IF l \in gone THEN <<>> ELSE @[l]]]

ClosedEnds(s, gone) ==
  [session EXCEPT ![s] = [l \in Link |-> IF l \in gone THEN Idle ELSE @[l]]]

(* An end whose far end has gone: the read fails, or the keepalive of      *)
(* run_peer_session times out.                                             *)
HalfOpen(s, l) ==
  /\ l \in LinksOf(s)
  /\ Phase(s, l) # "idle"
  /\ Phase(Far(s, l), l) = "idle"

=============================================================================
