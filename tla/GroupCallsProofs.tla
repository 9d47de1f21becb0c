-------------------------- MODULE GroupCallsProofs --------------------------
(***************************************************************************)
(* Safety of the call routing, for every set of connections, subscribers,  *)
(* groups and calls and every setting of the server: floors, participants, *)
(* the group index, late entry and copies of calls.                        *)
(***************************************************************************)
EXTENDS GroupCalls, TLAPS

-----------------------------------------------------------------------------
(* The inductive invariant.                                                *)

(* A handler past its look at the alarms works for a connected client.     *)
RequestsAreOwn ==
  \A c \in Client : asked[c] # None =>
    c \in clients /\ asked[c].talk \in Talks /\ asked[c].talk.client = c

(* A uuid stays with its kind of call, and with its group.                 *)
UuidsAreKept ==
  \A id \in CallId :
    /\ calls[id].kind = "group" => id \in GroupCallId
                                   /\ calls[id].dest = Group[id]
    /\ calls[id].kind = "private" => id \in PrivateCallId

IInv ==
  /\ GroupCallsTypeOK
  /\ RequestsAreOwn
  /\ UuidsAreKept
  /\ ParticipantsAreConnected
  /\ GroupIndex
  /\ MembersAreInTheCall
  /\ FloorIsExact

-----------------------------------------------------------------------------
(* Calls.                                                                  *)

(* The three kinds of a call are told apart.                               *)
LEMMA Kinds ==
  ASSUME NEW call \in Call
  PROVE  call.kind \in {"none", "group", "private"}
         /\ call.owner \in Client \union {None}
         /\ call.peers \in SUBSET Client
         /\ call.source \in Issi \union {None}
         /\ call.due \in {"no", "idle", "old"}
         /\ call.priority \in Nat
BY DEF Call

(* No call is a call without talker or participants.                       *)
LEMMA NoCallIsCall ==
  NoCall \in Call /\ NoCall.kind = "none" /\ NoCall.peers = {}
BY DEF NoCall, Call

(* Changing the participants of a call changes nothing else.               *)
LEMMA NewPeers ==
  ASSUME NEW call \in Call, NEW P \in SUBSET Client
  PROVE  LET new == [call EXCEPT !.peers = P]
         IN  /\ new \in Call /\ new.peers = P
             /\ new.kind = call.kind /\ new.owner = call.owner
             /\ new.source = call.source /\ new.dest = call.dest
BY DEF Call

(* Whether a call is due concerns nothing else.                            *)
LEMMA NewDue ==
  ASSUME NEW call \in Call, NEW d \in {"no", "idle", "old"}
  PROVE  LET new == [call EXCEPT !.due = d]
         IN  /\ new \in Call /\ new.peers = call.peers
             /\ new.kind = call.kind /\ new.owner = call.owner
             /\ new.source = call.source /\ new.dest = call.dest
BY DEF Call

(* A call that becomes an emergency call takes on participants and keeps   *)
(* its talker.                                                             *)
LEMMA NewEmergency ==
  ASSUME NEW call \in Call, NEW P \in SUBSET Client
  PROVE  LET new == [call EXCEPT !.priority = EmergencyPriority, !.peers = P]
         IN  /\ new \in Call /\ new.peers = P
             /\ new.kind = call.kind /\ new.owner = call.owner
             /\ new.source = call.source /\ new.dest = call.dest
BY DEF Call, EmergencyPriority

-----------------------------------------------------------------------------
(* Initially nothing is connected, registered or running.                  *)
LEMMA InitInv == Init => IInv
<1> SUFFICES ASSUME Init PROVE IInv
  OBVIOUS
<1> USE GroupCallsAssumption DEF GroupCallsAssumption, Init
<1>1. Unregistered \in Subscriber /\ Unregistered.client = None
      /\ Unregistered.groups = {}
  BY DEF Unregistered, Subscriber
<1>2. GroupCallsTypeOK
  BY <1>1, NoCallIsCall DEF GroupCallsTypeOK
<1>3. RequestsAreOwn
  BY DEF RequestsAreOwn
<1>4. UuidsAreKept /\ MembersAreInTheCall
  BY NoCallIsCall DEF UuidsAreKept, MembersAreInTheCall
<1>5. ParticipantsAreConnected
  BY <1>1, NoCallIsCall DEF ParticipantsAreConnected, Running
<1>6. GroupIndex
  BY <1>1 DEF GroupIndex
<1>7. FloorIsExact
  BY NoCallIsCall DEF FloorIsExact, CallId
<1> QED BY <1>2, <1>3, <1>4, <1>5, <1>6, <1>7 DEF IInv

-----------------------------------------------------------------------------
(* Registrations and affiliations.                                         *)

(* set_effective keeps the group index exact: the old connection leaves    *)
(* the groups no other ISSI of it is in, the new one joins the new groups. *)
LEMMA SetEffectiveIndex ==
  ASSUME GroupCallsTypeOK, GroupIndex,
         NEW i \in Issi, NEW new \in Subscriber,
         new.groups # {} => new.client \in Client,
         SetEffective(i, new)
  PROVE  /\ subscribers' \in [Issi -> Subscriber]
         /\ subscribers' = [subscribers EXCEPT ![i] = new]
         /\ groupClients' \in [Gssi -> SUBSET Client]
         /\ GroupIndex'
<1> DEFINE old == subscribers[i]
<1>1. /\ subscribers \in [Issi -> Subscriber]
      /\ groupClients \in [Gssi -> SUBSET Client]
  BY DEF GroupCallsTypeOK
<1>2. subscribers' = [subscribers EXCEPT ![i] = new]
  BY DEF SetEffective
<1>3. subscribers' \in [Issi -> Subscriber]
  BY <1>1, <1>2
<1>4. /\ new.groups \subseteq Gssi /\ old.groups \subseteq Gssi
      /\ old.client \in Client \union {None}
      /\ new.client \in Client \union {None}
  BY <1>1 DEF Subscriber
<1>5. subscribers'[i] = new
      /\ \A j \in Issi : j # i => subscribers'[j] = subscribers[j]
  BY <1>1, <1>2
<1>6. groupClients' =
        [g \in Gssi |->
           (groupClients[g] \
              (IF /\ g \in old.groups
                  /\ ~\E j \in Issi : /\ subscribers'[j].client = old.client
                                      /\ g \in subscribers'[j].groups
                 THEN {old.client} ELSE {}))
           \union (IF g \in new.groups THEN {new.client} ELSE {})]
  BY DEF SetEffective
<1>7. groupClients' \in [Gssi -> SUBSET Client]
  BY <1>1, <1>4, <1>6
<1>8. ASSUME NEW g \in Gssi, NEW c \in Client
      PROVE  c \in groupClients'[g] <=>
               \E j \in Issi : /\ subscribers'[j].client = c
                               /\ g \in subscribers'[j].groups
  <2>1. c \in groupClients[g] <=>
          \E j \in Issi : subscribers[j].client = c /\ g \in subscribers[j].groups
    BY DEF GroupIndex
  <2>2. c \in groupClients'[g] <=>
          \/ /\ c \in groupClients[g]
             /\ ~(/\ c = old.client /\ g \in old.groups
                  /\ ~\E j \in Issi : /\ subscribers'[j].client = old.client
                                      /\ g \in subscribers'[j].groups)
          \/ c = new.client /\ g \in new.groups
    BY <1>6
  <2>3. CASE c \in groupClients'[g]
    <3>1. CASE c = new.client /\ g \in new.groups
      BY <3>1, <1>5, <2>3
    <3>2. CASE c # old.client \/ g \notin old.groups
      <4>1. CASE c = new.client /\ g \in new.groups
        BY <4>1, <3>1
      <4>2. CASE ~(c = new.client /\ g \in new.groups)
        <5>1. PICK j \in Issi : subscribers[j].client = c
                                /\ g \in subscribers[j].groups
          BY <2>1, <2>2, <2>3, <4>2
        <5>2. j # i
          BY <5>1, <3>2
        <5> QED BY <5>1, <5>2, <1>5, <2>3
      <4> QED BY <4>1, <4>2
    <3>3. CASE /\ c = old.client /\ g \in old.groups
               /\ ~(c = new.client /\ g \in new.groups)
      BY <3>3, <2>2, <2>3
    <3> QED BY <3>1, <3>2, <3>3
  <2>4. CASE \E j \in Issi : /\ subscribers'[j].client = c
                             /\ g \in subscribers'[j].groups
    <3>1. PICK j \in Issi : /\ subscribers'[j].client = c
                            /\ g \in subscribers'[j].groups
      BY <2>4
    <3>2. CASE j = i
      BY <3>1, <3>2, <1>5, <2>2, <2>4
    <3>3. CASE j # i
      <4>1. c \in groupClients[g]
        BY <3>1, <3>3, <1>5, <2>1
      <4> QED BY <4>1, <2>2, <2>4
    <3> QED BY <3>2, <3>3
  <2> QED BY <2>3, <2>4
<1>9. GroupIndex'
  BY <1>7, <1>8 DEF GroupIndex
<1> QED BY <1>2, <1>3, <1>7, <1>9

(* A connection joins a group's set only by the registration set.          *)
LEMMA SetEffectiveJoins ==
  ASSUME GroupCallsTypeOK, NEW i \in Issi, NEW new, SetEffective(i, new),
         NEW g \in Gssi, NEW c \in groupClients'[g]
  PROVE  c \in groupClients[g] \/ (c = new.client /\ g \in new.groups)
BY DEF SetEffective, GroupCallsTypeOK

(* What the calls keep when only participants, priority or age change.     *)
SameCalls ==
  /\ calls' \in [CallId -> Call]
  /\ \A id \in CallId :
       /\ calls'[id].kind = calls[id].kind
       /\ calls'[id].owner = calls[id].owner
       /\ calls'[id].source = calls[id].source
       /\ calls'[id].dest = calls[id].dest
       /\ calls[id].peers \subseteq calls'[id].peers

(* Participants that join a call disturb neither floors nor uuids.         *)
LEMMA SameCallsInv ==
  ASSUME FloorIsExact, UuidsAreKept, SameCalls, UNCHANGED floor
  PROVE  FloorIsExact' /\ UuidsAreKept'
BY DEF FloorIsExact, UuidsAreKept, SameCalls

(* late_entry adds the connection, and only it, to the calls of its groups.*)
LEMMA LateEntryCalls ==
  ASSUME GroupCallsTypeOK, NEW c \in Client, NEW groups, LateEntry(c, groups)
  PROVE  /\ SameCalls
         /\ \A id \in CallId :
              /\ calls'[id].peers \subseteq calls[id].peers \union {c}
              /\ calls[id].kind = "none" => calls'[id].peers = calls[id].peers
              /\ /\ calls[id].kind = "group" /\ calls[id].dest \in groups
                 /\ Mode[c] # "Peer" /\ calls[id].owner # c
                 => c \in calls'[id].peers
<1>1. calls \in [CallId -> Call]
  BY DEF GroupCallsTypeOK
<1>2. ASSUME NEW id \in CallId
      PROVE  /\ calls'[id] \in Call
             /\ calls'[id].kind = calls[id].kind
             /\ calls'[id].owner = calls[id].owner
             /\ calls'[id].source = calls[id].source
             /\ calls'[id].dest = calls[id].dest
             /\ calls[id].peers \subseteq calls'[id].peers
             /\ calls'[id].peers \subseteq calls[id].peers \union {c}
             /\ calls[id].kind = "none" => calls'[id].peers = calls[id].peers
             /\ /\ calls[id].kind = "group" /\ calls[id].dest \in groups
                /\ Mode[c] # "Peer" /\ calls[id].owner # c
                => c \in calls'[id].peers
  <2> DEFINE P == calls[id].peers \union {c}
             new == [calls[id] EXCEPT !.peers = P]
  <2>1. calls[id] \in Call /\ calls[id].peers \in SUBSET Client
    BY <1>1, Kinds
  <2>2. P \in SUBSET Client
    BY <2>1
  <2>3. /\ new \in Call /\ new.peers = P
        /\ new.kind = calls[id].kind /\ new.owner = calls[id].owner
        /\ new.source = calls[id].source /\ new.dest = calls[id].dest
    BY <2>1, <2>2, NewPeers
  <2>4. calls'[id] = IF /\ Mode[c] # "Peer"
                        /\ calls[id].kind = "group" /\ calls[id].dest \in groups
                        /\ calls[id].owner # c
                       THEN new ELSE calls[id]
    BY DEF LateEntry
  <2> HIDE DEF new
  <2> QED BY <2>1, <2>3, <2>4
<1>3. calls' = [id \in CallId |-> calls'[id]]
  BY DEF LateEntry
<1>4. calls' \in [CallId -> Call]
  BY <1>2, <1>3
<1> QED BY <1>2, <1>4 DEF SameCalls

(* The destination of a group call is a group.                             *)
LEMMA Destinations ==
  ASSUME UuidsAreKept, NEW id \in CallId, calls[id].kind = "group"
  PROVE  calls[id].dest \in Gssi
BY GroupCallsAssumption DEF UuidsAreKept, GroupCallsAssumption

(* A registration with groups, followed by late entry into their calls.    *)
LEMMA JoinStep ==
  ASSUME IInv, NEW c \in clients, NEW i \in Issi, NEW groups \in SUBSET Gssi,
         SetEffective(i, [client |-> c, groups |-> groups]),
         LateEntry(c, groups),
         UNCHANGED <<links, floor, recent, alarms, tasks>>
  PROVE  IInv'
<1> DEFINE new == [client |-> c, groups |-> groups]
<1>1. GroupCallsTypeOK /\ GroupIndex /\ UuidsAreKept /\ FloorIsExact
      /\ ParticipantsAreConnected /\ MembersAreInTheCall /\ RequestsAreOwn
  BY DEF IInv
<1>2. c \in Client /\ new \in Subscriber /\ new.client = c
      /\ new.groups = groups
  BY <1>1 DEF GroupCallsTypeOK, Subscriber
<1>3. UNCHANGED <<clients, consoles, floor, recent, alarm, raising, asked,
                  collected>>
  BY DEF links, alarms, tasks
<1>4. /\ subscribers' \in [Issi -> Subscriber]
      /\ subscribers' = [subscribers EXCEPT ![i] = new]
      /\ groupClients' \in [Gssi -> SUBSET Client]
      /\ GroupIndex'
  BY <1>1, <1>2, SetEffectiveIndex
<1>5. /\ SameCalls
      /\ \A id \in CallId :
           /\ calls'[id].peers \subseteq calls[id].peers \union {c}
           /\ calls[id].kind = "none" => calls'[id].peers = calls[id].peers
           /\ /\ calls[id].kind = "group" /\ calls[id].dest \in groups
              /\ Mode[c] # "Peer" /\ calls[id].owner # c
              => c \in calls'[id].peers
  BY <1>1, <1>2, LateEntryCalls
<1>6. \A g \in Gssi : \A d \in groupClients'[g] :
        d \in groupClients[g] \/ (d = c /\ g \in groups)
  <2> TAKE g \in Gssi
  <2> TAKE d \in groupClients'[g]
  <2> QED BY <1>1, <1>2, SetEffectiveJoins
<1>7. GroupCallsTypeOK'
  BY <1>1, <1>3, <1>4, <1>5 DEF GroupCallsTypeOK, SameCalls
<1>8. FloorIsExact' /\ UuidsAreKept'
  BY <1>1, <1>3, <1>5, SameCallsInv
<1>9. RequestsAreOwn'
  BY <1>1, <1>3 DEF RequestsAreOwn
<1>10. ParticipantsAreConnected'
  <2>1. \A id \in CallId : Running(id)' =>
          calls'[id].owner \in clients /\ calls'[id].peers \subseteq clients
    BY <1>1, <1>5 DEF ParticipantsAreConnected, Running, SameCalls
  <2>2. \A j \in Issi : subscribers'[j].client \in clients \union {None}
    BY <1>1, <1>2, <1>4 DEF ParticipantsAreConnected, GroupCallsTypeOK
  <2>3. \A g \in Gssi : groupClients'[g] \subseteq clients
    BY <1>1, <1>6 DEF ParticipantsAreConnected
  <2> QED BY <1>3, <2>1, <2>2, <2>3 DEF ParticipantsAreConnected
<1>11. MembersAreInTheCall'
  <2> SUFFICES ASSUME NEW id \in CallId, calls'[id].kind = "group",
                      NEW d \in groupClients'[calls'[id].dest],
                      Mode[d] # "Peer", d # calls'[id].owner
               PROVE  d \in calls'[id].peers
    BY DEF MembersAreInTheCall
  <2>1. /\ calls[id].kind = "group" /\ d \in groupClients'[calls[id].dest]
        /\ d # calls[id].owner /\ calls[id].peers \subseteq calls'[id].peers
    BY <1>5 DEF SameCalls
  <2>2. calls[id].dest \in Gssi
    BY <1>1, <2>1, Destinations
  <2>3. CASE d \in groupClients[calls[id].dest]
    BY <1>1, <2>1, <2>3 DEF MembersAreInTheCall
  <2>4. CASE d = c /\ calls[id].dest \in groups
    BY <1>5, <2>1, <2>4
  <2> QED BY <1>6, <2>1, <2>2, <2>3, <2>4
<1> QED BY <1>4, <1>7, <1>8, <1>9, <1>10, <1>11 DEF IInv

(* A registration given up, in part or altogether.                         *)
LEMMA LeaveStep ==
  ASSUME IInv, NEW i \in Issi, NEW new \in Subscriber,
         new.groups \subseteq subscribers[i].groups,
         new.client \in {subscribers[i].client, None},
         new.groups # {} => new.client = subscribers[i].client
                            /\ new.client \in Client,
         SetEffective(i, new),
         UNCHANGED <<links, traffic, alarms, tasks>>
  PROVE  IInv'
<1>1. GroupCallsTypeOK /\ GroupIndex /\ UuidsAreKept /\ FloorIsExact
      /\ ParticipantsAreConnected /\ MembersAreInTheCall /\ RequestsAreOwn
  BY DEF IInv
<1>2. UNCHANGED <<clients, consoles, calls, floor, recent, alarm, raising,
                  asked, collected>>
  BY DEF links, traffic, alarms, tasks
<1>3. /\ subscribers' \in [Issi -> Subscriber]
      /\ subscribers' = [subscribers EXCEPT ![i] = new]
      /\ groupClients' \in [Gssi -> SUBSET Client]
      /\ GroupIndex'
  BY <1>1, SetEffectiveIndex
<1>4. \A g \in Gssi : groupClients'[g] \subseteq groupClients[g]
  <2> SUFFICES ASSUME NEW g \in Gssi, NEW d \in groupClients'[g]
               PROVE  d \in groupClients[g]
    OBVIOUS
  <2>1. d \in groupClients[g] \/ (d = new.client /\ g \in new.groups)
    BY <1>1, SetEffectiveJoins
  <2>2. CASE d = new.client /\ g \in new.groups
    BY <1>1, <2>2 DEF GroupIndex
  <2> QED BY <2>1, <2>2
<1>5. GroupCallsTypeOK'
  BY <1>1, <1>2, <1>3 DEF GroupCallsTypeOK
<1>6. FloorIsExact' /\ UuidsAreKept' /\ RequestsAreOwn'
  BY <1>1, <1>2 DEF FloorIsExact, UuidsAreKept, RequestsAreOwn
<1>7. ParticipantsAreConnected'
  BY <1>1, <1>2, <1>3, <1>4
     DEF ParticipantsAreConnected, Running, GroupCallsTypeOK
<1>8. MembersAreInTheCall'
  BY <1>1, <1>2, <1>4, Destinations DEF MembersAreInTheCall
<1> QED BY <1>3, <1>5, <1>6, <1>7, <1>8 DEF IInv

(* REGISTER, DEREGISTER, AFFILIATE and DEAFFILIATE.                        *)
LEMMA RegistrationStep ==
  ASSUME IInv, NEW c \in Client, NEW i \in Issi,
         \/ Register(c, i)
         \/ Deregister(c, i)
         \/ \E groups \in SUBSET Gssi \ {{}} :
              Affiliate(c, i, groups) \/ Deaffiliate(c, i, groups)
  PROVE  IInv'
<1>1. subscribers \in [Issi -> Subscriber] /\ None \notin Client
  BY GroupCallsAssumption DEF IInv, GroupCallsTypeOK, GroupCallsAssumption
<1>2. subscribers[i].groups \in SUBSET Gssi
  BY <1>1 DEF Subscriber
<1>3. CASE Register(c, i)
  <2>1. c \in clients
    BY <1>3 DEF Register, Free
  <2> QED BY <1>2, <1>3, <2>1, JoinStep DEF Register
<1>4. CASE Deregister(c, i)
  <2>1. Unregistered \in Subscriber /\ Unregistered.groups = {}
        /\ Unregistered.client = None
    BY DEF Unregistered, Subscriber
  <2> QED BY <1>4, <2>1, LeaveStep DEF Deregister
<1>5. ASSUME NEW groups \in SUBSET Gssi, Affiliate(c, i, groups)
      PROVE  IInv'
  <2>1. c \in clients
    BY <1>5 DEF Affiliate, Free
  <2>2. subscribers[i].groups \union groups \in SUBSET Gssi
    BY <1>2
  <2> QED BY <1>5, <2>1, <2>2, JoinStep DEF Affiliate
<1>6. ASSUME NEW groups \in SUBSET Gssi, Deaffiliate(c, i, groups)
      PROVE  IInv'
  <2> DEFINE new == [subscribers[i] EXCEPT !.groups = @ \ groups]
  <2>1. /\ new \in Subscriber /\ new.client = subscribers[i].client
        /\ new.groups \subseteq subscribers[i].groups
    BY <1>1 DEF Subscriber
  <2>2. subscribers[i].client = c /\ SetEffective(i, new)
        /\ UNCHANGED <<links, traffic, alarms, tasks>>
    BY <1>6 DEF Deaffiliate
  <2> HIDE DEF new
  <2> QED BY <2>1, <2>2, LeaveStep
<1> QED BY <1>3, <1>4, <1>5, <1>6

-----------------------------------------------------------------------------
(* Connections.                                                            *)

(* More connections, or more of them entered as consoles, disturb nothing. *)
LEMMA ConnectStep ==
  ASSUME IInv, NEW c \in Client, Connect(c) \/ BecomeConsole(c)
  PROVE  IInv'
<1>1. GroupCallsTypeOK /\ RequestsAreOwn /\ ParticipantsAreConnected
  BY DEF IInv
<1>2. UNCHANGED <<subscribers, groupClients, calls, floor, recent, alarm,
                  raising, asked, collected>>
  BY DEF Connect, BecomeConsole, routes, traffic, alarms, tasks
<1>3. /\ clients \subseteq clients' /\ clients' \subseteq Client
      /\ consoles' \subseteq clients' \intersect Console
  BY <1>1 DEF Connect, BecomeConsole, GroupCallsTypeOK
<1>4. GroupCallsTypeOK'
  BY <1>1, <1>2, <1>3 DEF GroupCallsTypeOK
<1>5. RequestsAreOwn'
  BY <1>1, <1>2, <1>3 DEF RequestsAreOwn
<1>6. ParticipantsAreConnected'
  BY <1>1, <1>2, <1>3 DEF ParticipantsAreConnected, Running
<1>7. UuidsAreKept' /\ GroupIndex' /\ MembersAreInTheCall' /\ FloorIsExact'
  BY <1>2
     DEF IInv, UuidsAreKept, GroupIndex, MembersAreInTheCall, FloorIsExact
<1> QED BY <1>4, <1>5, <1>6, <1>7 DEF IInv

(* A call either ends with a connection or goes on without it.             *)
LEMMA WithoutCall ==
  ASSUME NEW c \in Client, NEW call \in Call
  PROVE  \/ /\ Without(c, call) = NoCall
            /\ call.owner = c \/ call.kind = "private"
         \/ /\ Without(c, call) \in Call
            /\ Without(c, call).kind = call.kind
            /\ Without(c, call).owner = call.owner
            /\ Without(c, call).dest = call.dest
            /\ Without(c, call).peers = call.peers \ {c}
            /\ call.owner # c
<1>1. call.peers \ {c} \in SUBSET Client
  BY Kinds
<1> QED BY <1>1, NewPeers DEF Without

(* cleanup_client forgets the connection everywhere.                       *)
LEMMA DisconnectStep ==
  ASSUME IInv, NEW c \in Client, Disconnect(c)
  PROVE  IInv'
<1>1. GroupCallsTypeOK /\ GroupIndex /\ UuidsAreKept /\ FloorIsExact
      /\ ParticipantsAreConnected /\ MembersAreInTheCall /\ RequestsAreOwn
  BY DEF IInv
<1>2. /\ UNCHANGED <<alarm, raising, asked, collected>>
      /\ asked[c] = None
  BY DEF Disconnect, alarms, tasks, Free
<1>3. /\ clients' = clients \ {c} /\ consoles' = consoles \ {c}
      /\ groupClients' = [g \in Gssi |-> groupClients[g] \ {c}]
      /\ subscribers' = [i \in Issi |-> IF subscribers[i].client = c
                                          THEN Unregistered ELSE subscribers[i]]
      /\ calls' = [id \in CallId |-> Without(c, calls[id])]
      /\ recent' = [k \in CallId \X Issi |->
                      IF recent[k] = c THEN None ELSE recent[k]]
  BY DEF Disconnect
<1>4. floor' = [g \in Gssi |->
                  IF \E id \in CallId : /\ floor[g] = id
                                        /\ calls[id].kind = "group"
                                        /\ calls[id].owner = c
                                        /\ calls[id].dest = g
                    THEN None ELSE floor[g]]
  BY DEF Disconnect
<1>5. None \notin Client \union CallId
  BY GroupCallsAssumption DEF GroupCallsAssumption
<1>6. Unregistered \in Subscriber /\ Unregistered.client = None
      /\ Unregistered.groups = {}
  BY DEF Unregistered, Subscriber
<1>7. ASSUME NEW id \in CallId
      PROVE  /\ calls'[id] \in Call
             /\ \/ /\ calls'[id] = NoCall
                   /\ calls[id].owner = c \/ calls[id].kind = "private"
                \/ /\ calls'[id].kind = calls[id].kind
                   /\ calls'[id].owner = calls[id].owner
                   /\ calls'[id].dest = calls[id].dest
                   /\ calls'[id].peers = calls[id].peers \ {c}
                   /\ calls[id].owner # c
  <2>1. calls[id] \in Call
    BY <1>1 DEF GroupCallsTypeOK
  <2> QED BY <1>3, <2>1, WithoutCall, NoCallIsCall
<1>8. GroupCallsTypeOK'
  <2>1. clients' \subseteq Client /\ consoles' \subseteq clients' \intersect Console
    BY <1>1, <1>3 DEF GroupCallsTypeOK
  <2>2. /\ subscribers' \in [Issi -> Subscriber]
        /\ groupClients' \in [Gssi -> SUBSET Client]
        /\ recent' \in [CallId \X Issi -> Client \union {None}]
    BY <1>1, <1>3, <1>6 DEF GroupCallsTypeOK
  <2>3. floor' \in [Gssi -> CallId \union {None}]
    BY <1>1, <1>4 DEF GroupCallsTypeOK
  <2>4. calls' \in [CallId -> Call]
    BY <1>3, <1>7
  <2> QED BY <1>1, <1>2, <2>1, <2>2, <2>3, <2>4 DEF GroupCallsTypeOK
<1>9. RequestsAreOwn'
  BY <1>1, <1>2, <1>3 DEF RequestsAreOwn
<1>10. UuidsAreKept'
  BY <1>1, <1>7, NoCallIsCall DEF UuidsAreKept
<1>11. ParticipantsAreConnected'
  <2>1. ASSUME NEW id \in CallId, Running(id)'
        PROVE  calls'[id].owner \in clients' /\ calls'[id].peers \subseteq clients'
    <3>1. /\ calls'[id].kind = calls[id].kind
          /\ calls'[id].owner = calls[id].owner
          /\ calls'[id].peers = calls[id].peers \ {c}
          /\ calls[id].owner # c
      BY <1>7, <2>1, NoCallIsCall DEF Running
    <3>2. calls[id].owner \in clients /\ calls[id].peers \subseteq clients
      BY <1>1, <2>1, <3>1 DEF ParticipantsAreConnected, Running
    <3> QED BY <1>3, <3>1, <3>2
  <2>2. \A i \in Issi : subscribers'[i].client \in clients' \union {None}
    BY <1>1, <1>3, <1>6 DEF ParticipantsAreConnected
  <2>3. \A g \in Gssi : groupClients'[g] \subseteq clients'
    BY <1>1, <1>3 DEF ParticipantsAreConnected
  <2> QED BY <2>1, <2>2, <2>3 DEF ParticipantsAreConnected
<1>12. GroupIndex'
  <2> SUFFICES ASSUME NEW g \in Gssi, NEW d \in Client
               PROVE  d \in groupClients'[g] <=>
                        \E i \in Issi : /\ subscribers'[i].client = d
                                        /\ g \in subscribers'[i].groups
    BY <1>8 DEF GroupIndex, GroupCallsTypeOK
  <2>1. d \in groupClients[g] <=>
          \E i \in Issi : subscribers[i].client = d /\ g \in subscribers[i].groups
    BY <1>1 DEF GroupIndex
  <2> QED BY <1>3, <1>5, <1>6, <2>1
<1>13. MembersAreInTheCall'
  <2> SUFFICES ASSUME NEW id \in CallId, calls'[id].kind = "group",
                      NEW d \in groupClients'[calls'[id].dest],
                      Mode[d] # "Peer", d # calls'[id].owner
               PROVE  d \in calls'[id].peers
    BY DEF MembersAreInTheCall
  <2>1. /\ calls[id].kind = "group" /\ calls'[id].owner = calls[id].owner
        /\ calls'[id].dest = calls[id].dest
        /\ calls'[id].peers = calls[id].peers \ {c}
    BY <1>7, NoCallIsCall
  <2>2. d \in groupClients[calls[id].dest] /\ d # c
    BY <1>1, <1>3, <2>1, Destinations
  <2> QED BY <1>1, <2>1, <2>2 DEF MembersAreInTheCall
<1>14. FloorIsExact'
  <2> SUFFICES ASSUME ~AllowMultiple, NEW g \in Gssi, NEW id \in CallId
               PROVE  floor'[g] = id <=> calls'[id].kind = "group"
                                         /\ calls'[id].dest = g
    BY DEF FloorIsExact
  <2>1. floor[g] = id <=> calls[id].kind = "group" /\ calls[id].dest = g
    BY <1>1 DEF FloorIsExact
  <2>2. CASE calls[id].kind = "group" /\ calls[id].owner = c
    BY <1>4, <1>5, <1>7, <2>1, <2>2, NoCallIsCall
  <2>3. CASE ~(calls[id].kind = "group" /\ calls[id].owner = c)
    BY <1>4, <1>5, <1>7, <2>1, <2>3, NoCallIsCall
  <2> QED BY <2>2, <2>3
<1> QED BY <1>8, <1>9, <1>10, <1>11, <1>12, <1>13, <1>14 DEF IInv

-----------------------------------------------------------------------------
(* Calls.                                                                  *)

(* handle_group_tx up to the lock only remembers what it has read.         *)
LEMMA PushStep ==
  ASSUME IInv, NEW t \in Talks, Push(t)
  PROVE  IInv'
<1>1. GroupCallsTypeOK /\ RequestsAreOwn
  BY DEF IInv
<1>2. UNCHANGED <<clients, consoles, subscribers, groupClients, calls, floor,
                  recent, alarm, raising, collected>>
  BY DEF Push, links, routes, traffic, alarms
<1> DEFINE emergency == IsEmergency(t.source, t.priority)
           request == [talk |-> t, emergency |-> emergency]
<1>3. t \in Talk /\ t.client \in clients
  BY GroupCallsAssumption DEF GroupCallsAssumption, Push, Free
<1>4. emergency \in BOOLEAN
  BY DEF IsEmergency
<1>5. asked' = [asked EXCEPT ![t.client] = request]
  BY DEF Push
<1> HIDE DEF emergency
<1>6. request \in Request /\ request.talk = t
  BY <1>3, <1>4 DEF Request
<1> HIDE DEF request
<1>7. asked' \in [Client -> Request \union {None}]
  BY <1>1, <1>5, <1>6 DEF GroupCallsTypeOK
<1>8. GroupCallsTypeOK'
  BY <1>1, <1>2, <1>7 DEF GroupCallsTypeOK
<1>9. RequestsAreOwn'
  BY <1>1, <1>2, <1>3, <1>5, <1>6 DEF RequestsAreOwn, GroupCallsTypeOK
<1>10. /\ UuidsAreKept' /\ GroupIndex' /\ MembersAreInTheCall'
       /\ FloorIsExact' /\ ParticipantsAreConnected'
  BY <1>2
     DEF IInv, UuidsAreKept, GroupIndex, MembersAreInTheCall, FloorIsExact,
         ParticipantsAreConnected, Running
<1> QED BY <1>8, <1>9, <1>10 DEF IInv

(* The recipients of a transmission are connected, and every member of the *)
(* group but the talker is among them.                                     *)
LEMMA TargetsAreMembers ==
  ASSUME GroupCallsTypeOK, ParticipantsAreConnected, NEW t \in Talks,
         NEW emergency
  PROVE  /\ Targets(t, emergency) \subseteq clients
         /\ groupClients[Group[t.id]] \ {t.client} \subseteq Targets(t, emergency)
<1>1. t.id \in GroupCallId /\ Group[t.id] \in Gssi
  BY GroupCallsAssumption DEF GroupCallsAssumption, Talk
<1>2. groupClients[Group[t.id]] \subseteq clients
  BY <1>1 DEF ParticipantsAreConnected
<1>3. consoles \subseteq clients /\ PeerLinks \subseteq clients
  BY DEF GroupCallsTypeOK, PeerLinks
<1> QED BY <1>2, <1>3 DEF Targets

(* A granted transmission takes the floor, its call replacing the one      *)
(* pre-empted and whatever it was before.                                  *)
LEMMA GrantStep ==
  ASSUME IInv, NEW t \in Talks, t.client \in clients, NEW emergency,
         Grant(t, emergency), UNCHANGED <<links, routes>>
  PROVE  /\ calls' \in [CallId -> Call]
         /\ floor' \in [Gssi -> CallId \union {None}]
         /\ recent' \in [CallId \X Issi -> Client \union {None}]
         /\ UuidsAreKept' /\ ParticipantsAreConnected'
         /\ MembersAreInTheCall' /\ FloorIsExact'
<1>1. GroupCallsTypeOK /\ UuidsAreKept /\ FloorIsExact
      /\ ParticipantsAreConnected /\ MembersAreInTheCall
  BY DEF IInv
<1>2. UNCHANGED <<clients, consoles, subscribers, groupClients>>
  BY DEF links, routes
<1>3. t \in Talk /\ Group \in [GroupCallId -> Gssi]
      /\ None \notin CallId
  BY GroupCallsAssumption DEF GroupCallsAssumption
<1> DEFINE g0 == Group[t.id]
           call == [kind |-> "group", owner |-> t.client, source |-> t.source,
                    dest |-> g0, priority |-> Raised(t.priority, emergency),
                    peers |-> Targets(t, emergency), due |-> "no"]
<1>4. /\ t.client \in Client /\ t.id \in GroupCallId /\ t.id \in CallId
      /\ t.source \in Issi /\ t.priority \in Nat /\ g0 \in Gssi
  BY <1>3 DEF Talk, CallId
<1>5. /\ Targets(t, emergency) \subseteq clients
      /\ groupClients[g0] \ {t.client} \subseteq Targets(t, emergency)
  BY <1>1, TargetsAreMembers
<1>6. Raised(t.priority, emergency) \in Nat
  BY <1>4 DEF Raised, EmergencyPriority
<1>7. clients \subseteq Client
  BY <1>1 DEF GroupCallsTypeOK
<1>8. /\ call \in Call /\ call.kind = "group" /\ call.owner = t.client
      /\ call.dest = g0 /\ call.peers = Targets(t, emergency)
  BY <1>4, <1>5, <1>6, <1>7 DEF Call
<1>9. /\ calls' = [id \in CallId |->
                     IF id = t.id THEN call
                     ELSE IF Preempted(id, Rivals(t)) THEN NoCall ELSE calls[id]]
      /\ floor' = [floor EXCEPT ![g0] = t.id]
      /\ recent' = [recent EXCEPT ![<<t.id, t.source>>] = t.client]
  BY DEF Grant
<1> HIDE DEF call
<1>10. /\ calls'[t.id] = call
       /\ \A id \in CallId : id # t.id =>
            calls'[id] = IF id \in Rivals(t) THEN NoCall ELSE calls[id]
  BY <1>4, <1>9 DEF Preempted
<1>11. calls' \in [CallId -> Call]
  BY <1>1, <1>8, <1>9, NoCallIsCall DEF GroupCallsTypeOK
<1>12. floor' \in [Gssi -> CallId \union {None}]
       /\ recent' \in [CallId \X Issi -> Client \union {None}]
  BY <1>1, <1>4, <1>9 DEF GroupCallsTypeOK
<1>13. UuidsAreKept'
  BY <1>1, <1>4, <1>8, <1>10, NoCallIsCall DEF UuidsAreKept
<1>14. ParticipantsAreConnected'
  BY <1>1, <1>2, <1>5, <1>8, <1>10, NoCallIsCall
     DEF ParticipantsAreConnected, Running
<1>15. MembersAreInTheCall'
  BY <1>1, <1>2, <1>5, <1>8, <1>10, NoCallIsCall DEF MembersAreInTheCall
<1>16. FloorIsExact'
  <2> SUFFICES ASSUME ~AllowMultiple, NEW g \in Gssi, NEW id \in CallId
               PROVE  floor'[g] = id <=> calls'[id].kind = "group"
                                         /\ calls'[id].dest = g
    BY DEF FloorIsExact
  <2>1. \A h \in Gssi, k \in CallId :
          floor[h] = k <=> calls[k].kind = "group" /\ calls[k].dest = h
    BY <1>1 DEF FloorIsExact
  <2>2. floor'[g] = IF g = g0 THEN t.id ELSE floor[g]
    BY <1>1, <1>4, <1>9 DEF GroupCallsTypeOK
  <2>3. Rivals(t) = {k \in CallId : k = floor[g0] /\ k # t.id /\ Running(k)}
    BY DEF Rivals
  <2>4. CASE id = t.id
    BY <1>1, <1>8, <1>10, <2>1, <2>2, <2>4 DEF UuidsAreKept
  <2>5. CASE id # t.id /\ g = g0
    BY <1>4, <1>10, <2>1, <2>2, <2>3, <2>5, NoCallIsCall DEF Running
  <2>6. CASE id # t.id /\ g # g0
    BY <1>4, <1>10, <2>1, <2>2, <2>3, <2>6, NoCallIsCall DEF Running
  <2> QED BY <2>4, <2>5, <2>6
<1> QED BY <1>11, <1>12, <1>13, <1>14, <1>15, <1>16

(* handle_group_tx under the lock.                                         *)
LEMMA GroupTxStep ==
  ASSUME IInv, NEW c \in Client, GroupTx(c)
  PROVE  IInv'
<1>1. GroupCallsTypeOK /\ RequestsAreOwn /\ GroupIndex
  BY DEF IInv
<1>2. UNCHANGED <<clients, consoles, subscribers, groupClients, alarm,
                  raising, collected>>
      /\ UNCHANGED <<links, routes>>
  BY DEF GroupTx, links, routes, alarms
<1>3. asked' = [asked EXCEPT ![c] = None]
  BY DEF GroupTx
<1>4. /\ asked[c].talk \in Talks /\ asked[c].talk.client = c
      /\ c \in clients
  BY <1>1 DEF GroupTx, RequestsAreOwn
<1>5. /\ calls' \in [CallId -> Call]
      /\ floor' \in [Gssi -> CallId \union {None}]
      /\ recent' \in [CallId \X Issi -> Client \union {None}]
      /\ UuidsAreKept' /\ ParticipantsAreConnected'
      /\ MembersAreInTheCall' /\ FloorIsExact'
  <2>1. CASE Grant(asked[c].talk, asked[c].emergency)
    BY <1>2, <1>4, <2>1, GrantStep
  <2>2. CASE UNCHANGED traffic
    BY <1>1, <1>2, <2>2
       DEF IInv, traffic, GroupCallsTypeOK, UuidsAreKept, MembersAreInTheCall,
           ParticipantsAreConnected, Running, FloorIsExact
  <2> QED BY <2>1, <2>2 DEF GroupTx
<1>6. asked' \in [Client -> Request \union {None}]
  BY <1>1, <1>3 DEF GroupCallsTypeOK
<1>7. GroupCallsTypeOK'
  BY <1>1, <1>2, <1>5, <1>6 DEF GroupCallsTypeOK
<1>8. RequestsAreOwn'
  BY <1>1, <1>2, <1>3 DEF RequestsAreOwn, GroupCallsTypeOK
<1>9. GroupIndex'
  BY <1>1, <1>2 DEF GroupIndex
<1> QED BY <1>5, <1>7, <1>8, <1>9 DEF IInv

(* A private call never touches a group's floor.                           *)
LEMMA PrivateSetupStep ==
  ASSUME IInv, NEW s \in Setups, PrivateSetup(s)
  PROVE  IInv'
<1>1. GroupCallsTypeOK /\ RequestsAreOwn /\ GroupIndex /\ UuidsAreKept
      /\ ParticipantsAreConnected /\ MembersAreInTheCall /\ FloorIsExact
  BY DEF IInv
<1>2. UNCHANGED <<clients, consoles, subscribers, groupClients, floor, alarm,
                  raising, asked, collected>>
  BY DEF PrivateSetup, links, routes, alarms, tasks
<1> DEFINE target == subscribers[s.dest].client
           call == [kind |-> "private", owner |-> s.client,
                    source |-> s.source, dest |-> s.dest,
                    priority |-> s.priority, peers |-> {target}, due |-> "no"]
<1>3. /\ s.client \in clients /\ s.id \in PrivateCallId /\ s.id \in CallId
      /\ s.source \in Issi /\ s.dest \in Issi /\ s.priority \in Nat
  BY GroupCallsAssumption
     DEF GroupCallsAssumption, Setup, CallId, PrivateSetup, Free
<1>4. s.client \in Client /\ target \in clients \union {None}
  BY <1>1, <1>3 DEF GroupCallsTypeOK, ParticipantsAreConnected
<1>5. calls' = calls \/ (target # None /\ calls' = [calls EXCEPT ![s.id] = call])
  BY DEF PrivateSetup
<1>6. target # None =>
        /\ call \in Call /\ call.kind = "private" /\ call.owner = s.client
        /\ call.peers = {target} /\ target \in clients
  BY <1>1, <1>3, <1>4 DEF Call, GroupCallsTypeOK
<1> HIDE DEF call, target
<1>7. \A id \in CallId :
        \/ calls'[id] = calls[id]
        \/ id = s.id /\ target # None /\ calls'[id] = call
  BY <1>1, <1>5 DEF GroupCallsTypeOK
<1>8. calls[s.id].kind # "group"
  BY <1>1, <1>3, GroupCallsAssumption DEF UuidsAreKept, GroupCallsAssumption
<1>9. recent' \in [CallId \X Issi -> Client \union {None}]
  BY <1>1, <1>3, <1>4 DEF PrivateSetup, GroupCallsTypeOK
<1>10. GroupCallsTypeOK'
  BY <1>1, <1>2, <1>5, <1>6, <1>9 DEF GroupCallsTypeOK
<1>11. RequestsAreOwn' /\ GroupIndex'
  BY <1>1, <1>2 DEF RequestsAreOwn, GroupIndex
<1>12. UuidsAreKept'
  BY <1>1, <1>3, <1>6, <1>7 DEF UuidsAreKept
<1>13. ParticipantsAreConnected'
  BY <1>1, <1>2, <1>3, <1>6, <1>7 DEF ParticipantsAreConnected, Running
<1>14. MembersAreInTheCall'
  BY <1>1, <1>2, <1>6, <1>7 DEF MembersAreInTheCall
<1>15. FloorIsExact'
  BY <1>1, <1>2, <1>6, <1>7, <1>8 DEF FloorIsExact
<1> QED BY <1>10, <1>11, <1>12, <1>13, <1>14, <1>15 DEF IInv

(* The end of a call, from a connection or from the sweep, gives up the    *)
(* floor the call held and no other.                                       *)
LEMMA EndedStep ==
  ASSUME IInv, NEW id \in CallId, Ended(id),
         UNCHANGED <<links, routes, alarms, asked>>, collected' \subseteq collected
  PROVE  IInv'
<1>1. GroupCallsTypeOK /\ RequestsAreOwn /\ GroupIndex /\ UuidsAreKept
      /\ ParticipantsAreConnected /\ MembersAreInTheCall /\ FloorIsExact
  BY DEF IInv
<1>2. UNCHANGED <<clients, consoles, subscribers, groupClients, alarm,
                  raising, asked>>
  BY DEF links, routes, alarms
<1>3. /\ calls' = [calls EXCEPT ![id] = NoCall]
      /\ floor' = [g \in Gssi |->
                     IF /\ calls[id].kind = "group" /\ calls[id].dest = g
                        /\ floor[g] = id
                       THEN None ELSE floor[g]]
      /\ recent' = [recent EXCEPT ![<<id, calls[id].source>>] = calls[id].owner]
  BY DEF Ended
<1>4. /\ calls'[id] = NoCall
      /\ \A k \in CallId : k # id => calls'[k] = calls[k]
  BY <1>1, <1>3 DEF GroupCallsTypeOK
<1>5. calls[id].owner \in Client \union {None}
  BY <1>1, Kinds DEF GroupCallsTypeOK
<1>6. GroupCallsTypeOK'
  <2>1. calls' \in [CallId -> Call]
    BY <1>1, <1>3, NoCallIsCall DEF GroupCallsTypeOK
  <2>2. floor' \in [Gssi -> CallId \union {None}]
    BY <1>1, <1>3 DEF GroupCallsTypeOK
  <2>3. recent' \in [CallId \X Issi -> Client \union {None}]
    BY <1>1, <1>3, <1>5 DEF GroupCallsTypeOK
  <2> QED BY <1>1, <1>2, <2>1, <2>2, <2>3 DEF GroupCallsTypeOK
<1>7. RequestsAreOwn' /\ GroupIndex'
  BY <1>1, <1>2 DEF RequestsAreOwn, GroupIndex
<1>8. UuidsAreKept'
  BY <1>1, <1>4, NoCallIsCall DEF UuidsAreKept
<1>9. ParticipantsAreConnected'
  BY <1>1, <1>2, <1>4, NoCallIsCall DEF ParticipantsAreConnected, Running
<1>10. MembersAreInTheCall'
  BY <1>1, <1>2, <1>4, NoCallIsCall DEF MembersAreInTheCall
<1>11. FloorIsExact'
  <2> SUFFICES ASSUME ~AllowMultiple, NEW g \in Gssi, NEW k \in CallId
               PROVE  floor'[g] = k <=> calls'[k].kind = "group"
                                        /\ calls'[k].dest = g
    BY DEF FloorIsExact
  <2>1. floor[g] = k <=> calls[k].kind = "group" /\ calls[k].dest = g
    BY <1>1 DEF FloorIsExact
  <2>2. floor[g] = id <=> calls[id].kind = "group" /\ calls[id].dest = g
    BY <1>1 DEF FloorIsExact
  <2>3. None \notin CallId
    BY GroupCallsAssumption DEF GroupCallsAssumption
  <2> QED BY <1>3, <1>4, <2>1, <2>2, <2>3, NoCallIsCall
<1> QED BY <1>6, <1>7, <1>8, <1>9, <1>10, <1>11 DEF IInv

(* A running call only changes its age, its priority or, by connected      *)
(* ones, its participants.                                                 *)
LEMMA SameCallsStep ==
  ASSUME IInv, SameCalls, UNCHANGED <<links, routes, floor, recent, tasks>>,
         alarm' \subseteq Issi, raising' \subseteq Issi,
         \A id \in CallId : Running(id) => calls'[id].peers \subseteq clients
  PROVE  IInv'
<1>1. GroupCallsTypeOK /\ RequestsAreOwn /\ GroupIndex /\ UuidsAreKept
      /\ ParticipantsAreConnected /\ MembersAreInTheCall /\ FloorIsExact
  BY DEF IInv
<1>2. UNCHANGED <<clients, consoles, subscribers, groupClients, floor, recent,
                  asked, collected>>
  BY DEF links, routes, tasks
<1>3. GroupCallsTypeOK'
  BY <1>1, <1>2 DEF GroupCallsTypeOK, SameCalls
<1>4. RequestsAreOwn' /\ GroupIndex'
  BY <1>1, <1>2 DEF RequestsAreOwn, GroupIndex
<1>5. FloorIsExact' /\ UuidsAreKept'
  BY <1>1, <1>2, SameCallsInv
<1>6. ParticipantsAreConnected'
  BY <1>1, <1>2 DEF ParticipantsAreConnected, Running, SameCalls
<1>7. MembersAreInTheCall'
  BY <1>1, <1>2 DEF MembersAreInTheCall, SameCalls
<1> QED BY <1>3, <1>4, <1>5, <1>6, <1>7 DEF IInv

(* A frame and the passing of time change the age of one call.             *)
LEMMA DueStep ==
  ASSUME IInv, NEW id \in CallId, NEW due \in {"no", "idle", "old"},
         calls' = [calls EXCEPT ![id].due = due],
         UNCHANGED <<links, routes, floor, recent, alarms, tasks>>
  PROVE  IInv'
<1>1. GroupCallsTypeOK /\ ParticipantsAreConnected
  BY DEF IInv
<1>2. alarm' \subseteq Issi /\ raising' \subseteq Issi
  BY <1>1 DEF alarms, GroupCallsTypeOK
<1> DEFINE new == [calls[id] EXCEPT !.due = due]
<1>3. /\ new \in Call /\ new.peers = calls[id].peers
      /\ new.kind = calls[id].kind /\ new.owner = calls[id].owner
      /\ new.source = calls[id].source /\ new.dest = calls[id].dest
  BY <1>1, NewDue DEF GroupCallsTypeOK
<1>4. calls' = [calls EXCEPT ![id] = new]
  OBVIOUS
<1> HIDE DEF new
<1>5. SameCalls /\ \A k \in CallId : calls'[k].peers = calls[k].peers
  BY <1>1, <1>3, <1>4 DEF SameCalls, GroupCallsTypeOK
<1>6. \A k \in CallId : Running(k) => calls'[k].peers \subseteq clients
  BY <1>1, <1>5 DEF ParticipantsAreConnected
<1>7. UNCHANGED <<links, routes, floor, recent, tasks>>
  OBVIOUS
<1> QED BY <1>2, <1>5, <1>6, <1>7, SameCallsStep

(* emergency_raised brings connected consoles and peers into calls.        *)
LEMMA EmergencyRaisedStep ==
  ASSUME IInv, NEW i \in Issi, EmergencyRaised(i)
  PROVE  IInv'
<1>1. GroupCallsTypeOK /\ ParticipantsAreConnected
  BY DEF IInv
<1>2. alarm' \subseteq Issi /\ raising' \subseteq Issi
  BY <1>1 DEF EmergencyRaised, GroupCallsTypeOK
<1>3. consoles \subseteq clients /\ PeerLinks \subseteq clients
      /\ clients \subseteq Client
  BY <1>1 DEF GroupCallsTypeOK, PeerLinks
<1>4. ASSUME NEW id \in CallId
      PROVE  /\ calls'[id] \in Call
             /\ calls'[id].kind = calls[id].kind
             /\ calls'[id].owner = calls[id].owner
             /\ calls'[id].source = calls[id].source
             /\ calls'[id].dest = calls[id].dest
             /\ calls[id].peers \subseteq calls'[id].peers
             /\ calls'[id].peers \subseteq calls[id].peers \union clients
  <2> DEFINE P == calls[id].peers
                  \union ((consoles \union PeerLinks) \ {calls[id].owner})
             new == [calls[id] EXCEPT !.priority = EmergencyPriority,
                                      !.peers = P]
  <2>1. calls[id] \in Call /\ calls[id].peers \in SUBSET Client
    BY <1>1, Kinds DEF GroupCallsTypeOK
  <2>2. P \in SUBSET Client /\ P \subseteq calls[id].peers \union clients
    BY <1>3, <2>1
  <2>3. /\ new \in Call /\ new.peers = P
        /\ new.kind = calls[id].kind /\ new.owner = calls[id].owner
        /\ new.source = calls[id].source /\ new.dest = calls[id].dest
    BY <2>1, <2>2, NewEmergency
  <2>4. calls'[id] = new \/ calls'[id] = calls[id]
    BY DEF EmergencyRaised
  <2> HIDE DEF new
  <2> QED BY <2>1, <2>2, <2>3, <2>4
<1>5. calls' = [id \in CallId |-> calls'[id]]
  BY DEF EmergencyRaised
<1>6. calls' \in [CallId -> Call]
  BY <1>4, <1>5
<1>7. SameCalls
  BY <1>4, <1>6 DEF SameCalls
<1>8. \A id \in CallId : Running(id) => calls'[id].peers \subseteq clients
  BY <1>1, <1>4 DEF ParticipantsAreConnected
<1> QED BY <1>2, <1>7, <1>8, SameCallsStep DEF EmergencyRaised

(* Steps that touch neither connections, routes, calls nor floors.         *)
LEMMA BookkeepingStep ==
  ASSUME IInv, UNCHANGED <<links, routes, calls, floor, asked>>,
         alarm' \subseteq Issi, raising' \subseteq Issi,
         recent' \in [CallId \X Issi -> Client \union {None}],
         collected' \subseteq [id : CallId, owner : Client]
  PROVE  IInv'
<1>1. UNCHANGED <<clients, consoles, subscribers, groupClients, calls, floor,
                  asked>>
  BY DEF links, routes
<1>2. GroupCallsTypeOK'
  BY <1>1 DEF IInv, GroupCallsTypeOK
<1>3. /\ RequestsAreOwn' /\ UuidsAreKept' /\ ParticipantsAreConnected'
      /\ GroupIndex' /\ MembersAreInTheCall' /\ FloorIsExact'
  BY <1>1
     DEF IInv, RequestsAreOwn, UuidsAreKept, ParticipantsAreConnected, Running,
         GroupIndex, MembersAreInTheCall, FloorIsExact
<1> QED BY <1>2, <1>3 DEF IInv

(* An alarm comes up or is cancelled in the telemetry.                     *)
LEMMA AlarmStep ==
  ASSUME IInv, NEW i \in Issi, AlarmRaised(i) \/ AlarmCancelled(i)
  PROVE  IInv'
<1>1. GroupCallsTypeOK
  BY DEF IInv
<1>2. UNCHANGED <<links, routes, calls, floor, recent, asked, collected>>
  BY DEF AlarmRaised, AlarmCancelled, traffic, tasks
<1>3. alarm' \subseteq Issi /\ raising' \subseteq Issi
  BY <1>1 DEF AlarmRaised, AlarmCancelled, GroupCallsTypeOK
<1> QED BY <1>1, <1>2, <1>3, BookkeepingStep DEF GroupCallsTypeOK

(* The memory of an accepted call fades.                                   *)
LEMMA ForgetStep ==
  ASSUME IInv, NEW k \in CallId \X Issi, Forget(k)
  PROVE  IInv'
<1>1. GroupCallsTypeOK
  BY DEF IInv
<1>2. UNCHANGED <<links, routes, calls, floor, alarm, raising, asked, collected>>
  BY DEF Forget, alarms, tasks
<1>3. recent' \in [CallId \X Issi -> Client \union {None}]
  BY <1>1 DEF Forget, GroupCallsTypeOK
<1> QED BY <1>1, <1>2, <1>3, BookkeepingStep DEF GroupCallsTypeOK

(* The sweep lists running calls, each with its talker, and ends them.     *)
LEMMA SweepStep ==
  ASSUME IInv, Collect \/ EndCollected
  PROVE  IInv'
<1>1. GroupCallsTypeOK /\ ParticipantsAreConnected
  BY DEF IInv
<1>2. CASE Collect
  <2>1. UNCHANGED <<links, routes, calls, floor, recent, alarm, raising, asked>>
    BY <1>2 DEF Collect, traffic, alarms
  <2>2. collected' = {[id |-> id, owner |-> calls[id].owner] :
                        id \in {k \in CallId : IsDue(k)}}
    BY <1>2 DEF Collect
  <2>3. ASSUME NEW id \in CallId, IsDue(id)
        PROVE  calls[id].owner \in Client
    BY <1>1, <2>3 DEF IsDue, ParticipantsAreConnected, GroupCallsTypeOK
  <2>4. collected' \subseteq [id : CallId, owner : Client]
    BY <2>2, <2>3
  <2> QED BY <1>1, <2>1, <2>4, BookkeepingStep DEF GroupCallsTypeOK
<1>3. CASE EndCollected
  <2>1. PICK s \in collected :
          /\ collected' = collected \ {s}
          /\ \/ MayEnd(s.owner, s.id) /\ Ended(s.id)
             \/ UNCHANGED traffic
    BY <1>3 DEF EndCollected
  <2>2. UNCHANGED <<links, routes, alarms, asked>>
    BY <1>3 DEF EndCollected
  <2>3. s.id \in CallId
    BY <1>1 DEF GroupCallsTypeOK
  <2>4. CASE Ended(s.id)
    BY <2>1, <2>2, <2>3, <2>4, EndedStep
  <2>5. CASE UNCHANGED traffic
    BY <1>1, <2>1, <2>2, <2>5, BookkeepingStep
       DEF GroupCallsTypeOK, traffic, alarms
  <2> QED BY <2>1, <2>4, <2>5
<1> QED BY <1>2, <1>3

(* Hanging up, frames and calls that fall due.                             *)
LEMMA CallStep ==
  ASSUME IInv, NEW id \in CallId,
         (\E c \in Client : EndCall(c, id) \/ Frame(c, id)) \/ FallDue(id)
  PROVE  IInv'
<1>1. ASSUME NEW c \in Client, EndCall(c, id)
      PROVE  IInv'
  BY <1>1, EndedStep DEF EndCall, tasks
<1>2. ASSUME NEW c \in Client, Frame(c, id)
      PROVE  IInv'
  BY <1>2, DueStep DEF Frame
<1>3. CASE FallDue(id)
  <2>1. PICK due \in {"idle", "old"} : calls' = [calls EXCEPT ![id].due = due]
    BY <1>3 DEF FallDue
  <2> QED BY <1>3, <2>1, DueStep DEF FallDue
<1> QED BY <1>1, <1>2, <1>3

-----------------------------------------------------------------------------
(* Every step of the server keeps the invariant.                           *)
LEMMA NextInv == IInv /\ [Next]_vars => IInv'
<1> SUFFICES ASSUME IInv, [Next]_vars PROVE IInv'
  OBVIOUS
<1>1. CASE UNCHANGED vars
  BY <1>1, BookkeepingStep
     DEF vars, links, routes, traffic, alarms, tasks, IInv, GroupCallsTypeOK
<1>2. ASSUME NEW c \in Client,
             \/ Connect(c) \/ BecomeConsole(c) \/ Disconnect(c) \/ GroupTx(c)
             \/ \E id \in CallId : EndCall(c, id) \/ Frame(c, id)
             \/ \E i \in Issi :
                  \/ Register(c, i) \/ Deregister(c, i)
                  \/ \E groups \in SUBSET Gssi \ {{}} :
                       Affiliate(c, i, groups) \/ Deaffiliate(c, i, groups)
      PROVE  IInv'
  BY <1>2, ConnectStep, DisconnectStep, GroupTxStep, CallStep, RegistrationStep
<1>3. ASSUME NEW t \in Talks, Push(t)
      PROVE  IInv'
  BY <1>3, PushStep
<1>4. ASSUME NEW s \in Setups, PrivateSetup(s)
      PROVE  IInv'
  BY <1>4, PrivateSetupStep
<1>5. ASSUME NEW i \in Alarms,
             AlarmRaised(i) \/ AlarmCancelled(i) \/ EmergencyRaised(i)
      PROVE  IInv'
  <2>1. i \in Issi
    BY GroupCallsAssumption DEF GroupCallsAssumption
  <2> QED BY <1>5, <2>1, AlarmStep, EmergencyRaisedStep
<1>6. ASSUME NEW id \in Stalls, FallDue(id)
      PROVE  IInv'
  <2>1. id \in CallId
    BY GroupCallsAssumption DEF GroupCallsAssumption
  <2> QED BY <1>6, <2>1, CallStep
<1>7. ASSUME NEW k \in CallId \X Issi, Forget(k)
      PROVE  IInv'
  BY <1>7, ForgetStep
<1>8. CASE Collect \/ EndCollected
  BY <1>8, SweepStep
<1> QED BY <1>1, <1>2, <1>3, <1>4, <1>5, <1>6, <1>7, <1>8 DEF Next

(* The inductive invariant holds in every reachable state.                 *)
THEOREM Invariance == Safety => []IInv
<1>1. Init => IInv
  BY InitInv
<1>2. IInv /\ [Next]_vars => IInv'
  BY NextInv
<1> QED BY <1>1, <1>2, PTL DEF Safety

(* Type correctness of the calls of a server.                              *)
THEOREM TypeCorrect == Safety => []GroupCallsTypeOK
<1>1. IInv => GroupCallsTypeOK
  BY DEF IInv
<1> QED BY <1>1, Invariance, PTL

(* A group's floor belongs to the group's only running call: whichever way *)
(* calls end, no floor is left behind and none is shared.                  *)
THEOREM FloorCorrect == Safety => []FloorIsExact
<1>1. IInv => FloorIsExact
  BY DEF IInv
<1> QED BY <1>1, Invariance, PTL

(* cleanup_client leaves no trace: talkers, participants, routes and group *)
(* members are connected.                                                  *)
THEOREM ParticipantsCorrect == Safety => []ParticipantsAreConnected
<1>1. IInv => ParticipantsAreConnected
  BY DEF IInv
<1> QED BY <1>1, Invariance, PTL

(* set_effective keeps group_clients in step with the registrations.       *)
THEOREM IndexCorrect == Safety => []GroupIndex
<1>1. IInv => GroupIndex
  BY DEF IInv
<1> QED BY <1>1, Invariance, PTL

(* Late entry: a group's members take part in each of its running calls.   *)
THEOREM MembersCorrect == Safety => []MembersAreInTheCall
<1>1. IInv => MembersAreInTheCall
  BY DEF IInv
<1> QED BY <1>1, Invariance, PTL

-----------------------------------------------------------------------------
(* Copies of calls over peer links.                                        *)

(* What CopyNeverTakesOver says of one step.                               *)
NoTakeover ==
  \A id \in CallId :
    (/\ Running(id) /\ calls'[id].kind # "none"
     /\ calls'[id].source = calls[id].source
     /\ calls'[id].owner # calls[id].owner)
    => Mode[calls'[id].owner] # "Peer"

(* A talker only changes by a transmission or a setup that is no copy.     *)
LEMMA KeptTalker ==
  ASSUME \A id \in CallId : \/ calls'[id].kind = "none"
                            \/ calls'[id].owner = calls[id].owner
  PROVE  NoTakeover
BY DEF NoTakeover

(* is_duplicate refuses a copy of a running call of the same talker.       *)
LEMMA GroupTxIsNoTakeover ==
  ASSUME IInv, NEW c \in Client, GroupTx(c)
  PROVE  NoTakeover
<1> DEFINE t == asked[c].talk
<1>1. t.client = c /\ t.id \in CallId
  BY GroupCallsAssumption
     DEF GroupTx, IInv, RequestsAreOwn, GroupCallsAssumption, Talk, CallId
<1>2. CASE UNCHANGED traffic
  BY <1>2, KeptTalker DEF traffic
<1>3. CASE ~IsDuplicate(t.id, t.source, c) /\ Grant(t, asked[c].emergency)
  <2> SUFFICES ASSUME NEW id \in CallId, Running(id),
                      calls'[id].kind # "none",
                      calls'[id].source = calls[id].source,
                      calls'[id].owner # calls[id].owner
               PROVE  Mode[calls'[id].owner] # "Peer"
    BY DEF NoTakeover
  <2>1. CASE id = t.id
    <3>1. calls'[id].owner = c /\ calls'[id].source = t.source
      BY <1>1, <1>3, <2>1 DEF Grant
    <3> QED BY <1>3, <2>1, <3>1 DEF IsDuplicate
  <2>2. CASE id # t.id
    BY <1>3, <2>2, NoCallIsCall DEF Grant
  <2> QED BY <2>1, <2>2
<1> QED BY <1>2, <1>3 DEF GroupTx

(* The same for the setup of a private call.                               *)
LEMMA PrivateSetupIsNoTakeover ==
  ASSUME IInv, NEW s \in Setups, PrivateSetup(s)
  PROVE  NoTakeover
<1>1. s.id \in CallId
  BY GroupCallsAssumption DEF GroupCallsAssumption, Setup, CallId
<1>2. calls \in [CallId -> Call]
  BY DEF IInv, GroupCallsTypeOK
<1>3. ~IsDuplicate(s.id, s.source, s.client)
  BY DEF PrivateSetup
<1>4. \A id \in CallId :
        \/ calls'[id] = calls[id]
        \/ id = s.id /\ calls'[id].owner = s.client
           /\ calls'[id].source = s.source
  BY <1>1, <1>2 DEF PrivateSetup
<1> QED BY <1>3, <1>4 DEF NoTakeover, IsDuplicate

(* No other step gives a running call another talker.                      *)
LEMMA OthersKeepTalker ==
  ASSUME IInv, [Next]_vars,
         ~\E c \in Client : GroupTx(c), ~\E s \in Setups : PrivateSetup(s)
  PROVE  NoTakeover
<1>1. calls \in [CallId -> Call]
  BY DEF IInv, GroupCallsTypeOK
<1>2. CASE UNCHANGED calls
  BY <1>2, KeptTalker
<1>3. ASSUME NEW c \in Client, NEW groups, LateEntry(c, groups)
      PROVE  NoTakeover
  <2>1. SameCalls
    BY <1>3, LateEntryCalls DEF IInv
  <2> QED BY <2>1, KeptTalker DEF SameCalls
<1>4. ASSUME NEW c \in Client, Disconnect(c)
      PROVE  NoTakeover
  <2>1. ASSUME NEW id \in CallId
        PROVE  calls'[id].kind = "none" \/ calls'[id].owner = calls[id].owner
    <3>1. calls'[id] = Without(c, calls[id])
      BY <1>4 DEF Disconnect
    <3> QED BY <1>1, <3>1, WithoutCall, NoCallIsCall
  <2> QED BY <2>1, KeptTalker
<1>5. ASSUME NEW id, Ended(id)
      PROVE  NoTakeover
  <2>1. \A k \in CallId : calls'[k] = NoCall \/ calls'[k] = calls[k]
    BY <1>1, <1>5 DEF Ended
  <2> QED BY <2>1, NoCallIsCall, KeptTalker
<1>6. ASSUME NEW id \in CallId, NEW due \in {"no", "idle", "old"},
             calls' = [calls EXCEPT ![id].due = due]
      PROVE  NoTakeover
  <2>1. [calls[id] EXCEPT !.due = due].owner = calls[id].owner
    BY <1>1, NewDue
  <2>2. calls' = [calls EXCEPT ![id] = [calls[id] EXCEPT !.due = due]]
    BY <1>6
  <2>3. \A k \in CallId : calls'[k].owner = calls[k].owner
    BY <1>1, <2>1, <2>2
  <2> QED BY <2>3, KeptTalker
<1>7. ASSUME NEW i \in Issi, EmergencyRaised(i)
      PROVE  NoTakeover
  <2>1. ASSUME NEW id \in CallId
        PROVE  calls'[id].owner = calls[id].owner
    <3> DEFINE P == calls[id].peers
                    \union ((consoles \union PeerLinks) \ {calls[id].owner})
    <3>1. P \in SUBSET Client
      BY <1>1, Kinds DEF IInv, GroupCallsTypeOK, PeerLinks
    <3>2. [calls[id] EXCEPT !.priority = EmergencyPriority,
                            !.peers = P].owner = calls[id].owner
      BY <1>1, <3>1, NewEmergency
    <3> QED BY <1>7, <3>2 DEF EmergencyRaised
  <2> QED BY <2>1, KeptTalker
<1>8. \A c \in Client, i \in Issi :
        /\ Register(c, i) => NoTakeover
        /\ Deregister(c, i) => NoTakeover
        /\ \A groups \in SUBSET Gssi : Affiliate(c, i, groups) => NoTakeover
        /\ \A groups \in SUBSET Gssi : Deaffiliate(c, i, groups) => NoTakeover
  BY <1>2, <1>3 DEF Register, Deregister, Affiliate, Deaffiliate, traffic
<1>9. \A c \in Client, id \in CallId :
        /\ EndCall(c, id) => NoTakeover
        /\ Frame(c, id) => NoTakeover
  BY <1>5, <1>6 DEF EndCall, Frame
<1>10. \A id \in CallId : FallDue(id) => NoTakeover
  BY <1>6 DEF FallDue
<1>11. EndCollected => NoTakeover
  BY <1>2, <1>5 DEF EndCollected, traffic
<1>12. \A c \in Client : Connect(c) \/ BecomeConsole(c) => NoTakeover
  BY <1>2 DEF Connect, BecomeConsole, traffic
<1>13. \A i \in Issi : AlarmRaised(i) \/ AlarmCancelled(i) => NoTakeover
  BY <1>2 DEF AlarmRaised, AlarmCancelled, traffic
<1>14. Collect \/ (\E t \in Talks : Push(t))
       \/ (\E k \in CallId \X Issi : Forget(k)) \/ UNCHANGED vars => NoTakeover
  BY <1>2 DEF Collect, Push, Forget, vars, traffic
<1>15. Alarms \subseteq Issi /\ Stalls \subseteq CallId
  BY GroupCallsAssumption DEF GroupCallsAssumption
<1> QED
  BY <1>4, <1>7, <1>8, <1>9, <1>10, <1>11, <1>12, <1>13, <1>14, <1>15 DEF Next

(* The copy of a call over another peer link never takes the call over,    *)
(* whatever else happens to the call and however late the copy arrives.    *)
THEOREM CopiesCorrect == Safety => CopyNeverTakesOver
<1>1. IInv /\ [Next]_vars => NoTakeover
  BY GroupTxIsNoTakeover, PrivateSetupIsNoTakeover, OthersKeepTalker
<1>2. Safety => [][NoTakeover]_vars
  BY <1>1, Invariance, PTL DEF Safety
<1> QED BY <1>2 DEF CopyNeverTakesOver, NoTakeover

=============================================================================
