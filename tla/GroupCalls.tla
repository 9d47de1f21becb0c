----------------------------- MODULE GroupCalls -----------------------------
(***************************************************************************)
(* The call routing of one server (src/src/router.rs, with set_effective   *)
(* and is_duplicate of fedroute.rs and cleanup_client of state.rs).        *)
(*                                                                         *)
(* Every connection has a task that handles its packets one after the      *)
(* other; the telemetry sessions and the sweep of stuck calls are tasks of *)
(* their own.  All of them share `AppState::inner` behind one lock, and a  *)
(* critical section of that lock is one action.  A handler that reads      *)
(* something before it takes the lock is two actions: GROUP_TX looks up    *)
(* the emergency alarms first (Push) and routes the call with that answer  *)
(* (GroupTx); the sweep lists the calls to end (Collect) and then ends     *)
(* them one by one (EndCollected).                                         *)
(*                                                                         *)
(* No loop-safe federation link here: a peer link is a legacy one, which   *)
(* registers what lies behind it with the SUB messages any client uses.    *)
(***************************************************************************)
EXTENDS Naturals

CONSTANTS
  Client,        \* connections
  Issi,          \* subscriber numbers
  Gssi,          \* group numbers
  GroupCallId,   \* uuids of group calls
  PrivateCallId, \* uuids of private calls
  None,
  Mode,          \* ClientMode of each connection
  Console,       \* the connections that are dispatch consoles
  Group,         \* the group a group call's uuid is used for
  Talks,         \* the GROUP_TX that may be sent
  Setups,        \* the SETUP_REQUESTs that may be sent
  Alarms,        \* the ISSIs whose alarm may be raised
  Stalls,        \* the calls that may fall silent or last too long
  Blocked,       \* the ISSI blacklist
  AllowMultiple, HigherWins, RouteWithoutAffiliations, FallbackBroadcast

CallId == GroupCallId \union PrivateCallId

EmergencyPriority == 15

Talk == [client : Client, id : GroupCallId, source : Issi, priority : Nat]

Setup == [client : Client, id : PrivateCallId, source : Issi, dest : Issi,
          priority : Nat, ambience : BOOLEAN]

ASSUME GroupCallsAssumption ==
  /\ None \notin Client \union Issi \union Gssi \union CallId
  /\ GroupCallId \intersect PrivateCallId = {}
  /\ Mode \in [Client -> {"Terminal", "Basestation", "Peer"}]
  /\ Console \subseteq {c \in Client : Mode[c] # "Peer"}
  /\ Group \in [GroupCallId -> Gssi]
  /\ Talks \subseteq Talk
  /\ Setups \subseteq Setup
  /\ Alarms \subseteq Issi
  /\ Stalls \subseteq CallId
  /\ Blocked \subseteq Issi
  /\ {AllowMultiple, HigherWins, RouteWithoutAffiliations,
      FallbackBroadcast} \subseteq BOOLEAN

VARIABLES
  clients,      \* inner.clients: the connections
  consoles,     \* inner.consoles
  subscribers,  \* inner.subscribers
  groupClients, \* inner.group_clients
  calls,        \* inner.calls
  floor,        \* inner.group_floor
  recent,       \* inner.recent_calls: the link a (call, talker) came by
  alarm,        \* ISSIs with an emergency alarm in the telemetry
  raising,      \* alarms just raised: emergency_raised is about to run
  asked,        \* GROUP_TX past its look at the alarms, per connection
  collected     \* what the running sweep has still to end

links == <<clients, consoles>>
routes == <<subscribers, groupClients>>
traffic == <<calls, floor, recent>>
alarms == <<alarm, raising>>
tasks == <<asked, collected>>

vars == <<links, routes, traffic, alarms, tasks>>

(* due: the sweep would end the call, being silent ("idle") or too long. *)
Call ==
  [kind : {"none", "group", "private"}, owner : Client \union {None},
   source : Issi \union {None}, dest : Gssi \union Issi \union {None},
   priority : Nat, peers : SUBSET Client, due : {"no", "idle", "old"}]

NoCall == [kind |-> "none", owner |-> None, source |-> None, dest |-> None,
           priority |-> 0, peers |-> {}, due |-> "no"]

Subscriber == [client : Client \union {None}, groups : SUBSET Gssi]

Unregistered == [client |-> None, groups |-> {}]

Request == [talk : Talk, emergency : BOOLEAN]

GroupCallsTypeOK ==
  /\ clients \subseteq Client
  /\ consoles \subseteq clients \intersect Console
  /\ subscribers \in [Issi -> Subscriber]
  /\ groupClients \in [Gssi -> SUBSET Client]
  /\ calls \in [CallId -> Call]
  /\ floor \in [Gssi -> CallId \union {None}]
  /\ recent \in [CallId \X Issi -> Client \union {None}]
  /\ alarm \subseteq Issi
  /\ raising \subseteq Issi
  /\ asked \in [Client -> Request \union {None}]
  /\ collected \subseteq [id : CallId, owner : Client]

Init ==
  /\ clients = {} /\ consoles = {}
  /\ subscribers = [i \in Issi |-> Unregistered]
  /\ groupClients = [g \in Gssi |-> {}]
  /\ calls = [id \in CallId |-> NoCall]
  /\ floor = [g \in Gssi |-> None]
  /\ recent = [k \in CallId \X Issi |-> None]
  /\ alarm = {} /\ raising = {}
  /\ asked = [c \in Client |-> None]
  /\ collected = {}

-----------------------------------------------------------------------------
Running(id) == calls[id].kind # "none"

PeerLinks == {c \in clients : Mode[c] = "Peer"}

(* The connection's task is between two packets. *)
Free(c) ==
  /\ c \in clients
  /\ asked[c] = None
  /\ c \in Console => c \in consoles

IsEmergency(issi, priority) ==
  priority >= EmergencyPriority \/ issi \in alarm

-----------------------------------------------------------------------------
(* Connections.                                                            *)

Connect(c) ==
  /\ c \notin clients
  /\ clients' = clients \union {c}
  /\ UNCHANGED <<consoles, routes, traffic, alarms, tasks>>

(* Faulty variants (named Keeps..., No..., Only..., ...First) are what the *)
(* checks are tried against: no definition uses them.                      *)
ConsoleFirst(c) ==
  /\ c \in Console \ consoles
  /\ consoles' = consoles \union {c}
  /\ UNCHANGED <<clients, routes, traffic, alarms, tasks>>

(* A console is entered among the consoles under a lock of its own. *)
BecomeConsole(c) ==
  /\ c \in clients \intersect Console
  /\ c \notin consoles
  /\ consoles' = consoles \union {c}
  /\ UNCHANGED <<clients, routes, traffic, alarms, tasks>>

KeepsListener(c, call) ==
  IF call.owner = c \/ (call.kind = "private" /\ c \in call.peers)
    THEN NoCall ELSE call

(* What is left of a call once connection c is gone. *)
Without(c, call) ==
  IF call.owner = c \/ (call.kind = "private" /\ c \in call.peers)
    THEN NoCall
    ELSE [call EXCEPT !.peers = @ \ {c}]

(* cleanup_client *)
Disconnect(c) ==
  /\ Free(c)
  /\ clients' = clients \ {c}
  /\ consoles' = consoles \ {c}
  /\ subscribers' = [i \in Issi |-> IF subscribers[i].client = c
                                      THEN Unregistered ELSE subscribers[i]]
  /\ groupClients' = [g \in Gssi |-> groupClients[g] \ {c}]
  /\ calls' = [id \in CallId |-> Without(c, calls[id])]
  /\ floor' = [g \in Gssi |->
                 IF \E id \in CallId : /\ floor[g] = id
                                       /\ calls[id].kind = "group"
                                       /\ calls[id].owner = c
                                       /\ calls[id].dest = g
                   THEN None ELSE floor[g]]
  /\ recent' = [k \in CallId \X Issi |->
                  IF recent[k] = c THEN None ELSE recent[k]]
  /\ UNCHANGED <<alarms, tasks>>

-----------------------------------------------------------------------------
(* Registrations and affiliations, with late entry.                        *)

KeepsNoSharedGroup(i, new) ==
  LET old == subscribers[i]
  IN /\ subscribers' = [subscribers EXCEPT ![i] = new]
     /\ groupClients' =
          [g \in Gssi |->
             (groupClients[g] \ (IF g \in old.groups THEN {old.client} ELSE {}))
             \union (IF g \in new.groups THEN {new.client} ELSE {})]

(* The effective registration of i becomes `new`.  The old connection stays *)
(* in a group another of its ISSIs is in.                                   *)
SetEffective(i, new) ==
  LET old == subscribers[i]
      StillUsed(g) == \E j \in Issi : /\ subscribers'[j].client = old.client
                                      /\ g \in subscribers'[j].groups
      leaves(g) == IF g \in old.groups /\ ~StillUsed(g)
                     THEN {old.client} ELSE {}
      joins(g) == IF g \in new.groups THEN {new.client} ELSE {}
  IN /\ subscribers' = [subscribers EXCEPT ![i] = new]
     /\ groupClients' = [g \in Gssi |->
                           (groupClients[g] \ leaves(g)) \union joins(g)]

(* Connection c has just joined groups: it is taken on by every group call *)
(* that runs in them.  Peer links learn of calls by route.                 *)
LateEntry(c, groups) ==
  calls' = [id \in CallId |->
              IF /\ Mode[c] # "Peer"
                 /\ calls[id].kind = "group" /\ calls[id].dest \in groups
                 /\ calls[id].owner # c
                THEN [calls[id] EXCEPT !.peers = @ \union {c}]
                ELSE calls[id]]

OnlyRegisters(c, i) ==
  /\ Free(c)
  /\ SetEffective(i, [client |-> c, groups |-> subscribers[i].groups])
  /\ UNCHANGED <<links, traffic, alarms, tasks>>

(* REGISTER and REREGISTER: c takes the ISSI over with the groups it has.  *)
Register(c, i) ==
  /\ Free(c)
  /\ SetEffective(i, [client |-> c, groups |-> subscribers[i].groups])
  /\ LateEntry(c, subscribers[i].groups)
  /\ UNCHANGED <<links, floor, recent, alarms, tasks>>

Deregister(c, i) ==
  /\ Free(c)
  /\ subscribers[i].client = c
  /\ SetEffective(i, Unregistered)
  /\ UNCHANGED <<links, traffic, alarms, tasks>>

Affiliate(c, i, groups) ==
  /\ Free(c)
  /\ subscribers[i].client \in {c, None}
  /\ LET all == subscribers[i].groups \union groups
     IN /\ SetEffective(i, [client |-> c, groups |-> all])
        /\ LateEntry(c, all)
  /\ UNCHANGED <<links, floor, recent, alarms, tasks>>

Deaffiliate(c, i, groups) ==
  /\ Free(c)
  /\ subscribers[i].client = c
  /\ SetEffective(i, [subscribers[i] EXCEPT !.groups = @ \ groups])
  /\ UNCHANGED <<links, traffic, alarms, tasks>>

-----------------------------------------------------------------------------
(* Calls.                                                                  *)

OnlyRecent(id, source, link) ==
  Mode[link] = "Peer" /\ recent[<<id, source>>] \notin {None, link}

(* A copy, arriving over a peer link, of a call accepted from elsewhere.   *)
IsDuplicate(id, source, link) ==
  /\ Mode[link] = "Peer"
  /\ \/ /\ Running(id) /\ calls[id].source = source
        /\ calls[id].owner # link
     \/ recent[<<id, source>>] \notin {None, link}

(* handle_group_tx up to the lock *)
Push(t) ==
  LET emergency == IsEmergency(t.source, t.priority)
  IN /\ Free(t.client)
     /\ t.source \in Blocked => emergency
     /\ asked' = [asked EXCEPT ![t.client] =
                    [talk |-> t, emergency |-> emergency]]
     /\ UNCHANGED <<links, routes, traffic, alarms, collected>>

(* The call that holds the floor transmission t asks for, if any. *)
Rivals(t) ==
  {id \in CallId : /\ ~AllowMultiple
                   /\ id = floor[Group[t.id]]
                   /\ id # t.id
                   /\ Running(id)}

Wins(priority, other) ==
  IF HigherWins THEN priority > other ELSE priority < other

Targets(t, emergency) ==
  LET members == groupClients[Group[t.id]]
      everyone == \/ RouteWithoutAffiliations
                  \/ members = {} /\ FallbackBroadcast
      sameOver == calls[t.id].owner = t.client /\ calls[t.id].source = t.source
  IN ((IF everyone THEN clients ELSE members)
      \union (IF sameOver THEN calls[t.id].peers \intersect PeerLinks ELSE {})
      \union (IF emergency THEN consoles \union PeerLinks ELSE {}))
     \ {t.client}

Raised(priority, emergency) ==
  IF emergency /\ priority < EmergencyPriority
    THEN EmergencyPriority ELSE priority

NoRelease(id, rivals) == id \in {}

(* The calls pre-empted to make way for a transmission. *)
Preempted(id, rivals) == id \in rivals

Grant(t, emergency) ==
  /\ calls' = [id \in CallId |->
                 IF id = t.id
                   THEN [kind |-> "group", owner |-> t.client,
                         source |-> t.source, dest |-> Group[t.id],
                         priority |-> Raised(t.priority, emergency),
                         peers |-> Targets(t, emergency), due |-> "no"]
                 ELSE IF Preempted(id, Rivals(t)) THEN NoCall ELSE calls[id]]
  /\ floor' = [floor EXCEPT ![Group[t.id]] = t.id]
  /\ recent' = [recent EXCEPT ![<<t.id, t.source>>] = t.client]

(* handle_group_tx under the lock *)
GroupTx(c) ==
  /\ asked[c] # None
  /\ asked' = [asked EXCEPT ![c] = None]
  /\ LET t == asked[c].talk
         granted == /\ ~IsDuplicate(t.id, t.source, c)
                    /\ \A r \in Rivals(t) : Wins(t.priority, calls[r].priority)
     IN \/ granted /\ Grant(t, asked[c].emergency)
        \/ ~granted /\ UNCHANGED traffic
  /\ UNCHANGED <<links, routes, alarms, collected>>

(* handle_private_setup: the alarm is read under the lock.  A setup that   *)
(* reaches nobody is rejected and leaves no call.                          *)
PrivateSetup(s) ==
  LET target == subscribers[s.dest].client
      barred == /\ s.source \in Blocked \/ (s.dest \in Blocked /\ ~s.ambience)
                /\ ~IsEmergency(s.source, s.priority)
      call == [kind |-> "private", owner |-> s.client, source |-> s.source,
               dest |-> s.dest, priority |-> s.priority, peers |-> {target},
               due |-> "no"]
  IN /\ Free(s.client)
     /\ ~IsDuplicate(s.id, s.source, s.client)
     /\ recent' = [recent EXCEPT ![<<s.id, s.source>>] = s.client]
     /\ calls' = IF barred \/ target \in {None, s.client} THEN calls
                 ELSE [calls EXCEPT ![s.id] = call]
     /\ UNCHANGED <<links, routes, floor, alarms, tasks>>

(* A participant ends a private call; only its talker ends a group call.   *)
MayEnd(c, id) ==
  \/ Running(id) /\ c = calls[id].owner
  \/ calls[id].kind = "private" /\ c \in calls[id].peers

Ended(id) ==
  /\ calls' = [calls EXCEPT ![id] = NoCall]
  /\ floor' = [g \in Gssi |->
                 IF /\ calls[id].kind = "group" /\ calls[id].dest = g
                    /\ floor[g] = id
                   THEN None ELSE floor[g]]
  /\ recent' = [recent EXCEPT ![<<id, calls[id].source>>] = calls[id].owner]

(* end_call: GROUP_IDLE, RELEASE or a rejected setup from connection c.    *)
EndCall(c, id) ==
  /\ Free(c)
  /\ MayEnd(c, id)
  /\ Ended(id)
  /\ UNCHANGED <<links, routes, alarms, tasks>>

(* A voice or DTMF frame, or the control of a private call. *)
Frame(c, id) ==
  /\ Free(c)
  /\ Running(id)
  /\ calls[id].kind = "group" => c = calls[id].owner
  /\ calls[id].due = "idle"
  /\ calls' = [calls EXCEPT ![id].due = "no"]
  /\ UNCHANGED <<links, routes, floor, recent, alarms, tasks>>

-----------------------------------------------------------------------------
(* Alarms.  The telemetry session enters an alarm first, then tells the    *)
(* router.                                                                 *)

AlarmRaised(i) ==
  /\ i \notin alarm
  /\ alarm' = alarm \union {i}
  /\ raising' = raising \union {i}
  /\ UNCHANGED <<links, routes, traffic, tasks>>

AlarmCancelled(i) ==
  /\ i \in alarm
  /\ alarm' = alarm \ {i}
  /\ UNCHANGED <<links, routes, traffic, raising, tasks>>

(* emergency_raised *)
EmergencyRaised(i) ==
  /\ i \in raising
  /\ raising' = raising \ {i}
  /\ calls' = [id \in CallId |->
                 IF /\ calls[id].kind = "group" /\ calls[id].source = i
                    /\ calls[id].priority < EmergencyPriority
                   THEN [calls[id] EXCEPT
                           !.priority = EmergencyPriority,
                           !.peers = @ \union ((consoles \union PeerLinks)
                                               \ {calls[id].owner})]
                   ELSE calls[id]]
  /\ UNCHANGED <<links, routes, floor, recent, alarm, tasks>>

-----------------------------------------------------------------------------
(* Time: a call falls silent or has lasted too long, and the memory of an  *)
(* accepted call fades after CALL_DEDUP_WINDOW.                            *)

FallDue(id) ==
  /\ Running(id)
  /\ \E due \in {"idle", "old"} :
       /\ calls[id].due \notin {due, "old"}
       /\ calls' = [calls EXCEPT ![id].due = due]
  /\ UNCHANGED <<links, routes, floor, recent, alarms, tasks>>

Forget(k) ==
  /\ recent[k] # None
  /\ recent' = [recent EXCEPT ![k] = None]
  /\ UNCHANGED <<links, routes, calls, floor, alarms, tasks>>

OnlyOld(id) == Running(id) /\ calls[id].due = "old"

(* run_call_duration_sweep: lists the calls that have lasted too long and  *)
(* the silent ones, and ends each as its talker would.                     *)
IsDue(id) == Running(id) /\ calls[id].due # "no"

Collect ==
  /\ collected = {}
  /\ \E id \in CallId : IsDue(id)
  /\ collected' = {[id |-> id, owner |-> calls[id].owner] :
                     id \in {k \in CallId : IsDue(k)}}
  /\ UNCHANGED <<links, routes, traffic, alarms, asked>>

EndCollected ==
  /\ \E s \in collected :
       /\ collected' = collected \ {s}
       /\ \/ MayEnd(s.owner, s.id) /\ Ended(s.id)
          \/ ~MayEnd(s.owner, s.id) /\ UNCHANGED traffic
  /\ UNCHANGED <<links, routes, alarms, asked>>

-----------------------------------------------------------------------------
Next ==
  \/ \E c \in Client :
       \/ Connect(c) \/ BecomeConsole(c) \/ Disconnect(c) \/ GroupTx(c)
       \/ \E id \in CallId : EndCall(c, id) \/ Frame(c, id)
       \/ \E i \in Issi :
            \/ Register(c, i) \/ Deregister(c, i)
            \/ \E groups \in SUBSET Gssi \ {{}} :
                 Affiliate(c, i, groups) \/ Deaffiliate(c, i, groups)
  \/ \E t \in Talks : Push(t)
  \/ \E s \in Setups : PrivateSetup(s)
  \/ \E i \in Alarms :
       AlarmRaised(i) \/ AlarmCancelled(i) \/ EmergencyRaised(i)
  \/ \E id \in Stalls : FallDue(id)
  \/ \E k \in CallId \X Issi : Forget(k)
  \/ Collect \/ EndCollected

Safety == Init /\ [][Next]_vars

(* The sweep is a timer that fires every five seconds for ever. *)
Spec == Safety /\ WF_vars(Collect) /\ WF_vars(EndCollected)

-----------------------------------------------------------------------------
(* The floor of a group is exact unless several calls are allowed in it:   *)
(* its holder is a running call of that group, and the only one.  Calls    *)
(* leave by hang-up, pre-emption, disconnection and the sweep, each with   *)
(* its own clearing of the floor; a floor left behind would refuse calls.  *)
FloorIsExact ==
  ~AllowMultiple =>
    \A g \in Gssi, id \in CallId :
      floor[g] = id <=> calls[id].kind = "group" /\ calls[id].dest = g

(* A running call's talker and participants are connected: nobody is left  *)
(* in a call (or a group, or as a route) after its connection is gone.     *)
ParticipantsAreConnected ==
  /\ \A id \in CallId : Running(id) =>
       calls[id].owner \in clients /\ calls[id].peers \subseteq clients
  /\ \A i \in Issi : subscribers[i].client \in clients \union {None}
  /\ \A g \in Gssi : groupClients[g] \subseteq clients

(* A connection is in a group's set exactly while one of the ISSIs routed  *)
(* over it is in that group (fedroute.rs:589-595).                         *)
GroupIndex ==
  \A g \in Gssi :
    groupClients[g] =
      {c \in Client : \E i \in Issi : /\ subscribers[i].client = c
                                      /\ g \in subscribers[i].groups}

(* Every connection with a member of a group takes part in the calls of    *)
(* the group, whenever it joined (late entry, docs/Late-Entry.md).         *)
MembersAreInTheCall ==
  \A id \in CallId : calls[id].kind = "group" =>
    \A c \in groupClients[calls[id].dest] :
      \/ Mode[c] = "Peer"
      \/ c = calls[id].owner
      \/ c \in calls[id].peers

(* The copy of a call that reaches us over another peer link never takes   *)
(* the call over (router.rs:198-200), however long after the original.     *)
CopyNeverTakesOver ==
  [][\A id \in CallId :
       (/\ Running(id) /\ calls'[id].kind # "none"
        /\ calls'[id].source = calls[id].source
        /\ calls'[id].owner # calls[id].owner)
       => Mode[calls'[id].owner] # "Peer"]_vars

(* A group call from an ISSI with an alarm is an emergency call once the   *)
(* router has been told of the alarm (router.rs:39-42).                    *)
AlarmMakesEmergency ==
  \A id \in CallId :
    calls[id].kind = "group" /\ calls[id].source \in alarm \ raising
      => calls[id].priority >= EmergencyPriority

(* A console brought into an emergency call stays in it until it ends,     *)
(* even if the alarm is cancelled before: the voice and the end of the     *)
(* call reach the console too (router.rs:274-276).                         *)
ConsolesHearTheEnd ==
  [][\A id \in CallId, c \in consoles :
       (/\ calls[id].kind = "group" /\ calls[id].priority >= EmergencyPriority
        /\ c \in calls[id].peers
        /\ calls[id].source \notin alarm
        /\ calls'[id].kind = "group")
       => c \in calls'[id].peers \union {calls'[id].owner}
          \/ c \notin consoles']_vars

(* A call that falls silent or lasts too long does not stay so: it ends or *)
(* is taken up again (router.rs:767-777), although the sweep works from a  *)
(* list that may be out of date when it ends a call.                       *)
StuckCallsEnd ==
  \A id \in CallId : calls[id].due # "no" ~> calls[id].due = "no"

=============================================================================
