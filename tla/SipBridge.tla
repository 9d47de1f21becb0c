----------------------------- MODULE SipBridge -----------------------------
(***************************************************************************)
(* SIP calls: the request and response handlers (src/src/sip/transport.rs),*)
(* the calls they track (sip/state.rs), the relays and RTP legs            *)
(* (sip/media.rs) and the bridge to the Brew core (sip/bridge.rs).         *)
(*                                                                         *)
(* Every datagram is handled by a task of its own, so an INVITE may still  *)
(* be on its way through its handler when the CANCEL for it is handled; a  *)
(* handler is split where it takes another lock.  There are no             *)
(* transactions: an INVITE that comes again (a retransmission, a           *)
(* re-INVITE) is a new call under the same Call-ID.  A run is one INVITE   *)
(* handled or one Brew call placed: it names the call's Brew uuid, its     *)
(* virtual client, its relay task and its transcoder.                      *)
(*                                                                         *)
(* A Call-ID's call goes to an extension or trunk by a relay, to a radio   *)
(* ("private"), to a group ("group"), or comes from a radio ("out").       *)
(* The Brew core is seen from here: a radio on a connection of its own, a  *)
(* group with one other talker, the sweep and the pre-emption of           *)
(* router.rs.                                                              *)
(***************************************************************************)
EXTENDS Naturals, Sequences, FiniteSets

CONSTANTS
  Call,          \* Call-IDs
  OnTrunk,       \* those with a trunk at one end
  Targets,       \* which calls go where: functions from Call-IDs to Kinds
  MaxRuns,       \* bound: INVITEs and Brew setups handled
  MaxEnding,     \* bound: handlers that end calls at once, for those that may wait
  MaxUpsets      \* bound: what a network or a radio does amiss

Kinds == {"relay", "private", "group", "out"}

ASSUME SipAssumption ==
  /\ Call # {} /\ OnTrunk \subseteq Call /\ MaxRuns \in Nat \ {0}
  /\ MaxEnding \in Nat \ {0} /\ MaxUpsets \in Nat
  /\ Targets \subseteq UNION {[calls -> Kinds] : calls \in SUBSET Call}

Run == 1..MaxRuns
NoRun == 0
Other == MaxRuns + 1        \* a radio's own call in the group

VARIABLES
  target,        \* where each Call-ID's call goes
  peer,          \* the SIP party of each call, as it sees the call
  call,          \* Inner::calls: SipCall::state
  trunk,         \* TrunkState::active_calls
  relay,         \* SipTransport::relay_tasks
  relaying,      \* the relay tasks that run
  leg,           \* BrewBridge::legs
  client,        \* AppState::clients: virtual clients
  brew,          \* AppState::calls: bridged Brew calls
  coding,        \* the transcoder tasks that run
  floor,         \* AppState::group_floor of the group
  talker,        \* whether the radio's own call in the group runs
  radio,         \* the radio of each run, as it sees the call
  invite,        \* the INVITE and setup handlers
  control,       \* the private-call-control tasks
  inbox,         \* Brew messages under way to a control task
  answer,        \* the handlers of responses to our INVITEs
  ending,        \* the handlers that end a call
  upsets

sip == <<call, trunk>>
rtp == <<relay, relaying, coding>>
core == <<client, brew, floor, talker>>
parties == <<target, peer, radio>>
tasks == <<invite, control, inbox, answer, ending>>
sipVars == <<sip, rtp, core, parties, tasks, leg, upsets>>

NoLeg == [run |-> NoRun, subscriber |-> FALSE, connected |-> FALSE, pending |-> FALSE]
NoInvite == [call |-> CHOOSE c \in Call : TRUE, pc |-> "none"]

SipInit ==
  /\ target \in Targets
  /\ peer = [c \in Call |-> "idle"]
  /\ call = [c \in Call |-> "none"] /\ trunk = 0
  /\ relay = [c \in Call |-> NoRun] /\ relaying = {} /\ coding = {}
  /\ leg = [c \in Call |-> NoLeg]
  /\ client = {} /\ brew = {}
  /\ talker \in {FALSE, \E c \in DOMAIN target : target[c] = "group"}
  /\ floor = IF talker THEN Other ELSE NoRun
  /\ radio = [r \in Run |-> "idle"]
  /\ invite = [r \in Run |-> NoInvite]
  /\ control = [r \in Run |-> "none"] /\ inbox = [r \in Run |-> <<>>]
  /\ answer = {} /\ ending = {}
  /\ upsets = 0

Amiss == upsets < MaxUpsets /\ upsets' = upsets + 1
FreeHand == Cardinality(ending) < MaxEnding
Of(r) == invite[r].call
At(r, pc) == invite[r].pc = pc
Goes(r, pc) == invite' = [invite EXCEPT ![r].pc = pc]

(* The next free run, entered as a handler's.                              *)
NewRun(c, pc) ==
  \E r \in Run :
    /\ At(r, "none") /\ \A q \in Run : q < r => ~At(q, "none")
    /\ invite' = [invite EXCEPT ![r] = [call |-> c, pc |-> pc]]
    /\ radio' = IF target[c] = "out" THEN [radio EXCEPT ![r] = "dialling"] ELSE radio

(* A handler that ends a call starts with what that call can have.         *)
FirstStep(c) == IF target[c] = "relay" THEN "relay" ELSE "leg"

Begins(by, c, pc) ==
  ending' = ending \union {[by |-> by, call |-> c, run |-> NoRun, pc |-> pc]}

RunsOf(c) == {r \in Run : ~At(r, "none") /\ Of(r) = c}
-----------------------------------------------------------------------------
(* The SIP parties.                                                        *)

(* A caller sends INVITE, sends it again while nothing answers it, or      *)
(* sends a re-INVITE during the call; handle_invite starts with a 100      *)
(* Trying, which may be lost.                                              *)
Invite(c) ==
  /\ c \in DOMAIN target /\ target[c] # "out"
  /\ \/ peer[c] = "idle" /\ peer' = [peer EXCEPT ![c] = "proceeding"] /\ UNCHANGED upsets
     \/ peer[c] = "idle" /\ Amiss /\ peer' = [peer EXCEPT ![c] = "calling"]
     \/ peer[c] = "calling" /\ peer' = [peer EXCEPT ![c] = "proceeding"] /\ UNCHANGED upsets
     \/ peer[c] = "talking" /\ Amiss /\ UNCHANGED peer
  /\ NewRun(c, "trying")
  /\ UNCHANGED <<sip, rtp, core, target, control, inbox, answer, ending, leg>>

(* It cancels or hangs up: CANCEL or BYE, both handled alike.              *)
Hears(c) == peer[c] \in {"talking", "alone", "unwanted"}

HangUp(c) ==
  /\ Hears(c) \/ (peer[c] = "proceeding" /\ target[c] # "out")
  /\ FreeHand
  /\ peer' = [peer EXCEPT ![c] = "leaving"]
  /\ Begins("peer", c, FirstStep(c))
  /\ UNCHANGED <<sip, rtp, core, target, radio, invite, control, inbox, answer, leg, upsets>>

(* So does the far end of a relay, under the same Call-ID; the caller is   *)
(* not told.                                                               *)
FarEndHangsUp(c) ==
  /\ peer[c] = "talking" /\ target[c] = "relay"
  /\ FreeHand
  /\ peer' = [peer EXCEPT ![c] = "alone"]
  /\ Begins("far", c, FirstStep(c))
  /\ UNCHANGED <<sip, rtp, core, target, radio, invite, control, inbox, answer, leg, upsets>>

(* The party we invited answers or refuses, and may say so again.          *)
Respond(c, ok) ==
  /\ c \in DOMAIN target /\ target[c] = "out"
  /\ \/ peer[c] = "calling" /\ UNCHANGED upsets
     \/ peer[c] = "talking" /\ ok /\ Amiss
  /\ peer' = [peer EXCEPT ![c] = IF ok THEN "talking" ELSE "gone"]
  /\ answer' = answer \union {[call |-> c, ok |-> ok, run |-> NoRun, pc |-> "read"]}
  /\ UNCHANGED <<sip, rtp, core, target, radio, invite, control, inbox, ending, leg>>
-----------------------------------------------------------------------------
(* The rest of handle_invite and what it calls, up to each lock that others *)
(* see.                                                                    *)

(* SipState::start_call, which takes the place of a call of that Call-ID.  *)
StartCall(c) ==
  /\ call' = [call EXCEPT ![c] = "routing"]
  /\ trunk' = trunk + IF c \in OnTrunk THEN 1 ELSE 0

Track(r) ==
  /\ At(r, "trying") /\ Goes(r, "tracked")
  /\ StartCall(Of(r))
  /\ UNCHANGED <<rtp, core, parties, control, inbox, answer, ending, leg, upsets>>

(* The destination is not registered, not affiliated or blocked, or no     *)
(* RTP port is free: an error response, then end_call.                     *)
Refuse(r) ==
  /\ At(r, "tracked") /\ target[Of(r)] # "out" /\ Goes(r, "done")
  /\ peer' = [peer EXCEPT ![Of(r)] = IF @ \in {"calling", "proceeding"} THEN "gone" ELSE @]
  /\ Begins("refusal", Of(r), "call")
  /\ UNCHANGED <<sip, rtp, core, target, radio, control, inbox, answer, leg, upsets>>

(* terminate_to_extension, terminate_to_trunk: the relay runs; a task of   *)
(* that Call-ID before it is forgotten, not aborted.                       *)
Bridge(r) ==
  /\ At(r, "tracked") /\ target[Of(r)] = "relay" /\ Goes(r, "bridged")
  /\ relaying' = relaying \union {r}
  /\ relay' = [relay EXCEPT ![Of(r)] = r]
  /\ UNCHANGED <<sip, coding, core, parties, control, inbox, answer, ending, leg, upsets>>

(* The virtual client and its call enter the Brew core; a group's floor is *)
(* taken whoever holds it.                                                 *)
Enter(r) ==
  /\ At(r, "placed") \/ (At(r, "tracked") /\ target[Of(r)] \in {"private", "group"})
  /\ Goes(r, "entered")
  /\ client' = client \union {r} /\ brew' = brew \union {r}
  /\ floor' = IF target[Of(r)] = "group" THEN r ELSE floor
  /\ radio' = [radio EXCEPT ![r] = CASE target[Of(r)] = "private" -> "called"
                                     [] target[Of(r)] = "group" -> "listening"
                                     [] OTHER -> @]
  /\ UNCHANGED <<sip, rtp, talker, target, peer, control, inbox, answer, ending, leg, upsets>>

(* The leg is entered, over one of that Call-ID if there is one: that      *)
(* one's transcoder is not aborted.  The transcoder starts, except for a   *)
(* call from a radio, whose codec the answer decides; a private call's     *)
(* control task starts with it, and a call from a radio is sent as INVITE. *)
AddLeg(r) ==
  LET t == target[Of(r)] IN
  /\ At(r, "entered") /\ Goes(r, IF t = "group" THEN "bridged" ELSE "done")
  /\ leg' = [leg EXCEPT ![Of(r)] = [run |-> r, subscriber |-> t = "out",
                                    connected |-> FALSE, pending |-> t = "out"]]
  /\ coding' = IF t = "out" THEN coding ELSE coding \union {r}
  /\ control' = IF t = "private" THEN [control EXCEPT ![r] = "waits"] ELSE control
  /\ peer' = IF t = "out" THEN [peer EXCEPT ![Of(r)] = "calling"] ELSE peer
  /\ UNCHANGED <<sip, relay, relaying, core, target, radio, inbox, answer, ending, upsets>>

(* SipState::answer_call.                                                  *)
Answered(c) == [call EXCEPT ![c] = IF @ = "none" THEN @ ELSE "answered"]

(* 200 OK: a caller that had given up finds itself in a call.              *)
Accepted(c) ==
  [peer EXCEPT ![c] = IF @ \in {"leaving", "gone", "unwanted"} THEN "unwanted" ELSE "talking"]

Answer(r) ==
  /\ At(r, "bridged") /\ Goes(r, "done")
  /\ peer' = Accepted(Of(r))
  /\ call' = Answered(Of(r))
  /\ UNCHANGED <<trunk, rtp, core, target, radio, control, inbox, answer, ending, leg, upsets>>
-----------------------------------------------------------------------------
(* A call from a radio: handle_private_setup, brew_to_sip, place_outbound, *)
(* within the handler of the radio's connection.                           *)

SetUp(c) ==
  /\ c \in DOMAIN target /\ target[c] = "out" /\ RunsOf(c) = {}
  /\ NewRun(c, "tracked")
  /\ UNCHANGED <<sip, rtp, core, target, peer, control, inbox, answer, ending, leg, upsets>>

(* No registration to call, or a route that leads elsewhere: rejected.  No *)
(* RTP port: brew_to_sip says it has placed the call all the same, and the *)
(* radio is told nothing.                                                  *)
NotPlaced(r) ==
  /\ At(r, "tracked") /\ target[Of(r)] = "out" /\ Goes(r, "done")
  /\ \E told \in BOOLEAN : radio' = [radio EXCEPT ![r] = IF told THEN "over" ELSE "untold"]
  /\ UNCHANGED <<sip, rtp, core, target, peer, control, inbox, answer, ending, leg, upsets>>

PlaceOutbound(r) ==
  /\ At(r, "tracked") /\ target[Of(r)] = "out" /\ Goes(r, "placed")
  /\ StartCall(Of(r))
  /\ UNCHANGED <<rtp, core, parties, control, inbox, answer, ending, leg, upsets>>
-----------------------------------------------------------------------------
(* on_sip_response, for the INVITE place_outbound sent.                    *)

(* It reads the leg first: no leg, or one answered already, is no matter.  *)
ReadLeg(a) ==
  /\ a \in answer /\ a.pc = "read"
  /\ answer' = (answer \ {a}) \union
       IF leg[a.call].subscriber /\ ~leg[a.call].connected
         THEN {[a EXCEPT !.run = leg[a.call].run, !.pc = "act"]} ELSE {}
  /\ UNCHANGED <<sip, rtp, core, parties, invite, control, inbox, ending, leg, upsets>>

Connected(c) == [leg EXCEPT ![c].connected = leg[c].run # NoRun]

(* 200: the radio is connected, the call answered.  An error: the radio is *)
(* released, the leg torn down and the call ended.                         *)
ActOn(a) ==
  /\ a \in answer /\ a.pc = "act"
  /\ leg' = Connected(a.call)
  /\ radio' = [radio EXCEPT ![a.run] = IF @ # "dialling" THEN @
                                       ELSE IF a.ok THEN "talking" ELSE "over"]
  /\ IF a.ok
       THEN /\ call' = Answered(a.call)
            /\ answer' = (answer \ {a}) \union {[a EXCEPT !.pc = "media"]}
            /\ UNCHANGED ending
       ELSE /\ Begins("answer", a.call, "leg")
            /\ answer' = answer \ {a}
            /\ UNCHANGED call
  /\ UNCHANGED <<trunk, rtp, core, target, peer, invite, control, inbox, upsets>>

(* start_pending_media, once per leg, and the ACK.                         *)
StartMedia(a) ==
  /\ a \in answer /\ a.pc = "media"
  /\ answer' = answer \ {a}
  /\ coding' = IF leg[a.call].pending THEN coding \union {leg[a.call].run} ELSE coding
  /\ leg' = [leg EXCEPT ![a.call].pending = FALSE]
  /\ UNCHANGED <<sip, relay, relaying, core, parties, invite, control, inbox, ending, upsets>>
-----------------------------------------------------------------------------
(* The radio of a private call, and its messages by way of the router, the *)
(* virtual client and the transcoder to the control task.                  *)

Forwarded(r, m) ==
  IF r \in client /\ target[Of(r)] = "private" /\ control[r] # "ended"
    THEN [inbox EXCEPT ![r] = Append(@, m)] ELSE inbox

(* The Brew core has ended the call (router.rs: end_call, cleanup_client,  *)
(* a pre-emption) and then calls teardown_by_brew_call.                    *)
BrewEnds(r, taker) ==
  /\ brew' = brew \ {r}
  /\ floor' = IF floor = r THEN taker ELSE floor
  /\ ending' = ending \union {[by |-> "brew", call |-> Of(r), run |-> r, pc |-> "find"]}
  /\ UNCHANGED client

RadioAccepts(r) ==
  /\ radio[r] = "called" /\ radio' = [radio EXCEPT ![r] = "answering"]
  /\ inbox' = Forwarded(r, "connect")
  /\ UNCHANGED <<sip, rtp, core, target, peer, invite, control, answer, ending, leg, upsets>>

(* It releases the call, or its connection is lost.                        *)
RadioReleases(r) ==
  /\ radio[r] \in {"called", "answering", "talking", "dialling"}
  /\ target[Of(r)] = "out" => At(r, "done")
  /\ r \in brew
  /\ radio' = [radio EXCEPT ![r] = "over"]
  /\ inbox' = Forwarded(r, "release")
  /\ BrewEnds(r, NoRun)
  /\ UNCHANGED <<sip, rtp, talker, target, peer, invite, control, answer, leg, upsets>>

(* The router's limit ends it in its owner's name, so all but the owner    *)
(* hear of it: the owner of a call from a radio is the radio.              *)
RouterLimit(r) ==
  /\ r \in brew /\ At(r, "done") /\ FreeHand
  /\ radio' = [radio EXCEPT ![r] = IF target[Of(r)] = "out" THEN "untold" ELSE "over"]
  /\ inbox' = inbox
  /\ BrewEnds(r, NoRun)
  /\ UNCHANGED <<sip, rtp, talker, target, peer, invite, control, answer, leg, upsets>>

(* A radio with a higher priority takes the group, or keys up in a free    *)
(* one; its call ends.                                                     *)
Preempt(r) ==
  /\ floor = r /\ r \in brew /\ ~talker
  /\ talker' = TRUE /\ radio' = [radio EXCEPT ![r] = "over"]
  /\ BrewEnds(r, Other)
  /\ UNCHANGED <<sip, rtp, target, peer, invite, control, inbox, answer, leg, upsets>>

TalkerEnds ==
  /\ talker /\ talker' = FALSE
  /\ floor' = IF floor = Other THEN NoRun ELSE floor
  /\ UNCHANGED <<sip, rtp, client, brew, parties, tasks, leg, upsets>>

(* spawn_private_call_control: the radio's acceptance is confirmed and the *)
(* caller answered; its release before that is a 486 and the end.          *)
Confirm(r) ==
  /\ control[r] = "waits" /\ inbox[r] # <<>> /\ Head(inbox[r]) = "connect"
  /\ control' = [control EXCEPT ![r] = "ended"]
  /\ inbox' = [inbox EXCEPT ![r] = <<>>]
  /\ radio' = [radio EXCEPT ![r] = IF @ = "answering" THEN "talking" ELSE @]
  /\ peer' = Accepted(Of(r)) /\ call' = Answered(Of(r))
  /\ UNCHANGED <<trunk, rtp, core, target, invite, answer, ending, leg, upsets>>

Busy(r) ==
  /\ control[r] = "waits" /\ inbox[r] # <<>> /\ Head(inbox[r]) = "release"
  /\ control' = [control EXCEPT ![r] = "ended"]
  /\ inbox' = [inbox EXCEPT ![r] = <<>>]
  /\ peer' = [peer EXCEPT ![Of(r)] = IF @ \in {"calling", "proceeding"} THEN "gone" ELSE @]
  /\ Begins("control", Of(r), "leg")
  /\ UNCHANGED <<sip, rtp, core, target, radio, invite, answer, leg, upsets>>

(* The transcoder, and with it the channel, is gone.                       *)
ControlCloses(r) ==
  /\ control[r] = "waits" /\ inbox[r] = <<>> /\ r \notin coding
  /\ control' = [control EXCEPT ![r] = "ended"]
  /\ UNCHANGED <<sip, rtp, core, parties, invite, inbox, answer, ending, leg, upsets>>
-----------------------------------------------------------------------------
(* The ways a call ends: handle_bye and handle_cancel ("peer", "far"),     *)
(* the sweep, the Brew core ("brew"), the control task, an error response  *)
(* ("answer") and a refused INVITE.  Each takes the steps it needs of one  *)
(* order: relay, BYE, leg, Brew core, SipState.                            *)

Step(e, f) == ending' = (ending \ {e}) \union {f}

AbortRelay(e) ==
  /\ e \in ending /\ e.pc = "relay"
  /\ relaying' = relaying \ {relay[e.call]}
  /\ relay' = [relay EXCEPT ![e.call] = NoRun]
  /\ Step(e, [e EXCEPT !.pc = "call"])
  /\ UNCHANGED <<sip, coding, core, parties, invite, control, inbox, answer, leg, upsets>>

(* send_bye, for the leg there is now.  A party that was invited and has   *)
(* not answered makes nothing of a BYE.                                    *)
ToldBye(c) ==
  IF leg[c].run # NoRun /\ ~(target[c] = "out" /\ peer[c] = "calling")
    THEN [peer EXCEPT ![c] = "gone"] ELSE peer

(* teardown_by_brew_call: the leg of that Brew call, if it is in yet.      *)
FindLeg(e) ==
  /\ e \in ending /\ e.pc = "find"
  /\ IF leg[e.call].run = e.run
       THEN /\ Step(e, [e EXCEPT !.pc = "leg", !.run = NoRun])
            /\ peer' = ToldBye(e.call)
       ELSE ending' = ending \ {e} /\ UNCHANGED peer
  /\ UNCHANGED <<sip, rtp, core, target, radio, invite, control, inbox, answer, leg, upsets>>

(* BrewBridge::force_end.                                                  *)
ForceEnd(e) ==
  /\ e \in ending /\ e.pc = "bye"
  /\ Step(e, [e EXCEPT !.pc = "leg"])
  /\ peer' = ToldBye(e.call)
  /\ UNCHANGED <<sip, rtp, core, target, radio, invite, control, inbox, answer, leg, upsets>>

(* BrewBridge::teardown: the leg leaves, its transcoder is aborted, and    *)
(* what that has passed on is still in the control task's channel.         *)
RemoveLeg(e) ==
  LET r == leg[e.call].run IN
  /\ e \in ending /\ e.pc = "leg"
  /\ leg' = [leg EXCEPT ![e.call] = NoLeg]
  /\ coding' = coding \ {r}
  /\ IF r = NoRun
       THEN Step(e, [e EXCEPT !.pc = "call"]) /\ UNCHANGED inbox
       ELSE /\ Step(e, [e EXCEPT !.pc = "core", !.run = r])
            /\ \E n \in 0..Len(inbox[r]) :
                 inbox' = [inbox EXCEPT ![r] = SubSeq(@, 1, n)]
  /\ UNCHANGED <<sip, relay, relaying, core, parties, invite, control, answer, upsets>>

(* The rest of it, under the Brew core's lock: the virtual client leaves,  *)
(* and if the call is still there its parties are told.                    *)
TakesAnyFloor(r) == NoRun

FloorWithout(r) == IF floor = r THEN NoRun ELSE floor

KeepsClient(r) == IF target[Of(r)] = "group" THEN client ELSE client \ {r}

ClientsWithout(r) == client \ {r}

CallsWithout(r) == brew \ {r}

SaysNothing(r) == radio

ToldOfTheEnd(r) == IF r \in brew THEN [radio EXCEPT ![r] = "over"] ELSE radio

CleanUp(e) ==
  /\ e \in ending /\ e.pc = "core"
  /\ client' = ClientsWithout(e.run) /\ brew' = CallsWithout(e.run)
  /\ floor' = IF target[e.call] = "group" THEN FloorWithout(e.run) ELSE floor
  /\ radio' = ToldOfTheEnd(e.run)
  /\ Step(e, [e EXCEPT !.pc = "call"])
  /\ UNCHANGED <<sip, rtp, talker, target, peer, invite, control, inbox, answer, leg, upsets>>

(* SipState::end_call, and the 200 to a BYE or CANCEL.                     *)
CountsEveryEnd(c) == IF c \in OnTrunk THEN 1 ELSE 0

CountedOut(c) == IF c \in OnTrunk /\ call[c] # "none" THEN 1 ELSE 0

EndCall(e) ==
  LET c == e.call IN
  /\ e \in ending /\ e.pc = "call"
  /\ call' = [call EXCEPT ![c] = "none"]
  /\ trunk' = IF trunk > CountedOut(c) THEN trunk - CountedOut(c) ELSE 0
  /\ peer' = IF e.by = "peer" /\ peer[c] = "leaving" THEN [peer EXCEPT ![c] = "gone"] ELSE peer
  /\ ending' = ending \ {e}
  /\ UNCHANGED <<rtp, core, target, radio, invite, control, inbox, answer, leg, upsets>>

(* call_duration_sweep_loop, one task: a call that is too long or without  *)
(* RTP.  Its list is old when it comes to a call: so may this be when it   *)
(* goes on.  No limit falls within an INVITE's handling.                   *)
EndsTheLeg(c) == "bye"

EndsWhatItHas(c) == IF target[c] = "relay" THEN "relay" ELSE "bye"

Sweep(c) ==
  /\ call[c] # "none" /\ \A r \in RunsOf(c) : At(r, "done")
  /\ \A e \in ending : e.by # "sweep"
  /\ FreeHand
  /\ Begins("sweep", c, EndsWhatItHas(c))
  /\ UNCHANGED <<sip, rtp, core, parties, invite, control, inbox, answer, leg, upsets>>
-----------------------------------------------------------------------------
Handlers ==
  \/ \E r \in Run :
       \/ Track(r) \/ Refuse(r) \/ Bridge(r) \/ Enter(r)
       \/ AddLeg(r) \/ Answer(r) \/ NotPlaced(r) \/ PlaceOutbound(r)
       \/ Confirm(r) \/ Busy(r) \/ ControlCloses(r)
  \/ \E a \in answer : ReadLeg(a) \/ ActOn(a) \/ StartMedia(a)
  \/ \E e \in ending :
       \/ AbortRelay(e) \/ FindLeg(e) \/ ForceEnd(e) \/ RemoveLeg(e) \/ CleanUp(e) \/ EndCall(e)

Parties ==
  \/ \E c \in Call :
       Invite(c) \/ HangUp(c) \/ SetUp(c) \/ FarEndHangsUp(c) \/ \E ok \in BOOLEAN : Respond(c, ok)
  \/ \E r \in Run : RadioAccepts(r) \/ RadioReleases(r) \/ Preempt(r)
  \/ TalkerEnds

Limits ==
  \/ \E c \in Call : Sweep(c)
  \/ \E r \in Run : RouterLimit(r)

SipNext == Handlers \/ Parties \/ Limits

(* Every task goes on and both limits are set (they are by default); one   *)
(* who has got a 200 to an INVITE it gave up hangs up, nobody else has to. *)
SipFairness ==
  /\ WF_sipVars(Handlers)
  /\ WF_sipVars(Limits)
  /\ WF_sipVars(\E c \in Call : peer[c] = "unwanted" /\ HangUp(c))

SipSpec == SipInit /\ [][SipNext]_sipVars /\ SipFairness
-----------------------------------------------------------------------------
(* Its INVITE was handled more than once.                                  *)
Repeated(c) == Cardinality(RunsOf(c)) > 1

(* What a call has in the Brew core belongs to a leg, to an INVITE on its  *)
(* way, or to a handler that is about to remove it, and what a leg names   *)
(* is there: nothing is left behind but what a repeated INVITE pushes      *)
(* aside (bridge.rs: teardown, legs; transport.rs: relay_tasks).           *)
NothingIsLeftBehind ==
  /\ \A r \in client : \/ leg[Of(r)].run = r \/ At(r, "entered") \/ Repeated(Of(r))
                       \/ \E e \in ending : e.pc = "core" /\ e.run = r
  /\ \A r \in coding \union relaying : r \in {leg[Of(r)].run, relay[Of(r)]} \/ Repeated(Of(r))
  /\ \A c \in Call : leg[c].run = NoRun \/ leg[c].run \in client

(* However a call ends, and however many handlers end it at once, a trunk  *)
(* counts the calls that are on it; an INVITE that comes again is counted  *)
(* twice (state.rs: start_call, end_call).                                 *)
TrunkCountIsExact ==
  LET running == Cardinality({c \in OnTrunk : call[c] # "none"}) IN
  /\ trunk >= running
  /\ (\A c \in OnTrunk : ~Repeated(c)) => trunk = running

(* A radio that believes it is in a call is in one that exists, except one *)
(* the code leaves untold (bridge.rs: teardown, on_sip_response).          *)
RadioIsInARealCall ==
  \A r \in Run :
    radio[r] \in {"called", "answering", "talking", "listening", "dialling"} =>
      r \in brew \/ (radio[r] = "dialling" /\ ~At(r, "done"))

(* The floor is given up only by the end of the call that holds it, and    *)
(* never taken from another (bridge.rs: teardown and its check of          *)
(* group_floor).                                                           *)
FloorIsLeftToItsHolder ==
  [][floor # NoRun /\ floor' = NoRun =>
       IF floor = Other THEN ~talker' ELSE floor \notin brew']_sipVars

(* What is left of a call that the SIP side had cancelled and the Brew     *)
(* side had ended before its leg was entered.                              *)
Orphaned(c) ==
  leg[c].run # NoRun /\ leg[c].run \notin brew /\ call[c] = "none"

Clean(c) ==
  /\ call[c] = "none" /\ leg[c] = NoLeg
  /\ \A r \in RunsOf(c) : r \notin client \union relaying \union coding

(* Every call comes to an end that leaves nothing on either side, unless   *)
(* its INVITE came twice or both sides ended it too early for the other to *)
(* see (transport.rs: call_duration_sweep_loop, handle_cancel; router.rs:  *)
(* run_call_duration_sweep).                                               *)
CallsComeToAnEnd == \A c \in Call : <>[](Clean(c) \/ Repeated(c) \/ Orphaned(c))
=============================================================================
