----------------------------- MODULE HaElection -----------------------------
(***************************************************************************)
(* The election of the active/standby pair (src/src/ha.rs, `Election`): a  *)
(* pure state machine.  The code passes the time in as `now_ms` and keeps  *)
(* absolute deadlines; here every deadline is the time LEFT until it, so   *)
(* that "now >= until" is "left = 0" and the state is finite.  Durations   *)
(* are counted in heartbeat intervals.                                     *)
(*                                                                         *)
(* An election record is what one process remembers of itself; a view is   *)
(* the last valid heartbeat of the peer with its age, i.e. `last_peer`     *)
(* seen through `alive_peer`.                                              *)
(***************************************************************************)
EXTENDS Naturals

CONSTANTS
  Node,              \* the two nodes
  Weight,            \* [ha] weight of each node
  NameOrd,           \* position of each node's name in the order of names
  DeadAfter,         \* dead_after_ms: the peer is dead at this age
  HandoverTimeout    \* HANDOVER_TIMEOUT_MS

(***************************************************************************)
(* The runtime ignores a peer that uses our own name, and the config is    *)
(* refused unless dead_after_ms is at least three heartbeat intervals.     *)
(***************************************************************************)
ASSUME HaAssumption ==
  /\ \E a, b \in Node : a # b /\ Node = {a, b}
  /\ Weight \in [Node -> Nat]
  /\ NameOrd \in [Node -> Nat]
  /\ \A a, b \in Node : a # b => NameOrd[a] # NameOrd[b]
  /\ DeadAfter \in Nat /\ DeadAfter >= 3
  /\ HandoverTimeout \in Nat \ {0}

Peer(n) == CHOOSE m \in Node : m # n

Role == {"Init", "Standby", "Active", "Fault"}

(* Whether a handover to the peer is under way, and of which kind. *)
Handing == {"no", "auto", "manual"}

Election ==
  [role : Role, hold : BOOLEAN, persist : BOOLEAN,
   handing : Handing, handingLeft : 0..HandoverTimeout,
   takeoverLeft : 0..HandoverTimeout, listenLeft : 0..DeadAfter]

(* What the election reads of a heartbeat; the weight and the name of the  *)
(* peer are constants of the pair.                                         *)
Heartbeat ==
  [role : Role, persist : BOOLEAN, hold : BOOLEAN, handing : Handing,
   takeover : BOOLEAN, synced : BOOLEAN]

View == [hb : Heartbeat, age : 0..DeadAfter]

NoHeartbeat == [role |-> "Init", persist |-> FALSE, hold |-> FALSE,
                handing |-> "no", takeover |-> FALSE, synced |-> FALSE]

NoPeer == [hb |-> NoHeartbeat, age |-> DeadAfter]

Alive(v) == v.age < DeadAfter

NewElection(persist) ==
  [role |-> "Init", hold |-> FALSE, persist |-> persist,
   handing |-> "no", handingLeft |-> 0, takeoverLeft |-> 0,
   listenLeft |-> DeadAfter]

-----------------------------------------------------------------------------
(* Preference and split-brain ranking: tuples compared lexicographically.  *)

Preferred(a, b) ==
  \/ Weight[a] > Weight[b]
  \/ Weight[a] = Weight[b] /\ NameOrd[a] > NameOrd[b]

(* `entA` and `entB`: the node may stay Active (persist or manual hold).   *)
Outranks(entA, a, entB, b) ==
  \/ entA /\ ~entB
  \/ entA = entB /\ Preferred(a, b)

-----------------------------------------------------------------------------
SetRole(e, r) ==
  [e EXCEPT !.role = r,
            !.hold = @ /\ r = "Active",
            !.takeoverLeft = IF r = "Standby" THEN @ ELSE 0]

DropHandover(e) == [e EXCEPT !.handing = "no", !.handingLeft = 0]

StartHandover(e, kind) ==
  SetRole([e EXCEPT !.handing = kind, !.handingLeft = HandoverTimeout],
          "Standby")

(* Dashboard "Make Standby" and "Apply": allowed on the Active node while  *)
(* the peer is a healthy Standby.                                          *)
CanHandOver(e, v) ==
  e.role = "Active" /\ Alive(v) /\ v.hb.role \in {"Standby", "Init"}

(* Dashboard "Make Active": allowed on a Standby that hears its peer.      *)
CanRequestActive(e, v) == e.role = "Standby" /\ Alive(v)

RequestActive(e) == [e EXCEPT !.takeoverLeft = HandoverTimeout]

-----------------------------------------------------------------------------
(* `tick`, one operator per group of rules, in the order of the code.      *)

(* Faulty variants of a rule (named No..., Keeps...) are what the checks    *)
(* are tried against: no definition uses them.                             *)
NoPreference(n, e, p) ==
  IF p.role = "Active"
    THEN IF Outranks(p.persist \/ p.hold, Peer(n), e.persist \/ e.hold, n)
           THEN SetRole(e, "Standby") ELSE e
  ELSE IF p.takeover THEN StartHandover(e, "manual")
  ELSE IF ~e.persist /\ ~e.hold /\ p.synced THEN StartHandover(e, "auto")
  ELSE e

NoPreemption(n, e, p) ==
  IF p.role = "Active"
    THEN IF Outranks(p.persist \/ p.hold, Peer(n), e.persist \/ e.hold, n)
           THEN SetRole(e, "Standby") ELSE e
  ELSE IF p.takeover THEN StartHandover(e, "manual") ELSE e

TickActive(n, e, p) ==
  IF p.role = "Active"
    THEN IF Outranks(p.persist \/ p.hold, Peer(n), e.persist \/ e.hold, n)
           THEN SetRole(e, "Standby") ELSE e
  ELSE IF p.takeover THEN StartHandover(e, "manual")
  ELSE IF ~e.persist /\ ~e.hold /\ p.synced /\ Preferred(Peer(n), n)
    THEN StartHandover(e, "auto")
  ELSE e

NoRegardForPeer(n, e, p) ==
  IF e.takeoverLeft > 0 \/ Preferred(n, Peer(n))
    THEN [SetRole(e, "Active") EXCEPT !.hold = e.takeoverLeft > 0]
    ELSE SetRole(e, "Standby")

TickStandby(n, e, p) ==
  IF p.role # "Active" /\ (e.takeoverLeft > 0 \/ Preferred(n, Peer(n)))
    THEN [SetRole(e, "Active") EXCEPT !.hold = e.takeoverLeft > 0]
    ELSE SetRole(e, "Standby")

TickDecide(n, e, p) ==
  IF p.handing # "no"
    THEN [SetRole(e, "Active") EXCEPT !.hold = (p.handing = "manual")]
  ELSE IF p.role = "Fault" THEN SetRole(e, "Active")
  ELSE IF e.role = "Active" THEN TickActive(n, e, p)
  ELSE TickStandby(n, e, p)

TickHealthy(n, e, v) ==
  IF ~Alive(v)
    THEN IF e.role = "Init" /\ e.listenLeft > 0
           THEN e ELSE SetRole(DropHandover(e), "Active")
  ELSE IF e.handing # "no" /\ v.hb.role # "Active" /\ e.handingLeft > 0
    THEN SetRole(e, "Standby")
  ELSE TickDecide(n, DropHandover(e), v.hb)

(* Gateway back: start over as if freshly booted, without the delay.       *)
LeaveFault(e) ==
  IF e.role = "Fault" THEN [SetRole(e, "Init") EXCEPT !.listenLeft = 0] ELSE e

Tick(n, e, v, gatewayOk) ==
  IF gatewayOk THEN TickHealthy(n, LeaveFault(e), v)
               ELSE SetRole(DropHandover(e), "Fault")

=============================================================================
