------------------------------- MODULE HaPair -------------------------------
(***************************************************************************)
(* The two nodes of an active/standby pair (src/src/ha.rs, `run`): each    *)
(* runs the loop "wait for the ticker, a heartbeat or a dashboard command; *)
(* tick the election; move the VIP; send a heartbeat; maybe restart".      *)
(*                                                                         *)
(* One iteration of the loop is one action, except that adding the VIP     *)
(* awaits `arping` before the heartbeat is sent: the address is in the     *)
(* kernel from the first half on, the peer hears of it after the second.   *)
(*                                                                         *)
(* Time advances one heartbeat interval at a time, only when every ticker  *)
(* of the interval has fired and every heartbeat that can be received has  *)
(* been: the LAN delivers within an interval or not at all.  Faults of the *)
(* environment are actions with a budget, so that they end.                *)
(***************************************************************************)
EXTENDS HaElection, Sequences

CONSTANTS
  ConfigPersist,   \* [ha] persist of each node
  ArpTime,         \* whole intervals that `arping -c 3` takes
  BootTime,        \* whole intervals that the gateway pings at startup take
  Disturbances,    \* the commands and the faults that may happen, by kind
  MaxDisturbed,    \* bound: how many of them happen in a behaviour
  FlakyGateway     \* nodes whose gateway check may change

ASSUME HaPairAssumption ==
  /\ ConfigPersist \in [Node -> BOOLEAN]
  /\ ArpTime \in Nat
  /\ BootTime \in Nat
  /\ MaxDisturbed \in Nat
  /\ FlakyGateway \subseteq Node

VARIABLES
  proc,       \* the state of each node's process
  vip,        \* whether the VIP is on each node's interface
  gateway,    \* the outcome of each node's gateway check
  net,        \* heartbeats in flight TO each node, oldest first
  cut,        \* the link between the nodes is down
  disturbed   \* commands issued and faults injected so far

vars == <<proc, vip, gateway, net, cut, disturbed>>

(***************************************************************************)
(* The locals of `run`.  pc says where the process is: at `select!`, in    *)
(* the startup code before it, inside vip.up ("arp"), or not running.      *)
(***************************************************************************)
Process ==
  [pc : {"loop", "boot", "arp", "down"},
   el : Election,                      \* election
   view : View,                        \* last_peer
   held : BOOLEAN,                     \* vip_held
   wasActive : BOOLEAN,                \* was_active: the services started
   apply : BOOLEAN,                    \* apply_pending
   vipFault : 0..HandoverTimeout,      \* time left until vip_fault_until_ms
   awaiting : 0..(ArpTime + BootTime), \* time left until that code returns
   ticked : BOOLEAN,                   \* the ticker fired in this interval
   synced : BOOLEAN]                   \* ha_repl: holds a current replica

(* A process that does not run; of its state only the persist override     *)
(* survives (ha-state.json).                                               *)
Stopped(persist) ==
  [pc |-> "down", el |-> NewElection(persist), view |-> NoPeer,
   held |-> FALSE, wasActive |-> FALSE, apply |-> FALSE,
   vipFault |-> 0, awaiting |-> 0, ticked |-> FALSE, synced |-> FALSE]

HaPairTypeOK ==
  /\ proc \in [Node -> Process]
  /\ vip \in [Node -> BOOLEAN]
  /\ gateway \in [Node -> BOOLEAN]
  /\ net \in [Node -> Seq(Heartbeat)]
  /\ cut \in BOOLEAN
  /\ disturbed \in 0..MaxDisturbed

Init ==
  /\ proc = [n \in Node |-> Stopped(ConfigPersist[n])]
  /\ vip = [n \in Node |-> FALSE]
  /\ gateway = [n \in Node |-> TRUE]
  /\ net = [n \in Node |-> <<>>]
  /\ cut = FALSE
  /\ disturbed = 0

(* A command of the operator or a fault of the environment happens.        *)
May(kind, spent) == kind \in Disturbances /\ spent < MaxDisturbed

Disturb(kind) == May(kind, disturbed) /\ disturbed' = disturbed + 1

-----------------------------------------------------------------------------
(* The end of an iteration.                                                *)

Beat(p) ==
  [role |-> p.el.role, persist |-> p.el.persist, hold |-> p.el.hold,
   handing |-> p.el.handing, takeover |-> p.el.takeoverLeft > 0,
   synced |-> p.synced]

(* Faulty variants (named No..., Keeps...) are what the checks are tried    *)
(* against: no definition uses them.                                       *)
NoRestart(p) == p.el.handing = "no" /\ p.apply

(* The services run once the node has been Active; a node that left Active *)
(* and hands over to nobody restarts, and so does one with an apply        *)
(* pending once its handover has ended.                                    *)
MustRestart(p) ==
  /\ p.el.handing = "no"
  /\ p.apply \/ (p.wasActive /\ p.el.role # "Active")

(* Where node n's process and its inbox are after the iteration in which   *)
(* it reached state p; `sends`: whether this iteration sends a heartbeat.  *)
Settle(n, p, sends, inbox) ==
  LET m == Peer(n)
      gone == MustRestart(p)
  IN /\ proc' = [proc EXCEPT ![n] = IF gone THEN Stopped(p.el.persist) ELSE p]
     /\ net' = [k \in Node |->
                  IF k = n THEN IF gone THEN <<>> ELSE inbox
                  ELSE IF sends /\ ~cut /\ proc[m].pc # "down"
                    THEN Append(net[m], Beat(p)) ELSE net[m]]

KeepsVipWhileHandingOver(n, p, sends, inbox, released) ==
  LET q == [p EXCEPT !.pc = "loop",
                     !.wasActive = @ \/ (p.el.role = "Active" /\ p.held)]
      drops == p.held /\ MustRestart(q)
  IN /\ Settle(n, q, sends, inbox)
     /\ vip' = [vip EXCEPT ![n] = @ /\ ~drops]

(* p: after the tick and the move of the VIP; `released`: whether a VIP    *)
(* the process no longer wants, or leaves behind, is really removed.       *)
Announce(n, p, sends, inbox, released) ==
  LET q == [p EXCEPT !.pc = "loop",
                     !.held = @ /\ (p.el.role = "Active" \/ ~released),
                     !.wasActive = @ \/ (p.el.role = "Active" /\ p.held)]
      drops == p.held /\ released /\ (p.el.role # "Active" \/ MustRestart(q))
  IN /\ Settle(n, q, sends, inbox)
     /\ vip' = [vip EXCEPT ![n] = @ /\ ~drops]

(***************************************************************************)
(* What follows an event at `select!` that left the process in state p:    *)
(* the election ticks, the VIP moves, a heartbeat goes out (an iteration   *)
(* caused by a heartbeat is silent unless the role changed).  `spent`: the *)
(* disturbances so far, a command that caused the event included.          *)
(***************************************************************************)
Iterate(n, p, fromPeer, inbox, spent) ==
  LET e == Tick(n, p.el, p.view, gateway[n] /\ p.vipFault = 0)
      q == [p EXCEPT !.el = e]
      add == e.role = "Active" /\ ~p.held
      failed == [p EXCEPT !.el = Tick(n, e, p.view, FALSE),
                          !.vipFault = HandoverTimeout]
      Sends(r) == ~fromPeer \/ r.el.role # p.el.role
  IN \/ /\ add
        /\ proc' = [proc EXCEPT ![n] =
                      [q EXCEPT !.pc = "arp", !.awaiting = ArpTime]]
        /\ vip' = [vip EXCEPT ![n] = TRUE]
        /\ net' = [net EXCEPT ![n] = inbox]
        /\ disturbed' = spent
     \/ /\ add
        /\ May("vip_add", spent) /\ disturbed' = spent + 1
        /\ Announce(n, failed, Sends(failed), inbox, TRUE)
     \/ /\ ~add
        /\ Announce(n, q, Sends(q), inbox, TRUE)
        /\ disturbed' = spent
     \/ /\ ~add
        /\ p.held
        /\ May("vip_del", spent) /\ disturbed' = spent + 1
        /\ Announce(n, q, Sends(q), inbox, FALSE)

-----------------------------------------------------------------------------
(* The events of one process.                                              *)

TickerFires(n) ==
  /\ proc[n].pc = "loop"
  /\ ~proc[n].ticked
  /\ Iterate(n, [proc[n] EXCEPT !.ticked = TRUE], FALSE, net[n], disturbed)
  /\ UNCHANGED <<gateway, cut>>

ReceiveHeartbeat(n) ==
  /\ proc[n].pc = "loop"
  /\ net[n] # <<>>
  /\ Iterate(n, [proc[n] EXCEPT !.view = [hb |-> Head(net[n]), age |-> 0]],
             TRUE, Tail(net[n]), disturbed)
  /\ UNCHANGED <<gateway, cut>>

(* vip.up returned: the iteration that added the VIP goes on.              *)
VipIsUp(n) ==
  /\ proc[n].pc = "arp"
  /\ proc[n].awaiting = 0
  /\ Announce(n, [proc[n] EXCEPT !.held = TRUE], TRUE, net[n], TRUE)
  /\ UNCHANGED <<gateway, cut, disturbed>>

(* A dashboard command that leaves the process in state p.                 *)
Command(n, kind, p) ==
  /\ proc[n].pc = "loop"
  /\ May(kind, disturbed)
  /\ Iterate(n, p, FALSE, net[n], disturbed + 1)
  /\ UNCHANGED <<gateway, cut>>

MakeActive(n) ==
  LET p == proc[n]
  IN Command(n, "active",
             [p EXCEPT !.el = IF CanRequestActive(@, p.view)
                                THEN RequestActive(@) ELSE @])

MakeStandby(n) ==
  LET p == proc[n]
  IN Command(n, "standby",
             [p EXCEPT !.el = IF CanHandOver(@, p.view)
                                THEN StartHandover(@, "manual") ELSE @])

SetPersist(n, b) ==
  Command(n, "persist",
          [proc[n] EXCEPT !.el.persist = b, !.el.hold = FALSE])

(* restart_now: the process re-executes itself, releasing a VIP it holds.  *)
RestartNow(n) ==
  /\ proc' = [proc EXCEPT ![n] = Stopped(@.el.persist)]
  /\ net' = [net EXCEPT ![n] = <<>>]
  /\ vip' = [vip EXCEPT ![n] = @ /\ ~proc[n].held]

(* Apply on the Active node hands over first; on any other node, or forced *)
(* without a peer that could take over, it restarts at once.               *)
ApplyConfig(n, force) ==
  LET p == proc[n]
      can == CanHandOver(p.el, p.view)
  IN \/ /\ can
        /\ Command(n, "apply", [p EXCEPT !.el = StartHandover(@, "auto"),
                                         !.apply = TRUE])
     \/ /\ p.el.role = "Active" /\ ~can /\ ~force
        /\ Command(n, "apply", p)
     \/ /\ p.pc = "loop"
        /\ Disturb(IF force THEN "force" ELSE "apply")
        /\ p.el.role # "Active" \/ (~can /\ force)
        /\ RestartNow(n)
        /\ UNCHANGED <<gateway, cut>>

KeepsOldVip(n) ==
  /\ proc[n].pc = "down"
  /\ proc[Peer(n)].awaiting = 0 => net[Peer(n)] = <<>>
  /\ proc' = [proc EXCEPT ![n].pc = "boot", ![n].awaiting = BootTime]
  /\ UNCHANGED <<vip, gateway, net, cut, disturbed>>

(* A new process: clears a VIP left behind, binds its socket and starts    *)
(* the listen delay, then waits for the gateway pings before it reads a    *)
(* heartbeat.  Coming here takes longer than a heartbeat does on the LAN   *)
(* (restart_process alone sleeps 100 ms).                                  *)
Start(n) ==
  /\ proc[n].pc = "down"
  /\ proc[Peer(n)].awaiting = 0 => net[Peer(n)] = <<>>
  /\ proc' = [proc EXCEPT ![n].pc = "boot", ![n].awaiting = BootTime]
  /\ vip' = [vip EXCEPT ![n] = FALSE]
  /\ UNCHANGED <<gateway, net, cut, disturbed>>

Booted(n) ==
  /\ proc[n].pc = "boot"
  /\ proc[n].awaiting = 0
  /\ proc' = [proc EXCEPT ![n].pc = "loop"]
  /\ UNCHANGED <<vip, gateway, net, cut, disturbed>>

-----------------------------------------------------------------------------
(* Replication (src/src/ha_repl.rs, modelled here by its outcome): a       *)
(* Standby that hears an Active peer pulls from it until it has caught up; *)
(* the replica is no longer current once the stream ends.                  *)

Serves(n) == proc[n].pc # "down" /\ proc[n].el.role = "Active" /\ ~cut

CaughtUp(n) ==
  /\ proc[n].pc = "loop"
  /\ proc[n].el.role = "Standby"
  /\ Alive(proc[n].view) /\ proc[n].view.hb.role = "Active"
  /\ Serves(Peer(n))
  /\ ~proc[n].synced
  /\ proc' = [proc EXCEPT ![n].synced = TRUE]
  /\ UNCHANGED <<vip, gateway, net, cut, disturbed>>

StreamEnds(n) ==
  /\ proc[n].synced
  /\ \/ /\ ~Serves(Peer(n)) \/ proc[n].el.role # "Standby"
        /\ UNCHANGED disturbed
     \/ Disturb("replica")
  /\ proc' = [proc EXCEPT ![n].synced = FALSE]
  /\ UNCHANGED <<vip, gateway, net, cut>>

-----------------------------------------------------------------------------
(* The environment.                                                        *)

(* kill -9 or a power cut: the address may stay on the interface.          *)
Crash(n) ==
  /\ proc[n].pc # "down"
  /\ Disturb("crash")
  /\ proc' = [proc EXCEPT ![n] = Stopped(@.el.persist)]
  /\ net' = [net EXCEPT ![n] = <<>>]
  /\ \E stays \in BOOLEAN : vip' = [vip EXCEPT ![n] = @ /\ stays]
  /\ UNCHANGED <<gateway, cut>>

(* SIGTERM is handled at `select!`.                                        *)
Terminate(n) ==
  /\ proc[n].pc = "loop"
  /\ Disturb("stop")
  /\ RestartNow(n)
  /\ UNCHANGED <<gateway, cut>>

(* A cut may be as short as one heartbeat lost.                            *)
CutLink ==
  /\ ~cut
  /\ Disturb("cut")
  /\ cut' = TRUE
  /\ UNCHANGED <<proc, vip, gateway, net>>

HealLink ==
  /\ cut
  /\ cut' = FALSE
  /\ UNCHANGED <<proc, vip, gateway, net, disturbed>>

NoFloor(t) == t - 1

Less(t) == IF t = 0 THEN 0 ELSE t - 1

Older(v) ==
  IF v.age + 1 < DeadAfter THEN [v EXCEPT !.age = @ + 1] ELSE NoPeer

Later(p) ==
  [p EXCEPT !.el.handingLeft = Less(@), !.el.takeoverLeft = Less(@),
            !.el.listenLeft = Less(@), !.view = Older(@),
            !.vipFault = Less(@), !.awaiting = Less(@), !.ticked = FALSE]

IntervalDone(n) ==
  CASE proc[n].pc = "loop" -> proc[n].ticked /\ net[n] = <<>>
    [] proc[n].pc \in {"boot", "arp"} -> proc[n].awaiting > 0
    [] proc[n].pc = "down" -> TRUE

(* The gateway check pings once a second and declares Fault after three    *)
(* misses: its outcome changes between intervals.                          *)
GatewayCheck ==
  \/ UNCHANGED <<gateway, disturbed>>
  \/ /\ Disturb("gateway")
     /\ \E n \in FlakyGateway : gateway' = [gateway EXCEPT ![n] = ~@]

Advance ==
  /\ \A n \in Node : IntervalDone(n)
  /\ GatewayCheck
  /\ proc' = [n \in Node |->
                IF proc[n].pc = "down" THEN proc[n] ELSE Later(proc[n])]
  /\ UNCHANGED <<vip, net, cut>>

-----------------------------------------------------------------------------
Next ==
  \/ \E n \in Node :
       \/ TickerFires(n) \/ ReceiveHeartbeat(n) \/ VipIsUp(n)
       \/ Start(n) \/ Booted(n)
       \/ MakeActive(n) \/ MakeStandby(n)
       \/ \E b \in BOOLEAN : SetPersist(n, b)
       \/ \E force \in BOOLEAN : ApplyConfig(n, force)
       \/ CaughtUp(n) \/ StreamEnds(n)
       \/ Crash(n) \/ Terminate(n)
  \/ CutLink \/ HealLink \/ Advance

(***************************************************************************)
(* Fairness: the process is driven by a timer and a socket it polls        *)
(* forever, and a supervisor starts a process that ended; time passes; a   *)
(* cut link is repaired; a Standby that hears an Active node catches up.   *)
(***************************************************************************)
Runs(n) ==
  \/ TickerFires(n) \/ ReceiveHeartbeat(n) \/ VipIsUp(n)
  \/ Start(n) \/ Booted(n)

Fairness ==
  /\ \A n \in Node : WF_vars(Runs(n)) /\ WF_vars(CaughtUp(n))
  /\ WF_vars(HealLink)
  /\ WF_vars(Advance)

Safety == Init /\ [][Next]_vars

Spec == Safety /\ Fairness

-----------------------------------------------------------------------------
(* Safety.                                                                 *)

Running(n) == proc[n].pc # "down"

(* In normal operation the two nodes never hold the VIP at the same time   *)
(* and it never passes from one to the other in one step: it is taken and  *)
(* released like a lock (ha.rs:11-14, steps down before handing over).     *)
Lock == INSTANCE VipLock WITH holders <- {n \in Node : vip[n]}

VipIsALock == Lock!Spec

(* The services and the VIP follow the role: a process at select! that is  *)
(* Active holds the VIP, one that is not has removed it unless removing it *)
(* failed, and one whose services started is Active or is handing over     *)
(* (anything else has restarted): run's MoveVip and restart rules hold     *)
(* together over commands, faults and failed `ip` commands.                *)
ServicesFollowRole ==
  \A n \in Node : proc[n].pc = "loop" =>
    /\ proc[n].el.role = "Active" => proc[n].held
    /\ proc[n].held /\ "vip_del" \notin Disturbances
         => proc[n].el.role = "Active"
    /\ proc[n].wasActive =>
         proc[n].el.role = "Active" \/ proc[n].el.handing # "no"

(* A VIP the process counts as its own is on its interface, and one on the *)
(* interface of a running process is its own: a crashed node's leftover is *)
(* cleared by the next start, and one that could not be removed is still   *)
(* counted as held, so that the next iteration tries again.                *)
VipIsAccountedFor ==
  \A n \in Node : Running(n) =>
    /\ proc[n].held => vip[n]
    /\ vip[n] => proc[n].held \/ proc[n].pc = "arp"

(* A process that has just started listens for its peer before it claims   *)
(* anything (ha.rs:44): it never claims the role its peer has.             *)
NewcomerListens ==
  [][\A n \in Node :
       proc[n].el.role = "Init" /\ proc'[n].el.role = "Active" =>
         proc[Peer(n)].el.role # "Active"]_vars

(* A node never takes the Active role while the last it heard of a live    *)
(* peer is that the peer is Active (Election::tick: every rule that claims *)
(* the role excludes it, whatever commands and handovers are pending).     *)
ClaimsOnlyWhenPeerIsNot ==
  [][\A n \in Node :
       proc[n].el.role # "Active" /\ proc'[n].el.role = "Active" =>
         ~(Alive(proc'[n].view) /\ proc'[n].view.hb.role = "Active")]_vars

-----------------------------------------------------------------------------
(* Liveness: once the faults and the commands have ended.                  *)

InCharge(n) ==
  /\ proc[n].pc = "loop" /\ proc[n].el.role = "Active" /\ vip[n]
  /\ \A m \in Node : m # n => proc[m].el.role # "Active" /\ ~vip[m]

(* With a working gateway somewhere, one node ends up Active with the VIP, *)
(* for good, and the other neither: split brains and pending handovers     *)
(* resolve, and roles stop changing (ha.rs:15-16).                         *)
Converges ==
  <>[]((\E n \in Node : gateway[n]) => \E n \in Node : InCharge(n))

(* The node with the higher weight ends up in charge when both are healthy *)
(* unless the other is entitled to stay by persist or a manual hold.       *)
PreferredReturns ==
  \A n \in Node :
    <>[](InCharge(n) /\ gateway[Peer(n)]
         => proc[n].el.persist \/ proc[n].el.hold \/ Preferred(n, Peer(n)))

=============================================================================
