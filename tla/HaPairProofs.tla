---------------------------- MODULE HaPairProofs ----------------------------
(***************************************************************************)
(* Safety of the active/standby pair, for every pair of weights, every     *)
(* timeout and every set of disturbances: HaPair's type invariant, that    *)
(* the VIP and the services follow the role, and that no node claims the   *)
(* role its live peer has.                                                 *)
(***************************************************************************)
EXTENDS HaPair, SequenceTheorems, TLAPS

-----------------------------------------------------------------------------
(* The inductive invariant.                                                *)

(* A node that hands over has already stepped down, so a heartbeat that    *)
(* names a successor never comes with the Active role.                     *)
SteppedDown(role, handing) == handing # "no" => role = "Standby"

HonestHeartbeat == {h \in Heartbeat : SteppedDown(h.role, h.handing)}

ElectionInv(e) == e \in Election /\ SteppedDown(e.role, e.handing)

ViewInv(v) == v \in View /\ v.hb \in HonestHeartbeat

(* One process: what it is between two steps, by where it is.              *)
ProcessInv(p) ==
  /\ p \in Process
  /\ ElectionInv(p.el)
  /\ ViewInv(p.view)
  /\ p.pc \in {"down", "boot"} => ~p.held /\ ~p.wasActive /\ p.el.role = "Init"
  /\ p.pc = "arp" => ~p.held /\ p.el.role = "Active"
  /\ p.pc = "loop" =>
       /\ p.el.role = "Active" => p.held
       /\ p.held /\ "vip_del" \notin Disturbances => p.el.role = "Active"
       /\ p.wasActive => p.el.role = "Active" \/ p.el.handing # "no"

VipInv(p, up) ==
  /\ p.pc # "down" /\ p.held => up
  /\ p.pc # "down" /\ up => p.held \/ p.pc = "arp"
  /\ p.pc = "arp" => up

IInv ==
  /\ HaPairTypeOK
  /\ \A n \in Node : ProcessInv(proc[n])
  /\ \A n \in Node : VipInv(proc[n], vip[n])
  /\ net \in [Node -> Seq(HonestHeartbeat)]

-----------------------------------------------------------------------------
(* The election.                                                           *)

(* A node's peer is the other one of the two.                              *)
LEMMA PeerIsTheOther ==
  ASSUME NEW n \in Node
  PROVE  Peer(n) \in Node /\ Peer(n) # n /\ Node = {n, Peer(n)}
BY HaAssumption DEF HaAssumption, Peer

(* The durations of the configuration are natural numbers.                 *)
LEMMA Constants ==
  /\ DeadAfter \in Nat /\ HandoverTimeout \in Nat /\ MaxDisturbed \in Nat
  /\ ArpTime \in Nat /\ BootTime \in Nat /\ DeadAfter > 0
BY HaAssumption, HaPairAssumption DEF HaAssumption, HaPairAssumption

(* The members of the types of the election that its rules assign.         *)
LEMMA Members ==
  /\ 0 \in 0..HandoverTimeout /\ HandoverTimeout \in 0..HandoverTimeout
  /\ 0 \in 0..DeadAfter /\ DeadAfter \in 0..DeadAfter
  /\ "no" \in Handing /\ "auto" \in Handing /\ "manual" \in Handing
  /\ "Init" \in Role /\ "Standby" \in Role /\ "Active" \in Role
  /\ "Fault" \in Role
BY Constants DEF Handing, Role

(* A process starts with a well-formed election, in Init.                  *)
LEMMA NewElectionInv ==
  ASSUME NEW b \in BOOLEAN
  PROVE  ElectionInv(NewElection(b)) /\ NewElection(b).role = "Init"
         /\ NewElection(b).handing = "no"
BY Members DEF NewElection, ElectionInv, Election, SteppedDown

(* Having heard nobody is a well-formed view.                              *)
LEMMA NoPeerInv == ViewInv(NoPeer)
BY Members
   DEF ViewInv, NoPeer, NoHeartbeat, View, HonestHeartbeat, Heartbeat,
       SteppedDown

(* set_role changes the role and keeps the handover.                       *)
LEMMA SetRoleInv ==
  ASSUME NEW e \in Election, NEW r \in Role
  PROVE  /\ SetRole(e, r) \in Election
         /\ SetRole(e, r).role = r
         /\ SetRole(e, r).handing = e.handing
BY Members DEF SetRole, Election

(* Dropping a handover keeps the role.                                     *)
LEMMA DropHandoverInv ==
  ASSUME NEW e \in Election
  PROVE  /\ DropHandover(e) \in Election
         /\ DropHandover(e).role = e.role
         /\ DropHandover(e).handing = "no"
BY Members DEF DropHandover, Election

(* start_handover steps down in the same step.                             *)
LEMMA StartHandoverInv ==
  ASSUME NEW e \in Election, NEW k \in {"auto", "manual"}
  PROVE  /\ ElectionInv(StartHandover(e, k))
         /\ StartHandover(e, k).role = "Standby"
         /\ StartHandover(e, k).handing # "no"
<1> DEFINE f == [e EXCEPT !.handing = k, !.handingLeft = HandoverTimeout]
<1>1. k \in Handing BY DEF Handing
<1>2. f \in Election /\ f.handing = k BY <1>1, Members DEF Election
<1>3. StartHandover(e, k) = SetRole(f, "Standby") BY DEF StartHandover
<1> HIDE DEF f
<1>4. SetRole(f, "Standby") \in Election
      /\ SetRole(f, "Standby").role = "Standby"
      /\ SetRole(f, "Standby").handing = k
  BY <1>2, Members, SetRoleInv
<1> QED BY <1>3, <1>4 DEF ElectionInv, SteppedDown

(* What a rule that ends in a plain change of role, with no handover under *)
(* way, gives.                                                             *)
LEMMA PlainRole ==
  ASSUME NEW e \in Election, e.handing = "no", NEW r \in Role
  PROVE  ElectionInv(SetRole(e, r)) /\ SetRole(e, r).role = r
BY SetRoleInv DEF ElectionInv, SteppedDown

(* Taking the role, with or without a hold.                                *)
LEMMA TakeRole ==
  ASSUME NEW e \in Election, e.handing = "no", NEW h \in BOOLEAN
  PROVE  /\ ElectionInv([SetRole(e, "Active") EXCEPT !.hold = h])
         /\ [SetRole(e, "Active") EXCEPT !.hold = h].role = "Active"
<1> DEFINE f == SetRole(e, "Active")
<1>1. f \in Election /\ f.role = "Active" /\ f.handing = "no"
  BY SetRoleInv, Members
<1> HIDE DEF f
<1>2. [f EXCEPT !.hold = h] \in Election
      /\ [f EXCEPT !.hold = h].role = "Active"
      /\ [f EXCEPT !.hold = h].handing = "no"
  BY <1>1 DEF Election
<1> QED BY <1>2 DEF ElectionInv, SteppedDown, f

(* The rules for a node that hears its peer, once no handover of its own   *)
(* is pending.                                                             *)
LEMMA TickActiveInv ==
  ASSUME NEW n \in Node, NEW e \in Election, e.handing = "no",
         NEW p \in HonestHeartbeat
  PROVE  ElectionInv(TickActive(n, e, p))
<1>1. ElectionInv(e) BY DEF ElectionInv, SteppedDown
<1>2. ElectionInv(SetRole(e, "Standby")) BY PlainRole, Members
<1>3. /\ ElectionInv(StartHandover(e, "manual"))
      /\ ElectionInv(StartHandover(e, "auto"))
  BY StartHandoverInv
<1> QED BY <1>1, <1>2, <1>3 DEF TickActive

(* A node that is not Active claims only what its peer does not have.      *)
LEMMA TickStandbyInv ==
  ASSUME NEW n \in Node, NEW e \in Election, e.handing = "no",
         NEW p \in HonestHeartbeat
  PROVE  /\ ElectionInv(TickStandby(n, e, p))
         /\ TickStandby(n, e, p).role = "Active" => p.role # "Active"
<1>1. /\ ElectionInv(SetRole(e, "Standby"))
      /\ SetRole(e, "Standby").role = "Standby"
  BY PlainRole, Members
<1>2. (e.takeoverLeft > 0) \in BOOLEAN BY DEF Election
<1>3. ElectionInv([SetRole(e, "Active") EXCEPT !.hold = e.takeoverLeft > 0])
  BY <1>2, TakeRole
<1> QED BY <1>1, <1>3 DEF TickStandby

(* The rules for a live peer together: a handover to this node, a peer in  *)
(* Fault, and the rules by role.                                           *)
LEMMA TickDecideInv ==
  ASSUME NEW n \in Node, NEW e \in Election, e.handing = "no",
         NEW p \in HonestHeartbeat
  PROVE  /\ ElectionInv(TickDecide(n, e, p))
         /\ e.role # "Active" /\ TickDecide(n, e, p).role = "Active"
              => p.role # "Active"
<1>1. CASE p.handing # "no"
  <2>1. (p.handing = "manual") \in BOOLEAN OBVIOUS
  <2>2. ElectionInv([SetRole(e, "Active") EXCEPT !.hold = (p.handing = "manual")])
    BY <2>1, TakeRole
  <2>3. p.role = "Standby" BY <1>1 DEF HonestHeartbeat, SteppedDown
  <2> QED BY <1>1, <2>2, <2>3 DEF TickDecide
<1>2. CASE p.handing = "no" /\ p.role = "Fault"
  BY <1>2, PlainRole, Members DEF TickDecide
<1>3. CASE p.handing = "no" /\ p.role # "Fault" /\ e.role = "Active"
  BY <1>3, TickActiveInv DEF TickDecide
<1>4. CASE p.handing = "no" /\ p.role # "Fault" /\ e.role # "Active"
  BY <1>4, TickStandbyInv DEF TickDecide
<1> QED BY <1>1, <1>2, <1>3, <1>4

(* A tick with a working gateway.                                          *)
LEMMA TickHealthyInv ==
  ASSUME NEW n \in Node, NEW e, ElectionInv(e), NEW v, ViewInv(v)
  PROVE  /\ ElectionInv(TickHealthy(n, e, v))
         /\ e.role # "Active" /\ TickHealthy(n, e, v).role = "Active"
              => ~(Alive(v) /\ v.hb.role = "Active")
<1>1. /\ e \in Election
      /\ DropHandover(e) \in Election /\ DropHandover(e).handing = "no"
      /\ DropHandover(e).role = e.role
  BY DropHandoverInv DEF ElectionInv
<1>2. CASE ~Alive(v)
  <2>1. ElectionInv(SetRole(DropHandover(e), "Active"))
    BY <1>1, PlainRole, Members
  <2> QED BY <1>2, <2>1 DEF TickHealthy
<1>3. CASE Alive(v) /\ e.handing # "no" /\ v.hb.role # "Active" /\ e.handingLeft > 0
  <2>1. /\ SetRole(e, "Standby") \in Election
        /\ SetRole(e, "Standby").role = "Standby"
    BY <1>1, SetRoleInv, Members
  <2> QED BY <1>3, <2>1 DEF TickHealthy, ElectionInv, SteppedDown
<1>4. CASE Alive(v) /\ ~(e.handing # "no" /\ v.hb.role # "Active" /\ e.handingLeft > 0)
  <2>1. v.hb \in HonestHeartbeat BY DEF ViewInv
  <2>2. TickHealthy(n, e, v) = TickDecide(n, DropHandover(e), v.hb)
    BY <1>4 DEF TickHealthy
  <2> QED BY <2>1, <2>2, <1>1, TickDecideInv
<1> QED BY <1>2, <1>3, <1>4

(* One tick: it keeps the election well formed, and claims the role only   *)
(* when no live peer is known to have it.                                  *)
LEMMA TickInv ==
  ASSUME NEW n \in Node, NEW e, ElectionInv(e), NEW v, ViewInv(v),
         NEW ok \in BOOLEAN
  PROVE  /\ ElectionInv(Tick(n, e, v, ok))
         /\ ~ok => Tick(n, e, v, ok).role = "Fault"
         /\ e.role # "Active" /\ Tick(n, e, v, ok).role = "Active"
              => ~(Alive(v) /\ v.hb.role = "Active")
<1>1. CASE ~ok
  <2>1. DropHandover(e) \in Election /\ DropHandover(e).handing = "no"
    BY DropHandoverInv DEF ElectionInv
  <2>2. /\ ElectionInv(SetRole(DropHandover(e), "Fault"))
        /\ SetRole(DropHandover(e), "Fault").role = "Fault"
    BY <2>1, PlainRole, Members
  <2> QED BY <1>1, <2>2 DEF Tick
<1>2. CASE ok
  <2>1. ElectionInv(LeaveFault(e)) /\ (e.role # "Active" => LeaveFault(e).role # "Active")
    <3>1. CASE e.role = "Fault"
      <4> DEFINE f == SetRole(e, "Init")
      <4>1. f \in Election /\ f.role = "Init" /\ f.handing = "no"
        BY <3>1, SetRoleInv, Members DEF ElectionInv, SteppedDown
      <4>2. LeaveFault(e) = [f EXCEPT !.listenLeft = 0]
        BY <3>1 DEF LeaveFault
      <4> HIDE DEF f
      <4>3. /\ [f EXCEPT !.listenLeft = 0] \in Election
            /\ [f EXCEPT !.listenLeft = 0].role = "Init"
            /\ [f EXCEPT !.listenLeft = 0].handing = "no"
        BY <4>1, Members DEF Election
      <4> QED BY <4>2, <4>3 DEF ElectionInv, SteppedDown
    <3>2. CASE e.role # "Fault"
      BY <3>2 DEF LeaveFault
    <3> QED BY <3>1, <3>2
  <2>2. Tick(n, e, v, ok) = TickHealthy(n, LeaveFault(e), v)
    BY <1>2 DEF Tick
  <2> QED BY <1>2, <2>1, <2>2, TickHealthyInv
<1> QED BY <1>1, <1>2

-----------------------------------------------------------------------------
(* One process takes a step.                                               *)

LEMMA HonestInboxes == Seq(HonestHeartbeat) \subseteq Seq(Heartbeat)
<1> SUFFICES ASSUME NEW s \in Seq(HonestHeartbeat) PROVE s \in Seq(Heartbeat)
  OBVIOUS
<1>1. HonestHeartbeat \subseteq Heartbeat BY DEF HonestHeartbeat
<1>2. Len(s) \in Nat /\ s \in [1..Len(s) -> HonestHeartbeat]
  BY ElementOfSeq, LenProperties
<1>3. s \in [1..Len(s) -> Heartbeat] BY <1>1, <1>2
<1> QED BY <1>2, <1>3, SeqDef

(* The invariant is kept by a step that changes one process, its VIP and   *)
(* the heartbeats in flight.                                               *)
LEMMA StepOfOne ==
  ASSUME IInv, NEW n \in Node, NEW r, ProcessInv(r),
         NEW up \in BOOLEAN, VipInv(r, up),
         proc' = [proc EXCEPT ![n] = r], vip' = [vip EXCEPT ![n] = up],
         net' \in [Node -> Seq(HonestHeartbeat)],
         gateway' = gateway, cut' \in BOOLEAN, disturbed' \in 0..MaxDisturbed
  PROVE  IInv'
<1>1. HaPairTypeOK BY DEF IInv
<1>2. r \in Process BY DEF ProcessInv
<1>3. proc' \in [Node -> Process] BY <1>1, <1>2 DEF HaPairTypeOK
<1>4. vip' \in [Node -> BOOLEAN] BY <1>1 DEF HaPairTypeOK
<1>5. net' \in [Node -> Seq(Heartbeat)] BY HonestInboxes
<1>6. HaPairTypeOK' BY <1>1, <1>3, <1>4, <1>5 DEF HaPairTypeOK
<1>7. ASSUME NEW k \in Node PROVE ProcessInv(proc'[k]) /\ VipInv(proc'[k], vip'[k])
  <2>1. CASE k = n BY <2>1, <1>1 DEF HaPairTypeOK
  <2>2. CASE k # n BY <2>2, <1>1 DEF HaPairTypeOK, IInv
  <2> QED BY <2>1, <2>2
<1> QED BY <1>6, <1>7 DEF IInv

(* A process that does not run satisfies the invariant.                    *)
LEMMA StoppedInv ==
  ASSUME NEW b \in BOOLEAN, NEW up
  PROVE  ProcessInv(Stopped(b)) /\ VipInv(Stopped(b), up)
<1>1. ElectionInv(NewElection(b)) /\ NewElection(b).role = "Init"
  BY NewElectionInv
<1>2. ViewInv(NoPeer) BY NoPeerInv
<1>3. NewElection(b) \in Election /\ NoPeer \in View
  BY <1>1, <1>2 DEF ElectionInv, ViewInv
<1>4. 0 \in 0..(ArpTime + BootTime) BY Constants
<1>5. Stopped(b) \in Process BY <1>3, <1>4, Members DEF Stopped, Process
<1> QED BY <1>1, <1>2, <1>5 DEF ProcessInv, VipInv, Stopped

(* What a well-formed process sends is an honest heartbeat.                *)
LEMMA BeatIsHonest ==
  ASSUME NEW p \in Process, ElectionInv(p.el)
  PROVE  Beat(p) \in HonestHeartbeat
<1>1. p.el \in Election BY DEF Process
<1>2. (p.el.takeoverLeft > 0) \in BOOLEAN OBVIOUS
<1>3. Beat(p) \in Heartbeat BY <1>1, <1>2 DEF Beat, Heartbeat, Election, Process
<1> QED BY <1>3 DEF Beat, HonestHeartbeat, ElectionInv, SteppedDown

(* The end of an iteration, from the state p reached by the tick and the   *)
(* move of the VIP.                                                        *)
LEMMA AnnounceStep ==
  ASSUME IInv, NEW n \in Node, NEW p \in Process,
         ElectionInv(p.el), ViewInv(p.view),
         p.el.role = "Active" => p.held,
         p.held <=> vip[n],
         NEW sends \in BOOLEAN, NEW inbox \in Seq(HonestHeartbeat),
         NEW released \in BOOLEAN, ~released => "vip_del" \in Disturbances,
         Announce(n, p, sends, inbox, released),
         gateway' = gateway, cut' \in BOOLEAN, disturbed' \in 0..MaxDisturbed
  PROVE  IInv'
<1> DEFINE q == [p EXCEPT !.pc = "loop",
                     !.held = @ /\ (p.el.role = "Active" \/ ~released),
                     !.wasActive = @ \/ (p.el.role = "Active" /\ p.held)]
           drops == p.held /\ released /\ (p.el.role # "Active" \/ MustRestart(q))
           gone == MustRestart(q)
           r == IF gone THEN Stopped(q.el.persist) ELSE q
<1>1. HaPairTypeOK BY DEF IInv
<1>2. /\ q \in Process
      /\ q.pc = "loop" /\ q.el = p.el /\ q.view = p.view /\ q.apply = p.apply
      /\ q.held = (p.held /\ (p.el.role = "Active" \/ ~released))
      /\ q.wasActive = (p.wasActive \/ (p.el.role = "Active" /\ p.held))
  BY DEF Process
<1>3. /\ Settle(n, q, sends, inbox)
      /\ vip' = [vip EXCEPT ![n] = @ /\ ~drops]
  BY DEF Announce
<1>4. proc' = [proc EXCEPT ![n] = r] BY <1>3 DEF Settle
<1>5. Beat(q) \in HonestHeartbeat BY <1>2, BeatIsHonest
<1>6. net' \in [Node -> Seq(HonestHeartbeat)]
  <2>1. Peer(n) \in Node BY PeerIsTheOther
  <2>2. net[Peer(n)] \in Seq(HonestHeartbeat) BY <2>1 DEF IInv
  <2>3. Append(net[Peer(n)], Beat(q)) \in Seq(HonestHeartbeat)
    BY <2>2, <1>5, AppendProperties
  <2>4. <<>> \in Seq(HonestHeartbeat) OBVIOUS
  <2> QED BY <1>3, <2>2, <2>3, <2>4 DEF Settle
<1>7. q.el.persist \in BOOLEAN BY <1>2 DEF Process, Election
<1>8. vip[n] \in BOOLEAN BY <1>1 DEF HaPairTypeOK
<1>9. vip' = [vip EXCEPT ![n] = vip[n] /\ ~drops] BY <1>1, <1>3 DEF HaPairTypeOK
<1>10. (vip[n] /\ ~drops) \in BOOLEAN BY <1>8
<1>11. CASE gone
  <2>1. ProcessInv(r) /\ VipInv(r, vip[n] /\ ~drops) BY <1>11, <1>7, StoppedInv
  <2> HIDE DEF r, drops
  <2> QED BY <2>1, <1>4, <1>6, <1>9, <1>10, StepOfOne
<1>12. CASE ~gone
  <2>1. r = q BY <1>12
  <2>2. q.wasActive => q.el.role = "Active" \/ q.el.handing # "no"
    BY <1>12 DEF MustRestart
  <2>3. ProcessInv(q) BY <1>2, <2>2 DEF ProcessInv
  <2>4. VipInv(q, vip[n] /\ ~drops) BY <1>12, <1>2 DEF VipInv
  <2> HIDE DEF r, drops, q
  <2> QED BY <2>1, <2>3, <2>4, <1>4, <1>6, <1>9, <1>10, StepOfOne
<1> QED BY <1>11, <1>12

(* One iteration, from the state p that the event left.                    *)
LEMMA IterateStep ==
  ASSUME IInv, NEW n \in Node, NEW p \in Process,
         ElectionInv(p.el), ViewInv(p.view),
         p.pc = "loop", p.held <=> vip[n],
         NEW fromPeer \in BOOLEAN, NEW inbox \in Seq(HonestHeartbeat),
         NEW spent \in 0..MaxDisturbed,
         Iterate(n, p, fromPeer, inbox, spent), gateway' = gateway, cut' = cut
  PROVE  IInv'
<1> DEFINE ok == gateway[n] /\ p.vipFault = 0
           e == Tick(n, p.el, p.view, ok)
           q == [p EXCEPT !.el = e]
           add == e.role = "Active" /\ ~p.held
           f == Tick(n, e, p.view, FALSE)
           failed == [p EXCEPT !.el = f, !.vipFault = HandoverTimeout]
           Sends(r) == ~fromPeer \/ r.el.role # p.el.role
<1>1. HaPairTypeOK BY DEF IInv
<1>2. ok \in BOOLEAN BY <1>1 DEF HaPairTypeOK
<1>3. ElectionInv(e) BY <1>2, TickInv
<1>4. ElectionInv(f) /\ f.role = "Fault" BY <1>3, TickInv
<1>5. /\ q \in Process /\ q.el = e /\ q.view = p.view
      /\ q.held = p.held /\ q.pc = "loop"
  BY <1>3 DEF Process, ElectionInv
<1>6. /\ failed \in Process /\ failed.el = f /\ failed.view = p.view
      /\ failed.held = p.held
  BY <1>4, Members DEF Process, ElectionInv
<1>7. cut' \in BOOLEAN BY <1>1 DEF HaPairTypeOK
<1>8. CASE /\ add
           /\ proc' = [proc EXCEPT ![n] =
                         [q EXCEPT !.pc = "arp", !.awaiting = ArpTime]]
           /\ vip' = [vip EXCEPT ![n] = TRUE]
           /\ net' = [net EXCEPT ![n] = inbox]
           /\ disturbed' = spent
  <2> DEFINE r == [q EXCEPT !.pc = "arp", !.awaiting = ArpTime]
  <2>1. ArpTime \in 0..(ArpTime + BootTime) BY Constants
  <2>2. /\ r \in Process /\ r.pc = "arp" /\ r.el = e /\ r.view = p.view
        /\ r.held = FALSE
    BY <2>1, <1>5, <1>8 DEF Process
  <2>3. ProcessInv(r) BY <2>2, <1>3, <1>8 DEF ProcessInv
  <2>4. VipInv(r, TRUE) BY <2>2 DEF VipInv
  <2>5. net' \in [Node -> Seq(HonestHeartbeat)] BY <1>8 DEF IInv
  <2>6. proc' = [proc EXCEPT ![n] = r] BY <1>8
  <2> HIDE DEF r
  <2> QED BY <2>3, <2>4, <2>5, <2>6, <1>7, <1>8, StepOfOne
<1>9. CASE /\ add
           /\ May("vip_add", spent) /\ disturbed' = spent + 1
           /\ Announce(n, failed, Sends(failed), inbox, TRUE)
  <2>1. disturbed' \in 0..MaxDisturbed BY <1>9, Constants DEF May
  <2>2. Sends(failed) \in BOOLEAN OBVIOUS
  <2>3. failed.el.role # "Active" BY <1>6, <1>4
  <2> HIDE DEF failed, Sends, f, e
  <2> QED BY <2>1, <2>2, <2>3, <1>4, <1>6, <1>7, <1>9, AnnounceStep
<1>10. ASSUME ~add, NEW released \in BOOLEAN,
              ~released => "vip_del" \in Disturbances,
              Announce(n, q, Sends(q), inbox, released),
              disturbed' \in 0..MaxDisturbed
       PROVE  IInv'
  <2>1. Sends(q) \in BOOLEAN OBVIOUS
  <2>2. q.el.role = "Active" => q.held BY <1>10, <1>5
  <2>3. ElectionInv(q.el) /\ ViewInv(q.view) /\ (q.held <=> vip[n])
    BY <1>3, <1>5
  <2> HIDE DEF q, Sends, e
  <2> QED BY <2>1, <2>2, <2>3, <1>5, <1>7, <1>10, AnnounceStep
<1>11. CASE ~add /\ Announce(n, q, Sends(q), inbox, TRUE) /\ disturbed' = spent
  <2> HIDE DEF q, Sends, add
  <2> QED BY <1>11, <1>10
<1>12. CASE /\ ~add /\ p.held
            /\ May("vip_del", spent) /\ disturbed' = spent + 1
            /\ Announce(n, q, Sends(q), inbox, FALSE)
  <2>1. "vip_del" \in Disturbances /\ disturbed' \in 0..MaxDisturbed
    BY <1>12, Constants DEF May
  <2> HIDE DEF q, Sends, add
  <2> QED BY <2>1, <1>12, <1>10
<1> QED BY <1>8, <1>9, <1>11, <1>12 DEF Iterate

-----------------------------------------------------------------------------
(* The actions.                                                            *)

LEMMA InitInv == Init => IInv
<1> SUFFICES ASSUME Init PROVE IInv OBVIOUS
<1>1. \A n \in Node : /\ ProcessInv(Stopped(ConfigPersist[n]))
                      /\ VipInv(Stopped(ConfigPersist[n]), FALSE)
  BY HaPairAssumption, StoppedInv DEF HaPairAssumption
<1>2. \A n \in Node : Stopped(ConfigPersist[n]) \in Process
  BY <1>1 DEF ProcessInv
<1>3. <<>> \in Seq(HonestHeartbeat) /\ <<>> \in Seq(Heartbeat) OBVIOUS
<1>4. /\ proc \in [Node -> Process]
      /\ net \in [Node -> Seq(Heartbeat)]
      /\ net \in [Node -> Seq(HonestHeartbeat)]
  BY <1>2, <1>3 DEF Init
<1>5. /\ vip \in [Node -> BOOLEAN] /\ gateway \in [Node -> BOOLEAN]
      /\ cut \in BOOLEAN
  BY DEF Init
<1>6. disturbed \in 0..MaxDisturbed BY Constants DEF Init
<1> QED BY <1>1, <1>4, <1>5, <1>6 DEF IInv, HaPairTypeOK, Init

(* What the invariant says of one process.                                 *)
LEMMA ProcessFacts ==
  ASSUME IInv, NEW n \in Node
  PROVE  /\ proc[n] \in Process /\ ElectionInv(proc[n].el)
         /\ ViewInv(proc[n].view)
         /\ net[n] \in Seq(HonestHeartbeat) /\ vip[n] \in BOOLEAN
         /\ disturbed \in 0..MaxDisturbed /\ cut \in BOOLEAN
         /\ proc[n].pc = "loop" => (proc[n].held <=> vip[n])
BY DEF IInv, HaPairTypeOK, ProcessInv, VipInv

(* The ticker keeps the invariant.                                         *)
LEMMA TickerFiresStep ==
  ASSUME IInv, NEW n \in Node, TickerFires(n) PROVE IInv'
<1> DEFINE p == [proc[n] EXCEPT !.ticked = TRUE]
<1>1. /\ p \in Process /\ ElectionInv(p.el) /\ ViewInv(p.view)
      /\ p.pc = "loop" /\ (p.held <=> vip[n])
  BY ProcessFacts DEF TickerFires, Process
<1>2. Iterate(n, p, FALSE, net[n], disturbed) /\ gateway' = gateway /\ cut' = cut
  BY DEF TickerFires
<1> HIDE DEF p
<1> QED BY <1>1, <1>2, ProcessFacts, IterateStep

(* A received heartbeat keeps the invariant.                               *)
LEMMA ReceiveHeartbeatStep ==
  ASSUME IInv, NEW n \in Node, ReceiveHeartbeat(n) PROVE IInv'
<1> DEFINE v == [hb |-> Head(net[n]), age |-> 0]
           p == [proc[n] EXCEPT !.view = v]
<1>1. net[n] \in Seq(HonestHeartbeat) /\ net[n] # <<>>
  BY ProcessFacts DEF ReceiveHeartbeat
<1>2. Head(net[n]) \in HonestHeartbeat /\ Tail(net[n]) \in Seq(HonestHeartbeat)
  BY <1>1, HeadTailProperties
<1>3. Head(net[n]) \in Heartbeat BY <1>2 DEF HonestHeartbeat
<1>4. v \in View /\ v.hb \in HonestHeartbeat BY <1>2, <1>3, Members DEF View
<1>5. ViewInv(v) BY <1>4 DEF ViewInv
<1>6. Iterate(n, p, TRUE, Tail(net[n]), disturbed) /\ gateway' = gateway /\ cut' = cut
  BY DEF ReceiveHeartbeat
<1>7. proc[n].pc = "loop" BY DEF ReceiveHeartbeat
<1> HIDE DEF v
<1>8. /\ p \in Process /\ ElectionInv(p.el) /\ ViewInv(p.view)
      /\ p.pc = "loop" /\ (p.held <=> vip[n])
  BY <1>4, <1>5, <1>7, ProcessFacts DEF Process
<1> HIDE DEF p
<1> QED BY <1>2, <1>6, <1>8, ProcessFacts, IterateStep

(* The return of vip.up keeps the invariant.                               *)
LEMMA VipIsUpStep ==
  ASSUME IInv, NEW n \in Node, VipIsUp(n) PROVE IInv'
<1> DEFINE p == [proc[n] EXCEPT !.held = TRUE]
<1>1. proc[n].pc = "arp" /\ vip[n] BY DEF VipIsUp, IInv, VipInv
<1>2. /\ p \in Process /\ ElectionInv(p.el) /\ ViewInv(p.view) /\ p.held = TRUE
  BY ProcessFacts DEF Process
<1>3. Announce(n, p, TRUE, net[n], TRUE) /\ gateway' = gateway /\ cut' = cut
      /\ disturbed' = disturbed
  BY DEF VipIsUp
<1> HIDE DEF p
<1> QED BY <1>1, <1>2, <1>3, ProcessFacts, AnnounceStep

(* A command keeps the invariant if the state it leaves is well formed.    *)
LEMMA CommandStep ==
  ASSUME IInv, NEW n \in Node, NEW kind, NEW p \in Process,
         ElectionInv(p.el), ViewInv(p.view), p.pc = proc[n].pc,
         p.held = proc[n].held, Command(n, kind, p)
  PROVE  IInv'
<1>1. disturbed + 1 \in 0..MaxDisturbed
  BY ProcessFacts, Constants DEF Command, May
<1>2. p.pc = "loop" /\ (p.held <=> vip[n]) BY ProcessFacts DEF Command
<1>3. Iterate(n, p, FALSE, net[n], disturbed + 1) /\ gateway' = gateway /\ cut' = cut
  BY DEF Command
<1> QED BY <1>1, <1>2, <1>3, ProcessFacts, IterateStep

(* The end of a process keeps the invariant, whatever becomes of its VIP.  *)
LEMMA StopStep ==
  ASSUME IInv, NEW n \in Node, NEW up \in BOOLEAN,
         proc' = [proc EXCEPT ![n] = Stopped(@.el.persist)],
         vip' = [vip EXCEPT ![n] = up], net' = [net EXCEPT ![n] = <<>>],
         gateway' = gateway, cut' = cut, disturbed' \in 0..MaxDisturbed
  PROVE  IInv'
<1> DEFINE r == Stopped(proc[n].el.persist)
<1>1. proc[n].el.persist \in BOOLEAN BY ProcessFacts DEF Process, Election
<1>2. ProcessInv(r) /\ VipInv(r, up) BY <1>1, StoppedInv
<1>3. proc' = [proc EXCEPT ![n] = r] BY DEF IInv, HaPairTypeOK
<1>4. net' \in [Node -> Seq(HonestHeartbeat)] BY DEF IInv
<1>5. cut' \in BOOLEAN BY ProcessFacts
<1> HIDE DEF r
<1> QED BY <1>2, <1>3, <1>4, <1>5, StepOfOne

(* restart_now keeps the invariant.                                        *)
LEMMA RestartNowStep ==
  ASSUME IInv, NEW n \in Node, RestartNow(n), gateway' = gateway, cut' = cut,
         disturbed' \in 0..MaxDisturbed
  PROVE  IInv'
<1>1. (vip[n] /\ ~proc[n].held) \in BOOLEAN BY ProcessFacts
<1>2. vip' = [vip EXCEPT ![n] = vip[n] /\ ~proc[n].held]
  BY DEF RestartNow, IInv, HaPairTypeOK
<1> QED BY <1>1, <1>2, StopStep DEF RestartNow

(* "Make Active" keeps the invariant.                                      *)
LEMMA MakeActiveStep ==
  ASSUME IInv, NEW n \in Node, MakeActive(n) PROVE IInv'
<1> DEFINE e == IF CanRequestActive(proc[n].el, proc[n].view)
                  THEN RequestActive(proc[n].el) ELSE proc[n].el
           p == [proc[n] EXCEPT !.el = e]
<1>1. proc[n].el \in Election BY ProcessFacts DEF Process
<1>2. ElectionInv(e)
  <2>1. /\ RequestActive(proc[n].el) \in Election
        /\ RequestActive(proc[n].el).role = proc[n].el.role
        /\ RequestActive(proc[n].el).handing = proc[n].el.handing
    BY <1>1, Members DEF RequestActive, Election
  <2> QED BY <2>1, ProcessFacts DEF ElectionInv
<1>3. Command(n, "active", p) BY ProcessFacts DEF MakeActive, Process
<1> HIDE DEF e
<1>4. /\ p \in Process /\ p.el = e /\ p.view = proc[n].view
      /\ p.pc = proc[n].pc /\ p.held = proc[n].held
  BY <1>2, ProcessFacts DEF Process, ElectionInv
<1> HIDE DEF p
<1> QED BY <1>2, <1>3, <1>4, ProcessFacts, CommandStep

(* "Make Standby" keeps the invariant.                                     *)
LEMMA MakeStandbyStep ==
  ASSUME IInv, NEW n \in Node, MakeStandby(n) PROVE IInv'
<1> DEFINE e == IF CanHandOver(proc[n].el, proc[n].view)
                  THEN StartHandover(proc[n].el, "manual") ELSE proc[n].el
           p == [proc[n] EXCEPT !.el = e]
<1>1. proc[n].el \in Election BY ProcessFacts DEF Process
<1>2. ElectionInv(e) BY <1>1, ProcessFacts, StartHandoverInv
<1>3. Command(n, "standby", p) BY ProcessFacts DEF MakeStandby, Process
<1> HIDE DEF e
<1>4. /\ p \in Process /\ p.el = e /\ p.view = proc[n].view
      /\ p.pc = proc[n].pc /\ p.held = proc[n].held
  BY <1>2, ProcessFacts DEF Process, ElectionInv
<1> HIDE DEF p
<1> QED BY <1>2, <1>3, <1>4, ProcessFacts, CommandStep

(* The persist override keeps the invariant.                               *)
LEMMA SetPersistStep ==
  ASSUME IInv, NEW n \in Node, NEW b \in BOOLEAN, SetPersist(n, b) PROVE IInv'
<1> DEFINE e == [proc[n].el EXCEPT !.persist = b, !.hold = FALSE]
           p == [proc[n] EXCEPT !.el.persist = b, !.el.hold = FALSE]
<1>1. proc[n].el \in Election BY ProcessFacts DEF Process
<1>2. e \in Election /\ e.role = proc[n].el.role /\ e.handing = proc[n].el.handing
  BY <1>1 DEF Election
<1>3. ElectionInv(e) BY <1>2, ProcessFacts DEF ElectionInv
<1>4. p = [proc[n] EXCEPT !.el = e] BY ProcessFacts DEF Process, Election
<1>5. Command(n, "persist", p) BY DEF SetPersist
<1> HIDE DEF e, p
<1>6. /\ p \in Process /\ p.el = e /\ p.view = proc[n].view
      /\ p.pc = proc[n].pc /\ p.held = proc[n].held
  BY <1>2, <1>4, ProcessFacts DEF Process
<1> QED BY <1>3, <1>5, <1>6, ProcessFacts, CommandStep

(* "Apply" keeps the invariant, in each of its three outcomes.             *)
LEMMA ApplyConfigStep ==
  ASSUME IInv, NEW n \in Node, NEW force \in BOOLEAN, ApplyConfig(n, force)
  PROVE  IInv'
<1> DEFINE e == StartHandover(proc[n].el, "auto")
           p == [proc[n] EXCEPT !.el = e, !.apply = TRUE]
           can == CanHandOver(proc[n].el, proc[n].view)
<1>1. CASE can /\ Command(n, "apply", [proc[n] EXCEPT !.el = StartHandover(@, "auto"),
                                                     !.apply = TRUE])
  <2>1. proc[n].el \in Election BY ProcessFacts DEF Process
  <2>2. ElectionInv(e) BY <2>1, StartHandoverInv
  <2>3. Command(n, "apply", p) BY <1>1, ProcessFacts DEF Process
  <2> HIDE DEF e
  <2>4. /\ p \in Process /\ p.el = e /\ p.view = proc[n].view
        /\ p.pc = proc[n].pc /\ p.held = proc[n].held
    BY <2>2, ProcessFacts DEF Process, ElectionInv
  <2> HIDE DEF p
  <2> QED BY <2>2, <2>3, <2>4, ProcessFacts, CommandStep
<1>2. CASE Command(n, "apply", proc[n])
  BY <1>2, ProcessFacts, CommandStep
<1>3. CASE /\ Disturb(IF force THEN "force" ELSE "apply")
           /\ RestartNow(n) /\ UNCHANGED <<gateway, cut>>
  <2>1. disturbed' \in 0..MaxDisturbed
    BY <1>3, ProcessFacts, Constants DEF Disturb, May
  <2> QED BY <1>3, <2>1, RestartNowStep
<1> QED BY <1>1, <1>2, <1>3 DEF ApplyConfig

(* The start of a process keeps the invariant.                             *)
LEMMA StartStep ==
  ASSUME IInv, NEW n \in Node, Start(n) PROVE IInv'
<1> DEFINE r == [proc[n] EXCEPT !.pc = "boot", !.awaiting = BootTime]
<1>1. BootTime \in 0..(ArpTime + BootTime) BY Constants
<1>2. proc[n].pc = "down" BY DEF Start
<1>3. ~proc[n].held /\ ~proc[n].wasActive /\ proc[n].el.role = "Init"
  BY <1>2 DEF IInv, ProcessInv
<1>4. /\ r \in Process /\ r.el = proc[n].el /\ r.view = proc[n].view
      /\ r.pc = "boot" /\ r.held = proc[n].held /\ r.wasActive = proc[n].wasActive
  BY <1>1, ProcessFacts DEF Process
<1>5. ProcessInv(r) /\ VipInv(r, FALSE)
  BY <1>3, <1>4, ProcessFacts DEF ProcessInv, VipInv
<1>6. proc' = [proc EXCEPT ![n] = r] BY DEF Start, IInv, HaPairTypeOK
<1> HIDE DEF r
<1> QED BY <1>5, <1>6, ProcessFacts, StepOfOne DEF Start, IInv

(* A step that only touches fields the invariant does not relate.          *)
LEMMA MinorStep ==
  ASSUME IInv, NEW n \in Node, NEW r \in Process,
         r.pc = proc[n].pc \/ (proc[n].pc = "boot" /\ r.pc = "loop"),
         r.el = proc[n].el, r.view = proc[n].view,
         r.held = proc[n].held, r.wasActive = proc[n].wasActive,
         proc' = [proc EXCEPT ![n] = r],
         vip' = vip, net' = net, gateway' = gateway, cut' = cut,
         disturbed' \in 0..MaxDisturbed
  PROVE  IInv'
<1>1. ProcessInv(proc[n]) /\ VipInv(proc[n], vip[n]) BY DEF IInv
<1>2. ProcessInv(r) BY <1>1 DEF ProcessInv
<1>3. VipInv(r, vip[n]) BY <1>1 DEF VipInv, ProcessInv
<1>4. vip' = [vip EXCEPT ![n] = vip[n]] BY DEF IInv, HaPairTypeOK
<1> QED BY <1>2, <1>3, <1>4, ProcessFacts, StepOfOne DEF IInv

(* The end of the startup code keeps the invariant.                        *)
LEMMA BootedStep ==
  ASSUME IInv, NEW n \in Node, Booted(n) PROVE IInv'
<1> DEFINE r == [proc[n] EXCEPT !.pc = "loop"]
<1>1. /\ r \in Process /\ r.el = proc[n].el /\ r.view = proc[n].view
      /\ r.pc = "loop" /\ r.held = proc[n].held
      /\ r.wasActive = proc[n].wasActive
  BY ProcessFacts DEF Process
<1>2. proc' = [proc EXCEPT ![n] = r] BY DEF Booted, IInv, HaPairTypeOK
<1>3. proc[n].pc = "boot" BY DEF Booted
<1> HIDE DEF r
<1> QED BY <1>1, <1>2, <1>3, ProcessFacts, MinorStep DEF Booted

(* A replica that is current keeps the invariant.                          *)
LEMMA CaughtUpStep ==
  ASSUME IInv, NEW n \in Node, CaughtUp(n) PROVE IInv'
<1> DEFINE r == [proc[n] EXCEPT !.synced = TRUE]
<1>1. /\ r \in Process /\ r.el = proc[n].el /\ r.view = proc[n].view
      /\ r.pc = proc[n].pc /\ r.held = proc[n].held
      /\ r.wasActive = proc[n].wasActive
  BY ProcessFacts DEF Process
<1>2. proc' = [proc EXCEPT ![n] = r] BY DEF CaughtUp, IInv, HaPairTypeOK
<1> HIDE DEF r
<1> QED BY <1>1, <1>2, ProcessFacts, MinorStep DEF CaughtUp

(* A replica that no longer is keeps the invariant.                        *)
LEMMA StreamEndsStep ==
  ASSUME IInv, NEW n \in Node, StreamEnds(n) PROVE IInv'
<1> DEFINE r == [proc[n] EXCEPT !.synced = FALSE]
<1>1. /\ r \in Process /\ r.el = proc[n].el /\ r.view = proc[n].view
      /\ r.pc = proc[n].pc /\ r.held = proc[n].held
      /\ r.wasActive = proc[n].wasActive
  BY ProcessFacts DEF Process
<1>2. proc' = [proc EXCEPT ![n] = r] BY DEF StreamEnds, IInv, HaPairTypeOK
<1>3. disturbed' \in 0..MaxDisturbed
  BY ProcessFacts, Constants DEF StreamEnds, Disturb, May
<1> HIDE DEF r
<1> QED BY <1>1, <1>2, <1>3, MinorStep DEF StreamEnds

(* A crash keeps the invariant, whether or not the VIP stays behind.       *)
LEMMA CrashStep ==
  ASSUME IInv, NEW n \in Node, Crash(n) PROVE IInv'
<1>1. disturbed' \in 0..MaxDisturbed
  BY ProcessFacts, Constants DEF Crash, Disturb, May
<1>2. PICK stays \in BOOLEAN : vip' = [vip EXCEPT ![n] = @ /\ stays]
  BY DEF Crash
<1>3. /\ vip' = [vip EXCEPT ![n] = vip[n] /\ stays]
      /\ (vip[n] /\ stays) \in BOOLEAN
  BY <1>2, ProcessFacts DEF IInv, HaPairTypeOK
<1> QED BY <1>1, <1>3, StopStep DEF Crash

(* SIGTERM keeps the invariant.                                            *)
LEMMA TerminateStep ==
  ASSUME IInv, NEW n \in Node, Terminate(n) PROVE IInv'
<1>1. disturbed' \in 0..MaxDisturbed
  BY ProcessFacts, Constants DEF Terminate, Disturb, May
<1> QED BY <1>1, RestartNowStep DEF Terminate

(* The link going down or up keeps the invariant.                          *)
LEMMA LinkStep ==
  ASSUME IInv, CutLink \/ HealLink PROVE IInv'
<1>0. disturbed \in 0..MaxDisturbed BY DEF IInv, HaPairTypeOK
<1>1. disturbed' \in 0..MaxDisturbed /\ cut' \in BOOLEAN
  <2>1. CASE CutLink BY <1>0, <2>1, Constants DEF CutLink, Disturb, May
  <2>2. CASE HealLink BY <1>0, <2>2 DEF HealLink
  <2> QED BY <2>1, <2>2
<1>2. UNCHANGED <<proc, vip, gateway, net>> BY DEF CutLink, HealLink
<1> QED BY <1>1, <1>2 DEF IInv, HaPairTypeOK

(* An interval later the process is where it was, with its timers run      *)
(* down.                                                                   *)
LEMMA LaterInv ==
  ASSUME NEW p \in Process, ProcessInv(p)
  PROVE  /\ ProcessInv(Later(p)) /\ Later(p).pc = p.pc
         /\ Later(p).held = p.held /\ Later(p).el.role = p.el.role
<1> DEFINE e == [p.el EXCEPT !.handingLeft = Less(@), !.takeoverLeft = Less(@),
                             !.listenLeft = Less(@)]
           r == [p EXCEPT !.el = e, !.view = Older(@), !.vipFault = Less(@),
                          !.awaiting = Less(@), !.ticked = FALSE]
<1>1. \A t \in 0..HandoverTimeout : Less(t) \in 0..HandoverTimeout
  BY Constants DEF Less
<1>2. \A t \in 0..DeadAfter : Less(t) \in 0..DeadAfter BY Constants DEF Less
<1>3. \A t \in 0..(ArpTime + BootTime) : Less(t) \in 0..(ArpTime + BootTime)
  BY Constants DEF Less
<1>4. p.el \in Election BY DEF Process
<1>5. e \in Election /\ e.role = p.el.role /\ e.handing = p.el.handing
  BY <1>1, <1>2, <1>4 DEF Election
<1>6. ViewInv(Older(p.view)) /\ Older(p.view) \in View
  <2>1. ViewInv(p.view) /\ p.view \in View BY DEF ProcessInv, ViewInv
  <2>2. CASE p.view.age + 1 < DeadAfter
    <3>1. p.view.age + 1 \in 0..DeadAfter BY <2>1, <2>2, Constants DEF View
    <3>2. Older(p.view) = [p.view EXCEPT !.age = p.view.age + 1]
      BY <2>1, <2>2 DEF Older, View
    <3>3. Older(p.view) \in View /\ Older(p.view).hb = p.view.hb
      BY <3>1, <3>2, <2>1 DEF View
    <3> QED BY <3>3, <2>1 DEF ViewInv
  <2>3. CASE ~(p.view.age + 1 < DeadAfter)
    BY <2>3, NoPeerInv DEF Older, ViewInv
  <2> QED BY <2>2, <2>3
<1>7. Later(p) = r BY DEF Later, Process, Election
<1> HIDE DEF e
<1>8. r \in Process /\ r.el = e /\ r.view = Older(p.view) /\ r.pc = p.pc
      /\ r.held = p.held /\ r.wasActive = p.wasActive
  BY <1>1, <1>3, <1>5, <1>6 DEF Process
<1> HIDE DEF r
<1>9. ElectionInv(e) BY <1>5 DEF ProcessInv, ElectionInv
<1>10. ProcessInv(r) BY <1>5, <1>6, <1>8, <1>9 DEF ProcessInv
<1> QED BY <1>5, <1>7, <1>8, <1>10

(* The passage of time keeps the invariant.                                *)
LEMMA AdvanceStep ==
  ASSUME IInv, Advance PROVE IInv'
<1>1. \A n \in Node : ProcessInv(proc[n]) /\ VipInv(proc[n], vip[n])
  BY DEF IInv
<1>2. \A n \in Node : ProcessInv(proc'[n]) /\ VipInv(proc'[n], vip[n])
  <2> SUFFICES ASSUME NEW n \in Node
               PROVE  ProcessInv(proc'[n]) /\ VipInv(proc'[n], vip[n])
    OBVIOUS
  <2>1. CASE proc[n].pc = "down" BY <1>1, <2>1 DEF Advance
  <2>2. CASE proc[n].pc # "down"
    <3>1. proc'[n] = Later(proc[n]) BY <2>2 DEF Advance
    <3> QED BY <1>1, <3>1, ProcessFacts, LaterInv DEF VipInv
  <2> QED BY <2>1, <2>2
<1>3. proc' \in [Node -> Process]
  <2>1. \A n \in Node : proc'[n] \in Process BY <1>2 DEF ProcessInv
  <2>2. proc' = [n \in Node |-> proc'[n]] BY DEF Advance
  <2> QED BY <2>1, <2>2
<1>4. gateway' \in [Node -> BOOLEAN] /\ disturbed' \in 0..MaxDisturbed
  <2>1. gateway \in [Node -> BOOLEAN] /\ disturbed \in 0..MaxDisturbed
    BY DEF IInv, HaPairTypeOK
  <2>2. CASE UNCHANGED <<gateway, disturbed>> BY <2>1, <2>2
  <2>3. ASSUME Disturb("gateway"), NEW n \in FlakyGateway,
               gateway' = [gateway EXCEPT ![n] = ~@]
        PROVE  gateway' \in [Node -> BOOLEAN] /\ disturbed' \in 0..MaxDisturbed
    <3>1. n \in Node BY HaPairAssumption DEF HaPairAssumption
    <3>2. gateway' \in [Node -> BOOLEAN] BY <2>1, <2>3, <3>1
    <3>3. disturbed' \in 0..MaxDisturbed
      BY <2>1, <2>3, Constants DEF Disturb, May
    <3> QED BY <3>2, <3>3
  <2> QED BY <2>2, <2>3 DEF Advance, GatewayCheck
<1> QED BY <1>2, <1>3, <1>4 DEF Advance, IInv, HaPairTypeOK

(* Every step keeps the invariant.                                         *)
LEMMA NextInv == IInv /\ [Next]_vars => IInv'
<1> SUFFICES ASSUME IInv, [Next]_vars PROVE IInv' OBVIOUS
<1>1. CASE UNCHANGED vars BY <1>1 DEF vars, IInv, HaPairTypeOK
<1>2. ASSUME NEW n \in Node,
             \/ TickerFires(n) \/ ReceiveHeartbeat(n) \/ VipIsUp(n)
             \/ Start(n) \/ Booted(n)
      PROVE  IInv'
  BY <1>2, TickerFiresStep, ReceiveHeartbeatStep, VipIsUpStep, StartStep, BootedStep
<1>3. ASSUME NEW n \in Node,
             \/ MakeActive(n) \/ MakeStandby(n)
             \/ \E b \in BOOLEAN : SetPersist(n, b)
             \/ \E force \in BOOLEAN : ApplyConfig(n, force)
      PROVE  IInv'
  BY <1>3, MakeActiveStep, MakeStandbyStep, SetPersistStep, ApplyConfigStep
<1>4. ASSUME NEW n \in Node,
             CaughtUp(n) \/ StreamEnds(n) \/ Crash(n) \/ Terminate(n)
      PROVE  IInv'
  BY <1>4, CaughtUpStep, StreamEndsStep, CrashStep, TerminateStep
<1>5. CASE CutLink \/ HealLink BY <1>5, LinkStep
<1>6. CASE Advance BY <1>6, AdvanceStep
<1> QED BY <1>1, <1>2, <1>3, <1>4, <1>5, <1>6 DEF Next

(* Every state of the pair satisfies the inductive invariant.              *)
THEOREM Invariance == Safety => []IInv
BY InitInv, NextInv, PTL DEF Safety

-----------------------------------------------------------------------------
(* The properties.                                                         *)

(* The state of `run` on both nodes stays within its types, whatever the   *)
(* weights, the timeouts, the faults and the commands.                     *)
THEOREM TypeCorrect == Safety => []HaPairTypeOK
<1>1. IInv => HaPairTypeOK BY DEF IInv
<1> QED BY <1>1, Invariance, PTL

(* At select!, the services and the VIP follow the role.                   *)
THEOREM ServicesCorrect == Safety => []ServicesFollowRole
<1>1. IInv => ServicesFollowRole BY DEF IInv, ProcessInv, ServicesFollowRole
<1> QED BY <1>1, Invariance, PTL

(* A running process knows of the VIP on its interface.                    *)
THEOREM VipCorrect == Safety => []VipIsAccountedFor
<1>1. IInv => VipIsAccountedFor
  BY DEF IInv, VipInv, VipIsAccountedFor, Running
<1> QED BY <1>1, Invariance, PTL

(* The claims of one step: process n is r afterwards, the others as before. *)
Claims(n, r) ==
  proc[n].el.role # "Active" /\ r.el.role = "Active" =>
    ~(Alive(r.view) /\ r.view.hb.role = "Active")

(* The end of an iteration claims nothing that the tick did not.           *)
LEMMA AnnounceClaims ==
  ASSUME NEW n \in Node, proc \in [Node -> Process],
         NEW p \in Process, NEW sends, NEW inbox, NEW released,
         Claims(n, p), Announce(n, p, sends, inbox, released)
  PROVE  \E r : Claims(n, r) /\ proc' = [proc EXCEPT ![n] = r]
<1> DEFINE q == [p EXCEPT !.pc = "loop",
                     !.held = @ /\ (p.el.role = "Active" \/ ~released),
                     !.wasActive = @ \/ (p.el.role = "Active" /\ p.held)]
<1>1. q.el = p.el /\ q.view = p.view BY DEF Process
<1>2. Claims(n, q) BY <1>1 DEF Claims
<1>3. Claims(n, Stopped(q.el.persist))
  BY DEF Claims, Stopped, NewElection
<1>4. proc' = [proc EXCEPT ![n] = IF MustRestart(q) THEN Stopped(q.el.persist) ELSE q]
  BY DEF Announce, Settle
<1> HIDE DEF q
<1> QED BY <1>2, <1>3, <1>4

(* An iteration claims the role only as the tick allows.                   *)
LEMMA IterateClaims ==
  ASSUME IInv, NEW n \in Node, NEW p \in Process,
         ElectionInv(p.el), ViewInv(p.view),
         p.el.role = "Active" => proc[n].el.role = "Active",
         NEW fromPeer, NEW inbox, NEW spent,
         Iterate(n, p, fromPeer, inbox, spent)
  PROVE  \E r : Claims(n, r) /\ proc' = [proc EXCEPT ![n] = r]
<1> DEFINE ok == gateway[n] /\ p.vipFault = 0
           e == Tick(n, p.el, p.view, ok)
           q == [p EXCEPT !.el = e]
           f == Tick(n, e, p.view, FALSE)
           failed == [p EXCEPT !.el = f, !.vipFault = HandoverTimeout]
           a == [q EXCEPT !.pc = "arp", !.awaiting = ArpTime]
<1>1. proc \in [Node -> Process] /\ ok \in BOOLEAN BY DEF IInv, HaPairTypeOK
<1>2. /\ ElectionInv(e)
      /\ p.el.role # "Active" /\ e.role = "Active"
           => ~(Alive(p.view) /\ p.view.hb.role = "Active")
  BY <1>1, TickInv
<1>3. ElectionInv(f) /\ f.role = "Fault" BY <1>2, TickInv
<1>4. /\ q \in Process /\ q.el = e /\ q.view = p.view
      /\ a.el = e /\ a.view = p.view
  BY <1>2 DEF Process, ElectionInv
<1>5. failed \in Process /\ failed.el = f
  BY <1>3, Members DEF Process, ElectionInv
<1> HIDE DEF e, f
<1>6. Claims(n, q) /\ Claims(n, a) BY <1>2, <1>4 DEF Claims
<1>7. Claims(n, failed) BY <1>3, <1>5 DEF Claims
<1> HIDE DEF q, failed, a
<1>8. \/ proc' = [proc EXCEPT ![n] = a]
      \/ \E sends : Announce(n, failed, sends, inbox, TRUE)
      \/ \E sends, released : Announce(n, q, sends, inbox, released)
  BY DEF Iterate, a, q, failed, e, f
<1> QED BY <1>1, <1>4, <1>5, <1>6, <1>7, <1>8, AnnounceClaims

(* No node takes the role unless what it knows of its peer allows it: the  *)
(* body of ClaimsOnlyWhenPeerIsNot.                                        *)
ClaimsAreJustified == \A n \in Node : Claims(n, proc'[n])

(* A step of one process is justified if that process is.                  *)
LEMMA ClaimsOfOne ==
  ASSUME IInv, NEW n \in Node,
         \E r : Claims(n, r) /\ proc' = [proc EXCEPT ![n] = r]
  PROVE  ClaimsAreJustified
<1>1. PICK r : Claims(n, r) /\ proc' = [proc EXCEPT ![n] = r] OBVIOUS
<1>2. proc'[n] = r /\ \A k \in Node \ {n} : proc'[k] = proc[k]
  BY <1>1 DEF IInv, HaPairTypeOK
<1> QED BY <1>1, <1>2 DEF ClaimsAreJustified, Claims

(* The events at select! are justified.                                    *)
LEMMA EventClaims ==
  ASSUME IInv, NEW n \in Node,
         TickerFires(n) \/ ReceiveHeartbeat(n) \/ VipIsUp(n)
  PROVE  ClaimsAreJustified
<1>1. CASE TickerFires(n)
  <2> DEFINE p == [proc[n] EXCEPT !.ticked = TRUE]
  <2>1. /\ p \in Process /\ ElectionInv(p.el) /\ ViewInv(p.view)
        /\ p.el = proc[n].el
    BY ProcessFacts DEF Process
  <2>2. Iterate(n, p, FALSE, net[n], disturbed) BY <1>1 DEF TickerFires
  <2> HIDE DEF p
  <2> QED BY <2>1, <2>2, IterateClaims, ClaimsOfOne
<1>2. CASE ReceiveHeartbeat(n)
  <2> DEFINE v == [hb |-> Head(net[n]), age |-> 0]
             p == [proc[n] EXCEPT !.view = v]
  <2>1. Head(net[n]) \in HonestHeartbeat
    BY <1>2, ProcessFacts, HeadTailProperties DEF ReceiveHeartbeat
  <2>2. Head(net[n]) \in Heartbeat BY <2>1 DEF HonestHeartbeat
  <2>3. v \in View /\ v.hb \in HonestHeartbeat BY <2>1, <2>2, Members DEF View
  <2>4. Iterate(n, p, TRUE, Tail(net[n]), disturbed)
    BY <1>2 DEF ReceiveHeartbeat
  <2> HIDE DEF v
  <2>5. /\ p \in Process /\ ElectionInv(p.el) /\ ViewInv(p.view)
        /\ p.el = proc[n].el
    BY <2>3, ProcessFacts DEF Process, ViewInv
  <2> HIDE DEF p
  <2> QED BY <2>4, <2>5, IterateClaims, ClaimsOfOne
<1>3. CASE VipIsUp(n)
  <2> DEFINE p == [proc[n] EXCEPT !.held = TRUE]
  <2>1. p \in Process /\ p.el = proc[n].el /\ proc \in [Node -> Process]
    BY ProcessFacts DEF Process, IInv, HaPairTypeOK
  <2>2. Claims(n, p) BY <2>1 DEF Claims
  <2>3. Announce(n, p, TRUE, net[n], TRUE) BY <1>3 DEF VipIsUp
  <2> HIDE DEF p
  <2> QED BY <2>1, <2>2, <2>3, AnnounceClaims, ClaimsOfOne
<1> QED BY <1>1, <1>2, <1>3

(* A command leaves the role alone or steps down before the tick.          *)
LEMMA CommandClaims ==
  ASSUME IInv, NEW n \in Node, NEW kind, NEW p \in Process,
         ElectionInv(p.el), ViewInv(p.view),
         p.el.role = "Active" => proc[n].el.role = "Active",
         Command(n, kind, p)
  PROVE  ClaimsAreJustified
<1>1. Iterate(n, p, FALSE, net[n], disturbed + 1) BY DEF Command
<1> QED BY <1>1, IterateClaims, ClaimsOfOne

(* A process that ends claims nothing.                                     *)
LEMMA StoppedClaims ==
  ASSUME IInv, NEW n \in Node, NEW b,
         proc' = [proc EXCEPT ![n] = Stopped(b)]
  PROVE  ClaimsAreJustified
<1>1. Claims(n, Stopped(b)) BY DEF Claims, Stopped, NewElection
<1> HIDE DEF Stopped
<1> QED BY <1>1, ClaimsOfOne

(* The commands of the dashboard are justified.                            *)
LEMMA OperatorClaims ==
  ASSUME IInv, NEW n \in Node,
         \/ MakeActive(n) \/ MakeStandby(n)
         \/ \E b \in BOOLEAN : SetPersist(n, b)
         \/ \E force \in BOOLEAN : ApplyConfig(n, force)
  PROVE  ClaimsAreJustified
<1>1. proc[n].el \in Election BY ProcessFacts DEF Process
<1>2. CASE MakeActive(n)
  <2> DEFINE e == IF CanRequestActive(proc[n].el, proc[n].view)
                    THEN RequestActive(proc[n].el) ELSE proc[n].el
             p == [proc[n] EXCEPT !.el = e]
  <2>1. /\ e \in Election /\ e.role = proc[n].el.role
        /\ e.handing = proc[n].el.handing
    BY <1>1, Members DEF RequestActive, Election
  <2>2. Command(n, "active", p) BY <1>2, ProcessFacts DEF MakeActive, Process
  <2> HIDE DEF e
  <2>3. /\ p \in Process /\ ElectionInv(p.el) /\ ViewInv(p.view) /\ p.el = e
    BY <2>1, ProcessFacts DEF Process, ElectionInv
  <2> HIDE DEF p
  <2> QED BY <2>1, <2>2, <2>3, CommandClaims
<1>3. CASE MakeStandby(n)
  <2> DEFINE e == IF CanHandOver(proc[n].el, proc[n].view)
                    THEN StartHandover(proc[n].el, "manual") ELSE proc[n].el
             p == [proc[n] EXCEPT !.el = e]
  <2>1. ElectionInv(e) /\ (e.role = "Active" => proc[n].el.role = "Active")
    BY <1>1, ProcessFacts, StartHandoverInv
  <2>2. Command(n, "standby", p) BY <1>3, ProcessFacts DEF MakeStandby, Process
  <2> HIDE DEF e
  <2>3. /\ p \in Process /\ p.el = e /\ ViewInv(p.view)
    BY <2>1, ProcessFacts DEF Process, ElectionInv
  <2> HIDE DEF p
  <2> QED BY <2>1, <2>2, <2>3, CommandClaims
<1>4. ASSUME NEW b \in BOOLEAN, SetPersist(n, b) PROVE ClaimsAreJustified
  <2> DEFINE e == [proc[n].el EXCEPT !.persist = b, !.hold = FALSE]
             p == [proc[n] EXCEPT !.el.persist = b, !.el.hold = FALSE]
  <2>1. /\ e \in Election /\ e.role = proc[n].el.role
        /\ e.handing = proc[n].el.handing
    BY <1>1 DEF Election
  <2>2. Command(n, "persist", p) BY <1>4 DEF SetPersist
  <2>3. p = [proc[n] EXCEPT !.el = e] BY ProcessFacts DEF Process, Election
  <2> HIDE DEF e, p
  <2>4. /\ p \in Process /\ ElectionInv(p.el) /\ ViewInv(p.view) /\ p.el = e
    BY <2>1, <2>3, ProcessFacts DEF Process, ElectionInv
  <2> QED BY <2>1, <2>2, <2>4, CommandClaims
<1>5. ASSUME NEW force \in BOOLEAN, ApplyConfig(n, force) PROVE ClaimsAreJustified
  <2>1. CASE Command(n, "apply", [proc[n] EXCEPT !.el = StartHandover(@, "auto"),
                                                 !.apply = TRUE])
    <3> DEFINE e == StartHandover(proc[n].el, "auto")
               p == [proc[n] EXCEPT !.el = e, !.apply = TRUE]
    <3>1. ElectionInv(e) /\ e.role = "Standby" BY <1>1, StartHandoverInv
    <3>2. Command(n, "apply", p) BY <2>1, ProcessFacts DEF Process
    <3> HIDE DEF e
    <3>3. /\ p \in Process /\ p.el = e /\ ViewInv(p.view)
      BY <3>1, ProcessFacts DEF Process, ElectionInv
    <3> HIDE DEF p
    <3> QED BY <3>1, <3>2, <3>3, CommandClaims
  <2>2. CASE Command(n, "apply", proc[n]) BY <2>2, ProcessFacts, CommandClaims
  <2>3. CASE RestartNow(n)
    <3>1. proc' = [proc EXCEPT ![n] = Stopped(proc[n].el.persist)]
      BY <2>3 DEF RestartNow, IInv, HaPairTypeOK
    <3> QED BY <3>1, StoppedClaims
  <2> QED BY <1>5, <2>1, <2>2, <2>3 DEF ApplyConfig
<1> QED BY <1>2, <1>3, <1>4, <1>5

(* A step in which nobody claims the role is justified.                    *)
LEMMA QuietClaims ==
  ASSUME IInv, \A n \in Node : proc'[n].el.role = "Active" => proc[n].el.role = "Active"
  PROVE  ClaimsAreJustified
BY DEF ClaimsAreJustified, Claims

(* Every step is justified.                                                *)
LEMMA NextClaims == IInv /\ [Next]_vars => ClaimsAreJustified
<1> SUFFICES ASSUME IInv, [Next]_vars PROVE ClaimsAreJustified OBVIOUS
<1>0. proc \in [Node -> Process] BY DEF IInv, HaPairTypeOK
<1>1. CASE UNCHANGED vars \/ CutLink \/ HealLink
  BY <1>1, QuietClaims DEF vars, CutLink, HealLink
<1>2. ASSUME NEW n \in Node,
             Start(n) \/ Booted(n) \/ CaughtUp(n) \/ StreamEnds(n)
      PROVE  ClaimsAreJustified
  <2>1. \A k \in Node : proc'[k].el = proc[k].el
    <3>1. CASE Start(n) BY <1>0, <3>1 DEF Start, Process
    <3>2. CASE Booted(n) BY <1>0, <3>2 DEF Booted, Process
    <3>3. CASE CaughtUp(n) BY <1>0, <3>3 DEF CaughtUp, Process
    <3>4. CASE StreamEnds(n) BY <1>0, <3>4 DEF StreamEnds, Process
    <3> QED BY <1>2, <3>1, <3>2, <3>3, <3>4
  <2> QED BY <2>1, QuietClaims
<1>3. ASSUME NEW n \in Node, Crash(n) \/ Terminate(n) PROVE ClaimsAreJustified
  <2>1. proc' = [proc EXCEPT ![n] = Stopped(proc[n].el.persist)]
    BY <1>0, <1>3 DEF Crash, Terminate, RestartNow
  <2> QED BY <2>1, StoppedClaims
<1>4. CASE Advance
  <2>1. \A n \in Node : Later(proc[n]).el.role = proc[n].el.role
    BY <1>0, LaterInv DEF IInv
  <2> QED BY <1>4, <2>1, QuietClaims DEF Advance
<1> QED BY <1>1, <1>2, <1>3, <1>4, EventClaims, OperatorClaims DEF Next

(* A node never takes the Active role while the last it heard of a live    *)
(* peer is that the peer is Active.                                        *)
THEOREM ClaimsCorrect == Safety => ClaimsOnlyWhenPeerIsNot
<1>1. IInv /\ [Next]_vars => [ClaimsAreJustified]_vars BY NextClaims
<1>2. ClaimsAreJustified =>
        \A n \in Node : proc[n].el.role # "Active" /\ proc'[n].el.role = "Active" =>
          ~(Alive(proc'[n].view) /\ proc'[n].view.hb.role = "Active")
  BY DEF ClaimsAreJustified, Claims
<1> QED BY <1>1, <1>2, Invariance, PTL DEF Safety, ClaimsOnlyWhenPeerIsNot

=============================================================================
