--------------------------- MODULE VipLockProofs ---------------------------
(***************************************************************************)
(* In normal operation the virtual IP is a lock: HaPair implements VipLock *)
(* for all weights, names and timeouts.  The proof takes the step of a     *)
(* node apart into what it reads, what it decides and what it says (Turn), *)
(* shows that every event, command and restart is such a turn, and then    *)
(* that turns and the passage of time keep the invariant LockInv.          *)
(***************************************************************************)
EXTENDS HaPairProofs

(* Normal operation (ha.rs:14), in the constants of the pair: both loops   *)
(* run without a pause longer than a heartbeat interval (the address is    *)
(* announced and the startup over within one), the LAN delivers, no        *)
(* process is killed, no gateway check fails and no `ip` command either.   *)
(* Make Standby, persist, Apply, a forced restart, SIGTERM and the end of  *)
(* a replica's stream may happen in any number.  Not so Make Active: on a  *)
(* Standby whose peer is not Active yet both nodes would claim the role.   *)
NormalOperation ==
  /\ ArpTime = 0 /\ BootTime = 0
  /\ Disturbances \subseteq
       {"standby", "persist", "apply", "force", "stop", "replica"}

-----------------------------------------------------------------------------

(* The heartbeats of an inbox.                                             *)
Beats(s) == {s[i] : i \in 1..Len(s)}

(* The heartbeats in flight to a node.                                     *)
Coming(n) == Beats(net[n])

(* Active, in the middle of handing over, hearing its peer, and not one    *)
(* interval old.                                                           *)
IsActive(n) == proc[n].el.role = "Active"
HandsOver(n) == proc[n].el.handing # "no"
Hears(n) == Alive(proc[n].view)
New(n) == proc[n].el.listenLeft = DeadAfter

(* No heartbeat of a pair in normal operation says Fault or asks for a     *)
(* takeover.                                                               *)
CalmBeat(b) == b.role # "Fault" /\ ~b.takeover

(* One process in normal operation: it is never in Fault, never waits      *)
(* outside `select!` over an interval, and starts from nothing; the        *)
(* services run on an Active node at `select!`, and one that hands over    *)
(* has had them running.                                                   *)
CalmProcess(p) ==
  /\ p.vipFault = 0 /\ p.awaiting = 0
  /\ p.el.takeoverLeft = 0 /\ p.el.role # "Fault"
  /\ CalmBeat(p.view.hb)
  /\ p.pc \in {"down", "boot"} =>
       p.view = NoPeer /\ p.el.listenLeft = DeadAfter /\ ~p.ticked
  /\ p.pc = "loop" /\ p.el.role = "Active" => p.wasActive
  /\ p.el.handing # "no" => p.pc = "loop" /\ p.wasActive
  /\ p.wasActive => p.el.role = "Active" \/ p.el.handing # "no"

(* One node in normal operation: the VIP is on its interface exactly as    *)
(* long as it is Active, and a process that does not run is sent nothing.  *)
Calm(n) ==
  /\ CalmProcess(proc[n])
  /\ vip[n] <=> proc[n].el.role = "Active"
  /\ \A b \in Coming(n) : CalmBeat(b)
  /\ ~Running(n) => net[n] = <<>>
  /\ gateway[n]
  /\ ~cut

(* A heartbeat on which a healthy Standby takes the role: the peer hands   *)
(* over, or it is not Active and the node is the preferred one.            *)
Bait(n, b) == b.handing # "no" \/ (b.role # "Active" /\ Preferred(n, Peer(n)))

(* A Standby that has read such a heartbeat has acted on it in the same    *)
(* iteration.                                                              *)
TakesBait(n) ==
  Running(n) /\ ~IsActive(n) /\ Hears(n) /\ Bait(n, proc[n].view.hb)
    => HandsOver(n)

(* The listen delay outlasts what a node remembers of a peer: as the       *)
(* peer's last heartbeat grows old the delay runs down with it, so a node  *)
(* that takes its peer for dead has heard nobody for dead_after since its  *)
(* own start.                                                              *)
Listens(n) ==
  /\ Hears(n) => proc[n].el.listenLeft + proc[n].view.age <= DeadAfter
  /\ ~Hears(n) /\ proc[n].el.role # "Init" => proc[n].el.listenLeft = 0

(* Once a peer's ticker has fired in this interval, its heartbeat is on    *)
(* its way or was read in this interval.                                   *)
HearsPeer(n) ==
  LET m == Peer(n) IN
  Running(n) /\ ~New(n) /\ proc[m].ticked /\ proc[m].pc # "arp"
    => proc[n].view.age = 0 \/ net[n] # <<>>

(* A node about to take over from a dead peer has no peer, or one that has *)
(* only just started.                                                      *)
PeerIsGone(n) ==
  LET m == Peer(n) IN
  proc[n].pc = "loop" /\ ~IsActive(n) /\ ~Hears(n) /\ proc[n].el.listenLeft = 0 =>
    /\ ~proc[n].ticked
    /\ Running(m) => New(m) /\ ~Hears(m) /\ net[m] = <<>>

(* A process whose services were never started has said nothing of a       *)
(* handover.                                                               *)
FirstTerm(n) ==
  Running(n) /\ ~proc[n].wasActive => \A b \in Coming(Peer(n)) : b.handing = "no"

(* The next heartbeat in the inbox may make this node Active.              *)
Ready(n) ==
  /\ Running(n) /\ ~IsActive(n) /\ ~HandsOver(n)
  /\ \E b \in Coming(n) : Bait(n, b)

(* The heart of the matter: while a node is Active its peer is not, and no *)
(* heartbeat that would make the peer Active is under way to it; nor are   *)
(* two nodes about to become Active together.                              *)
Alone(n) ==
  LET m == Peer(n) IN
  /\ IsActive(n) => ~IsActive(m) /\ ~Ready(m)
  /\ Ready(n) => ~Ready(m)

(* What may answer a handover to m.  It has taken the role, and says so or *)
(* will; ...                                                               *)
Claimed(m) ==
  proc[m].pc = "arp" \/ \E b \in Coming(Peer(m)) : b.role = "Active"

(* ... or the handover is on its way to it; ...                            *)
Called(m) ==
  /\ Running(m) /\ ~IsActive(m) /\ ~HandsOver(m)
  /\ \E b \in Coming(m) : b.handing # "no"

(* ... or it has not heard of it, since it does not run or has just        *)
(* started; ...                                                            *)
Newborn(m) ==
  \/ ~Running(m)
  \/ /\ proc[m].el.role = "Init" /\ ~Hears(m) /\ net[m] = <<>>
     /\ \/ New(m)
        \/ proc[m].el.listenLeft = DeadAfter - 1 /\ ~proc[Peer(m)].ticked

(* ... or it hands over itself and will read that its peer was Active,     *)
(* which ends that handover: handovers that cross.                         *)
Doomed(m) == HandsOver(m) /\ \E b \in Coming(m) : b.role = "Active"

(* A node that hands over has a peer that answers in one of these ways,    *)
(* ...                                                                     *)
PeerAnswers(n) ==
  LET m == Peer(n) IN
  HandsOver(n) => Claimed(m) \/ Called(m) \/ Newborn(m) \/ Doomed(m)

(* ... so that its handover only times out when the peer is a newborn, and *)
(* before its own ticker has fired in that interval.                       *)
TimesOut(n) ==
  HandsOver(n) /\ proc[n].el.handingLeft = 0 =>
    Newborn(Peer(n)) /\ ~proc[n].ticked

(* The inductive invariant, on top of IInv.                                *)
LockInv ==
  \A n \in Node :
    /\ Calm(n) /\ TakesBait(n) /\ Listens(n) /\ HearsPeer(n) /\ PeerIsGone(n)
    /\ FirstTerm(n) /\ Alone(n) /\ PeerAnswers(n) /\ TimesOut(n)

-----------------------------------------------------------------------------

(* The peer of the peer is the node itself.                                *)
LEMMA PeerOfPeer ==
  ASSUME NEW n \in Node PROVE Peer(Peer(n)) = n
BY PeerIsTheOther

(* An empty inbox holds no heartbeat.                                      *)
LEMMA NoBeats == Beats(<<>>) = {}
BY DEF Beats

(* Sending adds one heartbeat to an inbox.                                 *)
LEMMA BeatsSent ==
  ASSUME NEW s \in Seq(HonestHeartbeat), NEW b \in HonestHeartbeat
  PROVE  /\ Append(s, b) # <<>>
         /\ Beats(Append(s, b)) = Beats(s) \cup {b}
<1>1. /\ Append(s, b) \in Seq(HonestHeartbeat) /\ Append(s, b) # <<>>
      /\ Len(Append(s, b)) = Len(s) + 1 /\ Len(s) \in Nat
      /\ \A i \in 1..Len(s) : Append(s, b)[i] = s[i]
      /\ Append(s, b)[Len(s) + 1] = b
  BY AppendProperties, LenProperties
<1>2. 1..(Len(s) + 1) = 1..Len(s) \cup {Len(s) + 1} BY <1>1
<1> QED BY <1>1, <1>2 DEF Beats

(* Reading takes the oldest heartbeat out of an inbox.                     *)
LEMMA BeatsRead ==
  ASSUME NEW s \in Seq(HonestHeartbeat), s # <<>>
  PROVE  /\ Head(s) \in HonestHeartbeat /\ Tail(s) \in Seq(HonestHeartbeat)
         /\ Beats(s) = {Head(s)} \cup Beats(Tail(s))
<1>1. /\ Head(s) \in HonestHeartbeat /\ Tail(s) \in Seq(HonestHeartbeat)
      /\ Head(s) = s[1] /\ Len(Tail(s)) = Len(s) - 1
      /\ \A i \in 1..Len(Tail(s)) : Tail(s)[i] = s[i + 1]
      /\ Len(s) \in Nat /\ Len(s) > 0
  BY HeadTailProperties, LenProperties, EmptySeq
<1>2. ASSUME NEW b \in Beats(s) PROVE b \in {Head(s)} \cup Beats(Tail(s))
  <2>1. PICK i \in 1..Len(s) : b = s[i] BY DEF Beats
  <2>2. CASE i = 1 BY <1>1, <2>1, <2>2
  <2>3. CASE i # 1
    <3>1. i - 1 \in 1..Len(Tail(s)) BY <1>1, <2>1, <2>3
    <3>2. (i - 1) + 1 = i BY <2>1
    <3>3. Tail(s)[i - 1] = s[i] BY <1>1, <3>1, <3>2
    <3> QED BY <2>1, <3>1, <3>3 DEF Beats
  <2> QED BY <2>2, <2>3
<1>3. ASSUME NEW b \in {Head(s)} \cup Beats(Tail(s)) PROVE b \in Beats(s)
  <2>1. CASE b = Head(s) BY <1>1, <2>1 DEF Beats
  <2>2. CASE b \in Beats(Tail(s))
    <3>1. PICK i \in 1..Len(Tail(s)) : b = Tail(s)[i] BY <2>2 DEF Beats
    <3>2. i + 1 \in 1..Len(s) /\ b = s[i + 1] BY <1>1, <3>1
    <3> QED BY <3>2 DEF Beats
  <2> QED BY <2>1, <2>2
<1> QED BY <1>1, <1>2, <1>3

-----------------------------------------------------------------------------

(* Why election e, seeing v, may claim the Active role: a live peer offers *)
(* it and no handover of its own keeps the node from looking, or nobody is *)
(* heard and the listen delay is over.                                     *)
Justified(n, e, v) ==
  IF Alive(v)
    THEN Bait(n, v.hb) /\ (e.handing = "no" \/ e.handingLeft = 0)
    ELSE e.role = "Init" => e.listenLeft = 0

(* What `tick` has decided when it turned e into f.                        *)
Decided(n, e, v, f) ==
  /\ f.takeoverLeft = 0 /\ f.listenLeft = e.listenLeft /\ f.role # "Fault"
  /\ f.role = "Active" =>
       f.handing = "no" /\ (e.role # "Active" => Justified(n, e, v))
  /\ f.handing # "no" =>
       /\ f.role = "Standby" /\ f.handingLeft > 0
       /\ Alive(v) /\ v.hb.role # "Active"
       /\ e.role # "Active" => e.handing # "no"
  /\ f.role # "Active" /\ f.handing = "no" /\ e.role # "Active" /\ e.handing = "no" =>
       IF Alive(v) THEN ~Bait(n, v.hb)
       ELSE f.role = "Init" /\ e.role = "Init" /\ e.listenLeft > 0

(* set_role leaves handover and listen delay alone, and no takeover starts *)
(* with it.                                                                *)
LEMMA SetRoleFields ==
  ASSUME NEW e \in Election, NEW r \in Role
  PROVE  /\ SetRole(e, r) \in Election /\ SetRole(e, r).role = r
         /\ SetRole(e, r).handing = e.handing
         /\ SetRole(e, r).handingLeft = e.handingLeft
         /\ SetRole(e, r).listenLeft = e.listenLeft
         /\ e.takeoverLeft = 0 => SetRole(e, r).takeoverLeft = 0
BY Members DEF SetRole, Election

(* Dropping a handover leaves the rest of the election alone.              *)
LEMMA DropHandoverFields ==
  ASSUME NEW e \in Election
  PROVE  /\ DropHandover(e) \in Election /\ DropHandover(e).role = e.role
         /\ DropHandover(e).handing = "no"
         /\ DropHandover(e).takeoverLeft = e.takeoverLeft
         /\ DropHandover(e).listenLeft = e.listenLeft
BY Members DEF DropHandover, Election

(* start_handover steps down and starts the clock of the handover.         *)
LEMMA StartHandoverFields ==
  ASSUME NEW e \in Election, NEW k \in {"auto", "manual"}
  PROVE  /\ StartHandover(e, k) \in Election
         /\ StartHandover(e, k).role = "Standby"
         /\ StartHandover(e, k).handing = k
         /\ StartHandover(e, k).handingLeft = HandoverTimeout
         /\ StartHandover(e, k).listenLeft = e.listenLeft
         /\ e.takeoverLeft = 0 => StartHandover(e, k).takeoverLeft = 0
<1> DEFINE f == [e EXCEPT !.handing = k, !.handingLeft = HandoverTimeout]
<1>1. k \in Handing BY DEF Handing
<1>2. /\ f \in Election /\ f.handing = k /\ f.handingLeft = HandoverTimeout
      /\ f.listenLeft = e.listenLeft /\ f.takeoverLeft = e.takeoverLeft
  BY <1>1, Members DEF Election
<1>3. StartHandover(e, k) = SetRole(f, "Standby") BY DEF StartHandover
<1> HIDE DEF f
<1>4. "Standby" \in Role BY Members
<1>5. /\ SetRole(f, "Standby") \in Election
      /\ SetRole(f, "Standby").role = "Standby"
      /\ SetRole(f, "Standby").handing = k
      /\ SetRole(f, "Standby").handingLeft = HandoverTimeout
      /\ SetRole(f, "Standby").listenLeft = e.listenLeft
      /\ e.takeoverLeft = 0 => SetRole(f, "Standby").takeoverLeft = 0
  BY <1>2, <1>4, SetRoleFields
<1> QED BY <1>3, <1>5

(* Taking the role, with or without a hold, leaves the handover alone.     *)
LEMMA TakesRoleFields ==
  ASSUME NEW e \in Election, NEW h \in BOOLEAN, e.takeoverLeft = 0
  PROVE  LET f == [SetRole(e, "Active") EXCEPT !.hold = h]
         IN /\ f.role = "Active" /\ f.handing = e.handing
            /\ f.listenLeft = e.listenLeft /\ f.takeoverLeft = 0
<1> DEFINE g == SetRole(e, "Active")
<1>1. /\ g \in Election /\ g.role = "Active" /\ g.handing = e.handing
      /\ g.listenLeft = e.listenLeft /\ g.takeoverLeft = 0
  BY Members, SetRoleFields
<1> HIDE DEF g
<1>2. /\ [g EXCEPT !.hold = h].role = "Active"
      /\ [g EXCEPT !.hold = h].handing = e.handing
      /\ [g EXCEPT !.hold = h].listenLeft = e.listenLeft
      /\ [g EXCEPT !.hold = h].takeoverLeft = 0
  BY <1>1 DEF Election
<1> QED BY <1>2 DEF g

(* Every rule of `tick` for a healthy gateway decides as Decided says.     *)
LEMMA TickDecided ==
  ASSUME NEW n \in Node, NEW e, ElectionInv(e), NEW v, ViewInv(v),
         CalmBeat(v.hb), e.role # "Fault", e.takeoverLeft = 0
  PROVE  Decided(n, e, v, Tick(n, e, v, TRUE))
<1> DEFINE d == DropHandover(e)
           p == v.hb
           f == Tick(n, e, v, TRUE)
<1> SUFFICES Decided(n, e, v, f) OBVIOUS
<1>0. /\ e \in Election /\ SteppedDown(e.role, e.handing)
      /\ p \in HonestHeartbeat /\ SteppedDown(p.role, p.handing)
      /\ p.role # "Fault" /\ ~p.takeover
      /\ HandoverTimeout > 0 /\ e.listenLeft \in Nat
  BY HaAssumption DEF ElectionInv, ViewInv, HonestHeartbeat, CalmBeat,
     HaAssumption, Election
<1>1. /\ d \in Election /\ d.role = e.role /\ d.handing = "no"
      /\ d.takeoverLeft = 0 /\ d.listenLeft = e.listenLeft
  BY <1>0, DropHandoverFields
<1> HIDE DEF d
<1>2. f = TickHealthy(n, e, v) BY DEF Tick, LeaveFault
<1> HIDE DEF f
<1>3. CASE ~Alive(v)
  <2>1. CASE e.role = "Init" /\ e.listenLeft > 0
    <3>1. f = e BY <1>2, <1>3, <2>1 DEF TickHealthy, d
    <3> QED BY <1>0, <1>3, <2>1, <3>1 DEF Decided, SteppedDown
  <2>2. CASE ~(e.role = "Init" /\ e.listenLeft > 0)
    <3>1. f = SetRole(d, "Active") BY <1>2, <1>3, <2>2 DEF TickHealthy, d
    <3>2. /\ f.role = "Active" /\ f.handing = "no" /\ f.takeoverLeft = 0
          /\ f.listenLeft = e.listenLeft
      BY <1>1, <3>1, SetRoleFields, Members
    <3>3. Justified(n, e, v) BY <1>0, <1>3, <2>2 DEF Justified
    <3> QED BY <3>2, <3>3 DEF Decided
  <2> QED BY <2>1, <2>2
<1>4. CASE Alive(v) /\ e.handing # "no" /\ p.role # "Active" /\ e.handingLeft > 0
  <2>1. f = SetRole(e, "Standby") BY <1>2, <1>4 DEF TickHealthy, d
  <2>2. /\ f.role = "Standby" /\ f.handing = e.handing /\ f.takeoverLeft = 0
        /\ f.handingLeft = e.handingLeft /\ f.listenLeft = e.listenLeft
    BY <1>0, <2>1, SetRoleFields, Members
  <2> QED BY <1>4, <2>2 DEF Decided
<1>5. CASE Alive(v) /\ ~(e.handing # "no" /\ p.role # "Active" /\ e.handingLeft > 0)
  <2>1. f = TickDecide(n, d, p) BY <1>2, <1>5 DEF TickHealthy, d
  <2>2. CASE p.handing # "no"
    <3> DEFINE h == (p.handing = "manual")
    <3>1. f = [SetRole(d, "Active") EXCEPT !.hold = h]
      BY <2>1, <2>2 DEF TickDecide
    <3>2. h \in BOOLEAN OBVIOUS
    <3> HIDE DEF h
    <3>3. /\ f.role = "Active" /\ f.handing = "no" /\ f.listenLeft = e.listenLeft
          /\ f.takeoverLeft = 0
      BY <1>1, <3>1, <3>2, TakesRoleFields
    <3>4. Justified(n, e, v)
      <4>1. e.handingLeft \in Nat BY <1>0 DEF Election
      <4>2. p.role # "Active" BY <1>0, <2>2 DEF SteppedDown
      <4> QED BY <1>5, <2>2, <4>1, <4>2 DEF Justified, Bait
    <3> QED BY <3>3, <3>4 DEF Decided
  <2>3. CASE p.handing = "no" /\ e.role = "Active"
    <3>0. f = TickActive(n, d, p)
      BY <1>0, <1>1, <2>1, <2>3 DEF TickDecide
    <3>1. \/ f = SetRole(d, "Standby") \/ f = d
          \/ f = StartHandover(d, "auto") /\ p.role # "Active"
      BY <1>0, <3>0 DEF TickActive
    <3>2. CASE f = SetRole(d, "Standby")
      <4>1. /\ f.role = "Standby" /\ f.handing = "no" /\ f.takeoverLeft = 0
            /\ f.listenLeft = e.listenLeft
        BY <1>1, <3>2, SetRoleFields, Members
      <4> QED BY <2>3, <4>1 DEF Decided
    <3>3. CASE f = d BY <1>1, <2>3, <3>3 DEF Decided
    <3>4. CASE f = StartHandover(d, "auto") /\ p.role # "Active"
      <4>1. /\ f.role = "Standby" /\ f.handing = "auto" /\ f.takeoverLeft = 0
            /\ f.listenLeft = e.listenLeft /\ f.handingLeft = HandoverTimeout
        BY <1>1, <3>4, StartHandoverFields
      <4> QED BY <1>0, <1>5, <2>3, <3>4, <4>1 DEF Decided
    <3> QED BY <3>1, <3>2, <3>3, <3>4
  <2>4. CASE p.handing = "no" /\ e.role # "Active"
    <3>0. f = TickStandby(n, d, p)
      BY <1>0, <1>1, <2>1, <2>4 DEF TickDecide
    <3>1. CASE p.role # "Active" /\ Preferred(n, Peer(n))
      <4>0. f = [SetRole(d, "Active") EXCEPT !.hold = d.takeoverLeft > 0]
        BY <3>0, <3>1 DEF TickStandby
      <4>1. (d.takeoverLeft > 0) \in BOOLEAN OBVIOUS
      <4>2. /\ f.role = "Active" /\ f.handing = "no" /\ f.takeoverLeft = 0
            /\ f.listenLeft = e.listenLeft
        BY <1>1, <4>0, <4>1, TakesRoleFields
      <4>3. Justified(n, e, v)
        <5>1. e.handingLeft \in Nat BY <1>0 DEF Election
        <5> QED BY <1>5, <3>1, <5>1 DEF Justified, Bait
      <4> QED BY <4>2, <4>3 DEF Decided
    <3>2. CASE ~(p.role # "Active" /\ Preferred(n, Peer(n)))
      <4>0. f = SetRole(d, "Standby") BY <1>1, <3>0, <3>2 DEF TickStandby
      <4>1. /\ f.role = "Standby" /\ f.handing = "no" /\ f.takeoverLeft = 0
            /\ f.listenLeft = e.listenLeft
        BY <1>1, <4>0, SetRoleFields, Members
      <4> QED BY <1>5, <2>4, <3>2, <4>1 DEF Decided, Bait
    <3> QED BY <3>1, <3>2
  <2> QED BY <2>2, <2>3, <2>4
<1> QED BY <1>3, <1>4, <1>5

-----------------------------------------------------------------------------

(* What an event at `select!` reads: nothing (and it may be the ticker),   *)
(* or the oldest heartbeat.                                                *)
Reads(n, v, t, inbox) ==
  \/ v = proc[n].view /\ inbox = net[n] /\ t \in {proc[n].ticked, TRUE}
  \/ /\ net[n] # <<>> /\ v = [hb |-> Head(net[n]), age |-> 0]
     /\ inbox = Tail(net[n]) /\ t = proc[n].ticked

(* The node's iteration sends nothing, ...                                 *)
Quiet(n) == net'[Peer(n)] = net[Peer(n)]

(* ... or it sends b, which arrives if the peer runs.                      *)
Says(n, b) ==
  net'[Peer(n)] = IF Running(Peer(n)) THEN Append(net[Peer(n)], b)
                  ELSE net[Peer(n)]

(* The process ends in this iteration: the last it says is no handover.    *)
Ends(n, r) ==
  /\ r.pc = "down"
  /\ Quiet(n) \/ \E b \in HonestHeartbeat :
                   CalmBeat(b) /\ b.handing = "no" /\ Says(n, b)

(* It goes on in state r, having read v; an iteration of the ticker, and   *)
(* one that ends in `arping`, is never silent.                             *)
Follows(n, r, v, t) ==
  /\ r.view = v /\ r.ticked = t /\ r.el.listenLeft = proc[n].el.listenLeft
  /\ proc[n].wasActive => r.wasActive
  /\ r.pc = "loop" =>
       /\ Quiet(n) \/ Says(n, Beat(r))
       /\ t # proc[n].ticked \/ proc[n].pc = "arp" => Says(n, Beat(r))

(* It takes the Active role, ...                                           *)
Takes(n, r, v) ==
  /\ proc[n].pc = "loop" /\ ~IsActive(n)
  /\ r.pc = "arp" /\ r.el.role = "Active"
  /\ Justified(n, proc[n].el, v)
  /\ Quiet(n)

(* ... or keeps it, ...                                                    *)
Stays(n, r) == IsActive(n) /\ r.pc = "loop" /\ r.el.role = "Active"

(* ... or hands over, which it says when that begins, ...                  *)
Hands(n, r, v) ==
  /\ proc[n].pc = "loop" /\ r.pc = "loop"
  /\ r.el.handing # "no" /\ r.el.handingLeft > 0
  /\ Alive(v) /\ v.hb.role # "Active"
  /\ HandsOver(n) \/ (IsActive(n) /\ Says(n, Beat(r)))

(* ... or goes on waiting.                                                 *)
Waits(n, r, v) ==
  /\ proc[n].pc = "loop" /\ ~IsActive(n) /\ ~HandsOver(n)
  /\ r.pc = "loop" /\ r.el.role # "Active" /\ r.el.handing = "no"
  /\ IF Alive(v) THEN ~Bait(n, v.hb)
     ELSE proc[n].el.role = "Init" /\ r.el.role = "Init" /\ proc[n].el.listenLeft > 0

(* One whole iteration of node n: what it reads (v, t, inbox), where it    *)
(* ends (r), and how.                                                      *)
Turn(n, r, v, t, inbox) ==
  /\ proc[n].pc \in {"loop", "arp"}
  /\ proc' = [proc EXCEPT ![n] = r] /\ CalmProcess(r)
  /\ vip' = [vip EXCEPT ![n] = (r.el.role = "Active")]
  /\ net'[n] = IF r.pc = "down" THEN <<>> ELSE inbox
  /\ gateway' = gateway /\ cut' = cut
  /\ Reads(n, v, t, inbox)
  /\ \/ Ends(n, r)
     \/ /\ Follows(n, r, v, t)
        /\ Takes(n, r, v) \/ Stays(n, r) \/ Hands(n, r, v) \/ Waits(n, r, v)

(* A process that stopped is as in normal operation.                       *)
LEMMA StoppedCalm ==
  ASSUME NEW b \in BOOLEAN
  PROVE  /\ CalmProcess(Stopped(b)) /\ Stopped(b).pc = "down"
         /\ Stopped(b).el.role # "Active"
BY DEF Stopped, CalmProcess, NewElection, NoPeer, NoHeartbeat, CalmBeat

(* The end of an iteration that reached p: the process goes on in q, or it *)
(* has to restart.                                                         *)
Announced(n, p, q, inbox) ==
  /\ q.pc = "loop" /\ q.el = p.el /\ q.view = p.view
  /\ q.ticked = p.ticked
  /\ p.wasActive => q.wasActive
  /\ CalmBeat(Beat(q)) /\ Beat(q) \in HonestHeartbeat
  /\ Beat(q).handing = q.el.handing
  /\ \/ /\ MustRestart(q)
        /\ proc' = [proc EXCEPT ![n] = Stopped(q.el.persist)]
        /\ net'[n] = <<>> /\ vip' = [vip EXCEPT ![n] = FALSE]
     \/ /\ ~MustRestart(q) /\ CalmProcess(q)
        /\ proc' = [proc EXCEPT ![n] = q]
        /\ net'[n] = inbox
        /\ vip' = [vip EXCEPT ![n] = (q.el.role = "Active")]

(* The second half of an iteration (VIP, heartbeat, restart) ends as       *)
(* Announced says.                                                         *)
LEMMA AnnounceEffect ==
  ASSUME IInv, NEW n \in Node, Calm(n), NEW p \in Process,
         ElectionInv(p.el), ViewInv(p.view), CalmBeat(p.view.hb),
         p.el.takeoverLeft = 0, p.el.role # "Fault",
         p.vipFault = 0, p.awaiting = 0,
         p.el.role = "Active" => p.held, p.held <=> vip[n],
         p.el.handing # "no" => p.wasActive,
         NEW sends \in BOOLEAN, NEW inbox \in Seq(HonestHeartbeat),
         Announce(n, p, sends, inbox, TRUE)
  PROVE  \E q \in Process :
           /\ Announced(n, p, q, inbox)
           /\ Says(n, Beat(q)) \/ (~sends /\ Quiet(n))
<1> DEFINE q == [p EXCEPT !.pc = "loop",
                     !.held = @ /\ (p.el.role = "Active" \/ ~TRUE),
                     !.wasActive = @ \/ (p.el.role = "Active" /\ p.held)]
           gone == MustRestart(q)
           drops == p.held /\ TRUE /\ (p.el.role # "Active" \/ gone)
<1>0. /\ proc \in [Node -> Process] /\ vip \in [Node -> BOOLEAN]
      /\ Peer(n) \in Node /\ Peer(n) # n /\ ~cut
  BY PeerIsTheOther DEF IInv, HaPairTypeOK, Calm
<1>1. /\ q \in Process
      /\ q.pc = "loop" /\ q.el = p.el /\ q.view = p.view /\ q.ticked = p.ticked
      /\ q.vipFault = 0 /\ q.awaiting = 0 /\ q.apply = p.apply
      /\ q.wasActive = (p.wasActive \/ (p.el.role = "Active" /\ p.held))
  BY DEF Process
<1>2. /\ Settle(n, q, sends, inbox)
      /\ vip' = [vip EXCEPT ![n] = @ /\ ~drops]
  BY DEF Announce
<1> HIDE DEF q
<1>3. Beat(q) \in HonestHeartbeat BY <1>1, BeatIsHonest
<1>4. CalmBeat(Beat(q)) /\ Beat(q).handing = q.el.handing
  <2>1. (q.el.takeoverLeft > 0) = FALSE BY <1>1
  <2>2. /\ Beat(q).takeover = (q.el.takeoverLeft > 0)
        /\ Beat(q).role = q.el.role /\ Beat(q).handing = q.el.handing
    BY DEF Beat
  <2> QED BY <1>1, <2>1, <2>2 DEF CalmBeat
<1>5. /\ proc' = [proc EXCEPT ![n] = IF gone THEN Stopped(q.el.persist) ELSE q]
      /\ net'[n] = IF gone THEN <<>> ELSE inbox
      /\ net'[Peer(n)] = IF sends /\ proc[Peer(n)].pc # "down"
                           THEN Append(net[Peer(n)], Beat(q)) ELSE net[Peer(n)]
  BY <1>0, <1>2, PeerOfPeer DEF Settle
<1>6. Says(n, Beat(q)) \/ (~sends /\ Quiet(n))
  BY <1>5 DEF Says, Quiet, Running
<1>7. vip' = [vip EXCEPT ![n] = (p.el.role = "Active" /\ ~gone)]
  <2>1. vip' = [vip EXCEPT ![n] = vip[n] /\ ~drops] BY <1>0, <1>2
  <2>2. (vip[n] /\ ~drops) = (p.el.role = "Active" /\ ~gone) BY <1>0
  <2> QED BY <2>1, <2>2
<1>8. CASE gone
  <2>1. vip' = [vip EXCEPT ![n] = FALSE] BY <1>7, <1>8
  <2> QED BY <1>1, <1>3, <1>4, <1>5, <1>6, <1>8, <2>1 DEF Announced
<1>9. CASE ~gone
  <2>1. q.wasActive => q.el.role = "Active" \/ q.el.handing # "no"
    BY <1>9 DEF MustRestart
  <2>2. CalmProcess(q) BY <1>1, <2>1 DEF CalmProcess
  <2>3. vip' = [vip EXCEPT ![n] = (q.el.role = "Active")] BY <1>1, <1>7, <1>9
  <2> QED BY <1>1, <1>3, <1>4, <1>5, <1>6, <1>9, <2>2, <2>3 DEF Announced
<1> QED BY <1>8, <1>9

(* An iteration is a turn, whichever event caused it.                      *)
LEMMA IterateTurn ==
  ASSUME IInv, NormalOperation, NEW n \in Node, Calm(n), proc[n].pc = "loop",
         NEW p \in Process, p.pc = "loop", p.held = proc[n].held,
         p.wasActive = proc[n].wasActive, p.vipFault = 0, p.awaiting = 0,
         ElectionInv(p.el), p.el.takeoverLeft = 0, p.el.role # "Fault",
         p.el.listenLeft = proc[n].el.listenLeft,
         ViewInv(p.view), CalmBeat(p.view.hb),
         NEW fromPeer \in BOOLEAN, NEW inbox \in Seq(HonestHeartbeat), NEW spent,
         Reads(n, p.view, p.ticked, inbox),
         fromPeer => p.ticked = proc[n].ticked,
         \/ /\ p.el.role = proc[n].el.role /\ p.el.handing = proc[n].el.handing
            /\ p.el.handingLeft = proc[n].el.handingLeft
         \/ /\ IsActive(n) /\ p.el.role = "Standby" /\ p.el.handing # "no"
            /\ p.el.handingLeft > 0 /\ Alive(p.view) /\ ~fromPeer,
         Iterate(n, p, fromPeer, inbox, spent), gateway' = gateway, cut' = cut
  PROVE  \E r : Turn(n, r, p.view, p.ticked, inbox)
<1> DEFINE o == proc[n]
           v == p.view
           e == Tick(n, p.el, v, TRUE)
           a == [p EXCEPT !.el = e]
           add == e.role = "Active" /\ ~p.held
           sends == ~fromPeer \/ e.role # p.el.role
<1>0. /\ proc \in [Node -> Process] /\ vip \in [Node -> BOOLEAN]
      /\ o \in Process /\ (o.held <=> vip[n]) /\ (o.held <=> o.el.role = "Active")
      /\ CalmProcess(o) /\ gateway[n] /\ SteppedDown(o.el.role, o.el.handing)
  <2>1. "vip_del" \notin Disturbances BY DEF NormalOperation
  <2>2. (o.held => o.el.role = "Active") /\ (o.el.role = "Active" => o.held)
    BY <2>1 DEF IInv, ProcessInv
  <2> QED BY <2>2, ProcessFacts DEF IInv, HaPairTypeOK, Calm, ElectionInv
<1>1. (gateway[n] /\ p.vipFault = 0) = TRUE BY <1>0
<1>2. Decided(n, p.el, v, e) /\ ElectionInv(e) BY TickDecided, TickInv
<1>3. /\ \/ /\ add
            /\ proc' = [proc EXCEPT ![n] = [a EXCEPT !.pc = "arp", !.awaiting = ArpTime]]
            /\ vip' = [vip EXCEPT ![n] = TRUE]
            /\ net' = [net EXCEPT ![n] = inbox]
         \/ ~add /\ Announce(n, a, ~fromPeer \/ a.el.role # p.el.role, inbox, TRUE)
  <2>1. "vip_add" \notin Disturbances /\ "vip_del" \notin Disturbances
    BY DEF NormalOperation
  <2> QED BY <1>1, <2>1 DEF Iterate, May
<1>4. /\ p.wasActive = o.wasActive /\ p.held = o.held
      /\ p.el.handing # "no" => o.wasActive
      /\ o.wasActive => o.el.role = "Active" \/ o.el.handing # "no"
      /\ o.el.role = "Active" => o.wasActive
  BY <1>0 DEF CalmProcess, IsActive
<1> HIDE DEF e
<1>5. /\ a \in Process /\ a.el = e /\ a.view = v /\ a.pc = "loop"
      /\ a.held = o.held /\ a.wasActive = o.wasActive /\ a.ticked = p.ticked
      /\ a.vipFault = 0 /\ a.awaiting = 0
  BY <1>2, <1>4 DEF Process, ElectionInv
<1>6. /\ e.takeoverLeft = 0 /\ e.role # "Fault" /\ e.listenLeft = o.el.listenLeft
      /\ e.handing # "no" => o.wasActive
  BY <1>2, <1>4 DEF Decided, IsActive
<1>7. CASE add
  <2> DEFINE r == [a EXCEPT !.pc = "arp", !.awaiting = ArpTime]
  <2>1. /\ r.pc = "arp" /\ r.el = e /\ r.view = v /\ r.ticked = p.ticked
        /\ r.vipFault = 0 /\ r.awaiting = 0 /\ r.wasActive = o.wasActive
    BY <1>5 DEF Process, NormalOperation
  <2>2. /\ proc' = [proc EXCEPT ![n] = r]
        /\ vip' = [vip EXCEPT ![n] = (r.el.role = "Active")]
        /\ net' = [net EXCEPT ![n] = inbox]
    BY <1>3, <1>7, <2>1
  <2> HIDE DEF r, a
  <2>3. e.role = "Active" /\ ~IsActive(n) /\ e.handing = "no"
    BY <1>0, <1>2, <1>5, <1>7 DEF IsActive, Decided
  <2>4. CalmProcess(r) BY <1>6, <2>1, <2>3 DEF CalmProcess
  <2>5. Justified(n, o.el, v)
    <3>1. p.el.role = o.el.role /\ p.el.handing = o.el.handing
          /\ p.el.handingLeft = o.el.handingLeft
      BY <2>3 DEF IsActive
    <3>2. Justified(n, p.el, v) BY <1>2, <2>3, <3>1 DEF Decided, IsActive
    <3> QED BY <3>1, <3>2 DEF Justified
  <2>6. net'[n] = inbox /\ Quiet(n)
    BY <2>2, PeerIsTheOther DEF Quiet, IInv
  <2>7. Takes(n, r, v) /\ Follows(n, r, v, p.ticked)
    BY <1>4, <1>6, <2>1, <2>3, <2>5, <2>6 DEF Takes, Follows
  <2>8. Turn(n, r, v, p.ticked, inbox)
    BY <2>1, <2>2, <2>4, <2>6, <2>7 DEF Turn
  <2> QED BY <2>8
<1>8. CASE ~add
  <2> HIDE DEF a
  <2>1. Announce(n, a, sends, inbox, TRUE) /\ sends \in BOOLEAN
    BY <1>3, <1>5, <1>8
  <2>2. a.el.role = "Active" => a.held BY <1>5, <1>8
  <2> HIDE DEF sends, add
  <2>3. PICK q \in Process :
           /\ Announced(n, a, q, inbox)
           /\ Says(n, Beat(q)) \/ (~sends /\ Quiet(n))
    <3>1. /\ a \in Process /\ ElectionInv(a.el) /\ ViewInv(a.view)
          /\ CalmBeat(a.view.hb) /\ a.el.takeoverLeft = 0 /\ a.el.role # "Fault"
          /\ a.vipFault = 0 /\ a.awaiting = 0
          /\ a.el.handing # "no" => a.wasActive
          /\ a.held <=> vip[n]
      BY <1>0, <1>2, <1>5, <1>6
    <3> QED BY <2>1, <2>2, <3>1, AnnounceEffect
  <2>4. CASE MustRestart(q)
    <3> DEFINE r == Stopped(q.el.persist)
    <3>1. q.el.persist \in BOOLEAN BY <2>3 DEF Process, Election, Announced
    <3>2. CalmProcess(r) /\ r.pc = "down" /\ r.el.role # "Active"
      BY <3>1, StoppedCalm
    <3>3. Beat(q).handing = "no" BY <2>3, <2>4 DEF MustRestart, Announced
    <3>4. Ends(n, r) BY <2>3, <3>2, <3>3 DEF Ends, Announced
    <3>5. /\ proc' = [proc EXCEPT ![n] = r]
          /\ vip' = [vip EXCEPT ![n] = (r.el.role = "Active")]
          /\ net'[n] = IF r.pc = "down" THEN <<>> ELSE inbox
      <4>1. (r.el.role = "Active") = FALSE BY <3>2
      <4> QED BY <2>3, <2>4, <3>2, <4>1 DEF Announced
    <3> HIDE DEF r
    <3>6. Turn(n, r, v, p.ticked, inbox) BY <3>2, <3>4, <3>5 DEF Turn
    <3> QED BY <3>6
  <2>5. CASE ~MustRestart(q)
    <3>1. /\ CalmProcess(q) /\ proc' = [proc EXCEPT ![n] = q]
          /\ vip' = [vip EXCEPT ![n] = (q.el.role = "Active")]
          /\ net'[n] = IF q.pc = "down" THEN <<>> ELSE inbox
      BY <2>3, <2>5 DEF Announced
    <3>2. /\ q.el = e /\ q.view = v /\ q.ticked = p.ticked
          /\ o.wasActive => q.wasActive
      BY <1>5, <2>3 DEF Announced
    <3>3. Quiet(n) \/ Says(n, Beat(q)) BY <2>3 DEF Announced
    <3>4. p.ticked # o.ticked => Says(n, Beat(q))
      BY <2>3 DEF sends, Announced
    <3>5. Follows(n, q, v, p.ticked)
      BY <1>6, <3>2, <3>3, <3>4 DEF Follows
    <3>6. Stays(n, q) \/ Hands(n, q, v) \/ Waits(n, q, v)
      <4>1. CASE e.role = "Active"
        <5>1. o.el.role = "Active" BY <1>0, <1>5, <1>8, <4>1 DEF add
        <5> QED BY <2>3, <3>2, <4>1, <5>1 DEF Stays, IsActive, Announced
      <4>2. CASE e.role # "Active" /\ e.handing # "no"
        <5>1. /\ e.handingLeft > 0 /\ e.role = "Standby"
              /\ Alive(v) /\ v.hb.role # "Active"
          BY <1>2, <4>2 DEF Decided
        <5>2. CASE o.el.handing # "no"
          BY <2>3, <3>2, <4>2, <5>1, <5>2 DEF Hands, HandsOver, Announced
        <5>3. CASE o.el.handing = "no"
          <6>1. o.el.role = "Active" /\ sends
            <7>1. CASE p.el.role = "Active"
              BY <5>1, <7>1 DEF sends, IsActive
            <7>2. CASE p.el.role # "Active"
              <8>1. p.el.handing # "no" BY <1>2, <4>2, <7>2 DEF Decided
              <8> QED BY <5>3, <8>1 DEF sends, IsActive
            <7> QED BY <7>1, <7>2
          <6> QED BY <2>3, <3>2, <4>2, <5>1, <6>1 DEF Hands, IsActive, Announced
        <5> QED BY <5>2, <5>3
      <4>3. CASE e.role # "Active" /\ e.handing = "no"
        <5>1. ~o.wasActive
          BY <1>5, <2>3, <2>5, <3>2, <4>3 DEF MustRestart, Announced
        <5>2. o.el.role # "Active" /\ o.el.handing = "no" /\ p.el.handing = "no"
              /\ p.el.role = o.el.role
          BY <1>0, <1>4, <5>1 DEF IsActive, CalmProcess
        <5>3. IF Alive(v) THEN ~Bait(n, v.hb)
              ELSE e.role = "Init" /\ p.el.role = "Init" /\ p.el.listenLeft > 0
          BY <1>2, <4>3, <5>2 DEF Decided
        <5> QED BY <2>3, <3>2, <4>3, <5>2, <5>3 DEF Waits, IsActive, HandsOver, Announced
      <4> QED BY <4>1, <4>2, <4>3
    <3>7. Turn(n, q, v, p.ticked, inbox)
      BY <3>1, <3>2, <3>5, <3>6 DEF Turn
    <3> QED BY <3>7
  <2> QED BY <2>4, <2>5
<1> QED BY <1>7, <1>8

(* Node n takes a turn.                                                    *)
Turns(n) == \E r, v, t, inbox : Turn(n, r, v, t, inbox)

(* What an action reads of a calm node.                                    *)
LEMMA CalmFacts ==
  ASSUME IInv, NormalOperation, NEW n \in Node, Calm(n)
  PROVE  /\ proc[n].el \in Election /\ proc[n].el.role # "Fault"
         /\ proc[n].el.takeoverLeft = 0
         /\ proc[n].vipFault = 0 /\ proc[n].awaiting = 0
         /\ CalmBeat(proc[n].view.hb)
         /\ ~cut /\ gateway[n]
         /\ SteppedDown(proc[n].el.role, proc[n].el.handing)
BY ProcessFacts DEF Calm, CalmProcess, Process, ElectionInv

(* The ticker makes a turn.                                                *)
LEMMA TickerTurns ==
  ASSUME IInv, NormalOperation, NEW n \in Node, Calm(n), TickerFires(n)
  PROVE  Turns(n)
<1> DEFINE p == [proc[n] EXCEPT !.ticked = TRUE]
<1>1. /\ p \in Process /\ p.pc = "loop" /\ p.el = proc[n].el
      /\ p.view = proc[n].view /\ p.held = proc[n].held
      /\ p.wasActive = proc[n].wasActive /\ p.vipFault = proc[n].vipFault
      /\ p.awaiting = proc[n].awaiting /\ p.ticked = TRUE
  BY ProcessFacts DEF TickerFires, Process
<1>2. /\ proc[n].pc = "loop" /\ Iterate(n, p, FALSE, net[n], disturbed)
      /\ gateway' = gateway /\ cut' = cut
  BY DEF TickerFires
<1> HIDE DEF p
<1>3. Reads(n, p.view, p.ticked, net[n]) BY <1>1 DEF Reads
<1>4. \E r : Turn(n, r, p.view, p.ticked, net[n])
  BY <1>1, <1>2, <1>3, ProcessFacts, CalmFacts, IterateTurn
<1> QED BY <1>4 DEF Turns

(* A heartbeat makes a turn.                                               *)
LEMMA HeartbeatTurns ==
  ASSUME IInv, NormalOperation, NEW n \in Node, Calm(n), ReceiveHeartbeat(n)
  PROVE  Turns(n)
<1> DEFINE v == [hb |-> Head(net[n]), age |-> 0]
           p == [proc[n] EXCEPT !.view = v]
<1>1. /\ proc[n].pc = "loop" /\ net[n] # <<>>
      /\ Iterate(n, p, TRUE, Tail(net[n]), disturbed)
      /\ gateway' = gateway /\ cut' = cut
  BY DEF ReceiveHeartbeat
<1>2. /\ Head(net[n]) \in HonestHeartbeat /\ Tail(net[n]) \in Seq(HonestHeartbeat)
      /\ Beats(net[n]) = {Head(net[n])} \cup Beats(Tail(net[n]))
  BY <1>1, ProcessFacts, BeatsRead
<1>3. CalmBeat(Head(net[n])) BY <1>2 DEF Calm, Coming
<1>4. Head(net[n]) \in Heartbeat BY <1>2 DEF HonestHeartbeat
<1>5. v \in View /\ v.hb = Head(net[n]) BY <1>4, Members DEF View
<1>6. ViewInv(v) /\ CalmBeat(v.hb) BY <1>2, <1>3, <1>5 DEF ViewInv
<1>7. /\ p \in Process /\ p.pc = "loop" /\ p.el = proc[n].el
      /\ p.view = v /\ p.held = proc[n].held
      /\ p.wasActive = proc[n].wasActive /\ p.vipFault = proc[n].vipFault
      /\ p.awaiting = proc[n].awaiting /\ p.ticked = proc[n].ticked
  BY <1>1, <1>5, ProcessFacts DEF Process
<1>8. Reads(n, p.view, p.ticked, Tail(net[n])) BY <1>1, <1>7 DEF Reads
<1> HIDE DEF p, v
<1>9. \E r : Turn(n, r, p.view, p.ticked, Tail(net[n]))
  BY <1>1, <1>2, <1>6, <1>7, <1>8, ProcessFacts, CalmFacts, IterateTurn
<1> QED BY <1>9 DEF Turns

(* The second half of an iteration that added the VIP makes a turn.        *)
LEMMA VipIsUpTurns ==
  ASSUME IInv, NormalOperation, NEW n \in Node, Calm(n), VipIsUp(n)
  PROVE  Turns(n)
<1> DEFINE p == [proc[n] EXCEPT !.held = TRUE]
           v == proc[n].view
           t == proc[n].ticked
<1>1. /\ proc[n].pc = "arp" /\ Announce(n, p, TRUE, net[n], TRUE)
      /\ gateway' = gateway /\ cut' = cut
  BY DEF VipIsUp
<1>2. /\ p \in Process /\ p.el = proc[n].el /\ p.view = v /\ p.held = TRUE
      /\ p.wasActive = proc[n].wasActive /\ p.vipFault = proc[n].vipFault
      /\ p.awaiting = proc[n].awaiting /\ p.ticked = t
  BY ProcessFacts DEF Process
<1>3. vip[n] = TRUE /\ proc[n].el.role = "Active" /\ proc[n].el.handing = "no"
  BY <1>1, CalmFacts DEF IInv, VipInv, ProcessInv, SteppedDown
<1> HIDE DEF p
<1>4. PICK q \in Process :
        /\ Announced(n, p, q, net[n])
        /\ Says(n, Beat(q)) \/ (~TRUE /\ Quiet(n))
  BY <1>1, <1>2, <1>3, ProcessFacts, CalmFacts, AnnounceEffect
<1>5. Reads(n, v, t, net[n]) BY DEF Reads
<1>6. CASE MustRestart(q)
  <2> DEFINE r == Stopped(q.el.persist)
  <2>1. q.el.persist \in BOOLEAN BY DEF Process, Election
  <2>2. CalmProcess(r) /\ r.pc = "down" /\ r.el.role # "Active"
    BY <2>1, StoppedCalm
  <2>3. Ends(n, r) BY <1>2, <1>3, <1>4, <2>2 DEF Ends, Announced
  <2>4. /\ proc' = [proc EXCEPT ![n] = r]
        /\ vip' = [vip EXCEPT ![n] = (r.el.role = "Active")]
        /\ net'[n] = IF r.pc = "down" THEN <<>> ELSE net[n]
    <3>1. (r.el.role = "Active") = FALSE BY <2>2
    <3> QED BY <1>4, <1>6, <2>2, <3>1 DEF Announced
  <2> HIDE DEF r
  <2>5. Turn(n, r, v, t, net[n]) BY <1>1, <1>5, <2>2, <2>3, <2>4 DEF Turn
  <2> QED BY <2>5 DEF Turns
<1>7. CASE ~MustRestart(q)
  <2>1. /\ CalmProcess(q) /\ proc' = [proc EXCEPT ![n] = q]
        /\ vip' = [vip EXCEPT ![n] = (q.el.role = "Active")]
        /\ net'[n] = IF q.pc = "down" THEN <<>> ELSE net[n]
        /\ q.el = proc[n].el /\ q.view = v /\ q.ticked = t /\ q.pc = "loop"
        /\ proc[n].wasActive => q.wasActive
    BY <1>2, <1>4, <1>7 DEF Announced
  <2>2. Follows(n, q, v, t) BY <1>4, <2>1 DEF Follows
  <2>3. Stays(n, q) BY <1>3, <2>1 DEF Stays, IsActive
  <2>4. Turn(n, q, v, t, net[n]) BY <1>1, <1>5, <2>1, <2>2, <2>3 DEF Turn
  <2> QED BY <2>4 DEF Turns
<1> QED BY <1>6, <1>7

(* A process that re-executes or ends takes its last turn.                 *)
LEMMA RestartTurns ==
  ASSUME IInv, NormalOperation, NEW n \in Node, Calm(n), proc[n].pc = "loop",
         RestartNow(n), gateway' = gateway, cut' = cut
  PROVE  Turns(n)
<1> DEFINE r == Stopped(proc[n].el.persist)
<1>0. /\ proc \in [Node -> Process] /\ vip \in [Node -> BOOLEAN]
      /\ proc[n].el.persist \in BOOLEAN /\ (proc[n].held <=> vip[n])
      /\ Peer(n) \in Node /\ Peer(n) # n
  BY ProcessFacts, CalmFacts, PeerIsTheOther DEF IInv, HaPairTypeOK, Election
<1>1. CalmProcess(r) /\ r.pc = "down" /\ r.el.role # "Active"
  BY <1>0, StoppedCalm
<1>2. proc' = [proc EXCEPT ![n] = r] /\ net' = [net EXCEPT ![n] = <<>>]
  BY <1>0 DEF RestartNow
<1>3. vip' = [vip EXCEPT ![n] = (r.el.role = "Active")]
  <2>1. vip' = [vip EXCEPT ![n] = vip[n] /\ ~proc[n].held]
    BY <1>0 DEF RestartNow
  <2>2. (vip[n] /\ ~proc[n].held) = FALSE BY <1>0
  <2>3. (r.el.role = "Active") = FALSE BY <1>1
  <2> QED BY <2>1, <2>2, <2>3
<1> HIDE DEF r
<1>4. net'[n] = <<>> /\ Quiet(n) BY <1>0, <1>2 DEF Quiet, IInv
<1>5. Ends(n, r) BY <1>1, <1>4 DEF Ends
<1>6. Reads(n, proc[n].view, proc[n].ticked, net[n]) BY DEF Reads
<1>7. Turn(n, r, proc[n].view, proc[n].ticked, net[n])
  BY <1>1, <1>2, <1>3, <1>4, <1>5, <1>6 DEF Turn
<1> QED BY <1>7 DEF Turns

(* A command makes a turn if what it changes of the election is nothing    *)
(* that `tick` looks at, or a handover begun by the Active node.           *)
LEMMA CommandTurns ==
  ASSUME IInv, NormalOperation, NEW n \in Node, Calm(n), NEW kind,
         NEW p \in Process, ElectionInv(p.el),
         p.pc = proc[n].pc, p.view = proc[n].view, p.held = proc[n].held,
         p.wasActive = proc[n].wasActive, p.vipFault = proc[n].vipFault,
         p.awaiting = proc[n].awaiting, p.ticked = proc[n].ticked,
         p.el.takeoverLeft = 0, p.el.role # "Fault",
         p.el.listenLeft = proc[n].el.listenLeft,
         \/ /\ p.el.role = proc[n].el.role /\ p.el.handing = proc[n].el.handing
            /\ p.el.handingLeft = proc[n].el.handingLeft
         \/ /\ IsActive(n) /\ p.el.role = "Standby" /\ p.el.handing # "no"
            /\ p.el.handingLeft > 0 /\ Alive(p.view),
         Command(n, kind, p), gateway' = gateway, cut' = cut
  PROVE  Turns(n)
<1>1. /\ proc[n].pc = "loop"
      /\ Iterate(n, p, FALSE, net[n], disturbed + 1)
  BY DEF Command
<1>2. Reads(n, p.view, p.ticked, net[n]) BY DEF Reads
<1>3. ViewInv(p.view) /\ CalmBeat(p.view.hb) /\ p.vipFault = 0 /\ p.awaiting = 0
  BY ProcessFacts, CalmFacts
<1>4. \E r : Turn(n, r, p.view, p.ticked, net[n])
  BY <1>1, <1>2, <1>3, ProcessFacts, IterateTurn
<1> QED BY <1>4 DEF Turns

(* A command that begins a handover makes a turn.                          *)
LEMMA HandoverTurns ==
  ASSUME IInv, NormalOperation, NEW n \in Node, Calm(n), NEW kind,
         NEW k \in {"auto", "manual"}, NEW b \in BOOLEAN,
         CanHandOver(proc[n].el, proc[n].view),
         Command(n, kind, [proc[n] EXCEPT !.el = StartHandover(proc[n].el, k),
                                          !.apply = b]),
         gateway' = gateway, cut' = cut
  PROVE  Turns(n)
<1> DEFINE e == StartHandover(proc[n].el, k)
           p == [proc[n] EXCEPT !.el = e, !.apply = b]
<1>1. /\ e \in Election /\ e.role = "Standby" /\ e.handing = k
      /\ e.handingLeft = HandoverTimeout /\ e.listenLeft = proc[n].el.listenLeft
      /\ e.takeoverLeft = 0 /\ ElectionInv(e)
  BY CalmFacts, StartHandoverFields, StartHandoverInv
<1> HIDE DEF e
<1>2. /\ p \in Process /\ p.el = e /\ p.pc = proc[n].pc
      /\ p.view = proc[n].view /\ p.held = proc[n].held
      /\ p.wasActive = proc[n].wasActive /\ p.vipFault = proc[n].vipFault
      /\ p.awaiting = proc[n].awaiting /\ p.ticked = proc[n].ticked
  BY <1>1, ProcessFacts DEF Process
<1>3. Command(n, kind, p) BY DEF e
<1> HIDE DEF p
<1>4. HandoverTimeout > 0 BY HaAssumption DEF HaAssumption
<1>5. IsActive(n) /\ Alive(proc[n].view) BY DEF CanHandOver, IsActive
<1>6. k # "no" OBVIOUS
<1> QED BY <1>1, <1>2, <1>3, <1>4, <1>5, <1>6, CommandTurns

(* A command that is refused makes a turn.                                 *)
LEMMA UnpreparedTurns ==
  ASSUME IInv, NormalOperation, NEW n \in Node, Calm(n), NEW kind,
         Command(n, kind, proc[n]), gateway' = gateway, cut' = cut
  PROVE  Turns(n)
BY ProcessFacts, CalmFacts, CommandTurns

(* "Make Standby" makes a turn.                                            *)
LEMMA MakeStandbyTurns ==
  ASSUME IInv, NormalOperation, NEW n \in Node, Calm(n), MakeStandby(n)
  PROVE  Turns(n)
<1>1. gateway' = gateway /\ cut' = cut BY DEF MakeStandby, Command
<1>2. CASE CanHandOver(proc[n].el, proc[n].view)
  <2> DEFINE b == proc[n].apply
  <2>1. b \in BOOLEAN BY ProcessFacts DEF Process
  <2>2. [proc[n] EXCEPT !.el = StartHandover(proc[n].el, "manual")]
          = [proc[n] EXCEPT !.el = StartHandover(proc[n].el, "manual"), !.apply = b]
    BY ProcessFacts DEF Process
  <2>3. Command(n, "standby", [proc[n] EXCEPT !.el = StartHandover(proc[n].el, "manual")])
    BY <1>2, ProcessFacts DEF MakeStandby, Process
  <2>4. Command(n, "standby",
          [proc[n] EXCEPT !.el = StartHandover(proc[n].el, "manual"), !.apply = b])
    BY <2>2, <2>3
  <2> HIDE DEF b
  <2> QED BY <1>1, <1>2, <2>1, <2>4, HandoverTurns
<1>3. CASE ~CanHandOver(proc[n].el, proc[n].view)
  <2>1. [proc[n] EXCEPT !.el = proc[n].el] = proc[n] BY ProcessFacts DEF Process
  <2>2. Command(n, "standby", [proc[n] EXCEPT !.el = proc[n].el])
    BY <1>3, ProcessFacts DEF MakeStandby, Process
  <2>3. Command(n, "standby", proc[n]) BY <2>1, <2>2
  <2> QED BY <1>1, <2>3, UnpreparedTurns
<1> QED BY <1>2, <1>3

(* Setting persist makes a turn.                                           *)
LEMMA SetPersistTurns ==
  ASSUME IInv, NormalOperation, NEW n \in Node, Calm(n), NEW b \in BOOLEAN,
         SetPersist(n, b)
  PROVE  Turns(n)
<1> DEFINE e == [proc[n].el EXCEPT !.persist = b, !.hold = FALSE]
           p == [proc[n] EXCEPT !.el.persist = b, !.el.hold = FALSE]
<1>1. /\ e \in Election /\ e.role = proc[n].el.role
      /\ e.handing = proc[n].el.handing /\ e.handingLeft = proc[n].el.handingLeft
      /\ e.listenLeft = proc[n].el.listenLeft /\ e.takeoverLeft = 0
  BY CalmFacts DEF Election
<1>2. ElectionInv(e) /\ e.role # "Fault" BY <1>1, CalmFacts DEF ElectionInv
<1>3. p = [proc[n] EXCEPT !.el = e] BY ProcessFacts DEF Process, Election
<1>4. Command(n, "persist", p) /\ gateway' = gateway /\ cut' = cut
  BY DEF SetPersist, Command
<1> HIDE DEF e, p
<1>5. /\ p \in Process /\ p.el = e /\ p.pc = proc[n].pc
      /\ p.view = proc[n].view /\ p.held = proc[n].held
      /\ p.wasActive = proc[n].wasActive /\ p.vipFault = proc[n].vipFault
      /\ p.awaiting = proc[n].awaiting /\ p.ticked = proc[n].ticked
  BY <1>1, <1>3, ProcessFacts DEF Process
<1> QED BY <1>1, <1>2, <1>4, <1>5, CommandTurns

(* "Apply", forced or not, makes a turn.                                   *)
LEMMA ApplyConfigTurns ==
  ASSUME IInv, NormalOperation, NEW n \in Node, Calm(n), NEW force \in BOOLEAN,
         ApplyConfig(n, force)
  PROVE  Turns(n)
<1>1. CASE CanHandOver(proc[n].el, proc[n].view)
           /\ Command(n, "apply", [proc[n] EXCEPT !.el = StartHandover(@, "auto"),
                                                  !.apply = TRUE])
  <2>1. Command(n, "apply", [proc[n] EXCEPT !.el = StartHandover(proc[n].el, "auto"),
                                            !.apply = TRUE])
    BY <1>1, ProcessFacts DEF Process
  <2>2. gateway' = gateway /\ cut' = cut BY <1>1 DEF Command
  <2> QED BY <1>1, <2>1, <2>2, HandoverTurns
<1>2. CASE Command(n, "apply", proc[n])
  <2>1. gateway' = gateway /\ cut' = cut BY <1>2 DEF Command
  <2> QED BY <1>2, <2>1, UnpreparedTurns
<1>3. CASE proc[n].pc = "loop" /\ RestartNow(n) /\ UNCHANGED <<gateway, cut>>
  BY <1>3, RestartTurns
<1> QED BY <1>1, <1>2, <1>3 DEF ApplyConfig

(* So does every event of normal operation.                                *)
LEMMA EventTurns ==
  ASSUME IInv, NormalOperation, NEW n \in Node, Calm(n),
         \/ TickerFires(n) \/ ReceiveHeartbeat(n) \/ VipIsUp(n)
         \/ MakeStandby(n) \/ Terminate(n)
         \/ \E b \in BOOLEAN : SetPersist(n, b)
         \/ \E force \in BOOLEAN : ApplyConfig(n, force)
  PROVE  Turns(n)
<1>1. CASE Terminate(n) BY <1>1, RestartTurns DEF Terminate
<1> QED BY <1>1, TickerTurns, HeartbeatTurns, VipIsUpTurns, MakeStandbyTurns,
           SetPersistTurns, ApplyConfigTurns

-----------------------------------------------------------------------------

(* What a turn of n means for both nodes, as far as the invariant looks:   *)
(* the lemmas below use nothing else of it.                                *)
After(n, r, v, t, inbox) ==
  LET m == Peer(n)
      o == proc[n]
  IN /\ m \in Node /\ m # n /\ Peer(m) = n
     /\ o.pc \in {"loop", "arp"}
     /\ o.el \in Election /\ SteppedDown(o.el.role, o.el.handing)
     /\ proc[m].el \in Election /\ SteppedDown(proc[m].el.role, proc[m].el.handing)
     /\ proc[m].pc = "down" => proc[m].el.role = "Init" /\ net[m] = <<>>
     /\ proc'[n] = r /\ CalmProcess(r)
     /\ r.el \in Election /\ SteppedDown(r.el.role, r.el.handing)
     /\ r.pc \in {"down", "boot"} => r.el.role = "Init"
     /\ proc'[m] = proc[m] /\ vip'[m] = vip[m]
     /\ vip'[n] <=> r.el.role = "Active"
     /\ gateway' = gateway /\ cut' = cut
     /\ net'[n] = IF r.pc = "down" THEN <<>> ELSE inbox
     /\ Beats(inbox) \subseteq Coming(n)
     /\ Beats(net'[n]) \subseteq Coming(n)
     /\ \/ v = o.view /\ inbox = net[n] /\ t \in {o.ticked, TRUE}
        \/ /\ net[n] # <<>> /\ Alive(v) /\ v.age = 0 /\ t = o.ticked
           /\ Coming(n) = {v.hb} \cup Beats(inbox)
     /\ net'[m] = net[m] \/ (Running(m) /\ net'[m] # <<>>)
     /\ Coming(m) \subseteq Beats(net'[m])
     /\ \A b \in Beats(net'[m]) :
          \/ b \in Coming(m)
          \/ /\ CalmBeat(b) /\ Running(m)
             /\ IF r.pc = "loop" THEN b.role = r.el.role /\ b.handing = r.el.handing
                ELSE r.pc = "down" /\ b.handing = "no"
     /\ r.pc = "loop" /\ Says(n, Beat(r)) /\ Running(m) =>
          /\ net'[m] # <<>>
          /\ \E b \in Beats(net'[m]) :
               b.role = r.el.role /\ b.handing = r.el.handing
     /\ \/ r.pc = "down"
        \/ /\ Follows(n, r, v, t)
           /\ Takes(n, r, v) \/ Stays(n, r) \/ Hands(n, r, v) \/ Waits(n, r, v)

(* What is said reaches the inbox of a peer that runs.                     *)
LEMMA SaysBeats ==
  ASSUME IInv, NEW n \in Node, NEW b \in HonestHeartbeat, Says(n, b)
  PROVE  IF Running(Peer(n))
           THEN /\ net'[Peer(n)] # <<>>
                /\ Beats(net'[Peer(n)]) = Coming(Peer(n)) \cup {b}
           ELSE net'[Peer(n)] = net[Peer(n)]
<1>1. Peer(n) \in Node /\ net[Peer(n)] \in Seq(HonestHeartbeat)
  BY PeerIsTheOther, ProcessFacts
<1> QED BY <1>1, BeatsSent DEF Says, Coming

(* A turn means that.                                                      *)
LEMMA TurnAfter ==
  ASSUME IInv, IInv', LockInv, NEW n \in Node, NEW r, NEW v, NEW t, NEW inbox,
         Turn(n, r, v, t, inbox)
  PROVE  After(n, r, v, t, inbox)
<1> DEFINE m == Peer(n)
           o == proc[n]
<1>1. m \in Node /\ m # n /\ Peer(m) = n BY PeerIsTheOther
<1>2. /\ o.pc \in {"loop", "arp"}
      /\ o.el \in Election /\ SteppedDown(o.el.role, o.el.handing)
      /\ proc[m].el \in Election /\ SteppedDown(proc[m].el.role, proc[m].el.handing)
      /\ proc[m].pc = "down" => proc[m].el.role = "Init" /\ net[m] = <<>>
  <2>1. ~Running(m) => net[m] = <<>> BY <1>1 DEF LockInv, Calm
  <2>2. proc[m].pc = "down" => proc[m].el.role = "Init"
    BY <1>1 DEF IInv, ProcessInv
  <2> QED BY <1>1, <2>1, <2>2, ProcessFacts DEF Turn, ElectionInv, Running
<1>3. /\ proc'[n] = r /\ CalmProcess(r) /\ proc'[m] = proc[m] /\ vip'[m] = vip[m]
      /\ vip'[n] <=> r.el.role = "Active"
      /\ gateway' = gateway /\ cut' = cut
      /\ net'[n] = IF r.pc = "down" THEN <<>> ELSE inbox
  BY <1>1 DEF Turn, IInv, HaPairTypeOK
<1>4. /\ r \in Process /\ ElectionInv(r.el)
      /\ r.pc \in {"down", "boot"} => r.el.role = "Init"
  <2>1. ProcessInv(proc'[n]) BY DEF IInv
  <2> QED BY <1>3, <2>1 DEF ProcessInv
<1>5. r.el \in Election /\ SteppedDown(r.el.role, r.el.handing)
  BY <1>4 DEF ElectionInv
<1>6. /\ Beats(inbox) \subseteq Coming(n)
      /\ \/ v = o.view /\ inbox = net[n] /\ t \in {o.ticked, TRUE}
         \/ /\ net[n] # <<>> /\ Alive(v) /\ v.age = 0 /\ t = o.ticked
            /\ Coming(n) = {v.hb} \cup Beats(inbox)
  <2>1. CASE v = o.view /\ inbox = net[n] /\ t \in {o.ticked, TRUE}
    BY <2>1 DEF Coming
  <2>2. CASE /\ net[n] # <<>> /\ v = [hb |-> Head(net[n]), age |-> 0]
             /\ inbox = Tail(net[n]) /\ t = o.ticked
    <3>1. Coming(n) = {v.hb} \cup Beats(inbox)
      BY <2>2, ProcessFacts, BeatsRead DEF Coming
    <3>2. v.age = 0 /\ Alive(v) BY <2>2, Constants DEF Alive
    <3> QED BY <2>2, <3>1, <3>2
  <2> QED BY <2>1, <2>2 DEF Turn, Reads
<1>7. Beats(net'[n]) \subseteq Coming(n) BY <1>3, <1>6, NoBeats
<1>8. \/ r.pc = "down"
      \/ /\ Follows(n, r, v, t)
         /\ Takes(n, r, v) \/ Stays(n, r) \/ Hands(n, r, v) \/ Waits(n, r, v)
  BY DEF Turn, Ends
<1>9. /\ net'[m] = net[m] \/ (Running(m) /\ net'[m] # <<>>)
      /\ Coming(m) \subseteq Beats(net'[m])
      /\ \A b \in Beats(net'[m]) :
           \/ b \in Coming(m)
           \/ /\ CalmBeat(b) /\ Running(m)
              /\ IF r.pc = "loop" THEN b.role = r.el.role /\ b.handing = r.el.handing
                 ELSE r.pc = "down" /\ b.handing = "no"
  <2>1. CASE Quiet(n) BY <2>1 DEF Quiet, Coming
  <2>2. CASE r.pc = "loop" /\ Says(n, Beat(r))
    <3>1. Beat(r) \in HonestHeartbeat BY <1>4, BeatIsHonest
    <3>2. Beat(r).role = r.el.role /\ Beat(r).handing = r.el.handing BY DEF Beat
    <3>3. CalmBeat(Beat(r))
      <4>1. r.el.takeoverLeft = 0 /\ r.el.role # "Fault" BY <1>3 DEF CalmProcess
      <4>2. (r.el.takeoverLeft > 0) = FALSE BY <4>1
      <4>3. Beat(r).takeover = (r.el.takeoverLeft > 0) BY DEF Beat
      <4> QED BY <3>2, <4>1, <4>2, <4>3 DEF CalmBeat
    <3> QED BY <2>2, <3>1, <3>2, <3>3, SaysBeats DEF Coming
  <2>3. \/ Quiet(n)
        \/ r.pc = "loop" /\ Says(n, Beat(r))
        \/ r.pc = "down" /\ \E b \in HonestHeartbeat :
             CalmBeat(b) /\ b.handing = "no" /\ Says(n, b)
    BY DEF Turn, Ends, Follows, Takes, Stays, Hands, Waits
  <2>4. CASE r.pc = "down" /\ \E b \in HonestHeartbeat :
               CalmBeat(b) /\ b.handing = "no" /\ Says(n, b)
    <3>1. PICK b \in HonestHeartbeat :
            CalmBeat(b) /\ b.handing = "no" /\ Says(n, b)
      BY <2>4
    <3> QED BY <2>4, <3>1, SaysBeats DEF Coming
  <2> QED BY <2>1, <2>2, <2>3, <2>4
<1>10. r.pc = "loop" /\ Says(n, Beat(r)) /\ Running(m) =>
          /\ net'[m] # <<>>
          /\ \E b \in Beats(net'[m]) :
               b.role = r.el.role /\ b.handing = r.el.handing
  <2>1. Beat(r) \in HonestHeartbeat BY <1>4, BeatIsHonest
  <2>2. Beat(r).role = r.el.role /\ Beat(r).handing = r.el.handing BY DEF Beat
  <2> QED BY <2>1, <2>2, SaysBeats
<1> QED BY <1>1, <1>2, <1>3, <1>5, <1>4, <1>6, <1>7, <1>8, <1>9, <1>10 DEF After

(* A turn keeps both nodes in normal operation.                            *)
LEMMA CalmAfter ==
  ASSUME LockInv, NEW n \in Node, NEW r, NEW v, NEW t, NEW inbox,
         After(n, r, v, t, inbox)
  PROVE  Calm(n)' /\ Calm(Peer(n))'
<1> DEFINE m == Peer(n)
<1>1. Calm(n) /\ Calm(m) BY DEF LockInv, After
<1>2. Calm(n)'
  <2>1. \A b \in Coming(n)' : CalmBeat(b) BY <1>1 DEF Calm, Coming, After
  <2>2. gateway'[n] /\ ~cut' BY <1>1 DEF Calm, After
  <2>3. ~Running(n)' => net'[n] = <<>> BY DEF Running, After
  <2>4. CalmProcess(proc'[n]) /\ (vip'[n] <=> proc'[n].el.role = "Active")
    BY DEF After
  <2> QED BY <2>1, <2>2, <2>3, <2>4 DEF Calm
<1>3. Calm(m)'
  <2>1. \A b \in Coming(m)' : CalmBeat(b) BY <1>1 DEF Calm, Coming, After
  <2>2. gateway'[m] /\ ~cut' BY <1>1 DEF Calm, After
  <2>3. ~Running(m)' => net'[m] = <<>> BY <1>1 DEF Running, After, Calm
  <2>4. CalmProcess(proc'[m]) /\ (vip'[m] <=> proc'[m].el.role = "Active")
    BY <1>1 DEF After, Calm
  <2> QED BY <2>1, <2>2, <2>3, <2>4 DEF Calm
<1> QED BY <1>2, <1>3

(* After a turn, what the node has read it has acted on.                   *)
LEMMA TakesBaitAfter ==
  ASSUME LockInv, NEW n \in Node, NEW r, NEW v, NEW t, NEW inbox,
         After(n, r, v, t, inbox)
  PROVE  TakesBait(n)' /\ TakesBait(Peer(n))'
<1> DEFINE m == Peer(n)
<1>1. TakesBait(m) BY DEF LockInv, After
<1>2. TakesBait(m)'
  BY <1>1 DEF TakesBait, After, Running, IsActive, Hears, HandsOver
<1>3. TakesBait(n)'
  BY DEF TakesBait, After, Running, IsActive, Hears, HandsOver, Follows,
         Takes, Stays, Hands, Waits
<1> QED BY <1>2, <1>3

(* A turn lets nobody forget a peer before the listen delay is over.       *)
LEMMA ListensAfter ==
  ASSUME LockInv, NEW n \in Node, NEW r, NEW v, NEW t, NEW inbox,
         After(n, r, v, t, inbox)
  PROVE  Listens(n)' /\ Listens(Peer(n))'
<1> DEFINE m == Peer(n)
<1>1. Listens(n) /\ Listens(m) BY DEF LockInv, After
<1>2. Listens(m)' BY <1>1 DEF Listens, After, Hears
<1>3. Listens(n)'
  <2>1. CASE r.pc = "down"
    <3>1. r.view = NoPeer /\ r.el.role = "Init" /\ proc'[n] = r
      BY <2>1 DEF After, CalmProcess
    <3>2. ~Alive(r.view) BY <3>1, Constants DEF Alive, NoPeer
    <3> QED BY <3>1, <3>2 DEF Listens, Hears
  <2>2. CASE r.pc # "down"
    <3>1. /\ proc'[n] = r /\ r.view = v /\ r.el.listenLeft = proc[n].el.listenLeft
          /\ r.el.listenLeft \in 0..DeadAfter
      BY <2>2 DEF After, Follows, Election
    <3>2. CASE v = proc[n].view
      <4>1. Alive(v) => r.el.listenLeft + v.age <= DeadAfter
        BY <1>1, <3>1, <3>2 DEF Listens, Hears
      <4>2. ~Alive(v) /\ proc[n].el.role # "Init" => r.el.listenLeft = 0
        BY <1>1, <3>1, <3>2 DEF Listens, Hears
      <4>3. ~Alive(v) /\ proc[n].el.role = "Init" /\ r.el.role # "Init"
              => r.el.listenLeft = 0
        BY <2>2, <3>1 DEF After, Takes, Stays, Hands, Waits, IsActive,
           HandsOver, Justified, SteppedDown
      <4> QED BY <3>1, <4>1, <4>2, <4>3 DEF Listens, Hears
    <3>3. CASE v # proc[n].view
      <4>1. Alive(v) /\ v.age = 0 BY <3>3 DEF After
      <4> QED BY <3>1, <4>1, Constants DEF Listens, Hears
    <3> QED BY <3>2, <3>3
  <2> QED BY <2>1, <2>2
<1> QED BY <1>2, <1>3

(* A node whose ticker fired has sent its heartbeat.                       *)
LEMMA HearsPeerAfter ==
  ASSUME LockInv, NEW n \in Node, NEW r, NEW v, NEW t, NEW inbox,
         After(n, r, v, t, inbox)
  PROVE  HearsPeer(n)' /\ HearsPeer(Peer(n))'
<1> DEFINE m == Peer(n)
<1>1. HearsPeer(n) /\ HearsPeer(m) BY DEF LockInv, After
<1>2. HearsPeer(n)'
  <2> SUFFICES ASSUME Running(n)', ~New(n)', proc[m].ticked, proc[m].pc # "arp"
               PROVE  proc'[n].view.age = 0 \/ net'[n] # <<>>
    BY DEF HearsPeer, After
  <2>1. /\ proc'[n] = r /\ r.view = v /\ r.pc # "down" /\ net'[n] = inbox
        /\ ~New(n) /\ Running(n)
    BY DEF After, Follows, Running, New
  <2>2. proc[n].view.age = 0 \/ net[n] # <<>> BY <1>1, <2>1 DEF HearsPeer
  <2> QED BY <2>1, <2>2 DEF After
<1>3. HearsPeer(m)'
  <2> SUFFICES ASSUME Running(m), ~New(m), r.ticked, r.pc # "arp"
               PROVE  proc[m].view.age = 0 \/ net'[m] # <<>>
    BY DEF HearsPeer, After, Running, New
  <2>1. r.pc = "loop" /\ r.ticked = t /\ Follows(n, r, v, t)
    BY DEF After, CalmProcess, Follows, Takes, Stays, Hands, Waits
  <2>2. CASE Says(n, Beat(r)) BY <2>1, <2>2 DEF After
  <2>3. CASE t = proc[n].ticked /\ proc[n].pc # "arp"
    <3>1. proc[m].view.age = 0 \/ net[m] # <<>>
      BY <1>1, <2>1, <2>3 DEF HearsPeer, After
    <3> QED BY <3>1 DEF After
  <2> QED BY <2>1, <2>2, <2>3 DEF Follows
<1> QED BY <1>2, <1>3

(* A node that finds its peer dead does not wait on.                       *)
LEMMA PeerIsGoneAfter ==
  ASSUME LockInv, NEW n \in Node, NEW r, NEW v, NEW t, NEW inbox,
         After(n, r, v, t, inbox)
  PROVE  PeerIsGone(n)' /\ PeerIsGone(Peer(n))'
<1> DEFINE m == Peer(n)
<1>1. PeerIsGone(n) /\ PeerIsGone(m) BY DEF LockInv, After
<1>2. PeerIsGone(n)'
  <2> SUFFICES ASSUME r.pc = "loop", r.el.role # "Active", ~Alive(r.view),
                      r.el.listenLeft = 0
               PROVE  FALSE
    BY DEF PeerIsGone, After, IsActive, Hears
  <2>1. Follows(n, r, v, t) /\ (Hands(n, r, v) \/ Waits(n, r, v))
    BY DEF After, Takes, Stays
  <2> QED BY <2>1 DEF Follows, Hands, Waits
<1>3. PeerIsGone(m)'
  <2> SUFFICES ASSUME proc[m].pc = "loop", ~IsActive(m), ~Hears(m),
                      proc[m].el.listenLeft = 0
               PROVE  /\ ~proc[m].ticked
                      /\ r.pc # "down" =>
                           /\ r.el.listenLeft = DeadAfter /\ ~Alive(r.view)
                           /\ net'[n] = <<>>
    BY DEF PeerIsGone, After, IsActive, Hears, New, Running
  <2>1. ~proc[m].ticked /\ New(n) /\ ~Hears(n) /\ net[n] = <<>>
    BY <1>1 DEF PeerIsGone, After, Running
  <2> QED BY <2>1 DEF After, Follows, New, Hears
<1> QED BY <1>2, <1>3

(* A process without services says nothing of a handover.                  *)
LEMMA FirstTermAfter ==
  ASSUME LockInv, NEW n \in Node, NEW r, NEW v, NEW t, NEW inbox,
         After(n, r, v, t, inbox)
  PROVE  FirstTerm(n)' /\ FirstTerm(Peer(n))'
<1> DEFINE m == Peer(n)
<1>1. FirstTerm(n) /\ FirstTerm(m) BY DEF LockInv, After
<1>2. FirstTerm(n)'
  <2> SUFFICES ASSUME r.pc # "down", ~r.wasActive, NEW b \in Beats(net'[m])
               PROVE  b.handing = "no"
    BY DEF FirstTerm, After, Running, Coming
  <2>1. Running(n) /\ ~proc[n].wasActive BY DEF After, Follows, Running
  <2>2. \A c \in Coming(m) : c.handing = "no" BY <1>1, <2>1 DEF FirstTerm
  <2>3. r.el.handing = "no" BY DEF After, CalmProcess
  <2> QED BY <2>2, <2>3 DEF After
<1>3. FirstTerm(m)'
  BY <1>1 DEF FirstTerm, After, Running, Coming
<1> QED BY <1>2, <1>3

(* At most one of two nodes is preferred: weights may be equal, names      *)
(* differ.                                                                 *)
LEMMA PreferredIsStrict ==
  ASSUME NEW a \in Node, NEW b \in Node
  PROVE  ~(Preferred(a, b) /\ Preferred(b, a))
BY HaAssumption DEF HaAssumption, Preferred

(* A node takes the role only while its peer is not Active and not about   *)
(* to be: on a heartbeat by Alone, after a handover that timed out by      *)
(* TimesOut, without a peer by PeerIsGone.                                 *)
LEMMA TakesOnlyAlone ==
  ASSUME LockInv, NEW n \in Node, NEW r, NEW v, NEW t, NEW inbox,
         After(n, r, v, t, inbox), r.pc = "arp"
  PROVE  ~IsActive(Peer(n)) /\ ~Ready(Peer(n))
<1> DEFINE m == Peer(n)
           o == proc[n]
<1>1. /\ o.pc = "loop" /\ ~IsActive(n) /\ Justified(n, o.el, v)
      /\ m \in Node /\ Peer(m) = n /\ o.el.handingLeft \in Nat
  BY DEF After, Takes, Stays, Hands, Waits, Election
<1>2. Running(n) BY <1>1 DEF Running
<1>3. CASE Alive(v) /\ o.el.handing = "no"
  <2>1. Bait(n, v.hb) BY <1>1, <1>3 DEF Justified
  <2>2. v # o.view
    BY <1>1, <1>2, <1>3, <2>1 DEF LockInv, TakesBait, Hears, HandsOver
  <2>3. v.hb \in Coming(n) BY <2>2 DEF After
  <2>4. Ready(n) BY <1>1, <1>2, <1>3, <2>1, <2>3 DEF Ready, HandsOver
  <2> QED BY <1>1, <2>4 DEF LockInv, Alone
<1>4. CASE Alive(v) /\ o.el.handing # "no"
  <2>1. o.el.handingLeft = 0 BY <1>1, <1>4 DEF Justified
  <2>2. Newborn(m) BY <1>4, <2>1 DEF LockInv, TimesOut, HandsOver
  <2>3. ~IsActive(m) BY <2>2 DEF Newborn, Running, After, IsActive
  <2>4. ~Ready(m)
    BY <2>2, NoBeats DEF Newborn, Ready, Coming
  <2> QED BY <2>3, <2>4
<1>5. CASE ~Alive(v)
  <2>1. v = o.view /\ ~Hears(n) BY <1>5 DEF After, Hears
  <2>2. o.el.listenLeft = 0
    BY <1>1, <1>5, <2>1 DEF Justified, LockInv, Listens
  <2>3. Running(m) => New(m) /\ ~Hears(m) /\ net[m] = <<>>
    BY <1>1, <2>1, <2>2 DEF LockInv, PeerIsGone
  <2>4. ~Ready(m) BY <2>3, NoBeats DEF Ready, Coming
  <2>5. ~IsActive(m)
    <3>1. CASE ~Running(m) BY <3>1 DEF Running, After, IsActive
    <3>2. CASE Running(m)
      <4>1. Listens(m) BY <1>1 DEF LockInv
      <4> QED BY <2>3, <3>2, <4>1, Constants DEF Listens, New, IsActive
    <3> QED BY <3>1, <3>2
  <2> QED BY <2>4, <2>5
<1> QED BY <1>3, <1>4, <1>5

(* A turn keeps the nodes from being Active together.                      *)
LEMMA AloneAfter ==
  ASSUME LockInv, NEW n \in Node, NEW r, NEW v, NEW t, NEW inbox,
         After(n, r, v, t, inbox)
  PROVE  Alone(n)' /\ Alone(Peer(n))'
<1> DEFINE m == Peer(n)
           o == proc[n]
<1>1. /\ m \in Node /\ Peer(m) = n /\ proc'[n] = r /\ proc'[m] = proc[m]
      /\ Alone(n) /\ Alone(m)
  BY DEF After, LockInv
<1>2. ASSUME Ready(n)' PROVE Ready(n) /\ r.pc = "loop" /\ r.el.role # "Active"
                             /\ r.el.handing = "no"
  <2>1. /\ r.pc # "down" /\ r.el.role # "Active" /\ r.el.handing = "no"
        /\ \E b \in Beats(net'[n]) : Bait(n, b)
    BY <1>1, <1>2 DEF Ready, Running, IsActive, HandsOver, Coming
  <2>2. Waits(n, r, v) BY <2>1 DEF After, Takes, Stays, Hands
  <2>3. \E b \in Coming(n) : Bait(n, b) BY <2>1 DEF After
  <2> QED BY <2>1, <2>2, <2>3 DEF Ready, Waits, Running
<1>3. ASSUME Ready(m)', ~Ready(m)
      PROVE  \E b : /\ Bait(m, b)
                    /\ IF r.pc = "loop"
                         THEN b.role = r.el.role /\ b.handing = r.el.handing
                         ELSE r.pc = "down" /\ b.handing = "no"
  <2>1. /\ Running(m) /\ ~IsActive(m) /\ ~HandsOver(m)
        /\ \E b \in Beats(net'[m]) : Bait(m, b)
    BY <1>1, <1>3 DEF Ready, Running, IsActive, HandsOver, Coming
  <2>2. PICK b \in Beats(net'[m]) : Bait(m, b) BY <2>1
  <2>3. b \notin Coming(m) BY <1>3, <2>1, <2>2 DEF Ready
  <2> QED BY <2>2, <2>3 DEF After
<1>4. ASSUME r.el.role = "Active" PROVE ~IsActive(m) /\ ~Ready(m)'
  <2>1. r.pc \in {"arp", "loop"} /\ r.el.handing = "no"
    BY <1>4 DEF After, SteppedDown, Takes, Stays, Hands, Waits
  <2>2. ~IsActive(m) /\ ~Ready(m)
    <3>1. CASE r.pc = "arp" BY <3>1, TakesOnlyAlone
    <3>2. CASE r.pc = "loop"
      <4>1. IsActive(n)
        BY <1>4, <2>1, <3>2 DEF After, Takes, Stays, Hands, Waits
      <4> QED BY <1>1, <4>1 DEF Alone
    <3> QED BY <2>1, <3>1, <3>2
  <2>3. ASSUME Ready(m)' PROVE FALSE
    <3>1. PICK b : /\ Bait(m, b)
                   /\ IF r.pc = "loop"
                        THEN b.role = r.el.role /\ b.handing = r.el.handing
                        ELSE r.pc = "down" /\ b.handing = "no"
      BY <1>3, <2>2, <2>3
    <3> QED BY <1>4, <2>1, <3>1 DEF Bait
  <2> QED BY <2>2, <2>3
<1>5. ASSUME IsActive(m) PROVE ~Ready(n)'
  BY <1>1, <1>2, <1>5 DEF Alone
<1>6. ASSUME Ready(n)', Ready(m)' PROVE FALSE
  <2>1. /\ Ready(n) /\ r.pc = "loop" /\ r.el.role # "Active"
        /\ r.el.handing = "no"
    BY <1>2, <1>6
  <2>2. ~Ready(m) BY <1>1, <2>1 DEF Alone
  <2>3. PICK b : Bait(m, b) /\ b.role = r.el.role /\ b.handing = r.el.handing
    BY <1>3, <1>6, <2>1, <2>2
  <2>4. Preferred(m, n) BY <1>1, <2>1, <2>3 DEF Bait
  <2>5. PICK c \in Coming(n) : Bait(n, c) BY <2>1 DEF Ready
  <2>6. c.handing # "no" BY <1>1, <2>4, <2>5, PreferredIsStrict DEF Bait
  <2>7. Running(m) /\ ~IsActive(m) /\ ~HandsOver(m)
    BY <1>1, <1>6 DEF Ready, Running, IsActive, HandsOver
  <2>8. proc[m].wasActive
    BY <1>1, <2>5, <2>6, <2>7 DEF LockInv, FirstTerm
  <2>9. CalmProcess(proc[m]) BY <1>1 DEF LockInv, Calm
  <2> QED BY <2>7, <2>8, <2>9 DEF CalmProcess, IsActive, HandsOver
<1>7. (IsActive(n)' <=> r.el.role = "Active") /\ (IsActive(m)' <=> IsActive(m))
  BY <1>1 DEF IsActive
<1> QED BY <1>1, <1>4, <1>5, <1>6, <1>7 DEF Alone

(* A turn leaves no handover timed out but for a newborn peer.             *)
LEMMA TimesOutAfter ==
  ASSUME LockInv, NEW n \in Node, NEW r, NEW v, NEW t, NEW inbox,
         After(n, r, v, t, inbox)
  PROVE  TimesOut(n)' /\ TimesOut(Peer(n))'
<1> DEFINE m == Peer(n)
           o == proc[n]
<1>1. /\ m \in Node /\ Peer(m) = n /\ proc'[n] = r /\ proc'[m] = proc[m]
      /\ TimesOut(m)
  BY DEF After, LockInv
<1>2. TimesOut(n)'
  <2> SUFFICES ASSUME r.el.handing # "no", r.el.handingLeft = 0 PROVE FALSE
    BY <1>1 DEF TimesOut, HandsOver
  <2>1. r.pc = "loop" BY DEF After, CalmProcess
  <2> QED BY <2>1 DEF After, Takes, Stays, Hands, Waits, SteppedDown
<1>3. TimesOut(m)'
  <2> SUFFICES ASSUME HandsOver(m), proc[m].el.handingLeft = 0
               PROVE  Newborn(n)' /\ ~proc[m].ticked
    BY <1>1 DEF TimesOut, HandsOver
  <2>1. Newborn(n) /\ ~proc[m].ticked BY <1>1 DEF TimesOut
  <2>2. CASE r.pc = "down" BY <1>1, <2>1, <2>2 DEF Newborn, Running
  <2>3. CASE r.pc # "down"
    <3>1. /\ o.el.role = "Init" /\ ~Alive(o.view) /\ net[n] = <<>>
          /\ o.el.listenLeft \in {DeadAfter, DeadAfter - 1} /\ o.el.handing = "no"
      BY <2>1 DEF Newborn, Running, After, Hears, New, SteppedDown
    <3>2. v = o.view /\ net'[n] = <<>> BY <2>3, <3>1 DEF After
    <3>3. o.el.listenLeft # 0 BY <3>1, HaAssumption DEF HaAssumption
    <3>4. Waits(n, r, v) /\ Follows(n, r, v, t)
      BY <2>3, <3>1, <3>2, <3>3 DEF After, Takes, Stays, Hands, Justified,
         IsActive, HandsOver
    <3>5. r.el.role = "Init" /\ r.view = v /\ r.el.listenLeft = o.el.listenLeft
      BY <3>1, <3>2, <3>4 DEF Waits, Follows
    <3> QED BY <1>1, <2>1, <3>1, <3>2, <3>5 DEF Newborn, Hears, New, Running
  <2> QED BY <2>1, <2>2, <2>3
<1> QED BY <1>2, <1>3

(* A handover that n is in after its turn is answered.                     *)
LEMMA OwnHandoverAnswered ==
  ASSUME LockInv, NEW n \in Node, NEW r, NEW v, NEW t, NEW inbox,
         After(n, r, v, t, inbox)
  PROVE  PeerAnswers(n)'
<1> DEFINE m == Peer(n)
           o == proc[n]
<1>1. /\ m \in Node /\ m # n /\ Peer(m) = n /\ proc'[n] = r /\ proc'[m] = proc[m]
      /\ PeerAnswers(n) /\ PeerAnswers(m) /\ Alone(n)
  BY DEF After, LockInv
<1> SUFFICES ASSUME r.el.handing # "no"
             PROVE  Claimed(m)' \/ Called(m)' \/ Newborn(m)' \/ Doomed(m)'
  BY <1>1 DEF PeerAnswers, HandsOver
<1>2. Hands(n, r, v) /\ Follows(n, r, v, t) /\ r.pc = "loop" /\ r.el.role = "Standby"
      /\ o.pc = "loop"
  BY DEF After, CalmProcess, SteppedDown, Takes, Stays, Hands, Waits
<1>3. Coming(m) \subseteq Coming(m)' BY DEF After, Coming
<1>4. Running(m) /\ Says(n, Beat(r)) =>
        \E b \in Coming(m)' : b.handing # "no"
  BY <1>2 DEF After, Coming
<1>5. /\ Called(m) => Called(m)'
      /\ Doomed(m) => Doomed(m)'
      /\ ~Running(m) => Newborn(m)'
  BY <1>1, <1>3
     DEF Called, Doomed, Newborn, Running, IsActive, HandsOver
<1>6. CASE HandsOver(n)
  <2>1. CASE Claimed(m)
    <3>1. CASE proc[m].pc = "arp" BY <1>1, <3>1 DEF Claimed
    <3>2. CASE \E b \in Coming(n) : b.role = "Active"
      <4>1. PICK b \in Coming(n) : b.role = "Active" BY <3>2
      <4>2. net'[n] = inbox /\ v.hb.role # "Active" BY <1>2 DEF After, Hands
      <4>3. b \in Beats(net'[n]) BY <4>1, <4>2 DEF After, Coming
      <4> QED BY <1>1, <4>1, <4>3 DEF Claimed, Coming
    <3> QED BY <1>1, <2>1, <3>1, <3>2 DEF Claimed
  <2>2. CASE Newborn(m) /\ Running(m)
    <3>1. /\ proc[m].el.role = "Init" /\ ~Hears(m) /\ net[m] = <<>>
          /\ \/ New(m)
             \/ proc[m].el.listenLeft = DeadAfter - 1 /\ ~o.ticked
          /\ proc[m].el.handing = "no"
      BY <1>1, <2>2 DEF Newborn, After, SteppedDown
    <3>2. CASE Says(n, Beat(r))
      <4>1. \E b \in Coming(m)' : b.handing # "no" BY <1>4, <2>2, <3>2
      <4> QED BY <1>1, <2>2, <3>1, <4>1
            DEF Called, Running, IsActive, HandsOver
    <3>3. CASE ~Says(n, Beat(r))
      <4>1. r.ticked = o.ticked /\ net'[m] = net[m]
        BY <1>2, <3>3 DEF Follows, Quiet
      <4> QED BY <1>1, <3>1, <4>1 DEF Newborn, Hears, New
    <3> QED BY <3>2, <3>3
  <2> QED BY <1>1, <1>5, <1>6, <2>1, <2>2 DEF PeerAnswers
<1>7. CASE ~HandsOver(n)
  <2>1. IsActive(n) /\ Says(n, Beat(r)) BY <1>2, <1>7 DEF Hands
  <2>2. ~IsActive(m) BY <1>1, <2>1 DEF Alone
  <2>3. CASE Running(m) /\ ~HandsOver(m)
    BY <1>1, <1>4, <2>1, <2>2, <2>3
       DEF Called, Running, IsActive, HandsOver
  <2>4. CASE HandsOver(m)
    <3>1. Claimed(n) \/ Called(n) \/ Newborn(n) \/ Doomed(n)
      BY <1>1, <2>4 DEF PeerAnswers
    <3>2. \E b \in Coming(m) : b.role = "Active"
      BY <1>1, <1>2, <1>7, <2>1, <3>1
         DEF Claimed, Called, Newborn, Doomed, IsActive, Running
    <3> QED BY <1>5, <2>4, <3>2 DEF Doomed
  <2> QED BY <1>5, <2>3, <2>4
<1> QED BY <1>6, <1>7

(* A handover that the peer is in is still answered after n's turn.        *)
LEMMA PeerHandoverAnswered ==
  ASSUME LockInv, NEW n \in Node, NEW r, NEW v, NEW t, NEW inbox,
         After(n, r, v, t, inbox)
  PROVE  PeerAnswers(Peer(n))'
<1> DEFINE m == Peer(n)
           o == proc[n]
<1>1. /\ m \in Node /\ m # n /\ Peer(m) = n /\ proc'[n] = r /\ proc'[m] = proc[m]
      /\ PeerAnswers(m) /\ CalmProcess(proc[m])
  BY DEF After, LockInv, Calm
<1> SUFFICES ASSUME HandsOver(m)
             PROVE  Claimed(n)' \/ Called(n)' \/ Newborn(n)' \/ Doomed(n)'
  BY <1>1 DEF PeerAnswers, HandsOver
<1>2. Claimed(n) \/ Called(n) \/ Newborn(n) \/ Doomed(n)
  BY <1>1 DEF PeerAnswers
<1>3. Coming(m) \subseteq Coming(m)' /\ Running(m) /\ Running(n)
  BY <1>1 DEF After, Coming, CalmProcess, HandsOver, Running
<1>4. (\E b \in Coming(m) : b.role = "Active") => Claimed(n)'
  BY <1>1, <1>3 DEF Claimed
<1>5. CASE r.pc = "down" BY <1>1, <1>5 DEF Newborn, Running
<1>6. CASE Takes(n, r, v) BY <1>1, <1>6 DEF Takes, Claimed
<1>7. CASE Stays(n, r) /\ Follows(n, r, v, t)
  <2>1. CASE o.pc = "arp"
    <3>1. Says(n, Beat(r)) BY <1>7, <2>1 DEF Stays, Follows
    <3>2. \E b \in Coming(m)' : b.role = "Active"
      BY <1>3, <1>7, <3>1 DEF After, Stays, Coming
    <3> QED BY <1>1, <3>2 DEF Claimed
  <2>2. CASE o.pc # "arp"
    <3>1. o.el.role = "Active" /\ o.el.handing = "no"
      BY <1>7 DEF Stays, IsActive, After, SteppedDown
    <3> QED BY <1>1, <1>2, <1>3, <1>4, <2>2, <3>1
          DEF Claimed, Called, Newborn, Doomed, IsActive, HandsOver
  <2> QED BY <2>1, <2>2
<1>8. CASE Hands(n, r, v)
  <2>1. o.pc = "loop" /\ v.hb.role # "Active" /\ r.pc = "loop"
        /\ r.el.handing # "no"
    BY <1>8 DEF Hands
  <2>2. \/ o.el.role = "Active" /\ o.el.handing = "no"
        \/ o.el.role = "Standby" /\ o.el.handing # "no"
    BY <1>8 DEF Hands, IsActive, HandsOver, After, SteppedDown
  <2>3. ASSUME NEW b \in Coming(n), b.role = "Active" PROVE b \in Beats(net'[n])
    BY <2>1, <2>3 DEF After, Coming
  <2>4. Doomed(n) => Doomed(n)'
    BY <1>1, <2>1, <2>3 DEF Doomed, HandsOver, Coming
  <2> QED BY <1>1, <1>2, <1>3, <1>4, <2>1, <2>2, <2>4
        DEF Claimed, Called, Newborn, IsActive, HandsOver
<1>9. CASE Waits(n, r, v) /\ Follows(n, r, v, t)
  <2>1. /\ o.pc = "loop" /\ r.pc = "loop" /\ ~IsActive(n) /\ ~HandsOver(n)
        /\ r.el.role # "Active" /\ r.el.handing = "no"
        /\ net'[n] = inbox /\ r.view = v /\ r.el.listenLeft = o.el.listenLeft
    BY <1>9 DEF Waits, Follows, After
  <2>2. CASE Called(n)
    <3>1. PICK b \in Coming(n) : b.handing # "no" BY <2>2 DEF Called
    <3>2. b \in Beats(net'[n])
      BY <1>9, <2>1, <3>1 DEF After, Waits, Bait, Coming
    <3> QED BY <1>1, <2>1, <3>1, <3>2
          DEF Called, Running, IsActive, HandsOver, Coming
  <2>3. CASE Newborn(n)
    <3>1. /\ o.el.role = "Init" /\ ~Alive(o.view) /\ net[n] = <<>>
          /\ New(n) \/ (o.el.listenLeft = DeadAfter - 1 /\ ~proc[m].ticked)
      BY <1>3, <2>3 DEF Newborn, Hears
    <3>2. v = o.view /\ net'[n] = <<>> BY <2>1, <3>1 DEF After
    <3>3. r.el.role = "Init" BY <1>9, <3>1, <3>2 DEF Waits
    <3> QED BY <1>1, <2>1, <3>1, <3>2, <3>3 DEF Newborn, Hears, New
  <2> QED BY <1>1, <1>2, <1>4, <2>1, <2>2, <2>3 DEF Claimed, Doomed
<1> QED BY <1>5, <1>6, <1>7, <1>8, <1>9 DEF After

(* A turn keeps the invariant.                                             *)
LEMMA TurnStep ==
  ASSUME IInv, IInv', LockInv, NEW n \in Node, Turns(n)
  PROVE  LockInv'
<1>1. PICK r, v, t, inbox : Turn(n, r, v, t, inbox) BY DEF Turns
<1>2. After(n, r, v, t, inbox) BY <1>1, TurnAfter
<1>3. Node = {n, Peer(n)} BY PeerIsTheOther
<1>4. /\ Calm(n)' /\ TakesBait(n)' /\ Listens(n)' /\ HearsPeer(n)'
      /\ PeerIsGone(n)' /\ FirstTerm(n)' /\ Alone(n)' /\ PeerAnswers(n)'
      /\ TimesOut(n)'
  BY <1>2, CalmAfter, TakesBaitAfter, ListensAfter, HearsPeerAfter,
     PeerIsGoneAfter, FirstTermAfter, AloneAfter, OwnHandoverAnswered,
     TimesOutAfter
<1>5. /\ Calm(Peer(n))' /\ TakesBait(Peer(n))' /\ Listens(Peer(n))'
      /\ HearsPeer(Peer(n))' /\ PeerIsGone(Peer(n))' /\ FirstTerm(Peer(n))'
      /\ Alone(Peer(n))' /\ PeerAnswers(Peer(n))' /\ TimesOut(Peer(n))'
  BY <1>2, CalmAfter, TakesBaitAfter, ListensAfter, HearsPeerAfter,
     PeerIsGoneAfter, FirstTermAfter, AloneAfter, PeerHandoverAnswered,
     TimesOutAfter
<1>6. ASSUME NEW k \in Node
      PROVE  /\ Calm(k)' /\ TakesBait(k)' /\ Listens(k)' /\ HearsPeer(k)'
             /\ PeerIsGone(k)' /\ FirstTerm(k)' /\ Alone(k)' /\ PeerAnswers(k)'
             /\ TimesOut(k)'
  BY <1>3, <1>4, <1>5
<1> QED BY <1>6 DEF LockInv

-----------------------------------------------------------------------------

(* The initial states satisfy the invariant.                               *)
LEMMA InitLocks == Init => LockInv
<1> SUFFICES ASSUME Init, NEW n \in Node
             PROVE  /\ Calm(n) /\ TakesBait(n) /\ Listens(n) /\ HearsPeer(n)
                    /\ PeerIsGone(n) /\ FirstTerm(n) /\ Alone(n)
                    /\ PeerAnswers(n) /\ TimesOut(n)
  BY DEF LockInv
<1>0. Peer(n) \in Node BY PeerIsTheOther
<1>1. ASSUME NEW k \in Node
      PROVE  /\ proc[k] = Stopped(ConfigPersist[k]) /\ net[k] = <<>>
             /\ vip[k] = FALSE /\ gateway[k] = TRUE /\ cut = FALSE
             /\ proc[k].pc = "down" /\ proc[k].el.role = "Init"
             /\ proc[k].el.handing = "no" /\ proc[k].view = NoPeer
             /\ CalmProcess(proc[k])
  <2>1. ConfigPersist[k] \in BOOLEAN BY HaPairAssumption DEF HaPairAssumption
  <2>2. proc[k] = Stopped(ConfigPersist[k]) BY DEF Init
  <2>3. CalmProcess(proc[k]) BY <2>1, <2>2, StoppedCalm
  <2> QED BY <2>2, <2>3 DEF Init, Stopped, NewElection
<1>2. ~Alive(NoPeer) BY Constants DEF Alive, NoPeer
<1>3. Calm(n) BY <1>1, NoBeats DEF Calm, Coming
<1> QED BY <1>0, <1>1, <1>2, <1>3
        DEF TakesBait, Listens, HearsPeer, PeerIsGone, FirstTerm, Alone, Ready,
            PeerAnswers, TimesOut, Running, IsActive, HandsOver, Hears

(* A step of n that touches neither its election nor the network: it       *)
(* starts, ends its startup, or its replica changes.                       *)
Minor(n, r) ==
  LET o == proc[n]
      m == Peer(n)
  IN /\ m \in Node /\ m # n /\ Peer(m) = n
     /\ proc'[n] = r /\ proc'[m] = proc[m]
     /\ vip' = vip /\ net' = net /\ gateway' = gateway /\ cut' = cut
     /\ r.el = o.el /\ r.view = o.view /\ r.ticked = o.ticked
     /\ r.wasActive = o.wasActive /\ CalmProcess(r)
     /\ o.pc \in {"down", "boot"} => r.el.role = "Init"
     /\ \/ r.pc = o.pc
        \/ o.pc = "down" /\ r.pc = "boot" /\ net[m] = <<>>
        \/ o.pc = "boot" /\ r.pc = "loop"

(* Such a step keeps the invariant.                                        *)
LEMMA MinorLocks ==
  ASSUME LockInv, NEW n \in Node, NEW r, Minor(n, r)
  PROVE  LockInv'
<1> DEFINE m == Peer(n)
           o == proc[n]
<1>1. /\ Calm(n) /\ Calm(m) /\ TakesBait(n) /\ TakesBait(m)
      /\ Listens(n) /\ Listens(m) /\ HearsPeer(n) /\ HearsPeer(m)
      /\ PeerIsGone(n) /\ PeerIsGone(m) /\ FirstTerm(n) /\ FirstTerm(m)
      /\ Alone(n) /\ Alone(m) /\ PeerAnswers(n) /\ PeerAnswers(m)
      /\ TimesOut(n) /\ TimesOut(m)
  BY DEF LockInv, Minor
<1>2. /\ m \in Node /\ m # n /\ Peer(m) = n
      /\ proc'[n] = r /\ proc'[m] = proc[m]
      /\ vip' = vip /\ net' = net /\ gateway' = gateway /\ cut' = cut
      /\ r.el = o.el /\ r.view = o.view /\ r.ticked = o.ticked
      /\ r.wasActive = o.wasActive /\ CalmProcess(r)
  BY DEF Minor
<1>3. /\ IsActive(n)' = IsActive(n) /\ IsActive(m)' = IsActive(m)
      /\ HandsOver(n)' = HandsOver(n) /\ HandsOver(m)' = HandsOver(m)
      /\ Hears(n)' = Hears(n) /\ Hears(m)' = Hears(m)
      /\ New(n)' = New(n) /\ New(m)' = New(m)
      /\ Coming(n)' = Coming(n) /\ Coming(m)' = Coming(m)
      /\ Running(m)' = Running(m)
  BY <1>2 DEF IsActive, HandsOver, Hears, New, Coming, Running
<1>4. /\ Running(n) => Running(n)'
      /\ Running(n)' /\ ~Running(n) =>
           /\ New(n) /\ ~Hears(n) /\ ~IsActive(n) /\ o.el.role = "Init"
           /\ net[n] = <<>> /\ Coming(n) = {} /\ net[m] = <<>> /\ Coming(m) = {}
           /\ ~o.ticked /\ r.pc = "boot"
  <2>1. CASE r.pc = o.pc BY <1>2, <2>1 DEF Running
  <2>2. CASE o.pc = "down" /\ r.pc = "boot" /\ net[m] = <<>>
    <3>1. /\ o.view = NoPeer /\ o.el.listenLeft = DeadAfter /\ ~o.ticked
          /\ o.el.role = "Init" /\ net[n] = <<>>
      BY <1>1, <2>2 DEF Calm, CalmProcess, Minor, Running
    <3>2. ~Alive(NoPeer) BY Constants DEF Alive, NoPeer
    <3> QED BY <1>2, <2>2, <3>1, <3>2, NoBeats DEF Running, New, Hears, IsActive, Coming
  <2>3. CASE o.pc = "boot" /\ r.pc = "loop" BY <1>2, <2>3 DEF Running
  <2> QED BY <2>1, <2>2, <2>3 DEF Minor
<1>5. Calm(n)' /\ Calm(m)'
  BY <1>1, <1>2, <1>3, <1>4 DEF Calm
<1>6. TakesBait(n)' /\ TakesBait(m)'
  BY <1>1, <1>2, <1>3, <1>4 DEF TakesBait
<1>7. Listens(n)' /\ Listens(m)'
  BY <1>1, <1>2, <1>3 DEF Listens
<1>8. HearsPeer(n)' /\ HearsPeer(m)'
  <2>1. o.pc # "arp" /\ o.ticked => r.pc = o.pc
    BY <1>1 DEF Minor, Calm, CalmProcess
  <2>2. r.pc # "arp" /\ o.ticked => o.pc # "arp" BY DEF Minor
  <2>3. HearsPeer(m)' BY <1>1, <1>2, <1>3, <2>2 DEF HearsPeer
  <2>4. HearsPeer(n)' BY <1>1, <1>2, <1>3, <1>4 DEF HearsPeer
  <2> QED BY <2>3, <2>4
<1>9. PeerIsGone(n)' /\ PeerIsGone(m)'
  <2>1. r.pc = "loop" /\ o.pc # "loop" => o.el.listenLeft # 0
    <3>1. o.pc = "boot" => o.el.listenLeft = DeadAfter
      BY <1>1 DEF Calm, CalmProcess
    <3> QED BY <3>1, Constants DEF Minor
  <2>2. PeerIsGone(n)' BY <1>1, <1>2, <1>3, <2>1 DEF PeerIsGone
  <2>3. PeerIsGone(m)' BY <1>1, <1>2, <1>3, <1>4 DEF PeerIsGone
  <2> QED BY <2>2, <2>3
<1>10. FirstTerm(n)' /\ FirstTerm(m)'
  BY <1>1, <1>2, <1>3, <1>4 DEF FirstTerm
<1>11. Alone(n)' /\ Alone(m)'
  <2>1. Ready(n)' => Ready(n) BY <1>2, <1>3, <1>4 DEF Ready
  <2>2. Ready(m)' => Ready(m) BY <1>2, <1>3, <1>4 DEF Ready
  <2> QED BY <1>1, <1>2, <1>3, <2>1, <2>2 DEF Alone
<1>12. (Newborn(n) => Newborn(n)') /\ (Newborn(m) => Newborn(m)')
  BY <1>2, <1>3, <1>4 DEF Newborn
<1>13. PeerAnswers(n)' /\ PeerAnswers(m)'
  <2>1. Claimed(m) => Claimed(m)' BY <1>2, <1>3 DEF Claimed
  <2>2. Claimed(n) => Claimed(n)'
    <3>1. o.pc = "arp" => r.pc = "arp" BY DEF Minor
    <3> QED BY <1>2, <1>3, <3>1 DEF Claimed
  <2>3. (Called(n) => Called(n)') /\ (Called(m) => Called(m)')
    BY <1>2, <1>3, <1>4 DEF Called
  <2>4. (Doomed(n) => Doomed(n)') /\ (Doomed(m) => Doomed(m)')
    BY <1>2, <1>3 DEF Doomed
  <2> QED BY <1>1, <1>2, <1>3, <1>12, <2>1, <2>2, <2>3, <2>4 DEF PeerAnswers
<1>14. TimesOut(n)' /\ TimesOut(m)'
  BY <1>1, <1>2, <1>3, <1>12 DEF TimesOut
<1>15. Node = {n, m} BY PeerIsTheOther
<1>16. ASSUME NEW k \in Node
       PROVE  /\ Calm(k)' /\ TakesBait(k)' /\ Listens(k)' /\ HearsPeer(k)'
              /\ PeerIsGone(k)' /\ FirstTerm(k)' /\ Alone(k)' /\ PeerAnswers(k)'
              /\ TimesOut(k)'
  BY <1>5, <1>6, <1>7, <1>8, <1>9, <1>10, <1>11, <1>13, <1>14, <1>15
<1> QED BY <1>16 DEF LockInv

(* When a step is such a step.                                             *)
LEMMA MinorFacts ==
  ASSUME IInv, LockInv, NEW n \in Node, NEW r \in Process,
         proc' = [proc EXCEPT ![n] = r], vip' = vip, net' = net,
         gateway' = gateway, cut' = cut,
         r.el = proc[n].el, r.view = proc[n].view, r.ticked = proc[n].ticked,
         r.wasActive = proc[n].wasActive, r.vipFault = proc[n].vipFault,
         r.awaiting = 0,
         \/ r.pc = proc[n].pc
         \/ proc[n].pc = "down" /\ r.pc = "boot" /\ net[Peer(n)] = <<>>
         \/ proc[n].pc = "boot" /\ r.pc = "loop"
  PROVE  Minor(n, r)
<1> DEFINE o == proc[n]
<1>1. Peer(n) \in Node /\ Peer(n) # n /\ Peer(Peer(n)) = n BY PeerIsTheOther
<1>2. proc \in [Node -> Process] BY DEF IInv, HaPairTypeOK
<1>3. o.pc \in {"down", "boot"} => ~o.wasActive /\ o.el.role = "Init"
  BY DEF IInv, ProcessInv
<1>4. CalmProcess(o) /\ SteppedDown(o.el.role, o.el.handing)
  BY ProcessFacts DEF LockInv, Calm, ElectionInv
<1>5. CalmProcess(r) BY <1>3, <1>4 DEF CalmProcess, SteppedDown
<1> QED BY <1>1, <1>2, <1>3, <1>5 DEF Minor

(* Start, the end of the startup and the replica's steps keep the          *)
(* invariant.                                                              *)
LEMMA QuietLocks ==
  ASSUME IInv, NormalOperation, LockInv, NEW n \in Node,
         Start(n) \/ Booted(n) \/ CaughtUp(n) \/ StreamEnds(n)
  PROVE  LockInv'
<1> DEFINE o == proc[n]
<1>0. /\ o \in Process /\ o.awaiting = 0 /\ Calm(n)
      /\ proc \in [Node -> Process] /\ vip \in [Node -> BOOLEAN]
      /\ Peer(n) \in Node
  BY ProcessFacts, PeerIsTheOther DEF IInv, HaPairTypeOK, LockInv, Calm, CalmProcess
<1>1. CASE Start(n)
  <2> DEFINE r == [o EXCEPT !.pc = "boot", !.awaiting = BootTime]
  <2>1. /\ r \in Process /\ r.pc = "boot" /\ r.el = o.el /\ r.view = o.view
        /\ r.ticked = o.ticked /\ r.wasActive = o.wasActive
        /\ r.vipFault = o.vipFault /\ r.awaiting = 0
    <3>1. BootTime \in 0..(ArpTime + BootTime) BY Constants
    <3> QED BY <1>0, <3>1 DEF Process, NormalOperation
  <2>2. o.pc = "down" /\ net[Peer(n)] = <<>>
    <3>1. proc[Peer(n)].awaiting = 0
      BY <1>0 DEF LockInv, Calm, CalmProcess
    <3> QED BY <1>1, <3>1 DEF Start
  <2>3. vip' = vip
    <3>1. o.el.role = "Init" BY <2>2 DEF IInv, ProcessInv
    <3>2. vip[n] = FALSE BY <1>0, <3>1 DEF Calm
    <3> QED BY <1>0, <1>1, <3>2 DEF Start
  <2>4. /\ proc' = [proc EXCEPT ![n] = r] /\ net' = net /\ gateway' = gateway
        /\ cut' = cut
    BY <1>0, <1>1 DEF Start
  <2> HIDE DEF r
  <2>5. Minor(n, r) BY <2>1, <2>2, <2>3, <2>4, MinorFacts
  <2> QED BY <2>5, MinorLocks
<1>2. CASE Booted(n)
  <2> DEFINE r == [o EXCEPT !.pc = "loop"]
  <2>1. /\ r \in Process /\ r.pc = "loop" /\ r.el = o.el /\ r.view = o.view
        /\ r.ticked = o.ticked /\ r.wasActive = o.wasActive
        /\ r.vipFault = o.vipFault /\ r.awaiting = 0
    BY <1>0 DEF Process
  <2>2. /\ proc' = [proc EXCEPT ![n] = r] /\ net' = net /\ gateway' = gateway
        /\ cut' = cut /\ vip' = vip /\ o.pc = "boot"
    BY <1>0, <1>2 DEF Booted
  <2> HIDE DEF r
  <2>3. Minor(n, r) BY <2>1, <2>2, MinorFacts
  <2> QED BY <2>3, MinorLocks
<1>3. ASSUME NEW b \in BOOLEAN, proc' = [proc EXCEPT ![n].synced = b],
             UNCHANGED <<vip, gateway, net, cut>>
      PROVE  LockInv'
  <2> DEFINE r == [o EXCEPT !.synced = b]
  <2>1. /\ r \in Process /\ r.pc = o.pc /\ r.el = o.el /\ r.view = o.view
        /\ r.ticked = o.ticked /\ r.wasActive = o.wasActive
        /\ r.vipFault = o.vipFault /\ r.awaiting = 0
    BY <1>0 DEF Process
  <2>2. proc' = [proc EXCEPT ![n] = r] BY <1>0, <1>3
  <2> HIDE DEF r
  <2>3. Minor(n, r) BY <1>3, <2>1, <2>2, MinorFacts
  <2> QED BY <2>3, MinorLocks
<1>4. CASE CaughtUp(n) BY <1>3, <1>4 DEF CaughtUp
<1>5. CASE StreamEnds(n) BY <1>3, <1>5 DEF StreamEnds
<1> QED BY <1>1, <1>2, <1>4, <1>5

-----------------------------------------------------------------------------

(* An interval ages a view until the peer is taken for dead.               *)
LEMMA OlderFields ==
  ASSUME NEW v \in View
  PROVE  /\ Alive(v) /\ v.age + 1 < DeadAfter =>
              Alive(Older(v)) /\ Older(v).hb = v.hb /\ Older(v).age = v.age + 1
         /\ ~(Alive(v) /\ v.age + 1 < DeadAfter) => Older(v) = NoPeer
         /\ ~Alive(NoPeer)
<1>0. v.age \in Nat BY DEF View
<1>1. ASSUME v.age + 1 < DeadAfter
      PROVE  Older(v).hb = v.hb /\ Older(v).age = v.age + 1
  <2>1. Older(v) = [v EXCEPT !.age = v.age + 1] BY <1>1 DEF Older, View
  <2> QED BY <2>1 DEF View
<1>2. ~(v.age + 1 < DeadAfter) => Older(v) = NoPeer BY DEF Older
<1>3. v.age + 1 < DeadAfter => Alive(v) BY <1>0, Constants DEF Alive
<1>4. ~Alive(NoPeer) BY Constants DEF Alive, NoPeer
<1> QED BY <1>1, <1>2, <1>3, <1>4 DEF Alive

(* An interval runs the timers down and changes no role.                   *)
LEMMA LaterFields ==
  ASSUME NEW p \in Process
  PROVE  /\ Later(p).pc = p.pc /\ Later(p).wasActive = p.wasActive
         /\ Later(p).ticked = FALSE
         /\ Later(p).vipFault = Less(p.vipFault)
         /\ Later(p).awaiting = Less(p.awaiting)
         /\ Later(p).view = Older(p.view)
         /\ Later(p).el.role = p.el.role /\ Later(p).el.handing = p.el.handing
         /\ Later(p).el.handingLeft = Less(p.el.handingLeft)
         /\ Later(p).el.takeoverLeft = Less(p.el.takeoverLeft)
         /\ Later(p).el.listenLeft = Less(p.el.listenLeft)
<1> DEFINE e == [p.el EXCEPT !.handingLeft = Less(@), !.takeoverLeft = Less(@),
                             !.listenLeft = Less(@)]
           r == [p EXCEPT !.el = e, !.view = Older(@), !.vipFault = Less(@),
                          !.awaiting = Less(@), !.ticked = FALSE]
<1>1. p.el \in Election BY DEF Process
<1>2. /\ e.role = p.el.role /\ e.handing = p.el.handing
      /\ e.handingLeft = Less(p.el.handingLeft)
      /\ e.takeoverLeft = Less(p.el.takeoverLeft)
      /\ e.listenLeft = Less(p.el.listenLeft)
  BY <1>1 DEF Election
<1>3. Later(p) = r BY DEF Later, Process, Election
<1> HIDE DEF e
<1>4. /\ r.pc = p.pc /\ r.wasActive = p.wasActive /\ r.ticked = FALSE
      /\ r.vipFault = Less(p.vipFault) /\ r.awaiting = Less(p.awaiting)
      /\ r.view = Older(p.view) /\ r.el = e
  BY DEF Process
<1> QED BY <1>2, <1>3, <1>4

(* Node k over the end of an interval: nothing is in flight to it, and if  *)
(* it runs its ticker has fired.                                           *)
Passed(k) ==
  LET p == proc[k]
      q == proc'[k]
  IN /\ p \in Process /\ net[k] = <<>> /\ net'[k] = <<>>
     /\ q.pc = p.pc /\ p.pc \in {"loop", "down"} /\ q.wasActive = p.wasActive
     /\ q.el.role = p.el.role /\ q.el.handing = p.el.handing
     /\ ~q.ticked /\ ~Alive(NoPeer)
     /\ p.pc = "down" => q = p /\ p.el.role = "Init"
     /\ p.pc = "loop" =>
          /\ p.ticked /\ q.view = Older(p.view)
          /\ q.vipFault = 0 /\ q.awaiting = 0 /\ q.el.takeoverLeft = 0
          /\ q.el.handingLeft = Less(p.el.handingLeft)
          /\ q.el.listenLeft = Less(p.el.listenLeft)

(* An interval ends no earlier.                                            *)
LEMMA AdvancePasses ==
  ASSUME IInv, LockInv, Advance, NEW k \in Node
  PROVE  Passed(k)
<1> DEFINE p == proc[k]
<1>1. p \in Process /\ Calm(k) BY ProcessFacts DEF LockInv
<1>2. /\ p.awaiting = 0 /\ p.vipFault = 0 /\ p.el.takeoverLeft = 0
      /\ p.pc = "down" => net[k] = <<>> /\ ~p.ticked
  BY <1>1 DEF Calm, CalmProcess, Running
<1>3. p.pc \in {"loop", "down"} /\ (p.pc = "loop" => p.ticked /\ net[k] = <<>>)
  <2>1. IntervalDone(k) BY DEF Advance
  <2>2. p.pc \in {"loop", "boot", "arp", "down"} BY <1>1 DEF Process
  <2>3. CASE p.pc = "loop" BY <2>1, <2>3 DEF IntervalDone
  <2>4. p.pc = "boot" => p.awaiting > 0 BY <2>1, Zenon DEF IntervalDone
  <2>5. p.pc = "arp" => p.awaiting > 0 BY <2>1, Zenon DEF IntervalDone
  <2>6. ~(p.awaiting > 0) BY <1>2
  <2> QED BY <2>2, <2>3, <2>4, <2>5, <2>6
<1>4. p.pc = "down" => p.el.role = "Init" BY DEF IInv, ProcessInv
<1>5. net[k] = <<>> /\ net'[k] = <<>> BY <1>2, <1>3 DEF Advance
<1>6. ~Alive(NoPeer) BY Constants DEF Alive, NoPeer
<1>7. CASE p.pc = "down"
  <2>1. proc'[k] = p BY <1>7 DEF Advance
  <2> QED BY <1>1, <1>2, <1>4, <1>5, <1>6, <1>7, <2>1 DEF Passed
<1>8. CASE p.pc = "loop"
  <2>1. proc'[k] = Later(p) BY <1>8 DEF Advance
  <2>2. Less(0) = 0 BY DEF Less
  <2> QED BY <1>1, <1>2, <1>3, <1>5, <1>6, <1>8, <2>1, <2>2, LaterFields DEF Passed
<1> QED BY <1>3, <1>7, <1>8

(* Nobody is heard who was not heard before, and a peer heard less than    *)
(* dead_after ago still is.                                                *)
LEMMA PassedViews ==
  ASSUME NEW k, Passed(k)
  PROVE  /\ proc[k].view \in View /\ proc[k].view.age \in Nat
         /\ Hears(k)' => /\ Hears(k) /\ proc'[k].view.hb = proc[k].view.hb
                         /\ proc[k].pc = "loop" =>
                              proc'[k].view.age = proc[k].view.age + 1
         /\ proc[k].pc = "loop" /\ proc[k].view.age + 1 < DeadAfter => Hears(k)'
<1>1. proc[k].view \in View /\ proc[k].view.age \in Nat
  BY DEF Passed, Process, View
<1>2. CASE proc[k].pc = "down" BY <1>1, <1>2 DEF Passed, Hears
<1>3. CASE proc[k].pc = "loop"
  <2>1. proc'[k].view = Older(proc[k].view) BY <1>3 DEF Passed
  <2> QED BY <1>1, <1>3, <2>1, OlderFields, Constants DEF Passed, Hears, Alive
<1> QED BY <1>2, <1>3 DEF Passed

(* The passage of time keeps the invariant.  A peer that runs was heard in *)
(* this interval, so it is not taken for dead, and a handover that times   *)
(* out was answered unless the peer is a newborn.                          *)
LEMMA AdvanceLocks ==
  ASSUME IInv, NormalOperation, LockInv, Advance
  PROVE  LockInv'
<1>1. gateway' = gateway /\ cut' = cut /\ vip' = vip
  BY DEF Advance, GatewayCheck, Disturb, May, NormalOperation
<1>2. DeadAfter \in Nat /\ DeadAfter >= 3 BY HaAssumption DEF HaAssumption
<1> SUFFICES ASSUME NEW n \in Node
             PROVE  /\ Calm(n)' /\ TakesBait(n)' /\ Listens(n)'
                    /\ HearsPeer(n)' /\ PeerIsGone(n)' /\ FirstTerm(n)'
                    /\ Alone(n)' /\ PeerAnswers(n)' /\ TimesOut(n)'
  BY DEF LockInv
<1> DEFINE m == Peer(n)
           p == proc[n]
           q == proc'[n]
<1>3. m \in Node /\ Peer(m) = n BY PeerIsTheOther
<1>4. Passed(n) /\ Passed(m) BY <1>3, AdvancePasses
<1>5. /\ Calm(n) /\ TakesBait(n) /\ Listens(n) /\ HearsPeer(n) /\ PeerIsGone(n)
      /\ Alone(n) /\ PeerAnswers(n)
  BY DEF LockInv
<1>6. /\ Coming(n) = {} /\ Coming(m) = {} /\ Coming(n)' = {} /\ Coming(m)' = {}
  BY <1>4, NoBeats DEF Passed, Coming
<1>7. \A k \in {n, m} : /\ Running(k)' <=> Running(k)
                        /\ IsActive(k)' <=> IsActive(k)
                        /\ HandsOver(k)' <=> HandsOver(k)
                        /\ Running(k) => proc[k].pc = "loop"
  BY <1>4 DEF Passed, Running, IsActive, HandsOver
<1>8. /\ p \in Process /\ p.el.listenLeft \in 0..DeadAfter
      /\ p.el.handingLeft \in Nat
      /\ p.el.listenLeft > 0 => Less(p.el.listenLeft) = p.el.listenLeft - 1
      /\ p.el.listenLeft = 0 => Less(p.el.listenLeft) = 0
  BY <1>4 DEF Passed, Process, Election, Less
<1>9. Calm(n)'
  <2>1. CalmProcess(q)
    <3>1. CalmProcess(p) BY <1>5 DEF Calm
    <3>2. CASE p.pc = "down" BY <1>4, <3>1, <3>2 DEF Passed
    <3>3. CASE p.pc = "loop"
      <4>1. q.view = Older(p.view) BY <1>4, <3>3 DEF Passed
      <4>2. CalmBeat(q.view.hb)
        <5>1. CalmBeat(NoPeer.hb) BY DEF CalmBeat, NoPeer, NoHeartbeat
        <5>2. CalmBeat(p.view.hb) BY <3>1 DEF CalmProcess
        <5>3. p.view \in View BY <1>8 DEF Process
        <5> QED BY <4>1, <5>1, <5>2, <5>3, OlderFields
      <4> QED BY <1>4, <3>1, <3>3, <4>2 DEF Passed, CalmProcess
    <3> QED BY <1>4, <3>2, <3>3 DEF Passed
  <2>2. vip'[n] <=> q.el.role = "Active" BY <1>1, <1>4, <1>5 DEF Passed, Calm
  <2> QED BY <1>1, <1>4, <1>5, <1>6, <2>1, <2>2 DEF Calm, Passed
<1>10. TakesBait(n)'
  BY <1>4, <1>5, <1>7, PassedViews DEF TakesBait
<1>11. Listens(n)'
  <2>1. CASE p.pc = "down" BY <1>4, <1>5, <2>1 DEF Passed, Listens, Hears
  <2>2. CASE p.pc = "loop"
    <3>1. q.el.listenLeft = Less(p.el.listenLeft) /\ q.el.role = p.el.role
      BY <1>4, <2>2 DEF Passed
    <3>2. p.view.age \in Nat BY <1>4, PassedViews
    <3>3. CASE Hears(n)'
      <4>1. /\ Hears(n) /\ q.view.age = p.view.age + 1 /\ q.view.age < DeadAfter
        BY <1>4, <2>2, <3>3, PassedViews DEF Hears, Alive
      <4> QED BY <1>2, <1>5, <1>8, <3>1, <3>2, <3>3, <4>1 DEF Listens
    <3>4. CASE ~Hears(n)'
      <4>1. ~(p.view.age + 1 < DeadAfter) BY <1>4, <2>2, <3>4, PassedViews
      <4>2. CASE Hears(n)
        <5>1. p.el.listenLeft <= 1
          BY <1>2, <1>5, <1>8, <3>2, <4>1, <4>2 DEF Listens
        <5>2. Less(p.el.listenLeft) = 0 BY <1>8, <5>1
        <5> QED BY <3>1, <3>4, <5>2 DEF Listens
      <4>3. CASE ~Hears(n)
        BY <1>5, <1>8, <3>1, <3>4, <4>3 DEF Listens
      <4> QED BY <4>2, <4>3
    <3> QED BY <3>3, <3>4
  <2> QED BY <1>4, <2>1, <2>2 DEF Passed
<1>12. HearsPeer(n)' BY <1>4 DEF Passed, HearsPeer
<1>13. PeerIsGone(n)'
  <2> SUFFICES ASSUME q.pc = "loop", ~Hears(n)', q.el.listenLeft = 0, Running(m)'
               PROVE  FALSE
    BY <1>4 DEF PeerIsGone, Passed
  <2>1. p.pc = "loop" /\ q.el.listenLeft = Less(p.el.listenLeft)
    BY <1>4 DEF Passed
  <2>2. ~New(n) BY <1>2, <1>8, <2>1 DEF New
  <2>3. proc[m].pc = "loop" /\ proc[m].ticked
    BY <1>4, <1>7 DEF Passed
  <2>4. p.view.age = 0
    BY <1>4, <1>5, <2>1, <2>2, <2>3 DEF HearsPeer, Running, Passed
  <2> QED BY <1>2, <1>4, <2>1, <2>4, PassedViews
<1>14. FirstTerm(n)' BY <1>6 DEF FirstTerm
<1>15. Alone(n)' BY <1>3, <1>5, <1>6, <1>7 DEF Alone, Ready
<1>16. ASSUME HandsOver(n) PROVE Newborn(m)' /\ ~q.ticked
  <2>1. p.pc = "loop" /\ p.ticked /\ ~q.ticked
    BY <1>4, <1>5, <1>16 DEF Calm, CalmProcess, HandsOver, Passed
  <2>2. Newborn(m)
    BY <1>3, <1>4, <1>5, <1>6, <1>16
       DEF PeerAnswers, Claimed, Called, Doomed, Passed
  <2>3. CASE Running(m)
    <3>1. /\ proc[m].el.role = "Init" /\ ~Hears(m) /\ New(m)
          /\ proc[m].pc = "loop"
      BY <1>3, <1>7, <2>1, <2>2, <2>3 DEF Newborn
    <3>2. proc'[m].el.listenLeft = DeadAfter - 1
      BY <1>2, <1>4, <3>1 DEF Passed, New, Less
    <3> QED BY <1>3, <1>4, <2>1, <3>1, <3>2, PassedViews DEF Newborn, Passed
  <2> QED BY <1>7, <2>1, <2>3 DEF Newborn
<1>17. PeerAnswers(n)' BY <1>7, <1>16 DEF PeerAnswers
<1>18. TimesOut(n)' BY <1>7, <1>16 DEF TimesOut
<1> QED BY <1>9, <1>10, <1>11, <1>12, <1>13, <1>14, <1>15, <1>17, <1>18

-----------------------------------------------------------------------------

(* A step that changes nothing keeps the invariant.                        *)
LEMMA StutterLocks ==
  ASSUME IInv, LockInv, UNCHANGED vars PROVE LockInv'
<1>1. PICK n \in Node : TRUE BY HaAssumption DEF HaAssumption
<1>2. /\ proc' = [proc EXCEPT ![n] = proc[n]] /\ proc[n] \in Process
      /\ vip' = vip /\ net' = net /\ gateway' = gateway /\ cut' = cut
  BY ProcessFacts DEF vars, IInv, HaPairTypeOK
<1>3. proc[n].awaiting = 0 BY DEF LockInv, Calm, CalmProcess
<1>4. Minor(n, proc[n]) BY <1>2, <1>3, MinorFacts
<1> QED BY <1>4, MinorLocks

(* The steps of normal operation.                                          *)
LEMMA NormalSteps ==
  ASSUME IInv, NormalOperation, LockInv, Next
  PROVE  \/ \E n \in Node :
              Turns(n) \/ Start(n) \/ Booted(n) \/ CaughtUp(n) \/ StreamEnds(n)
         \/ Advance
<1>1. ASSUME NEW n \in Node, MakeActive(n) \/ Crash(n) PROVE FALSE
  BY <1>1 DEF MakeActive, Command, Crash, Disturb, May, NormalOperation
<1>2. ~CutLink BY DEF CutLink, Disturb, May, NormalOperation
<1>3. ~HealLink
  <2>1. PICK n \in Node : TRUE BY HaAssumption DEF HaAssumption
  <2>2. ~cut BY DEF LockInv, Calm
  <2> QED BY <2>2 DEF HealLink
<1>4. ASSUME NEW n \in Node,
             \/ TickerFires(n) \/ ReceiveHeartbeat(n) \/ VipIsUp(n)
             \/ MakeStandby(n) \/ Terminate(n)
             \/ \E b \in BOOLEAN : SetPersist(n, b)
             \/ \E force \in BOOLEAN : ApplyConfig(n, force)
      PROVE  Turns(n)
  <2>1. Calm(n) BY DEF LockInv
  <2> QED BY <1>4, <2>1, EventTurns
<1> QED BY <1>1, <1>2, <1>3, <1>4 DEF Next

(* Every step keeps the invariant.                                         *)
LEMMA NextLocks ==
  ASSUME IInv, IInv', NormalOperation, LockInv, [Next]_vars PROVE LockInv'
<1>1. CASE UNCHANGED vars BY <1>1, StutterLocks
<1>2. CASE Next
  BY <1>2, NormalSteps, TurnStep, QuietLocks, AdvanceLocks
<1> QED BY <1>1, <1>2

(* A step moves the VIP on one node at most.                               *)
LEMMA OneVipMoves ==
  ASSUME IInv, NormalOperation, LockInv, [Next]_vars
  PROVE  \E n \in Node : \A k \in Node : k # n => vip'[k] = vip[k]
<1>0. vip \in [Node -> BOOLEAN] BY DEF IInv, HaPairTypeOK
<1>1. CASE UNCHANGED vip BY <1>1, HaAssumption DEF HaAssumption
<1>2. ASSUME NEW n \in Node,
             Turns(n) \/ Start(n) \/ Booted(n) \/ CaughtUp(n) \/ StreamEnds(n)
      PROVE  \A k \in Node : k # n => vip'[k] = vip[k]
  <2>1. CASE Turns(n)
    <3>1. PICK r, v, t, inbox : Turn(n, r, v, t, inbox) BY <2>1 DEF Turns
    <3>2. vip' = [vip EXCEPT ![n] = (r.el.role = "Active")] BY <3>1 DEF Turn
    <3> QED BY <1>0, <3>2
  <2>2. CASE Start(n) BY <1>0, <2>2 DEF Start
  <2>3. CASE Booted(n) \/ CaughtUp(n) \/ StreamEnds(n)
    BY <2>3 DEF Booted, CaughtUp, StreamEnds
  <2> QED BY <1>2, <2>1, <2>2, <2>3
<1>3. CASE Next
  <2>1. CASE Advance BY <1>1, <2>1 DEF Advance
  <2>2. CASE \E n \in Node :
               Turns(n) \/ Start(n) \/ Booted(n) \/ CaughtUp(n) \/ StreamEnds(n)
    BY <1>2, <2>2
  <2> QED BY <1>3, <2>1, <2>2, NormalSteps
<1>4. CASE UNCHANGED vars BY <1>1, <1>4 DEF vars
<1> QED BY <1>3, <1>4

(* Two nodes do not hold the VIP.                                          *)
LEMMA OneHolder ==
  ASSUME LockInv, NEW n \in Node, vip[n]
  PROVE  {k \in Node : vip[k]} = {n}
<1>1. Node = {n, Peer(n)} /\ Peer(n) # n BY PeerIsTheOther
<1>2. IsActive(n) /\ ~IsActive(Peer(n)) BY DEF LockInv, Alone, Calm, IsActive
<1>3. ~vip[Peer(n)] BY <1>1, <1>2 DEF LockInv, Calm, IsActive
<1> QED BY <1>1, <1>3

(* Every step of the pair is a step of the lock, or leaves it alone.       *)
LEMMA LockStep ==
  ASSUME IInv, IInv', NormalOperation, LockInv, LockInv', [Next]_vars
  PROVE  [Lock!Next]_({n \in Node : vip[n]})
<1> DEFINE H == {k \in Node : vip[k]}
<1>1. PICK n \in Node : \A k \in Node : k # n => vip'[k] = vip[k]
  BY OneVipMoves
<1>2. \A k \in Node : vip[k] \in BOOLEAN /\ vip'[k] \in BOOLEAN
  BY DEF IInv, HaPairTypeOK
<1>3. CASE vip'[n] = vip[n]
  <2>1. H' = H BY <1>1, <1>3
  <2> QED BY <2>1
<1>4. CASE vip'[n] /\ ~vip[n]
  <2>1. H' = {n}
    <3>1. ASSUME LockInv, vip[n] PROVE H = {n} BY <3>1, OneHolder
    <3>2. \A k \in Node : k # n => ~vip'[k]
      <4>1. Node = {n, Peer(n)} /\ Peer(n) # n BY PeerIsTheOther
      <4>2. proc'[n].el.role = "Active" BY <1>4 DEF LockInv, Calm
      <4>3. proc'[Peer(n)].el.role # "Active"
        BY <4>2 DEF LockInv, Alone, IsActive
      <4>4. ~vip'[Peer(n)] BY <4>1, <4>3 DEF LockInv, Calm
      <4> QED BY <4>1, <4>4
    <3> QED BY <1>4, <3>2
  <2>2. H = {} BY <1>1, <1>4, <2>1
  <2>3. Lock!Take(n) BY <2>1, <2>2 DEF Lock!Take
  <2> QED BY <2>3 DEF Lock!Next
<1>5. CASE ~vip'[n] /\ vip[n]
  <2>1. H = {n} BY <1>5, OneHolder
  <2>2. H' = {} BY <1>1, <1>5, <2>1
  <2>3. Lock!Release(n) BY <2>1, <2>2 DEF Lock!Release
  <2> QED BY <2>3 DEF Lock!Next
<1> QED BY <1>2, <1>3, <1>4, <1>5

(* In normal operation every state of the pair satisfies the invariant,    *)
(* for all weights, names, dead_after of at least three intervals,         *)
(* handover timeouts, persist settings and numbers of commands.            *)
THEOREM LockInvariance ==
  ASSUME NormalOperation PROVE Safety => []LockInv
<1>1. Init => LockInv BY InitLocks
<1>2. IInv /\ IInv' /\ LockInv /\ [Next]_vars => LockInv' BY NextLocks
<1> QED BY <1>1, <1>2, Invariance, PTL DEF Safety

(* In normal operation the pair implements VipLock (ha.rs:11-14): the VIP  *)
(* is never on both interfaces, and never passes from one to the other in  *)
(* one step.                                                               *)
THEOREM VipIsALockCorrect ==
  ASSUME NormalOperation PROVE Safety => VipIsALock
<1>1. Init => Lock!Init BY DEF Init, Lock!Init
<1>2. /\ IInv /\ IInv' /\ LockInv /\ LockInv' /\ [Next]_vars
      => [Lock!Next]_({n \in Node : vip[n]})
  BY LockStep
<1> QED BY <1>1, <1>2, Invariance, LockInvariance, PTL
        DEF Safety, VipIsALock, Lock!Spec

(* Never two Active nodes, and the VIP is just where the Active one is,    *)
(* during handovers too (ha.rs, `run`: the old Active node releases it in  *)
(* the iteration in which it steps down).                                  *)
OneActive ==
  \A n \in Node : /\ IsActive(n) => ~IsActive(Peer(n))
                  /\ vip[n] <=> IsActive(n)

(* In normal operation at most one node is Active, and the VIP is there.   *)
THEOREM OneActiveCorrect ==
  ASSUME NormalOperation PROVE Safety => []OneActive
<1>1. LockInv => OneActive BY DEF LockInv, Alone, Calm, IsActive, OneActive
<1> QED BY <1>1, LockInvariance, PTL

(* A step changes the role of one node at most.                            *)
LEMMA OneRoleMoves ==
  ASSUME IInv, NormalOperation, LockInv, [Next]_vars
  PROVE  \E n \in Node : \A k \in Node : k # n => proc'[k].el.role = proc[k].el.role
<1>0. proc \in [Node -> Process] BY DEF IInv, HaPairTypeOK
<1>1. CASE \A k \in Node : proc'[k].el.role = proc[k].el.role
  BY <1>1, HaAssumption DEF HaAssumption
<1>2. ASSUME NEW n \in Node,
             Turns(n) \/ Start(n) \/ Booted(n) \/ CaughtUp(n) \/ StreamEnds(n)
      PROVE  \A k \in Node : k # n => proc'[k] = proc[k]
  <2>1. CASE Turns(n)
    <3>1. PICK r, v, t, inbox : Turn(n, r, v, t, inbox) BY <2>1 DEF Turns
    <3>2. proc' = [proc EXCEPT ![n] = r] BY <3>1 DEF Turn
    <3> QED BY <1>0, <3>2
  <2>2. CASE Start(n) BY <1>0, <2>2 DEF Start
  <2>3. CASE Booted(n) BY <1>0, <2>3 DEF Booted
  <2>4. CASE CaughtUp(n) BY <1>0, <2>4 DEF CaughtUp
  <2>5. CASE StreamEnds(n) BY <1>0, <2>5 DEF StreamEnds
  <2> QED BY <1>2, <2>1, <2>2, <2>3, <2>4, <2>5
<1>3. CASE Next
  <2>1. CASE Advance
    <3>1. \A k \in Node : proc'[k].el.role = proc[k].el.role
      BY <2>1, AdvancePasses DEF Passed
    <3> QED BY <1>1, <3>1
  <2>2. CASE \E n \in Node :
               Turns(n) \/ Start(n) \/ Booted(n) \/ CaughtUp(n) \/ StreamEnds(n)
    BY <1>2, <2>2
  <2> QED BY <1>3, <2>1, <2>2, NormalSteps
<1>4. CASE UNCHANGED vars BY <1>1, <1>4 DEF vars
<1> QED BY <1>3, <1>4

(* In normal operation a process that has just started never claims the    *)
(* role its peer has (ha.rs:44): the listen delay is long enough when the  *)
(* startup fits into one interval.                                         *)
THEOREM NewcomerListensCorrect ==
  ASSUME NormalOperation PROVE Safety => NewcomerListens
<1> DEFINE A == \A n \in Node :
                  proc[n].el.role = "Init" /\ proc'[n].el.role = "Active" =>
                    proc[Peer(n)].el.role # "Active"
<1>1. ASSUME IInv, LockInv, LockInv', [Next]_vars PROVE A
  <2> SUFFICES ASSUME NEW n \in Node, proc[n].el.role = "Init",
                      proc'[n].el.role = "Active"
               PROVE  proc[Peer(n)].el.role # "Active"
    OBVIOUS
  <2>1. PICK k \in Node :
          \A j \in Node : j # k => proc'[j].el.role = proc[j].el.role
    BY <1>1, OneRoleMoves
  <2>2. Peer(n) \in Node /\ Peer(n) # n BY PeerIsTheOther
  <2>3. proc'[Peer(n)].el.role = proc[Peer(n)].el.role BY <2>1, <2>2
  <2>4. proc'[Peer(n)].el.role # "Active" BY <1>1 DEF LockInv, Alone, IsActive
  <2> QED BY <2>3, <2>4
<1>2. IInv /\ LockInv /\ LockInv' /\ [Next]_vars => [A]_vars BY <1>1
<1> QED BY <1>2, Invariance, LockInvariance, PTL DEF Safety, NewcomerListens

=============================================================================
