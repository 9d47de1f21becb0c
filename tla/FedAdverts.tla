------------------------------ MODULE FedAdverts ------------------------------
(***************************************************************************)
(* What loop-safe federation links carry besides routes: emergency alarms, *)
(* positions of Basestations and positions of radios (the FED_EMERGENCY,   *)
(* FED_BTS and FED_MS_POS adverts of fedroute.rs), and the list of alarms  *)
(* that is pushed to dispatch consoles (emergency.rs).                     *)
(*                                                                         *)
(* A behaviour follows one thing of one kind: the handlers treat each on   *)
(* its own and share nothing but the links.  Alarms and Basestations have  *)
(* an origin that says on or off and repeats itself while it is on; what   *)
(* is not repeated goes stale.  The position of a radio has no owner, the  *)
(* newest one wins and never goes stale.                                   *)
(*                                                                         *)
(* Time passes in ticks of a refresh interval, and only when no message is *)
(* on its way and nothing due is left to be done.  An advert's seq is the  *)
(* origin's clock in milliseconds; only the order of those that somebody   *)
(* still holds matters, so a tick numbers them from one.                   *)
(***************************************************************************)
EXTENDS FedLink, FiniteSets, SequencesExt

CONSTANTS
  Kind,          \* "alarm", "site", "fix"
  Versions,      \* for each kind, the hello version of each server
  AdvId,         \* server ids, numbers
  AdvFirstId,    \* the id of each server's first life
  Life,          \* EM_STALE_MS / EM_REFRESH_MS, BTS_STALE_MS / BTS_REFRESH_MS
  AdvMaxPath,    \* MAX_PATH
  Origins,       \* for each kind, the servers whose Basestations report it
  Consoles,      \* servers with a dispatch console
  BrittleLinks,  \* links that may break
  AdvRestarts,   \* servers that may start again
  MaxEvents,     \* bound: alarms raised and cancelled, fixes, console changes
  MaxLosses      \* bound: broken links and restarts

ASSUME FedAdvertsAssumption ==
  /\ Kind \subseteq {"alarm", "site", "fix"}
  /\ Versions \in [Kind -> [Server -> 1..3]]
  /\ AdvId \subseteq Nat /\ AdvFirstId \in [Server -> AdvId]
  /\ Life \in Nat \ {0, 1} /\ AdvMaxPath \in Nat \ {0}
  /\ Origins \in [Kind -> SUBSET Server]
  /\ Consoles \cup AdvRestarts \subseteq Server
  /\ BrittleLinks \subseteq Link
  /\ MaxEvents \in Nat /\ MaxLosses \in Nat

VARIABLES
  kind,
  up,            \* telemetry of each server: the alarm is on, the site there
  own,           \* em_local / bts_local: seq of the last advert, or 0
  sent,          \* "no", "yes", or "due" again
  held,          \* em_remote / bts_remote: of each origin [on, seq, path, age]
  fix,           \* ms_pos: [at, path], or None
  told,          \* em_links / bts_links / ms_links: who announced support
  advClock,      \* last seq of each server, last at_ms of all
  shown,         \* what the console of each server shows; None without one
  pushed,        \* PushState::last
  events, losses

advBounds == <<events, losses>>
advVars == <<kind, up, own, sent, held, fix, told, advClock, shown,
             pushed, advBounds>>
advAll == <<linkVars, advVars>>

Needs == CASE kind = "site" -> 1 [] kind = "fix" -> 2 [] kind = "alarm" -> 3

Supports(s) == Versions[kind][s] >= Needs

Nothing == [id \in AdvId |-> None]

TablesInit ==
  /\ kind \in Kind
  /\ up = [s \in Server |-> FALSE]
  /\ own = [s \in Server |-> 0]
  /\ sent = [s \in Server |-> "no"]
  /\ held = [s \in Server |-> Nothing]
  /\ fix = [s \in Server |-> None]
  /\ told = [s \in Server |->
       IF Supports(s) THEN {l \in LinksOf(s) : Supports(Far(s, l))} ELSE {}]
  /\ advClock = [s \in Server |-> 0]
  /\ shown = [s \in Server |-> None]
  /\ pushed = [s \in Server |-> FALSE]
  /\ events = 0 /\ losses = 0

(* All links are up and have said hello, nothing has happened yet.         *)
AdvInit ==
  /\ selfId = AdvFirstId
  /\ session = [s \in Server |-> [l \in Link |->
       IF l \in LinksOf(s)
         THEN [phase |-> "attached", nbr |-> AdvFirstId[Far(s, l)]] ELSE Idle]]
  /\ wire = [s \in Server |-> NoMessages]
  /\ TablesInit

Event == events < MaxEvents /\ events' = events + 1 /\ UNCHANGED losses
Loss == losses < MaxLosses /\ losses' = losses + 1 /\ UNCHANGED events
Uncounted == UNCHANGED advBounds
SameLink == UNCHANGED <<selfId, session>>
SameRun == UNCHANGED kind

-----------------------------------------------------------------------------
(* Adverts.                                                                *)

Hello(s) == [type |-> "hello", version |-> Versions[kind][s]]

AdvertOf(on, seq, path) ==
  [type |-> "advert", on |-> on, seq |-> seq, path |-> path]

On(path, id) == \E i \in DOMAIN path : path[i] = id

(* relay_em, relay_bts, relay_ms: to every link that announced support but *)
(* the one it came from and those the advert has been past.                *)
RelayedOn(w, s, links, except, a) ==
  Sent(w, s, [l \in Link |->
    IF /\ l \in links /\ l # except
       /\ ~On(a.path, session[s][l].nbr)
       /\ Len(a.path) < AdvMaxPath
      THEN <<[a EXCEPT !.path = <<selfId[s]>> \o @]>> ELSE <<>>])

(* Refreshed within EM_STALE_MS or BTS_STALE_MS.                           *)
Live(e) == e # None /\ e.on /\ e.age < Life

Passable(path, nbr) == ~On(path, nbr) /\ Len(path) < AdvMaxPath

(* em_sync, bts_sync: what is on, told to a link that announced support;   *)
(* the order does not matter, they are of different origins.               *)
SyncOf(s, nbr) ==
  LET known == SetToSeq({id \in AdvId :
                 Live(held[s][id]) /\ Passable(held[s][id].path, nbr)})
  IN  (IF own[s] = 0 THEN <<>> ELSE <<AdvertOf(TRUE, own[s], <<selfId[s]>>)>>)
        \o [i \in DOMAIN known |->
             AdvertOf(TRUE, held[s][known[i]].seq,
                      <<selfId[s]>> \o held[s][known[i]].path)]

(* ms_sync.                                                                *)
MsSync(s, nbr) ==
  IF fix[s] # None /\ Passable(fix[s].path, nbr)
    THEN <<AdvertOf(TRUE, fix[s].at, <<selfId[s]>> \o fix[s].path)>>
    ELSE <<>>

(* purge_ephemeral, before every packet.                                   *)
PurgeBts(s) ==
  [id \in AdvId |-> IF held[s][id] # None /\ held[s][id].age >= Life
                      THEN None ELSE held[s][id]]

Foreign(s, a) == ~On(a.path, selfId[s])

(* accept_em, accept_bts.                                                  *)
AcceptEm(s, l, a) ==
  LET origin == a.path[Len(a.path)]
      kept == PurgeBts(s)
      new == Foreign(s, a)
               /\ (kept[origin] = None \/ kept[origin].seq < a.seq)
  IN  /\ held' = [held EXCEPT ![s] =
           IF new THEN [kept EXCEPT ![origin] =
                          [on |-> a.on, seq |-> a.seq, path |-> a.path, age |-> 0]]
                  ELSE kept]
      /\ wire' = IF new THEN RelayedOn(Rest(s, l), s, told[s], l, a)
                        ELSE Rest(s, l)
      /\ UNCHANGED <<fix, told>>

(* accept_ms.                                                              *)
AcceptMs(s, l, a) ==
  LET new == Foreign(s, a) /\ (fix[s] = None \/ fix[s].at < a.seq)
  IN  /\ fix' = IF new THEN [fix EXCEPT ![s] = [at |-> a.seq, path |-> a.path]]
                       ELSE fix
      /\ wire' = IF new THEN RelayedOn(Rest(s, l), s, told[s], l, a)
                        ELSE Rest(s, l)
      /\ UNCHANGED <<held, told>>

(* BtsHello: the link is told what there is.                               *)
BtsHello(s, l, version) ==
  LET nbr == session[s][l].nbr
      heard == version >= Needs /\ Supports(s)
  IN  /\ told' = IF heard THEN [told EXCEPT ![s] = @ \union {l}] ELSE told
      /\ wire' = IF heard
           THEN Sent(Rest(s, l), s, [NoMessages EXCEPT ![l] =
                  IF kind = "fix" THEN MsSync(s, nbr) ELSE SyncOf(s, nbr)])
           ELSE Rest(s, l)
      /\ UNCHANGED <<held, fix>>

(* handle of fedroute.rs.                                                  *)
FedHandle(s, l) ==
  LET msg == Head(wire[s][l])
  IN  /\ Unread(s, l)
      /\ IF msg.type = "hello" THEN BtsHello(s, l, msg.version)
         ELSE IF kind = "fix" THEN AcceptMs(s, l, msg)
         ELSE AcceptEm(s, l, msg)
      /\ SameLink /\ SameRun /\ Uncounted
      /\ UNCHANGED <<up, own, sent, advClock, shown, pushed>>

-----------------------------------------------------------------------------
(* Where adverts come from.                                                *)

(* A Basestation raises or cancels the alarm, or comes or goes.            *)
Toggles(s) ==
  /\ Event
  /\ kind # "fix" /\ s \in Origins[kind]
  /\ up' = [up EXCEPT ![s] = ~@]
  /\ UNCHANGED <<linkVars, own, sent, held, fix, told, advClock, shown, pushed>>
  /\ SameRun

(* advertise_emergency, advertise_bts.                                     *)
Advertise(s, on) ==
  LET seq == advClock[s] + 1
  IN  /\ advClock' = [advClock EXCEPT ![s] = seq]
      /\ own' = [own EXCEPT ![s] = IF on THEN seq ELSE 0]
      /\ wire' = IF on \/ own[s] # 0
           THEN RelayedOn(wire, s, told[s], None, AdvertOf(on, seq, <<>>))
           ELSE wire

AdvertDue(s) == kind # "fix" /\ sent[s] # (IF up[s] THEN "yes" ELSE "no")

(* advertise_if_due; a Basestation's SiteLocation and the end of its       *)
(* telemetry session.                                                      *)
AdvertiseIfDue(s) ==
  /\ AdvertDue(s)
  /\ Advertise(s, up[s])
  /\ sent' = [sent EXCEPT ![s] = IF up[s] THEN "yes" ELSE "no"]
  /\ UNCHANGED <<up, held, fix, told, shown, pushed>>
  /\ SameLink /\ SameRun /\ Uncounted

(* advertise_ms of a position decoded here; clocks may differ, so it can   *)
(* be older than one held.                                                 *)
AdvertiseMs(s, at) ==
  /\ Event
  /\ kind = "fix" /\ s \in Origins[kind]
  /\ \A t \in Server : fix[t] # None => fix[t].at # at
  /\ IF fix[s] # None /\ fix[s].at >= at
       THEN UNCHANGED <<fix, wire>>
       ELSE /\ fix' = [fix EXCEPT ![s] = [at |-> at, path |-> <<>>]]
            /\ wire' = RelayedOn(wire, s, told[s], None, AdvertOf(TRUE, at, <<>>))
  /\ UNCHANGED <<up, own, sent, held, told, advClock, shown, pushed>>
  /\ SameLink /\ SameRun

-----------------------------------------------------------------------------
(* Dispatch consoles.                                                      *)

(* snapshot: an alarm here, or a live one from another server.             *)
Snapshot(s) == up[s] \/ \E id \in AdvId : Live(held[s][id])

(* A mutant: the list is pushed only when it has changed.                  *)
PushChanged(s) == kind = "alarm" /\ Snapshot(s) # pushed[s]

(* push_if_due: on every change, and every few seconds while it is on.     *)
PushDue(s) ==
  /\ kind = "alarm"
  /\ Snapshot(s) # pushed[s] \/ (Snapshot(s) /\ shown[s] = FALSE)

PushIfDue(s) ==
  /\ PushDue(s)
  /\ pushed' = [pushed EXCEPT ![s] = Snapshot(s)]
  /\ shown' = [shown EXCEPT ![s] = IF @ = None THEN None ELSE Snapshot(s)]
  /\ UNCHANGED <<linkVars, up, own, sent, held, fix, told, advClock>>
  /\ SameRun /\ Uncounted

(* A console comes, with an empty list, or goes.                           *)
ConsoleChanges(s) ==
  /\ Event
  /\ kind = "alarm" /\ s \in Consoles
  /\ shown' = [shown EXCEPT ![s] = IF @ = None THEN FALSE ELSE None]
  /\ UNCHANGED <<linkVars, up, own, sent, held, fix, told, advClock, pushed>>
  /\ SameRun

-----------------------------------------------------------------------------
(* Links, restarts and time.                                               *)

AdvDial(l) ==
  /\ Connect(l)
  /\ UNCHANGED advVars

(* attach_client.                                                          *)
Greets(s, l) ==
  /\ AttachEnd(s, l, <<Hello(s)>>)
  /\ UNCHANGED advVars

(* cleanup_client.                                                         *)
Leaves(s, l) ==
  /\ l \in LinksOf(s) /\ Phase(s, l) # "idle"
  /\ session' = ClosedEnds(s, {l})
  /\ wire' = Dropped(s, {l})
  /\ told' = [told EXCEPT ![s] = @ \ {l}]
  /\ UNCHANGED <<selfId, up, own, sent, held, fix, advClock, shown, pushed>>
  /\ SameRun

LinkBreaks(s, l) ==
  /\ Loss
  /\ l \in BrittleLinks /\ ~HalfOpen(s, l)
  /\ Leaves(s, l)

FindsClosed(s, l) == HalfOpen(s, l) /\ Leaves(s, l) /\ Uncounted

(* The process starts again with a new id; Basestations and consoles will  *)
(* connect again.                                                          *)
StartsAgain(s) ==
  /\ Loss
  /\ s \in AdvRestarts
  /\ \E id \in AdvId \ {selfId[t] : t \in Server} :
       /\ \A t \in Server : held[t][id] = None
       /\ selfId' = [selfId EXCEPT ![s] = id]
  /\ session' = ClosedEnds(s, Link)
  /\ wire' = Dropped(s, Link)
  /\ up' = [up EXCEPT ![s] = FALSE]
  /\ own' = [own EXCEPT ![s] = 0]
  /\ sent' = [sent EXCEPT ![s] = "no"]
  /\ held' = [held EXCEPT ![s] = Nothing]
  /\ fix' = [fix EXCEPT ![s] = None]
  /\ told' = [told EXCEPT ![s] = {}]
  /\ shown' = [shown EXCEPT ![s] = None]
  /\ pushed' = [pushed EXCEPT ![s] = FALSE]
  /\ UNCHANGED advClock
  /\ SameRun

Aged(e, seqs) ==
  IF e = None THEN None
  ELSE [e EXCEPT !.age = IF @ < Life THEN @ + 1 ELSE @,
                 !.seq = Cardinality({n \in seqs : n <= e.seq})]

(* The seqs of origin id that are held by it or somebody else.             *)
SeqsOf(id) ==
  {held[t][id].seq : t \in {u \in Server : held[u][id] # None}} \union
  {own[t] : t \in {u \in Server : selfId[u] = id /\ own[u] # 0}}

TimeGoesOn ==
  /\ kind # "fix"
  /\ \A s \in Server : wire[s] = NoMessages /\ ~AdvertDue(s) /\ ~PushDue(s)
  /\ held' = [s \in Server |-> [id \in AdvId |-> Aged(held[s][id], SeqsOf(id))]]
  /\ own' = [s \in Server |-> Cardinality({n \in SeqsOf(selfId[s]) : n <= own[s]})]
  /\ advClock' = [s \in Server |-> Cardinality(SeqsOf(selfId[s]))]
  /\ sent' = [s \in Server |-> IF sent[s] = "yes" THEN "due" ELSE sent[s]]
  /\ UNCHANGED <<linkVars, up, fix, told, shown, pushed>>
  /\ SameRun /\ Uncounted

AdvNext ==
  \/ \E s \in Server :
       \/ Toggles(s) \/ AdvertiseIfDue(s) \/ PushIfDue(s) \/ ConsoleChanges(s)
       \/ StartsAgain(s)
       \/ \E at \in 1..MaxEvents : AdvertiseMs(s, at)
       \/ \E l \in Link : \/ FedHandle(s, l) \/ Greets(s, l)
                          \/ LinkBreaks(s, l) \/ FindsClosed(s, l)
  \/ \E l \in Link : AdvDial(l)
  \/ TimeGoesOn

(* Servers work on, dial lost links again, and time goes on.  Each of them *)
(* does in the code; that one of them does is enough.                      *)
AdvFairness ==
  /\ WF_advAll(\E s \in Server : AdvertiseIfDue(s) \/ PushIfDue(s))
  /\ WF_advAll(\E s \in Server, l \in Link :
               FedHandle(s, l) \/ Greets(s, l) \/ FindsClosed(s, l))
  /\ WF_advAll(\E l \in Link : AdvDial(l))
  /\ WF_advAll(TimeGoesOn)

AdvSpec == AdvInit /\ [][AdvNext]_advAll /\ AdvFairness

-----------------------------------------------------------------------------
(* What each server, and each console, makes of it.                        *)
Believes(s) == IF shown[s] = None THEN Snapshot(s) ELSE shown[s]

(* However links break, servers start again, and adverts overtake each     *)
(* other on the ways round: in the end every server shows an alarm (and    *)
(* its consoles too) or a Basestation exactly if it is on somewhere, and   *)
(* all servers have the same, newest position of a radio.  In particular   *)
(* an alarm whose origin is gone goes out (accept_em, accept_bts,          *)
(* accept_ms, em_sync, push_if_due).                                       *)
AdvertsSettle ==
  <>[](\A s \in Server : Supports(s) =>
         IF kind = "fix"
           THEN \A t \in Server : Supports(t) =>
                  (fix[s] # None <=> fix[t] # None)
                    /\ (fix[s] # None => fix[s].at = fix[t].at)
           ELSE Believes(s) = \E t \in Server : up[t])
=============================================================================
