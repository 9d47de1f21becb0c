------------------------------ MODULE FedRoute ------------------------------
(***************************************************************************)
(* Route adverts over loop-safe federation links (src/src/fedroute.rs,     *)
(* handle_subscriber of router.rs, cleanup_client of state.rs and          *)
(* attach_client of federation.rs): how the servers agree on where one     *)
(* ISSI is registered.                                                     *)
(*                                                                         *)
(* The module follows a single ISSI: the handlers treat one at a time, or  *)
(* several independently, and share only the registration clock between    *)
(* them.  A server's tables are behind one lock and the updates are queued *)
(* on the links while it is held, so a handler is one action.  The         *)
(* Basestations and Terminals of a server are one local place, Here.       *)
(*                                                                         *)
(* A registration clock is the wall clock in milliseconds, never below     *)
(* what the server has seen (tick, observe); the model lets it jump        *)
(* ahead freely up to MaxReg, so the servers' clocks may differ.  The      *)
(* clock of a server in "fast" is wrong by more than MAX_FUTURE_MS.        *)
(* Legacy peer links are the business of GroupCalls.                       *)
(***************************************************************************)
EXTENDS FedLink, FiniteSets

CONSTANTS
  Id,            \* server ids, numbers
  FirstId,       \* the id of each server's first life
  Gssi,          \* group numbers
  Here,          \* stands for the connection of a local registration
  MaxReg,        \* bound: registration clocks
  MaxPath,       \* MAX_PATH
  FastChoices,   \* which servers' clocks may be wrong together
  Home,          \* the servers the ISSI may turn up at
  Fragile,       \* the links that may break
  Restarts,      \* the servers that may start again
  MaxChanges,    \* bound: changes of registrations and affiliations
  MaxFailures,   \* bound: lost links and restarts
  MaxOpening     \* bound: links that are being set up at the same time

ASSUME FedRouteAssumption ==
  /\ Id \subseteq Nat
  /\ FirstId \in [Server -> Id]
  /\ \A s, t \in Server : FirstId[s] = FirstId[t] => s = t
  /\ Here \notin Link /\ Here # None
  /\ IsFiniteSet(Link)
  /\ Home \subseteq Server /\ Fragile \subseteq Link /\ Restarts \subseteq Server
  /\ MaxReg \in Nat /\ MaxPath \in Nat \ {0}
  /\ MaxChanges \in Nat /\ MaxFailures \in Nat /\ MaxOpening \in Nat
  /\ FastChoices \subseteq SUBSET Server

Day == MaxReg + 1

Reg == 0 .. Day + MaxReg

(* Subscriber of state.rs: a registration made here crosses no server.     *)
Entry ==
  [link : Link \union {Here}, reg : Reg, path : Seq(Id), groups : SUBSET Gssi]

(* Advert of fedroute.rs: what a link offers.                              *)
Advert == [reg : Reg, path : Seq(Id), groups : SUBSET Gssi]

ASSUME FedRouteNoneAssumption == None \notin Entry \union Advert

VARIABLES
  clock,         \* FedState::clock
  entry,         \* inner.subscribers: the effective route of the ISSI
  offers,        \* rib_in: the current offer of each link
  fast,          \* the servers whose clock is wrong
  used,          \* every server id given out so far
  changes,       \* how many of MaxChanges have happened
  failures       \* how many of MaxFailures have happened

routeVars == <<clock, entry, offers>>
bounds == <<changes, failures>>
vars == <<linkVars, routeVars, fast, used, bounds>>

RouteInit ==
  /\ clock = [s \in Server |-> 0]
  /\ entry = [s \in Server |-> None]
  /\ offers = [s \in Server |-> [l \in Link |-> None]]
  /\ fast \in FastChoices
  /\ used = {FirstId[s] : s \in Server}
  /\ changes = 0
  /\ failures = 0

Init ==
  /\ selfId = FirstId
  /\ session = [s \in Server |-> [l \in Link |-> Idle]]
  /\ wire = [s \in Server |-> NoMessages]
  /\ RouteInit

-----------------------------------------------------------------------------
(* Messages: FED_ROUTE and FED_WITHDRAW.                                   *)

RouteMsg(reg, path, groups) ==
  [type |-> "route", reg |-> reg, path |-> path, groups |-> groups]

WithdrawMsg == [type |-> "withdraw"]

Visits(path, id) == \E i \in 1..Len(path) : path[i] = id

(* parse: a route starts at the neighbour and crosses no server twice.     *)
WellFormed(msg, nbr) ==
  msg.type = "route" =>
    /\ Len(msg.path) \in 1..MaxPath
    /\ msg.path[1] = nbr
    /\ \A i, j \in 1..Len(msg.path) : msg.path[i] = msg.path[j] => i = j

(* fed_update: what link l of s is told while e is the effective route.    *)
FedUpdate(s, l, e) ==
  IF /\ e # None
     /\ e.link # l
     /\ ~Visits(e.path, session[s][l].nbr)
     /\ Len(e.path) < MaxPath
    THEN RouteMsg(e.reg, <<selfId[s]>> \o e.path, e.groups)
    ELSE WithdrawMsg

-----------------------------------------------------------------------------
(* Route selection.                                                        *)

Origin(path) == path[Len(path)]

Claim(advert) == [reg |-> advert.reg, origin |-> Origin(advert.path)]

Older(c, d) == c.reg < d.reg \/ (c.reg = d.reg /\ c.origin < d.origin)

(* The links whose offer is from the origin with the newest registration.  *)
Candidates(offs) ==
  {l \in Link : offs[l] # None
     /\ \E m \in Link : /\ offs[m] # None
                        /\ Origin(offs[l].path) = Origin(offs[m].path)
                        /\ \A k \in Link : offs[k] # None =>
                             ~Older(Claim(offs[m]), Claim(offs[k]))}

(* Of two links to the same neighbour at the same distance either may be   *)
(* the lower: their ids are drawn at random for every session.             *)
Nearest(s, offs, among) ==
  CHOOSE l \in among : \A m \in among :
    \/ Len(offs[l].path) < Len(offs[m].path)
    \/ /\ Len(offs[l].path) = Len(offs[m].path)
       /\ session[s][l].nbr <= session[s][m].nbr

(* select: the newest registration wins, the local one or the one of some  *)
(* origin; then the shortest way to it.                                    *)
Selected(s, local, offs) ==
  IF /\ Candidates(offs) # {}
     /\ local # None => \E l \in Candidates(offs) :
          Older([reg |-> local.reg, origin |-> selfId[s]], Claim(offs[l]))
    THEN LET l == Nearest(s, offs, Candidates(offs))
         IN  [link |-> l, reg |-> offs[l].reg, path |-> offs[l].path,
              groups |-> offs[l].groups]
    ELSE local

IsLocal(e) == e # None /\ e.link = Here

(* Mutant of reroute: the registration made here stays.                    *)
HoldsOn(s, current, offs) ==
  IF IsLocal(current) THEN current ELSE Selected(s, None, offs)

(* reroute: a registration kept here only survives while it is the newest. *)
Rerouted(s, current, offs) ==
  Selected(s, IF IsLocal(current) THEN current ELSE None, offs)

(* Mutant of publish: a route through a peer is not passed on again when   *)
(* only its groups have changed.                                           *)
OnlyMoves(s, w, new, links) ==
  Sent(w, s, [l \in Link |->
     IF /\ l \in links
        /\ new # entry[s]
        /\ ~(new # None /\ entry[s] # None /\ new.path # <<>>
             /\ new.reg = entry[s].reg /\ new.path = entry[s].path)
       THEN <<FedUpdate(s, l, new)>> ELSE <<>>])

(* Mutant of publish: what has been read is passed on, changed or not.     *)
EchoesAll(s, w, new, links) ==
  Sent(w, s, [l \in Link |->
     IF l \in links THEN <<FedUpdate(s, l, new)>> ELSE <<>>])

(* publish: every change of the effective route goes out on every link, in *)
(* the order the table went through them.                                  *)
Published(s, w, new, links) ==
  Sent(w, s, [l \in Link |->
     IF l \in links /\ new # entry[s] THEN <<FedUpdate(s, l, new)>> ELSE <<>>])

(* s takes new as its effective route; w are the queues before the updates.*)
TakesRoute(s, new, w, links) ==
  /\ entry' = [entry EXCEPT ![s] = new]
  /\ wire' = Published(s, w, new, links)

-----------------------------------------------------------------------------
(* Registrations at a server (handle_subscriber).                          *)

(* now_ms of s: a clock that is wrong is more than a day ahead.            *)
WallClock(s) == IF s \in fast THEN Day + 1 .. Day + MaxReg ELSE 1..MaxReg

TooNew(s, reg) == s \notin fast /\ reg > Day

(* tick: the wall clock, but above every registration seen.                *)
Ticks(s) == {r \in WallClock(s) : r > clock[s]}

Change(s) ==
  /\ s \in Home
  /\ changes < MaxChanges
  /\ changes' = changes + 1
  /\ UNCHANGED failures

Failure ==
  /\ failures < MaxFailures
  /\ failures' = failures + 1
  /\ UNCHANGED changes

LocalEntry(reg, groups) ==
  [link |-> Here, reg |-> reg, path |-> <<>>, groups |-> groups]

(* SUB_REGISTER and SUB_REREGISTER, which keep the ISSI's groups.          *)
Register(s) ==
  /\ Change(s)
  /\ \E reg \in Ticks(s) :
       /\ clock' = [clock EXCEPT ![s] = reg]
       /\ TakesRoute(s,
            LocalEntry(reg, IF entry[s] = None THEN {} ELSE entry[s].groups),
            wire, Attached(s))
  /\ UNCHANGED <<selfId, session, offers, fast, used>>

(* SUB_DEREGISTER by the connection it is registered on, or the end of     *)
(* that connection (cleanup_client): still reachable if a peer offers it.  *)
Deregister(s) ==
  /\ Change(s)
  /\ IsLocal(entry[s])
  /\ TakesRoute(s, Rerouted(s, None, offers[s]), wire, Attached(s))
  /\ UNCHANGED <<selfId, session, clock, offers, fast, used>>

(* SUB_AFFILIATE: of an unknown ISSI it is a registration as well; one     *)
(* registered elsewhere is turned away.                                    *)
Affiliate(s) ==
  /\ Change(s)
  /\ \E g \in Gssi :
       \/ /\ IsLocal(entry[s])
          /\ TakesRoute(s, [entry[s] EXCEPT !.groups = @ \union {g}],
                        wire, Attached(s))
          /\ UNCHANGED clock
       \/ /\ entry[s] = None
          /\ \E reg \in Ticks(s) :
               /\ clock' = [clock EXCEPT ![s] = reg]
               /\ TakesRoute(s, LocalEntry(reg, {g}), wire, Attached(s))
  /\ UNCHANGED <<selfId, session, offers, fast, used>>

Deaffiliate(s) ==
  /\ Change(s)
  /\ IsLocal(entry[s])
  /\ \E g \in Gssi :
       TakesRoute(s, [entry[s] EXCEPT !.groups = @ \ {g}], wire, Attached(s))
  /\ UNCHANGED <<selfId, session, clock, offers, fast, used>>

-----------------------------------------------------------------------------
(* Adverts from the neighbours (fedroute::handle).                         *)

(* What a server keeps of a message: a route through itself, or one        *)
(* registered too far in the future, withdraws what the link offered.      *)
Kept(s, msg) ==
  IF msg.type = "route" /\ ~TooNew(s, msg.reg) /\ ~Visits(msg.path, selfId[s])
    THEN [reg |-> msg.reg, path |-> msg.path, groups |-> msg.groups]
    ELSE None

Observed(s, advert) ==
  IF advert # None /\ advert.reg > clock[s] THEN advert.reg ELSE clock[s]

Handle(s, l) ==
  LET msg == Head(wire[s][l])
      advert == Kept(s, msg)
      offs == [offers[s] EXCEPT ![l] = advert]
  IN  /\ Unread(s, l)
      /\ IF WellFormed(msg, session[s][l].nbr)
           THEN /\ offers' = [offers EXCEPT ![s] = offs]
                /\ clock' = [clock EXCEPT ![s] = Observed(s, advert)]
                /\ TakesRoute(s, Rerouted(s, entry[s], offs), Rest(s, l),
                              Attached(s))
           ELSE /\ wire' = Rest(s, l)
                /\ UNCHANGED routeVars
      /\ UNCHANGED <<selfId, session, fast, used, bounds>>

-----------------------------------------------------------------------------
(* Links and restarts.                                                     *)

Opening == {l \in Link : \E s \in Server : Phase(s, l) = "open"}

Dial(l) ==
  /\ Connect(l)
  /\ Cardinality(Opening) < MaxOpening
  /\ UNCHANGED <<routeVars, fast, used, bounds>>

(* sync_messages: the table as it is now, and nothing of what the          *)
(* neighbour may not use.                                                  *)
SyncMessages(s, l) ==
  LET update == FedUpdate(s, l, entry[s])
  IN  IF update.type = "route" THEN <<update>> ELSE <<>>

(* attach_client, with the part of it that is about routes.                *)
Attach(s, l) ==
  /\ AttachEnd(s, l, SyncMessages(s, l))
  /\ UNCHANGED <<routeVars, fast, used, bounds>>

(* Mutant of cleanup_client: only the routes in use over the link go.      *)
KeepsOffers(s, l) ==
  /\ l \in LinksOf(s)
  /\ Phase(s, l) # "idle"
  /\ session' = ClosedEnds(s, {l})
  /\ TakesRoute(s, IF entry[s] # None /\ entry[s].link = l
                     THEN None ELSE entry[s],
                Dropped(s, {l}), Attached(s) \ {l})
  /\ UNCHANGED <<selfId, clock, offers, fast, used>>

(* cleanup_client of a peer link: its offer goes, the ISSI is routed anew. *)
Closes(s, l) ==
  LET offs == [offers[s] EXCEPT ![l] = None]
      kept == IF entry[s] # None /\ entry[s].link = l THEN None ELSE entry[s]
  IN  /\ l \in LinksOf(s)
      /\ Phase(s, l) # "idle"
      /\ session' = ClosedEnds(s, {l})
      /\ offers' = [offers EXCEPT ![s] = offs]
      /\ TakesRoute(s, Rerouted(s, kept, offs), Dropped(s, {l}),
                    Attached(s) \ {l})
      /\ UNCHANGED <<selfId, clock, fast, used>>

(* A link breaks: one end notices first.                                   *)
Break(s, l) ==
  /\ Failure
  /\ l \in Fragile
  /\ ~HalfOpen(s, l)
  /\ Closes(s, l)

(* The other end notices (read error, Close frame, keepalive).             *)
Notice(s, l) == HalfOpen(s, l) /\ Closes(s, l) /\ UNCHANGED bounds

(* The process starts again: nothing is kept, and the id is a new one.     *)
Restart(s) ==
  /\ Failure
  /\ s \in Restarts
  /\ \E id \in Id \ used :
       /\ selfId' = [selfId EXCEPT ![s] = id]
       /\ used' = used \union {id}
  /\ session' = ClosedEnds(s, Link)
  /\ wire' = Dropped(s, Link)
  /\ clock' = [clock EXCEPT ![s] = 0]
  /\ entry' = [entry EXCEPT ![s] = None]
  /\ offers' = [offers EXCEPT ![s] = [l \in Link |-> None]]
  /\ UNCHANGED fast

Next ==
  \/ \E s \in Server :
       \/ Register(s) \/ Deregister(s) \/ Affiliate(s) \/ Deaffiliate(s)
       \/ Restart(s)
       \/ \E l \in Link :
            Handle(s, l) \/ Attach(s, l) \/ Break(s, l) \/ Notice(s, l)
  \/ \E l \in Link : Dial(l)

Safety == Init /\ [][Next]_vars

(* Tokio runs the session tasks, and TCP or the keepalive ends a link      *)
(* whose far end has gone: what is waiting to be read, attached or noticed *)
(* is not left for ever.  Nothing makes a lost link come back.             *)
Pending ==
  \E s \in Server, l \in Link : Handle(s, l) \/ Attach(s, l) \/ Notice(s, l)

Spec == Safety /\ WF_vars(Pending)

-----------------------------------------------------------------------------
(* Properties.                                                             *)

(* Types of the tables and the queues: an effective route is local exactly *)
(* when it crosses no server, and an offer is held for attached links only *)
(* (rib_in and links of FedState, Subscriber of state.rs).                 *)
FedRouteTypeOK ==
  /\ selfId \in [Server -> Id]
  /\ session \in [Server -> [Link ->
       [phase : {"idle", "open", "attached"}, nbr : Id \union {None}]]]
  /\ \A s \in Server, l \in Link :
       /\ Phase(s, l) # "idle" => s \in Ends[l] /\ session[s][l].nbr # None
       /\ offers[s][l] # None => offers[s][l] \in Advert /\ l \in Attached(s)
       /\ \A i \in 1..Len(wire[s][l]) :
            \/ wire[s][l][i] = WithdrawMsg
            \/ \E reg \in Reg, gs \in SUBSET Gssi :
                 wire[s][l][i] = RouteMsg(reg, wire[s][l][i].path, gs)
  /\ clock \in [Server -> Reg]
  /\ \A s \in Server :
       \/ entry[s] = None
       \/ /\ entry[s] \in Entry
          /\ entry[s].link \in Attached(s) \union {Here}
          /\ (entry[s].link = Here) <=> (entry[s].path = <<>>)
  /\ fast \subseteq Server
  /\ used \subseteq Id
  /\ changes \in 0..MaxChanges
  /\ failures \in 0..MaxFailures

(* The last a link's far end holds, or will have read, of this server.     *)
LastWord(t, l) ==
  IF wire[t][l] # <<>> THEN Kept(t, wire[t][l][Len(wire[t][l])])
                       ELSE offers[t][l]

(* Whatever happens to the tables, and however updates, the initial sync   *)
(* and lost links interleave: on a link that has not broken the last word  *)
(* the neighbour has, or has yet to read, is the sender's present route    *)
(* (publish and attach_client queue every change under the lock).          *)
NeighboursAreTold ==
  \A s \in Server : \A l \in Attached(s) :
    Phase(Far(s, l), l) # "idle" =>
      LastWord(Far(s, l), l) =
        Kept(Far(s, l), FedUpdate(s, l, entry[s]))

Quiet ==
  \A s \in Server : \A l \in LinksOf(s) :
    /\ ~HalfOpen(s, l)
    /\ Phase(s, l) # "open"
    /\ wire[s][l] = <<>>

Linked(s, t, l) == Ends[l] = {s, t} /\ l \in Attached(s)

(* When every advert has been read, linked servers with sane clocks agree  *)
(* on whether the ISSI is registered, where, since when and in what groups *)
(* (the promise of the module comment of fedroute.rs).                     *)
ServersAgree ==
  Quiet => \A s, t \in Server \ fast : \A l \in Link :
    Linked(s, t, l) =>
      /\ entry[s] = None <=> entry[t] = None
      /\ entry[s] # None =>
           /\ entry[s].reg = entry[t].reg
           /\ entry[s].groups = entry[t].groups
           /\ Origin(<<selfId[s]>> \o entry[s].path)
                = Origin(<<selfId[t]>> \o entry[t].path)

(* ... and every remote route is the next hop's own route with one server  *)
(* more: following it reaches the registration, and never runs in a circle.*)
RoutesLeadHome ==
  Quiet => \A s \in Server :
    (entry[s] # None /\ entry[s].link # Here) =>
      LET hop == entry[Far(s, entry[s].link)]
      IN  /\ hop # None
          /\ entry[s].path = <<selfId[Far(s, entry[s].link)]>> \o hop.path
          /\ entry[s].reg = hop.reg
          /\ entry[s].groups = hop.groups

(* Adverts die out: no withdrawn or superseded route is chased around a    *)
(* ring for ever once registrations and links stay as they are.            *)
AdvertsDieOut == <>[][FALSE]_wire

=============================================================================
