--------------------------- MODULE FedRouteProofs ---------------------------
(***************************************************************************)
(* Safety of the route adverts, for every federation, however its links    *)
(* come and go: the last word of a server to a neighbour is its present    *)
(* route, and once all adverts are read the servers agree.                 *)
(***************************************************************************)
EXTENDS MCFederation, TLAPS, FiniteSetTheorems, WellFoundedInduction

-----------------------------------------------------------------------------
(* The inductive invariant.                                                *)

Message ==
  {WithdrawMsg} \union
  [type : {"route"}, reg : Reg, path : Seq(Id), groups : SUBSET Gssi]

End == [phase : {"idle", "open", "attached"}, nbr : Id \union {None}]

RouteTypes ==
  /\ selfId \in [Server -> Id]
  /\ session \in [Server -> [Link -> End]]
  /\ wire \in [Server -> [Link -> Seq(Message)]]
  /\ clock \in [Server -> Reg]
  /\ entry \in [Server -> Entry \union {None}]
  /\ offers \in [Server -> [Link -> Advert \union {None}]]
  /\ fast \subseteq Server
  /\ used \subseteq Id
  /\ changes \in 0..MaxChanges
  /\ failures \in 0..MaxFailures

(* A server id is given out once.                                          *)
IdsDiffer ==
  /\ \A s \in Server : selfId[s] \in used
  /\ \A s, t \in Server : selfId[s] = selfId[t] => s = t

(* An end knows the far end's present id as long as both are up.           *)
EndsBelong ==
  \A s \in Server, l \in Link :
    /\ Phase(s, l) # "idle" =>
         /\ s \in Ends[l]
         /\ session[s][l].nbr \in Id
         /\ Phase(Far(s, l), l) # "idle" =>
              session[s][l].nbr = selfId[Far(s, l)]
    /\ offers[s][l] # None => Phase(s, l) = "attached"

(* What is on its way will not be taken for a bad message.                 *)
MessagesAreReadable ==
  \A s \in Server, l \in Link : Phase(s, l) # "idle" =>
    \A i \in 1..Len(wire[s][l]) : WellFormed(wire[s][l][i], session[s][l].nbr)

(* An end that has not attached has said nothing.                          *)
OpenEndsAreSilent ==
  \A s \in Server, l \in Link :
    Phase(s, l) = "open" /\ Phase(Far(s, l), l) # "idle" =>
      wire[Far(s, l)][l] = <<>> /\ offers[Far(s, l)][l] = None

(* A path crosses no server twice, and not server id.                      *)
Simple(path, id) ==
  /\ Len(path) <= MaxPath
  /\ ~Visits(path, id)
  /\ \A i, j \in 1..Len(path) : path[i] = path[j] => i = j

(* The route a link offers, as an entry.                                   *)
Via(l, offer) ==
  [link |-> l, reg |-> offer.reg, path |-> offer.path, groups |-> offer.groups]

(* What server id may hold of a link when its clock has seen "seen" and is *)
(* "wrong" or not.                                                         *)
OfferOK(offer, id, seen, wrong) ==
  /\ offer.path # <<>>
  /\ Simple(offer.path, id)
  /\ offer.reg <= seen
  /\ wrong \/ offer.reg <= Day

(* The route in use is local, or is what its link offers.                  *)
EntryOK(e, offs, id, seen, wrong) ==
  /\ Simple(e.path, id)
  /\ e.link = Here <=> e.path = <<>>
  /\ e.reg <= seen
  /\ wrong \/ e.reg <= Day
  /\ e.link # Here => offs[e.link] # None /\ e = Via(e.link, offs[e.link])

(* The claim of server id by an entry, a registration made there or not.   *)
ClaimOf(e, id) == [reg |-> e.reg, origin |-> Origin(<<id>> \o e.path)]

(* No offer is newer than the route in use, or than another offer of the   *)
(* same origin.                                                            *)
Newest(e, id, offs) ==
  \A k \in Link : offs[k] # None =>
    /\ e # None
    /\ \/ ~Older(ClaimOf(e, id), Claim(offs[k]))
       \/ \E m \in Link :
            /\ offs[m] # None
            /\ Claim(offs[m]).origin = ClaimOf(e, id).origin
            /\ ~Older(Claim(offs[m]), Claim(offs[k]))

TableOK(e, offs, id, seen, wrong) ==
  /\ \A l \in Link : offs[l] # None => OfferOK(offs[l], id, seen, wrong)
  /\ e # None => EntryOK(e, offs, id, seen, wrong)
  /\ Newest(e, id, offs)

TablesAreOK ==
  \A s \in Server :
    TableOK(entry[s], offers[s], selfId[s], clock[s], s \in fast)

IInv ==
  /\ RouteTypes
  /\ IdsDiffer
  /\ EndsBelong
  /\ MessagesAreReadable
  /\ OpenEndsAreSilent
  /\ TablesAreOK
  /\ NeighboursAreTold

-----------------------------------------------------------------------------
(* Links and numbers.                                                      *)

(* The far end of a link: another server, whose far end is this one.       *)
LEMMA FarEnd ==
  ASSUME NEW l \in Link, NEW s \in Ends[l]
  PROVE  /\ s \in Server
         /\ Far(s, l) \in Server
         /\ Far(s, l) \in Ends[l]
         /\ Far(s, l) # s
         /\ Far(Far(s, l), l) = s
         /\ Ends[l] = {s, Far(s, l)}
<1>1. PICK a, b \in Server : a # b /\ Ends[l] = {a, b}
  BY FedLinkAssumption
<1>2. \A t \in {a, b} : Far(t, l) \in {a, b} /\ Far(t, l) # t
  BY <1>1 DEF Far
<1> QED BY <1>1, <1>2

(* A set of natural numbers that is not empty has a least one.             *)
LEMMA HasLeast ==
  ASSUME NEW N \in SUBSET Nat, N # {}
  PROVE  \E n \in N : \A m \in N : n <= m
<1>1. PICK n \in N : \A m \in N : ~(<<m, n>> \in OpToRel(<, Nat))
  BY WFMin, NatLessThanWellFounded
<1>2. \A m \in N : ~(m < n)
  BY <1>1 DEF OpToRel
<1> QED BY <1>2

AClaim == [reg : Nat, origin : Nat]

(* Older is an order, and of two claims that differ one is the older.      *)
LEMMA OlderIsOrder ==
  ASSUME NEW c \in AClaim, NEW d \in AClaim, NEW e \in AClaim
  PROVE  /\ ~Older(c, c)
         /\ ~Older(c, d) \/ ~Older(d, c)
         /\ ~Older(c, d) /\ ~Older(d, e) => ~Older(c, e)
         /\ ~Older(c, d) /\ ~Older(d, c) => c.reg = d.reg /\ c.origin = d.origin
BY DEF AClaim, Older

-----------------------------------------------------------------------------
(* Route selection.                                                        *)

OfferTable ==
  {offs \in [Link -> Advert \union {None}] :
     \A l \in Link : offs[l] # None => offs[l].path # <<>>}

(* A path that is not empty comes from a server.                           *)
LEMMA OriginIsAnId ==
  ASSUME NEW path \in Seq(Id), path # <<>>
  PROVE  Origin(path) \in Id
<1>1. Len(path) \in 1..Len(path)
  BY SMT
<1> QED BY <1>1 DEF Origin

(* A server in front of a path is its origin only if it is alone.          *)
LEMMA OriginBehind ==
  ASSUME NEW path \in Seq(Id), NEW id \in Id
  PROVE  /\ path = <<>> => Origin(<<id>> \o path) = id
         /\ path # <<>> => Origin(<<id>> \o path) = Origin(path)
<1>1. Len(<<id>> \o path) = 1 + Len(path)
  OBVIOUS
<1>2. path # <<>> => Len(path) \in 1..Len(path)
  BY SMT
<1> QED BY <1>1, <1>2 DEF Origin

(* An advert makes a claim.                                                *)
LEMMA AdvertClaims ==
  ASSUME NEW offs \in OfferTable, NEW l \in Link, offs[l] # None
  PROVE  /\ offs[l] \in Advert
         /\ Claim(offs[l]) \in AClaim
         /\ Claim(offs[l]).origin = Origin(offs[l].path)
<1>1. offs[l] \in Advert /\ offs[l].path # <<>>
  BY DEF OfferTable
<1>2. offs[l].reg \in Nat /\ offs[l].path \in Seq(Id)
  BY <1>1, FedRouteAssumption DEF Advert, Reg, Day
<1>3. Origin(offs[l].path) \in Nat
  BY <1>1, <1>2, OriginIsAnId, FedRouteAssumption
<1> QED BY <1>1, <1>2, <1>3 DEF Claim, AClaim

(* So does an entry.                                                       *)
LEMMA EntryClaims ==
  ASSUME NEW e \in Entry, NEW id \in Id
  PROVE  /\ ClaimOf(e, id) \in AClaim
         /\ ClaimOf(e, id).reg = e.reg
         /\ ClaimOf(e, id).origin = Origin(<<id>> \o e.path)
         /\ e.path = <<>> => ClaimOf(e, id).origin = id
         /\ e.path # <<>> => ClaimOf(e, id).origin = Origin(e.path)
<1>1. e.reg \in Nat /\ e.path \in Seq(Id)
  BY FedRouteAssumption DEF Entry, Reg, Day
<1>2. Origin(<<id>> \o e.path) \in Nat
  BY <1>1, OriginBehind, OriginIsAnId, FedRouteAssumption
<1> QED BY <1>1, <1>2, OriginBehind DEF ClaimOf, AClaim

(* Of finitely many claims one is the newest.                              *)
LEMMA NewestClaim ==
  ASSUME NEW offs \in OfferTable,
         NEW T \in SUBSET {l \in Link : offs[l] # None}, T # {}
  PROVE  \E m \in T : \A k \in T : ~Older(Claim(offs[m]), Claim(offs[k]))
<1> DEFINE Offering == {l \in Link : offs[l] # None}
           Lacks(S) == \A m \in S : \E k \in S : Older(Claim(offs[m]), Claim(offs[k]))
           Bad == {n \in Nat : \E S \in SUBSET Offering :
                     S # {} /\ Cardinality(S) = n /\ Lacks(S)}
<1>1. SUFFICES ASSUME Lacks(T) PROVE FALSE
  OBVIOUS
<1>2. \A S \in SUBSET Offering : IsFiniteSet(S) /\ Cardinality(S) \in Nat
  BY FedRouteAssumption, FS_Subset, FS_CardinalityType
<1>3. Cardinality(T) \in Bad
  BY <1>1, <1>2
<1>4. PICK n \in Bad : \A m \in Bad : n <= m
  <2> HIDE DEF Bad
  <2>1. Bad \in SUBSET Nat
    BY DEF Bad
  <2> QED BY <1>3, <2>1, HasLeast
<1>5. PICK S \in SUBSET Offering : S # {} /\ Cardinality(S) = n /\ Lacks(S)
  BY <1>4
<1>6. PICK x \in S : TRUE
  BY <1>5
<1>7. \A l \in S : Claim(offs[l]) \in AClaim
  BY AdvertClaims
<1>8. IsFiniteSet(S \ {x}) /\ Cardinality(S \ {x}) = n - 1 /\ n \in Nat
  BY <1>2, <1>4, <1>5, <1>6, FS_RemoveElement
<1>9. S \ {x} # {}
  BY <1>5, <1>6, <1>7, OlderIsOrder
<1>10. ~Lacks(S \ {x})
  <2>1. S \ {x} \in SUBSET Offering
    OBVIOUS
  <2>2. SUFFICES ASSUME Lacks(S \ {x}) PROVE FALSE
    OBVIOUS
  <2>3. n - 1 \in Bad
    BY <1>2, <1>8, <1>9, <2>1, <2>2
  <2> HIDE DEF Bad
  <2> QED BY <1>4, <1>8, <2>3
<1>11. PICK m \in S \ {x} : \A k \in S \ {x} : ~Older(Claim(offs[m]), Claim(offs[k]))
  BY <1>10
<1>12. CASE ~Older(Claim(offs[m]), Claim(offs[x]))
  BY <1>5, <1>11, <1>12
<1>13. CASE Older(Claim(offs[m]), Claim(offs[x]))
  <2>1. ~Older(Claim(offs[x]), Claim(offs[m])) /\ ~Older(Claim(offs[x]), Claim(offs[x]))
    BY <1>6, <1>7, <1>11, <1>13, OlderIsOrder
  <2>2. \A k \in S \ {x} : ~Older(Claim(offs[x]), Claim(offs[k]))
    BY <1>6, <1>7, <1>11, <2>1, OlderIsOrder
  <2> QED BY <1>5, <1>6, <2>1, <2>2
<1> QED BY <1>12, <1>13

(* Two claims of one origin differ only in the registration, and the       *)
(* candidates are those of the origin of a newest offer.                   *)
LEMMA CandidateIsNewest ==
  ASSUME NEW offs \in OfferTable, NEW l \in Candidates(offs)
  PROVE  /\ l \in Link /\ offs[l] # None
         /\ \E m \in Link :
              /\ offs[m] # None
              /\ Claim(offs[m]).origin = Claim(offs[l]).origin
              /\ \A k \in Link : offs[k] # None =>
                   ~Older(Claim(offs[m]), Claim(offs[k]))
BY AdvertClaims DEF Candidates

(* An offer there is makes some link a candidate, one with a newest offer. *)
LEMMA SomeCandidate ==
  ASSUME NEW offs \in OfferTable, NEW l \in Link, offs[l] # None
  PROVE  \E m \in Candidates(offs) :
           \A k \in Link : offs[k] # None => ~Older(Claim(offs[m]), Claim(offs[k]))
<1> DEFINE T == {k \in Link : offs[k] # None}
<1>1. T # {}
  OBVIOUS
<1>2. PICK m \in T : \A k \in T : ~Older(Claim(offs[m]), Claim(offs[k]))
  BY <1>1, NewestClaim
<1> QED BY <1>2 DEF Candidates

(* The nearest of some links is one of them.                               *)
LEMMA NearestIsOne ==
  ASSUME NEW s \in Server, NEW offs \in OfferTable,
         NEW among \in SUBSET {l \in Link : offs[l] # None}, among # {},
         \A l \in among : session[s][l].nbr \in Id
  PROVE  Nearest(s, offs, among) \in among
<1> DEFINE Lengths == {Len(offs[l].path) : l \in among}
<1>1. \A l \in among : Len(offs[l].path) \in Nat
  BY AdvertClaims DEF Advert
<1>2. PICK n \in Lengths : \A m \in Lengths : n <= m
  <2>1. Lengths # {} /\ Lengths \in SUBSET Nat
    BY <1>1
  <2> QED BY <2>1, HasLeast
<1> DEFINE Nbrs == {i \in Nat : \E l \in among :
                      Len(offs[l].path) = n /\ session[s][l].nbr = i}
<1>3. PICK i \in Nbrs : \A j \in Nbrs : i <= j
  <2>1. PICK l \in among : Len(offs[l].path) = n
    BY <1>2
  <2>2. session[s][l].nbr \in Nbrs
    BY <2>1, FedRouteAssumption
  <2>3. Nbrs \in SUBSET Nat
    OBVIOUS
  <2> HIDE DEF Nbrs
  <2>4. Nbrs # {}
    BY <2>2
  <2> QED BY <2>3, <2>4, HasLeast
<1>4. PICK l \in among : Len(offs[l].path) = n /\ session[s][l].nbr = i
  BY <1>3
<1> HIDE DEF Lengths
<1>5. \A m \in among :
        \/ Len(offs[l].path) < Len(offs[m].path)
        \/ /\ Len(offs[l].path) = Len(offs[m].path)
           /\ session[s][l].nbr <= session[s][m].nbr
  <2> TAKE m \in among
  <2>1. n <= Len(offs[m].path)
    BY <1>2 DEF Lengths
  <2>2. CASE Len(offs[m].path) = n
    BY <1>3, <1>4, <2>2, FedRouteAssumption
  <2>3. CASE Len(offs[m].path) # n
    BY ONLY <1>1, <1>4, <2>1, <2>3, l \in among, m \in among
  <2> QED BY <2>2, <2>3
<1> HIDE DEF Nbrs
<1> QED BY <1>5 DEF Nearest

(* What select returns: the registration made here, which is then at least *)
(* as new as every offer, or the route a link offers; and no offer is      *)
(* newer.                                                                  *)
LEMMA SelectedIsNewest ==
  ASSUME NEW s \in Server, selfId[s] \in Id,
         NEW offs \in OfferTable,
         \A l \in Link : offs[l] # None => session[s][l].nbr \in Id,
         NEW local \in Entry \union {None},
         local # None => local.path = <<>>
  PROVE  /\ \/ Selected(s, local, offs) = local
            \/ \E l \in Link : /\ offs[l] # None
                               /\ Selected(s, local, offs) = Via(l, offs[l])
         /\ Newest(Selected(s, local, offs), selfId[s], offs)
<1> DEFINE Mine == [reg |-> local.reg, origin |-> selfId[s]]
           Beaten == /\ Candidates(offs) # {}
                     /\ local # None => \E l \in Candidates(offs) :
                          Older(Mine, Claim(offs[l]))
           best == Nearest(s, offs, Candidates(offs))
<1>1. \A l \in Candidates(offs) : l \in Link /\ offs[l] # None
  BY DEF Candidates
<1>2. local # None => ClaimOf(local, selfId[s]) = Mine /\ Mine \in AClaim
  BY EntryClaims DEF ClaimOf, AClaim
<1>3. CASE Beaten
  <2>1. best \in Candidates(offs)
    BY <1>1, <1>3, NearestIsOne
  <2>2. Selected(s, local, offs) = Via(best, offs[best])
    BY <1>3 DEF Selected, Via
  <2> HIDE DEF best
  <2>3. offs[best] \in Advert /\ offs[best].path # <<>> /\ best \in Link /\ offs[best] # None
    BY <1>1, <2>1, AdvertClaims DEF OfferTable
  <2>4. Via(best, offs[best]) \in Entry
    BY <2>3 DEF Via, Entry, Advert, Reg
  <2>5. ClaimOf(Via(best, offs[best]), selfId[s]).origin = Claim(offs[best]).origin
    BY <2>3, <2>4, EntryClaims, AdvertClaims DEF Via
  <2>6. PICK m \in Link :
          /\ offs[m] # None
          /\ Claim(offs[m]).origin = Claim(offs[best]).origin
          /\ \A k \in Link : offs[k] # None => ~Older(Claim(offs[m]), Claim(offs[k]))
    BY <2>1, CandidateIsNewest
  <2>7. Newest(Via(best, offs[best]), selfId[s], offs)
    BY <2>4, <2>5, <2>6, FedRouteNoneAssumption DEF Newest
  <2> QED BY <2>2, <2>3, <2>7
<1>4. CASE ~Beaten
  <2>1. Selected(s, local, offs) = local
    BY <1>4 DEF Selected
  <2>2. ASSUME NEW k \in Link, offs[k] # None
        PROVE  local # None /\ ~Older(ClaimOf(local, selfId[s]), Claim(offs[k]))
    <3>1. PICK m \in Candidates(offs) :
            \A j \in Link : offs[j] # None => ~Older(Claim(offs[m]), Claim(offs[j]))
      BY <2>2, SomeCandidate
    <3>2. local # None /\ ~Older(Mine, Claim(offs[m]))
      BY <1>4, <3>1
    <3>3. Claim(offs[m]) \in AClaim /\ Claim(offs[k]) \in AClaim
      BY <1>1, <2>2, <3>1, AdvertClaims
    <3>4. ~Older(Claim(offs[m]), Claim(offs[k]))
      BY <2>2, <3>1
    <3> HIDE DEF Mine
    <3>5. ~Older(Mine, Claim(offs[k]))
      BY <1>2, <3>2, <3>3, <3>4, OlderIsOrder
    <3> QED BY <1>2, <3>2, <3>5
  <2> QED BY <2>1, <2>2 DEF Newest
<1> QED BY <1>3, <1>4

-----------------------------------------------------------------------------
(* Messages.                                                               *)

(* Kept and FedUpdate, with what they read of the server's state.          *)
KeptBy(id, wrong, msg) ==
  IF msg.type = "route" /\ ~(~wrong /\ msg.reg > Day) /\ ~Visits(msg.path, id)
    THEN [reg |-> msg.reg, path |-> msg.path, groups |-> msg.groups]
    ELSE None

UpdateOf(id, nbr, l, e) ==
  IF /\ e # None
     /\ e.link # l
     /\ ~Visits(e.path, nbr)
     /\ Len(e.path) < MaxPath
    THEN RouteMsg(e.reg, <<id>> \o e.path, e.groups)
    ELSE WithdrawMsg

(* The last word an end holds or will have read, of what it has in queue.  *)
WordOf(id, wrong, queue, offer) ==
  IF queue # <<>> THEN KeptBy(id, wrong, queue[Len(queue)]) ELSE offer

(* An update is a message the neighbour can read.                          *)
LEMMA UpdateIsReadable ==
  ASSUME NEW id \in Id, NEW nbr, NEW l, NEW e \in Entry \union {None},
         e # None => Simple(e.path, id)
  PROVE  /\ UpdateOf(id, nbr, l, e) \in Message
         /\ WellFormed(UpdateOf(id, nbr, l, e), id)
<1>1. CASE UpdateOf(id, nbr, l, e) = WithdrawMsg
  BY <1>1 DEF WithdrawMsg, Message, WellFormed
<1>2. CASE UpdateOf(id, nbr, l, e) # WithdrawMsg
  <2>1. /\ e \in Entry /\ Len(e.path) < MaxPath /\ Simple(e.path, id)
        /\ UpdateOf(id, nbr, l, e) = RouteMsg(e.reg, <<id>> \o e.path, e.groups)
    BY <1>2 DEF UpdateOf
  <2>2. PICK path : path = e.path
    OBVIOUS
  <2>3. path \in Seq(Id) /\ e.reg \in Reg /\ e.groups \in SUBSET Gssi
    BY <2>1, <2>2 DEF Entry
  <2>4. RouteMsg(e.reg, <<id>> \o path, e.groups) \in Message
    BY <2>3 DEF RouteMsg, Message
  <2>5. /\ Len(<<id>> \o path) = 1 + Len(path)
        /\ (<<id>> \o path)[1] = id
        /\ \A i \in 2..(1 + Len(path)) : (<<id>> \o path)[i] = path[i - 1]
    BY <2>3
  <2>6. \A i \in 1..Len(path) : path[i] # id
    BY <2>1, <2>2 DEF Simple, Visits
  <2>7. \A i, j \in 1..Len(path) : path[i] = path[j] => i = j
    BY <2>1, <2>2 DEF Simple
  <2>8. Len(path) \in Nat /\ Len(path) < MaxPath /\ MaxPath \in Nat
    BY <2>1, <2>2, <2>3, FedRouteAssumption
  <2>9. ASSUME NEW i \in 1..(1 + Len(path)), NEW j \in 1..(1 + Len(path)),
               (<<id>> \o path)[i] = (<<id>> \o path)[j]
        PROVE  i = j
    <3>1. CASE i = 1 \/ j = 1
      <4>1. \A k \in 2..(1 + Len(path)) : (<<id>> \o path)[k] # id
        BY ONLY <2>5, <2>6, <2>8
      <4> QED BY ONLY <2>5, <2>8, <2>9, <3>1, <4>1
    <3>2. CASE i # 1 /\ j # 1
      <4>1. i - 1 \in 1..Len(path) /\ j - 1 \in 1..Len(path)
        BY <2>8, <3>2
      <4>2. path[i - 1] = path[j - 1]
        BY <2>5, <2>8, <2>9, <3>2
      <4> QED BY <2>7, <2>8, <4>1, <4>2
    <3> QED BY <3>1, <3>2
  <2>10. WellFormed(RouteMsg(e.reg, <<id>> \o path, e.groups), id)
    BY <2>5, <2>8, <2>9 DEF WellFormed, RouteMsg
  <2> QED BY <2>1, <2>2, <2>4, <2>10
<1> QED BY <1>1, <1>2

(* What is kept of a readable message may be held.                         *)
LEMMA KeptIsOK ==
  ASSUME NEW msg \in Message, NEW nbr, WellFormed(msg, nbr),
         NEW id, NEW wrong
  PROVE  /\ KeptBy(id, wrong, msg) \in Advert \union {None}
         /\ KeptBy(id, wrong, msg) # None =>
              \A seen : KeptBy(id, wrong, msg).reg <= seen =>
                OfferOK(KeptBy(id, wrong, msg), id, seen, wrong)
<1>1. CASE KeptBy(id, wrong, msg) = None
  BY <1>1
<1>2. CASE KeptBy(id, wrong, msg) # None
  <2>1. /\ msg.type = "route" /\ ~(~wrong /\ msg.reg > Day) /\ ~Visits(msg.path, id)
        /\ KeptBy(id, wrong, msg) =
             [reg |-> msg.reg, path |-> msg.path, groups |-> msg.groups]
    BY <1>2 DEF KeptBy
  <2>2. msg \in [type : {"route"}, reg : Reg, path : Seq(Id), groups : SUBSET Gssi]
    BY <2>1 DEF Message, WithdrawMsg
  <2>3. /\ Len(msg.path) \in 1..MaxPath
        /\ \A i, j \in 1..Len(msg.path) : msg.path[i] = msg.path[j] => i = j
    BY <2>1 DEF WellFormed
  <2>4. msg.path # <<>> /\ Simple(msg.path, id)
    BY <2>1, <2>2, <2>3, FedRouteAssumption DEF Simple
  <2>5. wrong \/ msg.reg <= Day
    BY <2>1, <2>2, FedRouteAssumption DEF Reg, Day
  <2> QED BY <2>1, <2>2, <2>4, <2>5 DEF OfferOK, Advert
<1> QED BY <1>1, <1>2

(* What is appended is the last.                                           *)
LEMMA LastAppended ==
  ASSUME NEW queue \in Seq(Message), NEW msg \in Message
  PROVE  /\ Append(queue, msg) # <<>>
         /\ Append(queue, msg)[Len(Append(queue, msg))] = msg
OBVIOUS

(* What is on a queue after more has been sent on some links.              *)
LEMMA PublishedIs ==
  ASSUME NEW s \in Server, NEW w, NEW new, NEW links,
         NEW t \in Server, NEW k \in Link, w[t][k] \in Seq(Message),
         UpdateOf(selfId[s], session[s][k].nbr, k, new) \in Message
  PROVE  Published(s, w, new, links)[t][k] =
           IF /\ s \in Ends[k] /\ t = Far(s, k) /\ Phase(t, k) # "idle"
              /\ k \in links /\ new # entry[s]
             THEN Append(w[t][k], UpdateOf(selfId[s], session[s][k].nbr, k, new))
             ELSE w[t][k]
<1>1. FedUpdate(s, k, new) = UpdateOf(selfId[s], session[s][k].nbr, k, new)
  BY DEF FedUpdate, UpdateOf
<1>2. w[t][k] \o <<>> = w[t][k]
  OBVIOUS
<1>3. w[t][k] \o <<FedUpdate(s, k, new)>> = Append(w[t][k], FedUpdate(s, k, new))
  BY <1>1
<1> QED BY <1>1, <1>2, <1>3 DEF Published, Sent

(* NeighboursAreTold in these terms.                                       *)
IsTold(u, k, t) ==
  WordOf(selfId[t], t \in fast, wire[t][k], offers[t][k]) =
    KeptBy(selfId[t], t \in fast,
           UpdateOf(selfId[u], session[u][k].nbr, k, entry[u]))

(* What a server keeps of a message depends on its id and its clock only.  *)
LEMMA KeptIs ==
  ASSUME NEW t \in Server, NEW msg
  PROVE  Kept(t, msg) = KeptBy(selfId[t], t \in fast, msg)
BY DEF Kept, KeptBy, TooNew

(* What a server sends on a link, in terms of what it knows of the link.   *)
LEMMA UpdateIs ==
  ASSUME NEW u \in Server, NEW k \in Link
  PROVE  FedUpdate(u, k, entry[u]) =
           UpdateOf(selfId[u], session[u][k].nbr, k, entry[u])
BY DEF FedUpdate, UpdateOf

(* The last word a server has depends on its own tables and queue only.    *)
LEMMA WordIs ==
  ASSUME NEW t \in Server, NEW k \in Link
  PROVE  LastWord(t, k) =
           WordOf(selfId[t], t \in fast, wire[t][k], offers[t][k])
BY KeptIs DEF LastWord, WordOf

(* A link's promise in terms of its two ends only, and of no others.       *)
LEMMA ToldIs ==
  EndsBelong =>
    ( NeighboursAreTold <=>
        \A u \in Server, k \in Link :
          Phase(u, k) = "attached" /\ Phase(Far(u, k), k) # "idle" =>
            IsTold(u, k, Far(u, k)) )
<1> SUFFICES ASSUME EndsBelong
             PROVE  NeighboursAreTold <=>
               \A u \in Server, k \in Link :
                 Phase(u, k) = "attached" /\ Phase(Far(u, k), k) # "idle" =>
                   IsTold(u, k, Far(u, k))
  OBVIOUS
<1>1. ASSUME NEW u \in Server, NEW k \in Link, Phase(u, k) = "attached"
      PROVE  Far(u, k) \in Server
  BY <1>1, FarEnd DEF EndsBelong
<1>2. ASSUME NEW u \in Server, NEW k \in Link, Phase(u, k) = "attached"
      PROVE  LastWord(Far(u, k), k) = Kept(Far(u, k), FedUpdate(u, k, entry[u]))
               <=> IsTold(u, k, Far(u, k))
  <2> DEFINE t == Far(u, k)
  <2>1. t \in Server
    BY <1>1, <1>2
  <2> HIDE DEF t
  <2>2. LastWord(t, k) = WordOf(selfId[t], t \in fast, wire[t][k], offers[t][k])
    BY <2>1, WordIs
  <2>3. Kept(t, FedUpdate(u, k, entry[u])) =
          KeptBy(selfId[t], t \in fast,
                 UpdateOf(selfId[u], session[u][k].nbr, k, entry[u]))
    BY <2>1, KeptIs, UpdateIs
  <2> QED BY <2>2, <2>3 DEF IsTold, t
<1> QED BY <1>2 DEF NeighboursAreTold, Attached

(* The same of the next state.                                             *)
LEMMA ToldNext ==
  EndsBelong' =>
    ( NeighboursAreTold' <=>
        (\A u \in Server, k \in Link :
          Phase(u, k) = "attached" /\ Phase(Far(u, k), k) # "idle" =>
            IsTold(u, k, Far(u, k)))' )
BY ToldIs, PTL

-----------------------------------------------------------------------------
(* Steps.                                                                  *)

(* A server takes a new route, after its links in gone have closed, w is   *)
(* what it has left to read and offs what its links offer now.             *)
LEMMA TableStep ==
  ASSUME IInv, NEW s \in Server, NEW gone \in SUBSET Link,
         selfId' = selfId, fast' = fast, used' = used,
         session' = ClosedEnds(s, gone),
         NEW w \in [Server -> [Link -> Seq(Message)]],
         \A t \in Server : t # s => w[t] = wire[t],
         \A k \in Link : k \notin gone /\ Phase(s, k) # "idle" =>
           \A i \in 1..Len(w[s][k]) : WellFormed(w[s][k][i], session[s][k].nbr),
         NEW offs \in [Link -> Advert \union {None}],
         \A k \in Link : offs[k] # None => k \notin gone /\ Phase(s, k) = "attached",
         \A k \in Link : k \notin gone /\ Phase(s, k) # "idle" =>
           WordOf(selfId[s], s \in fast, w[s][k], offs[k]) =
             WordOf(selfId[s], s \in fast, wire[s][k], offers[s][k]),
         \A k \in Link : k \notin gone /\ wire[s][k] = <<>> =>
           w[s][k] = <<>> /\ offs[k] = offers[s][k],
         NEW new \in Entry \union {None}, NEW seen \in Reg,
         TableOK(new, offs, selfId[s], seen, s \in fast),
         offers' = [offers EXCEPT ![s] = offs],
         entry' = [entry EXCEPT ![s] = new],
         clock' = [clock EXCEPT ![s] = seen],
         wire' = Published(s, w, new, Attached(s) \ gone),
         changes' \in 0..MaxChanges, failures' \in 0..MaxFailures
  PROVE  IInv'
<1> DEFINE U(k) == UpdateOf(selfId[s], session[s][k].nbr, k, new)
           Goes(t, k) == /\ s \in Ends[k] /\ t = Far(s, k) /\ Phase(t, k) # "idle"
                         /\ k \in Attached(s) \ gone /\ new # entry[s]
<1>1. /\ RouteTypes /\ IdsDiffer /\ EndsBelong /\ MessagesAreReadable
      /\ OpenEndsAreSilent /\ TablesAreOK
      /\ \A u \in Server, k \in Link :
           Phase(u, k) = "attached" /\ Phase(Far(u, k), k) # "idle" =>
             IsTold(u, k, Far(u, k))
  BY ToldIs DEF IInv
<1>2. selfId[s] \in Id /\ (new # None => Simple(new.path, selfId[s]))
  BY <1>1 DEF RouteTypes, TableOK, EntryOK
<1>3. \A k \in Link : U(k) \in Message /\ WellFormed(U(k), selfId[s])
  BY <1>2, UpdateIsReadable
<1>4. \A t \in Server, k \in Link :
        wire'[t][k] = IF Goes(t, k) THEN Append(w[t][k], U(k)) ELSE w[t][k]
  <2> TAKE t \in Server, k \in Link
  <2>1. PICK links \in SUBSET Link : links = Attached(s) \ gone
    BY DEF Attached
  <2>2. UpdateOf(selfId[s], session[s][k].nbr, k, new) \in Message
    BY <1>3
  <2>3. Published(s, w, new, links)[t][k] =
          IF /\ s \in Ends[k] /\ t = Far(s, k) /\ Phase(t, k) # "idle"
             /\ k \in links /\ new # entry[s]
            THEN Append(w[t][k], UpdateOf(selfId[s], session[s][k].nbr, k, new))
            ELSE w[t][k]
    BY ONLY <2>2, PublishedIs, s \in Server, t \in Server, k \in Link,
            w[t][k] \in Seq(Message)
  <2>4. wire' = Published(s, w, new, links)
    BY <2>1
  <2> QED BY ONLY <2>1, <2>3, <2>4
<1>5. \A t \in Server, k \in Link :
        session'[t][k] = IF t = s /\ k \in gone THEN Idle ELSE session[t][k]
  BY <1>1 DEF ClosedEnds, RouteTypes
<1>6. \A t \in Server, k \in Link :
        /\ t = s /\ k \in gone => Phase(t, k)' = "idle"
        /\ ~(t = s /\ k \in gone) =>
             /\ Phase(t, k)' = Phase(t, k)
             /\ session'[t][k] = session[t][k]
  BY <1>5 DEF Phase, Idle
<1>7. \A t \in Server :
        /\ offers'[t] = IF t = s THEN offs ELSE offers[t]
        /\ entry'[t] = IF t = s THEN new ELSE entry[t]
        /\ clock'[t] = IF t = s THEN seen ELSE clock[t]
  BY <1>1 DEF RouteTypes
<1>8. \A t \in Server, k \in Link :
        ~(t = s /\ k \in gone) /\ Goes(t, k) =>
          /\ s \in Ends[k] /\ Far(t, k) = s /\ t # s
          /\ Phase(s, k) = "attached"
  BY FarEnd DEF Attached
<1>9. \A t \in Server, k \in Link : Phase(t, k) # "idle" =>
        /\ t \in Ends[k] /\ Far(t, k) \in Server /\ Far(t, k) # t
        /\ Far(t, k) \in Ends[k] /\ Far(Far(t, k), k) = t
  BY <1>1, FarEnd DEF EndsBelong
<1> HIDE DEF Goes, U
<1>10. RouteTypes'
  <2>1. session' \in [Server -> [Link -> End]]
    <3>1. Idle \in End
      BY DEF Idle, End
    <3> QED BY <1>1, <3>1 DEF ClosedEnds, RouteTypes
  <2>2. wire' \in [Server -> [Link -> Seq(Message)]]
    <3>1. \A t \in Server, k \in Link : wire'[t][k] \in Seq(Message)
      <4> TAKE t \in Server, k \in Link
      <4>1. w[t][k] \in Seq(Message) /\ U(k) \in Message
        BY <1>3
      <4>2. Append(w[t][k], U(k)) \in Seq(Message)
        BY ONLY <4>1
      <4> QED BY <1>4, <4>1, <4>2
    <3>2. wire' = [t \in Server |-> [k \in Link |-> wire'[t][k]]]
      BY DEF Published, Sent
    <3> QED BY ONLY <3>1, <3>2
  <2>3. /\ offers' \in [Server -> [Link -> Advert \union {None}]]
        /\ entry' \in [Server -> Entry \union {None}]
        /\ clock' \in [Server -> Reg]
    BY <1>1 DEF RouteTypes
  <2> QED BY <1>1, <2>1, <2>2, <2>3 DEF RouteTypes
<1>11. IdsDiffer'
  BY <1>1 DEF IdsDiffer
<1>12. EndsBelong'
  <2>1. ASSUME NEW t \in Server, NEW k \in Link, Phase(t, k)' # "idle"
        PROVE  /\ t \in Ends[k]
               /\ session'[t][k].nbr \in Id
               /\ Phase(Far(t, k), k)' # "idle" =>
                    session'[t][k].nbr = selfId'[Far(t, k)]
    <3>1. Phase(t, k) # "idle" /\ session'[t][k] = session[t][k]
      BY <1>6, <2>1
    <3>2. Far(t, k) \in Server
      BY <1>9, <3>1
    <3>3. Phase(Far(t, k), k)' # "idle" => Phase(Far(t, k), k) # "idle"
      BY <1>6, <3>2
    <3> QED BY <1>1, <3>1, <3>3 DEF EndsBelong
  <2>2. ASSUME NEW t \in Server, NEW k \in Link, offers'[t][k] # None
        PROVE  Phase(t, k)' = "attached"
    BY <1>1, <1>6, <1>7, <2>2 DEF EndsBelong
  <2>3. \A t \in Server, k \in Link : Far(t, k)' = Far(t, k)
    BY DEF Far
  <2> QED BY <2>1, <2>2, <2>3 DEF EndsBelong
<1>13. MessagesAreReadable'
  <2>1. ASSUME NEW t \in Server, NEW k \in Link, Phase(t, k)' # "idle",
               NEW i \in 1..Len(wire'[t][k])
        PROVE  WellFormed(wire'[t][k][i], session'[t][k].nbr)
    <3>1. /\ ~(t = s /\ k \in gone) /\ Phase(t, k) # "idle"
          /\ session'[t][k] = session[t][k]
      BY <1>6, <2>1
    <3>2. \A j \in 1..Len(w[t][k]) : WellFormed(w[t][k][j], session[t][k].nbr)
      BY <1>1, <3>1 DEF MessagesAreReadable
    <3>3. w[t][k] \in Seq(Message) /\ U(k) \in Message
      BY <1>3
    <3>4. CASE ~Goes(t, k)
      BY <1>4, <2>1, <3>1, <3>2, <3>4
    <3>5. CASE Goes(t, k)
      <4>1. wire'[t][k] = Append(w[t][k], U(k))
        BY <1>4, <3>5
      <4>2. session[t][k].nbr = selfId[s]
        BY <1>1, <1>8, <3>1, <3>5 DEF EndsBelong
      <4>3. \/ i \in 1..Len(w[t][k]) /\ wire'[t][k][i] = w[t][k][i]
            \/ wire'[t][k][i] = U(k)
        BY ONLY <3>3, <4>1, i \in 1..Len(wire'[t][k])
      <4> QED BY <1>3, <3>1, <3>2, <4>2, <4>3
    <3> QED BY <3>4, <3>5
  <2> QED BY <2>1 DEF MessagesAreReadable
<1>14. OpenEndsAreSilent'
  <2>1. ASSUME NEW u \in Server, NEW k \in Link, Phase(u, k)' = "open",
               Phase(Far(u, k), k)' # "idle"
        PROVE  wire'[Far(u, k)][k] = <<>> /\ offers'[Far(u, k)][k] = None
    <3>1. Phase(u, k) = "open"
      BY <1>6, <2>1
    <3>2. PICK t \in Server : t = Far(u, k) /\ Far(t, k) = u
      BY <1>9, <3>1
    <3>3. ~(t = s /\ k \in gone) /\ Phase(t, k) # "idle"
      BY <1>6, <2>1, <3>2
    <3>4. wire[t][k] = <<>> /\ offers[t][k] = None
      BY <1>1, <3>1, <3>2, <3>3 DEF OpenEndsAreSilent
    <3>5. w[t][k] = <<>> /\ offers'[t][k] = None
      BY <1>7, <3>3, <3>4
    <3>6. ~Goes(t, k)
      BY <1>8, <3>1, <3>2, <3>3
    <3> QED BY <1>4, <3>2, <3>5, <3>6
  <2>2. \A u \in Server, k \in Link : Far(u, k)' = Far(u, k)
    BY DEF Far
  <2> QED BY <2>1, <2>2 DEF OpenEndsAreSilent
<1>15. TablesAreOK'
  BY <1>1, <1>7 DEF TablesAreOK
<1>16. NeighboursAreTold'
  <2>1. ASSUME NEW u \in Server, NEW k \in Link, NEW t \in Server,
               Phase(u, k)' = "attached", t = Far(u, k), Phase(t, k)' # "idle"
        PROVE  IsTold(u, k, t)'
    <3>1. /\ Phase(u, k) = "attached" /\ ~(u = s /\ k \in gone)
          /\ Phase(t, k) # "idle" /\ ~(t = s /\ k \in gone)
          /\ session'[u][k] = session[u][k]
      BY <1>6, <2>1
    <3>2. IsTold(u, k, t)
      BY <1>1, <2>1, <3>1
    <3>3. u # t /\ Far(t, k) = u /\ u \in Ends[k]
      BY <1>9, <2>1, <3>1
    <3>4. CASE u = s
      <4>1. w[t][k] = wire[t][k] /\ offers'[t] = offers[t] /\ entry'[s] = new
        BY <1>7, <3>3, <3>4
      <4>2. Goes(t, k) <=> new # entry[s]
        BY <2>1, <3>1, <3>3, <3>4 DEF Goes, Attached
      <4>3. CASE new = entry[s]
        BY <1>4, <3>1, <3>2, <3>4, <4>1, <4>2, <4>3 DEF IsTold
      <4>4. CASE new # entry[s]
        <5>1. wire'[t][k] = Append(wire[t][k], U(k))
          BY <1>4, <4>1, <4>2, <4>4
        <5>2. wire[t][k] \in Seq(Message) /\ U(k) \in Message
          BY <1>1, <1>3 DEF RouteTypes
        <5>3. wire'[t][k] # <<>> /\ wire'[t][k][Len(wire'[t][k])] = U(k)
          BY ONLY <5>1, <5>2, LastAppended
        <5>4. U(k) = UpdateOf(selfId[u], session'[u][k].nbr, k, entry'[u])
          BY <3>1, <3>4, <4>1 DEF U
        <5> QED BY <5>3, <5>4 DEF IsTold, WordOf
      <4> QED BY <4>3, <4>4
    <3>5. CASE u # s
      <4>1. ~Goes(t, k)
        BY <1>8, <3>1, <3>3, <3>5
      <4>2. wire'[t][k] = w[t][k] /\ entry'[u] = entry[u]
        BY <1>4, <1>7, <3>5, <4>1
      <4>3. WordOf(selfId[t], t \in fast, w[t][k], offers'[t][k]) =
              WordOf(selfId[t], t \in fast, wire[t][k], offers[t][k])
        BY <1>7, <3>1
      <4> QED BY <3>1, <3>2, <4>2, <4>3 DEF IsTold
    <3> QED BY <3>4, <3>5
  <2>2. \A u \in Server, k \in Link : Phase(u, k)' # "idle" => Far(u, k) \in Server
    BY <1>6, <1>9
  <2>3. \A u \in Server, k \in Link : Far(u, k)' = Far(u, k)
    BY DEF Far
  <2> QED BY <1>12, <2>1, <2>2, <2>3, ToldNext
<1> QED BY <1>10, <1>11, <1>12, <1>13, <1>14, <1>15, <1>16 DEF IInv

(* The routes reroute may choose are right for the table.                  *)
LEMMA RerouteOK ==
  ASSUME NEW s \in Server, selfId[s] \in Id,
         NEW seen \in Reg,
         NEW offs \in [Link -> Advert \union {None}],
         \A l \in Link : offs[l] # None =>
           session[s][l].nbr \in Id /\ OfferOK(offs[l], selfId[s], seen, s \in fast),
         NEW current \in Entry \union {None},
         IsLocal(current) => /\ current.path = <<>>
                             /\ current.reg <= seen
                             /\ s \in fast \/ current.reg <= Day
  PROVE  /\ Rerouted(s, current, offs) \in Entry \union {None}
         /\ TableOK(Rerouted(s, current, offs), offs, selfId[s], seen, s \in fast)
<1>1. PICK local : local = IF IsLocal(current) THEN current ELSE None
  OBVIOUS
<1>2. /\ local \in Entry \union {None}
      /\ local # None => /\ local.path = <<>> /\ local.link = Here
                         /\ local.reg <= seen
                         /\ s \in fast \/ local.reg <= Day
  BY <1>1 DEF IsLocal
<1>3. offs \in OfferTable
  BY DEF OfferTable, OfferOK
<1>4. PICK e : e = Selected(s, local, offs)
  OBVIOUS
<1>5. e = Rerouted(s, current, offs)
  BY <1>1, <1>4 DEF Rerouted
<1>6. /\ e = local \/ \E l \in Link : offs[l] # None /\ e = Via(l, offs[l])
      /\ Newest(e, selfId[s], offs)
  BY <1>2, <1>3, <1>4, SelectedIsNewest
<1>7. CASE e = local
  <2>1. local # None => EntryOK(local, offs, selfId[s], seen, s \in fast)
    <3>1. Simple(<<>>, selfId[s])
      BY FedRouteAssumption DEF Simple, Visits
    <3> QED BY <1>2, <3>1 DEF EntryOK
  <2> QED BY <1>2, <1>5, <1>6, <1>7, <2>1 DEF TableOK
<1>8. ASSUME NEW l \in Link, offs[l] # None, e = Via(l, offs[l])
      PROVE  e \in Entry /\ EntryOK(e, offs, selfId[s], seen, s \in fast)
  <2>1. offs[l] \in Advert /\ OfferOK(offs[l], selfId[s], seen, s \in fast)
    BY <1>8
  <2>2. /\ e.link = l /\ e.path = offs[l].path /\ e.reg = offs[l].reg
        /\ l # Here
    BY <1>8, FedRouteAssumption DEF Via
  <2>3. e \in Entry
    BY <1>8, <2>1 DEF Via, Entry, Advert
  <2> QED BY <1>8, <2>1, <2>2, <2>3 DEF EntryOK, OfferOK
<1> QED BY <1>5, <1>6, <1>7, <1>8 DEF TableOK

(* A change of the table alone.                                            *)
LEMMA OwnStep ==
  ASSUME IInv, NEW s \in Server,
         UNCHANGED <<selfId, session, offers, fast, used>>,
         NEW new \in Entry \union {None}, NEW seen \in Reg,
         TableOK(new, offers[s], selfId[s], seen, s \in fast),
         clock' = [clock EXCEPT ![s] = seen],
         TakesRoute(s, new, wire, Attached(s)),
         changes' \in 0..MaxChanges, failures' \in 0..MaxFailures
  PROVE  IInv'
<1>1. /\ wire \in [Server -> [Link -> Seq(Message)]]
      /\ offers \in [Server -> [Link -> Advert \union {None}]]
      /\ session \in [Server -> [Link -> End]]
      /\ MessagesAreReadable /\ EndsBelong
  BY DEF IInv, RouteTypes
<1>2. PICK w \in [Server -> [Link -> Seq(Message)]] : w = wire
  BY <1>1
<1>3. PICK offs \in [Link -> Advert \union {None}] : offs = offers[s]
  BY <1>1
<1>4. PICK gone \in SUBSET Link : gone = {}
  OBVIOUS
<1>5. session' = ClosedEnds(s, gone)
  BY <1>1, <1>4 DEF ClosedEnds
<1>6. offers' = [offers EXCEPT ![s] = offs]
  BY <1>1, <1>3
<1>7. wire' = Published(s, w, new, Attached(s) \ gone) /\ entry' = [entry EXCEPT ![s] = new]
  <2>1. Attached(s) \ gone = Attached(s)
    BY <1>4
  <2> QED BY <1>2, <2>1 DEF TakesRoute
<1>8. \A k \in Link : offs[k] # None => k \notin gone /\ Phase(s, k) = "attached"
  BY <1>1, <1>3, <1>4 DEF EndsBelong
<1>9. \A k \in Link : k \notin gone /\ Phase(s, k) # "idle" =>
        \A i \in 1..Len(w[s][k]) : WellFormed(w[s][k][i], session[s][k].nbr)
  BY <1>1, <1>2 DEF MessagesAreReadable
<1>10. TableOK(new, offs, selfId[s], seen, s \in fast)
  BY <1>3
<1>11. selfId' = selfId /\ fast' = fast /\ used' = used
  OBVIOUS
<1> QED BY ONLY IInv, s \in Server, new \in Entry \union {None}, seen \in Reg,
               clock' = [clock EXCEPT ![s] = seen],
               changes' \in 0..MaxChanges, failures' \in 0..MaxFailures,
               <1>2, <1>3, <1>4, <1>5, <1>6, <1>7, <1>8, <1>9, <1>10, <1>11, TableStep

(* What the invariant says of one server's tables.                         *)
LEMMA TableFacts ==
  ASSUME IInv, NEW s \in Server
  PROVE  /\ selfId[s] \in Id /\ clock[s] \in Reg
         /\ entry[s] \in Entry \union {None}
         /\ offers[s] \in [Link -> Advert \union {None}]
         /\ TableOK(entry[s], offers[s], selfId[s], clock[s], s \in fast)
         /\ \A l \in Link : offers[s][l] # None =>
              /\ Phase(s, l) = "attached" /\ session[s][l].nbr \in Id
              /\ OfferOK(offers[s][l], selfId[s], clock[s], s \in fast)
         /\ Reg \subseteq Nat
BY FedRouteAssumption
   DEF IInv, RouteTypes, EndsBelong, TablesAreOK, TableOK, Reg, Day

(* A registration that ticks the clock is newer than what is offered.      *)
LEMMA FreshIsOK ==
  ASSUME IInv, NEW s \in Server, NEW reg \in Ticks(s), NEW gs \in SUBSET Gssi
  PROVE  /\ reg \in Reg
         /\ LocalEntry(reg, gs) \in Entry
         /\ TableOK(LocalEntry(reg, gs), offers[s], selfId[s], reg, s \in fast)
<1>1. reg \in Reg /\ reg > clock[s] /\ (s \in fast \/ reg <= Day) /\ clock[s] \in Nat
  BY TableFacts, FedRouteAssumption DEF Ticks, WallClock, Reg, Day
<1>2. PICK e : e = LocalEntry(reg, gs)
  OBVIOUS
<1>3. e \in Entry /\ e.path = <<>> /\ e.link = Here /\ e.reg = reg
  BY <1>1, <1>2 DEF LocalEntry, Entry
<1>4. \A l \in Link : offers[s][l] # None =>
        /\ offers[s][l] \in Advert
        /\ OfferOK(offers[s][l], selfId[s], clock[s], s \in fast)
  BY TableFacts
<1>5. \A l \in Link : offers[s][l] # None =>
        OfferOK(offers[s][l], selfId[s], reg, s \in fast)
  BY <1>1, <1>4, TableFacts DEF OfferOK, Advert
<1>6. EntryOK(e, offers[s], selfId[s], reg, s \in fast)
  <2>1. Simple(<<>>, selfId[s])
    BY FedRouteAssumption DEF Simple, Visits
  <2> QED BY <1>1, <1>3, <2>1, TableFacts DEF EntryOK
<1>7. ClaimOf(e, selfId[s]).reg = reg /\ reg \in Nat
  BY <1>1, <1>3, TableFacts, EntryClaims
<1>8. ASSUME NEW l \in Link, offers[s][l] # None
      PROVE  e # None /\ ~Older(ClaimOf(e, selfId[s]), Claim(offers[s][l]))
  <2>1. Claim(offers[s][l]).reg = offers[s][l].reg /\ offers[s][l].reg < reg
    BY <1>1, <1>4, <1>8, TableFacts DEF Claim, OfferOK, Advert
  <2>2. offers[s][l].reg \in Nat
    BY <1>4, <1>8, TableFacts DEF Advert
  <2> QED BY <1>3, <1>7, <2>1, <2>2, FedRouteNoneAssumption DEF Older
<1> QED BY <1>1, <1>2, <1>3, <1>5, <1>6, <1>8 DEF TableOK, Newest

(* Groups make no difference to the table.                                 *)
LEMMA GroupsAreOK ==
  ASSUME IInv, NEW s \in Server, IsLocal(entry[s]), NEW gs \in SUBSET Gssi
  PROVE  /\ [entry[s] EXCEPT !.groups = gs] \in Entry
         /\ TableOK([entry[s] EXCEPT !.groups = gs], offers[s],
                    selfId[s], clock[s], s \in fast)
<1>1. /\ entry[s] \in Entry /\ entry[s] # None /\ entry[s].link = Here
      /\ TableOK(entry[s], offers[s], selfId[s], clock[s], s \in fast)
  BY TableFacts DEF IsLocal
<1>2. PICK e : e = [entry[s] EXCEPT !.groups = gs]
  OBVIOUS
<1>3. /\ e \in Entry /\ e.path = entry[s].path /\ e.reg = entry[s].reg
      /\ e.link = Here
  BY <1>1, <1>2 DEF Entry
<1>4. ClaimOf(e, selfId[s]) = ClaimOf(entry[s], selfId[s])
  BY <1>3 DEF ClaimOf
<1>5. EntryOK(e, offers[s], selfId[s], clock[s], s \in fast)
  BY <1>1, <1>3 DEF TableOK, EntryOK
<1>6. Newest(e, selfId[s], offers[s])
  BY <1>1, <1>3, <1>4, FedRouteNoneAssumption DEF TableOK, Newest
<1> QED BY <1>1, <1>2, <1>3, <1>5, <1>6 DEF TableOK

(* The counters of the disturbances stay within their bounds.              *)
LEMMA BoundsStay ==
  ASSUME IInv
  PROVE  /\ changes \in 0..MaxChanges /\ failures \in 0..MaxFailures
         /\ \A s \in Server : Change(s) =>
              changes' \in 0..MaxChanges /\ failures' \in 0..MaxFailures
         /\ Failure => changes' \in 0..MaxChanges /\ failures' \in 0..MaxFailures
BY FedRouteAssumption DEF IInv, RouteTypes, Change, Failure

(* A radio registers: the newest claim of all the server has seen.         *)
LEMMA RegisterStep ==
  ASSUME IInv, NEW s \in Server, Register(s)
  PROVE  IInv'
<1>1. PICK reg \in Ticks(s) :
        /\ clock' = [clock EXCEPT ![s] = reg]
        /\ TakesRoute(s,
             LocalEntry(reg, IF entry[s] = None THEN {} ELSE entry[s].groups),
             wire, Attached(s))
  BY DEF Register
<1>2. PICK gs \in SUBSET Gssi : gs = IF entry[s] = None THEN {} ELSE entry[s].groups
  BY TableFacts DEF Entry
<1>3. PICK new : new = LocalEntry(reg, gs)
  OBVIOUS
<1>4. /\ new \in Entry \union {None} /\ reg \in Reg
      /\ TableOK(new, offers[s], selfId[s], reg, s \in fast)
  BY <1>3, FreshIsOK
<1>5. TakesRoute(s, new, wire, Attached(s))
  BY <1>1, <1>2, <1>3
<1>6. UNCHANGED <<selfId, session, offers, fast, used>>
  BY DEF Register
<1>7. changes' \in 0..MaxChanges /\ failures' \in 0..MaxFailures
  BY BoundsStay DEF Register
<1> QED BY ONLY IInv, s \in Server, <1>1, <1>4, <1>5, <1>6, <1>7, OwnStep

(* A radio leaves: the server takes the best of what its links offer.      *)
LEMMA DeregisterStep ==
  ASSUME IInv, NEW s \in Server, Deregister(s)
  PROVE  IInv'
<1>1. PICK offs \in [Link -> Advert \union {None}] : offs = offers[s]
  BY TableFacts
<1>2. PICK seen \in Reg : seen = clock[s]
  BY TableFacts
<1>3. PICK new : new = Rerouted(s, None, offers[s])
  OBVIOUS
<1>4. ~IsLocal(None)
  BY DEF IsLocal
<1>5. /\ new \in Entry \union {None}
      /\ TableOK(new, offers[s], selfId[s], seen, s \in fast)
  <2>1. selfId[s] \in Id /\ None \in Entry \union {None}
    BY TableFacts
  <2>2. \A l \in Link : offs[l] # None =>
          session[s][l].nbr \in Id /\ OfferOK(offs[l], selfId[s], seen, s \in fast)
    BY <1>1, <1>2, TableFacts
  <2>3. /\ Rerouted(s, None, offs) \in Entry \union {None}
        /\ TableOK(Rerouted(s, None, offs), offs, selfId[s], seen, s \in fast)
    BY ONLY s \in Server, seen \in Reg, offs \in [Link -> Advert \union {None}],
            <1>4, <2>1, <2>2, RerouteOK
  <2> QED BY ONLY <1>1, <1>3, <2>3
<1>6. TakesRoute(s, new, wire, Attached(s))
  BY <1>3 DEF Deregister
<1>7. clock' = [clock EXCEPT ![s] = seen]
  BY <1>2 DEF Deregister, IInv, RouteTypes
<1>8. UNCHANGED <<selfId, session, offers, fast, used>>
  BY DEF Deregister
<1>9. changes' \in 0..MaxChanges /\ failures' \in 0..MaxFailures
  BY BoundsStay DEF Deregister
<1> QED BY ONLY IInv, s \in Server, seen \in Reg, <1>5, <1>6, <1>7, <1>8, <1>9, OwnStep

(* A radio joins a group: registered here, elsewhere or nowhere so far.    *)
LEMMA AffiliateStep ==
  ASSUME IInv, NEW s \in Server, Affiliate(s)
  PROVE  IInv'
<1>1. UNCHANGED <<selfId, session, offers, fast, used>>
  BY DEF Affiliate
<1>2. changes' \in 0..MaxChanges /\ failures' \in 0..MaxFailures
  BY BoundsStay DEF Affiliate
<1>3. PICK g \in Gssi :
        \/ /\ IsLocal(entry[s])
           /\ TakesRoute(s, [entry[s] EXCEPT !.groups = @ \union {g}],
                         wire, Attached(s))
           /\ UNCHANGED clock
        \/ /\ entry[s] = None
           /\ \E reg \in Ticks(s) :
                /\ clock' = [clock EXCEPT ![s] = reg]
                /\ TakesRoute(s, LocalEntry(reg, {g}), wire, Attached(s))
  BY DEF Affiliate
<1>4. CASE /\ IsLocal(entry[s])
           /\ TakesRoute(s, [entry[s] EXCEPT !.groups = @ \union {g}],
                         wire, Attached(s))
           /\ UNCHANGED clock
  <2>1. PICK gs \in SUBSET Gssi : gs = entry[s].groups \union {g}
    BY <1>4, TableFacts DEF IsLocal, Entry
  <2>2. PICK new : new = [entry[s] EXCEPT !.groups = gs]
    OBVIOUS
  <2>3. PICK seen \in Reg : seen = clock[s]
    BY TableFacts
  <2>4. /\ new \in Entry \union {None}
        /\ TableOK(new, offers[s], selfId[s], seen, s \in fast)
    BY <1>4, <2>2, <2>3, GroupsAreOK
  <2>5. TakesRoute(s, new, wire, Attached(s))
    BY <1>4, <2>1, <2>2
  <2>6. clock' = [clock EXCEPT ![s] = seen]
    BY <1>4, <2>3 DEF IInv, RouteTypes
  <2> QED BY ONLY IInv, s \in Server, seen \in Reg,
                  <1>1, <1>2, <2>4, <2>5, <2>6, OwnStep
<1>5. ASSUME NEW reg \in Ticks(s), clock' = [clock EXCEPT ![s] = reg],
             TakesRoute(s, LocalEntry(reg, {g}), wire, Attached(s))
      PROVE  IInv'
  <2>1. PICK new : new = LocalEntry(reg, {g})
    OBVIOUS
  <2>2. /\ new \in Entry \union {None} /\ reg \in Reg
        /\ TableOK(new, offers[s], selfId[s], reg, s \in fast)
    BY <2>1, FreshIsOK
  <2>3. TakesRoute(s, new, wire, Attached(s))
    BY <1>5, <2>1
  <2> QED BY ONLY IInv, s \in Server, <1>1, <1>2, <1>5, <2>2, <2>3, OwnStep
<1> QED BY <1>3, <1>4, <1>5

(* A radio leaves a group, and its server tells the others.                *)
LEMMA DeaffiliateStep ==
  ASSUME IInv, NEW s \in Server, Deaffiliate(s)
  PROVE  IInv'
<1>1. UNCHANGED <<selfId, session, offers, fast, used>>
  BY DEF Deaffiliate
<1>2. changes' \in 0..MaxChanges /\ failures' \in 0..MaxFailures
  BY BoundsStay DEF Deaffiliate
<1>3. PICK g \in Gssi :
        TakesRoute(s, [entry[s] EXCEPT !.groups = @ \ {g}], wire, Attached(s))
  BY DEF Deaffiliate
<1>4. IsLocal(entry[s]) /\ UNCHANGED clock
  BY DEF Deaffiliate
<1>5. PICK gs \in SUBSET Gssi : gs = entry[s].groups \ {g}
  BY <1>4, TableFacts DEF IsLocal, Entry
<1>6. PICK new : new = [entry[s] EXCEPT !.groups = gs]
  OBVIOUS
<1>7. PICK seen \in Reg : seen = clock[s]
  BY TableFacts
<1>8. /\ new \in Entry \union {None}
      /\ TableOK(new, offers[s], selfId[s], seen, s \in fast)
  BY <1>4, <1>6, <1>7, GroupsAreOK
<1>9. TakesRoute(s, new, wire, Attached(s))
  BY <1>3, <1>5, <1>6
<1>10. clock' = [clock EXCEPT ![s] = seen]
  BY <1>4, <1>7 DEF IInv, RouteTypes
<1> QED BY ONLY IInv, s \in Server, seen \in Reg,
                <1>1, <1>2, <1>8, <1>9, <1>10, OwnStep

(* A queue that is not empty has a last message.                           *)
LEMMA HasLast ==
  ASSUME NEW queue \in Seq(Message), queue # <<>>
  PROVE  Len(queue) \in 1..Len(queue)
OBVIOUS

(* The rest of a queue once its first message has been read.               *)
LEMMA RestOfQueue ==
  ASSUME NEW queue \in Seq(Message), queue # <<>>
  PROVE  /\ Head(queue) = queue[1] /\ 1 \in 1..Len(queue) /\ Head(queue) \in Message
         /\ Tail(queue) \in Seq(Message)
         /\ \A i \in 1..Len(Tail(queue)) :
              i + 1 \in 1..Len(queue) /\ Tail(queue)[i] = queue[i + 1]
         /\ Tail(queue) = <<>> => queue[Len(queue)] = Head(queue)
         /\ Tail(queue) # <<>> =>
              Tail(queue)[Len(Tail(queue))] = queue[Len(queue)]
<1>1. Len(queue) \in Nat /\ Len(queue) # 0
  OBVIOUS
<1>2. Head(queue) = queue[1] /\ 1 \in 1..Len(queue) /\ Head(queue) \in Message
  BY <1>1
<1>3. Tail(queue) \in Seq(Message) /\ Len(Tail(queue)) = Len(queue) - 1
  OBVIOUS
<1>4. \A i \in 1..Len(Tail(queue)) :
        i + 1 \in 1..Len(queue) /\ Tail(queue)[i] = queue[i + 1]
  BY <1>1, <1>3
<1>5. Tail(queue) = <<>> => Len(queue) = 1
  <2>1. Len(<<>>) = 0
    OBVIOUS
  <2>2. Tail(queue) = <<>> => Len(Tail(queue)) = 0
    BY <2>1, Zenon
  <2> QED BY ONLY <1>1, <1>3, <2>2
<1>6. Tail(queue) # <<>> => Len(Tail(queue)) \in 1..Len(Tail(queue))
  BY <1>3, HasLast, Zenon
<1>7. Tail(queue) # <<>> => Tail(queue)[Len(Tail(queue))] = queue[Len(queue)]
  <2>1. SUFFICES ASSUME Tail(queue) # <<>>
                 PROVE  Tail(queue)[Len(Tail(queue))] = queue[Len(queue)]
    OBVIOUS
  <2>2. Tail(queue)[Len(Tail(queue))] = queue[Len(Tail(queue)) + 1]
    BY ONLY <1>4, <1>6, <2>1
  <2>3. Len(Tail(queue)) + 1 = Len(queue)
    BY ONLY <1>1, <1>3
  <2> QED BY ONLY <2>2, <2>3
<1> QED BY ONLY <1>2, <1>3, <1>4, <1>5, <1>7

(* What a reading server has seen.                                         *)
LEMMA ObservedIs ==
  ASSUME IInv, NEW s \in Server, NEW advert \in Advert \union {None}
  PROVE  /\ Observed(s, advert) \in Reg
         /\ clock[s] <= Observed(s, advert)
         /\ advert # None => advert.reg <= Observed(s, advert)
<1>1. clock[s] \in Reg /\ clock[s] \in Nat
  BY TableFacts
<1>2. advert # None => advert.reg \in Reg /\ advert.reg \in Nat
  BY TableFacts DEF Advert
<1>3. CASE advert # None /\ advert.reg > clock[s]
  BY ONLY <1>1, <1>2, <1>3 DEF Observed
<1>4. CASE ~(advert # None /\ advert.reg > clock[s])
  BY ONLY <1>1, <1>2, <1>4 DEF Observed
<1> QED BY ONLY <1>3, <1>4

(* A server reads the next message of a link.                              *)
LEMMA HandleStep ==
  ASSUME IInv, NEW s \in Server, NEW l \in Link, Handle(s, l)
  PROVE  IInv'
<1>1. /\ wire \in [Server -> [Link -> Seq(Message)]]
      /\ session \in [Server -> [Link -> End]]
      /\ offers \in [Server -> [Link -> Advert \union {None}]]
      /\ clock \in [Server -> Reg]
      /\ MessagesAreReadable
  BY DEF IInv, RouteTypes
<1>2. Phase(s, l) = "attached" /\ wire[s][l] # <<>>
  BY DEF Handle, Unread, Attached
<1>3. PICK queue \in Seq(Message) : queue = wire[s][l]
  BY <1>1
<1>4. PICK msg \in Message : msg = Head(wire[s][l]) /\ msg = queue[1]
  BY <1>2, <1>3, RestOfQueue
<1>5. WellFormed(msg, session[s][l].nbr)
  <2>1. 1 \in 1..Len(wire[s][l])
    BY <1>2, <1>3, RestOfQueue
  <2> QED BY <1>1, <1>2, <1>3, <1>4, <2>1 DEF MessagesAreReadable
<1>6. PICK advert \in Advert \union {None} :
        /\ advert = Kept(s, msg)
        /\ advert = KeptBy(selfId[s], s \in fast, msg)
        /\ advert # None => \A seen : advert.reg <= seen =>
             OfferOK(advert, selfId[s], seen, s \in fast)
  <2>1. PICK kept : kept = KeptBy(selfId[s], s \in fast, msg)
    OBVIOUS
  <2>2. kept = Kept(s, msg)
    BY <2>1, KeptIs
  <2>3. kept \in Advert \union {None}
    BY <1>5, <2>1, KeptIsOK
  <2>4. kept # None => \A seen : kept.reg <= seen =>
          OfferOK(kept, selfId[s], seen, s \in fast)
    BY <1>5, <2>1, KeptIsOK
  <2> QED BY <2>1, <2>2, <2>3, <2>4
<1>7. PICK seen \in Reg :
        /\ seen = Observed(s, advert)
        /\ clock[s] <= seen
        /\ advert # None => advert.reg <= seen
  BY ObservedIs
<1>8. PICK offs \in [Link -> Advert \union {None}] :
        offs = [offers[s] EXCEPT ![l] = advert]
  BY <1>1
<1>9. PICK new : new = Rerouted(s, entry[s], offs)
  OBVIOUS
<1>10. /\ offers' = [offers EXCEPT ![s] = offs]
       /\ clock' = [clock EXCEPT ![s] = seen]
       /\ TakesRoute(s, new, Rest(s, l), Attached(s))
  <2>1. WellFormed(Head(wire[s][l]), session[s][l].nbr)
    BY <1>4, <1>5
  <2>2. /\ offers' = [offers EXCEPT
                        ![s] = [offers[s] EXCEPT ![l] = Kept(s, Head(wire[s][l]))]]
        /\ clock' = [clock EXCEPT ![s] = Observed(s, Kept(s, Head(wire[s][l])))]
        /\ TakesRoute(s, Rerouted(s, entry[s],
                          [offers[s] EXCEPT ![l] = Kept(s, Head(wire[s][l]))]),
                      Rest(s, l), Attached(s))
    BY <2>1 DEF Handle
  <2>3. Kept(s, Head(wire[s][l])) = advert
    BY <1>4, <1>6
  <2> QED BY ONLY <1>7, <1>8, <1>9, <2>2, <2>3
<1>11. /\ offs[l] = advert
       /\ \A k \in Link : k # l => offs[k] = offers[s][k]
  BY <1>1, <1>8
<1>12. \A k \in Link : offs[k] # None =>
         /\ Phase(s, k) = "attached" /\ session[s][k].nbr \in Id
         /\ OfferOK(offs[k], selfId[s], seen, s \in fast)
  <2> TAKE k \in Link
  <2>1. CASE k = l
    <3>1. session[s][l].nbr \in Id
      BY <1>2 DEF IInv, EndsBelong
    <3> QED BY <1>2, <1>6, <1>7, <1>11, <2>1, <3>1
  <2>2. CASE k # l /\ offs[k] # None
    <3>1. /\ Phase(s, k) = "attached" /\ session[s][k].nbr \in Id
          /\ OfferOK(offs[k], selfId[s], clock[s], s \in fast)
          /\ offs[k] \in Advert
      BY <1>11, <2>2, TableFacts
    <3>2. offs[k].reg \in Nat /\ clock[s] \in Nat /\ seen \in Nat
      BY <3>1, TableFacts DEF Advert
    <3>3. offs[k].reg <= seen
      BY <1>7, <3>1, <3>2 DEF OfferOK
    <3> QED BY <3>1, <3>3 DEF OfferOK
  <2> QED BY <2>1, <2>2
<1>13. /\ new \in Entry \union {None}
       /\ TableOK(new, offs, selfId[s], seen, s \in fast)
  <2>1. selfId[s] \in Id /\ entry[s] \in Entry \union {None}
    BY TableFacts
  <2>2. IsLocal(entry[s]) => /\ entry[s].path = <<>>
                             /\ entry[s].reg <= seen
                             /\ s \in fast \/ entry[s].reg <= Day
    <3>1. SUFFICES ASSUME IsLocal(entry[s])
                   PROVE  /\ entry[s].path = <<>>
                          /\ entry[s].reg <= seen
                          /\ s \in fast \/ entry[s].reg <= Day
      OBVIOUS
    <3>2. /\ entry[s] \in Entry /\ entry[s].link = Here
          /\ EntryOK(entry[s], offers[s], selfId[s], clock[s], s \in fast)
      BY <3>1, TableFacts DEF IsLocal, TableOK
    <3>3. entry[s].reg \in Nat /\ clock[s] \in Nat /\ seen \in Nat
      BY <3>2, TableFacts DEF Entry
    <3> QED BY <1>7, <3>2, <3>3 DEF EntryOK
  <2>3. PICK current : current = entry[s]
    OBVIOUS
  <2>4. /\ Rerouted(s, current, offs) \in Entry \union {None}
        /\ TableOK(Rerouted(s, current, offs), offs, selfId[s], seen, s \in fast)
    BY ONLY s \in Server, seen \in Reg, offs \in [Link -> Advert \union {None}],
            <1>12, <2>1, <2>2, <2>3, RerouteOK
  <2> QED BY <1>9, <2>3, <2>4
<1>14. PICK w \in [Server -> [Link -> Seq(Message)]] : w = Rest(s, l)
  <2>1. Tail(queue) \in Seq(Message)
    BY <1>2, <1>3, RestOfQueue
  <2>2. PICK rest \in Seq(Message) : rest = Tail(queue)
    BY <2>1, Zenon
  <2>3. Rest(s, l) = [wire EXCEPT ![s][l] = rest]
    BY <1>3, <2>2 DEF Rest
  <2> QED BY <1>1, <2>3
<1>15. /\ w[s][l] = Tail(queue)
       /\ \A k \in Link : k # l => w[s][k] = wire[s][k]
       /\ \A t \in Server : t # s => w[t] = wire[t]
  BY <1>1, <1>3, <1>14 DEF Rest
<1>16. PICK gone \in SUBSET Link : gone = {}
  OBVIOUS
<1>17. session' = ClosedEnds(s, gone)
  BY <1>1, <1>16 DEF ClosedEnds, Handle
<1>18. /\ wire' = Published(s, w, new, Attached(s) \ gone)
       /\ entry' = [entry EXCEPT ![s] = new]
  <2>1. Attached(s) \ gone = Attached(s)
    BY <1>16
  <2> QED BY <1>10, <1>14, <2>1 DEF TakesRoute
<1>19. \A k \in Link : k \notin gone /\ Phase(s, k) # "idle" =>
         \A i \in 1..Len(w[s][k]) : WellFormed(w[s][k][i], session[s][k].nbr)
  <2>1. ASSUME NEW i \in 1..Len(w[s][l])
        PROVE  WellFormed(w[s][l][i], session[s][l].nbr)
    <3>1. PICK rest \in Seq(Message) : rest = Tail(queue) /\ rest = w[s][l]
      BY <1>14, <1>15
    <3>2. i + 1 \in 1..Len(queue) /\ rest[i] = queue[i + 1]
      BY <1>2, <1>3, <2>1, <3>1, RestOfQueue
    <3> QED BY <1>1, <1>2, <1>3, <3>1, <3>2 DEF MessagesAreReadable
  <2> QED BY <1>1, <1>15, <2>1 DEF MessagesAreReadable
<1>20. \A k \in Link : k \notin gone /\ Phase(s, k) # "idle" =>
         WordOf(selfId[s], s \in fast, w[s][k], offs[k]) =
           WordOf(selfId[s], s \in fast, wire[s][k], offers[s][k])
  <2>1. WordOf(selfId[s], s \in fast, w[s][l], offs[l]) =
          WordOf(selfId[s], s \in fast, wire[s][l], offers[s][l])
    <3>1. WordOf(selfId[s], s \in fast, wire[s][l], offers[s][l]) =
            KeptBy(selfId[s], s \in fast, queue[Len(queue)])
      BY <1>2, <1>3 DEF WordOf
    <3>2. PICK rest : rest = Tail(queue)
      OBVIOUS
    <3>3. /\ rest = <<>> => queue[Len(queue)] = msg
          /\ rest # <<>> => rest[Len(rest)] = queue[Len(queue)]
      BY <1>2, <1>3, <1>4, <3>2, RestOfQueue
    <3>4. w[s][l] = rest
      BY <1>15, <3>2
    <3> QED BY ONLY <1>6, <1>11, <3>1, <3>3, <3>4 DEF WordOf
  <2> QED BY <1>11, <1>15, <2>1
<1>21. \A k \in Link : k \notin gone /\ wire[s][k] = <<>> =>
         w[s][k] = <<>> /\ offs[k] = offers[s][k]
  BY <1>2, <1>11, <1>15
<1>22. \A k \in Link : offs[k] # None => k \notin gone /\ Phase(s, k) = "attached"
  BY <1>12, <1>16
<1>23. /\ selfId' = selfId /\ fast' = fast /\ used' = used
       /\ changes' \in 0..MaxChanges /\ failures' \in 0..MaxFailures
  BY BoundsStay DEF Handle, bounds
<1> QED BY ONLY IInv, s \in Server, seen \in Reg, gone \in SUBSET Link,
                w \in [Server -> [Link -> Seq(Message)]],
                offs \in [Link -> Advert \union {None}],
                <1>10, <1>13, <1>15, <1>17, <1>18, <1>19, <1>20, <1>21, <1>22,
                <1>23, TableStep

(* A server gives up its end of a link.                                    *)
LEMMA ClosesStep ==
  ASSUME IInv, NEW s \in Server, NEW l \in Link, Closes(s, l),
         changes' \in 0..MaxChanges, failures' \in 0..MaxFailures
  PROVE  IInv'
<1>1. /\ wire \in [Server -> [Link -> Seq(Message)]]
      /\ offers \in [Server -> [Link -> Advert \union {None}]]
      /\ clock \in [Server -> Reg]
      /\ MessagesAreReadable
  BY DEF IInv, RouteTypes
<1>2. PICK gone \in SUBSET Link : gone = {l}
  OBVIOUS
<1>3. PICK offs \in [Link -> Advert \union {None}] :
        offs = [offers[s] EXCEPT ![l] = None]
  BY <1>1
<1>4. PICK current \in Entry \union {None} :
        current = IF entry[s] # None /\ entry[s].link = l THEN None ELSE entry[s]
  BY TableFacts
<1>5. PICK new : new = Rerouted(s, current, offs)
  OBVIOUS
<1>6. PICK seen \in Reg : seen = clock[s]
  BY <1>1
<1>7. PICK w \in [Server -> [Link -> Seq(Message)]] : w = Dropped(s, {l})
  <2>1. \A k \in Link : wire[s][k] \in Seq(Message) /\ <<>> \in Seq(Message)
    BY <1>1
  <2>2. PICK queues \in [Link -> Seq(Message)] :
          queues = [k \in Link |-> IF k \in {l} THEN <<>> ELSE wire[s][k]]
    BY ONLY <2>1
  <2>3. Dropped(s, {l}) = [wire EXCEPT ![s] = queues]
    BY <2>2 DEF Dropped
  <2> QED BY <1>1, <2>3
<1>8. /\ session' = ClosedEnds(s, gone)
      /\ offers' = [offers EXCEPT ![s] = offs]
      /\ entry' = [entry EXCEPT ![s] = new]
      /\ wire' = Published(s, w, new, Attached(s) \ gone)
  BY <1>2, <1>3, <1>4, <1>5, <1>7 DEF Closes, TakesRoute
<1>9. clock' = [clock EXCEPT ![s] = seen]
  BY <1>1, <1>6 DEF Closes
<1>10. /\ offs[l] = None
       /\ \A k \in Link : k # l => offs[k] = offers[s][k]
  BY <1>1, <1>3
<1>11. /\ \A k \in Link : k # l => w[s][k] = wire[s][k]
       /\ \A t \in Server : t # s => w[t] = wire[t]
  BY <1>1, <1>7 DEF Dropped
<1>12. \A k \in Link : offs[k] # None =>
         /\ k \notin gone /\ Phase(s, k) = "attached" /\ session[s][k].nbr \in Id
         /\ OfferOK(offs[k], selfId[s], seen, s \in fast)
  <2>1. \A k \in Link : offs[k] # None => k # l /\ offs[k] = offers[s][k]
    BY <1>10
  <2>2. \A k \in Link : offers[s][k] # None =>
          /\ Phase(s, k) = "attached" /\ session[s][k].nbr \in Id
          /\ OfferOK(offers[s][k], selfId[s], clock[s], s \in fast)
    BY TableFacts
  <2> QED BY ONLY <1>2, <1>6, <2>1, <2>2
<1>13. /\ new \in Entry \union {None}
       /\ TableOK(new, offs, selfId[s], seen, s \in fast)
  <2>1. selfId[s] \in Id
    BY TableFacts
  <2>2. IsLocal(current) => /\ current.path = <<>>
                            /\ current.reg <= seen
                            /\ s \in fast \/ current.reg <= Day
    <3>1. SUFFICES ASSUME IsLocal(current)
                   PROVE  /\ current.path = <<>>
                          /\ current.reg <= seen
                          /\ s \in fast \/ current.reg <= Day
      OBVIOUS
    <3>2. /\ current = entry[s] /\ entry[s].link = Here
          /\ EntryOK(entry[s], offers[s], selfId[s], clock[s], s \in fast)
      BY <1>4, <3>1, TableFacts DEF IsLocal, TableOK
    <3> QED BY <1>6, <3>2 DEF EntryOK
  <2> QED BY ONLY s \in Server, seen \in Reg, offs \in [Link -> Advert \union {None}],
                  current \in Entry \union {None},
                  <1>5, <1>12, <2>1, <2>2, RerouteOK
<1>14. \A k \in Link : k \notin gone /\ Phase(s, k) # "idle" =>
         \A i \in 1..Len(w[s][k]) : WellFormed(w[s][k][i], session[s][k].nbr)
  BY <1>1, <1>2, <1>11 DEF MessagesAreReadable
<1>15. \A k \in Link : k \notin gone /\ Phase(s, k) # "idle" =>
         WordOf(selfId[s], s \in fast, w[s][k], offs[k]) =
           WordOf(selfId[s], s \in fast, wire[s][k], offers[s][k])
  BY <1>2, <1>10, <1>11
<1>16. \A k \in Link : k \notin gone /\ wire[s][k] = <<>> =>
         w[s][k] = <<>> /\ offs[k] = offers[s][k]
  BY <1>2, <1>10, <1>11
<1>17. selfId' = selfId /\ fast' = fast /\ used' = used
  BY DEF Closes
<1> QED BY ONLY IInv, s \in Server, seen \in Reg, gone \in SUBSET Link,
                w \in [Server -> [Link -> Seq(Message)]],
                offs \in [Link -> Advert \union {None}],
                changes' \in 0..MaxChanges, failures' \in 0..MaxFailures,
                <1>8, <1>9, <1>11, <1>12, <1>13, <1>14, <1>15, <1>16, <1>17,
                TableStep

(* What a server sends when its end attaches.                              *)
LEMMA SyncIs ==
  ASSUME IInv, NEW s \in Server, NEW l \in Link, Phase(s, l) # "idle"
  PROVE  \E u \in Message :
           /\ u = UpdateOf(selfId[s], session[s][l].nbr, l, entry[s])
           /\ WellFormed(u, selfId[s])
           /\ \/ u.type = "route" /\ SyncMessages(s, l) = <<u>>
              \/ u.type # "route" /\ SyncMessages(s, l) = <<>>
<1>1. /\ selfId[s] \in Id /\ entry[s] \in Entry \union {None}
      /\ entry[s] # None => Simple(entry[s].path, selfId[s])
  BY TableFacts DEF TableOK, EntryOK
<1>2. PICK u \in Message :
        /\ u = UpdateOf(selfId[s], session[s][l].nbr, l, entry[s])
        /\ WellFormed(u, selfId[s])
  BY <1>1, UpdateIsReadable
<1>3. FedUpdate(s, l, entry[s]) = u
  BY <1>2, UpdateIs
<1> QED BY <1>2, <1>3 DEF SyncMessages

(* An end attaches: the first thing it says is its whole table.            *)
LEMMA AttachStep ==
  ASSUME IInv, NEW s \in Server, NEW l \in Link, Attach(s, l)
  PROVE  IInv'
<1>1. /\ RouteTypes /\ IdsDiffer /\ EndsBelong /\ MessagesAreReadable
      /\ OpenEndsAreSilent /\ TablesAreOK
      /\ \A u \in Server, k \in Link :
           Phase(u, k) = "attached" /\ Phase(Far(u, k), k) # "idle" =>
             IsTold(u, k, Far(u, k))
  BY ToldIs DEF IInv
<1>2. /\ l \in LinksOf(s) /\ Phase(s, l) = "open"
      /\ session' = [session EXCEPT ![s][l].phase = "attached"]
      /\ wire' = Sent(wire, s, [NoMessages EXCEPT ![l] = SyncMessages(s, l)])
      /\ UNCHANGED <<selfId, clock, entry, offers, fast, used, changes, failures>>
  BY DEF Attach, AttachEnd, routeVars, bounds
<1>3. PICK t \in Server :
        t = Far(s, l) /\ t # s /\ Far(t, l) = s /\ t \in Ends[l] /\ s \in Ends[l]
  BY <1>2, FarEnd DEF LinksOf
<1>4. PICK u \in Message :
        /\ u = UpdateOf(selfId[s], session[s][l].nbr, l, entry[s])
        /\ WellFormed(u, selfId[s])
        /\ \/ u.type = "route" /\ SyncMessages(s, l) = <<u>>
           \/ u.type # "route" /\ SyncMessages(s, l) = <<>>
  BY <1>2, SyncIs
<1>5. PICK sync \in Seq(Message) : sync = SyncMessages(s, l)
  <2>1. <<u>> \in Seq(Message) /\ <<>> \in Seq(Message)
    OBVIOUS
  <2> QED BY <1>4, <2>1
<1>6. \A r \in Server, k \in Link :
        /\ session'[r][k].nbr = session[r][k].nbr
        /\ Phase(r, k)' = IF r = s /\ k = l THEN "attached" ELSE Phase(r, k)
  BY <1>1, <1>2 DEF RouteTypes, End, Phase
<1>7. \A r \in Server, k \in Link : ~(r = t /\ k = l) => wire'[r][k] = wire[r][k]
  <2>1. ASSUME NEW r \in Server, NEW k \in Link, ~(r = t /\ k = l)
        PROVE  wire'[r][k] = wire[r][k]
    <3>1. wire[r][k] \in Seq(Message)
      BY <1>1 DEF RouteTypes
    <3>2. wire[r][k] \o <<>> = wire[r][k]
      BY ONLY <3>1
    <3>3. k # l => [NoMessages EXCEPT ![l] = sync][k] = <<>>
      BY DEF NoMessages
    <3> QED BY <1>2, <1>3, <1>5, <2>1, <3>2, <3>3 DEF Sent
  <2> QED BY <2>1
<1>8. /\ Phase(t, l) # "idle" => wire'[t][l] = sync
      /\ Phase(t, l) = "idle" => wire'[t][l] = wire[t][l]
  <2>1. Phase(t, l) # "idle" => wire[t][l] = <<>>
    BY <1>1, <1>2, <1>3 DEF OpenEndsAreSilent
  <2>2. <<>> \o sync = sync
    OBVIOUS
  <2>3. [NoMessages EXCEPT ![l] = sync][l] = sync
    BY DEF NoMessages
  <2> QED BY <1>2, <1>3, <1>5, <2>1, <2>2, <2>3 DEF Sent
<1>9. RouteTypes'
  <2>1. session' \in [Server -> [Link -> End]]
    <3>1. session \in [Server -> [Link -> End]]
      BY <1>1 DEF RouteTypes
    <3>2. PICK e \in End : e = [session[s][l] EXCEPT !.phase = "attached"]
      <4>1. PICK old \in End : old = session[s][l]
        BY <3>1
      <4>2. [old EXCEPT !.phase = "attached"] \in End
        BY DEF End
      <4> QED BY <4>1, <4>2
    <3>3. PICK ends \in [Link -> End] : ends = [session[s] EXCEPT ![l] = e]
      BY <3>1
    <3>4. session' = [session EXCEPT ![s] = ends]
      BY <1>2, <3>2, <3>3
    <3> QED BY ONLY <3>1, <3>4
  <2>2. wire' \in [Server -> [Link -> Seq(Message)]]
    <3>1. \A r \in Server, k \in Link : wire'[r][k] \in Seq(Message)
      <4>1. \A r \in Server, k \in Link : wire[r][k] \in Seq(Message)
        BY <1>1 DEF RouteTypes
      <4>2. \A r \in Server, k \in Link :
              wire'[r][k] = wire[r][k] \/ wire'[r][k] = sync
        BY ONLY <1>7, <1>8
      <4> QED BY ONLY <4>1, <4>2, sync \in Seq(Message)
    <3>2. wire' = [r \in Server |-> [k \in Link |-> wire'[r][k]]]
      BY <1>2 DEF Sent
    <3> QED BY ONLY <3>1, <3>2
  <2> QED BY <1>1, <1>2, <2>1, <2>2 DEF RouteTypes
<1>10. IdsDiffer'
  BY <1>1, <1>2 DEF IdsDiffer
<1>11. \A r \in Server, k \in Link : Phase(r, k)' # "idle" <=> Phase(r, k) # "idle"
  BY <1>2, <1>6
<1>12. \A r \in Server, k \in Link : Phase(r, k) # "idle" =>
         r \in Ends[k] /\ Far(r, k) \in Server /\ Far(Far(r, k), k) = r
  BY <1>1, FarEnd DEF EndsBelong
<1>13. \A r, k : Far(r, k)' = Far(r, k)
  BY DEF Far
<1>14. EndsBelong'
  <2>1. \A r \in Server, k \in Link : offers'[r][k] # None => Phase(r, k)' = "attached"
    BY <1>1, <1>2, <1>6 DEF EndsBelong
  <2> QED BY <1>1, <1>2, <1>6, <1>11, <1>12, <1>13, <2>1 DEF EndsBelong
<1>15. MessagesAreReadable'
  <2>1. Phase(t, l) # "idle" => \A i \in 1..Len(sync) :
          WellFormed(sync[i], session[t][l].nbr)
    <3>1. Phase(t, l) # "idle" => session[t][l].nbr = selfId[s]
      BY <1>1, <1>2, <1>3 DEF EndsBelong
    <3> QED BY <1>4, <1>5, <3>1
  <2>2. ASSUME NEW r \in Server, NEW k \in Link, Phase(r, k) # "idle"
        PROVE  \A i \in 1..Len(wire'[r][k]) :
                 WellFormed(wire'[r][k][i], session'[r][k].nbr)
    <3>1. session'[r][k].nbr = session[r][k].nbr
      BY <1>6
    <3>2. CASE r = t /\ k = l
      BY <1>8, <2>1, <2>2, <3>1, <3>2
    <3>3. CASE ~(r = t /\ k = l)
      BY <1>1, <1>7, <2>2, <3>1, <3>3 DEF MessagesAreReadable
    <3> QED BY <3>2, <3>3
  <2> QED BY ONLY <1>11, <2>2 DEF MessagesAreReadable, WellFormed
<1>16. OpenEndsAreSilent'
  <2>1. ASSUME NEW r \in Server, NEW k \in Link, Phase(r, k)' = "open",
               Phase(Far(r, k), k)' # "idle"
        PROVE  wire'[Far(r, k)][k] = <<>> /\ offers'[Far(r, k)][k] = None
    <3>1. Phase(r, k) = "open" /\ ~(r = s /\ k = l)
      BY <1>6, <2>1
    <3>2. Far(r, k) \in Server /\ Far(Far(r, k), k) = r
      BY <1>12, <3>1
    <3>3. ~(Far(r, k) = t /\ k = l)
      BY <1>3, <3>1, <3>2
    <3> QED BY <1>1, <1>2, <1>7, <1>11, <2>1, <3>1, <3>2, <3>3 DEF OpenEndsAreSilent
  <2> QED BY <1>13, <2>1 DEF OpenEndsAreSilent
<1>17. TablesAreOK'
  BY <1>1, <1>2 DEF TablesAreOK
<1>18. NeighboursAreTold'
  <2>1. ASSUME NEW r \in Server, NEW k \in Link, NEW q \in Server,
               Phase(r, k)' = "attached", q = Far(r, k), Phase(q, k)' # "idle"
        PROVE  IsTold(r, k, q)'
    <3>1. Phase(r, k) # "idle" /\ Far(q, k) = r /\ Phase(q, k) # "idle"
      BY <1>11, <1>12, <2>1
    <3>2. CASE r = s /\ k = l
      <4>1. q = t /\ wire'[t][l] = sync /\ offers[t][l] = None
        BY <1>1, <1>2, <1>3, <1>8, <2>1, <3>1, <3>2 DEF OpenEndsAreSilent
      <4>2. CASE u.type = "route"
        <5>1. sync # <<>> /\ sync[Len(sync)] = u
          <6>1. <<u>> # <<>> /\ <<u>>[Len(<<u>>)] = u
            OBVIOUS
          <6> QED BY <1>4, <1>5, <4>2, <6>1
        <5> QED BY <1>2, <1>4, <1>6, <3>2, <4>1, <5>1 DEF IsTold, WordOf
      <4>3. CASE u.type # "route"
        <5>1. sync = <<>> /\ KeptBy(selfId[t], t \in fast, u) = None
          BY <1>4, <1>5, <4>3 DEF KeptBy
        <5> QED BY <1>2, <1>4, <1>6, <3>2, <4>1, <5>1 DEF IsTold, WordOf
      <4> QED BY <4>2, <4>3
    <3>3. CASE ~(r = s /\ k = l)
      <4>1. IsTold(r, k, q)
        BY <1>1, <1>6, <2>1, <3>1, <3>3
      <4>2. wire'[q][k] = wire[q][k]
        BY <1>3, <1>7, <2>1, <3>1, <3>3
      <4> QED BY <1>2, <1>6, <4>1, <4>2 DEF IsTold
    <3> QED BY <3>2, <3>3
  <2> QED BY <1>11, <1>12, <1>13, <1>14, <2>1, ToldNext
<1> QED BY <1>9, <1>10, <1>14, <1>15, <1>16, <1>17, <1>18 DEF IInv

(* Two servers set up a link.                                              *)
LEMMA DialStep ==
  ASSUME IInv, NEW l \in Link, Dial(l)
  PROVE  IInv'
<1>1. /\ RouteTypes /\ IdsDiffer /\ EndsBelong /\ MessagesAreReadable
      /\ OpenEndsAreSilent /\ TablesAreOK
      /\ \A u \in Server, k \in Link :
           Phase(u, k) = "attached" /\ Phase(Far(u, k), k) # "idle" =>
             IsTold(u, k, Far(u, k))
  BY ToldIs DEF IInv
<1>2. /\ \A s \in Ends[l] : session[s][l] = Idle
      /\ session' = [s \in Server |->
           IF s \in Ends[l]
             THEN [session[s] EXCEPT ![l] = [phase |-> "open",
                                             nbr |-> selfId[Far(s, l)]]]
             ELSE session[s]]
      /\ wire' = [s \in Server |-> [wire[s] EXCEPT ![l] = <<>>]]
      /\ UNCHANGED <<selfId, clock, entry, offers, fast, used, changes, failures>>
  BY DEF Dial, Connect, routeVars, bounds
<1>3. \A s \in Server, k \in Link :
        /\ k # l => session'[s][k] = session[s][k] /\ wire'[s][k] = wire[s][k]
        /\ k = l => wire'[s][k] = <<>>
        /\ k = l /\ s \in Ends[l] =>
             session'[s][k] = [phase |-> "open", nbr |-> selfId[Far(s, l)]]
        /\ k = l /\ s \notin Ends[l] => session'[s][k] = session[s][k]
  BY <1>1, <1>2 DEF RouteTypes
<1>4. \A s \in Server, k \in Link :
        /\ k # l => Phase(s, k)' = Phase(s, k)
        /\ k = l => Phase(s, k) = "idle"
        /\ k = l => Phase(s, k)' \in {"idle", "open"}
        /\ k = l /\ Phase(s, k)' # "idle" =>
             s \in Ends[l] /\ Phase(s, k)' = "open"
  <2> TAKE s \in Server, k \in Link
  <2>1. CASE k # l
    BY <1>3, <2>1 DEF Phase
  <2>2. CASE k = l /\ s \in Ends[l]
    BY <1>2, <1>3, <2>2 DEF Phase, Idle
  <2>3. CASE k = l /\ s \notin Ends[l]
    <3>1. Phase(s, k)' = Phase(s, k)
      BY <1>3, <2>3 DEF Phase
    <3>2. Phase(s, k) = "idle"
      BY ONLY <1>1, <2>3, s \in Server, k \in Link DEF EndsBelong
    <3> QED BY ONLY <2>3, <3>1, <3>2
  <2> QED BY <2>1, <2>2, <2>3
<1>5. \A s \in Server : offers[s][l] = None
  BY <1>1, <1>4 DEF EndsBelong
<1>6. \A s \in Server, k \in Link : s \in Ends[k] =>
        Far(s, k) \in Server /\ Far(s, k) \in Ends[k]
  BY FarEnd
<1>7. \A r, k : Far(r, k)' = Far(r, k)
  BY DEF Far
<1>8. RouteTypes'
  <2>1. session' \in [Server -> [Link -> End]]
    <3>1. \A s \in Server, k \in Link : session'[s][k] \in End
      <4>1. \A s \in Ends[l] : selfId[Far(s, l)] \in Id
        BY <1>1, FarEnd DEF RouteTypes
      <4>2. \A id \in Id : [phase |-> "open", nbr |-> id] \in End
        BY DEF End
      <4> QED BY <1>1, <1>3, <4>1, <4>2 DEF RouteTypes
    <3>2. \A s \in Server : session'[s] = [k \in Link |-> session'[s][k]]
      BY <1>1, <1>2 DEF RouteTypes
    <3>3. session' = [s \in Server |-> session'[s]]
      BY <1>2
    <3> QED BY ONLY <3>1, <3>2, <3>3
  <2>2. wire' \in [Server -> [Link -> Seq(Message)]]
    <3>1. wire \in [Server -> [Link -> Seq(Message)]] /\ <<>> \in Seq(Message)
      BY <1>1 DEF RouteTypes
    <3> QED BY ONLY <1>2, <3>1
  <2> QED BY <1>1, <1>2, <2>1, <2>2 DEF RouteTypes
<1>9. IdsDiffer'
  BY <1>1, <1>2 DEF IdsDiffer
<1>10. EndsBelong'
  <2>1. ASSUME NEW s \in Server, NEW k \in Link, Phase(s, k)' # "idle"
        PROVE  /\ s \in Ends[k]
               /\ session'[s][k].nbr \in Id
               /\ Phase(Far(s, k), k)' # "idle" =>
                    session'[s][k].nbr = selfId'[Far(s, k)]
    <3>1. CASE k = l
      BY <1>1, <1>2, <1>3, <1>4, <1>6, <2>1, <3>1 DEF RouteTypes
    <3>2. CASE k # l
      BY <1>1, <1>2, <1>3, <1>4, <1>6, <2>1, <3>2 DEF EndsBelong
    <3> QED BY <3>1, <3>2
  <2>2. \A s \in Server, k \in Link : offers'[s][k] # None => Phase(s, k)' = "attached"
    BY <1>1, <1>2, <1>4, <1>5 DEF EndsBelong
  <2> QED BY <1>7, <2>1, <2>2 DEF EndsBelong
<1>11. MessagesAreReadable'
  <2>1. ASSUME NEW s \in Server, NEW k \in Link, Phase(s, k)' # "idle",
               NEW i \in 1..Len(wire'[s][k])
        PROVE  WellFormed(wire'[s][k][i], session'[s][k].nbr)
    <3>1. k # l
      <4>1. 1..Len(<<>>) = {}
        OBVIOUS
      <4> QED BY <1>3, <2>1, <4>1
    <3>2. /\ session'[s][k] = session[s][k] /\ wire'[s][k] = wire[s][k]
          /\ Phase(s, k) # "idle"
      BY <1>3, <1>4, <2>1, <3>1
    <3>3. i \in 1..Len(wire[s][k])
      BY <3>2
    <3>4. WellFormed(wire[s][k][i], session[s][k].nbr)
      BY <1>1, <3>2, <3>3 DEF MessagesAreReadable
    <3> QED BY ONLY <3>2, <3>4
  <2> QED BY <2>1 DEF MessagesAreReadable
<1>12. OpenEndsAreSilent'
  <2>1. ASSUME NEW s \in Server, NEW k \in Link, Phase(s, k)' = "open",
               Phase(Far(s, k), k)' # "idle"
        PROVE  wire'[Far(s, k)][k] = <<>> /\ offers'[Far(s, k)][k] = None
    <3>1. s \in Ends[k]
      BY <1>10, <2>1 DEF EndsBelong
    <3>2. Far(s, k) \in Server
      BY <1>6, <3>1
    <3>3. CASE k = l
      BY <1>2, <1>3, <1>5, <3>2, <3>3
    <3>4. CASE k # l
      BY <1>1, <1>2, <1>3, <1>4, <2>1, <3>2, <3>4 DEF OpenEndsAreSilent
    <3> QED BY <3>3, <3>4
  <2> QED BY <1>7, <2>1 DEF OpenEndsAreSilent
<1>13. TablesAreOK'
  BY <1>1, <1>2 DEF TablesAreOK
<1>14. NeighboursAreTold'
  <2>1. ASSUME NEW s \in Server, NEW k \in Link, NEW t \in Server,
               Phase(s, k)' = "attached", t = Far(s, k), Phase(t, k)' # "idle"
        PROVE  IsTold(s, k, t)'
    <3>1. k # l
      BY <1>4, <2>1
    <3>2. IsTold(s, k, t)
      BY <1>1, <1>4, <2>1, <3>1
    <3> QED BY <1>2, <1>3, <3>1, <3>2 DEF IsTold
  <2>2. \A s \in Server, k \in Link : Phase(s, k)' # "idle" => Far(s, k) \in Server
    BY <1>6, <1>10 DEF EndsBelong
  <2> QED BY <1>7, <1>10, <2>1, <2>2, ToldNext
<1> QED BY <1>8, <1>9, <1>10, <1>11, <1>12, <1>13, <1>14 DEF IInv

(* A server starts again.                                                  *)
LEMMA RestartStep ==
  ASSUME IInv, NEW s \in Server, Restart(s)
  PROVE  IInv'
<1>1. /\ RouteTypes /\ IdsDiffer /\ EndsBelong /\ MessagesAreReadable
      /\ OpenEndsAreSilent /\ TablesAreOK
      /\ \A u \in Server, k \in Link :
           Phase(u, k) = "attached" /\ Phase(Far(u, k), k) # "idle" =>
             IsTold(u, k, Far(u, k))
  BY ToldIs DEF IInv
<1>2. PICK id \in Id \ used :
        selfId' = [selfId EXCEPT ![s] = id] /\ used' = used \union {id}
  BY DEF Restart
<1>3. /\ session' = ClosedEnds(s, Link)
      /\ wire' = Dropped(s, Link)
      /\ clock' = [clock EXCEPT ![s] = 0]
      /\ entry' = [entry EXCEPT ![s] = None]
      /\ offers' = [offers EXCEPT ![s] = [l \in Link |-> None]]
      /\ UNCHANGED fast
      /\ changes' \in 0..MaxChanges /\ failures' \in 0..MaxFailures
  BY BoundsStay DEF Restart
<1>4. \A r \in Server, k \in Link :
        /\ r = s => session'[r][k] = Idle /\ wire'[r][k] = <<>>
        /\ r # s => session'[r][k] = session[r][k] /\ wire'[r][k] = wire[r][k]
        /\ r = s => offers'[r][k] = None
  BY <1>1, <1>3 DEF RouteTypes, ClosedEnds, Dropped
<1>5. \A r \in Server : r # s =>
        /\ selfId'[r] = selfId[r] /\ clock'[r] = clock[r]
        /\ entry'[r] = entry[r] /\ offers'[r] = offers[r]
  BY <1>1, <1>2, <1>3 DEF RouteTypes
<1>6. \A r \in Server, k \in Link :
        /\ r = s => Phase(r, k)' = "idle"
        /\ r # s => Phase(r, k)' = Phase(r, k)
  BY <1>4 DEF Phase, Idle
<1>7. \A r \in Server, k \in Link : Phase(r, k) # "idle" => Far(r, k) \in Server
  BY <1>1, FarEnd DEF EndsBelong
<1>8. \A r, k : Far(r, k)' = Far(r, k)
  BY DEF Far
<1>9. RouteTypes'
  <2>1. session' \in [Server -> [Link -> End]]
    <3>1. Idle \in End
      BY DEF Idle, End
    <3> QED BY <1>1, <1>3, <3>1 DEF ClosedEnds, RouteTypes
  <2>2. wire' \in [Server -> [Link -> Seq(Message)]]
    <3>1. wire \in [Server -> [Link -> Seq(Message)]]
      BY <1>1 DEF RouteTypes
    <3>2. PICK queues \in [Link -> Seq(Message)] : queues = [k \in Link |-> <<>>]
      <4>1. <<>> \in Seq(Message)
        OBVIOUS
      <4> QED BY ONLY <4>1
    <3>3. wire' = [wire EXCEPT ![s] = queues]
      BY <1>3, <3>2 DEF Dropped
    <3> QED BY ONLY <3>1, <3>3
  <2>3. /\ clock' \in [Server -> Reg]
        /\ entry' \in [Server -> Entry \union {None}]
        /\ offers' \in [Server -> [Link -> Advert \union {None}]]
    BY <1>1, <1>3, FedRouteAssumption DEF RouteTypes, Reg, Day
  <2>4. selfId' \in [Server -> Id] /\ used' \subseteq Id
    BY <1>1, <1>2 DEF RouteTypes
  <2> QED BY <1>1, <1>3, <2>1, <2>2, <2>3, <2>4 DEF RouteTypes
<1>10. IdsDiffer'
  <2>1. selfId'[s] = id
    BY <1>1, <1>2 DEF RouteTypes
  <2> QED BY <1>1, <1>2, <1>5, <2>1 DEF IdsDiffer
<1>11. EndsBelong'
  BY <1>1, <1>4, <1>5, <1>6, <1>7, <1>8 DEF EndsBelong
<1>12. MessagesAreReadable'
  BY <1>1, <1>4, <1>6 DEF MessagesAreReadable
<1>13. OpenEndsAreSilent'
  BY <1>1, <1>4, <1>5, <1>6, <1>7, <1>8 DEF OpenEndsAreSilent
<1>14. TablesAreOK'
  <2>1. TableOK(entry'[s], offers'[s], selfId'[s], clock'[s], s \in fast')
    <3>1. entry'[s] = None
      BY <1>1, <1>3 DEF RouteTypes
    <3> QED BY <1>4, <3>1 DEF TableOK, Newest
  <2> QED BY <1>1, <1>3, <1>5, <2>1 DEF TablesAreOK
<1>15. NeighboursAreTold'
  <2>1. ASSUME NEW r \in Server, NEW k \in Link, NEW t \in Server,
               Phase(r, k)' = "attached", t = Far(r, k), Phase(t, k)' # "idle"
        PROVE  IsTold(r, k, t)'
    <3>1. r # s /\ t # s
      BY <1>6, <2>1
    <3>2. IsTold(r, k, t)
      BY <1>1, <1>6, <2>1, <3>1
    <3> QED BY <1>3, <1>4, <1>5, <3>1, <3>2 DEF IsTold
  <2>2. \A r \in Server, k \in Link : Phase(r, k)' # "idle" => Far(r, k) \in Server
    BY <1>6, <1>7
  <2> QED BY <1>8, <1>11, <2>1, <2>2, ToldNext
<1> QED BY <1>9, <1>10, <1>11, <1>12, <1>13, <1>14, <1>15 DEF IInv

-----------------------------------------------------------------------------
(* The theorems.                                                           *)

(* A federation without links or registrations keeps the invariant.        *)
LEMMA InitInv == Init => IInv
<1> SUFFICES ASSUME Init PROVE IInv
  OBVIOUS
<1>1. /\ selfId = FirstId
      /\ session = [s \in Server |-> [l \in Link |-> Idle]]
      /\ wire = [s \in Server |-> NoMessages]
      /\ clock = [s \in Server |-> 0]
      /\ entry = [s \in Server |-> None]
      /\ offers = [s \in Server |-> [l \in Link |-> None]]
      /\ fast \in FastChoices
      /\ used = {FirstId[s] : s \in Server}
      /\ changes = 0 /\ failures = 0
  BY DEF Init, RouteInit
<1>2. \A s \in Server, l \in Link :
        /\ Phase(s, l) = "idle"
        /\ offers[s][l] = None
  BY <1>1 DEF Phase, Idle
<1>3. RouteTypes
  <2>1. session \in [Server -> [Link -> End]]
    <3>1. Idle \in End
      BY DEF Idle, End
    <3> QED BY <1>1, <3>1
  <2>2. wire \in [Server -> [Link -> Seq(Message)]]
    <3>1. <<>> \in Seq(Message)
      OBVIOUS
    <3>2. NoMessages \in [Link -> Seq(Message)]
      BY ONLY <3>1 DEF NoMessages
    <3> QED BY ONLY <1>1, <3>2
  <2>3. /\ selfId \in [Server -> Id] /\ used \subseteq Id
        /\ clock \in [Server -> Reg] /\ fast \subseteq Server
        /\ changes \in 0..MaxChanges /\ failures \in 0..MaxFailures
    BY <1>1, FedRouteAssumption DEF Reg, Day
  <2>4. /\ entry \in [Server -> Entry \union {None}]
        /\ offers \in [Server -> [Link -> Advert \union {None}]]
    BY <1>1
  <2> QED BY <2>1, <2>2, <2>3, <2>4 DEF RouteTypes
<1>4. IdsDiffer
  BY <1>1, FedRouteAssumption DEF IdsDiffer
<1>5. EndsBelong /\ MessagesAreReadable /\ OpenEndsAreSilent
  BY <1>2 DEF EndsBelong, MessagesAreReadable, OpenEndsAreSilent
<1>6. TablesAreOK
  BY <1>1, <1>2 DEF TablesAreOK, TableOK, Newest
<1>7. NeighboursAreTold
  BY <1>2 DEF NeighboursAreTold, Attached
<1> QED BY <1>3, <1>4, <1>5, <1>6, <1>7 DEF IInv

(* So does a step that changes nothing.                                    *)
LEMMA StutterStep ==
  ASSUME IInv, UNCHANGED vars
  PROVE  IInv'
<1>1. /\ selfId' = selfId /\ session' = session /\ wire' = wire
      /\ clock' = clock /\ entry' = entry /\ offers' = offers
      /\ fast' = fast /\ used' = used /\ changes' = changes /\ failures' = failures
  BY DEF vars, linkVars, routeVars, bounds
<1>2. RouteTypes'
  BY <1>1 DEF IInv, RouteTypes
<1>3. IdsDiffer' /\ EndsBelong' /\ MessagesAreReadable' /\ OpenEndsAreSilent'
  BY <1>1 DEF IInv, IdsDiffer, EndsBelong, MessagesAreReadable,
              OpenEndsAreSilent, Phase, Far
<1>4. TablesAreOK'
  BY <1>1 DEF IInv, TablesAreOK
<1>5. NeighboursAreTold'
  <2>1. \A u \in Server, k \in Link :
          Phase(u, k) = "attached" /\ Phase(Far(u, k), k) # "idle" =>
            IsTold(u, k, Far(u, k))
    BY ToldIs DEF IInv
  <2>2. (\A u \in Server, k \in Link :
           Phase(u, k) = "attached" /\ Phase(Far(u, k), k) # "idle" =>
             IsTold(u, k, Far(u, k)))'
    BY <1>1, <2>1 DEF IsTold, Phase, Far
  <2> QED BY <1>3, <2>2, ToldNext
<1> QED BY <1>2, <1>3, <1>4, <1>5 DEF IInv

(* One step of the federation preserves the invariant.                     *)
LEMMA NextInv == IInv /\ [Next]_vars => IInv'
<1> SUFFICES ASSUME IInv, [Next]_vars PROVE IInv'
  OBVIOUS
<1>1. ASSUME NEW s \in Server, Register(s) PROVE IInv'
  BY <1>1, RegisterStep
<1>2. ASSUME NEW s \in Server, Deregister(s) PROVE IInv'
  BY <1>2, DeregisterStep
<1>3. ASSUME NEW s \in Server, Affiliate(s) PROVE IInv'
  BY <1>3, AffiliateStep
<1>4. ASSUME NEW s \in Server, Deaffiliate(s) PROVE IInv'
  BY <1>4, DeaffiliateStep
<1>5. ASSUME NEW s \in Server, Restart(s) PROVE IInv'
  BY <1>5, RestartStep
<1>6. ASSUME NEW s \in Server, NEW l \in Link, Handle(s, l) PROVE IInv'
  BY <1>6, HandleStep
<1>7. ASSUME NEW s \in Server, NEW l \in Link, Attach(s, l) PROVE IInv'
  BY <1>7, AttachStep
<1>8. ASSUME NEW s \in Server, NEW l \in Link, Break(s, l) PROVE IInv'
  BY <1>8, ClosesStep, BoundsStay DEF Break
<1>9. ASSUME NEW s \in Server, NEW l \in Link, Notice(s, l) PROVE IInv'
  BY <1>9, ClosesStep, BoundsStay DEF Notice, bounds
<1>10. ASSUME NEW l \in Link, Dial(l) PROVE IInv'
  BY <1>10, DialStep
<1>11. CASE UNCHANGED vars
  BY <1>11, StutterStep
<1> QED BY <1>1, <1>2, <1>3, <1>4, <1>5, <1>6, <1>7, <1>8, <1>9, <1>10, <1>11
        DEF Next

(* The tables of the servers and the queues between them stay what they    *)
(* are written for (IInv), whatever registers, breaks and starts again.    *)
THEOREM Invariance == Safety => []IInv
<1>1. Init => IInv
  BY InitInv
<1>2. IInv /\ [Next]_vars => IInv'
  BY NextInv
<1> QED BY <1>1, <1>2, PTL DEF Safety

(* The invariant says of tables and queues what FedRouteTypeOK does.       *)
LEMMA TypesFollow == IInv => FedRouteTypeOK
<1> SUFFICES ASSUME IInv PROVE FedRouteTypeOK
  OBVIOUS
<1>1. RouteTypes /\ EndsBelong /\ TablesAreOK
  BY DEF IInv
<1>2. ASSUME NEW s \in Server, NEW l \in Link, NEW i \in 1..Len(wire[s][l])
      PROVE  \/ wire[s][l][i] = WithdrawMsg
             \/ \E reg \in Reg, gs \in SUBSET Gssi :
                  wire[s][l][i] = RouteMsg(reg, wire[s][l][i].path, gs)
  <2>1. PICK queue \in Seq(Message) : queue = wire[s][l]
    BY <1>1 DEF RouteTypes
  <2>2. PICK msg \in Message : msg = wire[s][l][i]
    BY <1>2, <2>1
  <2> QED BY <2>2 DEF Message, RouteMsg
<1>3. ASSUME NEW s \in Server, NEW l \in Link
      PROVE  /\ Phase(s, l) # "idle" => s \in Ends[l] /\ session[s][l].nbr # None
             /\ offers[s][l] # None => offers[s][l] \in Advert /\ l \in Attached(s)
  <2>1. \A id \in Id : id # None
    BY FedLinkAssumption, FedRouteAssumption
  <2>2. Phase(s, l) # "idle" => s \in Ends[l] /\ session[s][l].nbr \in Id
    BY <1>1 DEF EndsBelong
  <2>3. offers[s][l] # None => offers[s][l] \in Advert /\ Phase(s, l) = "attached"
    BY <1>1, TableFacts DEF EndsBelong
  <2> QED BY ONLY <2>1, <2>2, <2>3, s \in Server, l \in Link DEF Attached
<1>4. ASSUME NEW s \in Server, entry[s] # None
      PROVE  /\ entry[s] \in Entry
             /\ entry[s].link \in Attached(s) \union {Here}
             /\ entry[s].link = Here <=> entry[s].path = <<>>
  <2>1. /\ entry[s] \in Entry
        /\ EntryOK(entry[s], offers[s], selfId[s], clock[s], s \in fast)
    BY <1>4, TableFacts DEF TableOK
  <2>2. entry[s].link # Here => entry[s].link \in Link /\ offers[s][entry[s].link] # None
    BY <2>1 DEF EntryOK, Entry
  <2> QED BY <1>1, <2>1, <2>2 DEF EntryOK, EndsBelong, Attached
<1> QED BY <1>1, <1>2, <1>3, <1>4 DEF RouteTypes, End, FedRouteTypeOK

(* Types of the tables and the queues, with the routes of attached links   *)
(* only.                                                                   *)
THEOREM TypeCorrect == Safety => []FedRouteTypeOK
BY Invariance, TypesFollow, PTL

(* The same beside the other adverts: these use the links only, and leave  *)
(* the tables of the routes alone.                                         *)
THEOREM FederationTypeCorrect == MCSpec => []FederationTypeOK
<1> DEFINE Routes == part = "routes" => IInv
<1>1. MCInit => Routes
  BY InitInv DEF MCInit
<1>2. ASSUME Routes, [MCNext]_<<vars, advVars, part>> PROVE Routes'
  <2>1. part = "routes" => [Next]_vars
    BY <1>2 DEF MCNext
  <2>2. part' = part
    BY <1>2 DEF MCNext
  <2> QED BY <1>2, <2>1, <2>2, NextInv
<1>3. Routes => FederationTypeOK
  BY TypesFollow DEF FederationTypeOK
<1> QED BY <1>1, <1>2, <1>3, PTL DEF MCSpec

(* Whatever happens to the tables, the last word a neighbour has, or has   *)
(* yet to read, is the sender's present route: publish and attach_client   *)
(* leave out no change and no link.                                        *)
THEOREM NeighboursCorrect == Safety => []NeighboursAreTold
<1>1. IInv => NeighboursAreTold
  BY DEF IInv
<1> QED BY <1>1, Invariance, PTL

-----------------------------------------------------------------------------
(* What the servers know when every advert has been read.                  *)

(* An end that is up is attached at both ends, and what the far end offers *)
(* is what it was told.                                                    *)
LEMMA QuietEnds ==
  ASSUME IInv, Quiet, NEW s \in Server, NEW l \in Link, Phase(s, l) = "attached"
  PROVE  \E t \in Server :
           /\ t = Far(s, l) /\ s = Far(t, l) /\ t # s /\ Ends[l] = {s, t}
           /\ Phase(t, l) = "attached"
           /\ session[s][l].nbr = selfId[t] /\ session[t][l].nbr = selfId[s]
           /\ offers[t][l] = KeptBy(selfId[t], t \in fast,
                UpdateOf(selfId[s], selfId[t], l, entry[s]))
<1>1. EndsBelong /\ session \in [Server -> [Link -> End]]
  BY DEF IInv, RouteTypes
<1>2. s \in Ends[l]
  BY <1>1 DEF EndsBelong
<1>3. PICK t \in Server :
        t = Far(s, l) /\ s = Far(t, l) /\ t # s /\ t \in Ends[l] /\ Ends[l] = {s, t}
  BY <1>2, FarEnd
<1>4. Phase(t, l) = "attached"
  <2>1. Phase(t, l) # "idle" /\ Phase(t, l) # "open"
    BY <1>2, <1>3 DEF Quiet, HalfOpen, LinksOf
  <2> QED BY <1>1, <1>3, <2>1 DEF Phase, End
<1>5. session[s][l].nbr = selfId[t] /\ session[t][l].nbr = selfId[s]
  BY <1>1, <1>3, <1>4 DEF EndsBelong
<1>6. wire[t][l] = <<>>
  BY <1>3 DEF Quiet, LinksOf
<1>7. IsTold(s, l, t)
  BY <1>3, <1>4, ToldIs DEF IInv
<1> QED BY <1>3, <1>4, <1>5, <1>6, <1>7 DEF IsTold, WordOf

(* What a link offers is then the route of the server at its far end.      *)
LEMMA QuietOffer ==
  ASSUME IInv, Quiet, NEW t \in Server, NEW l \in Link, offers[t][l] # None
  PROVE  \E s \in Server :
           /\ s = Far(t, l)
           /\ entry[s] \in Entry /\ entry[s] # None
           /\ offers[t][l].path = <<selfId[s]>> \o entry[s].path
           /\ offers[t][l].reg = entry[s].reg
           /\ offers[t][l].groups = entry[s].groups
<1>1. Phase(t, l) = "attached"
  BY TableFacts
<1>2. PICK s \in Server :
        s = Far(t, l) /\ t = Far(s, l) /\ Phase(s, l) = "attached"
  BY <1>1, QuietEnds
<1>3. offers[t][l] = KeptBy(selfId[t], t \in fast,
        UpdateOf(selfId[s], selfId[t], l, entry[s]))
  BY <1>2, QuietEnds
<1>4. UpdateOf(selfId[s], selfId[t], l, entry[s]).type = "route"
  BY <1>3 DEF KeptBy
<1>5. /\ entry[s] # None
      /\ UpdateOf(selfId[s], selfId[t], l, entry[s]) =
           RouteMsg(entry[s].reg, <<selfId[s]>> \o entry[s].path, entry[s].groups)
  BY <1>4 DEF UpdateOf, WithdrawMsg
<1>6. offers[t][l] = [reg |-> entry[s].reg, path |-> <<selfId[s]>> \o entry[s].path,
                      groups |-> entry[s].groups]
  BY <1>3, <1>5 DEF KeptBy, RouteMsg
<1>7. entry[s] \in Entry
  BY <1>5, TableFacts
<1>8. /\ offers[t][l].path = <<selfId[s]>> \o entry[s].path
      /\ offers[t][l].reg = entry[s].reg
      /\ offers[t][l].groups = entry[s].groups
  BY ONLY <1>6
<1> QED BY ONLY s \in Server, <1>2, <1>5, <1>7, <1>8

(* A remote route is the next hop's own with one server more.              *)
LEMMA NextHop ==
  ASSUME IInv, Quiet, NEW s \in Server, entry[s] # None, entry[s].link # Here
  PROVE  \E t \in Server :
           /\ t = Far(s, entry[s].link)
           /\ entry[t] \in Entry /\ entry[t] # None
           /\ entry[s].path = <<selfId[t]>> \o entry[t].path
           /\ entry[s].reg = entry[t].reg
           /\ entry[s].groups = entry[t].groups
<1>1. PICK l \in Link :
        /\ l = entry[s].link /\ offers[s][l] # None
        /\ entry[s] = Via(l, offers[s][l])
  BY TableFacts DEF TableOK, EntryOK, Entry
<1>2. /\ entry[s].path = offers[s][l].path /\ entry[s].reg = offers[s][l].reg
      /\ entry[s].groups = offers[s][l].groups
  BY <1>1 DEF Via
<1>3. PICK t \in Server :
        /\ t = Far(s, l)
        /\ entry[t] \in Entry /\ entry[t] # None
        /\ offers[s][l].path = <<selfId[t]>> \o entry[t].path
        /\ offers[s][l].reg = entry[t].reg
        /\ offers[s][l].groups = entry[t].groups
  BY <1>1, QuietOffer
<1> QED BY <1>1, <1>2, <1>3

(* When every advert has been read, a remote route is the next hop's own   *)
(* with one server more: no route leads nowhere or in a circle.            *)
THEOREM HomeCorrect == Safety => []RoutesLeadHome
<1>1. IInv => RoutesLeadHome
  <2> SUFFICES ASSUME IInv, Quiet, NEW s \in Server,
                      entry[s] # None, entry[s].link # Here
               PROVE  LET hop == entry[Far(s, entry[s].link)]
                      IN  /\ hop # None
                          /\ entry[s].path =
                               <<selfId[Far(s, entry[s].link)]>> \o hop.path
                          /\ entry[s].reg = hop.reg
                          /\ entry[s].groups = hop.groups
    BY DEF RoutesLeadHome
  <2> QED BY NextHop
<1> QED BY <1>1, Invariance, PTL

(* Server u has the route of s from place i of its path on.                *)
Leads(s, i, u) ==
  /\ selfId[u] = entry[s].path[i]
  /\ entry[u] \in Entry /\ entry[u] # None
  /\ entry[u].reg = entry[s].reg
  /\ entry[u].groups = entry[s].groups
  /\ Len(entry[u].path) = Len(entry[s].path) - i
  /\ \A j \in 1..Len(entry[u].path) : entry[u].path[j] = entry[s].path[i + j]

(* Following a route, every server on its path has the rest of it.         *)
LEMMA PathLeads ==
  ASSUME IInv, Quiet, NEW s \in Server, entry[s] # None,
         NEW i \in 1..Len(entry[s].path)
  PROVE  \E u \in Server : Leads(s, i, u)
<1> DEFINE Lost(r, k) == /\ entry[r] # None
                         /\ k \in 1..Len(entry[r].path)
                         /\ ~\E u \in Server : Leads(r, k, u)
           Bad == {k \in Nat : \E r \in Server : Lost(r, k)}
<1>1. SUFFICES ASSUME Lost(s, i) PROVE FALSE
  OBVIOUS
<1>2. \A r \in Server : entry[r] # None =>
        entry[r] \in Entry /\ entry[r].path \in Seq(Id) /\ Len(entry[r].path) \in Nat
  BY TableFacts DEF Entry
<1>3. i \in Bad
  BY <1>1, <1>2
<1>4. PICK k \in Bad : \A m \in Bad : k <= m
  <2>1. Bad \in SUBSET Nat
    OBVIOUS
  <2> HIDE DEF Bad
  <2> QED BY <1>3, <2>1, HasLeast
<1>5. PICK r \in Server : Lost(r, k)
  BY <1>4
<1>6. entry[r].link # Here
  <2>1. EntryOK(entry[r], offers[r], selfId[r], clock[r], r \in fast)
    BY <1>5, TableFacts DEF TableOK
  <2>2. entry[r].path # <<>>
    BY <1>2, <1>5
  <2> QED BY <2>1, <2>2 DEF EntryOK
<1>7. PICK t \in Server :
        /\ entry[t] \in Entry /\ entry[t] # None
        /\ entry[r].path = <<selfId[t]>> \o entry[t].path
        /\ entry[r].reg = entry[t].reg
        /\ entry[r].groups = entry[t].groups
  BY <1>5, <1>6, NextHop
<1>8. PICK path \in Seq(Id) : path = entry[t].path
  BY <1>2, <1>7
<1>9. /\ Len(path) \in Nat
      /\ Len(entry[r].path) = 1 + Len(path)
      /\ entry[r].path[1] = selfId[t]
      /\ \A j \in 1..Len(path) : entry[r].path[1 + j] = path[j]
  BY <1>2, <1>7, <1>8
<1>10. k \in 1..(1 + Len(path)) /\ k \in Nat
  BY <1>4, <1>5, <1>9
<1>11. CASE k = 1
  <2>1. Leads(r, 1, t)
    BY <1>7, <1>8, <1>9 DEF Leads
  <2> QED BY <1>5, <1>11, <2>1
<1>12. CASE k # 1
  <2>1. k - 1 \in 1..Len(path) /\ k - 1 \in Nat
    BY ONLY <1>9, <1>10, <1>12
  <2>2. ~Lost(t, k - 1)
    <3>1. k - 1 \in Bad => k <= k - 1
      BY <1>4
    <3>2. ~(k <= k - 1)
      BY ONLY <1>10
    <3> QED BY <2>1, <3>1, <3>2
  <2>3. PICK u \in Server : Leads(t, k - 1, u)
    BY <1>7, <1>8, <2>1, <2>2
  <2>4. /\ selfId[u] = path[k - 1]
        /\ entry[u] \in Entry /\ entry[u] # None
        /\ entry[u].reg = entry[t].reg
        /\ entry[u].groups = entry[t].groups
        /\ Len(entry[u].path) = Len(path) - (k - 1)
        /\ \A j \in 1..Len(entry[u].path) : entry[u].path[j] = path[(k - 1) + j]
    BY <1>8, <2>3 DEF Leads
  <2>5. selfId[u] = entry[r].path[k]
    <3>1. 1 + (k - 1) = k
      BY ONLY <1>10
    <3> QED BY <1>9, <2>1, <2>4, <3>1
  <2>6. Len(entry[u].path) = Len(entry[r].path) - k
    BY ONLY <1>9, <1>10, <2>4
  <2>7. ASSUME NEW j \in 1..Len(entry[u].path)
        PROVE  entry[u].path[j] = entry[r].path[k + j]
    <3>1. j \in Nat /\ (k - 1) + j \in 1..Len(path) /\ 1 + ((k - 1) + j) = k + j
      BY ONLY <1>9, <1>10, <1>12, <2>4, <2>7
    <3> QED BY ONLY <1>9, <2>4, <2>7, <3>1
  <2>8. Leads(r, k, u)
    BY <1>7, <2>4, <2>5, <2>6, <2>7 DEF Leads
  <2> QED BY <1>5, <2>8
<1> QED BY <1>11, <1>12

(* The claim of a server by the route it uses.                             *)
ClaimHere(s) == ClaimOf(entry[s], selfId[s])

(* The server the ISSI is registered at, by what another knows, has it.    *)
LEMMA Registered ==
  ASSUME IInv, Quiet, NEW s \in Server, entry[s] # None
  PROVE  \E o \in Server :
           /\ selfId[o] = ClaimHere(s).origin
           /\ entry[o] # None
           /\ entry[o].reg = entry[s].reg
           /\ entry[o].groups = entry[s].groups
<1>1. /\ entry[s] \in Entry /\ entry[s].path \in Seq(Id) /\ selfId[s] \in Id
      /\ Len(entry[s].path) \in Nat
  BY TableFacts DEF Entry
<1>2. CASE entry[s].path = <<>>
  BY <1>1, <1>2, EntryClaims DEF ClaimHere
<1>3. CASE entry[s].path # <<>>
  <2>1. PICK path \in Seq(Id) : path = entry[s].path
    BY <1>1
  <2>2. Len(path) \in 1..Len(path)
    BY <1>3, <2>1
  <2>3. PICK o \in Server : Leads(s, Len(path), o)
    BY <2>1, <2>2, PathLeads
  <2>4. ClaimHere(s).origin = path[Len(path)]
    BY <1>1, <1>3, <2>1, EntryClaims DEF ClaimHere, Origin
  <2> QED BY <2>1, <2>3, <2>4 DEF Leads
<1> QED BY <1>2, <1>3

(* Servers that know of one origin know the same of it.                    *)
LEMMA SameOrigin ==
  ASSUME IInv, Quiet, NEW s \in Server, NEW t \in Server,
         entry[s] # None, entry[t] # None,
         ClaimHere(s).origin = ClaimHere(t).origin
  PROVE  entry[s].reg = entry[t].reg /\ entry[s].groups = entry[t].groups
<1>1. PICK o \in Server :
        /\ selfId[o] = ClaimHere(s).origin
        /\ entry[o].reg = entry[s].reg
        /\ entry[o].groups = entry[s].groups
  BY Registered
<1>2. PICK p \in Server :
        /\ selfId[p] = ClaimHere(t).origin
        /\ entry[p].reg = entry[t].reg
        /\ entry[p].groups = entry[t].groups
  BY Registered
<1>3. o = p
  BY <1>1, <1>2 DEF IInv, IdsDiffer
<1> QED BY <1>1, <1>2, <1>3

(* In a federation of no more than MAX_PATH servers no path is too long    *)
(* to be passed on.                                                        *)
LEMMA ShortPaths ==
  ASSUME IInv, Quiet, IsFiniteSet(Server), Cardinality(Server) <= MaxPath,
         NEW s \in Server, entry[s] # None
  PROVE  Len(entry[s].path) < MaxPath
<1>1. PICK path \in Seq(Id) : path = entry[s].path /\ Simple(path, selfId[s])
  BY TableFacts DEF Entry, TableOK, EntryOK
<1>2. Len(path) \in Nat
  OBVIOUS
<1> DEFINE At(i) == CHOOSE u \in Server : selfId[u] = path[i]
           others == Server \ {s}
<1>3. ASSUME NEW i \in 1..Len(path)
      PROVE  At(i) \in others /\ selfId[At(i)] = path[i]
  <2>1. \E u \in Server : selfId[u] = path[i]
    BY <1>1, PathLeads DEF Leads
  <2>2. At(i) \in Server /\ selfId[At(i)] = path[i]
    BY <2>1
  <2>3. path[i] # selfId[s]
    BY <1>1 DEF Simple, Visits
  <2> HIDE DEF At
  <2> QED BY <2>2, <2>3
<1>4. PICK f : f = [i \in 1..Len(path) |-> At(i)]
  OBVIOUS
<1> HIDE DEF At
<1>5. f \in Injection(1..Len(path), others)
  <2>1. f \in [1..Len(path) -> others]
    BY <1>3, <1>4
  <2>2. ASSUME NEW i \in 1..Len(path), NEW j \in 1..Len(path), f[i] = f[j]
        PROVE  i = j
    <3>1. path[i] = path[j]
      BY <1>3, <1>4, <2>2
    <3> QED BY <1>1, <3>1 DEF Simple
  <2> QED BY <2>1, <2>2 DEF Injection, IsInjective
<1>6. /\ IsFiniteSet(others)
      /\ Cardinality(others) = Cardinality(Server) - 1
      /\ Cardinality(Server) \in Nat
  BY FS_RemoveElement, FS_CardinalityType
<1>7. Cardinality(1..Len(path)) <= Cardinality(others)
  <2> HIDE DEF others
  <2> QED BY <1>5, <1>6, FS_Injection
<1>8. Cardinality(1..Len(path)) = Len(path)
  <2>1. 1 \in Int /\ Len(path) \in Int
    BY <1>2
  <2>2. Cardinality(1..Len(path)) = IF 1 > Len(path) THEN 0 ELSE Len(path) - 1 + 1
    BY ONLY <2>1, FS_Interval
  <2> QED BY ONLY <1>2, <2>2
<1>9. MaxPath \in Nat
  BY FedRouteAssumption
<1> QED BY ONLY <1>1, <1>2, <1>6, <1>7, <1>8, <1>9, Cardinality(Server) <= MaxPath

(* What a server knows, its neighbour knows, or something newer.           *)
LEMMA Heard ==
  ASSUME IInv, Quiet, IsFiniteSet(Server), Cardinality(Server) <= MaxPath,
         NEW s \in Server \ fast, NEW t \in Server \ fast, NEW l \in Link,
         Ends[l] = {s, t}, Phase(s, l) = "attached", entry[s] # None
  PROVE  /\ entry[t] # None
         /\ \/ ClaimHere(t).origin = ClaimHere(s).origin
            \/ ~Older(ClaimHere(t), ClaimHere(s))
<1>1. PICK far \in Server :
        /\ far = Far(s, l) /\ far # s /\ Ends[l] = {s, far}
        /\ offers[far][l] = KeptBy(selfId[far], far \in fast,
             UpdateOf(selfId[s], selfId[far], l, entry[s]))
  BY QuietEnds
<1>2. far = t
  BY <1>1
<1>3. PICK path \in Seq(Id) :
        /\ path = entry[s].path
        /\ Simple(path, selfId[s])
        /\ entry[s].reg <= Day
  BY TableFacts DEF Entry, TableOK, EntryOK
<1>4. /\ entry[s] \in Entry /\ selfId[s] \in Id
      /\ ClaimHere(s).origin = Origin(<<selfId[s]>> \o path)
      /\ ClaimHere(s).reg = entry[s].reg
      /\ path # <<>> => ClaimHere(s).origin = Origin(path)
  BY <1>3, TableFacts, EntryClaims DEF ClaimHere
<1>5. CASE entry[s].link = l
  <2>1. entry[s].link # Here
    BY <1>5, FedRouteAssumption
  <2>2. PICK hop \in Server :
          /\ hop = Far(s, entry[s].link)
          /\ entry[hop] \in Entry /\ entry[hop] # None
          /\ entry[s].path = <<selfId[hop]>> \o entry[hop].path
    BY <2>1, NextHop
  <2>3. hop = t
    BY <1>1, <1>2, <1>5, <2>2
  <2>4. path # <<>>
    BY <1>3, <2>1, TableFacts DEF TableOK, EntryOK
  <2>5. ClaimHere(t).origin = Origin(<<selfId[t]>> \o entry[t].path)
    BY <2>2, <2>3, TableFacts, EntryClaims DEF ClaimHere
  <2> QED BY <1>3, <1>4, <2>2, <2>3, <2>4, <2>5
<1>6. CASE Visits(path, selfId[t])
  <2>1. PICK i \in 1..Len(path) : path[i] = selfId[t]
    BY <1>6 DEF Visits
  <2>2. PICK u \in Server : Leads(s, i, u)
    BY <1>3, <2>1, PathLeads
  <2>3. u = t
    BY <1>3, <2>1, <2>2 DEF Leads, IInv, IdsDiffer
  <2>4. PICK rest \in Seq(Id) :
          /\ rest = entry[t].path
          /\ Len(rest) = Len(path) - i
          /\ \A j \in 1..Len(rest) : rest[j] = path[i + j]
    BY <1>3, <2>2, <2>3 DEF Leads, Entry
  <2>5. entry[t] \in Entry /\ entry[t] # None /\ selfId[t] \in Id
    BY <2>2, <2>3, TableFacts DEF Leads
  <2>6. /\ rest = <<>> => ClaimHere(t).origin = selfId[t]
        /\ rest # <<>> => ClaimHere(t).origin = rest[Len(rest)]
    BY <2>4, <2>5, EntryClaims DEF ClaimHere, Origin
  <2>7. ClaimHere(s).origin = path[Len(path)]
    BY <1>4, <2>1 DEF Origin
  <2>8. CASE rest = <<>>
    <3>1. i = Len(path)
      BY <2>4, <2>8
    <3> QED BY <2>1, <2>5, <2>6, <2>7, <2>8, <3>1
  <2>9. CASE rest # <<>>
    <3>1. Len(rest) \in 1..Len(rest)
      BY <2>9
    <3>2. i + Len(rest) = Len(path)
      BY <2>4
    <3>3. rest[Len(rest)] = path[i + Len(rest)]
      BY ONLY <2>4, <3>1
    <3> QED BY <2>5, <2>6, <2>7, <2>9, <3>2, <3>3
  <2> QED BY <2>8, <2>9
<1>7. CASE entry[s].link # l /\ ~Visits(path, selfId[t])
  <2>1. Len(path) < MaxPath
    BY <1>3, ShortPaths
  <2>2. UpdateOf(selfId[s], selfId[t], l, entry[s]) =
          RouteMsg(entry[s].reg, <<selfId[s]>> \o path, entry[s].groups)
    BY <1>3, <1>7, <2>1 DEF UpdateOf
  <2>3. ~Visits(<<selfId[s]>> \o path, selfId[t])
    <3>1. selfId[s] # selfId[t]
      BY <1>1, <1>2 DEF IInv, IdsDiffer
    <3>2. \A i \in 1..Len(<<selfId[s]>> \o path) :
            \/ (<<selfId[s]>> \o path)[i] = selfId[s]
            \/ i - 1 \in 1..Len(path) /\ (<<selfId[s]>> \o path)[i] = path[i - 1]
      BY <1>4
    <3> QED BY <1>7, <3>1, <3>2 DEF Visits
  <2>4. ~(entry[s].reg > Day)
    <3>1. entry[s].reg \in Nat /\ Day \in Nat
      BY <1>4, TableFacts, FedRouteAssumption DEF Entry, Day
    <3> QED BY ONLY <1>3, <3>1
  <2>5. offers[t][l] = [reg |-> entry[s].reg, path |-> <<selfId[s]>> \o path,
                        groups |-> entry[s].groups]
    BY <1>1, <1>2, <2>2, <2>3, <2>4 DEF KeptBy, RouteMsg
  <2>6. offers[t][l] # None
    <3>1. /\ entry[s].reg \in Reg /\ entry[s].groups \in SUBSET Gssi
          /\ <<selfId[s]>> \o path \in Seq(Id)
      BY <1>4 DEF Entry
    <3>2. offers[t][l] \in Advert
      BY <2>5, <3>1 DEF Advert
    <3> QED BY <3>2, FedRouteNoneAssumption
  <2>7. Claim(offers[t][l]) = ClaimHere(s)
    BY <1>3, <2>5 DEF Claim, ClaimHere, ClaimOf
  <2>8. Newest(entry[t], selfId[t], offers[t])
    BY TableFacts DEF TableOK
  <2>9. /\ entry[t] # None
        /\ \/ ~Older(ClaimHere(t), ClaimHere(s))
           \/ \E m \in Link :
                /\ offers[t][m] # None
                /\ Claim(offers[t][m]).origin = ClaimHere(t).origin
                /\ ~Older(Claim(offers[t][m]), ClaimHere(s))
    BY <2>6, <2>7, <2>8 DEF Newest, ClaimHere
  <2>10. ASSUME NEW m \in Link, offers[t][m] # None,
                Claim(offers[t][m]).origin = ClaimHere(t).origin
         PROVE  Claim(offers[t][m]) = ClaimHere(t)
    <3>1. PICK u \in Server :
            /\ entry[u] # None
            /\ offers[t][m].path = <<selfId[u]>> \o entry[u].path
            /\ offers[t][m].reg = entry[u].reg
      BY <2>10, QuietOffer
    <3>2. Claim(offers[t][m]) = ClaimHere(u)
      BY <3>1 DEF Claim, ClaimHere, ClaimOf
    <3>3. entry[u].reg = entry[t].reg
      BY <2>9, <2>10, <3>1, <3>2, SameOrigin
    <3> QED BY <2>10, <3>2, <3>3 DEF ClaimHere, ClaimOf
  <2> QED BY <2>9, <2>10
<1> QED BY <1>5, <1>6, <1>7

(* When every advert has been read, linked servers whose clocks are right  *)
(* agree on whether the ISSI is registered, where, since when and in what  *)
(* groups, in a federation of any shape with no more than MAX_PATH servers.*)
THEOREM AgreeCorrect ==
  ASSUME IsFiniteSet(Server), Cardinality(Server) <= MaxPath
  PROVE  Safety => []ServersAgree
<1>1. IInv => ServersAgree
  <2> SUFFICES ASSUME IInv, Quiet,
                      NEW s \in Server \ fast, NEW t \in Server \ fast,
                      NEW l \in Link, Linked(s, t, l)
               PROVE  /\ entry[s] = None <=> entry[t] = None
                      /\ entry[s] # None =>
                           /\ entry[s].reg = entry[t].reg
                           /\ entry[s].groups = entry[t].groups
                           /\ ClaimHere(s).origin = ClaimHere(t).origin
    BY DEF ServersAgree, ClaimHere, ClaimOf
  <2>1. /\ Ends[l] = {s, t} /\ Ends[l] = {t, s}
        /\ Phase(s, l) = "attached" /\ Phase(t, l) = "attached"
    BY QuietEnds DEF Linked, Attached
  <2>2. entry[s] # None =>
          /\ entry[t] # None
          /\ \/ ClaimHere(t).origin = ClaimHere(s).origin
             \/ ~Older(ClaimHere(t), ClaimHere(s))
    BY <2>1, Heard
  <2>3. entry[t] # None =>
          /\ entry[s] # None
          /\ \/ ClaimHere(s).origin = ClaimHere(t).origin
             \/ ~Older(ClaimHere(s), ClaimHere(t))
    BY <2>1, Heard
  <2>4. entry[s] # None /\ entry[t] # None =>
          ClaimHere(s) \in AClaim /\ ClaimHere(t) \in AClaim
    BY TableFacts, EntryClaims DEF ClaimHere
  <2>5. entry[s] # None => ClaimHere(s).origin = ClaimHere(t).origin
    BY <2>2, <2>3, <2>4, OlderIsOrder
  <2> QED BY <2>2, <2>3, <2>5, SameOrigin
<1> QED BY <1>1, Invariance, PTL

=============================================================================
