---------------------------- MODULE MCFederation ----------------------------
(***************************************************************************)
(* Three servers, each linked to the other two, so that every advert can   *)
(* come back on another way, for TLC.  Routes and the other adverts share  *)
(* only the links, so a behaviour follows one kind of them.                *)
(***************************************************************************)
EXTENDS FedRoute, FedAdverts

MCEnds == [l \in Link |-> CASE l = "ab" -> {"a", "b"}
                            [] l = "bc" -> {"b", "c"}
                            [] l = "ca" -> {"c", "a"}]

MCFirstId == [s \in Server |-> CASE s = "a" -> 1 [] s = "b" -> 2 [] s = "c" -> 3]

(* All clocks right, or the one of "b" more than a day ahead.              *)
MCFast == {{}, {"b"}}

(* "b" is older: it knows Basestations' positions, or radios' too.         *)
MCVersions == [k \in Kind |-> [s \in Server |->
  CASE s # "b" \/ k = "alarm" -> 3 [] k = "fix" -> 2 [] k = "site" -> 1]]

MCOrigins == [k \in Kind |-> IF k = "fix" THEN {"a", "b"} ELSE {"a"}]

VARIABLE part  \* what is followed

MCInit ==
  \/ /\ part = "routes"
     /\ Init /\ TablesInit /\ kind = CHOOSE k \in Kind : TRUE
  \/ /\ part = "adverts"
     /\ AdvInit /\ RouteInit /\ fast = {}

MCNext ==
  /\ UNCHANGED part
  /\ \/ part = "routes" /\ Next /\ UNCHANGED advVars
     \/ part = "adverts" /\ AdvNext /\ UNCHANGED <<routeVars, fast, used, bounds>>

(* AdvFairness for its part; routes settle without.                        *)
MCFairness ==
  /\ WF_advAll(part = "adverts" /\ \E s \in Server : AdvertiseIfDue(s) \/ PushIfDue(s))
  /\ WF_advAll(part = "adverts" /\ \E s \in Server, l \in Link :
               FedHandle(s, l) \/ Greets(s, l) \/ FindsClosed(s, l))
  /\ WF_advAll(part = "adverts" /\ \E l \in Link : AdvDial(l))
  /\ WF_advAll(part = "adverts" /\ TimeGoesOn)

MCSpec == MCInit /\ [][MCNext]_<<vars, advVars, part>> /\ MCFairness

-----------------------------------------------------------------------------
(* FedRouteTypeOK and AdvertsDieOut, where routes are what is followed.    *)
FederationTypeOK == part = "routes" => FedRouteTypeOK

RoutesDieOut == <>[][part = "adverts"]_wire
=============================================================================
