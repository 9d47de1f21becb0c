------------------------------ MODULE Handshake ------------------------------
(***************************************************************************)
(* How a Brew connection comes about (src/src/server.rs): the discovery    *)
(* GET, the digest challenge, the session token or the hint that carries   *)
(* what the GET announced to the WebSocket upgrade, and the negotiation of *)
(* loop-safe federation, with the dialling side of a federated server      *)
(* (federation.rs: discover, connect_and_run, peer_loop).                  *)
(*                                                                         *)
(* A nonce and a token are known only to the party they were given to, so  *)
(* both are named by the dial <<p, k>>, the k-th attempt of party p.  The  *)
(* server takes the lock for the check of a nonce or token and again for   *)
(* its removal; other requests, and purge_ephemeral, run in between.       *)
(***************************************************************************)
EXTENDS Naturals

CONSTANTS
  Party,         \* clients and federated servers that connect to the server
  PAddr,         \* the address of each
  Agent,         \* its User-Agent, or Absent
  OnGet,         \* what it announces on the discovery GET: [mode, version]
  OnUpgrade,     \* and on the upgrade, Absent for no such header
  User,          \* its digest username
  Offers,        \* its server id if it offers loop-safe federation, or Absent
  OwnId,         \* self_id of the server
  Repeats,       \* those that may send an upgrade again on a new connection
  MaxDial,       \* attempts are numbered modulo this
  MaxTrouble,    \* bound: requests given up, links broken, entries purged
  Absent

ASSUME HandshakeAssumption ==
  /\ Repeats \subseteq Party
  /\ MaxDial \in Nat \ {0, 1} /\ MaxTrouble \in Nat
  /\ Absent # "Peer"
  /\ \A p \in Party :
       /\ Absent \notin {PAddr[p], User[p], OwnId}
       \* every brew-server announces Peer on the upgrade, clients never do
       /\ OnGet[p].mode = "Peer" => OnUpgrade[p].mode = "Peer"

VARIABLES
  auth,          \* [auth] enabled
  loopSafe,      \* [federation] loop_safe
  digestNonces, authSessions,    \* sets of dials
  hints,         \* discovery_hints: of each address the party it is from
  dial,          \* of each party: [pc, k, again], again if it repeated itself
  upgrades,      \* upgrade requests whose token has been found
  connections,   \* inner.clients
  link           \* what the party thinks: Absent, or [k, n, nbr]

VARIABLE trouble

config == <<auth, loopSafe>>
tables == <<digestNonces, authSessions, hints>>
shakeVars ==
  <<config, tables, dial, upgrades, connections, link, trouble>>

Addrs == {PAddr[p] : p \in Party}

HandshakeInit ==
  /\ auth \in BOOLEAN /\ loopSafe \in BOOLEAN
  /\ digestNonces = {} /\ authSessions = {}
  /\ hints = [a \in Addrs |-> Absent]
  /\ dial \in [Party -> [pc : {"idle", "away"}, k : {0}, again : {FALSE}]]
  /\ upgrades = {}
  /\ connections = {}
  /\ link = [p \in Party |-> Absent]
  /\ trouble = 0

Trouble == trouble < MaxTrouble /\ trouble' = trouble + 1
Calm == UNCHANGED trouble

Dial(p) == <<p, dial[p].k>>
Goes(p, pc) == dial' = [dial EXCEPT ![p].pc = pc]

-----------------------------------------------------------------------------
(* Discovery.                                                              *)

NextDial(k) == (k + 1) % MaxDial

(* A party begins (peer_loop, connect_and_run).                            *)
Begin(p) ==
  /\ dial[p].pc = "idle" /\ link[p] = Absent
  /\ \A c \in connections : <<c.p, c.k>> # <<p, NextDial(dial[p].k)>>
  /\ dial' = [dial EXCEPT ![p] =
       [pc |-> "get", k |-> NextDial(@.k), again |-> FALSE]]
  /\ UNCHANGED <<config, tables, upgrades, connections, link>> /\ Calm

(* check_brew_version: v0, v1 or none.                                     *)
Supported(v) == v \in {Absent, 0, 1}

Announces(p) == OnGet[p].mode # Absent \/ OnGet[p].version # Absent

(* brew_discovery of a GET with no answer to a challenge.                  *)
BrewDiscovery(p) ==
  /\ dial[p].pc = "get"
  /\ IF ~Supported(OnGet[p].version)
       THEN Goes(p, "idle") /\ UNCHANGED tables
     ELSE IF auth
       THEN /\ digestNonces' = digestNonces \union {Dial(p)}
            /\ Goes(p, "challenged")
            /\ UNCHANGED <<authSessions, hints>>
     ELSE /\ hints' =
               IF Announces(p) /\ OnGet[p].mode # "Peer" /\ Agent[p] # Absent
                 THEN [hints EXCEPT ![PAddr[p]] = p] ELSE hints
          /\ Goes(p, "found")
          /\ UNCHANGED <<digestNonces, authSessions>>
  /\ UNCHANGED <<config, upgrades, connections, link>> /\ Calm

(* verify_digest up to the end of its first lock: an unknown nonce gets    *)
(* another challenge, which a dialling server takes for a rejection.       *)
CheckNonce(p) ==
  /\ dial[p].pc = "challenged"
  /\ Goes(p, IF Dial(p) \in digestNonces THEN "verified" ELSE "idle")
  /\ UNCHANGED <<config, tables, upgrades, connections, link>> /\ Calm

(* The nonce goes, a session token comes.                                  *)
GrantSession(p) ==
  /\ dial[p].pc = "verified"
  /\ digestNonces' = digestNonces \ {Dial(p)}
  /\ authSessions' = authSessions \union {Dial(p)}
  /\ Goes(p, "found")
  /\ UNCHANGED <<config, hints, upgrades, connections, link>> /\ Calm

-----------------------------------------------------------------------------
(* The upgrade.                                                            *)

NothingKnown == [mode |-> Absent, version |-> Absent]

(* upgrade_mode_version: the upgrade's mode wins, the version is the       *)
(* higher one; an unsupported version announces nothing.                   *)
ModeOf(up, got) ==
  IF up.mode # Absent THEN up.mode
  ELSE IF got.mode # Absent THEN got.mode ELSE "Basestation"

VersionOf(up, got) ==
  LET announced == IF Supported(up.version) THEN up.version ELSE Absent
  IN  CASE announced = Absent -> got.version
        [] got.version = Absent -> announced
        [] OTHER -> IF announced > got.version THEN announced ELSE got.version

(* A mutant: the server's own setting is not asked.                        *)
NeighbourOffered(p, mode) == IF mode = "Peer" THEN Offers[p] ELSE Absent

(* negotiate_federation.                                                   *)
Neighbour(p, mode) ==
  IF mode = "Peer" /\ loopSafe THEN Offers[p] ELSE Absent

(* upgrade_from_parts, client_session up to attach_client: a link to the   *)
(* server itself is refused.                                               *)
UpgradeFromParts(p, k, n, got, user) ==
  LET mode == ModeOf(OnUpgrade[p], got)
  IN  connections' =
        IF Neighbour(p, mode) = OwnId THEN connections
        ELSE connections \union
          {[p |-> p, k |-> k, n |-> n, mode |-> mode,
            version |-> VersionOf(OnUpgrade[p], got),
            user |-> user, nbr |-> Neighbour(p, mode)]}

(* brew_session_endpoint up to the end of its first lock.                  *)
TokenChecked(p, n) ==
  /\ auth
  /\ IF Dial(p) \in authSessions
       THEN /\ upgrades' = upgrades \union {<<p, dial[p].k, n>>}
            /\ dial' = [dial EXCEPT ![p] =
                 [@ EXCEPT !.pc = "upgrading", !.again = n = 2]]
       ELSE Goes(p, "idle") /\ UNCHANGED upgrades
  /\ UNCHANGED <<config, tables, connections, link>>

CheckToken(p) == dial[p].pc = "found" /\ TokenChecked(p, 1) /\ Calm

(* A party that has heard nothing yet tries the same path again.           *)
ChecksAgain(p) ==
  /\ Trouble
  /\ p \in Repeats
  /\ dial[p].pc = "upgrading" /\ ~dial[p].again
  /\ TokenChecked(p, 2)

(* The rest of it: whoever finds the token gone gets the defaults.         *)
TakeToken(p, k, n) ==
  LET known == <<p, k>> \in authSessions
  IN  /\ <<p, k, n>> \in upgrades
      /\ upgrades' = upgrades \ {<<p, k, n>>}
      /\ authSessions' = authSessions \ {<<p, k>>}
      /\ UpgradeFromParts(p, k, n, IF known THEN OnGet[p] ELSE NothingKnown,
                          IF known THEN User[p] ELSE Absent)
      /\ UNCHANGED <<config, digestNonces, hints, dial, link>> /\ Calm

(* A mutant: whoever is at the address takes the hint.                     *)
HintOfAddress(p) == hints[PAddr[p]]

(* With [auth] off: the hint from the same address and User-Agent.         *)
HintFor(p) ==
  LET hint == hints[PAddr[p]]
  IN  IF hint # Absent /\ Agent[hint] = Agent[p] THEN hint ELSE Absent

UpgradeByHint(p) ==
  LET hint == HintFor(p)
  IN  /\ ~auth
      /\ dial[p].pc = "found"
      /\ hints' = IF hint = Absent THEN hints
                  ELSE [hints EXCEPT ![PAddr[p]] = Absent]
      /\ UpgradeFromParts(p, dial[p].k, 1,
           IF hint = Absent THEN NothingKnown ELSE OnGet[hint], Absent)
      /\ Goes(p, "upgrading")
      /\ UNCHANGED <<config, digestNonces, authSessions, upgrades, link>>
      /\ Calm

(* The connection of a party's present upgrade.                            *)
Present(c) ==
  /\ dial[c.p].pc = "upgrading"
  /\ <<c.k, c.n>> = <<dial[c.p].k, IF dial[c.p].again THEN 2 ELSE 1>>

(* The 101 arrives; accepted_neighbour.                                    *)
Accepted101(c) ==
  /\ c \in connections /\ Present(c)
  /\ link' = [link EXCEPT ![c.p] =
       [k |-> c.k, n |-> c.n,
        nbr |-> IF Offers[c.p] # Absent /\ c.nbr # Absent THEN OwnId ELSE Absent]]
  /\ Goes(c.p, "idle")
  /\ UNCHANGED <<config, tables, upgrades, connections>> /\ Calm

(* The upgrade was refused.                                                *)
Refused(p) ==
  /\ dial[p].pc = "upgrading"
  /\ \A u \in upgrades : <<u[1], u[2]>> # Dial(p)
  /\ \A c \in connections : <<c.p, c.k>> # Dial(p)
  /\ Goes(p, "idle")
  /\ UNCHANGED <<config, tables, upgrades, connections, link>> /\ Calm

-----------------------------------------------------------------------------
(* Failures.                                                               *)

(* A dial times out or its connection breaks, whatever the server does     *)
(* with what it has got.                                                   *)
GivesUp(p) ==
  /\ Trouble
  /\ dial[p].pc \notin {"idle", "away"}
  /\ Goes(p, "idle")
  /\ UNCHANGED <<config, tables, upgrades, connections, link>>

Breaks(p) ==
  /\ Trouble
  /\ link[p] # Absent
  /\ link' = [link EXCEPT ![p] = Absent]
  /\ UNCHANGED <<config, tables, dial, upgrades, connections>>

(* Whether the party is still at the other end, or will be.                *)
HeldBy(c) ==
  \/ link[c.p] # Absent /\ <<link[c.p].k, link[c.p].n>> = <<c.k, c.n>>
  \/ Present(c)

(* The keepalive finds that nobody is there, and cleanup_client.           *)
KeepaliveCloses(c) ==
  /\ c \in connections /\ ~HeldBy(c)
  /\ connections' = connections \ {c}
  /\ UNCHANGED <<config, tables, dial, upgrades, link>> /\ Calm

(* purge_ephemeral.                                                        *)
Purges ==
  /\ Trouble
  /\ \/ \E d \in digestNonces : /\ digestNonces' = digestNonces \ {d}
                                /\ UNCHANGED <<authSessions, hints>>
     \/ \E d \in authSessions : /\ authSessions' = authSessions \ {d}
                                /\ UNCHANGED <<digestNonces, hints>>
     \/ \E a \in Addrs : /\ hints[a] # Absent
                         /\ hints' = [hints EXCEPT ![a] = Absent]
                         /\ UNCHANGED <<digestNonces, authSessions>>
  /\ UNCHANGED <<config, dial, upgrades, connections, link>>

Proceeds(p) ==
  \/ Begin(p) \/ BrewDiscovery(p) \/ CheckNonce(p) \/ GrantSession(p)
  \/ CheckToken(p) \/ UpgradeByHint(p) \/ Refused(p)
  \/ \E k \in 0 .. (MaxDial - 1), n \in {1, 2} : TakeToken(p, k, n)
  \/ \E c \in connections : c.p = p /\ Accepted101(c)

HandshakeNext ==
  \/ \E p \in Party : Proceeds(p) \/ ChecksAgain(p) \/ GivesUp(p) \/ Breaks(p)
  \/ \E c \in connections : KeepaliveCloses(c)
  \/ Purges

(* peer_loop dials again, requests are handled and answered, and the       *)
(* keepalive is on.                                                        *)
HandshakeFairness ==
  /\ \A p \in Party : WF_shakeVars(Proceeds(p))
  /\ WF_shakeVars(\E c \in connections : KeepaliveCloses(c))

HandshakeSpec == HandshakeInit /\ [][HandshakeNext]_shakeVars /\ HandshakeFairness

-----------------------------------------------------------------------------
(* A connection runs as its own client announced, whoever else connects    *)
(* from its address: with [auth] exactly so, unless its token was purged or*)
(* taken by an upgrade it sent twice (brew_session_endpoint checks it and  *)
(* takes it under two locks), and then as the upgrade alone announces;     *)
(* without [auth] as the upgrade alone does, or with the hint of a client  *)
(* with the same address and User-Agent (brew_discovery).                  *)
Twins(p) == {q \in Party : PAddr[q] = PAddr[p] /\ Agent[q] = Agent[p]}

As(c, p, got, user) ==
  /\ c.mode = ModeOf(OnUpgrade[p], got)
  /\ c.version = VersionOf(OnUpgrade[p], got)
  /\ c.user = user

RunsAsAnnounced ==
  \A c \in connections :
    /\ (c.mode = "Peer") = (OnUpgrade[c.p].mode = "Peer")
    /\ IF auth
         THEN \/ As(c, c.p, OnGet[c.p], User[c.p])
              \/ As(c, c.p, NothingKnown, Absent) /\ trouble > 0
         ELSE \/ As(c, c.p, NothingKnown, Absent)
              \/ \E q \in Twins(c.p) : As(c, c.p, OnGet[q], Absent)

(* Whatever is lost, times out or breaks on the way, a party that keeps    *)
(* dialling is in the end connected exactly once, and both ends agree      *)
(* whether the link is loop-safe and who is at the other end of it; a      *)
(* server that dials itself never is.                                      *)
Agreed(p) ==
  IF loopSafe /\ Offers[p] = OwnId
    THEN link[p] = Absent /\ \A c \in connections : c.p # p
    ELSE /\ link[p] # Absent
         /\ \A c \in connections : c.p = p =>
              /\ <<c.k, c.n>> = <<link[p].k, link[p].n>>
              /\ \/ loopSafe /\ c.nbr = Offers[p] /\ link[p].nbr = OwnId
                 \/ /\ ~loopSafe \/ Offers[p] = Absent
                    /\ c.nbr = Absent /\ link[p].nbr = Absent

LinksSettle ==
  \A p \in Party :
    <>[](dial[p].pc # "away" /\ Supported(OnGet[p].version) => Agreed(p))
=============================================================================
