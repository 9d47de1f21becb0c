--------------------------- MODULE HandshakeProofs ---------------------------
(***************************************************************************)
(* A connection runs as its own client announced: for any number of        *)
(* parties, addresses, attempts and failures.                              *)
(***************************************************************************)
EXTENDS Handshake, TLAPS

-----------------------------------------------------------------------------
(* The inductive invariant.                                                *)

Steps == {"idle", "away", "get", "challenged", "verified", "found", "upgrading"}

ShakeTypesOK ==
  /\ dial \in [Party -> [pc : Steps, k : Nat, again : BOOLEAN]]
  /\ hints \in [Addrs -> Party \union {Absent}]
  /\ upgrades \subseteq Party \X Nat \X {1, 2}
  /\ trouble \in Nat
  /\ \A c \in connections : c.p \in Party

(* A hint is kept under the address it came from, and no peer leaves one.  *)
HintsAreOwn ==
  \A a \in Addrs : hints[a] # Absent =>
    PAddr[hints[a]] = a /\ OnGet[hints[a]].mode # "Peer"

(* Without [auth] there are no tokens to be found.                         *)
TokensNeedAuth == ~auth => upgrades = {}

BeforeUpgrade == {"get", "challenged", "verified", "found"}

(* As long as nothing went wrong, an upgrade on its way is the present and *)
(* only one of its party, its token is there for it, and it has not led to *)
(* a connection; nor has an attempt that has not come as far.              *)
UpgradesArePresent ==
  trouble = 0 =>
    /\ \A u \in upgrades :
         /\ dial[u[1]].pc = "upgrading" /\ dial[u[1]].k = u[2] /\ u[3] = 1
         /\ <<u[1], u[2]>> \in authSessions
         /\ \A c \in connections : <<c.p, c.k>> # <<u[1], u[2]>>
    /\ \A p \in Party : dial[p].pc \in BeforeUpgrade =>
         \A c \in connections : <<c.p, c.k>> # Dial(p)

IInv ==
  /\ ShakeTypesOK /\ HintsAreOwn /\ TokensNeedAuth /\ UpgradesArePresent
  /\ RunsAsAnnounced

-----------------------------------------------------------------------------
(* Steps of one party.                                                     *)

(* A party goes on to another step of its attempt.                         *)
LEMMA GoesOn ==
  ASSUME ShakeTypesOK, NEW p \in Party, NEW pc \in Steps, Goes(p, pc)
  PROVE  /\ dial' \in [Party -> [pc : Steps, k : Nat, again : BOOLEAN]]
         /\ dial'[p].pc = pc /\ dial'[p].k = dial[p].k
         /\ \A q \in Party : q # p => dial'[q] = dial[q]
BY DEF ShakeTypesOK, Goes

(* The server takes a client for a peer exactly if its upgrade says so.    *)
LEMMA PeersSaySo ==
  ASSUME NEW p \in Party, NEW got, got \in {OnGet[p], NothingKnown} \/ got.mode # "Peer"
  PROVE  (ModeOf(OnUpgrade[p], got) = "Peer") = (OnUpgrade[p].mode = "Peer")
<1>1. Absent # "Peer" /\ (OnGet[p].mode = "Peer" => OnUpgrade[p].mode = "Peer")
  BY HandshakeAssumption DEF HandshakeAssumption
<1>2. NothingKnown.mode = Absent
  BY DEF NothingKnown
<1> QED BY <1>1, <1>2 DEF ModeOf

(* What an upgrade may lead to.                                            *)
Entitled(p, got, user) ==
  IF auth
    THEN \/ got = OnGet[p] /\ user = User[p]
         \/ got = NothingKnown /\ user = Absent /\ trouble > 0
    ELSE /\ user = Absent
         /\ \/ got = NothingKnown
            \/ \E q \in Twins(p) : got = OnGet[q] /\ OnGet[q].mode # "Peer"

(* One more connection, of a client that gets what it is entitled to.      *)
LEMMA NewConnection ==
  ASSUME IInv, NEW p \in Party, NEW k, NEW n, NEW got, NEW user,
         UpgradeFromParts(p, k, n, got, user), Entitled(p, got, user),
         UNCHANGED <<auth, trouble>>
  PROVE  /\ RunsAsAnnounced'
         /\ \A c \in connections' :
              /\ c.p \in Party
              /\ c \in connections \/ (c.p = p /\ c.k = k)
<1> DEFINE mode == ModeOf(OnUpgrade[p], got)
           new == [p |-> p, k |-> k, n |-> n, mode |-> mode,
                   version |-> VersionOf(OnUpgrade[p], got),
                   user |-> user, nbr |-> Neighbour(p, mode)]
<1>1. connections' = connections \/ connections' = connections \union {new}
  BY DEF UpgradeFromParts
<1>2. /\ new.p = p /\ new.k = k /\ new.mode = ModeOf(OnUpgrade[p], got)
      /\ new.version = VersionOf(OnUpgrade[p], got) /\ new.user = user
  OBVIOUS
<1> HIDE DEF new
<1>3. As(new, p, got, user)
  BY <1>2 DEF As
<1>4. (new.mode = "Peer") = (OnUpgrade[p].mode = "Peer")
  BY <1>2, PeersSaySo DEF Entitled
<1>5. IF auth
        THEN \/ As(new, p, OnGet[p], User[p])
             \/ As(new, p, NothingKnown, Absent) /\ trouble > 0
        ELSE \/ As(new, p, NothingKnown, Absent)
             \/ \E q \in Twins(p) : As(new, p, OnGet[q], Absent)
  BY <1>3 DEF Entitled
<1>6. \A c \in connections' : c \in connections \/ c = new
  BY <1>1
<1>7. RunsAsAnnounced'
  <2> SUFFICES ASSUME NEW c \in connections'
               PROVE  /\ (c.mode = "Peer") = (OnUpgrade[c.p].mode = "Peer")
                      /\ IF auth
                           THEN \/ As(c, c.p, OnGet[c.p], User[c.p])
                                \/ As(c, c.p, NothingKnown, Absent) /\ trouble > 0
                           ELSE \/ As(c, c.p, NothingKnown, Absent)
                                \/ \E q \in Twins(c.p) : As(c, c.p, OnGet[q], Absent)
    BY DEF RunsAsAnnounced
  <2>1. CASE c \in connections
    BY <2>1 DEF IInv, RunsAsAnnounced
  <2>2. CASE c = new
    BY <1>2, <1>4, <1>5, <2>2
  <2> QED BY <1>6, <2>1, <2>2
<1>8. \A c \in connections : c.p \in Party
  BY DEF IInv, ShakeTypesOK
<1> QED BY <1>2, <1>6, <1>7, <1>8

(* Connections that stay or go run as they did.                            *)
LEMMA NoNewConnection ==
  ASSUME IInv, UNCHANGED auth, connections' \subseteq connections,
         trouble' \in Nat, trouble' >= trouble
  PROVE  RunsAsAnnounced' /\ \A c \in connections' : c.p \in Party
<1>1. trouble > 0 => trouble' > 0
  BY DEF IInv, ShakeTypesOK
<1> QED BY <1>1 DEF IInv, ShakeTypesOK, RunsAsAnnounced, As, Twins

(* A step that goes wrong leaves nothing to show of the upgrades.          *)
LEMMA TroubleStep ==
  ASSUME IInv, Trouble, UNCHANGED auth, connections' \subseteq connections
  PROVE  /\ trouble' \in Nat /\ UpgradesArePresent' /\ RunsAsAnnounced'
         /\ \A c \in connections' : c.p \in Party
<1>1. trouble' \in Nat /\ trouble' # 0 /\ trouble' >= trouble
  BY DEF IInv, ShakeTypesOK, Trouble
<1> QED BY <1>1, NoNewConnection DEF UpgradesArePresent

(* A step of one party that has no upgrade, and takes none.                *)
LEMMA QuietStep ==
  ASSUME IInv, NEW p \in Party, dial[p].pc # "upgrading",
         dial' \in [Party -> [pc : Steps, k : Nat, again : BOOLEAN]],
         \A q \in Party : q # p => dial'[q] = dial[q],
         \/ dial[p].pc \in BeforeUpgrade /\ dial'[p].k = dial[p].k
         \/ dial'[p].pc = "get" /\ \A c \in connections : <<c.p, c.k>> # <<p, dial'[p].k>>,
         authSessions \subseteq authSessions',
         hints' = hints \/ (/\ hints' = [hints EXCEPT ![PAddr[p]] = p]
                            /\ OnGet[p].mode # "Peer"),
         UNCHANGED <<config, upgrades, connections, trouble>>
  PROVE  IInv'
<1>1. PAddr[p] \in Addrs
  BY DEF Addrs
<1>2. ShakeTypesOK'
  BY <1>1 DEF IInv, ShakeTypesOK
<1>3. HintsAreOwn'
  BY <1>1 DEF IInv, ShakeTypesOK, HintsAreOwn
<1>4. TokensNeedAuth'
  BY DEF IInv, TokensNeedAuth, config
<1>5. RunsAsAnnounced'
  BY DEF IInv, RunsAsAnnounced, As, Twins, config
<1>6. ASSUME trouble' = 0
      PROVE  /\ \A u \in upgrades :
                  /\ dial'[u[1]].pc = "upgrading" /\ dial'[u[1]].k = u[2] /\ u[3] = 1
                  /\ <<u[1], u[2]>> \in authSessions'
                  /\ \A c \in connections : <<c.p, c.k>> # <<u[1], u[2]>>
             /\ \A q \in Party : dial'[q].pc \in BeforeUpgrade =>
                  \A c \in connections : <<c.p, c.k>> # <<q, dial'[q].k>>
  <2>1. /\ \A u \in upgrades :
             /\ dial[u[1]].pc = "upgrading" /\ dial[u[1]].k = u[2] /\ u[3] = 1
             /\ <<u[1], u[2]>> \in authSessions
             /\ \A c \in connections : <<c.p, c.k>> # <<u[1], u[2]>>
        /\ \A q \in Party : dial[q].pc \in BeforeUpgrade =>
             \A c \in connections : <<c.p, c.k>> # <<q, dial[q].k>>
    BY <1>6 DEF IInv, UpgradesArePresent, Dial
  <2>2. \A u \in upgrades : u[1] \in Party /\ u[1] # p
    BY <2>1 DEF IInv, ShakeTypesOK
  <2>3. \A u \in upgrades : dial'[u[1]] = dial[u[1]]
    BY <2>2
  <2> QED BY <2>1, <2>3
<1>7. UpgradesArePresent'
  BY <1>6 DEF UpgradesArePresent, Dial
<1> QED BY <1>2, <1>3, <1>4, <1>5, <1>7 DEF IInv

-----------------------------------------------------------------------------
(* The steps.                                                              *)

(* The discovery GET and the answer to its challenge.                      *)
LEMMA DiscoveryInv ==
  ASSUME IInv, NEW p \in Party,
         Begin(p) \/ BrewDiscovery(p) \/ CheckNonce(p) \/ GrantSession(p)
  PROVE  IInv'
<1>1. CASE Begin(p)
  <2>1. MaxDial \in Nat \ {0, 1}
    BY HandshakeAssumption DEF HandshakeAssumption
  <2>2. NextDial(dial[p].k) \in Nat
    BY <2>1 DEF IInv, ShakeTypesOK, NextDial
  <2>3. /\ dial' = [dial EXCEPT ![p] =
             [pc |-> "get", k |-> NextDial(dial[p].k), again |-> FALSE]]
        /\ dial[p].pc = "idle"
        /\ \A c \in connections : <<c.p, c.k>> # <<p, NextDial(dial[p].k)>>
        /\ UNCHANGED <<config, tables, upgrades, connections, trouble>>
    BY <1>1 DEF Begin, Calm
  <2>4. dial \in [Party -> [pc : Steps, k : Nat, again : BOOLEAN]]
    BY DEF IInv, ShakeTypesOK
  <2>5. /\ dial' \in [Party -> [pc : Steps, k : Nat, again : BOOLEAN]]
        /\ \A q \in Party : q # p => dial'[q] = dial[q]
        /\ dial'[p].pc = "get" /\ dial'[p].k = NextDial(dial[p].k)
    BY <2>2, <2>3, <2>4 DEF Steps
  <2> QED BY <2>3, <2>5, QuietStep DEF tables
<1>2. CASE BrewDiscovery(p)
  <2>1. /\ dial[p].pc = "get"
        /\ \E pc \in {"idle", "challenged", "found"} : Goes(p, pc)
        /\ authSessions' = authSessions
        /\ hints' = hints \/ (/\ hints' = [hints EXCEPT ![PAddr[p]] = p]
                              /\ OnGet[p].mode # "Peer")
        /\ UNCHANGED <<config, upgrades, connections, trouble>>
    BY <1>2 DEF BrewDiscovery, Calm, tables
  <2>2. PICK pc \in Steps : Goes(p, pc)
    BY <2>1 DEF Steps
  <2>3. /\ dial' \in [Party -> [pc : Steps, k : Nat, again : BOOLEAN]]
        /\ dial'[p].k = dial[p].k
        /\ \A q \in Party : q # p => dial'[q] = dial[q]
    BY <2>2, GoesOn DEF IInv
  <2> QED BY <2>1, <2>3, QuietStep DEF BeforeUpgrade
<1>3. CASE CheckNonce(p) \/ GrantSession(p)
  <2>1. /\ dial[p].pc \in {"challenged", "verified"}
        /\ \E pc \in {"idle", "verified", "found"} : Goes(p, pc)
        /\ authSessions \subseteq authSessions' /\ hints' = hints
        /\ UNCHANGED <<config, upgrades, connections, trouble>>
    BY <1>3 DEF CheckNonce, GrantSession, Calm, tables
  <2>2. PICK pc \in Steps : Goes(p, pc)
    BY <2>1 DEF Steps
  <2>3. /\ dial' \in [Party -> [pc : Steps, k : Nat, again : BOOLEAN]]
        /\ dial'[p].k = dial[p].k
        /\ \A q \in Party : q # p => dial'[q] = dial[q]
    BY <2>2, GoesOn DEF IInv
  <2> QED BY <2>1, <2>3, QuietStep DEF BeforeUpgrade
<1> QED BY <1>1, <1>2, <1>3

(* A token that is found is there for the upgrade, which is the only one.  *)
LEMMA CheckTokenInv ==
  ASSUME IInv, NEW p \in Party, CheckToken(p)
  PROVE  IInv'
<1>1. /\ dial[p].pc = "found" /\ auth
      /\ UNCHANGED <<config, tables, connections, trouble>>
  BY DEF CheckToken, TokenChecked, Calm
<1>2. CASE Dial(p) \in authSessions
  <2>1. /\ upgrades' = upgrades \union {<<p, dial[p].k, 1>>}
        /\ dial' = [dial EXCEPT ![p] = [dial[p] EXCEPT !.pc = "upgrading", !.again = (1 = 2)]]
    BY <1>2 DEF CheckToken, TokenChecked
  <2>2. dial \in [Party -> [pc : Steps, k : Nat, again : BOOLEAN]]
    BY DEF IInv, ShakeTypesOK
  <2>3. /\ dial' \in [Party -> [pc : Steps, k : Nat, again : BOOLEAN]]
        /\ dial'[p].pc = "upgrading" /\ dial'[p].k = dial[p].k /\ dial[p].k \in Nat
        /\ \A q \in Party : q # p => dial'[q] = dial[q]
    BY <2>1, <2>2 DEF Steps
  <2>4. ShakeTypesOK'
    BY <1>1, <2>1, <2>3 DEF IInv, ShakeTypesOK, tables
  <2>5. HintsAreOwn' /\ TokensNeedAuth' /\ RunsAsAnnounced'
    BY <1>1 DEF IInv, HintsAreOwn, TokensNeedAuth, RunsAsAnnounced, As, Twins, config, tables
  <2>6. ASSUME trouble' = 0
        PROVE  /\ \A u \in upgrades' :
                    /\ dial'[u[1]].pc = "upgrading" /\ dial'[u[1]].k = u[2] /\ u[3] = 1
                    /\ <<u[1], u[2]>> \in authSessions
                    /\ \A c \in connections : <<c.p, c.k>> # <<u[1], u[2]>>
               /\ \A q \in Party : dial'[q].pc \in BeforeUpgrade =>
                    \A c \in connections : <<c.p, c.k>> # <<q, dial'[q].k>>
    <3>1. /\ \A u \in upgrades :
               /\ dial[u[1]].pc = "upgrading" /\ dial[u[1]].k = u[2] /\ u[3] = 1
               /\ <<u[1], u[2]>> \in authSessions
               /\ \A c \in connections : <<c.p, c.k>> # <<u[1], u[2]>>
          /\ \A q \in Party : dial[q].pc \in BeforeUpgrade =>
               \A c \in connections : <<c.p, c.k>> # <<q, dial[q].k>>
      BY <1>1, <2>6 DEF IInv, UpgradesArePresent, Dial
    <3>2. \A u \in upgrades : u[1] \in Party /\ u[1] # p /\ dial'[u[1]] = dial[u[1]]
      BY <1>1, <2>3, <3>1 DEF IInv, ShakeTypesOK
    <3>3. \A c \in connections : <<c.p, c.k>> # <<p, dial[p].k>>
      BY <1>1, <3>1 DEF BeforeUpgrade
    <3>4. ASSUME NEW u \in upgrades'
          PROVE  /\ dial'[u[1]].pc = "upgrading" /\ dial'[u[1]].k = u[2] /\ u[3] = 1
                 /\ <<u[1], u[2]>> \in authSessions
                 /\ \A c \in connections : <<c.p, c.k>> # <<u[1], u[2]>>
      <4>1. CASE u \in upgrades
        BY <3>1, <3>2, <4>1
      <4>2. CASE u = <<p, dial[p].k, 1>>
        BY <1>2, <2>3, <3>3, <4>2 DEF Dial
      <4> QED BY <2>1, <4>1, <4>2
    <3>5. \A q \in Party : dial'[q].pc \in BeforeUpgrade =>
            \A c \in connections : <<c.p, c.k>> # <<q, dial'[q].k>>
      <4>1. "upgrading" \notin BeforeUpgrade
        BY DEF BeforeUpgrade
      <4> QED BY <2>3, <3>1, <4>1
    <3> QED BY <3>4, <3>5
  <2>7. UpgradesArePresent'
    BY <1>1, <2>6 DEF UpgradesArePresent, Dial, tables
  <2> QED BY <2>4, <2>5, <2>7 DEF IInv
<1>3. CASE Dial(p) \notin authSessions
  <2>1. Goes(p, "idle") /\ UNCHANGED upgrades
    BY <1>3 DEF CheckToken, TokenChecked
  <2>2. /\ dial' \in [Party -> [pc : Steps, k : Nat, again : BOOLEAN]]
        /\ dial'[p].k = dial[p].k
        /\ \A q \in Party : q # p => dial'[q] = dial[q]
    BY <2>1, GoesOn DEF IInv, Steps
  <2> QED BY <1>1, <2>1, <2>2, QuietStep DEF BeforeUpgrade, tables
<1> QED BY <1>2, <1>3

(* The upgrade takes its token.                                            *)
LEMMA TakeTokenInv ==
  ASSUME IInv, NEW p \in Party, NEW k, NEW n, TakeToken(p, k, n)
  PROVE  IInv'
<1> DEFINE known == <<p, k>> \in authSessions
           got == IF known THEN OnGet[p] ELSE NothingKnown
           user == IF known THEN User[p] ELSE Absent
<1>1. /\ <<p, k, n>> \in upgrades /\ upgrades' = upgrades \ {<<p, k, n>>}
      /\ authSessions' = authSessions \ {<<p, k>>}
      /\ UpgradeFromParts(p, k, n, got, user)
      /\ UNCHANGED <<config, digestNonces, hints, dial, link, trouble>>
  BY DEF TakeToken, Calm
<1>2. auth /\ k \in Nat /\ trouble \in Nat
  BY <1>1 DEF IInv, TokensNeedAuth, ShakeTypesOK
<1>3. known \/ trouble > 0
  <2>1. trouble = 0 => \A u \in upgrades : <<u[1], u[2]>> \in authSessions
    BY DEF IInv, UpgradesArePresent
  <2> QED BY <1>1, <1>2, <2>1
<1>4. Entitled(p, got, user)
  BY <1>2, <1>3 DEF Entitled
<1> HIDE DEF known, got, user
<1>5. /\ RunsAsAnnounced'
      /\ \A c \in connections' :
           /\ c.p \in Party
           /\ c \in connections \/ (c.p = p /\ c.k = k)
  BY <1>1, <1>4, NewConnection DEF config
<1>6. ShakeTypesOK'
  BY <1>1, <1>5 DEF IInv, ShakeTypesOK
<1>7. HintsAreOwn' /\ TokensNeedAuth'
  BY <1>1, <1>2 DEF IInv, HintsAreOwn, TokensNeedAuth, config
<1>8. ASSUME trouble' = 0
      PROVE  /\ \A u \in upgrades' :
                  /\ dial[u[1]].pc = "upgrading" /\ dial[u[1]].k = u[2] /\ u[3] = 1
                  /\ <<u[1], u[2]>> \in authSessions'
                  /\ \A c \in connections' : <<c.p, c.k>> # <<u[1], u[2]>>
             /\ \A q \in Party : dial[q].pc \in BeforeUpgrade =>
                  \A c \in connections' : <<c.p, c.k>> # <<q, dial[q].k>>
  <2>1. /\ \A u \in upgrades :
             /\ dial[u[1]].pc = "upgrading" /\ dial[u[1]].k = u[2] /\ u[3] = 1
             /\ <<u[1], u[2]>> \in authSessions
             /\ \A c \in connections : <<c.p, c.k>> # <<u[1], u[2]>>
        /\ \A q \in Party : dial[q].pc \in BeforeUpgrade =>
             \A c \in connections : <<c.p, c.k>> # <<q, dial[q].k>>
    BY <1>1, <1>8 DEF IInv, UpgradesArePresent, Dial
  <2>2. dial[p].pc = "upgrading" /\ dial[p].k = k /\ n = 1
    BY <1>1, <2>1
  <2>3. \A u \in upgrades' : u \in upgrades /\ u[1] # p
    <3> SUFFICES ASSUME NEW u \in upgrades', u[1] = p PROVE FALSE
      BY <1>1
    <3>1. u \in upgrades /\ u # <<p, k, n>>
      BY <1>1
    <3>2. u[2] = k /\ u[3] = 1 /\ u \in Party \X Nat \X {1, 2}
      BY <2>1, <2>2, <3>1 DEF IInv, ShakeTypesOK
    <3> QED BY <2>2, <3>1, <3>2
  <2>4. ASSUME NEW u \in upgrades'
        PROVE  /\ dial[u[1]].pc = "upgrading" /\ dial[u[1]].k = u[2] /\ u[3] = 1
               /\ <<u[1], u[2]>> \in authSessions'
               /\ \A c \in connections' : <<c.p, c.k>> # <<u[1], u[2]>>
    <3>1. u \in upgrades /\ u[1] # p
      BY <2>3
    <3>2. <<u[1], u[2]>> \in authSessions'
      BY <1>1, <2>1, <3>1
    <3>3. \A c \in connections' : <<c.p, c.k>> # <<u[1], u[2]>>
      BY <1>5, <2>1, <3>1
    <3> QED BY <2>1, <3>1, <3>2, <3>3
  <2>5. ASSUME NEW q \in Party, dial[q].pc \in BeforeUpgrade
        PROVE  \A c \in connections' : <<c.p, c.k>> # <<q, dial[q].k>>
    <3>1. q # p
      BY <2>2, <2>5 DEF BeforeUpgrade
    <3> QED BY <1>5, <2>1, <2>5, <3>1
  <2> QED BY <2>4, <2>5
<1>9. UpgradesArePresent'
  BY <1>1, <1>8 DEF UpgradesArePresent, Dial
<1> QED BY <1>5, <1>6, <1>7, <1>9 DEF IInv

(* Without [auth] the upgrade takes the hint of a client like its own.     *)
LEMMA UpgradeByHintInv ==
  ASSUME IInv, NEW p \in Party, UpgradeByHint(p)
  PROVE  IInv'
<1> DEFINE hint == HintFor(p)
           got == IF hint = Absent THEN NothingKnown ELSE OnGet[hint]
<1>1. /\ ~auth /\ dial[p].pc = "found" /\ Goes(p, "upgrading")
      /\ hints' = hints \/ hints' = [hints EXCEPT ![PAddr[p]] = Absent]
      /\ UpgradeFromParts(p, dial[p].k, 1, got, Absent)
      /\ UNCHANGED <<config, digestNonces, authSessions, upgrades, link, trouble>>
  BY DEF UpgradeByHint, Calm
<1>2. PAddr[p] \in Addrs /\ upgrades = {}
  BY <1>1 DEF Addrs, IInv, TokensNeedAuth
<1>3. hint # Absent => hint \in Twins(p) /\ OnGet[hint].mode # "Peer"
  BY <1>2 DEF HintFor, Twins, IInv, ShakeTypesOK, HintsAreOwn
<1>4. Entitled(p, got, Absent)
  BY <1>1, <1>3 DEF Entitled
<1> HIDE DEF got, hint
<1>5. /\ RunsAsAnnounced'
      /\ \A c \in connections' :
           /\ c.p \in Party
           /\ c \in connections \/ (c.p = p /\ c.k = dial[p].k)
  BY <1>1, <1>4, NewConnection DEF config
<1>6. /\ dial' \in [Party -> [pc : Steps, k : Nat, again : BOOLEAN]]
      /\ dial'[p].pc = "upgrading"
      /\ \A q \in Party : q # p => dial'[q] = dial[q]
  BY <1>1, GoesOn DEF IInv, Steps
<1>7. ShakeTypesOK'
  BY <1>1, <1>5, <1>6 DEF IInv, ShakeTypesOK
<1>8. HintsAreOwn'
  BY <1>1 DEF IInv, ShakeTypesOK, HintsAreOwn
<1>9. TokensNeedAuth'
  BY <1>1, <1>2 DEF TokensNeedAuth
<1>10. ASSUME trouble' = 0, NEW q \in Party, dial'[q].pc \in BeforeUpgrade
       PROVE  \A c \in connections' : <<c.p, c.k>> # <<q, dial'[q].k>>
  <2>1. q # p /\ dial'[q] = dial[q]
    BY <1>6, <1>10 DEF BeforeUpgrade
  <2>2. \A c \in connections : <<c.p, c.k>> # <<q, dial[q].k>>
    BY <1>1, <1>10, <2>1 DEF IInv, UpgradesArePresent, Dial
  <2> QED BY <1>5, <2>1, <2>2
<1>11. UpgradesArePresent'
  BY <1>1, <1>2, <1>10 DEF UpgradesArePresent, Dial
<1> QED BY <1>5, <1>7, <1>8, <1>9, <1>11 DEF IInv

(* The 101 arrives, or the upgrade was refused.                            *)
LEMMA AnsweredInv ==
  ASSUME IInv, NEW p \in Party,
         \/ Refused(p)
         \/ \E c \in connections : c.p = p /\ Accepted101(c)
  PROVE  IInv'
<1>1. /\ dial[p].pc = "upgrading" /\ Goes(p, "idle")
      /\ UNCHANGED <<config, tables, upgrades, connections, trouble>>
  BY DEF Refused, Accepted101, Present, Calm
<1>2. /\ dial' \in [Party -> [pc : Steps, k : Nat, again : BOOLEAN]]
      /\ dial'[p].pc = "idle"
      /\ \A q \in Party : q # p => dial'[q] = dial[q]
  BY <1>1, GoesOn DEF IInv, Steps
<1>3. ShakeTypesOK' /\ HintsAreOwn' /\ TokensNeedAuth'
  BY <1>1, <1>2 DEF IInv, ShakeTypesOK, HintsAreOwn, TokensNeedAuth, config, tables
<1>4. RunsAsAnnounced'
  BY <1>1 DEF IInv, RunsAsAnnounced, As, Twins, config
<1>5. ASSUME trouble' = 0
      PROVE  /\ \A u \in upgrades :
                  /\ dial'[u[1]].pc = "upgrading" /\ dial'[u[1]].k = u[2] /\ u[3] = 1
                  /\ <<u[1], u[2]>> \in authSessions
                  /\ \A c \in connections : <<c.p, c.k>> # <<u[1], u[2]>>
             /\ \A q \in Party : dial'[q].pc \in BeforeUpgrade =>
                  \A c \in connections : <<c.p, c.k>> # <<q, dial'[q].k>>
  <2>1. /\ \A u \in upgrades :
             /\ dial[u[1]].pc = "upgrading" /\ dial[u[1]].k = u[2] /\ u[3] = 1
             /\ <<u[1], u[2]>> \in authSessions
             /\ \A c \in connections : <<c.p, c.k>> # <<u[1], u[2]>>
        /\ \A q \in Party : dial[q].pc \in BeforeUpgrade =>
             \A c \in connections : <<c.p, c.k>> # <<q, dial[q].k>>
    BY <1>1, <1>5 DEF IInv, UpgradesArePresent, Dial
  <2>2. \A u \in upgrades : u[1] # p
    <3>1. CASE Refused(p)
      <4>1. \A u \in upgrades : <<u[1], u[2]>> # <<p, dial[p].k>>
        BY <3>1 DEF Refused, Dial
      <4> QED BY <2>1, <4>1
    <3>2. CASE \E c \in connections : c.p = p /\ Accepted101(c)
      <4>1. PICK c \in connections : c.p = p /\ c.k = dial[p].k
        BY <3>2 DEF Accepted101, Present
      <4> QED BY <2>1, <4>1
    <3> QED BY <3>1, <3>2
  <2>3. \A u \in upgrades : u[1] \in Party /\ dial'[u[1]] = dial[u[1]]
    BY <1>2, <2>2 DEF IInv, ShakeTypesOK
  <2>4. "idle" \notin BeforeUpgrade
    BY DEF BeforeUpgrade
  <2>5. \A q \in Party : dial'[q].pc \in BeforeUpgrade =>
          \A c \in connections : <<c.p, c.k>> # <<q, dial'[q].k>>
    BY <1>2, <2>1, <2>4
  <2> QED BY <2>1, <2>3, <2>5
<1>6. UpgradesArePresent'
  BY <1>1, <1>5 DEF UpgradesArePresent, Dial, tables
<1> QED BY <1>3, <1>4, <1>6 DEF IInv

(* What goes wrong: an upgrade sent again, an attempt given up, a link     *)
(* that breaks, an entry purged.                                           *)
LEMMA TroubleInv ==
  ASSUME IInv,
         \/ \E p \in Party : ChecksAgain(p) \/ GivesUp(p) \/ Breaks(p)
         \/ Purges
  PROVE  IInv'
<1>1. /\ Trouble /\ UNCHANGED <<config, connections>>
      /\ upgrades' \subseteq upgrades \/ auth
  BY DEF ChecksAgain, TokenChecked, GivesUp, Breaks, Purges
<1>2. /\ trouble' \in Nat /\ UpgradesArePresent' /\ RunsAsAnnounced'
      /\ \A c \in connections' : c.p \in Party
  BY <1>1, TroubleStep DEF config
<1>3. TokensNeedAuth'
  BY <1>1 DEF IInv, TokensNeedAuth, config
<1>4. /\ dial \in [Party -> [pc : Steps, k : Nat, again : BOOLEAN]]
      /\ hints \in [Addrs -> Party \union {Absent}]
      /\ upgrades \subseteq Party \X Nat \X {1, 2}
  BY DEF IInv, ShakeTypesOK
<1>5. /\ dial' \in [Party -> [pc : Steps, k : Nat, again : BOOLEAN]]
      /\ upgrades' \subseteq Party \X Nat \X {1, 2}
  <2>1. ASSUME NEW p \in Party, ChecksAgain(p)
        PROVE  /\ dial' \in [Party -> [pc : Steps, k : Nat, again : BOOLEAN]]
               /\ upgrades' \subseteq Party \X Nat \X {1, 2}
    <3>1. \/ /\ upgrades' = upgrades \union {<<p, dial[p].k, 2>>}
             /\ dial' = [dial EXCEPT ![p] =
                  [dial[p] EXCEPT !.pc = "upgrading", !.again = (2 = 2)]]
          \/ Goes(p, "idle") /\ UNCHANGED upgrades
      BY <2>1 DEF ChecksAgain, TokenChecked
    <3>2. CASE /\ upgrades' = upgrades \union {<<p, dial[p].k, 2>>}
               /\ dial' = [dial EXCEPT ![p] =
                    [dial[p] EXCEPT !.pc = "upgrading", !.again = (2 = 2)]]
      <4>1. dial[p] \in [pc : Steps, k : Nat, again : BOOLEAN]
        BY <1>4
      <4>2. DEFINE d == [dial[p] EXCEPT !.pc = "upgrading", !.again = (2 = 2)]
      <4>3. d \in [pc : Steps, k : Nat, again : BOOLEAN]
        BY <4>1, Zenon DEF Steps
      <4>4. dial' = [dial EXCEPT ![p] = d]
        BY <3>2
      <4> HIDE DEF d
      <4>5. dial' \in [Party -> [pc : Steps, k : Nat, again : BOOLEAN]]
        BY <1>4, <4>3, <4>4
      <4>6. <<p, dial[p].k, 2>> \in Party \X Nat \X {1, 2}
        BY <4>1
      <4> QED BY <1>4, <3>2, <4>5, <4>6
    <3>3. CASE Goes(p, "idle") /\ UNCHANGED upgrades
      BY <1>4, <3>3, GoesOn DEF IInv, Steps
    <3> QED BY <3>1, <3>2, <3>3
  <2>2. ASSUME NEW p \in Party, GivesUp(p)
        PROVE  /\ dial' \in [Party -> [pc : Steps, k : Nat, again : BOOLEAN]]
               /\ upgrades' \subseteq Party \X Nat \X {1, 2}
    BY <1>4, <2>2, GoesOn DEF GivesUp, IInv, Steps
  <2>3. ASSUME (\E p \in Party : Breaks(p)) \/ Purges
        PROVE  UNCHANGED <<dial, upgrades>>
    BY <2>3 DEF Breaks, Purges
  <2> QED BY <1>4, <2>1, <2>2, <2>3
<1>6. /\ hints' \in [Addrs -> Party \union {Absent}]
      /\ \A a \in Addrs : hints'[a] \in {hints[a], Absent}
  <2>1. hints' = hints \/ \E a \in Addrs : hints' = [hints EXCEPT ![a] = Absent]
    BY DEF ChecksAgain, TokenChecked, GivesUp, Breaks, Purges, tables
  <2> QED BY <1>4, <2>1
<1>7. ShakeTypesOK'
  BY <1>2, <1>5, <1>6 DEF ShakeTypesOK
<1>8. HintsAreOwn'
  BY <1>6 DEF IInv, HintsAreOwn
<1> QED BY <1>2, <1>3, <1>7, <1>8 DEF IInv

(* The keepalive closes what nobody holds.                                 *)
LEMMA KeepaliveInv ==
  ASSUME IInv, NEW c \in connections, KeepaliveCloses(c)
  PROVE  IInv'
<1>1. /\ connections' \subseteq connections
      /\ UNCHANGED <<config, tables, dial, upgrades, link, trouble>>
  BY DEF KeepaliveCloses, Calm
<1>2. trouble' \in Nat /\ trouble' >= trouble
  BY <1>1 DEF IInv, ShakeTypesOK
<1>3. RunsAsAnnounced' /\ \A d \in connections' : d.p \in Party
  BY <1>1, <1>2, NoNewConnection DEF config
<1>4. ShakeTypesOK' /\ HintsAreOwn' /\ TokensNeedAuth'
  BY <1>1, <1>3 DEF IInv, ShakeTypesOK, HintsAreOwn, TokensNeedAuth, config, tables
<1>5. UpgradesArePresent'
  BY <1>1 DEF IInv, UpgradesArePresent, Dial, tables
<1> QED BY <1>3, <1>4, <1>5 DEF IInv

-----------------------------------------------------------------------------
(* The invariant, and what follows from it.                                *)

(* It holds before anybody has dialled.                                    *)
LEMMA InitInv == HandshakeInit => IInv
<1> SUFFICES ASSUME HandshakeInit PROVE IInv
  OBVIOUS
<1>1. /\ dial \in [Party -> [pc : {"idle", "away"}, k : {0}, again : {FALSE}]]
      /\ upgrades = {} /\ connections = {} /\ trouble = 0
      /\ hints = [a \in Addrs |-> Absent]
  BY DEF HandshakeInit
<1>2. ShakeTypesOK
  <2>1. ASSUME NEW d \in [pc : {"idle", "away"}, k : {0}, again : {FALSE}]
        PROVE  d \in [pc : Steps, k : Nat, again : BOOLEAN]
    <3>1. d = [pc |-> d.pc, k |-> d.k, again |-> d.again]
      OBVIOUS
    <3>2. d.pc \in {"idle", "away"} /\ d.k \in {0} /\ d.again \in {FALSE}
      OBVIOUS
    <3>3. d.pc \in Steps /\ d.k \in Nat
      BY <3>2 DEF Steps
    <3>4. d.again \in BOOLEAN
      BY ONLY <3>2, Zenon
    <3> QED BY <3>1, <3>3, <3>4
  <2>2. dial \in [Party -> [pc : Steps, k : Nat, again : BOOLEAN]]
    BY <1>1, <2>1
  <2>3. hints \in [Addrs -> Party \union {Absent}]
    BY <1>1
  <2> QED BY <1>1, <2>2, <2>3 DEF ShakeTypesOK
<1> QED BY <1>1, <1>2 DEF IInv, HintsAreOwn, TokensNeedAuth, UpgradesArePresent,
                          RunsAsAnnounced

(* Every step keeps it.                                                    *)
LEMMA NextInv == IInv /\ [HandshakeNext]_shakeVars => IInv'
<1> SUFFICES ASSUME IInv, [HandshakeNext]_shakeVars PROVE IInv'
  OBVIOUS
<1>1. CASE UNCHANGED shakeVars
  BY <1>1 DEF shakeVars, config, tables, IInv, ShakeTypesOK, HintsAreOwn, TokensNeedAuth,
              UpgradesArePresent, Dial, RunsAsAnnounced, As, Twins
<1>2. ASSUME NEW p \in Party, Proceeds(p)
      PROVE  IInv'
  BY <1>2, DiscoveryInv, CheckTokenInv, TakeTokenInv, UpgradeByHintInv, AnsweredInv
     DEF Proceeds
<1>3. ASSUME \/ \E p \in Party : ChecksAgain(p) \/ GivesUp(p) \/ Breaks(p)
             \/ Purges
      PROVE  IInv'
  BY <1>3, TroubleInv
<1>4. ASSUME NEW c \in connections, KeepaliveCloses(c)
      PROVE  IInv'
  BY <1>4, KeepaliveInv
<1> QED BY <1>1, <1>2, <1>3, <1>4 DEF HandshakeNext

(* The invariant always holds.                                             *)
THEOREM Invariance == HandshakeSpec => []IInv
<1>1. HandshakeInit => IInv
  BY InitInv
<1>2. IInv /\ [HandshakeNext]_shakeVars => IInv'
  BY NextInv
<1> QED BY <1>1, <1>2, PTL DEF HandshakeSpec

(* brew_session_endpoint and brew_discovery give a connection the mode,    *)
(* version and user its own client announced, or what the upgrade alone    *)
(* says once something went wrong, or the hint of one just like it.        *)
THEOREM RunsAsAnnouncedCorrect == HandshakeSpec => []RunsAsAnnounced
<1>1. IInv => RunsAsAnnounced
  BY DEF IInv
<1> QED BY <1>1, Invariance, PTL

=============================================================================
