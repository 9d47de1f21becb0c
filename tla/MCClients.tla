------------------------------ MODULE MCClients ------------------------------
(***************************************************************************)
(* What one server does for its clients, for TLC: connecting them, reading *)
(* and writing their messages, mirroring its Basestations, holding text    *)
(* messages, registering SIP phones and itself, writing its configuration. *)
(* These parts share no state, so a behaviour is one of a single part, and *)
(* the others stay as they are at the start.                               *)
(***************************************************************************)
EXTENDS SmsCenter, MCWire, SipRegistrar, Handshake, Stations,
        ConfigFile

(* A Basestation and a terminal with headers of their own and one with the *)
(* Basestation's name but none, all behind one address; a server with      *)
(* loop-safe federation, this one under another name, and an old one.      *)
MCAddr == [p \in Party |-> IF p \in {"bs", "ms", "twin"} THEN "nat" ELSE p]
MCAgent == [p \in Party |-> CASE p \in {"bs", "twin"} -> "flow"
                              [] p = "ms" -> "term"
                              [] OTHER -> "brew-server"]
MCOnGet == [p \in Party |->
  CASE p = "bs" -> [mode |-> "Basestation", version |-> 1]
    [] p = "ms" -> [mode |-> "Terminal", version |-> 0]
    [] p \in {"twin", "old"} -> [mode |-> Absent, version |-> Absent]
    [] OTHER -> [mode |-> "Peer", version |-> 1]]
MCOnUpgrade == [p \in Party |->
  IF p \in {"bs", "ms", "twin"} THEN [mode |-> Absent, version |-> Absent]
  ELSE [mode |-> "Peer", version |-> 1]]
MCUser == [p \in Party |-> p]
MCOffers == [p \in Party |-> CASE p = "fed" -> "id2" [] p = "self" -> "id1"
                               [] OTHER -> Absent]

VARIABLE part  \* the one that is followed

mcVars == <<vars, wireVars, registrarVars, shakeVars, stationsVars, configVars,
            part>>

(* Those that connect at a time.                                           *)
Pairs == {{"bs", "twin"}, {"bs", "ms"}, {"twin", "old"}, {"bs", "fed"},
          {"fed", "self"}}

(* In a part that is not followed there is one initial state, with no      *)
(* phone, trunk or party that wants to connect.                            *)
PartInit ==
  /\ part \in {"sms", "wire", "registrar", "handshake", "stations",
              "config"}
  /\ part # "sms" => known
  /\ part # "wire" =>
       announced = [c \in Conn |-> CHOOSE v \in Announcement(c) : TRUE]
  /\ part # "registrar" =>
       /\ provider = "none"
       /\ \A p \in Phone : phone[p].addr = CHOOSE a \in Addr : TRUE
  /\ {p \in Party : dial[p].pc = "idle"} \in
       IF part = "handshake" THEN Pairs ELSE {{}}
  /\ part # "handshake" => auth /\ loopSafe
  /\ part # "stations" =>
       kick_old_issi /\ at = [r \in Issi |-> CHOOSE s \in Station : TRUE]
  /\ part # "config" => ha

MCInit ==
  /\ Init /\ WireInit /\ RegistrarInit /\ HandshakeInit /\ StationsInit
  /\ ConfigInit /\ PartInit

MCNext ==
  /\ UNCHANGED part
  /\ \/ /\ part = "sms" /\ Next
        /\ UNCHANGED <<wireVars, registrarVars, shakeVars, stationsVars,
                       configVars>>
     \/ /\ part = "wire" /\ WireNext
        /\ UNCHANGED <<vars, registrarVars, shakeVars, stationsVars,
                       configVars>>
     \/ /\ part = "registrar" /\ RegistrarNext
        /\ UNCHANGED <<vars, wireVars, shakeVars, stationsVars, configVars>>
     \/ /\ part = "handshake" /\ HandshakeNext
        /\ UNCHANGED <<vars, wireVars, registrarVars, stationsVars, configVars>>
     \/ /\ part = "stations" /\ StationsNext
        /\ UNCHANGED <<vars, wireVars, registrarVars, shakeVars, configVars>>
     \/ /\ part = "config" /\ ConfigNext
        /\ UNCHANGED <<vars, wireVars, registrarVars, shakeVars, stationsVars>>

(* The fairness of each part, while it is the one followed.                *)
SmsFairness ==
  /\ WF_vars(part = "sms" /\ Sweep) /\ WF_vars(part = "sms" /\ SpawnDue)
  /\ \A t \in Task : WF_vars(part = "sms" /\ (Look(t) \/ Take(t) \/ Send(t)))
  /\ \A m \in Message :
       WF_vars(part = "sms" /\ Late(m)) /\ WF_vars(part = "sms" /\ Rest(m))
  /\ \A u \in Uuid : WF_vars(part = "sms" /\ Forget(u))

PhonesFairness ==
  /\ \A p \in Phone :
       /\ WF_registrarVars(part = "registrar" /\ Asks(p))
       /\ WF_registrarVars(/\ part = "registrar"
                           /\ \E d \in Awaited(p) :
                                PhoneHears(d) \/ HandleRegister(d))
  /\ WF_registrarVars(part = "registrar" /\ PurgeExpired)
  /\ WF_registrarVars(part = "registrar" /\ BeginRegister)
  /\ WF_registrarVars(/\ part = "registrar"
                      /\ \E code \in Codes :
                           FirstRegister(code) \/ SecondRegister(code))
  /\ WF_registrarVars(part = "registrar" /\ TimePasses)

PartiesFairness ==
  /\ \A p \in Party : WF_shakeVars(part = "handshake" /\ Proceeds(p))
  /\ WF_shakeVars(/\ part = "handshake"
                  /\ \E c \in connections : KeepaliveCloses(c))

BasestationsFairness ==
  /\ \A r \in Issi : WF_stationsVars(part = "stations" /\ RegistersAgain(r))
  /\ \A s \in Station :
       /\ WF_stationsVars(part = "stations" /\ Snapshots(s))
       /\ WF_stationsVars(part = "stations" /\ Connects(s))
       /\ WF_stationsVars(part = "stations" /\ ControlConnects(s))
       /\ WF_stationsVars(part = "stations" /\ ControlEnded(s))
       /\ \A i \in {1, 2} :
            /\ WF_stationsVars(part = "stations" /\ Disconnected(s, i))
            /\ WF_stationsVars(part = "stations" /\ HandleEvent(s, i))
       /\ \A r \in Issi :
            /\ WF_stationsVars(part = "stations" /\ Kicks(s, r))
            /\ WF_stationsVars(part = "stations" /\ KickTask(r, s))

FileFairness ==
  /\ \A p \in Person : WF_configVars(part = "config" /\ Proceed(p))
  /\ WF_configVars(part = "config" /\ Watch)
  /\ WF_configVars(part = "config" /\ due /\ ApplySaved)

MCSpec ==
  /\ MCInit /\ [][MCNext]_mcVars
  /\ SmsFairness /\ PhonesFairness /\ PartiesFairness /\ BasestationsFairness
  /\ FileFairness

-----------------------------------------------------------------------------
(* The types of the parts that have a type invariant.                      *)
ClientsTypeOK == SmsTypeOK /\ SipRegistrarTypeOK /\ ConfigTypeOK

(* ListedWhereItIs, where Stations is the part that is followed.           *)
RadiosAreListed == <>[](part = "stations" => Listed)
=============================================================================
