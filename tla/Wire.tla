-------------------------------- MODULE Wire --------------------------------
(***************************************************************************)
(* The messages on a Brew connection (src/src/protocol.rs), those between  *)
(* federated servers (the wire format of fedroute.rs), and what becomes of *)
(* a message on its way over one or two servers (handle_packet).           *)
(*                                                                         *)
(* A message is built by whoever says it, checked and read by every server *)
(* it passes, cut to what the next connection can read, and read there.    *)
(* Messages are byte sequences with the layouts of the code; only the      *)
(* speech frame is shorter (SubframeBits is 137 in the code).  Which       *)
(* connections a message goes to is not decided here: any may get it.      *)
(***************************************************************************)
EXTENDS Naturals, Sequences, SequencesExt

CONSTANTS
  Site,          \* the two servers
  Conn,          \* Brew clients
  SiteOf,        \* the server each is connected to
  SpeaksV1,      \* those whose software writes the talker's name
  Console,       \* dispatch consoles
  Said,          \* what clients may say: messages as records
  Originated,    \* what servers may say to a client
  Advertised,    \* what servers may say to each other
  SiteId,        \* self_id of the servers
  MaxPath,       \* MAX_PATH
  MaxText,       \* MAX_BTS_TEXT
  SubframeBits,  \* ACELP_CODED_FRAME_BITS
  NoName,        \* no talker's name, no announced version
  MaxSpoken      \* bound: messages said

ASSUME WireAssumption ==
  /\ Conn \intersect Site = {} /\ SiteOf \in [Conn -> Site]
  /\ SpeaksV1 \subseteq Conn /\ Console \subseteq Conn
  /\ MaxPath \in Nat \ {0} /\ MaxText \in Nat /\ SubframeBits \in Nat \ {0}
  /\ MaxSpoken \in Nat /\ NoName \notin Nat

VARIABLES
  announced,     \* X-Brew-Version of each client, or NoName
  version,       \* Client::version
  packets,       \* messages on their way, with what they mean
  spoken         \* how many of MaxSpoken

wireVars == <<announced, version, packets, spoken>>

-----------------------------------------------------------------------------
(* Numbers and texts.                                                      *)

(* to_le_bytes of n in w bytes, and back.                                  *)
Bytes(n, w) ==
  LET rest[i \in 1..w] == IF i = 1 THEN n ELSE rest[i - 1] \div 256
  IN  [i \in 1..w |-> rest[i] % 256]

Number(bytes) == FoldRight(LAMBDA b, acc : b + 256 * acc, bytes, 0)

(* w bytes of d at offset o, counted from 0 as in the code.                *)
At(d, o, w) == SubSeq(d, o + 1, o + w)
From(d, o) == SubSeq(d, o + 1, Len(d))
Byte(d, o) == d[o + 1]
NumberAt(d, o, w) == Number(At(d, o, w))

Zeros(n) == [i \in 1..n |-> 0]
Padded(text, w) == text \o Zeros(w - Len(text))

Numbers(s, w) == FlattenSeq([i \in DOMAIN s |-> Bytes(s[i], w)])
NumbersAt(d, o, w, n) == [i \in 1..n |-> NumberAt(d, o + w * (i - 1), w)]

(* ascii_field, the text of parse_service: up to the first NUL.            *)
UpToNul(d) ==
  LET end == SelectInSeq(d, LAMBDA b : b = 0)
  IN  IF end = 0 THEN d ELSE SubSeq(d, 1, end - 1)

Trimmed(text) ==
  SubSeq(text, 1, SelectLastInSeq(text, LAMBDA b : b \notin {0, 32}))

-----------------------------------------------------------------------------
(* The talker's name (mnemonic[34]).                                       *)

MnemonicLen == 34

(* decode_7bit_packed: septets, least significant bit first.               *)
Septets(d, bits) ==
  LET low(i)  == ((7 * i) \div 8) + 1
      off(i)  == (7 * i) % 8
      high(i) == IF off(i) > 1 /\ low(i) < Len(d)
                   THEN d[low(i) + 1] * 2^(8 - off(i)) ELSE 0
      readable == {i \in 0 .. (bits \div 7) - 1 : low(i) <= Len(d)}
  IN  [n \in {i + 1 : i \in readable} |->
         (d[low(n - 1)] \div 2^off(n - 1) + high(n - 1)) % 128]

(* decode_mnemonic.  Other coding schemes than these two are read as bytes.*)
Mnemonic(d) ==
  LET scheme == Byte(d, 0) % 128
      bits == Byte(d, 1)
      text == IF scheme = 1 THEN Septets(From(d, 2), bits)
              ELSE LET n == IF scheme = 0 THEN bits \div 8 ELSE (bits + 7) \div 8
                   IN  SubSeq(From(d, 2), 1, IF n < Len(d) - 2 THEN n ELSE Len(d) - 2)
  IN  IF Len(d) < 2 \/ bits = 0 \/ Trimmed(text) = <<>> THEN NoName
                                                        ELSE Trimmed(text)

(* A client writes its user's name in either alphabet.                     *)
Bit(bytes, i) == (bytes[(i \div 7) + 1] \div 2^(i % 7)) % 2

Packed7(name) ==
  LET bits == 7 * Len(name)
      octet(k) == [i \in 0..7 |->
        IF 8 * k + i < bits THEN Bit(name, 8 * k + i) * 2^i ELSE 0]
  IN  [k \in 1 .. (bits + 7) \div 8 |-> FoldFunction(+, 0, octet(k - 1))]

NameField(name, scheme) ==
  IF name = NoName THEN <<>>
  ELSE LET text == IF scheme = 1 THEN Packed7(name) ELSE name
           bits == Len(name) * (IF scheme = 1 THEN 7 ELSE 8)
       IN  Padded(<<scheme, bits>> \o text, MnemonicLen)

-----------------------------------------------------------------------------
(* Voice: two speech frames of SubframeBits in one message.                *)

CodecBytes == (SubframeBits + 7) \div 8

UnpackBits(d, n) ==
  [i \in 1..n |-> (d[((i - 1) \div 8) + 1] \div 2^(7 - ((i - 1) % 8))) % 2]

PackBits(bits) ==
  LET octet(k) == [i \in 1..8 |->
        IF 8 * k + i <= Len(bits) THEN bits[8 * k + i] * 2^(8 - i) ELSE 0]
  IN  [k \in 1 .. (Len(bits) + 7) \div 8 |-> FoldFunction(+, 0, octet(k - 1))]

(* pack_ste_voice_payload: the two bit strings back to back.               *)
PackVoice(sub1, sub2) ==
  <<0>> \o PackBits(UnpackBits(sub1, SubframeBits) \o UnpackBits(sub2, SubframeBits))

UnpackVoice(payload) ==
  LET bits == UnpackBits(Tail(payload), 2 * SubframeBits)
  IN  <<PackBits(SubSeq(bits, 1, SubframeBits)),
        PackBits(SubSeq(bits, SubframeBits + 1, 2 * SubframeBits))>>

-----------------------------------------------------------------------------
(* The builders.                                                           *)

Subscriber == 240
CallControl == 241
Frame == 242
Service == 244
Federation == 254

GROUP_TX == 2
GROUP_IDLE == 3
SETUP_REQUEST == 4
SETUP_ACCEPT == 5
SETUP_REJECT == 6
ALERT == 7
CONNECT_REQUEST == 8
CONNECT_CONFIRM == 9
RELEASE == 10
SHORT_TRANSFER == 11

TRAFFIC == 0
EmergencyPriority == 15

GroupTxLen == 4 + 4 + 1 + 1 + 2
CircularLen == 4 + 4 + 32 + 11

BuildSubscriber(m) ==
  <<Subscriber, m.type>> \o Bytes(m.issi, 4) \o Zeros(12) \o Numbers(m.groups, 4)

CallHead(state, id) == <<CallControl, state>> \o Bytes(id, 16)
Peers(m) == Bytes(m.source, 4) \o Bytes(m.dest, 4)

BuildGroupTx(m) ==
  CallHead(GROUP_TX, m.id) \o Peers(m) \o <<m.priority, m.access>> \o Bytes(m.service, 2)

(* service, mode, duplex, method, communication, grant, permission,        *)
(* timeout, ownership, queued                                              *)
BuildCircular(m) ==
  CallHead(m.state, m.id) \o Peers(m) \o Padded(m.number, 32)
    \o <<m.priority, m.service>> \o <<0, 1, 1, 0, 0, 0, 0, 0, 0>>

BuildCause(m) == CallHead(m.state, m.id) \o <<m.cause>>
BuildEmpty(m) == CallHead(m.state, m.id)
BuildRaw(m) == CallHead(m.state, m.id) \o m.data
BuildShortTransfer(m) == CallHead(SHORT_TRANSFER, m.id) \o Peers(m) \o Zeros(32)

BuildFrame(m) == <<Frame, m.type>> \o Bytes(m.id, 16) \o Bytes(m.bits, 2) \o m.data

BuildVoice(m) ==
  LET payload == PackVoice(m.sub1, m.sub2)
  IN  BuildFrame([type |-> TRAFFIC, id |-> m.id, bits |-> 8 * Len(payload),
                  data |-> payload])

BuildService(m) == <<Service, m.type>> \o m.json \o <<0>>

Built(m) ==
  CASE m.kind = "subscriber" -> BuildSubscriber(m)
    [] m.kind = "group_tx" -> BuildGroupTx(m)
    [] m.kind = "circular" -> BuildCircular(m)
    [] m.kind = "cause" -> BuildCause(m)
    [] m.kind = "empty" -> BuildEmpty(m)
    [] m.kind = "raw" -> BuildRaw(m)
    [] m.kind = "short_transfer" -> BuildShortTransfer(m)
    [] m.kind = "frame" -> BuildFrame(m)
    [] m.kind = "voice" -> BuildVoice(m)
    [] m.kind = "service" -> BuildService(m)

-----------------------------------------------------------------------------
(* The parsers.                                                            *)

Malformed == [kind |-> "malformed"]

ParseSubscriber(d) ==
  IF Len(d) < 18 THEN Malformed
  ELSE [kind |-> "subscriber", type |-> Byte(d, 1), issi |-> NumberAt(d, 2, 4),
        groups |-> NumbersAt(d, 18, 4, (Len(d) - 18) \div 4)]

(* The talker's name behind the first n bytes of the payload.              *)
NameAt(payload, n) ==
  IF Len(payload) <= n THEN NoName
  ELSE Mnemonic(SubSeq(payload, n + 1,
         IF Len(payload) < n + MnemonicLen THEN Len(payload) ELSE n + MnemonicLen))

ParseGroupTx(id, p) ==
  IF Len(p) < GroupTxLen THEN Malformed
  ELSE [kind |-> "group_tx", id |-> id, source |-> NumberAt(p, 0, 4),
        dest |-> NumberAt(p, 4, 4), priority |-> Byte(p, 8),
        access |-> Byte(p, 9), service |-> NumberAt(p, 10, 2),
        mnemonic |-> NameAt(p, GroupTxLen)]

(* A name that is not there in full is none; a CONNECT_REQUEST has none.   *)
ParseCircular(state, id, p) ==
  IF Len(p) < CircularLen THEN Malformed
  ELSE [kind |-> "circular", state |-> state, id |-> id,
        source |-> NumberAt(p, 0, 4), dest |-> NumberAt(p, 4, 4),
        number |-> UpToNul(At(p, 8, 32)), priority |-> Byte(p, 40),
        service |-> Byte(p, 41),
        mnemonic |-> IF state = SETUP_REQUEST /\ Len(p) >= CircularLen + MnemonicLen
                       THEN NameAt(p, CircularLen) ELSE NoName]

ParseCallControl(d) ==
  LET state == Byte(d, 1)
      id == NumberAt(d, 2, 16)
      p == From(d, 18)
  IN  IF Len(d) < 18 THEN Malformed
      ELSE CASE state = GROUP_TX -> ParseGroupTx(id, p)
             [] state \in {SETUP_REQUEST, CONNECT_REQUEST} ->
                  ParseCircular(state, id, p)
             [] state \in {GROUP_IDLE, SETUP_REJECT, RELEASE} ->
                  IF p = <<>> THEN Malformed
                  ELSE [kind |-> "cause", state |-> state, id |-> id,
                        cause |-> p[1]]
             [] state \in {SETUP_ACCEPT, ALERT} ->
                  [kind |-> "empty", state |-> state, id |-> id]
             [] state = SHORT_TRANSFER ->
                  IF Len(p) < 8 THEN Malformed
                  ELSE [kind |-> "short_transfer", id |-> id,
                        source |-> NumberAt(p, 0, 4), dest |-> NumberAt(p, 4, 4)]
             [] OTHER -> [kind |-> "raw", state |-> state, id |-> id, data |-> p]

ParseFrame(d) ==
  IF Len(d) < 20 THEN Malformed
  ELSE [kind |-> "frame", type |-> Byte(d, 1), id |-> NumberAt(d, 2, 16),
        bits |-> NumberAt(d, 18, 2), data |-> From(d, 20)]

ParseService(d) == [kind |-> "service", type |-> Byte(d, 1), json |-> UpToNul(From(d, 2))]

Parse(d) ==
  IF Len(d) < 2 THEN Malformed
  ELSE CASE d[1] = Subscriber -> ParseSubscriber(d)
         [] d[1] = CallControl -> ParseCallControl(d)
         [] d[1] = Frame -> ParseFrame(d)
         [] d[1] = Service -> ParseService(d)
         [] OTHER -> Malformed

(* The version a message gives away: more than a v0 payload is v1.         *)
Detected(d) ==
  IF Len(d) < 18 \/ d[1] # CallControl THEN 0
  ELSE IF \/ d[2] = GROUP_TX /\ Len(d) > 18 + GroupTxLen
          \/ d[2] = SETUP_REQUEST /\ Len(d) >= 18 + CircularLen + MnemonicLen
         THEN 1 ELSE 0

-----------------------------------------------------------------------------
(* Messages between federated servers, built by the one whose id is first  *)
(* in the path; texts are clipped to MAX_BTS_TEXT, never inside a character*)
(* (UTF-8 goes on with bytes from 128 to 191).                             *)

Clip(text) ==
  IF Len(text) <= MaxText THEN text
  ELSE SubSeq(text, 1, CHOOSE n \in 0..MaxText :
         /\ text[n + 1] \notin 128..191
         /\ \A k \in n + 1 .. MaxText : text[k + 1] \in 128..191)

Text(text) == <<Len(Clip(text))>> \o Clip(text)
Path(path) == <<Len(path)>> \o Numbers(path, 8)

BuildWithdraw(a) == <<Federation, 0>> \o Bytes(a.issi, 4)
BuildRoute(a) ==
  <<Federation, 1>> \o Bytes(a.issi, 4) \o Bytes(a.reg, 8) \o Path(a.path)
    \o Numbers(a.groups, 4)
BuildPrune(a) == <<Federation, 2>> \o Bytes(a.id, 16) \o Bytes(a.source, 4)
BuildHello(a) == <<Federation, 3, a.version>>
BuildBts(a) ==
  <<Federation, 4>> \o Bytes(a.seq, 8) \o <<a.online>> \o Bytes(a.lat, 8)
    \o Bytes(a.lon, 8) \o Path(a.path) \o Text(a.key) \o Text(a.name)
BuildMsPos(a) ==
  <<Federation, 5>> \o Bytes(a.at, 8) \o Bytes(a.issi, 4) \o Bytes(a.lat, 8)
    \o Bytes(a.lon, 8) \o Path(a.path) \o Text(a.station)
(* No destination is written as 0.                                         *)
BuildEmergency(a) ==
  <<Federation, 6>> \o Bytes(a.seq, 8) \o <<a.active>> \o Bytes(a.issi, 4)
    \o Bytes(IF a.dest = NoName THEN 0 ELSE a.dest, 4) \o Path(a.path)
    \o Text(a.bts)

BuiltAdvert(a) ==
  CASE a.kind = "withdraw" -> BuildWithdraw(a)
    [] a.kind = "route" -> BuildRoute(a)
    [] a.kind = "prune" -> BuildPrune(a)
    [] a.kind = "hello" -> BuildHello(a)
    [] a.kind = "bts" -> BuildBts(a)
    [] a.kind = "ms_pos" -> BuildMsPos(a)
    [] a.kind = "emergency" -> BuildEmergency(a)

(* What all adverts with a path have in common: the path, its length at    *)
(* offset o, begins at the neighbour and crosses no server twice.          *)
PathAt(d, o) == NumbersAt(d, o + 1, 8, Byte(d, o))
After(d, o) == o + 1 + 8 * Byte(d, o)

GoodPath(d, o, nbr) ==
  /\ Len(d) > o
  /\ Byte(d, o) \in 1..MaxPath
  /\ Len(d) >= After(d, o)
  /\ PathAt(d, o)[1] = nbr
  /\ \A i, j \in 1..Byte(d, o) : PathAt(d, o)[i] = PathAt(d, o)[j] => i = j

(* A text at offset o, short enough and all there.                         *)
GoodText(d, o) ==
  Len(d) > o /\ Byte(d, o) <= MaxText /\ Len(d) >= o + 1 + Byte(d, o)
TextAt(d, o) == At(d, o + 1, Byte(d, o))
Behind(d, o) == o + 1 + Byte(d, o)

ParseRoute(d, nbr) ==
  IF ~GoodPath(d, 14, nbr) \/ (Len(d) - After(d, 14)) % 4 # 0 THEN Malformed
  ELSE [kind |-> "route", issi |-> NumberAt(d, 2, 4), reg |-> NumberAt(d, 6, 8),
        path |-> PathAt(d, 14),
        groups |-> NumbersAt(d, After(d, 14), 4, (Len(d) - After(d, 14)) \div 4)]

ParseBts(d, nbr) ==
  LET key == After(d, 27)
      name == Behind(d, key)
  IN  IF \/ ~GoodPath(d, 27, nbr) \/ ~GoodText(d, key) \/ ~GoodText(d, name)
         \/ Len(d) # Behind(d, name) THEN Malformed
      ELSE [kind |-> "bts", seq |-> NumberAt(d, 2, 8), online |-> Byte(d, 10),
            lat |-> NumberAt(d, 11, 8), lon |-> NumberAt(d, 19, 8),
            path |-> PathAt(d, 27), key |-> TextAt(d, key), name |-> TextAt(d, name)]

ParseMsPos(d, nbr) ==
  LET station == After(d, 30)
  IN  IF \/ ~GoodPath(d, 30, nbr) \/ ~GoodText(d, station)
         \/ Len(d) # Behind(d, station) THEN Malformed
      ELSE [kind |-> "ms_pos", at |-> NumberAt(d, 2, 8), issi |-> NumberAt(d, 10, 4),
            lat |-> NumberAt(d, 14, 8), lon |-> NumberAt(d, 22, 8),
            path |-> PathAt(d, 30), station |-> TextAt(d, station)]

ParseEmergency(d, nbr) ==
  LET bts == After(d, 19)
      dest == NumberAt(d, 15, 4)
  IN  IF \/ ~GoodPath(d, 19, nbr) \/ ~GoodText(d, bts)
         \/ Len(d) # Behind(d, bts) THEN Malformed
      ELSE [kind |-> "emergency", seq |-> NumberAt(d, 2, 8), active |-> Byte(d, 10),
            issi |-> NumberAt(d, 11, 4), dest |-> IF dest = 0 THEN NoName ELSE dest,
            path |-> PathAt(d, 19), bts |-> TextAt(d, bts)]

ParseFederation(d, nbr) ==
  LET type == Byte(d, 1)
  IN  CASE type = 0 -> IF Len(d) # 6 THEN Malformed
                       ELSE [kind |-> "withdraw", issi |-> NumberAt(d, 2, 4)]
        [] type = 1 -> ParseRoute(d, nbr)
        [] type = 2 -> IF Len(d) # 22 THEN Malformed
                       ELSE [kind |-> "prune", id |-> NumberAt(d, 2, 16),
                             source |-> NumberAt(d, 18, 4)]
        [] type = 3 -> [kind |-> "hello",
                        version |-> IF Len(d) > 2 THEN Byte(d, 2) ELSE 1]
        [] type = 4 -> ParseBts(d, nbr)
        [] type = 5 -> ParseMsPos(d, nbr)
        [] type = 6 -> ParseEmergency(d, nbr)
        [] OTHER -> Malformed

-----------------------------------------------------------------------------
(* Connections and their versions.                                         *)

(* A client without X-Brew-Version is taken for v0 until it sends a v1     *)
(* layout; such a client, and one that speaks v1, can read both layouts.   *)
Announcement(c) == IF c \in SpeaksV1 THEN {0, 1, NoName} ELSE {0, NoName}
ReadsV1(c) == c \in SpeaksV1 \/ announced[c] # 0

WireInit ==
  /\ announced \in [Conn -> {0, 1, NoName}]
  /\ \A c \in Conn : announced[c] \in Announcement(c)
  /\ version = [c \in Conn |-> IF announced[c] = NoName THEN 0 ELSE announced[c]]
  /\ packets = {}
  /\ spoken = 0

OtherSite(s) == CHOOSE t \in Site : t # s

(* A mutant: whoever announced nothing is served as v0.                    *)
ForwardKnown(c) == IF c \in Conn THEN version[c] ELSE 1

(* forward_version; a peer link announces v1, or nothing.                  *)
ForwardVersion(c) ==
  IF c \in Conn /\ announced[c] # NoName THEN version[c] ELSE 1

(* adapt_to_version: only ever cuts.                                       *)
Adapt(d, v) ==
  LET v0Len == 18 + (CASE d[2] = GROUP_TX -> GroupTxLen
                       [] d[2] = SETUP_REQUEST -> CircularLen
                       [] OTHER -> Len(d))
  IN  IF v = 0 /\ d[1] = CallControl /\ Len(d) > v0Len THEN SubSeq(d, 1, v0Len)
                                                      ELSE d

(* with_emergency_priority: the priority is the byte at offset 26.         *)
Raise(d) == [d EXCEPT ![27] = EmergencyPriority]

Packet(from, to, bytes, means) ==
  [from |-> from, to |-> to, bytes |-> bytes, means |-> means]

(* One message at a time: they share nothing but the versions.             *)
Speak ==
  /\ packets = {}
  /\ spoken < MaxSpoken
  /\ spoken' = spoken + 1

-----------------------------------------------------------------------------
(* Actions.                                                                *)

(* A client says something, with its user's name if it writes one.         *)
Say(c, m) ==
  /\ Speak
  /\ ("mnemonic" \in DOMAIN m /\ m.mnemonic # NoName) => c \in SpeaksV1
  /\ \E scheme \in {0, 1} :
       LET tail == IF "mnemonic" \in DOMAIN m THEN NameField(m.mnemonic, scheme) ELSE <<>>
       IN  packets' = packets \union {Packet(c, SiteOf[c], Built(m) \o tail, m)}
  /\ UNCHANGED <<announced, version>>

(* The SIP bridge, the SMS Center, late entry, the sweep and the others    *)
(* that speak for the server itself.                                       *)
Originate(c, m) ==
  /\ Speak
  /\ packets' = packets \union {Packet(SiteOf[c], c, Built(m), m)}
  /\ UNCHANGED <<announced, version>>

(* A server tells its neighbour, with its own id before the path.          *)
Advertise(s, a) ==
  LET mine == IF "path" \in DOMAIN a THEN [a EXCEPT !.path = <<SiteId[s]>> \o @] ELSE a
  IN  /\ Speak
      /\ packets' = packets \union {Packet(s, OtherSite(s), BuiltAdvert(mine), mine)}
      /\ UNCHANGED <<announced, version>>

(* What a server passes on of packet p: a group call's GROUP_TX in the     *)
(* layout of the recipient, raised for a console or a peer if the talker   *)
(* has an alarm; a private call's likewise; the rest as they came.         *)
Relayed(s, p, to, alarm) ==
  LET m == Parse(p.bytes)
      raised == /\ m.kind = "group_tx" /\ alarm /\ m.priority < EmergencyPriority
                /\ to \in Site \union Console
  IN  Packet(s, to,
        Adapt(IF raised THEN Raise(p.bytes) ELSE p.bytes, ForwardVersion(to)),
        IF raised THEN [p.means EXCEPT !.priority = EmergencyPriority] ELSE p.means)

(* Kept here: registrations, service messages and what is not understood.  *)
GoesOn(m) == m.kind \notin {"malformed", "subscriber", "service"}

(* handle_packet at server s.                                              *)
HandlePacket(s, p) ==
  /\ p \in packets /\ p.to = s
  /\ version' = IF p.from \in Conn /\ Detected(p.bytes) > version[p.from]
                  THEN [version EXCEPT ![p.from] = Detected(p.bytes)] ELSE version
  /\ \E alarm \in BOOLEAN, c \in {d \in Conn : SiteOf[d] = s /\ d # p.from} :
       packets' = (packets \ {p}) \union
         (IF p.bytes[1] # Federation /\ GoesOn(Parse(p.bytes))
            THEN {Relayed(s, p, to, alarm) :
                    to \in {c} \union (IF p.from \in Conn THEN {OtherSite(s)} ELSE {})}
            ELSE {})
  /\ UNCHANGED <<announced, spoken>>

(* The client has read it.                                                 *)
Hear(p) ==
  /\ p \in packets /\ p.to \in Conn
  /\ packets' = packets \ {p}
  /\ UNCHANGED <<announced, version, spoken>>

WireNext ==
  \/ \E c \in Conn : \/ \E m \in Said : Say(c, m)
                     \/ \E m \in Originated : Originate(c, m)
  \/ \E s \in Site : \/ \E a \in Advertised : Advertise(s, a)
                     \/ \E p \in packets : HandlePacket(s, p)
  \/ \E p \in packets : Hear(p)

WireSpec == WireInit /\ [][WireNext]_wireVars

-----------------------------------------------------------------------------
(* Every message is read as it was meant, whoever reads it: each server    *)
(* and each client, over one hop or three, with the speech frames in their *)
(* codec's format.  Only a client that announced v0 goes without the       *)
(* talker's name, and one whose software knows nothing else never gets a   *)
(* longer layout than v0's (adapt_to_version, forward_version).            *)
Read(d, from) ==
  IF d[1] = Federation THEN ParseFederation(d, SiteId[from])
  ELSE LET m == Parse(d)
       IN  IF m.kind = "frame" /\ m.type = TRAFFIC
             THEN LET subs == UnpackVoice(m.data)
                  IN  [kind |-> "voice", id |-> m.id, sub1 |-> subs[1], sub2 |-> subs[2]]
             ELSE m

Meant(m) ==
  IF m.kind = "bts" THEN [m EXCEPT !.key = Clip(@), !.name = Clip(@)] ELSE m

Nameless(m) ==
  IF "mnemonic" \in DOMAIN m THEN [m EXCEPT !.mnemonic = NoName] ELSE m

Understood ==
  \A p \in packets :
    \/ /\ Read(p.bytes, p.from) = Meant(p.means)
       /\ p.to \in Conn => (ReadsV1(p.to) \/ Detected(p.bytes) = 0)
    \/ /\ p.to \in Conn /\ announced[p.to] = 0
       /\ Read(p.bytes, p.from) = Nameless(p.means)

=============================================================================
