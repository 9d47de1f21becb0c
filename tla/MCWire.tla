------------------------------- MODULE MCWire -------------------------------
EXTENDS Wire, TLC

WSiteOf == [c \in Conn |-> IF c = "far" THEN "t" ELSE "s"]
WSiteId == [s \in Site |-> IF s = "s" THEN 300 ELSE 7]

Bob == <<66, 111, 98>>

GroupTx(name) ==
  [kind |-> "group_tx", id |-> 70000, source |-> 4013, dest |-> 91, priority |-> 0,
   access |-> 2, service |-> 258, mnemonic |-> name]
Setup(state, name) ==
  [kind |-> "circular", state |-> state, id |-> 5, source |-> 4013, dest |-> 66000,
   number |-> <<48, 49>>, priority |-> 3, service |-> 9, mnemonic |-> name]

WSaid ==
  {GroupTx(NoName), GroupTx(Bob), GroupTx(<<66>>), Setup(SETUP_REQUEST, NoName),
   Setup(SETUP_REQUEST, Bob), Setup(CONNECT_REQUEST, NoName)}
  \union {[kind |-> "cause", state |-> s, id |-> 5, cause |-> 14]
            : s \in {GROUP_IDLE, SETUP_REJECT, RELEASE}}
  \union {[kind |-> "empty", state |-> s, id |-> 5] : s \in {SETUP_ACCEPT, ALERT}}
  \union {[kind |-> "raw", state |-> CONNECT_CONFIRM, id |-> 5, data |-> <<0, 0>>],
          [kind |-> "short_transfer", id |-> 5, source |-> 4013, dest |-> 258],
          [kind |-> "frame", type |-> 1, id |-> 5, bits |-> 264, data |-> <<130, 0, 7>>],
          [kind |-> "frame", type |-> 3, id |-> 5, bits |-> 8, data |-> <<35>>],
          [kind |-> "voice", id |-> 5, sub1 |-> <<129, 32>>, sub2 |-> <<255, 224>>],
          [kind |-> "subscriber", type |-> 8, issi |-> 4013, groups |-> <<91, 70000>>],
          [kind |-> "subscriber", type |-> 1, issi |-> 4013, groups |-> <<>>],
          [kind |-> "service", type |-> 18, json |-> <<123, 125>>]}

WOriginated == {m \in WSaid : "mnemonic" \in DOMAIN m => m.mnemonic = NoName}

WAdvertised ==
  {[kind |-> "withdraw", issi |-> 4013],
   [kind |-> "route", issi |-> 4013, reg |-> 123456789, path |-> <<>>, groups |-> <<>>],
   [kind |-> "route", issi |-> 4013, reg |-> 3, path |-> <<9, 65536>>, groups |-> <<91, 92>>],
   [kind |-> "prune", id |-> 5, source |-> 4013],
   [kind |-> "hello", version |-> 3],
   [kind |-> "bts", seq |-> 1000, online |-> 1, lat |-> 52, lon |-> 13, path |-> <<9>>,
    key |-> <<65, 195, 164, 66>>, name |-> <<195, 164>>],
   [kind |-> "ms_pos", at |-> 1000, issi |-> 4013, lat |-> 52, lon |-> 13,
    path |-> <<9>>, station |-> <<65>>],
   [kind |-> "emergency", seq |-> 1000, active |-> 1, issi |-> 4013, dest |-> NoName,
    path |-> <<9>>, bts |-> <<>>],
   [kind |-> "emergency", seq |-> 1000, active |-> 0, issi |-> 4013, dest |-> 91,
    path |-> <<>>, bts |-> <<65, 66>>]}
=============================================================================
