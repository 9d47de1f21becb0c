----------------------------- MODULE HaReplica -----------------------------
(***************************************************************************)
(* What the two nodes of an HA pair keep on disk: the history log          *)
(* (src/src/store.rs, written by monitor.rs) and the SMS Center's queue,   *)
(* and how the Standby copies them (src/src/ha_repl.rs).                   *)
(*                                                                         *)
(* The roles are those of HaPair, seen from here: a node is active,        *)
(* standby or down, a Standby may find itself Active at any moment its     *)
(* peer is not (or is not heard), and an Active one may be told to hand    *)
(* over.  The log is a sequence of records and of what a crash in the      *)
(* middle of an append leaves: a length with too few bytes behind it,      *)
(* past which nothing can be read.  A record is a node and a number: the   *)
(* node's n-th.  Offsets count records in place of bytes.                  *)
(***************************************************************************)
EXTENDS Naturals, Sequences, SequencesExt

CONSTANTS
  Node,          \* the two nodes of the pair
  Message,       \* messages the SMS Center may be given
  Torn,          \* the remains of an append cut short
  None,
  First,         \* the one that is Active at the start
  MaxNews,       \* bound: history records written and messages accepted
  MaxFaults,     \* bound: crashes, handovers and split pairs
  MaxWire        \* bound: replication messages under way on a connection

ASSUME HaReplicaAssumption ==
  /\ \E m, n \in Node : m # n /\ Node = {m, n}
  /\ First \in Node /\ MaxNews \in Nat /\ MaxFaults \in Nat /\ MaxWire \in Nat \ {0}
  /\ None \notin Node /\ None # Torn /\ \A q \in SUBSET Message : None # q
  /\ Torn \notin Node \X Nat

VARIABLES
  role,          \* ha.role, and "down" without a process
  log,           \* Store: the file
  known,         \* Store::known
  written,       \* how many records each node has written
  queue,         \* the SMS Center's queue
  cursor,        \* Cursor::history_offset, on disk
  synced,        \* ReplStatus::synced
  pull,          \* each node's pull from its peer: its connection, or None
  given,         \* messages the pair has accepted
  faults

vars == <<role, log, known, written, queue, cursor, synced, pull, given, faults>>

Record == Node \X (Nat \ {0})

(* Messages of a connection, and what its two ends keep of it.             *)
Msg ==
  [type : {"history"}, records : Seq(Record), end : Nat]
    \union [type : {"sms"}, queue : SUBSET Message]
    \union [type : {"caught_up"}]

PullState ==
  [open : BOOLEAN, at : {"poll", "history"}, offset : Nat,
   sms : (SUBSET Message) \union {None}, caughtUp : BOOLEAN,
   wire : Seq(Msg), base : Nat, fresh : BOOLEAN, outlived : BOOLEAN]

ASSUME HaReplicaNoneAssumption == None \notin PullState

Peer(n) == CHOOSE m \in Node : m # n

Records(s) == ToSet(s) \ {Torn}

(* split_frames: the complete frames up to the first that is not.          *)
Readable(s) ==
  IF Torn \in ToSet(s)
    THEN SubSeq(s, 1, (CHOOSE i \in DOMAIN s :
                         s[i] = Torn /\ \A j \in 1..(i-1) : s[j] # Torn) - 1)
    ELSE s

Init ==
  /\ role = [n \in Node |-> IF n = First THEN "active" ELSE "standby"]
  /\ log = [n \in Node |-> <<>>]
  /\ known = [n \in Node |-> {}]
  /\ written = [n \in Node |-> 0]
  /\ queue = [n \in Node |-> {}]
  /\ cursor = [n \in Node |-> 0]
  /\ synced = [n \in Node |-> FALSE]
  /\ pull = [n \in Node |-> None]
  /\ given = {}
  /\ faults = 0

disk == <<log, written, queue, cursor, given>>

-----------------------------------------------------------------------------
(* The service, on the Active node.                                        *)

(* Store::append: a call, an SDS or a report is over and goes on record.   *)
OnRecord(n, r) ==
  /\ log' = [log EXCEPT ![n] = Append(@, r)]
  /\ known' = [known EXCEPT ![n] = @ \union {r}]

SomethingHappens ==
  Cardinality(given) + FoldFunction(+, 0, written) < MaxNews

Persist(n) ==
  /\ role[n] = "active"
  /\ SomethingHappens
  /\ written' = [written EXCEPT ![n] = @ + 1]
  /\ OnRecord(n, <<n, written[n] + 1>>)
  /\ UNCHANGED <<role, queue, cursor, synced, pull, given, faults>>

AcceptSms(n, m) ==
  /\ role[n] = "active"
  /\ SomethingHappens
  /\ m \notin given
  /\ given' = given \union {m}
  /\ queue' = [queue EXCEPT ![n] = @ \union {m}]
  /\ UNCHANGED <<role, log, known, written, cursor, synced, pull, faults>>

DeliverSms(n, m) ==
  /\ role[n] = "active"
  /\ m \in queue[n]
  /\ queue' = [queue EXCEPT ![n] = @ \ {m}]
  /\ UNCHANGED <<role, log, known, written, cursor, synced, pull, given, faults>>

-----------------------------------------------------------------------------
(* Roles.                                                                  *)

Fault == faults < MaxFaults /\ faults' = faults + 1

(* The Active node hands over and stops being active at once.              *)
HandOver(n) ==
  /\ Fault
  /\ role[n] = "active"
  /\ role' = [role EXCEPT ![n] = "standby"]
  /\ UNCHANGED <<disk, known, synced, pull>>

(* A pull under way goes on until its next message.                        *)
BecomesActive(n) ==
  /\ role[n] = "standby"
  /\ role' = [role EXCEPT ![n] = "active"]
  /\ pull' = [pull EXCEPT ![n] =
       IF @ = None THEN None ELSE [@ EXCEPT !.outlived = TRUE]]
  /\ UNCHANGED <<disk, known, synced>>

TakeOver(n) ==
  /\ role[Peer(n)] # "active"
  /\ BecomesActive(n)
  /\ UNCHANGED faults

(* The heartbeats stop, and both are active until they are heard again.    *)
Split(n) ==
  /\ Fault
  /\ role[Peer(n)] = "active"
  /\ BecomesActive(n)

Yield(n) ==
  /\ \A m \in Node : role[m] = "active"
  /\ role' = [role EXCEPT ![n] = "standby"]
  /\ UNCHANGED <<disk, known, synced, pull, faults>>

(* The server side of the peer's pull is gone: what it sent may still be   *)
(* read, as far as it got.                                                 *)
Cut(c) ==
  IF c = None THEN {None}
  ELSE {[c EXCEPT !.open = FALSE, !.wire = SubSeq(@, 1, k)] : k \in 0..Len(c.wire)}

(* A crash, perhaps between the two writes of append_body.                 *)
Crash(n) ==
  /\ Fault
  /\ role[n] # "down"
  /\ role' = [role EXCEPT ![n] = "down"]
  /\ \/ UNCHANGED log
     \/ log' = [log EXCEPT ![n] = Append(@, Torn)]
  /\ \E c \in Cut(pull[Peer(n)]) :
       pull' = [pull EXCEPT ![n] = None, ![Peer(n)] = c]
  /\ known' = [known EXCEPT ![n] = {}]
  /\ synced' = [synced EXCEPT ![n] = FALSE]
  /\ UNCHANGED <<written, queue, cursor, given>>

(* Store::open: the content of every complete record is known again.       *)
OpenedEmpty(s) == {}

Opened(s) == Records(Readable(s))

Start(n) ==
  /\ role[n] = "down"
  /\ role' = [role EXCEPT ![n] = "standby"]
  /\ known' = [known EXCEPT ![n] = Opened(log[n])]
  /\ UNCHANGED <<disk, synced, pull, faults>>

-----------------------------------------------------------------------------
(* serve: the Active side of the connection of n's pull.                   *)

Connect(n) ==
  /\ pull[n] = None
  /\ role[n] = "standby" /\ role[Peer(n)] = "active"
  /\ pull' = [pull EXCEPT ![n] =
       [open |-> TRUE, at |-> "poll", offset |-> cursor[n], sms |-> None,
        caughtUp |-> FALSE, wire |-> <<>>,
        base |-> Len(Readable(log[Peer(n)])), fresh |-> FALSE,
        outlived |-> FALSE]]
  /\ UNCHANGED <<role, disk, known, synced, faults>>

Served(n) == pull[n] # None /\ pull[n].open

(* read_frames: complete frames from the offset on, from the beginning if  *)
(* the log is shorter than that.                                           *)
ReadFrom(s, offset) == IF offset > Len(s) THEN 0 ELSE offset

Unread(n) ==
  LET s == log[Peer(n)]
      from == ReadFrom(s, pull[n].offset)
  IN  SubSeq(s, from + 1, from + Len(Readable(SubSeq(s, from + 1, Len(s)))))

(* The role is looked at once per round of the loop.  A round with nothing *)
(* to send is left out, but for its ping.                                  *)
NewsOfTheLog(n) == Unread(n) # <<>> \/ ~pull[n].caughtUp

News(n) == Unread(n) # <<>> \/ pull[n].sms # queue[Peer(n)] \/ ~pull[n].caughtUp

History(records, end) == [type |-> "history", records |-> records, end |-> end]
Sms(q) == [type |-> "sms", queue |-> q]
CaughtUp == [type |-> "caught_up"]

(* At most HISTORY_CHUNK of the log at a time.                             *)
SendHistory(n) ==
  \E k \in 1..Len(Unread(n)) :
    LET end == ReadFrom(log[Peer(n)], pull[n].offset) + k
    IN  pull' = [pull EXCEPT
          ![n].at = "history", ![n].offset = end,
          ![n].wire = Append(@, History(SubSeq(Unread(n), 1, k), end))]

(* The queue if it has changed, and the end of the first round.            *)
SendRest(n) ==
  LET q == queue[Peer(n)]
      sms == IF pull[n].sms = q THEN <<>> ELSE <<Sms(q)>>
      caughtUp == IF pull[n].caughtUp THEN <<>> ELSE <<CaughtUp>>
  IN  pull' = [pull EXCEPT ![n].at = "poll", ![n].sms = q, ![n].caughtUp = TRUE,
                           ![n].wire = @ \o sms \o caughtUp]

(* The log first, until there is nothing left, then the rest.              *)
Serve(n) ==
  /\ Served(n)
  /\ pull[n].at = "poll" => role[Peer(n)] = "active" /\ News(n)
  /\ Len(pull[n].wire) < MaxWire
  /\ IF Unread(n) # <<>> THEN SendHistory(n) ELSE SendRest(n)
  /\ UNCHANGED <<role, disk, known, synced, faults>>

StopServing(n) ==
  /\ Served(n)
  /\ pull[n].at = "poll" /\ role[Peer(n)] # "active"
  /\ pull' = [pull EXCEPT ![n].open = FALSE]
  /\ UNCHANGED <<role, disk, known, synced, faults>>

-----------------------------------------------------------------------------
(* pull: the Standby side.  The role is looked at before each message is   *)
(* waited for, not after.                                                  *)

Incoming(n, type) ==
  /\ pull[n] # None
  /\ pull[n].wire # <<>>
  /\ Head(pull[n].wire).type = type

(* The message is done with: on to the next, or the end of the pull.       *)
Done(n, p, s) ==
  IF role[n] = "standby"
    THEN /\ pull' = [pull EXCEPT ![n] = [p EXCEPT !.wire = Tail(@)]]
         /\ synced' = [synced EXCEPT ![n] = s]
    ELSE /\ pull' = [pull EXCEPT ![n] = None]
         /\ synced' = [synced EXCEPT ![n] = FALSE]

(* append_replicated: what is known is not appended again.                 *)
AppendReplicated(n) ==
  /\ Incoming(n, "history")
  /\ LET records == Head(pull[n].wire).records
     IN  /\ records # <<>>
         /\ IF Head(records) \in known[n] THEN UNCHANGED <<log, known>>
                                          ELSE OnRecord(n, Head(records))
         /\ pull' = [pull EXCEPT ![n].wire[1].records = Tail(@)]
  /\ UNCHANGED <<role, written, queue, cursor, synced, given, faults>>

SavesCursorFirst(n) ==
  /\ Incoming(n, "history")
  /\ cursor' = [cursor EXCEPT ![n] = Head(pull[n].wire).end]
  /\ IF Head(pull[n].wire).records = <<>> THEN Done(n, pull[n], synced[n])
                                          ELSE UNCHANGED <<pull, synced>>
  /\ UNCHANGED <<role, log, known, written, queue, given, faults>>

(* The cursor is saved once all of a message is in the log.                *)
SaveCursor(n) ==
  /\ Incoming(n, "history")
  /\ Head(pull[n].wire).records = <<>>
  /\ cursor' = [cursor EXCEPT ![n] = Head(pull[n].wire).end]
  /\ Done(n, pull[n], synced[n])
  /\ UNCHANGED <<role, log, known, written, queue, given, faults>>

(* SmsCenter::import: the queue is replaced.                               *)
ImportSms(n) ==
  /\ Incoming(n, "sms")
  /\ queue' = [queue EXCEPT ![n] = Head(pull[n].wire).queue]
  /\ Done(n, [pull[n] EXCEPT !.fresh = TRUE], synced[n])
  /\ UNCHANGED <<role, log, known, written, cursor, given, faults>>

ReceiveCaughtUp(n) ==
  /\ Incoming(n, "caught_up")
  /\ Done(n, pull[n], TRUE)
  /\ UNCHANGED <<role, disk, known, faults>>

EndsInSync(n) ==
  /\ pull[n] # None
  /\ pull[n].wire = <<>>
  /\ ~pull[n].open \/ role[n] # "standby"
  /\ pull' = [pull EXCEPT ![n] = None]
  /\ UNCHANGED <<role, disk, known, synced, faults>>

(* The connection is closed or silent for too long, or a ping lets a node  *)
(* see that it is no longer the Standby.                                   *)
EndPull(n) ==
  /\ pull[n] # None
  /\ pull[n].wire = <<>>
  /\ ~pull[n].open \/ role[n] # "standby"
  /\ pull' = [pull EXCEPT ![n] = None]
  /\ synced' = [synced EXCEPT ![n] = FALSE]
  /\ UNCHANGED <<role, disk, known, faults>>

Replicate(n) ==
  \/ Connect(n) \/ Serve(n) \/ StopServing(n)
  \/ AppendReplicated(n) \/ SaveCursor(n) \/ ImportSms(n) \/ ReceiveCaughtUp(n)
  \/ EndPull(n)

Next ==
  \E n \in Node :
    \/ Persist(n)
    \/ \E m \in Message : AcceptSms(n, m) \/ DeliverSms(n, m)
    \/ HandOver(n) \/ TakeOver(n) \/ Split(n) \/ Yield(n)
    \/ Crash(n) \/ Start(n)
    \/ Replicate(n)

-----------------------------------------------------------------------------
(* What the pair promises.                                                 *)

(* Nothing is skipped: up to the saved cursor, every record of the peer's  *)
(* log is in this node's, whichever of the two crashed, whenever, and      *)
(* whoever wrote it (save_cursor comes after append_replicated).           *)
NothingSkipped ==
  \A n \in Node :
    /\ cursor[n] <= Len(log[Peer(n)])
    /\ \A i \in 1..cursor[n] : log[Peer(n)][i] \in Records(log[n])

(* History that went back and forth between the nodes is never duplicated, *)
(* and what a node wrote stays in the order it was written in.             *)
KeptOnceInOrder ==
  \A n \in Node : LET s == Readable(log[n]) IN
    \A i, j \in DOMAIN s : i < j /\ s[i][1] = s[j][1] => s[i][2] < s[j][2]

(* A node that calls itself in sync has, besides an up-to-date queue, all  *)
(* that was in the peer's log when it connected: this is what the Active   *)
(* node waits for before it hands over to a preferred peer.                *)
SyncedIsCopied ==
  \A n \in Node : synced[n] =>
    /\ pull[n] # None
    /\ pull[n].fresh
    /\ \A i \in 1..pull[n].base : log[Peer(n)][i] \in Records(log[n])

(* As long as it is the Standby of an Active peer, a node comes to have    *)
(* every record that can be read there, and its queue; the queue only if   *)
(* its pull began after it was last Active itself.  A pull that outlived a *)
(* short split is on, and the peer does not send a queue it sent before.   *)
Replica(n) == role[n] = "standby" /\ role[Peer(n)] = "active"

EverythingIsCopied ==
  \A n \in Node :
    /\ []<>(Replica(n) =>
              Records(Readable(log[Peer(n)])) \subseteq Records(log[n]))
    /\ []<>(\/ Replica(n) => queue[n] = queue[Peer(n)]
            \/ pull[n] # None /\ pull[n].outlived)
-----------------------------------------------------------------------------

Safety == Init /\ [][Next]_vars

(* A node that stopped is started again, a pair without an Active node or  *)
(* with two ends up with one, and both sides of the replication are tasks  *)
(* that always go on.                                                      *)
Fairness ==
  \A n \in Node :
    WF_vars(Start(n)) /\ WF_vars(TakeOver(n)) /\ WF_vars(Yield(n))
      /\ WF_vars(Replicate(n))

Spec == Safety /\ Fairness
=============================================================================
