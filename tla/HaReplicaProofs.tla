--------------------------- MODULE HaReplicaProofs ---------------------------
(***************************************************************************)
(* Safety of the history replication, for every bound on records, faults   *)
(* and messages under way: nothing is skipped or kept twice, and a node    *)
(* that says it is in sync is.                                             *)
(***************************************************************************)
EXTENDS HaReplica, TLAPS, SequenceTheorems, WellFoundedInduction

-----------------------------------------------------------------------------
(* Types.                                                                  *)

TypesOK ==
  /\ role \in [Node -> {"active", "standby", "down"}]
  /\ log \in [Node -> Seq(Record \union {Torn})]
  /\ known \in [Node -> SUBSET Record]
  /\ written \in [Node -> Nat]
  /\ queue \in [Node -> SUBSET Message]
  /\ cursor \in [Node -> Nat]
  /\ synced \in [Node -> BOOLEAN]
  /\ pull \in [Node -> PullState \union {None}]
  /\ given \subseteq Message

-----------------------------------------------------------------------------
(* What a connection carries: w are the messages under way to a node whose *)
(* log has the records H, from one whose log is L.                         *)

IsHistory(w, j) == w[j].type = "history"

(* Record r is in one of the first j messages.                             *)
Carried(w, j, r) ==
  \E i \in 1..j : IsHistory(w, i) /\ r \in ToSet(w[i].records)

(* The first e entries of L are records the node has, or gets with the     *)
(* first j messages.                                                       *)
Covers(L, H, w, j, e) ==
  /\ e <= Len(L)
  /\ \A p \in 1..e : L[p] # Torn /\ (L[p] \in H \/ Carried(w, j, L[p]))

(* Saving the cursor of a message skips nothing.                           *)
CursorsAreCovered(L, H, w) ==
  \A j \in 1..Len(w) : IsHistory(w, j) => Covers(L, H, w, j, w[j].end)

(* What is carried is a record of L, and comes after the earlier ones of   *)
(* the node that wrote it.                                                 *)
EarlierOnesFirst(L, H, w) ==
  \A j \in 1..Len(w) : IsHistory(w, j) =>
    \A i \in 1..Len(w[j].records) :
      /\ w[j].records[i] \in Records(L)
      /\ \A k \in 1..(w[j].records[i][2] - 1) :
           LET q == <<w[j].records[i][1], k>>
           IN  \/ q \in H \/ Carried(w, j - 1, q)
               \/ \E h \in 1..(i - 1) : w[j].records[h] = q

(* Once "caught up" is read, the queue has come and the first base entries.*)
CaughtUpIsLast(L, H, w, base, fresh) ==
  \A j \in 1..Len(w) : w[j].type = "caught_up" =>
    /\ fresh \/ \E i \in 1..j : w[i].type = "sms"
    /\ Covers(L, H, w, j, base)

PullOK(p, L, H) ==
  /\ CursorsAreCovered(L, H, p.wire)
  /\ EarlierOnesFirst(L, H, p.wire)
  /\ CaughtUpIsLast(L, H, p.wire, p.base, p.fresh)
  /\ p.open => Covers(L, H, p.wire, Len(p.wire), p.offset)
  /\ p.base <= Len(L) /\ \A i \in 1..p.base : L[i] # Torn
  /\ ~p.caughtUp => p.sms = None

-----------------------------------------------------------------------------
(* The inductive invariant.                                                *)

DownIsIdle ==
  \A n \in Node : role[n] = "down" => pull[n] = None /\ ~synced[n]

(* What is known is in the log, and all of it unless the log is torn.      *)
KnownIsKept ==
  \A n \in Node :
    /\ known[n] \subseteq Records(log[n])
    /\ role[n] # "down" /\ Torn \notin ToSet(log[n]) =>
         Records(log[n]) \subseteq known[n]

(* A node keeps what it wrote, and no record is one nobody wrote.          *)
WrittenIsKept ==
  \A n \in Node :
    /\ \A k \in 1..written[n] : <<n, k>> \in Records(log[n])
    /\ \A r \in Records(log[n]) : r[2] <= written[r[1]]

(* The first p entries are whole.                                          *)
Whole(s, p) == \A i \in 1..p : s[i] # Torn

(* Before the first torn entry no record comes twice, or before an earlier *)
(* one of the node that wrote it.                                          *)
InOrder(s) ==
  \A p \in 1..Len(s) : Whole(s, p) =>
    /\ \A i \in 1..(p - 1) : s[i] # s[p]
    /\ \A k \in 1..(s[p][2] - 1) : \E i \in 1..(p - 1) : s[i] = <<s[p][1], k>>

LogsInOrder == \A n \in Node : InOrder(log[n])

PullsOK ==
  \A n \in Node : pull[n] # None =>
    PullOK(pull[n], log[Peer(n)], Records(log[n]))

IInv ==
  /\ TypesOK /\ DownIsIdle /\ KnownIsKept /\ WrittenIsKept /\ LogsInOrder
  /\ PullsOK /\ NothingSkipped /\ SyncedIsCopied

-----------------------------------------------------------------------------
(* Logs.                                                                   *)

(* Where an index falls that is moved, or lies behind another.             *)
LEMMA ShiftedIndex ==
  ASSUME NEW a \in Nat, NEW b \in Nat, NEW c \in Nat, a + c = b, NEW i \in 1..a
  PROVE  i + c \in 1..b
OBVIOUS

(* An index behind the first o ones.                                       *)
LEMMA IndexBehind ==
  ASSUME NEW o \in Nat, NEW g \in Nat, NEW i \in Nat, NEW n \in Nat,
         g > o, g < o + i, i <= n
  PROVE  \E h \in 1..(i - 1) : o + h = g /\ h \in 1..n
<1>1. g - o \in 1..(i - 1) /\ o + (g - o) = g /\ g - o \in 1..n
  OBVIOUS
<1> QED BY <1>1

(* The elements of a sequence are those at its positions.                  *)
LEMMA InSeq ==
  ASSUME NEW S, NEW s \in Seq(S), NEW r
  PROVE  r \in ToSet(s) <=> \E i \in 1..Len(s) : s[i] = r
BY DEF ToSet

(* The records of a log are its entries but the torn ones.                 *)
LEMMA RecordsOf ==
  ASSUME NEW S, NEW s \in Seq(S), NEW r
  PROVE  r \in Records(s) <=> r # Torn /\ \E i \in 1..Len(s) : s[i] = r
BY InSeq DEF Records

(* A torn entry is no record.                                              *)
LEMMA TornIsNoRecord == Torn \notin Record /\ None # Torn
BY HaReplicaAssumption DEF HaReplicaAssumption, Record

(* A log that gets one more entry has all it had.                          *)
LEMMA Appended ==
  ASSUME NEW S, NEW s \in Seq(S), NEW e \in S
  PROVE  /\ Append(s, e) \in Seq(S) /\ Len(Append(s, e)) = Len(s) + 1
         /\ \A i \in 1..Len(s) : Append(s, e)[i] = s[i]
         /\ Append(s, e)[Len(s) + 1] = e
         /\ Records(Append(s, e)) = Records(s) \union ({e} \ {Torn})
<1>1. /\ Append(s, e) \in Seq(S) /\ Len(Append(s, e)) = Len(s) + 1
      /\ \A i \in 1..Len(s) : Append(s, e)[i] = s[i]
      /\ Append(s, e)[Len(s) + 1] = e
  BY AppendProperties
<1>2. ASSUME NEW r
      PROVE  r \in Records(Append(s, e)) <=> r \in Records(s) \union ({e} \ {Torn})
  <2>1. /\ r \in Records(Append(s, e)) <=>
             r # Torn /\ \E i \in 1..(Len(s) + 1) : Append(s, e)[i] = r
        /\ r \in Records(s) <=> r # Torn /\ \E i \in 1..Len(s) : s[i] = r
    <3>1. \A t \in Seq(S) :
            r \in Records(t) <=> r # Torn /\ \E i \in 1..Len(t) : t[i] = r
      BY RecordsOf
    <3>2. r \in Records(Append(s, e)) <=>
            r # Torn /\ \E i \in 1..Len(Append(s, e)) : Append(s, e)[i] = r
      BY <1>1, <3>1
    <3>3. Len(Append(s, e)) = Len(s) + 1
      BY <1>1
    <3> QED BY ONLY <3>1, <3>2, <3>3, s \in Seq(S)
  <2>2. Len(s) \in Nat
    OBVIOUS
  <2>3. (\E i \in 1..(Len(s) + 1) : Append(s, e)[i] = r) <=>
           (\E i \in 1..Len(s) : s[i] = r) \/ e = r
    <3>1. ASSUME NEW i \in 1..(Len(s) + 1), Append(s, e)[i] = r
          PROVE  (\E h \in 1..Len(s) : s[h] = r) \/ e = r
      <4>1. i \in 1..Len(s) \/ i = Len(s) + 1
        BY <2>2
      <4> QED BY <1>1, <3>1, <4>1
    <3>2. ASSUME NEW i \in 1..Len(s), s[i] = r
          PROVE  i \in 1..(Len(s) + 1) /\ Append(s, e)[i] = r
      BY <1>1, <2>2, <3>2
    <3>3. Len(s) + 1 \in 1..(Len(s) + 1)
      BY <2>2
    <3> QED BY <1>1, <3>1, <3>2, <3>3
  <2> QED BY <2>1, <2>3
<1> QED BY <1>1, <1>2

(* What can be read of a log is all before its first torn entry.           *)
LEMMA ReadableIs ==
  ASSUME NEW S, NEW s \in Seq(S)
  PROVE  /\ Len(Readable(s)) \in 0..Len(s)
         /\ DOMAIN Readable(s) = 1..Len(Readable(s))
         /\ \A i \in 1..Len(Readable(s)) : Readable(s)[i] = s[i] /\ s[i] # Torn
         /\ Len(Readable(s)) < Len(s) => s[Len(Readable(s)) + 1] = Torn
<1>1. CASE Torn \notin ToSet(s)
  <2>1. Readable(s) = s
    BY <1>1 DEF Readable
  <2>2. \A i \in 1..Len(s) : s[i] # Torn
    BY <1>1, InSeq
  <2> QED BY <2>1, <2>2
<1>2. CASE Torn \in ToSet(s)
  <2> DEFINE T == {i \in 1..Len(s) : s[i] = Torn}
             First1(i) == s[i] = Torn /\ \A j \in 1..(i-1) : s[j] # Torn
             f == CHOOSE i \in DOMAIN s : First1(i)
  <2>1. T # {} /\ T \subseteq Nat
    BY <1>2, InSeq
  <2>2. PICK m \in T : \A i \in T : <<i, m>> \notin OpToRel(<, Nat)
    BY <2>1, WFMin, NatLessThanWellFounded
  <2>3. \A i \in T : ~(i < m)
    BY <2>1, <2>2 DEF OpToRel
  <2>4. \A j \in 1..(m-1) : s[j] # Torn
    <3> SUFFICES ASSUME NEW j \in 1..(m-1), s[j] = Torn PROVE FALSE
      OBVIOUS
    <3>1. m \in 1..Len(s) /\ Len(s) \in Nat
      OBVIOUS
    <3>2. j \in 1..Len(s) /\ j < m
      BY <3>1
    <3>3. j \in T
      BY <3>2
    <3> QED BY <2>3, <3>2, <3>3
  <2>5. m \in DOMAIN s /\ First1(m)
    BY <2>4
  <2>6. f \in DOMAIN s /\ First1(f)
    BY <2>5
  <2>7. f \in 1..Len(s) /\ s[f] = Torn /\ \A j \in 1..(f-1) : s[j] # Torn
    BY <2>6
  <2> HIDE DEF f
  <2>8. Readable(s) = SubSeq(s, 1, f - 1)
    BY <1>2 DEF Readable, f
  <2>9. \A i \in 1..(f-1) : s[i] \in S
    BY <2>7
  <2>10. f - 1 \in Int /\ 1 \in Int
    BY <2>7
  <2>11. /\ SubSeq(s, 1, f - 1) \in Seq(S)
         /\ Len(SubSeq(s, 1, f - 1)) = IF 1 <= f - 1 THEN f - 1 - 1 + 1 ELSE 0
         /\ \A i \in 1..(f - 1 - 1 + 1) : SubSeq(s, 1, f - 1)[i] = s[1 + i - 1]
    BY <2>9, <2>10, SubSeqProperties
  <2>12. Len(SubSeq(s, 1, f - 1)) = f - 1
    BY <2>7, <2>11
  <2>13. \A i \in 1..(f - 1) : SubSeq(s, 1, f - 1)[i] = s[i]
    BY <2>7, <2>11
  <2> QED BY <2>7, <2>8, <2>11, <2>12, <2>13
<1> QED BY <1>1, <1>2

(* Peers.                                                                  *)
LEMMA Peers ==
  ASSUME NEW n \in Node
  PROVE  /\ Peer(n) \in Node /\ Peer(n) # n /\ Peer(Peer(n)) = n
         /\ \A m \in Node : m = n \/ m = Peer(n)
<1>1. PICK a \in Node, b \in Node : a # b /\ Node = {a, b}
  BY HaReplicaAssumption DEF HaReplicaAssumption
<1>2. \A m \in Node : Peer(m) \in Node /\ Peer(m) # m
  <2> TAKE m \in Node
  <2>1. \E k \in Node : k # m
    BY <1>1
  <2> QED BY <2>1 DEF Peer
<1> QED BY <1>1, <1>2

-----------------------------------------------------------------------------
(* Connections.                                                            *)

Entries == Record \union {Torn}

(* The kinds of messages.                                                  *)
LEMMA MsgParts ==
  ASSUME NEW m \in Msg
  PROVE  /\ m.type \in {"history", "sms", "caught_up"}
         /\ m.type = "history" => m.records \in Seq(Record) /\ m.end \in Nat
         /\ m.type = "sms" => m.queue \in SUBSET Message
BY DEF Msg

(* What the two ends of a connection keep.                                 *)
LEMMA PullParts ==
  ASSUME NEW p \in PullState
  PROVE  /\ p.wire \in Seq(Msg) /\ Len(p.wire) \in Nat
         /\ p.offset \in Nat /\ p.base \in Nat
         /\ p.open \in BOOLEAN /\ p.fresh \in BOOLEAN /\ p.caughtUp \in BOOLEAN
         /\ p.outlived \in BOOLEAN /\ p.at \in {"poll", "history"}
         /\ p.sms \in (SUBSET Message) \union {None}
         /\ \A j \in 1..Len(p.wire) : p.wire[j] \in Msg
BY DEF PullState

(* L2 is L, perhaps with more behind it.                                   *)
Extends(L2, L) ==
  Len(L) <= Len(L2) /\ \A i \in 1..Len(L) : L2[i] = L[i]

(* Entries stay covered while the logs grow and messages become records.   *)
LEMMA CoversMore ==
  ASSUME NEW L \in Seq(Entries), NEW L2 \in Seq(Entries), Extends(L2, L),
         NEW H, NEW H2, H \subseteq H2,
         NEW w, NEW w2, NEW j, NEW j2,
         \A r : Carried(w, j, r) => Carried(w2, j2, r) \/ r \in H2,
         NEW e \in Nat, Covers(L, H, w, j, e)
  PROVE  Covers(L2, H2, w2, j2, e)
<1>1. Len(L) \in Nat /\ Len(L2) \in Nat
  OBVIOUS
<1>2. e <= Len(L2)
  BY <1>1 DEF Covers, Extends
<1>3. ASSUME NEW i \in 1..e
      PROVE  L2[i] # Torn /\ (L2[i] \in H2 \/ Carried(w2, j2, L2[i]))
  <2>1. L2[i] = L[i]
    BY <1>1 DEF Covers, Extends
  <2>2. L[i] # Torn /\ (L[i] \in H \/ Carried(w, j, L[i]))
    BY DEF Covers
  <2> QED BY <2>1, <2>2
<1> QED BY <1>2, <1>3 DEF Covers

(* The node at the other end works on: its log, its records and the peer's *)
(* log grow, and messages are taken off the front of the connection record *)
(* by record, or lost at its end.  d messages are gone from the front, and *)
(* of what remains in front some records are.                              *)
Shortened(p, p2, H2, d) ==
  /\ Len(p2.wire) + d <= Len(p.wire)
  /\ \A j \in 1..Len(p2.wire) :
       /\ p2.wire[j].type = p.wire[j + d].type
       /\ IsHistory(p2.wire, j) =>
            /\ p2.wire[j].end = p.wire[j + d].end
            /\ \E c \in Nat :
                 /\ Len(p2.wire[j].records) + c = Len(p.wire[j + d].records)
                 /\ \A i \in 1..Len(p2.wire[j].records) :
                      p2.wire[j].records[i] = p.wire[j + d].records[i + c]
                 /\ \A i \in 1..c : p.wire[j + d].records[i] \in H2
  /\ d = 1 =>
       /\ IsHistory(p.wire, 1) =>
            \A i \in 1..Len(p.wire[1].records) : p.wire[1].records[i] \in H2
       /\ p.wire[1].type = "sms" => p2.fresh
  /\ p.fresh => p2.fresh
  /\ p2.base = p.base /\ p2.offset = p.offset
  /\ p2.caughtUp = p.caughtUp /\ p2.sms = p.sms
  /\ p2.open => p.open /\ Len(p2.wire) + d = Len(p.wire)

(* What was carried is carried, or in the log by now.                      *)
LEMMA CarriedShift ==
  ASSUME NEW p \in PullState, NEW p2 \in PullState, NEW H2, NEW d \in {0, 1},
         Shortened(p, p2, H2, d),
         NEW j \in 0..Len(p2.wire), NEW r, Carried(p.wire, j + d, r)
  PROVE  Carried(p2.wire, j, r) \/ r \in H2
<1> DEFINE w == p.wire
           w2 == p2.wire
<1>1. Len(w) \in Nat /\ Len(w2) \in Nat /\ Len(w2) + d <= Len(w)
  BY PullParts DEF Shortened
<1>2. PICK i \in 1..(j + d) : IsHistory(w, i) /\ r \in ToSet(w[i].records)
  BY DEF Carried
<1>3. i \in 1..Len(w)
  BY <1>1
<1>4. w[i] \in Msg /\ w[i].records \in Seq(Record)
  BY <1>2, <1>3, PullParts, MsgParts DEF IsHistory
<1>5. PICK h \in 1..Len(w[i].records) : w[i].records[h] = r
  BY <1>2, <1>4, InSeq
<1>6. CASE d = 1 /\ i = 1
  BY <1>2, <1>5, <1>6 DEF Shortened
<1>7. CASE ~(d = 1 /\ i = 1)
  <2>1. PICK g \in 1..Len(w2) : g + d = i /\ g <= j
    <3>1. i - d \in 1..Len(w2) /\ (i - d) + d = i /\ i - d <= j
      BY <1>1, <1>3, <1>7
    <3> QED BY <3>1
  <2>2. w2[g].type = w[i].type
    BY <2>1 DEF Shortened
  <2>3. PICK c \in Nat :
          /\ Len(w2[g].records) + c = Len(w[i].records)
          /\ \A k \in 1..Len(w2[g].records) : w2[g].records[k] = w[i].records[k + c]
          /\ \A k \in 1..c : w[i].records[k] \in H2
    BY <1>2, <2>1, <2>2 DEF Shortened, IsHistory
  <2>4. w2[g] \in Msg /\ w2[g].records \in Seq(Record)
    BY <1>2, <2>2, PullParts, MsgParts DEF IsHistory
  <2>5. CASE h <= c
    BY <1>5, <2>3, <2>5
  <2>6. CASE h > c
    <3>1. h - c \in 1..Len(w2[g].records) /\ (h - c) + c = h
      BY <1>4, <2>3, <2>4, <2>6
    <3>2. w2[g].records[h - c] = r
      BY <1>5, <2>3, <3>1
    <3>3. r \in ToSet(w2[g].records)
      BY <2>4, <3>1, <3>2, InSeq
    <3>4. g \in 1..j
      BY <2>1
    <3> QED BY <1>2, <2>2, <3>3, <3>4 DEF Carried, IsHistory
  <2> QED BY <1>4, <2>3, <2>5, <2>6
<1> QED BY <1>6, <1>7

(* What is true of a connection stays true when it is shortened.           *)
LEMMA PullShortened ==
  ASSUME NEW p \in PullState, NEW p2 \in PullState,
         NEW L \in Seq(Entries), NEW L2 \in Seq(Entries), Extends(L2, L),
         NEW H, NEW H2, H \subseteq H2, NEW d \in {0, 1},
         Shortened(p, p2, H2, d), PullOK(p, L, H)
  PROVE  PullOK(p2, L2, H2)
<1> DEFINE w == p.wire
           w2 == p2.wire
<1>1. Len(w) \in Nat /\ Len(w2) \in Nat /\ Len(w2) + d <= Len(w)
  BY PullParts DEF Shortened
<1>2. Len(L) \in Nat /\ Len(L2) \in Nat /\ Len(L) <= Len(L2)
  BY DEF Extends
<1>3. \A j \in 1..Len(w2) : j + d \in 1..Len(w) /\ j \in 0..Len(w2)
                            /\ w[j + d] \in Msg /\ w2[j] \in Msg
  <2>1. \A j \in 1..Len(w2) : j + d \in 1..Len(w) /\ j \in 0..Len(w2)
    BY <1>1
  <2> QED BY <2>1, PullParts
<1>4. ASSUME NEW j \in 0..Len(w2), NEW e \in Nat, Covers(L, H, w, j + d, e)
      PROVE  Covers(L2, H2, w2, j, e)
  <2>1. \A r : Carried(w, j + d, r) => Carried(w2, j, r) \/ r \in H2
    BY CarriedShift
  <2> QED BY <1>4, <2>1, CoversMore
<1>5. CursorsAreCovered(L2, H2, w2)
  <2> SUFFICES ASSUME NEW j \in 1..Len(w2), IsHistory(w2, j)
               PROVE  Covers(L2, H2, w2, j, w2[j].end)
    BY DEF CursorsAreCovered
  <2>1. IsHistory(w, j + d) /\ w2[j].end = w[j + d].end
    BY DEF Shortened, IsHistory
  <2>2. Covers(L, H, w, j + d, w2[j].end)
    BY <1>3, <2>1 DEF PullOK, CursorsAreCovered
  <2>3. w2[j].end \in Nat
    BY <1>3, MsgParts DEF IsHistory
  <2> QED BY <1>3, <1>4, <2>2, <2>3
<1>6. EarlierOnesFirst(L2, H2, w2)
  <2> SUFFICES ASSUME NEW j \in 1..Len(w2), IsHistory(w2, j),
                      NEW i \in 1..Len(w2[j].records)
               PROVE  /\ w2[j].records[i] \in Records(L2)
                      /\ \A k \in 1..(w2[j].records[i][2] - 1) :
                           LET q == <<w2[j].records[i][1], k>>
                           IN  \/ q \in H2 \/ Carried(w2, j - 1, q)
                               \/ \E h \in 1..(i - 1) : w2[j].records[h] = q
    BY DEF EarlierOnesFirst
  <2>1. IsHistory(w, j + d)
    BY DEF Shortened, IsHistory
  <2>2. PICK c \in Nat :
          /\ Len(w2[j].records) + c = Len(w[j + d].records)
          /\ \A h \in 1..Len(w2[j].records) :
               w2[j].records[h] = w[j + d].records[h + c]
          /\ \A h \in 1..c : w[j + d].records[h] \in H2
    BY DEF Shortened
  <2>3. w2[j].records \in Seq(Record) /\ w[j + d].records \in Seq(Record)
    BY <1>3, <2>1, MsgParts DEF IsHistory
  <2>4. Len(w2[j].records) \in Nat /\ Len(w[j + d].records) \in Nat
    <3>1. \A s \in Seq(Record) : Len(s) \in Nat
      BY LenProperties
    <3> QED BY ONLY <2>3, <3>1
  <2>5. i + c \in 1..Len(w[j + d].records)
        /\ w2[j].records[i] = w[j + d].records[i + c]
    <3>1. i + c \in 1..Len(w[j + d].records)
      BY ONLY <2>2, <2>4, ShiftedIndex, i \in 1..Len(w2[j].records)
    <3> QED BY <2>2, <3>1
  <2>6. PICK b \in 1..Len(w) : b = j + d
    BY <1>3
  <2>9. PICK a \in 1..Len(w[b].records) : a = i + c
    BY <2>5, <2>6
  <2>10. /\ w[b].records[a] \in Records(L)
         /\ \A k \in 1..(w[b].records[a][2] - 1) :
              LET q == <<w[b].records[a][1], k>>
              IN  \/ q \in H \/ Carried(w, b - 1, q)
                  \/ \E h \in 1..(a - 1) : w[b].records[h] = q
    BY <2>1, <2>6 DEF PullOK, EarlierOnesFirst
  <2>7. Records(L) \subseteq Records(L2)
    <3> SUFFICES ASSUME NEW r \in Records(L) PROVE r \in Records(L2)
      OBVIOUS
    <3>1. r # Torn /\ \E h \in 1..Len(L) : L[h] = r
      BY RecordsOf
    <3>2. \E h \in 1..Len(L2) : L2[h] = r
      BY <1>2, <3>1 DEF Extends
    <3> QED BY <3>1, <3>2, RecordsOf
  <2>8. ASSUME NEW q, \/ q \in H \/ Carried(w, b - 1, q)
                      \/ \E h \in 1..(a - 1) : w[b].records[h] = q
        PROVE  \/ q \in H2 \/ Carried(w2, j - 1, q)
               \/ \E h \in 1..(i - 1) : w2[j].records[h] = q
    <3>1. CASE q \in H
      BY <3>1
    <3>2. CASE Carried(w, b - 1, q)
      <4>1. b - 1 = (j - 1) + d /\ j - 1 \in 0..Len(w2)
        BY <1>1, <2>6
      <4> QED BY <3>2, <4>1, CarriedShift
    <3>3. ASSUME NEW h \in 1..(a - 1), w[b].records[h] = q
          PROVE  q \in H2 \/ \E g \in 1..(i - 1) : w2[j].records[g] = q
      <4>1. CASE h <= c
        BY <2>2, <2>6, <3>3, <4>1
      <4>2. CASE h > c
        <5>1. h - c \in 1..(i - 1) /\ h - c \in 1..Len(w2[j].records)
              /\ (h - c) + c = h
          BY <2>4, <2>9, <4>2
        <5> QED BY <2>2, <2>6, <3>3, <5>1
      <4> QED BY <4>1, <4>2
    <3> QED BY <2>8, <3>1, <3>2, <3>3
  <2> QED BY <2>5, <2>6, <2>7, <2>8, <2>9, <2>10
<1>7. CaughtUpIsLast(L2, H2, w2, p2.base, p2.fresh)
  <2> SUFFICES ASSUME NEW j \in 1..Len(w2), w2[j].type = "caught_up"
               PROVE  /\ p2.fresh \/ \E i \in 1..j : w2[i].type = "sms"
                      /\ Covers(L2, H2, w2, j, p2.base)
    BY DEF CaughtUpIsLast
  <2>1. w[j + d].type = "caught_up" /\ p2.base = p.base
    BY DEF Shortened
  <2>2. /\ p.fresh \/ \E i \in 1..(j + d) : w[i].type = "sms"
        /\ Covers(L, H, w, j + d, p.base)
    BY <1>3, <2>1 DEF PullOK, CaughtUpIsLast
  <2>3. Covers(L2, H2, w2, j, p2.base)
    BY <1>3, <1>4, <2>1, <2>2, PullParts
  <2>4. ASSUME NEW i \in 1..(j + d), w[i].type = "sms"
        PROVE  p2.fresh \/ \E h \in 1..j : w2[h].type = "sms"
    <3>1. CASE d = 1 /\ i = 1
      BY <2>4, <3>1 DEF Shortened
    <3>2. CASE ~(d = 1 /\ i = 1)
      <4>1. PICK g \in 1..j : g + d = i /\ g \in 1..Len(w2)
        <5>1. i - d \in 1..j /\ (i - d) + d = i /\ i - d \in 1..Len(w2)
          BY <1>1, <3>2
        <5> QED BY <5>1
      <4> QED BY <2>4, <4>1 DEF Shortened
    <3> QED BY <3>1, <3>2
  <2> QED BY <2>2, <2>3, <2>4 DEF Shortened
<1>8. p2.open => Covers(L2, H2, w2, Len(w2), p2.offset)
  BY <1>1, <1>4, PullParts DEF Shortened, PullOK
<1>9. p2.base <= Len(L2) /\ \A i \in 1..p2.base : L2[i] # Torn
  BY <1>2, PullParts DEF Shortened, PullOK, Extends
<1>10. ~p2.caughtUp => p2.sms = None
  BY DEF Shortened, PullOK
<1> QED BY <1>5, <1>6, <1>7, <1>8, <1>9, <1>10 DEF PullOK

(* A message sent does not change what the earlier ones carry.             *)
LEMMA CarriedBefore ==
  ASSUME NEW w \in Seq(Msg), NEW m \in Msg, NEW j \in 0..Len(w), NEW r
  PROVE  /\ Carried(Append(w, m), j, r) <=> Carried(w, j, r)
         /\ Carried(w, Len(w), r) => Carried(Append(w, m), Len(w) + 1, r)
<1>1. Len(w) \in Nat /\ \A i \in 1..Len(w) : Append(w, m)[i] = w[i]
  BY AppendProperties
<1>2. \A i \in 1..j : i \in 1..Len(w)
  BY <1>1
<1>3. \A i \in 1..Len(w) : i \in 1..(Len(w) + 1)
  BY <1>1
<1> QED BY <1>1, <1>2, <1>3 DEF Carried, IsHistory

(* What a message has to be for the connection to stay what it is.         *)
FitsBehind(m, p, p2, L, H) ==
  LET w == p.wire
      w2 == p2.wire
  IN  /\ m.type = "history" =>
           /\ Covers(L, H, w2, Len(w) + 1, m.end)
           /\ \A i \in 1..Len(m.records) :
                /\ m.records[i] \in Records(L)
                /\ \A k \in 1..(m.records[i][2] - 1) :
                     LET q == <<m.records[i][1], k>>
                     IN  \/ q \in H \/ Carried(w, Len(w), q)
                         \/ \E h \in 1..(i - 1) : m.records[h] = q
      /\ m.type = "caught_up" =>
           /\ p.fresh \/ \E i \in 1..Len(w) : w[i].type = "sms"
           /\ Covers(L, H, w2, Len(w) + 1, p.base)
      /\ p2.wire = Append(p.wire, m)
      /\ p2.base = p.base /\ p2.fresh = p.fresh
      /\ p2.open => Covers(L, H, w2, Len(w) + 1, p2.offset)
      /\ ~p2.caughtUp => p2.sms = None

(* The Active side sends a message that fits.                              *)
LEMMA PullLengthened ==
  ASSUME NEW p \in PullState, NEW p2 \in PullState, NEW L \in Seq(Entries),
         NEW H, NEW m \in Msg, FitsBehind(m, p, p2, L, H), PullOK(p, L, H)
  PROVE  PullOK(p2, L, H)
<1> DEFINE w == p.wire
           w2 == p2.wire
<1>1. /\ w \in Seq(Msg) /\ Len(w) \in Nat /\ w2 = Append(w, m)
      /\ Len(w2) = Len(w) + 1 /\ w2[Len(w) + 1] = m
      /\ \A i \in 1..Len(w) : w2[i] = w[i]
  BY PullParts, AppendProperties DEF FitsBehind
<1>2. \A j \in 1..Len(w2) : j \in 1..Len(w) \/ j = Len(w) + 1
  BY <1>1
<1>3. \A j \in 0..Len(w) : \A r : Carried(w2, j, r) <=> Carried(w, j, r)
  BY <1>1, CarriedBefore
<1>4. ASSUME NEW j \in 1..Len(w), NEW e, Covers(L, H, w, j, e)
      PROVE  Covers(L, H, w2, j, e)
  <2>1. j \in 0..Len(w)
    BY <1>1
  <2> QED BY <1>3, <1>4, <2>1 DEF Covers
<1>5. CursorsAreCovered(L, H, w2)
  <2> SUFFICES ASSUME NEW j \in 1..Len(w2), IsHistory(w2, j)
               PROVE  Covers(L, H, w2, j, w2[j].end)
    BY DEF CursorsAreCovered
  <2>1. CASE j \in 1..Len(w)
    BY <1>1, <1>4, <2>1 DEF PullOK, CursorsAreCovered, IsHistory
  <2>2. CASE j = Len(w) + 1
    BY <1>1, <2>2 DEF FitsBehind, IsHistory
  <2> QED BY <1>2, <2>1, <2>2
<1>6. EarlierOnesFirst(L, H, w2)
  <2> SUFFICES ASSUME NEW j \in 1..Len(w2), IsHistory(w2, j),
                      NEW i \in 1..Len(w2[j].records)
               PROVE  /\ w2[j].records[i] \in Records(L)
                      /\ \A k \in 1..(w2[j].records[i][2] - 1) :
                           LET q == <<w2[j].records[i][1], k>>
                           IN  \/ q \in H \/ Carried(w2, j - 1, q)
                               \/ \E h \in 1..(i - 1) : w2[j].records[h] = q
    BY DEF EarlierOnesFirst
  <2>1. CASE j \in 1..Len(w)
    <3>1. j - 1 \in 0..Len(w) /\ w2[j] = w[j] /\ IsHistory(w, j)
      BY <1>1, <2>1 DEF IsHistory
    <3>2. /\ w[j].records[i] \in Records(L)
          /\ \A k \in 1..(w[j].records[i][2] - 1) :
               LET q == <<w[j].records[i][1], k>>
               IN  \/ q \in H \/ Carried(w, j - 1, q)
                   \/ \E h \in 1..(i - 1) : w[j].records[h] = q
      BY <2>1, <3>1 DEF PullOK, EarlierOnesFirst
    <3>3. \A q : Carried(w2, j - 1, q) <=> Carried(w, j - 1, q)
      BY <1>3, <3>1
    <3> QED BY <3>1, <3>2, <3>3
  <2>2. CASE j = Len(w) + 1
    <3>1. w2[j] = m /\ m.type = "history" /\ j - 1 = Len(w) /\ Len(w) \in 0..Len(w)
      BY <1>1, <2>2 DEF IsHistory
    <3>2. \A q : Carried(w2, Len(w), q) <=> Carried(w, Len(w), q)
      BY <1>3, <3>1
    <3> QED BY <3>1, <3>2 DEF FitsBehind
  <2> QED BY <1>2, <2>1, <2>2
<1>7. CaughtUpIsLast(L, H, w2, p2.base, p2.fresh)
  <2> SUFFICES ASSUME NEW j \in 1..Len(w2), w2[j].type = "caught_up"
               PROVE  /\ p2.fresh \/ \E i \in 1..j : w2[i].type = "sms"
                      /\ Covers(L, H, w2, j, p2.base)
    BY DEF CaughtUpIsLast
  <2>1. \A i \in 1..Len(w) : i \in 1..(Len(w) + 1)
    BY <1>1
  <2>2. CASE j \in 1..Len(w)
    <3>1. \A i \in 1..j : i \in 1..Len(w)
      BY <1>1, <2>2
    <3> QED BY <1>1, <1>4, <2>2, <3>1 DEF PullOK, CaughtUpIsLast, FitsBehind
  <2>3. CASE j = Len(w) + 1
    <3>1. p.fresh \/ \E i \in 1..Len(w) : w[i].type = "sms"
      BY <1>1, <2>3 DEF FitsBehind
    <3>2. Covers(L, H, w2, j, p.base)
      BY <1>1, <2>3 DEF FitsBehind
    <3> QED BY <1>1, <2>1, <2>3, <3>1, <3>2 DEF FitsBehind
  <2> QED BY <1>2, <2>2, <2>3
<1> QED BY <1>1, <1>5, <1>6, <1>7 DEF PullOK, FitsBehind

(* What is covered stays covered when a message is sent.                   *)
LEMMA CoveredBehind ==
  ASSUME NEW w \in Seq(Msg), NEW m \in Msg, NEW L, NEW H, NEW e,
         Covers(L, H, w, Len(w), e)
  PROVE  Covers(L, H, Append(w, m), Len(w) + 1, e)
<1>1. Len(w) \in 0..Len(w)
  OBVIOUS
<1> QED BY <1>1, CarriedBefore DEF Covers

(* History fits if it is what follows in the log.                          *)
LEMMA HistoryFits ==
  ASSUME NEW p \in PullState, NEW p2 \in PullState, NEW L \in Seq(Entries),
         NEW H, NEW m \in Msg, PullOK(p, L, H), InOrder(L), p.open,
         m.type = "history", m.end <= Len(L), m.end = p.offset + Len(m.records),
         \A i \in 1..Len(m.records) :
           m.records[i] = L[p.offset + i] /\ m.records[i] # Torn,
         p2.wire = Append(p.wire, m), p2.offset = m.end,
         p2.base = p.base, p2.fresh = p.fresh,
         p2.caughtUp = p.caughtUp, p2.sms = p.sms
  PROVE  FitsBehind(m, p, p2, L, H)
<1> DEFINE w == p.wire
           w2 == p2.wire
           o == p.offset
<1>1. /\ w \in Seq(Msg) /\ Len(w) \in Nat /\ o \in Nat
      /\ w2[Len(w) + 1] = m /\ Len(w) + 1 \in 1..(Len(w) + 1)
      /\ m.records \in Seq(Record) /\ Len(m.records) \in Nat
      /\ m.end \in Nat /\ Len(L) \in Nat
  BY PullParts, MsgParts, AppendProperties
<1>2. Covers(L, H, w2, Len(w) + 1, o)
  BY <1>1, CoveredBehind DEF PullOK
<1>3. \A i \in 1..Len(m.records) : Carried(w2, Len(w) + 1, m.records[i])
  <2>1. \A i \in 1..Len(m.records) : m.records[i] \in ToSet(m.records)
    BY <1>1, InSeq
  <2>2. IsHistory(w2, Len(w) + 1)
    BY <1>1 DEF IsHistory
  <2> QED BY ONLY <1>1, <2>1, <2>2 DEF Carried
<1>4. ASSUME NEW e \in 1..m.end
      PROVE  L[e] # Torn /\ (L[e] \in H \/ Carried(w2, Len(w) + 1, L[e]))
  <2>1. CASE e <= o
    BY <1>1, <1>2, <2>1 DEF Covers
  <2>2. CASE e > o
    <3>1. PICK i \in 1..Len(m.records) : o + i = e
      <4>1. e - o \in 1..Len(m.records) /\ o + (e - o) = e
        BY <1>1, <2>2
      <4> QED BY <4>1
    <3> QED BY <1>3, <3>1
  <2> QED BY <1>1, <2>1, <2>2
<1>5. Covers(L, H, w2, Len(w) + 1, m.end)
  BY <1>4 DEF Covers
<1>6. ASSUME NEW i \in 1..Len(m.records)
      PROVE  /\ m.records[i] \in Records(L)
             /\ \A k \in 1..(m.records[i][2] - 1) :
                  LET q == <<m.records[i][1], k>>
                  IN  \/ q \in H \/ Carried(w, Len(w), q)
                      \/ \E h \in 1..(i - 1) : m.records[h] = q
  <2>1. PICK e \in 1..Len(L) : e = o + i
    BY <1>1
  <2>2. L[e] = m.records[i] /\ L[e] # Torn
    BY <2>1
  <2>3. m.records[i] \in Records(L)
    BY <2>2, RecordsOf
  <2>4. Whole(L, e)
    <3>1. \A g \in 1..e : g \in 1..m.end
      BY <1>1, <2>1
    <3> QED BY <1>4, <3>1 DEF Whole
  <2>5. ASSUME NEW k \in 1..(m.records[i][2] - 1)
        PROVE  LET q == <<m.records[i][1], k>>
               IN  \/ q \in H \/ Carried(w, Len(w), q)
                   \/ \E h \in 1..(i - 1) : m.records[h] = q
    <3> DEFINE q == <<m.records[i][1], k>>
    <3>1. \A c \in 1..(L[e][2] - 1) : \E g \in 1..(e - 1) : L[g] = <<L[e][1], c>>
      BY <2>4 DEF InOrder
    <3>2. PICK g \in 1..(e - 1) : L[g] = q
      BY ONLY <2>2, <3>1, k \in 1..(m.records[i][2] - 1)
    <3>3. g \in Nat /\ g >= 1 /\ g < o + i /\ o \in Nat /\ i \in Nat
          /\ i <= Len(m.records) /\ Len(m.records) \in Nat
      <4>1. o \in Nat /\ Len(m.records) \in Nat /\ e = o + i
        BY ONLY <1>1, <2>1
      <4> QED BY ONLY <4>1, g \in 1..(e - 1), i \in 1..Len(m.records)
    <3>4. CASE g <= o
      <4>1. g \in 1..o
        BY ONLY <3>3, <3>4
      <4> QED BY <3>2, <4>1 DEF PullOK, Covers
    <3>5. CASE g > o
      <4>1. PICK h \in 1..(i - 1) : o + h = g /\ h \in 1..Len(m.records)
        BY ONLY <3>3, <3>5, IndexBehind
      <4>2. m.records[h] = q
        BY <3>2, <4>1
      <4> QED BY <4>2
    <3>6. g <= o \/ g > o
      BY ONLY <3>3
    <3> QED BY ONLY <3>4, <3>5, <3>6
  <2> QED BY <2>3, <2>5
<1> QED BY <1>5, <1>6 DEF FitsBehind, PullOK

(* The queue fits at any time, and "caught up" once the queue is sent and  *)
(* the log has been sent as far as it went.                                *)
LEMMA RestFits ==
  ASSUME NEW p \in PullState, NEW p2 \in PullState, NEW L \in Seq(Entries),
         NEW H, NEW m \in Msg, PullOK(p, L, H), p.open,
         \/ m.type = "sms"
         \/ /\ m.type = "caught_up" /\ p.base <= p.offset
            /\ p.fresh \/ \E i \in 1..Len(p.wire) : p.wire[i].type = "sms",
         p2.wire = Append(p.wire, m), p2.offset = p.offset,
         p2.base = p.base, p2.fresh = p.fresh, p2.caughtUp
  PROVE  FitsBehind(m, p, p2, L, H)
<1>1. /\ p.wire \in Seq(Msg) /\ p.offset \in Nat /\ p.base \in Nat
      /\ Len(L) \in Nat
  BY PullParts
<1>2. Covers(L, H, p2.wire, Len(p.wire) + 1, p.offset)
  BY <1>1, CoveredBehind DEF PullOK
<1>3. p.base <= p.offset => Covers(L, H, p2.wire, Len(p.wire) + 1, p.base)
  BY <1>1, <1>2 DEF Covers
<1> QED BY <1>2, <1>3 DEF FitsBehind

-----------------------------------------------------------------------------
(* Updates of the two ends.                                                *)

(* An update of some parts leaves the others.                              *)
SameBut(p, p2) ==
  /\ p2 \in PullState /\ p2 # None
  /\ p2.base = p.base /\ p2.offset = p.offset
  /\ p2.caughtUp = p.caughtUp /\ p2.sms = p.sms

(* The pull outlives a take-over.                                          *)
LEMMA OutlivedPull ==
  ASSUME NEW p \in PullState
  PROVE  LET p2 == [p EXCEPT !.outlived = TRUE]
         IN  /\ SameBut(p, p2) /\ p2.wire = p.wire /\ p2.open = p.open
             /\ p2.fresh = p.fresh
BY HaReplicaNoneAssumption DEF PullState, SameBut

(* The connection is closed.                                               *)
LEMMA ClosedPull ==
  ASSUME NEW p \in PullState
  PROVE  LET p2 == [p EXCEPT !.open = FALSE]
         IN  /\ SameBut(p, p2) /\ p2.wire = p.wire /\ ~p2.open
             /\ p2.fresh = p.fresh
BY HaReplicaNoneAssumption DEF PullState, SameBut

(* The messages under way change.                                          *)
LEMMA NewWire ==
  ASSUME NEW p \in PullState, NEW w \in Seq(Msg)
  PROVE  LET p2 == [p EXCEPT !.wire = w]
         IN  /\ SameBut(p, p2) /\ p2.wire = w /\ p2.open = p.open
             /\ p2.fresh = p.fresh
BY HaReplicaNoneAssumption DEF PullState, SameBut

(* The connection is closed and the messages under way change.             *)
LEMMA ClosedWire ==
  ASSUME NEW p \in PullState, NEW w \in Seq(Msg)
  PROVE  LET p2 == [p EXCEPT !.open = FALSE, !.wire = w]
         IN  SameBut(p, p2) /\ p2.wire = w /\ ~p2.open /\ p2.fresh = p.fresh
BY HaReplicaNoneAssumption DEF PullState, SameBut

(* The queue has been imported.                                            *)
LEMMA FreshPull ==
  ASSUME NEW p \in PullState
  PROVE  LET p2 == [p EXCEPT !.fresh = TRUE]
         IN  SameBut(p, p2) /\ p2.wire = p.wire /\ p2.open = p.open /\ p2.fresh
BY HaReplicaNoneAssumption DEF PullState, SameBut

(* A connection on which nothing is taken off is shortened by nothing.     *)
LEMMA NothingGone ==
  ASSUME NEW p \in PullState, NEW p2 \in PullState, NEW H2,
         p2.wire = p.wire, SameBut(p, p2), p.fresh => p2.fresh, p2.open => p.open
  PROVE  Shortened(p, p2, H2, 0)
<1>1. /\ Len(p.wire) \in Nat
      /\ \A j \in 1..Len(p.wire) : j + 0 = j /\ p.wire[j] \in Msg
  BY PullParts
<1>2. ASSUME NEW j \in 1..Len(p.wire), IsHistory(p.wire, j)
      PROVE  \E c \in Nat :
               /\ Len(p.wire[j].records) + c = Len(p.wire[j].records)
               /\ \A i \in 1..Len(p.wire[j].records) :
                    p.wire[j].records[i] = p.wire[j].records[i + c]
               /\ \A i \in 1..c : p.wire[j].records[i] \in H2
  <2>1. Len(p.wire[j].records) \in Nat
    BY <1>1, <1>2, MsgParts DEF IsHistory
  <2>2. \A i \in 1..Len(p.wire[j].records) : i + 0 = i
    OBVIOUS
  <2>3. Len(p.wire[j].records) + 0 = Len(p.wire[j].records) /\ 1..0 = {} /\ 0 \in Nat
    BY <2>1
  <2> QED BY <2>2, <2>3
<1> QED BY <1>1, <1>2 DEF Shortened, SameBut

(* What was sent last may be lost with the connection.                     *)
LEMMA EndGone ==
  ASSUME NEW p \in PullState, NEW p2 \in PullState, NEW H2,
         NEW k \in 0..Len(p.wire), p2.wire = SubSeq(p.wire, 1, k),
         SameBut(p, p2), p2.fresh = p.fresh, ~p2.open
  PROVE  Shortened(p, p2, H2, 0)
<1>1. /\ Len(p.wire) \in Nat /\ p.wire \in Seq(Msg) /\ Len(p2.wire) = k
      /\ \A j \in 1..k : /\ j + 0 = j /\ j \in 1..Len(p.wire)
                         /\ p2.wire[j] = p.wire[j] /\ p.wire[j] \in Msg
  BY PullParts
<1>2. ASSUME NEW j \in 1..k, IsHistory(p.wire, j)
      PROVE  \E c \in Nat :
               /\ Len(p.wire[j].records) + c = Len(p.wire[j].records)
               /\ \A i \in 1..Len(p.wire[j].records) :
                    p.wire[j].records[i] = p.wire[j].records[i + c]
               /\ \A i \in 1..c : p.wire[j].records[i] \in H2
  <2>1. Len(p.wire[j].records) \in Nat
    BY <1>1, <1>2, MsgParts DEF IsHistory
  <2>2. \A i \in 1..Len(p.wire[j].records) : i + 0 = i
    OBVIOUS
  <2>3. Len(p.wire[j].records) + 0 = Len(p.wire[j].records) /\ 1..0 = {} /\ 0 \in Nat
    BY <2>1
  <2> QED BY <2>2, <2>3
<1>3. ASSUME NEW j \in 1..k
      PROVE  /\ p2.wire[j].type = p.wire[j + 0].type
             /\ IsHistory(p2.wire, j) =>
                  /\ p2.wire[j].end = p.wire[j + 0].end
                  /\ \E c \in Nat :
                       /\ Len(p2.wire[j].records) + c = Len(p.wire[j + 0].records)
                       /\ \A i \in 1..Len(p2.wire[j].records) :
                            p2.wire[j].records[i] = p.wire[j + 0].records[i + c]
                       /\ \A i \in 1..c : p.wire[j + 0].records[i] \in H2
  BY <1>1, <1>2 DEF IsHistory
<1>4. Len(p2.wire) + 0 <= Len(p.wire)
  BY <1>1
<1> QED BY <1>1, <1>3, <1>4 DEF Shortened, SameBut

(* The first message is done with.                                         *)
LEMMA HeadGone ==
  ASSUME NEW p \in PullState, NEW p2 \in PullState, NEW H2,
         p.wire # <<>>, p2.wire = Tail(p.wire),
         Head(p.wire).type = "history" => Head(p.wire).records = <<>>,
         Head(p.wire).type = "sms" => p2.fresh,
         SameBut(p, p2), p.fresh => p2.fresh, p2.open => p.open
  PROVE  Shortened(p, p2, H2, 1)
<1> DEFINE w == p.wire
           w2 == p2.wire
<1>1. /\ Len(w) \in Nat /\ w \in Seq(Msg) /\ Len(w2) = Len(w) - 1 /\ Len(w2) \in Nat
      /\ \A j \in 1..Len(w2) : w2[j] = w[j + 1]
      /\ w[1] = Head(w)
  BY PullParts
<1>2. ASSUME NEW j \in 1..Len(w2), IsHistory(w2, j)
      PROVE  \E c \in Nat :
               /\ Len(w2[j].records) + c = Len(w[j + 1].records)
               /\ \A i \in 1..Len(w2[j].records) :
                    w2[j].records[i] = w[j + 1].records[i + c]
               /\ \A i \in 1..c : w[j + 1].records[i] \in H2
  <2>1. Len(w2[j].records) \in Nat /\ w2[j].records = w[j + 1].records
    BY <1>1, <1>2, PullParts, MsgParts DEF IsHistory
  <2>2. \A i \in 1..Len(w2[j].records) : i + 0 = i
    OBVIOUS
  <2>3. Len(w2[j].records) + 0 = Len(w[j + 1].records) /\ 1..0 = {} /\ 0 \in Nat
    BY <2>1
  <2> QED BY <2>1, <2>2, <2>3
<1>3. Len(<<>>) = 0 /\ 1..0 = {}
  OBVIOUS
<1>4. IsHistory(w, 1) => \A i \in 1..Len(w[1].records) : w[1].records[i] \in H2
  BY <1>1, <1>3 DEF IsHistory
<1>5. Len(w2) + 1 = Len(w)
  BY <1>1
<1>6. \A j \in 1..Len(w2) : w2[j].type = w[j + 1].type /\ w2[j].end = w[j + 1].end
  BY <1>1
<1> QED BY <1>1, <1>2, <1>4, <1>5, <1>6 DEF Shortened, SameBut

(* A message without its first record.                                     *)
LEMMA RecordTaken ==
  ASSUME NEW w \in Seq(Msg), w # <<>>, Head(w).type = "history",
         Head(w).records # <<>>
  PROVE  LET w2 == [w EXCEPT ![1].records = Tail(@)]
         IN  /\ w2 \in Seq(Msg) /\ Len(w2) = Len(w)
             /\ w2[1].type = "history" /\ w2[1].end = w[1].end
             /\ w2[1].records = Tail(w[1].records)
             /\ \A j \in 1..Len(w) : j # 1 => w2[j] = w[j]
<1> DEFINE m == [w[1] EXCEPT !.records = Tail(w[1].records)]
<1>1. /\ 1 \in 1..Len(w) /\ w[1] \in Msg /\ w[1].type = "history"
      /\ w[1].records # <<>>
  OBVIOUS
<1>2. w[1].records \in Seq(Record) /\ w[1].end \in Nat
  BY <1>1, MsgParts
<1>3. Tail(w[1].records) \in Seq(Record)
  BY <1>1, <1>2, HeadTailProperties
<1>4. w[1] \in [type : {"history"}, records : Seq(Record), end : Nat]
  BY <1>1 DEF Msg
<1>5. /\ m \in Msg /\ m.type = "history" /\ m.end = w[1].end
      /\ m.records = Tail(w[1].records)
  BY <1>3, <1>4 DEF Msg
<1>6. [w EXCEPT ![1].records = Tail(@)] = [w EXCEPT ![1] = m]
  OBVIOUS
<1> HIDE DEF m
<1>7. /\ [w EXCEPT ![1] = m] \in Seq(Msg)
      /\ Len([w EXCEPT ![1] = m]) = Len(w)
      /\ \A j \in 1..Len(w) : [w EXCEPT ![1] = m][j] = IF j = 1 THEN m ELSE w[j]
  BY <1>1, <1>5, ExceptSeq
<1> QED BY <1>1, <1>5, <1>6, <1>7

(* The first record is in the log by now.                                  *)
LEMMA RecordGone ==
  ASSUME NEW p \in PullState, NEW p2 \in PullState, NEW H2,
         p.wire # <<>>, Head(p.wire).type = "history",
         Head(p.wire).records # <<>>, Head(Head(p.wire).records) \in H2,
         p2.wire = [p.wire EXCEPT ![1].records = Tail(@)],
         SameBut(p, p2), p2.fresh = p.fresh, p2.open = p.open
  PROVE  Shortened(p, p2, H2, 0)
<1> DEFINE w == p.wire
           w2 == p2.wire
           s == w[1].records
<1>1. /\ w \in Seq(Msg) /\ Len(w) \in Nat /\ Len(w2) = Len(w)
      /\ w2[1].type = w[1].type /\ w2[1].end = w[1].end /\ w[1] = Head(w)
      /\ w2[1].records = Tail(s) /\ \A j \in 1..Len(w) : j # 1 => w2[j] = w[j]
      /\ s \in Seq(Record) /\ s # <<>> /\ Head(s) \in H2
  BY PullParts, RecordTaken, MsgParts
<1>2. /\ Len(Tail(s)) + 1 = Len(s) /\ s[1] = Head(s)
      /\ \A i \in 1..Len(Tail(s)) : Tail(s)[i] = s[i + 1]
  BY <1>1
<1>3. ASSUME NEW j \in 1..Len(w2), IsHistory(w2, j)
      PROVE  \E c \in Nat :
               /\ Len(w2[j].records) + c = Len(w[j].records)
               /\ \A i \in 1..Len(w2[j].records) : w2[j].records[i] = w[j].records[i + c]
               /\ \A i \in 1..c : w[j].records[i] \in H2
  <2>1. CASE j = 1
    <3>1. \A i \in 1..1 : i = 1
      OBVIOUS
    <3> QED BY <1>1, <1>2, <2>1, <3>1
  <2>2. CASE j # 1
    <3>1. Len(w[j].records) \in Nat /\ w2[j].records = w[j].records
      BY <1>1, <1>3, <2>2, PullParts, MsgParts DEF IsHistory
    <3>2. \A i \in 1..Len(w[j].records) : i + 0 = i
      OBVIOUS
    <3>3. Len(w[j].records) + 0 = Len(w[j].records) /\ 1..0 = {} /\ 0 \in Nat
      BY <3>1
    <3> QED BY <3>1, <3>2, <3>3
  <2> QED BY <2>1, <2>2
<1>4. \A j \in 1..Len(w2) : j + 0 = j
  BY <1>1
<1>5. \A j \in 1..Len(w2) : w2[j].type = w[j].type /\ (IsHistory(w2, j) => w2[j].end = w[j].end)
  BY <1>1
<1> DEFINE Rest(j, g) ==
      /\ w2[j].type = w[g].type
      /\ IsHistory(w2, j) =>
           /\ w2[j].end = w[g].end
           /\ \E c \in Nat :
                /\ Len(w2[j].records) + c = Len(w[g].records)
                /\ \A i \in 1..Len(w2[j].records) : w2[j].records[i] = w[g].records[i + c]
                /\ \A i \in 1..c : w[g].records[i] \in H2
<1>6. \A j \in 1..Len(w2) : Rest(j, j)
  BY <1>3, <1>5
<1>7. \A j \in 1..Len(w2) : Rest(j, j + 0)
  <2> HIDE DEF Rest
  <2> QED BY <1>4, <1>6
<1>8. Len(w2) + 0 <= Len(w) /\ Len(w2) + 0 = Len(w)
  BY <1>1
<1>9. \A j \in 1..Len(w2) :
        /\ w2[j].type = w[j + 0].type
        /\ IsHistory(w2, j) =>
             /\ w2[j].end = w[j + 0].end
             /\ \E c \in Nat :
                  /\ Len(w2[j].records) + c = Len(w[j + 0].records)
                  /\ \A i \in 1..Len(w2[j].records) :
                       w2[j].records[i] = w[j + 0].records[i + c]
                  /\ \A i \in 1..c : w[j + 0].records[i] \in H2
  BY <1>7, Zenon
<1> HIDE DEF Rest
<1>10. 0 # 1
  OBVIOUS
<1>11. p.open <=> p2.open
  OBVIOUS
<1> QED BY <1>8, <1>9, <1>10, <1>11, ZenonT(30) DEF Shortened, SameBut

-----------------------------------------------------------------------------
(* Steps that leave the logs as they are, or make them grow.               *)

Grown ==
  \A n \in Node : /\ log'[n] \in Seq(Entries) /\ Extends(log'[n], log[n])
                  /\ Records(log[n]) \subseteq Records(log'[n])

CursorOK(n) ==
  /\ cursor[n] <= Len(log[Peer(n)])
  /\ \A i \in 1..cursor[n] : log[Peer(n)][i] \in Records(log[n])

PullAtOK(n) ==
  pull[n] # None => PullOK(pull[n], log[Peer(n)], Records(log[n]))

SyncedOK(n) ==
  synced[n] =>
    /\ pull[n] # None
    /\ pull[n].fresh
    /\ \A i \in 1..pull[n].base : log[Peer(n)][i] \in Records(log[n])

(* The copying invariants are about one node at a time.                    *)
LEMMA CopiesByNode ==
  /\ NothingSkipped <=> \A n \in Node : CursorOK(n)
  /\ PullsOK <=> \A n \in Node : PullAtOK(n)
  /\ SyncedIsCopied <=> \A n \in Node : SyncedOK(n)
BY DEF NothingSkipped, PullsOK, SyncedIsCopied, CursorOK, PullAtOK, SyncedOK

(* Logs that stay as they are grow by nothing.                             *)
LEMMA SameLogs ==
  ASSUME TypesOK, UNCHANGED log
  PROVE  Grown
<1>1. \A n \in Node : log[n] \in Seq(Entries) /\ Len(log[n]) \in Nat
  BY DEF TypesOK, Entries
<1> QED BY <1>1 DEF Grown, Extends

(* A log that gets an entry grows.                                         *)
LEMMA LongerLog ==
  ASSUME TypesOK, NEW n \in Node, NEW e \in Entries,
         log' = [log EXCEPT ![n] = Append(@, e)]
  PROVE  /\ Grown /\ log' \in [Node -> Seq(Entries)]
         /\ log'[n] = Append(log[n], e)
         /\ \A m \in Node : m # n => log'[m] = log[m]
<1>1. /\ log \in [Node -> Seq(Entries)]
      /\ \A m \in Node : log[m] \in Seq(Entries) /\ Len(log[m]) \in Nat
  BY DEF TypesOK, Entries
<1>2. /\ log'[n] = Append(log[n], e)
      /\ \A m \in Node : m # n => log'[m] = log[m]
  BY <1>1
<1>3. /\ Append(log[n], e) \in Seq(Entries)
      /\ Len(Append(log[n], e)) = Len(log[n]) + 1
      /\ \A i \in 1..Len(log[n]) : Append(log[n], e)[i] = log[n][i]
      /\ Records(log[n]) \subseteq Records(Append(log[n], e))
  BY <1>1, Appended
<1>4. \A m \in Node : /\ log'[m] \in Seq(Entries) /\ Len(log[m]) <= Len(log'[m])
                      /\ \A i \in 1..Len(log[m]) : log'[m][i] = log[m][i]
                      /\ Records(log[m]) \subseteq Records(log'[m])
  <2> TAKE m \in Node
  <2>1. CASE m = n
    BY <1>1, <1>2, <1>3, <2>1
  <2>2. CASE m # n
    BY <1>1, <1>2, <2>2
  <2> QED BY <2>1, <2>2
<1> QED BY <1>1, <1>2, <1>3, <1>4 DEF Grown, Extends

(* What has been copied stays copied.                                      *)
LEMMA CopiedStays ==
  ASSUME TypesOK, Grown, NEW n \in Node, NEW e \in Nat,
         e <= Len(log[Peer(n)]),
         \A i \in 1..e : log[Peer(n)][i] \in Records(log[n])
  PROVE  /\ e <= Len(log'[Peer(n)])
         /\ \A i \in 1..e : log'[Peer(n)][i] \in Records(log'[n])
<1>1. Peer(n) \in Node /\ log[Peer(n)] \in Seq(Entries)
      /\ log'[Peer(n)] \in Seq(Entries)
  BY Peers DEF TypesOK, Entries, Grown
<1>2. Len(log[Peer(n)]) \in Nat /\ Len(log'[Peer(n)]) \in Nat
  BY <1>1
<1>3. /\ Len(log[Peer(n)]) <= Len(log'[Peer(n)])
      /\ \A i \in 1..Len(log[Peer(n)]) : log'[Peer(n)][i] = log[Peer(n)][i]
      /\ Records(log[n]) \subseteq Records(log'[n])
  BY <1>1 DEF Grown, Extends
<1>4. \A i \in 1..e : i \in 1..Len(log[Peer(n)])
  BY <1>2
<1>5. e <= Len(log'[Peer(n)])
  BY <1>2, <1>3
<1> QED BY <1>3, <1>4, <1>5

(* A cursor that stays where it is skips nothing.                          *)
LEMMA CursorKept ==
  ASSUME IInv, Grown, NEW n \in Node, cursor'[n] = cursor[n]
  PROVE  CursorOK(n)'
BY CopiedStays, CopiesByNode DEF IInv, CursorOK, TypesOK

(* A pull goes on, a bit further, or ends.                                 *)
KeptPull(n) ==
  \/ pull'[n] = None /\ ~synced'[n]
  \/ /\ pull[n] # None /\ pull'[n] # None /\ pull'[n] \in PullState
     /\ \E d \in {0, 1} : Shortened(pull[n], pull'[n], Records(log'[n]), d)
     /\ synced'[n] => synced[n]

(* Such a pull stays what it is.                                           *)
LEMMA PullKept ==
  ASSUME IInv, Grown, NEW n \in Node, KeptPull(n)
  PROVE  PullAtOK(n)' /\ SyncedOK(n)'
<1> DEFINE P == Peer(n)
<1>1. CASE pull'[n] = None /\ ~synced'[n]
  BY <1>1 DEF PullAtOK, SyncedOK
<1>2. CASE /\ pull[n] # None /\ pull'[n] # None /\ pull'[n] \in PullState
           /\ \E d \in {0, 1} : Shortened(pull[n], pull'[n], Records(log'[n]), d)
           /\ synced'[n] => synced[n]
  <2>1. /\ pull[n] \in PullState /\ P \in Node /\ P # n
        /\ log[P] \in Seq(Entries) /\ log'[P] \in Seq(Entries)
        /\ Extends(log'[P], log[P]) /\ Records(log[n]) \subseteq Records(log'[n])
    BY <1>2, Peers DEF IInv, TypesOK, Entries, Grown
  <2>2. PullOK(pull[n], log[P], Records(log[n]))
    BY <1>2 DEF IInv, PullsOK
  <2>3. PICK d \in {0, 1} : Shortened(pull[n], pull'[n], Records(log'[n]), d)
    BY <1>2
  <2>4. PullOK(pull'[n], log'[P], Records(log'[n]))
    BY <1>2, <2>1, <2>2, <2>3, PullShortened
  <2>5. PullAtOK(n)'
    BY <2>4 DEF PullAtOK
  <2>6. SyncedOK(n)'
    <3> SUFFICES ASSUME synced'[n]
                 PROVE  /\ pull'[n] # None /\ pull'[n].fresh
                        /\ \A i \in 1..pull'[n].base :
                             log'[P][i] \in Records(log'[n])
      BY DEF SyncedOK
    <3>1. /\ pull[n].fresh
          /\ \A i \in 1..pull[n].base : log[P][i] \in Records(log[n])
      BY <1>2 DEF IInv, SyncedIsCopied
    <3>2. pull'[n].fresh /\ pull'[n].base = pull[n].base
      BY <2>3, <3>1 DEF Shortened
    <3>3. pull[n].base \in Nat /\ pull[n].base <= Len(log[P])
      BY <2>1, <2>2, PullParts DEF PullOK
    <3>4. \A i \in 1..pull[n].base : log'[P][i] \in Records(log'[n])
      BY <3>1, <3>3, CopiedStays DEF IInv
    <3> QED BY <1>2, <3>2, <3>4
  <2> QED BY <2>5, <2>6
<1> QED BY <1>1, <1>2 DEF KeptPull

(* A pull that nothing happens to is kept.                                 *)
LEMMA SamePull ==
  ASSUME IInv, NEW n \in Node, pull'[n] = pull[n], synced'[n] = synced[n]
  PROVE  KeptPull(n)
<1>1. CASE pull[n] = None
  BY <1>1 DEF KeptPull, IInv, SyncedIsCopied
<1>2. CASE pull[n] # None
  <2>1. pull[n] \in PullState
    BY <1>2 DEF IInv, TypesOK
  <2>2. SameBut(pull[n], pull[n])
    BY <1>2, <2>1 DEF SameBut
  <2>3. Shortened(pull[n], pull[n], Records(log'[n]), 0)
    BY <2>1, <2>2, NothingGone
  <2> QED BY <1>2, <2>1, <2>3 DEF KeptPull
<1> QED BY <1>1, <1>2

-----------------------------------------------------------------------------
(* The history of one node.                                                *)

(* An entry that follows on keeps the order, and so does any behind a torn *)
(* one.                                                                    *)
LEMMA InOrderAppend ==
  ASSUME NEW s \in Seq(Entries), InOrder(s), NEW e \in Entries,
         e # Torn /\ Whole(s, Len(s)) =>
           /\ e \notin Records(s)
           /\ \A k \in 1..(e[2] - 1) : <<e[1], k>> \in Records(s)
  PROVE  InOrder(Append(s, e))
<1> DEFINE t == Append(s, e)
<1>1. /\ Len(s) \in Nat /\ Len(t) = Len(s) + 1 /\ t[Len(s) + 1] = e
      /\ \A i \in 1..Len(s) : t[i] = s[i]
  BY Appended
<1> HIDE DEF t
<1> SUFFICES ASSUME NEW p \in 1..Len(t), Whole(t, p)
             PROVE  /\ \A i \in 1..(p - 1) : t[i] # t[p]
                    /\ \A k \in 1..(t[p][2] - 1) :
                         \E i \in 1..(p - 1) : t[i] = <<t[p][1], k>>
  BY DEF InOrder, t
<1>2. p - 1 \in Nat /\ p - 1 <= Len(s) /\ \A i \in 1..(p - 1) : i \in 1..Len(s) /\ i \in 1..p
  BY <1>1
<1>3. CASE p \in 1..Len(s)
  <2>1. \A i \in 1..p : i \in 1..Len(s)
    BY <1>1, <1>3
  <2>2. Whole(s, p)
    BY <1>1, <2>1 DEF Whole
  <2>3. /\ \A i \in 1..(p - 1) : s[i] # s[p]
        /\ \A k \in 1..(s[p][2] - 1) : \E i \in 1..(p - 1) : s[i] = <<s[p][1], k>>
    BY <1>3, <2>2 DEF InOrder
  <2> QED BY ONLY <1>1, <1>2, <1>3, <2>3
<1>4. CASE p = Len(s) + 1
  <2>1. t[p] = e /\ p - 1 = Len(s) /\ p \in 1..p
    BY <1>1, <1>4
  <2>2. e # Torn /\ Whole(s, Len(s))
    BY <1>1, <1>2, <2>1 DEF Whole
  <2>3. \A r : r \in Records(s) <=> r # Torn /\ \E i \in 1..Len(s) : s[i] = r
    BY RecordsOf
  <2>4. \A i \in 1..(p - 1) : t[i] # t[p]
    BY <1>1, <2>1, <2>2, <2>3
  <2>5. ASSUME NEW k \in 1..(t[p][2] - 1)
        PROVE  \E i \in 1..(p - 1) : t[i] = <<t[p][1], k>>
    <3>1. <<e[1], k>> \in Records(s)
      BY <2>1, <2>2
    <3>2. PICK i \in 1..Len(s) : s[i] = <<e[1], k>>
      BY <2>3, <3>1
    <3> QED BY <1>1, <2>1, <3>2
  <2> QED BY <2>4, <2>5
<1>5. p \in 1..Len(s) \/ p = Len(s) + 1
  BY <1>1
<1> QED BY <1>3, <1>4, <1>5

(* Nothing is written, and no node is started.                             *)
LEMMA NothingWritten ==
  ASSUME IInv, UNCHANGED <<log, known, written>>,
         \A n \in Node : role'[n] # "down" => role[n] # "down"
  PROVE  KnownIsKept' /\ WrittenIsKept' /\ LogsInOrder'
BY DEF IInv, KnownIsKept, WrittenIsKept, LogsInOrder

(* A record is written that the node did not know and that follows on.     *)
LEMMA RecordWritten ==
  ASSUME IInv, NEW n \in Node, NEW r \in Record, OnRecord(n, r),
         role[n] # "down", r \notin known[n], UNCHANGED role,
         \A k \in 1..(r[2] - 1) : <<r[1], k>> \in Records(log[n]),
         written' \in [Node -> Nat], r[2] <= written'[r[1]],
         \A m \in Node : written[m] <= written'[m],
         \A m \in Node : \A k \in 1..written'[m] :
           k \in 1..written[m] \/ (m = n /\ <<m, k>> = r)
  PROVE  /\ Grown /\ log' \in [Node -> Seq(Entries)]
         /\ known' \in [Node -> SUBSET Record]
         /\ KnownIsKept' /\ WrittenIsKept' /\ LogsInOrder'
<1>1. /\ r \in Entries /\ r # Torn
      /\ log \in [Node -> Seq(Entries)] /\ known \in [Node -> SUBSET Record]
      /\ log' = [log EXCEPT ![n] = Append(@, r)]
  BY TornIsNoRecord DEF IInv, TypesOK, OnRecord, Entries
<1>2. /\ Grown /\ log' \in [Node -> Seq(Entries)]
      /\ log'[n] = Append(log[n], r)
      /\ \A m \in Node : m # n => log'[m] = log[m]
  BY <1>1, LongerLog DEF IInv
<1>3. /\ known' \in [Node -> SUBSET Record]
      /\ known'[n] = known[n] \union {r}
      /\ \A m \in Node : m # n => known'[m] = known[m]
  BY <1>1 DEF OnRecord
<1>4. Records(log'[n]) = Records(log[n]) \union {r}
  BY <1>1, <1>2, Appended
<1>5. Torn \in ToSet(log[n]) => Torn \in ToSet(log'[n])
  <2>1. /\ log[n] \in Seq(Entries) /\ log'[n] \in Seq(Entries)
        /\ Len(log[n]) \in Nat /\ Len(log'[n]) = Len(log[n]) + 1
        /\ \A i \in 1..Len(log[n]) : log'[n][i] = log[n][i]
    BY <1>1, <1>2, Appended
  <2>2. \A i \in 1..Len(log[n]) : i \in 1..Len(log'[n])
    BY <2>1
  <2>3. /\ Torn \in ToSet(log[n]) <=> \E i \in 1..Len(log[n]) : log[n][i] = Torn
        /\ Torn \in ToSet(log'[n]) <=> \E i \in 1..Len(log'[n]) : log'[n][i] = Torn
    BY <2>1, InSeq
  <2> QED BY ONLY <2>1, <2>2, <2>3
<1>6. KnownIsKept'
  <2>1. ASSUME NEW m \in Node
        PROVE  /\ known'[m] \subseteq Records(log'[m])
               /\ role'[m] # "down" /\ Torn \notin ToSet(log'[m]) =>
                    Records(log'[m]) \subseteq known'[m]
    <3>1. /\ known[m] \subseteq Records(log[m])
          /\ role[m] # "down" /\ Torn \notin ToSet(log[m]) =>
               Records(log[m]) \subseteq known[m]
      BY DEF IInv, KnownIsKept
    <3>2. CASE m = n
      BY <1>3, <1>4, <1>5, <3>1, <3>2
    <3>3. CASE m # n
      BY <1>2, <1>3, <3>1, <3>3
    <3> QED BY <3>2, <3>3
  <2> QED BY <2>1 DEF KnownIsKept
<1>7. WrittenIsKept'
  <2>1. ASSUME NEW m \in Node
        PROVE  /\ \A k \in 1..written'[m] : <<m, k>> \in Records(log'[m])
               /\ \A q \in Records(log'[m]) : q[2] <= written'[q[1]]
    <3>1. /\ \A k \in 1..written[m] : <<m, k>> \in Records(log[m])
          /\ \A q \in Records(log[m]) : q[2] <= written[q[1]]
      BY DEF IInv, WrittenIsKept
    <3>2. Records(log[m]) \subseteq Records(log'[m])
      BY <1>2 DEF Grown
    <3>3. \A k \in 1..written'[m] : <<m, k>> \in Records(log'[m])
      BY <1>4, <3>1, <3>2
    <3>4. ASSUME NEW q \in Records(log'[m])
          PROVE  q[2] <= written'[q[1]]
      <4>1. q = r \/ q \in Records(log[m])
        <5>1. log'[m] = log[m] \/ m = n
          BY <1>2
        <5> QED BY ONLY <1>4, <5>1, q \in Records(log'[m])
      <4>2. CASE q \in Records(log[m])
        <5>1. q \in Record
          BY <1>1, <4>2, RecordsOf DEF Entries
        <5>2. q[1] \in Node /\ q[2] \in Nat
          BY <5>1 DEF Record
        <5>3. written[q[1]] <= written'[q[1]] /\ q[2] <= written[q[1]]
          BY <3>1, <4>2, <5>2
        <5>4. written[q[1]] \in Nat /\ written'[q[1]] \in Nat
          BY <5>2 DEF IInv, TypesOK
        <5> QED BY <5>2, <5>3, <5>4
      <4> QED BY <4>1, <4>2
    <3> QED BY <3>3, <3>4
  <2> QED BY <2>1 DEF WrittenIsKept
<1>8. LogsInOrder'
  <2>1. ASSUME Whole(log[n], Len(log[n]))
        PROVE  r \notin Records(log[n])
    <3>1. Torn \notin ToSet(log[n])
      <4>1. Torn \in ToSet(log[n]) <=> \E i \in 1..Len(log[n]) : log[n][i] = Torn
        BY <1>1, InSeq
      <4> QED BY ONLY <2>1, <4>1 DEF Whole
    <3> QED BY <3>1 DEF IInv, KnownIsKept
  <2>2. InOrder(log'[n])
    BY <1>1, <1>2, <2>1, InOrderAppend DEF IInv, LogsInOrder
  <2> QED BY <1>2, <2>2 DEF IInv, LogsInOrder
<1> QED BY <1>2, <1>3, <1>6, <1>7, <1>8

-----------------------------------------------------------------------------
(* The service and the roles.                                              *)

Copies == \A n \in Node : CursorOK(n) /\ PullAtOK(n) /\ SyncedOK(n)

(* The invariant, with its copying parts one node at a time.               *)
LEMMA NextParts ==
  ASSUME TypesOK', DownIsIdle', KnownIsKept', WrittenIsKept', LogsInOrder', Copies'
  PROVE  IInv'
BY DEF IInv, NothingSkipped, PullsOK, SyncedIsCopied, Copies, CursorOK, PullAtOK,
       SyncedOK

(* A step that changes one node's pull, and only shortens or ends it.      *)
LEMMA OnePull ==
  ASSUME IInv, Grown, NEW n \in Node, KeptPull(n), UNCHANGED cursor,
         \A m \in Node : m # n => pull'[m] = pull[m] /\ synced'[m] = synced[m]
  PROVE  Copies'
<1>1. \A m \in Node : KeptPull(m)
  BY SamePull
<1> QED BY <1>1, PullKept, CursorKept DEF Copies

(* A step that changes no pull.                                            *)
LEMMA NoPull ==
  ASSUME IInv, Grown, UNCHANGED <<pull, synced, cursor>>
  PROVE  Copies' /\ (UNCHANGED role => DownIsIdle')
<1>1. \A m \in Node : KeptPull(m)
  BY SamePull
<1>2. Copies'
  BY <1>1, PullKept, CursorKept DEF Copies
<1> QED BY <1>2 DEF IInv, DownIsIdle

(* A record of the node's own.                                             *)
LEMMA PersistInv ==
  ASSUME IInv, NEW n \in Node, Persist(n)
  PROVE  IInv'
<1> DEFINE r == <<n, written[n] + 1>>
<1>1. /\ written[n] \in Nat /\ r \in Record /\ r[1] = n /\ r[2] = written[n] + 1
      /\ role[n] = "active" /\ OnRecord(n, r)
      /\ written' = [written EXCEPT ![n] = @ + 1]
      /\ UNCHANGED <<role, queue, cursor, synced, pull, given, faults>>
  BY DEF IInv, TypesOK, Persist, Record
<1>2. /\ written' \in [Node -> Nat] /\ written'[n] = written[n] + 1
      /\ \A m \in Node : m # n => written'[m] = written[m]
  BY <1>1 DEF IInv, TypesOK
<1>3. \A m \in Node : written[m] <= written'[m]
  BY <1>1, <1>2 DEF IInv, TypesOK
<1>4. \A m \in Node : \A k \in 1..written'[m] :
        k \in 1..written[m] \/ (m = n /\ <<m, k>> = r)
  <2> TAKE m \in Node
  <2> TAKE k \in 1..written'[m]
  <2>1. CASE m # n
    BY <1>2, <2>1
  <2>2. CASE m = n
    <3>1. k \in 1..(written[n] + 1)
      BY <1>2, <2>2
    <3>2. k \in 1..written[n] \/ k = written[n] + 1
      BY <1>1, <3>1
    <3> QED BY <2>2, <3>2
  <2> QED BY <2>1, <2>2
<1>5. r \notin Records(log[n])
  <2>1. \A q \in Records(log[n]) : q[2] <= written[q[1]]
    BY DEF IInv, WrittenIsKept
  <2>2. ~(r[2] <= written[r[1]])
    BY <1>1
  <2> HIDE DEF r
  <2> QED BY <2>1, <2>2
<1>6. r \notin known[n]
  <2>1. known[n] \subseteq Records(log[n])
    BY DEF IInv, KnownIsKept
  <2> HIDE DEF r
  <2> QED BY <1>5, <2>1
<1>7. \A k \in 1..(r[2] - 1) : <<r[1], k>> \in Records(log[n])
  BY <1>1 DEF IInv, WrittenIsKept
<1> HIDE DEF r
<1>8. /\ Grown /\ log' \in [Node -> Seq(Entries)]
      /\ known' \in [Node -> SUBSET Record]
      /\ KnownIsKept' /\ WrittenIsKept' /\ LogsInOrder'
  BY <1>1, <1>2, <1>3, <1>4, <1>6, <1>7, RecordWritten
<1>9. TypesOK'
  BY <1>1, <1>2, <1>8 DEF IInv, TypesOK, Entries
<1> QED BY <1>1, <1>8, <1>9, NoPull, NextParts

(* The SMS Center's queue is not part of the history.                      *)
LEMMA SmsInv ==
  ASSUME IInv, NEW n \in Node, NEW m \in Message, AcceptSms(n, m) \/ DeliverSms(n, m)
  PROVE  IInv'
<1>1. UNCHANGED <<role, log, known, written, cursor, synced, pull>>
  BY DEF AcceptSms, DeliverSms
<1>2. TypesOK'
  <2>1. \/ given' = given \union {m} /\ queue' = [queue EXCEPT ![n] = queue[n] \union {m}]
        \/ given' = given /\ queue' = [queue EXCEPT ![n] = queue[n] \ {m}]
    BY DEF AcceptSms, DeliverSms
  <2>2. /\ queue[n] \union {m} \in SUBSET Message /\ queue[n] \ {m} \in SUBSET Message
        /\ queue \in [Node -> SUBSET Message] /\ given \subseteq Message
    BY DEF IInv, TypesOK
  <2>3. given' \subseteq Message /\ queue' \in [Node -> SUBSET Message]
    BY <2>1, <2>2
  <2> QED BY <1>1, <2>3 DEF IInv, TypesOK
<1>3. Grown
  BY <1>1, SameLogs DEF IInv
<1> QED BY <1>1, <1>2, <1>3, NothingWritten, NoPull, NextParts

(* A node that stops being active goes on as it is.                        *)
LEMMA StepsBackInv ==
  ASSUME IInv, NEW n \in Node, HandOver(n) \/ Yield(n)
  PROVE  IInv'
<1>1. /\ UNCHANGED <<log, known, written, queue, cursor, synced, pull, given>>
      /\ role' = [role EXCEPT ![n] = "standby"] /\ role[n] = "active"
  BY DEF HandOver, Yield, disk
<1>2. TypesOK'
  BY <1>1 DEF IInv, TypesOK
<1>3. \A m \in Node : role'[m] = "down" <=> role[m] = "down"
  BY <1>1 DEF IInv, TypesOK
<1>4. Grown
  BY <1>1, SameLogs DEF IInv
<1>5. DownIsIdle'
  BY <1>1, <1>3 DEF IInv, DownIsIdle
<1> QED BY <1>1, <1>2, <1>3, <1>4, <1>5, NothingWritten, NoPull, NextParts

(* A pull under way outlives the take-over.                                *)
LEMMA BecomesActiveInv ==
  ASSUME IInv, NEW n \in Node, BecomesActive(n)
  PROVE  IInv'
<1>1. /\ UNCHANGED <<log, known, written, queue, cursor, synced, given>>
      /\ role' = [role EXCEPT ![n] = "active"] /\ role[n] = "standby"
      /\ pull' = [pull EXCEPT ![n] =
           IF @ = None THEN None ELSE [@ EXCEPT !.outlived = TRUE]]
      /\ pull[n] \in PullState \union {None} /\ pull \in [Node -> PullState \union {None}]
  BY DEF BecomesActive, disk, IInv, TypesOK
<1>2. /\ pull'[n] = IF pull[n] = None THEN None ELSE [pull[n] EXCEPT !.outlived = TRUE]
      /\ \A m \in Node : m # n => pull'[m] = pull[m]
  BY <1>1
<1>3. pull[n] # None =>
        /\ SameBut(pull[n], pull'[n]) /\ pull'[n].wire = pull[n].wire
        /\ pull'[n].open = pull[n].open /\ pull'[n].fresh = pull[n].fresh
  BY <1>1, <1>2, OutlivedPull
<1>4. pull' \in [Node -> PullState \union {None}]
  BY <1>1, <1>2, <1>3 DEF SameBut
<1>5. TypesOK'
  BY <1>1, <1>4 DEF IInv, TypesOK
<1>6. \A m \in Node : role'[m] = "down" <=> role[m] = "down"
  BY <1>1 DEF IInv, TypesOK
<1>7. Grown
  BY <1>1, SameLogs DEF IInv
<1>8. DownIsIdle'
  BY <1>1, <1>2, <1>6 DEF IInv, DownIsIdle
<1>9. KeptPull(n)
  <2>1. CASE pull[n] = None
    BY <1>1, <1>2, <2>1 DEF KeptPull, IInv, SyncedIsCopied
  <2>2. CASE pull[n] # None
    <3>1. pull[n] \in PullState /\ pull'[n] \in PullState
      BY <1>1, <1>3, <2>2 DEF SameBut
    <3>2. Shortened(pull[n], pull'[n], Records(log'[n]), 0)
      BY <1>3, <2>2, <3>1, NothingGone
    <3> QED BY <1>1, <1>3, <2>2, <3>1, <3>2 DEF KeptPull, SameBut
  <2> QED BY <2>1, <2>2
<1> QED BY <1>1, <1>2, <1>5, <1>6, <1>7, <1>8, <1>9, NothingWritten, OnePull, NextParts

(* A crash takes the node's pull, cuts its peer's, and may tear the log.   *)
LEMMA CrashInv ==
  ASSUME IInv, NEW n \in Node, Crash(n)
  PROVE  IInv'
<1> DEFINE P == Peer(n)
<1>1. /\ UNCHANGED <<written, queue, cursor, given>>
      /\ role' = [role EXCEPT ![n] = "down"]
      /\ known' = [known EXCEPT ![n] = {}] /\ synced' = [synced EXCEPT ![n] = FALSE]
      /\ log' = log \/ log' = [log EXCEPT ![n] = Append(@, Torn)]
  BY DEF Crash
<1>2. PICK c \in Cut(pull[P]) : pull' = [pull EXCEPT ![n] = None, ![P] = c]
  BY DEF Crash
<1>3. P \in Node /\ P # n /\ \A m \in Node : m = n \/ m = P
  BY Peers
<1>4. /\ pull \in [Node -> PullState \union {None}] /\ log \in [Node -> Seq(Entries)]
      /\ known \in [Node -> SUBSET Record] /\ synced \in [Node -> BOOLEAN]
      /\ role \in [Node -> {"active", "standby", "down"}]
  BY DEF IInv, TypesOK, Entries
<1> HIDE DEF P
<1>5. /\ pull'[n] = None /\ pull'[P] = c /\ synced'[n] = FALSE /\ synced'[P] = synced[P]
      /\ known'[n] = {} /\ known'[P] = known[P]
      /\ role'[n] = "down" /\ role'[P] = role[P]
  BY <1>1, <1>2, <1>3, <1>4
<1>7. ASSUME pull[P] # None
      PROVE  /\ pull[P] \in PullState /\ c \in PullState /\ c # None
             /\ Shortened(pull[P], c, Records(log'[P]), 0)
  <2>1. pull[P] \in PullState
    BY <1>3, <1>4, <1>7
  <2>2. PICK k \in 0..Len(pull[P].wire) :
          c = [pull[P] EXCEPT !.open = FALSE, !.wire = SubSeq(pull[P].wire, 1, k)]
    BY <1>2, <1>7 DEF Cut
  <2>3. SubSeq(pull[P].wire, 1, k) \in Seq(Msg)
    <3>1. pull[P].wire \in Seq(Msg)
      BY <2>1, PullParts
    <3> QED BY <3>1
  <2>4. /\ SameBut(pull[P], c) /\ c.wire = SubSeq(pull[P].wire, 1, k)
        /\ ~c.open /\ c.fresh = pull[P].fresh
    BY <2>1, <2>2, <2>3, ClosedWire
  <2> QED BY <2>1, <2>4, EndGone DEF SameBut
<1>8. c \in PullState \union {None}
  BY <1>2, <1>7 DEF Cut
<1>9. pull' \in [Node -> PullState \union {None}]
  BY <1>2, <1>3, <1>4, <1>8
<1>10. KeptPull(n)
  BY <1>5 DEF KeptPull
<1>11. KeptPull(P)
  <2>1. CASE pull[P] = None
    <3>1. pull'[P] = pull[P]
      BY <1>2, <1>5, <2>1 DEF Cut
    <3> QED BY <1>3, <1>5, <3>1, SamePull
  <2>2. CASE pull[P] # None
    BY <1>5, <1>7, <2>2 DEF KeptPull
  <2> QED BY <2>1, <2>2
<1>12. Torn \in Entries
  BY DEF Entries
<1>13. /\ Grown /\ log' \in [Node -> Seq(Entries)]
       /\ \A m \in Node : Records(log'[m]) = Records(log[m])
       /\ log'[P] = log[P] /\ InOrder(log'[n])
  <2>1. InOrder(log[n])
    BY DEF IInv, LogsInOrder
  <2>2. CASE log' = log
    BY <1>4, <2>1, <2>2, SameLogs DEF IInv
  <2>3. CASE log' = [log EXCEPT ![n] = Append(@, Torn)]
    <3>1. /\ Grown /\ log' \in [Node -> Seq(Entries)]
          /\ log'[n] = Append(log[n], Torn)
          /\ \A m \in Node : m # n => log'[m] = log[m]
      BY <1>12, <2>3, LongerLog DEF IInv
    <3>2. Records(Append(log[n], Torn)) = Records(log[n]) \union ({Torn} \ {Torn})
      BY <1>4, <1>12, Appended
    <3>3. InOrder(log'[n])
      BY <1>4, <1>12, <2>1, <3>1, InOrderAppend
    <3> QED BY <1>3, <3>1, <3>2, <3>3
  <2> QED BY <1>1, <2>2, <2>3
<1>14. TypesOK'
  <2>1. /\ role' \in [Node -> {"active", "standby", "down"}]
        /\ known' \in [Node -> SUBSET Record] /\ synced' \in [Node -> BOOLEAN]
    BY <1>1, <1>4
  <2> QED BY <1>1, <1>9, <1>13, <2>1 DEF IInv, TypesOK, Entries
<1>15. DownIsIdle'
  <2>1. role[P] = "down" => pull[P] = None /\ ~synced[P]
    BY <1>3 DEF IInv, DownIsIdle
  <2>2. pull[P] = None => c = None
    BY <1>2 DEF Cut
  <2> QED BY <1>3, <1>5, <2>1, <2>2 DEF DownIsIdle
<1>16. KnownIsKept'
  BY <1>3, <1>5, <1>13 DEF IInv, KnownIsKept
<1>17. WrittenIsKept'
  BY <1>1, <1>13 DEF IInv, WrittenIsKept
<1>18. LogsInOrder'
  BY <1>3, <1>13 DEF IInv, LogsInOrder
<1>19. Copies'
  BY <1>1, <1>3, <1>10, <1>11, <1>13, PullKept, CursorKept DEF Copies
<1> QED BY <1>14, <1>15, <1>16, <1>17, <1>18, <1>19, NextParts

(* What can be read is known again.                                        *)
LEMMA StartInv ==
  ASSUME IInv, NEW n \in Node, Start(n)
  PROVE  IInv'
<1>1. /\ UNCHANGED <<log, written, queue, cursor, given, synced, pull>>
      /\ role' = [role EXCEPT ![n] = "standby"] /\ role[n] = "down"
      /\ known' = [known EXCEPT ![n] = Opened(log[n])]
      /\ log \in [Node -> Seq(Entries)] /\ known \in [Node -> SUBSET Record]
      /\ role \in [Node -> {"active", "standby", "down"}]
  BY DEF Start, disk, IInv, TypesOK, Entries
<1>2. Opened(log[n]) \subseteq Records(log[n])
  <2>1. log[n] \in Seq(Entries)
    BY <1>1
  <2>2. ASSUME NEW r \in Opened(log[n])
        PROVE  r \in Records(log[n])
    <3>1. r # Torn /\ \E i \in DOMAIN Readable(log[n]) : Readable(log[n])[i] = r
      BY DEF Opened, Records, ToSet
    <3>2. \E i \in 1..Len(log[n]) : log[n][i] = r
      BY <2>1, <3>1, ReadableIs
    <3> QED BY <2>1, <3>1, <3>2, RecordsOf
  <2> QED BY <2>2
<1>3. Torn \notin ToSet(log[n]) => Opened(log[n]) = Records(log[n])
  BY DEF Opened, Readable
<1>4. Records(log[n]) \subseteq Record
  <2>1. \A r : r \in Records(log[n]) <=> r # Torn /\ \E i \in 1..Len(log[n]) : log[n][i] = r
    BY <1>1, RecordsOf
  <2> QED BY <1>1, <2>1 DEF Entries
<1>5. /\ known' \in [Node -> SUBSET Record] /\ known'[n] = Opened(log[n])
      /\ \A m \in Node : m # n => known'[m] = known[m] /\ role'[m] = role[m]
      /\ role'[n] = "standby" /\ role' \in [Node -> {"active", "standby", "down"}]
  BY <1>1, <1>2, <1>4
<1>6. TypesOK'
  BY <1>1, <1>5 DEF IInv, TypesOK
<1>7. DownIsIdle'
  BY <1>1, <1>5 DEF IInv, DownIsIdle
<1>8. KnownIsKept'
  <2>1. \A m \in Node :
          /\ known[m] \subseteq Records(log[m])
          /\ role[m] # "down" /\ Torn \notin ToSet(log[m]) =>
               Records(log[m]) \subseteq known[m]
    BY DEF IInv, KnownIsKept
  <2>2. ASSUME NEW m \in Node
        PROVE  /\ known'[m] \subseteq Records(log[m])
               /\ role'[m] # "down" /\ Torn \notin ToSet(log[m]) =>
                    Records(log[m]) \subseteq known'[m]
    BY <1>2, <1>3, <1>5, <2>1
  <2> QED BY <1>1, <2>2 DEF KnownIsKept
<1>9. WrittenIsKept' /\ LogsInOrder'
  BY <1>1 DEF IInv, WrittenIsKept, LogsInOrder
<1>10. Grown
  BY <1>1, SameLogs DEF IInv
<1> QED BY <1>1, <1>6, <1>7, <1>8, <1>9, <1>10, NoPull, NextParts

-----------------------------------------------------------------------------
(* The two ends of a connection.                                           *)

(* A step of a pull alone.                                                 *)
LEMMA PullStep ==
  ASSUME IInv, NEW n \in Node, UNCHANGED <<role, log, known, written, given>>,
         queue' \in [Node -> SUBSET Message], cursor' \in [Node -> Nat],
         synced' \in [Node -> BOOLEAN], pull' \in [Node -> PullState \union {None}],
         \A m \in Node : m # n => pull'[m] = pull[m] /\ synced'[m] = synced[m],
         role[n] # "down" \/ (pull'[n] = None /\ ~synced'[n]),
         Copies'
  PROVE  IInv'
<1>1. TypesOK'
  BY DEF IInv, TypesOK
<1>2. DownIsIdle'
  BY DEF IInv, DownIsIdle
<1> QED BY <1>1, <1>2, NothingWritten, NextParts

(* A message of a connection is done with.                                 *)
LEMMA DonePull ==
  ASSUME IInv, NEW n \in Node, NEW p, NEW s \in BOOLEAN, Done(n, p, s),
         UNCHANGED log, pull[n] # None, pull[n].wire # <<>>,
         Head(pull[n].wire).type = "history" => Head(pull[n].wire).records = <<>>,
         Head(pull[n].wire).type = "sms" => p.fresh,
         SameBut(pull[n], p), p.wire = pull[n].wire, p.open = pull[n].open,
         pull[n].fresh => p.fresh
  PROVE  /\ synced' \in [Node -> BOOLEAN] /\ pull' \in [Node -> PullState \union {None}]
         /\ \A m \in Node : m # n => pull'[m] = pull[m] /\ synced'[m] = synced[m]
         /\ role[n] # "down"
         /\ \/ pull'[n] = None /\ ~synced'[n]
            \/ /\ pull'[n] \in PullState /\ pull'[n] # None /\ synced'[n] = s
               /\ Shortened(pull[n], pull'[n], Records(log'[n]), 1)
<1> DEFINE q == [p EXCEPT !.wire = Tail(p.wire)]
<1>1. /\ pull \in [Node -> PullState \union {None}] /\ synced \in [Node -> BOOLEAN]
      /\ pull[n] \in PullState /\ p \in PullState
  BY DEF IInv, TypesOK, SameBut
<1>2. role[n] # "down"
  BY DEF IInv, DownIsIdle
<1>3. Tail(p.wire) \in Seq(Msg)
  <2>1. p.wire \in Seq(Msg) /\ p.wire # <<>>
    BY <1>1, PullParts
  <2> QED BY <2>1, HeadTailProperties
<1>4. /\ SameBut(p, q) /\ q.wire = Tail(p.wire) /\ q.open = p.open /\ q.fresh = p.fresh
  BY <1>1, <1>3, NewWire
<1> HIDE DEF q
<1>5. SameBut(pull[n], q) /\ q \in PullState
  BY <1>4 DEF SameBut
<1>6. Shortened(pull[n], q, Records(log'[n]), 1)
  BY <1>1, <1>4, <1>5, HeadGone
<1>7. CASE role[n] = "standby"
  <2>1. /\ pull' = [pull EXCEPT ![n] = q] /\ synced' = [synced EXCEPT ![n] = s]
    BY <1>7 DEF Done, q
  <2> QED BY <1>1, <1>2, <1>5, <1>6, <2>1 DEF SameBut
<1>8. CASE role[n] # "standby"
  <2>1. /\ pull' = [pull EXCEPT ![n] = None] /\ synced' = [synced EXCEPT ![n] = FALSE]
    BY <1>8 DEF Done
  <2> QED BY <1>1, <1>2, <2>1
<1> QED BY <1>7, <1>8

(* A pull is what it was before if nothing of it changes.                  *)
LEMMA SameButSame ==
  ASSUME NEW p \in PullState
  PROVE  SameBut(p, p)
BY HaReplicaNoneAssumption DEF SameBut

(* The first message of a connection.                                      *)
LEMMA FirstMessage ==
  ASSUME IInv, NEW n \in Node, pull[n] # None, pull[n].wire # <<>>
  PROVE  /\ pull[n] \in PullState
         /\ 1 \in 1..Len(pull[n].wire) /\ pull[n].wire[1] = Head(pull[n].wire)
         /\ Head(pull[n].wire) \in Msg
         /\ PullOK(pull[n], log[Peer(n)], Records(log[n]))
<1>1. pull[n] \in PullState
  BY DEF IInv, TypesOK
<1>2. pull[n].wire \in Seq(Msg)
  BY <1>1, PullParts
<1> QED BY <1>1, <1>2 DEF IInv, PullsOK

(* What is covered once the first message is read is in the log, if that   *)
(* carries no records.                                                     *)
LEMMA CoveredNow ==
  ASSUME NEW L, NEW H, NEW w, NEW e, Covers(L, H, w, 1, e),
         ~IsHistory(w, 1) \/ w[1].records = <<>>
  PROVE  e <= Len(L) /\ \A i \in 1..e : L[i] \in H
<1>1. \A i \in 1..1 : i = 1
  OBVIOUS
<1>2. ToSet(<<>>) = {}
  BY DEF ToSet
<1> QED BY <1>1, <1>2 DEF Covers, Carried

(* The cursor of a message whose records are all in the log is saved.      *)
LEMMA SaveCursorInv ==
  ASSUME IInv, NEW n \in Node, SaveCursor(n)
  PROVE  IInv'
<1> DEFINE w == pull[n].wire
<1>1. /\ pull[n] # None /\ w # <<>> /\ Head(w).type = "history" /\ Head(w).records = <<>>
      /\ cursor' = [cursor EXCEPT ![n] = Head(w).end]
      /\ Done(n, pull[n], synced[n])
      /\ UNCHANGED <<role, log, known, written, queue, given, faults>>
  BY DEF SaveCursor, Incoming
<1>2. /\ pull[n] \in PullState /\ 1 \in 1..Len(w) /\ w[1] = Head(w) /\ Head(w) \in Msg
      /\ PullOK(pull[n], log[Peer(n)], Records(log[n]))
  BY <1>1, FirstMessage
<1>3. Head(w).end \in Nat
  BY <1>1, <1>2, MsgParts
<1>4. /\ cursor' \in [Node -> Nat] /\ cursor'[n] = Head(w).end
      /\ \A m \in Node : m # n => cursor'[m] = cursor[m]
      /\ queue' \in [Node -> SUBSET Message] /\ synced[n] \in BOOLEAN
  BY <1>1, <1>3 DEF IInv, TypesOK
<1>5. /\ synced' \in [Node -> BOOLEAN] /\ pull' \in [Node -> PullState \union {None}]
      /\ \A m \in Node : m # n => pull'[m] = pull[m] /\ synced'[m] = synced[m]
      /\ role[n] # "down"
      /\ \/ pull'[n] = None /\ ~synced'[n]
         \/ /\ pull'[n] \in PullState /\ pull'[n] # None /\ synced'[n] = synced[n]
            /\ Shortened(pull[n], pull'[n], Records(log'[n]), 1)
  BY <1>1, <1>2, <1>4, SameButSame, DonePull
<1>6. KeptPull(n)
  BY <1>1, <1>5 DEF KeptPull
<1>7. Grown
  BY <1>1, SameLogs DEF IInv
<1>8. CursorOK(n)'
  <2>1. Covers(log[Peer(n)], Records(log[n]), w, 1, w[1].end)
    BY <1>1, <1>2 DEF PullOK, CursorsAreCovered, IsHistory
  <2>2. /\ w[1].end <= Len(log[Peer(n)])
        /\ \A i \in 1..w[1].end : log[Peer(n)][i] \in Records(log[n])
    BY <1>1, <1>2, <2>1, CoveredNow
  <2> QED BY <1>1, <1>2, <1>4, <2>2 DEF CursorOK
<1>9. \A m \in Node : CursorOK(m)'
  BY <1>4, <1>7, <1>8, CursorKept
<1>10. \A m \in Node : PullAtOK(m)' /\ SyncedOK(m)'
  BY <1>5, <1>6, <1>7, SamePull, PullKept
<1> HIDE DEF w
<1> QED BY <1>1, <1>4, <1>5, <1>9, <1>10, PullStep DEF Copies

(* The queue is replaced by the peer's.                                    *)
LEMMA ImportSmsInv ==
  ASSUME IInv, NEW n \in Node, ImportSms(n)
  PROVE  IInv'
<1> DEFINE w == pull[n].wire
           p == [pull[n] EXCEPT !.fresh = TRUE]
<1>1. /\ pull[n] # None /\ w # <<>> /\ Head(w).type = "sms"
      /\ queue' = [queue EXCEPT ![n] = Head(w).queue]
      /\ Done(n, p, synced[n])
      /\ UNCHANGED <<role, log, known, written, cursor, given, faults>>
  BY DEF ImportSms, Incoming
<1>2. pull[n] \in PullState /\ Head(w) \in Msg
  BY <1>1, FirstMessage
<1>3. /\ queue' \in [Node -> SUBSET Message] /\ cursor' \in [Node -> Nat]
      /\ synced[n] \in BOOLEAN
  BY <1>1, <1>2, MsgParts DEF IInv, TypesOK
<1>4. SameBut(pull[n], p) /\ p.wire = w /\ p.open = pull[n].open /\ p.fresh
  BY <1>2, FreshPull
<1> HIDE DEF p
<1>5. /\ synced' \in [Node -> BOOLEAN] /\ pull' \in [Node -> PullState \union {None}]
      /\ \A m \in Node : m # n => pull'[m] = pull[m] /\ synced'[m] = synced[m]
      /\ role[n] # "down"
      /\ \/ pull'[n] = None /\ ~synced'[n]
         \/ /\ pull'[n] \in PullState /\ pull'[n] # None /\ synced'[n] = synced[n]
            /\ Shortened(pull[n], pull'[n], Records(log'[n]), 1)
  BY <1>1, <1>2, <1>3, <1>4, DonePull
<1>6. KeptPull(n)
  BY <1>1, <1>5 DEF KeptPull
<1>7. Grown
  BY <1>1, SameLogs DEF IInv
<1>8. Copies'
  BY <1>1, <1>5, <1>6, <1>7, OnePull
<1> HIDE DEF w
<1> QED BY <1>1, <1>3, <1>5, <1>8, PullStep

(* "Caught up" is believed.                                                *)
LEMMA ReceiveCaughtUpInv ==
  ASSUME IInv, NEW n \in Node, ReceiveCaughtUp(n)
  PROVE  IInv'
<1> DEFINE w == pull[n].wire
<1>1. /\ pull[n] # None /\ w # <<>> /\ Head(w).type = "caught_up"
      /\ Done(n, pull[n], TRUE)
      /\ UNCHANGED <<role, log, known, written, queue, cursor, given, faults>>
  BY DEF ReceiveCaughtUp, Incoming, disk
<1>2. /\ pull[n] \in PullState /\ 1 \in 1..Len(w) /\ w[1] = Head(w) /\ Head(w) \in Msg
      /\ PullOK(pull[n], log[Peer(n)], Records(log[n]))
  BY <1>1, FirstMessage
<1>3. queue' \in [Node -> SUBSET Message] /\ cursor' \in [Node -> Nat]
  BY <1>1 DEF IInv, TypesOK
<1>4. Grown
  BY <1>1, SameLogs DEF IInv
<1>5. /\ synced' \in [Node -> BOOLEAN] /\ pull' \in [Node -> PullState \union {None}]
      /\ \A m \in Node : m # n => pull'[m] = pull[m] /\ synced'[m] = synced[m]
      /\ role[n] # "down"
      /\ \/ pull'[n] = None /\ ~synced'[n]
         \/ /\ pull'[n] \in PullState /\ pull'[n] # None
            /\ Shortened(pull[n], pull'[n], Records(log'[n]), 1)
  BY <1>1, <1>2, SameButSame, DonePull
<1>6. PullAtOK(n)' /\ SyncedOK(n)'
  <2>1. CASE pull'[n] = None /\ ~synced'[n]
    BY <2>1 DEF PullAtOK, SyncedOK
  <2>2. CASE /\ pull'[n] \in PullState /\ pull'[n] # None
             /\ Shortened(pull[n], pull'[n], Records(log'[n]), 1)
    <3>1. /\ Peer(n) \in Node /\ log[Peer(n)] \in Seq(Entries)
          /\ log'[Peer(n)] \in Seq(Entries) /\ Extends(log'[Peer(n)], log[Peer(n)])
          /\ Records(log[n]) \subseteq Records(log'[n])
      BY <1>4, Peers DEF IInv, TypesOK, Entries, Grown
    <3>2. 1 \in {0, 1}
      OBVIOUS
    <3>3. PullOK(pull'[n], log'[Peer(n)], Records(log'[n]))
      BY <1>2, <2>2, <3>1, <3>2, PullShortened
    <3>4. /\ pull[n].fresh \/ \E i \in 1..1 : w[i].type = "sms"
          /\ Covers(log[Peer(n)], Records(log[n]), w, 1, pull[n].base)
      BY <1>1, <1>2 DEF PullOK, CaughtUpIsLast
    <3>5. pull[n].fresh
      BY <1>1, <1>2, <3>4
    <3>6. \A i \in 1..pull[n].base : log[Peer(n)][i] \in Records(log[n])
      BY <1>1, <1>2, <3>4, CoveredNow DEF IsHistory
    <3>7. pull'[n].fresh /\ pull'[n].base = pull[n].base
      BY <2>2, <3>5 DEF Shortened
    <3> QED BY <1>1, <2>2, <3>3, <3>6, <3>7 DEF PullAtOK, SyncedOK
  <2> QED BY <1>5, <2>1, <2>2
<1>7. \A m \in Node : PullAtOK(m)' /\ SyncedOK(m)'
  BY <1>4, <1>5, <1>6, SamePull, PullKept
<1>8. Copies'
  BY <1>1, <1>4, <1>7, CursorKept DEF Copies
<1> HIDE DEF w
<1> QED BY <1>1, <1>3, <1>5, <1>8, PullStep

(* A record is appended unless it is known.                                *)
LEMMA AppendReplicatedInv ==
  ASSUME IInv, NEW n \in Node, AppendReplicated(n)
  PROVE  IInv'
<1> DEFINE w == pull[n].wire
           r == Head(Head(w).records)
           v == [w EXCEPT ![1].records = Tail(@)]
           p == [pull[n] EXCEPT !.wire = v]
<1>1. /\ pull[n] # None /\ w # <<>> /\ Head(w).type = "history" /\ Head(w).records # <<>>
      /\ IF r \in known[n] THEN UNCHANGED <<log, known>> ELSE OnRecord(n, r)
      /\ pull' = [pull EXCEPT ![n].wire[1].records = Tail(@)]
      /\ UNCHANGED <<role, written, queue, cursor, synced, given, faults>>
  BY DEF AppendReplicated, Incoming
<1>2. /\ pull[n] \in PullState /\ 1 \in 1..Len(w) /\ w[1] = Head(w) /\ Head(w) \in Msg
      /\ PullOK(pull[n], log[Peer(n)], Records(log[n]))
  BY <1>1, FirstMessage
<1>3. /\ w \in Seq(Msg) /\ Head(w).records \in Seq(Record)
      /\ 1 \in 1..Len(Head(w).records) /\ Head(w).records[1] = r /\ r \in Record
  <2>1. w \in Seq(Msg) /\ Head(w).records \in Seq(Record)
    BY <1>1, <1>2, PullParts, MsgParts
  <2> QED BY <1>1, <2>1
<1>4. v \in Seq(Msg)
  BY <1>1, <1>3, RecordTaken
<1>5. SameBut(pull[n], p) /\ p.wire = v /\ p.open = pull[n].open /\ p.fresh = pull[n].fresh
  BY <1>2, <1>4, NewWire
<1>6. pull' = [pull EXCEPT ![n] = p]
  BY <1>1
<1>7. /\ r \in Records(log[Peer(n)])
      /\ \A k \in 1..(r[2] - 1) : <<r[1], k>> \in Records(log[n])
  <2>1. EarlierOnesFirst(log[Peer(n)], Records(log[n]), w) /\ IsHistory(w, 1)
    BY <1>1, <1>2 DEF PullOK, IsHistory
  <2>2. \A i \in 1..Len(w[1].records) :
          /\ w[1].records[i] \in Records(log[Peer(n)])
          /\ \A k \in 1..(w[1].records[i][2] - 1) :
               LET q == <<w[1].records[i][1], k>>
               IN  \/ q \in Records(log[n]) \/ Carried(w, 1 - 1, q)
                   \/ \E h \in 1..(i - 1) : w[1].records[h] = q
    BY <1>2, <2>1 DEF EarlierOnesFirst
  <2>3. \A k \in 1..(r[2] - 1) :
          LET q == <<r[1], k>>
          IN  \/ q \in Records(log[n]) \/ Carried(w, 1 - 1, q)
              \/ \E h \in 1..(1 - 1) : w[1].records[h] = q
    BY <1>2, <1>3, <2>2
  <2>4. 1..(1 - 1) = {}
    OBVIOUS
  <2>5. \A q : ~Carried(w, 1 - 1, q)
    BY <2>4 DEF Carried
  <2>6. r \in Records(log[Peer(n)])
    BY <1>2, <1>3, <2>2
  <2> QED BY <2>3, <2>4, <2>5, <2>6
<1>8. role[n] # "down"
  BY <1>1 DEF IInv, DownIsIdle
<1> HIDE DEF r, v, p
<1>9. /\ Grown /\ log' \in [Node -> Seq(Entries)] /\ known' \in [Node -> SUBSET Record]
      /\ KnownIsKept' /\ WrittenIsKept' /\ LogsInOrder' /\ r \in Records(log'[n])
  <2>1. CASE r \in known[n]
    <3>1. UNCHANGED <<log, known>>
      BY <1>1, <2>1
    <3>2. KnownIsKept' /\ WrittenIsKept' /\ LogsInOrder'
      BY <1>1, <3>1, NothingWritten
    <3>3. r \in Records(log[n])
      BY <2>1 DEF IInv, KnownIsKept
    <3>4. Grown
      BY <3>1, SameLogs DEF IInv
    <3> QED BY <3>1, <3>2, <3>3, <3>4 DEF IInv, TypesOK, Entries
  <2>2. CASE r \notin known[n]
    <3>1. OnRecord(n, r)
      BY <1>1, <2>2
    <3>2. /\ written' \in [Node -> Nat] /\ \A m \in Node : written[m] \in Nat
      BY <1>1 DEF IInv, TypesOK
    <3>3. r[2] <= written'[r[1]]
      <4>1. \A q \in Records(log[Peer(n)]) : q[2] <= written[q[1]]
        BY Peers DEF IInv, WrittenIsKept
      <4> QED BY <1>1, <1>7, <4>1
    <3>4. /\ \A m \in Node : written[m] <= written'[m]
          /\ \A m \in Node : \A k \in 1..written'[m] :
               k \in 1..written[m] \/ (m = n /\ <<m, k>> = r)
      BY <1>1, <3>2
    <3>5. /\ Grown /\ log' \in [Node -> Seq(Entries)] /\ known' \in [Node -> SUBSET Record]
          /\ KnownIsKept' /\ WrittenIsKept' /\ LogsInOrder'
      BY <1>1, <1>3, <1>7, <1>8, <2>2, <3>1, <3>2, <3>3, <3>4, RecordWritten
    <3>6. r \in known'[n]
      BY <3>1 DEF IInv, TypesOK, OnRecord
    <3> QED BY <3>5, <3>6 DEF KnownIsKept
  <2> QED BY <2>1, <2>2
<1>10. /\ pull' \in [Node -> PullState \union {None}] /\ pull'[n] = p
       /\ \A m \in Node : m # n => pull'[m] = pull[m]
  BY <1>5, <1>6 DEF IInv, TypesOK, SameBut
<1>11. Shortened(pull[n], p, Records(log'[n]), 0)
  <2>1. p \in PullState /\ r = Head(Head(pull[n].wire).records)
        /\ p.wire = [pull[n].wire EXCEPT ![1].records = Tail(@)]
    BY <1>5 DEF SameBut, r, v
  <2> QED BY <1>1, <1>2, <1>5, <1>9, <2>1, RecordGone
<1>12. KeptPull(n)
  BY <1>1, <1>5, <1>10, <1>11 DEF KeptPull, SameBut
<1>13. Copies'
  BY <1>1, <1>9, <1>10, <1>12, OnePull
<1>14. TypesOK'
  BY <1>1, <1>9, <1>10 DEF IInv, TypesOK, Entries
<1>15. DownIsIdle'
  BY <1>1, <1>8, <1>10 DEF IInv, DownIsIdle
<1> QED BY <1>9, <1>13, <1>14, <1>15, NextParts

(* A pull ends.                                                            *)
LEMMA EndPullInv ==
  ASSUME IInv, NEW n \in Node, EndPull(n)
  PROVE  IInv'
<1>1. /\ pull' = [pull EXCEPT ![n] = None] /\ synced' = [synced EXCEPT ![n] = FALSE]
      /\ UNCHANGED <<role, log, known, written, queue, cursor, given>>
  BY DEF EndPull, disk
<1>2. /\ synced' \in [Node -> BOOLEAN] /\ pull' \in [Node -> PullState \union {None}]
      /\ \A m \in Node : m # n => pull'[m] = pull[m] /\ synced'[m] = synced[m]
      /\ pull'[n] = None /\ ~synced'[n]
      /\ queue' \in [Node -> SUBSET Message] /\ cursor' \in [Node -> Nat]
  BY <1>1 DEF IInv, TypesOK
<1>3. KeptPull(n)
  BY <1>2 DEF KeptPull
<1>4. Grown
  BY <1>1, SameLogs DEF IInv
<1>5. Copies'
  BY <1>1, <1>2, <1>3, <1>4, OnePull
<1> QED BY <1>1, <1>2, <1>5, PullStep

(* The Active side closes the connection.                                  *)
LEMMA StopServingInv ==
  ASSUME IInv, NEW n \in Node, StopServing(n)
  PROVE  IInv'
<1> DEFINE p == [pull[n] EXCEPT !.open = FALSE]
<1>1. /\ pull[n] # None /\ pull' = [pull EXCEPT ![n] = p]
      /\ UNCHANGED <<role, log, known, written, queue, cursor, given, synced>>
      /\ pull \in [Node -> PullState \union {None}]
  BY DEF StopServing, Served, disk, IInv, TypesOK
<1>2. pull[n] \in PullState
  BY <1>1
<1>3. SameBut(pull[n], p) /\ p.wire = pull[n].wire /\ ~p.open /\ p.fresh = pull[n].fresh
  BY <1>2, ClosedPull
<1> HIDE DEF p
<1>4. /\ p \in PullState /\ p # None /\ pull'[n] = p
      /\ pull' \in [Node -> PullState \union {None}]
      /\ \A m \in Node : m # n => pull'[m] = pull[m]
      /\ queue' \in [Node -> SUBSET Message] /\ cursor' \in [Node -> Nat]
      /\ synced' \in [Node -> BOOLEAN]
  BY <1>1, <1>3 DEF SameBut, IInv, TypesOK
<1>5. Shortened(pull[n], p, Records(log'[n]), 0)
  BY <1>2, <1>3, <1>4, NothingGone
<1>6. KeptPull(n)
  BY <1>1, <1>4, <1>5 DEF KeptPull
<1>7. Grown
  BY <1>1, SameLogs DEF IInv
<1>8. Copies'
  BY <1>1, <1>4, <1>6, <1>7, OnePull
<1>9. role[n] # "down"
  BY <1>1 DEF IInv, DownIsIdle
<1> QED BY <1>1, <1>4, <1>8, <1>9, PullStep

(* A new connection starts where the cursor is.                            *)
LEMMA ConnectInv ==
  ASSUME IInv, NEW n \in Node, Connect(n)
  PROVE  IInv'
<1> DEFINE L == log[Peer(n)]
           H == Records(log[n])
           p == [open |-> TRUE, at |-> "poll", offset |-> cursor[n], sms |-> None,
                 caughtUp |-> FALSE, wire |-> <<>>, base |-> Len(Readable(L)),
                 fresh |-> FALSE, outlived |-> FALSE]
<1>1. /\ pull[n] = None /\ role[n] = "standby" /\ pull' = [pull EXCEPT ![n] = p]
      /\ UNCHANGED <<role, log, known, written, queue, cursor, given, synced>>
  BY DEF Connect, disk
<1>2. /\ Peer(n) \in Node /\ L \in Seq(Entries) /\ Len(L) \in Nat
      /\ cursor[n] \in Nat
      /\ pull \in [Node -> PullState \union {None}]
  BY Peers DEF IInv, TypesOK, Entries
<1>3. /\ Len(Readable(L)) \in 0..Len(L)
      /\ \A i \in 1..Len(Readable(L)) : L[i] # Torn
  BY <1>2, ReadableIs
<1>4. p \in PullState /\ p # None
  <2>1. Len(Readable(L)) \in Nat /\ <<>> \in Seq(Msg)
    BY <1>2, <1>3
  <2>2. p \in PullState
    BY <1>2, <2>1 DEF PullState
  <2> QED BY <2>2, HaReplicaNoneAssumption
<1>5. /\ p.open /\ p.wire = <<>> /\ p.offset = cursor[n] /\ p.base = Len(Readable(L))
      /\ p.sms = None
  OBVIOUS
<1> HIDE DEF p
<1>6. /\ pull'[n] = p /\ pull' \in [Node -> PullState \union {None}]
      /\ \A m \in Node : m # n => pull'[m] = pull[m]
      /\ queue' \in [Node -> SUBSET Message] /\ cursor' \in [Node -> Nat]
      /\ synced' \in [Node -> BOOLEAN]
  BY <1>1, <1>2, <1>4 DEF IInv, TypesOK
<1>7. Covers(L, H, <<>>, Len(<<>>), cursor[n])
  <2>1. cursor[n] <= Len(L) /\ \A i \in 1..cursor[n] : L[i] \in H
    BY DEF IInv, NothingSkipped
  <2> QED BY <2>1 DEF Covers, Records
<1>8. PullOK(p, L, H)
  <2>1. 1..Len(<<>>) = {}
    OBVIOUS
  <2>2. /\ CursorsAreCovered(L, H, <<>>) /\ EarlierOnesFirst(L, H, <<>>)
        /\ CaughtUpIsLast(L, H, <<>>, p.base, p.fresh)
    BY <2>1 DEF CursorsAreCovered, EarlierOnesFirst, CaughtUpIsLast
  <2>3. p.base <= Len(L) /\ \A i \in 1..p.base : L[i] # Torn
    BY <1>2, <1>3, <1>5
  <2> QED BY <1>5, <1>7, <2>2, <2>3 DEF PullOK
<1>9. PullAtOK(n)' /\ SyncedOK(n)'
  <2>1. ~synced'[n]
    BY <1>1 DEF IInv, SyncedIsCopied
  <2>2. log'[Peer(n)] = L /\ Records(log'[n]) = H
    BY <1>1
  <2> QED BY <1>6, <1>8, <2>1, <2>2 DEF PullAtOK, SyncedOK
<1>10. Grown
  BY <1>1, SameLogs DEF IInv
<1>11. Copies'
  BY <1>1, <1>6, <1>9, <1>10, SamePull, PullKept, CursorKept DEF Copies
<1> QED BY <1>1, <1>6, <1>11, PullStep

-----------------------------------------------------------------------------
(* What the Active side sends.                                             *)

(* What is left to read of a log from o on is all up to a torn entry.      *)
LEMMA UnreadIs ==
  ASSUME NEW L \in Seq(Entries), NEW o \in 0..Len(L)
  PROVE  LET u == SubSeq(L, o + 1, o + Len(Readable(SubSeq(L, o + 1, Len(L)))))
         IN  /\ u \in Seq(Record) /\ o + Len(u) <= Len(L)
             /\ \A i \in 1..Len(u) : u[i] = L[o + i] /\ u[i] # Torn
             /\ u = <<>> => o = Len(L) \/ L[o + 1] = Torn
<1> DEFINE t == SubSeq(L, o + 1, Len(L))
           k == Len(Readable(t))
           u == SubSeq(L, o + 1, o + k)
<1>1. Len(L) \in Nat /\ o \in Nat /\ o <= Len(L)
  OBVIOUS
<1>2. /\ t \in Seq(Entries) /\ Len(t) = Len(L) - o
      /\ \A i \in 1..(Len(L) - o) : t[i] = L[o + i]
  <2>1. /\ o + 1 \in Int /\ Len(L) \in Int
        /\ \A i \in (o + 1)..Len(L) : L[i] \in Entries
    BY <1>1
  <2>2. /\ t \in Seq(Entries)
        /\ Len(t) = IF o + 1 <= Len(L) THEN Len(L) - (o + 1) + 1 ELSE 0
        /\ \A i \in 1..(Len(L) - (o + 1) + 1) : t[i] = L[(o + 1) + i - 1]
    BY <2>1, SubSeqProperties
  <2>3. Len(L) - (o + 1) + 1 = Len(L) - o
    BY <1>1
  <2>4. \A i \in 1..(Len(L) - o) : (o + 1) + i - 1 = o + i
    BY <1>1
  <2>5. Len(t) = Len(L) - o
    BY <1>1, <2>2
  <2> QED BY ONLY <2>2, <2>3, <2>4, <2>5
<1> HIDE DEF t
<1>3. /\ k \in 0..(Len(L) - o) /\ \A i \in 1..k : t[i] # Torn
      /\ k < Len(L) - o => t[k + 1] = Torn
  BY <1>2, ReadableIs
<1> HIDE DEF k
<1>4. /\ u \in Seq(Entries) /\ Len(u) = k /\ \A i \in 1..k : u[i] = L[o + i]
  <2>1. /\ o + 1 \in Int /\ o + k \in Int /\ k \in Nat
        /\ \A i \in (o + 1)..(o + k) : L[i] \in Entries
    BY <1>1, <1>3
  <2>2. /\ u \in Seq(Entries)
        /\ Len(u) = IF o + 1 <= o + k THEN (o + k) - (o + 1) + 1 ELSE 0
        /\ \A i \in 1..((o + k) - (o + 1) + 1) : u[i] = L[(o + 1) + i - 1]
    BY <2>1, SubSeqProperties
  <2>3. (o + k) - (o + 1) + 1 = k
    BY <1>1, <2>1
  <2>4. \A i \in 1..k : (o + 1) + i - 1 = o + i
    BY <1>1, <2>1
  <2>5. Len(u) = k
    BY <1>1, <2>1, <2>2
  <2> QED BY ONLY <2>2, <2>3, <2>4, <2>5
<1> HIDE DEF u
<1>5. \A i \in 1..k : i \in 1..(Len(L) - o)
  BY <1>1, <1>3
<1>6. \A i \in 1..Len(u) : u[i] = L[o + i] /\ u[i] # Torn
  BY ONLY <1>2, <1>3, <1>4, <1>5
<1>7. u \in Seq(Record)
  <2>1. \A i \in 1..Len(u) : u[i] \in Record
    BY <1>4, <1>6 DEF Entries
  <2> QED BY <1>4, <2>1
<1>8. o + Len(u) <= Len(L)
  BY <1>1, <1>3, <1>4
<1>9. ASSUME u = <<>>
      PROVE  o = Len(L) \/ L[o + 1] = Torn
  <2>1. k = 0
    BY <1>4, <1>9
  <2>2. CASE o # Len(L)
    <3>1. 1 \in 1..(Len(L) - o) /\ k < Len(L) - o /\ k + 1 = 1
      BY <1>1, <2>1, <2>2
    <3> QED BY <1>2, <1>3, <3>1
  <2> QED BY <2>2
<1> QED BY <1>6, <1>7, <1>8, <1>9 DEF u, k, t

(* The messages are messages.                                              *)
LEMMA Messages ==
  /\ \A s \in Seq(Record), e \in Nat :
       /\ History(s, e) \in Msg /\ History(s, e).type = "history"
       /\ History(s, e).records = s /\ History(s, e).end = e
  /\ \A q \in SUBSET Message : Sms(q) \in Msg /\ Sms(q).type = "sms"
  /\ CaughtUp \in Msg /\ CaughtUp.type = "caught_up"
BY DEF Msg, History, Sms, CaughtUp

(* One message behind the others.                                          *)
LEMMA OneBehind ==
  ASSUME NEW w \in Seq(Msg), NEW m \in Msg
  PROVE  w \o <<m>> = Append(w, m) /\ w \o <<>> = w
OBVIOUS

(* A part of the log that follows on the offset.                           *)
LEMMA SendHistoryKeeps ==
  ASSUME NEW p \in PullState, NEW L \in Seq(Entries), NEW H, PullOK(p, L, H),
         InOrder(L), p.open, p.offset \in 0..Len(L),
         NEW u \in Seq(Record), p.offset + Len(u) <= Len(L),
         \A i \in 1..Len(u) : u[i] = L[p.offset + i] /\ u[i] # Torn,
         NEW k \in 1..Len(u), NEW p2,
         p2 = [p EXCEPT !.at = "history", !.offset = p.offset + k,
                        !.wire = Append(p.wire, History(SubSeq(u, 1, k), p.offset + k))]
  PROVE  p2 \in PullState /\ p2 # None /\ PullOK(p2, L, H)
<1> DEFINE s == SubSeq(u, 1, k)
           m == History(s, p.offset + k)
<1>1. p.offset \in Nat /\ k \in Nat /\ k <= Len(u) /\ Len(u) \in Nat /\ Len(L) \in Nat
  OBVIOUS
<1>2. s \in Seq(Record) /\ Len(s) = k /\ \A i \in 1..k : s[i] = u[i] /\ i \in 1..Len(u)
  BY <1>1
<1>3. m \in Msg /\ m.type = "history" /\ m.records = s /\ m.end = p.offset + k
  <2>1. s \in Seq(Record) /\ p.offset + k \in Nat
    BY <1>1, <1>2
  <2> HIDE DEF s
  <2> QED BY <2>1, Messages
<1>4. p.wire \in Seq(Msg)
  BY PullParts
<1>5. Append(p.wire, m) \in Seq(Msg) /\ p.offset + k \in Nat
  BY <1>1, <1>3, <1>4
<1> HIDE DEF m, s
<1>6. p2 = [p EXCEPT !.at = "history", !.offset = p.offset + k, !.wire = Append(p.wire, m)]
  BY DEF m, s
<1>7. /\ p2 \in PullState /\ p2 # None /\ p2.wire = Append(p.wire, m)
      /\ p2.offset = p.offset + k
      /\ p2.base = p.base /\ p2.fresh = p.fresh /\ p2.open = p.open
      /\ p2.caughtUp = p.caughtUp /\ p2.sms = p.sms
  BY ONLY <1>5, <1>6, p \in PullState, HaReplicaNoneAssumption DEF PullState
<1>8. m.end <= Len(L) /\ m.end = p.offset + Len(m.records)
  BY <1>1, <1>2, <1>3
<1>9. \A i \in 1..Len(m.records) : m.records[i] = L[p.offset + i] /\ m.records[i] # Torn
  BY <1>2, <1>3
<1>10. FitsBehind(m, p, p2, L, H)
  BY <1>3, <1>7, <1>8, <1>9, HistoryFits
<1> QED BY <1>3, <1>7, <1>10, PullLengthened

(* The queue, and "caught up" where nothing is left to read.               *)
LEMMA SendRestKeeps ==
  ASSUME NEW p \in PullState, NEW L \in Seq(Entries), NEW H, PullOK(p, L, H),
         p.open, p.base <= p.offset, NEW q \in SUBSET Message, p.sms # q, NEW p2,
         p2 = [p EXCEPT !.at = "poll", !.sms = q, !.caughtUp = TRUE,
                 !.wire = IF p.caughtUp THEN Append(p.wire, Sms(q))
                          ELSE Append(Append(p.wire, Sms(q)), CaughtUp)]
  PROVE  p2 \in PullState /\ p2 # None /\ PullOK(p2, L, H)
<1> DEFINE w1 == Append(p.wire, Sms(q))
           w2 == Append(w1, CaughtUp)
           p1 == [p EXCEPT !.at = "poll", !.sms = q, !.caughtUp = TRUE, !.wire = w1]
           p3 == [p EXCEPT !.at = "poll", !.sms = q, !.caughtUp = TRUE, !.wire = w2]
<1>1. /\ Sms(q) \in Msg /\ Sms(q).type = "sms"
      /\ CaughtUp \in Msg /\ CaughtUp.type = "caught_up"
  BY Messages
<1>2. p.wire \in Seq(Msg) /\ Len(p.wire) \in Nat
  BY PullParts
<1>3. /\ w1 \in Seq(Msg) /\ w1[Len(p.wire) + 1] = Sms(q) /\ Len(w1) = Len(p.wire) + 1
      /\ Len(p.wire) + 1 \in 1..Len(w1)
  BY <1>1, <1>2, AppendProperties
<1>4. w2 \in Seq(Msg)
  BY <1>1, <1>3, AppendProperties
<1> HIDE DEF w1
<1>9. p1 = [p EXCEPT !.at = "poll", !.sms = q, !.caughtUp = TRUE, !.wire = w1]
  OBVIOUS
<1>10. p3 = [p EXCEPT !.at = "poll", !.sms = q, !.caughtUp = TRUE, !.wire = w2]
  OBVIOUS
<1> HIDE DEF p1, p3, w2
<1>5. /\ p1 \in PullState /\ p1 # None /\ p1.wire = w1 /\ p1.offset = p.offset
      /\ p1.base = p.base /\ p1.fresh = p.fresh /\ p1.open = p.open
      /\ p1.caughtUp /\ p1.sms = q
  BY ONLY <1>3, <1>9, p \in PullState, q \in SUBSET Message, HaReplicaNoneAssumption DEF PullState
<1>6. PullOK(p1, L, H)
  <2>1. p1.wire = Append(p.wire, Sms(q))
    BY <1>5 DEF w1
  <2>2. FitsBehind(Sms(q), p, p1, L, H)
    BY <1>1, <1>5, <2>1, RestFits
  <2> QED BY <1>1, <1>5, <2>2, PullLengthened
<1>7. CASE p.caughtUp
  <2>1. p2 = p1
    BY <1>7 DEF p1, w1
  <2> QED BY <1>5, <1>6, <2>1
<1>8. CASE ~p.caughtUp
  <2>1. p2 = p3
    BY <1>8 DEF p3, w2, w1
  <2>2. /\ p3 \in PullState /\ p3 # None /\ p3.wire = w2 /\ p3.offset = p.offset
        /\ p3.base = p.base /\ p3.fresh = p.fresh /\ p3.open = p.open
        /\ p3.caughtUp /\ p3.sms = q
    BY ONLY <1>4, <1>10, p \in PullState, q \in SUBSET Message, HaReplicaNoneAssumption DEF PullState
  <2>3. p3.wire = Append(p1.wire, CaughtUp)
    BY <1>5, <2>2 DEF w2
  <2>4. \E i \in 1..Len(p1.wire) : p1.wire[i].type = "sms"
    BY <1>1, <1>3, <1>5
  <2>5. FitsBehind(CaughtUp, p1, p3, L, H)
    BY <1>1, <1>5, <1>6, <2>2, <2>3, <2>4, RestFits
  <2>6. PullOK(p3, L, H)
    BY <1>1, <1>5, <1>6, <2>2, <2>5, PullLengthened
  <2> QED BY <2>1, <2>2, <2>6
<1> QED BY <1>7, <1>8

(* A round of the Active side, of history or of the rest.                  *)
LEMMA ServeInv ==
  ASSUME IInv, NEW n \in Node, Serve(n)
  PROVE  IInv'
<1> DEFINE L == log[Peer(n)]
           H == Records(log[n])
           p == pull[n]
           p2 == pull'[n]
           u == SubSeq(L, p.offset + 1, p.offset + Len(Readable(SubSeq(L, p.offset + 1, Len(L)))))
<1>1. /\ p # None /\ p.open
      /\ IF Unread(n) # <<>> THEN SendHistory(n) ELSE SendRest(n)
      /\ UNCHANGED <<role, log, known, written, queue, cursor, given, synced>>
  BY DEF Serve, Served, disk
<1>2. /\ Peer(n) \in Node /\ L \in Seq(Entries) /\ Len(L) \in Nat
      /\ pull \in [Node -> PullState \union {None}] /\ p \in PullState
      /\ queue[Peer(n)] \in SUBSET Message
  BY <1>1, Peers DEF IInv, TypesOK, Entries
<1>3. PullOK(p, L, H) /\ InOrder(L)
  BY <1>1, <1>2 DEF IInv, PullsOK, LogsInOrder
<1>4. /\ p.offset \in 0..Len(L) /\ p.offset \in Nat /\ p.base \in Nat /\ p.wire \in Seq(Msg)
      /\ p.base <= Len(L) /\ \A i \in 1..p.base : L[i] # Torn
      /\ ~p.caughtUp => p.sms = None
  <2>1. p.offset \in Nat /\ p.base \in Nat /\ p.wire \in Seq(Msg)
    BY <1>2, PullParts
  <2>2. p.offset <= Len(L)
    BY <1>1, <1>3 DEF PullOK, Covers
  <2> QED BY <1>2, <1>3, <2>1, <2>2 DEF PullOK
<1>5. ReadFrom(L, p.offset) = p.offset
  BY <1>2, <1>4 DEF ReadFrom
<1>6. Unread(n) = u
  BY <1>5 DEF Unread
<1>7. /\ u \in Seq(Record) /\ p.offset + Len(u) <= Len(L)
      /\ \A i \in 1..Len(u) : u[i] = L[p.offset + i] /\ u[i] # Torn
      /\ u = <<>> => p.offset = Len(L) \/ L[p.offset + 1] = Torn
  BY <1>2, <1>4, UnreadIs
<1> HIDE DEF u
<1>8. ASSUME SendHistory(n)
      PROVE  /\ pull' \in [Node -> PullState \union {None}] /\ p2 # None
             /\ \A m \in Node : m # n => pull'[m] = pull[m]
             /\ PullOK(p2, L, H)
  <2>1. PICK k \in 1..Len(u) :
          pull' = [pull EXCEPT
            ![n].at = "history", ![n].offset = p.offset + k,
            ![n].wire = Append(p.wire, History(SubSeq(u, 1, k), p.offset + k))]
    BY <1>5, <1>6, <1>8 DEF SendHistory
  <2> DEFINE p3 == [p EXCEPT !.at = "history", !.offset = p.offset + k,
                       !.wire = Append(p.wire, History(SubSeq(u, 1, k), p.offset + k))]
  <2>2. pull' = [pull EXCEPT ![n] = p3]
    BY ONLY <2>1
  <2>3. p3 \in PullState /\ p3 # None /\ PullOK(p3, L, H)
    BY <1>1, <1>2, <1>3, <1>4, <1>7, SendHistoryKeeps
  <2> HIDE DEF p3
  <2> QED BY <1>2, <2>2, <2>3
<1>9. ASSUME SendRest(n), u = <<>>
      PROVE  /\ pull' \in [Node -> PullState \union {None}] /\ p2 # None
             /\ \A m \in Node : m # n => pull'[m] = pull[m]
             /\ PullOK(p2, L, H)
  <2> DEFINE q == queue[Peer(n)]
             sms == IF p.sms = q THEN <<>> ELSE <<Sms(q)>>
             caughtUp == IF p.caughtUp THEN <<>> ELSE <<CaughtUp>>
             p3 == [p EXCEPT !.at = "poll", !.sms = q, !.caughtUp = TRUE,
                             !.wire = (p.wire \o sms) \o caughtUp]
  <2>1. pull' = [pull EXCEPT ![n] = p3]
    <3>1. pull' = [pull EXCEPT ![n].at = "poll", ![n].sms = q, ![n].caughtUp = TRUE,
                               ![n].wire = (p.wire \o sms) \o caughtUp]
      BY <1>9 DEF SendRest
    <3> HIDE DEF q, sms, caughtUp
    <3> QED BY ONLY <3>1
  <2>2. p.base <= p.offset
    <3> SUFFICES ASSUME ~(p.base <= p.offset) PROVE FALSE
      OBVIOUS
    <3>1. p.offset + 1 \in 1..p.base /\ p.offset # Len(L)
      BY <1>2, <1>4
    <3> QED BY <1>4, <1>7, <1>9, <3>1
  <2>3. Sms(q) \in Msg /\ CaughtUp \in Msg
    BY <1>2, Messages
  <2>4. p3 \in PullState /\ p3 # None /\ PullOK(p3, L, H)
    <3>1. CASE p.sms # q
      <4>1. Append(p.wire, Sms(q)) \in Seq(Msg)
        BY <1>4, <2>3
      <4>2. (p.wire \o sms) \o caughtUp =
              IF p.caughtUp THEN Append(p.wire, Sms(q))
              ELSE Append(Append(p.wire, Sms(q)), CaughtUp)
        <5>1. p.wire \o sms = Append(p.wire, Sms(q))
          BY <1>4, <2>3, <3>1, OneBehind
        <5>2. /\ Append(p.wire, Sms(q)) \o <<>> = Append(p.wire, Sms(q))
              /\ Append(p.wire, Sms(q)) \o <<CaughtUp>> =
                   Append(Append(p.wire, Sms(q)), CaughtUp)
          BY <2>3, <4>1, OneBehind
        <5> QED BY <5>1, <5>2
      <4>3. p3 = [p EXCEPT !.at = "poll", !.sms = q, !.caughtUp = TRUE,
                    !.wire = IF p.caughtUp THEN Append(p.wire, Sms(q))
                             ELSE Append(Append(p.wire, Sms(q)), CaughtUp)]
        <5> HIDE DEF q, sms, caughtUp
        <5> QED BY ONLY <4>2 DEF p3
      <4>4. q \in SUBSET Message
        BY <1>2
      <4>5. p \in PullState /\ L \in Seq(Entries) /\ PullOK(p, L, H) /\ p.open
        BY <1>1, <1>2, <1>3
      <4> HIDE DEF q, p3, p, L, H
      <4> QED BY ONLY <2>2, <3>1, <4>3, <4>4, <4>5, SendRestKeeps
    <3>2. CASE p.sms = q
      <4>1. None # q
        BY <1>2, HaReplicaAssumption DEF HaReplicaAssumption
      <4>2. p.caughtUp
        BY <1>4, <3>2, <4>1
      <4>3. (p.wire \o sms) \o caughtUp = p.wire
        <5>1. p.wire \o <<>> = p.wire
          BY <1>4
        <5> QED BY <3>2, <4>2, <5>1
      <4>4. p3 = [p EXCEPT !.at = "poll", !.sms = q, !.caughtUp = TRUE, !.wire = p.wire]
        <5> HIDE DEF q, sms, caughtUp
        <5> QED BY ONLY <4>3 DEF p3
      <4>5. q \in SUBSET Message
        BY <1>2
      <4> HIDE DEF q, p3
      <4>6. /\ SameBut(p, p3) /\ p3.wire = p.wire /\ p3.open = p.open
            /\ p3.fresh = p.fresh
        BY ONLY <1>2, <3>2, <4>2, <4>4, <4>5, HaReplicaNoneAssumption
           DEF PullState, SameBut
      <4>7. Shortened(p, p3, H, 0)
        BY <1>2, <4>6, NothingGone DEF SameBut
      <4>8. Extends(L, L) /\ 0 \in {0, 1}
        BY <1>2 DEF Extends
      <4> QED BY <1>2, <1>3, <4>6, <4>7, <4>8, PullShortened DEF SameBut
    <3> QED BY <3>1, <3>2
  <2> HIDE DEF p3
  <2> QED BY <1>2, <2>1, <2>4
<1>10. /\ pull' \in [Node -> PullState \union {None}] /\ p2 # None
       /\ \A m \in Node : m # n => pull'[m] = pull[m]
       /\ PullOK(p2, L, H)
  BY <1>1, <1>6, <1>8, <1>9
<1>11. p2.fresh = p.fresh /\ p2.base = p.base
  <2>1. CASE SendHistory(n)
    BY <1>2, <2>1 DEF SendHistory
  <2>2. CASE SendRest(n)
    BY <1>2, <2>2 DEF SendRest
  <2> QED BY <1>1, <2>1, <2>2
<1>12. log'[Peer(n)] = L /\ Records(log'[n]) = H /\ synced'[n] = synced[n]
  BY <1>1
<1>13. PullAtOK(n)' /\ SyncedOK(n)'
  <2>1. PullAtOK(n)'
    BY <1>10, <1>12 DEF PullAtOK
  <2>2. synced[n] => p.fresh /\ \A i \in 1..p.base : L[i] \in H
    BY DEF IInv, SyncedIsCopied
  <2>3. SyncedOK(n)'
    BY <1>10, <1>11, <1>12, <2>2 DEF SyncedOK
  <2> QED BY <2>1, <2>3
<1>14. Grown
  BY <1>1, SameLogs DEF IInv
<1>15. \A m \in Node : m # n => synced'[m] = synced[m]
  BY <1>1
<1>16. Copies'
  BY <1>1, <1>10, <1>13, <1>14, <1>15, SamePull, PullKept, CursorKept DEF Copies
<1>17. /\ role[n] # "down" /\ queue' \in [Node -> SUBSET Message]
       /\ cursor' \in [Node -> Nat] /\ synced' \in [Node -> BOOLEAN]
  BY <1>1 DEF IInv, DownIsIdle, TypesOK
<1> HIDE DEF L, H, p, p2
<1> QED BY <1>1, <1>10, <1>15, <1>16, <1>17, PullStep

-----------------------------------------------------------------------------
(* The invariant, and what follows from it.                                *)

(* It holds of two empty nodes.                                            *)
LEMMA InitInv == Init => IInv
<1> SUFFICES ASSUME Init PROVE IInv
  OBVIOUS
<1>1. \A n \in Node :
        /\ role[n] # "down" /\ log[n] = <<>> /\ known[n] = {} /\ written[n] = 0
        /\ cursor[n] = 0 /\ synced[n] = FALSE /\ pull[n] = None
  BY DEF Init
<1>2. Len(<<>>) = 0 /\ 1..0 = {} /\ Records(<<>>) = {}
  BY DEF Records, ToSet
<1>3. TypesOK
  BY DEF Init, TypesOK
<1>4. DownIsIdle /\ KnownIsKept /\ WrittenIsKept /\ PullsOK /\ SyncedIsCopied
  BY <1>1, <1>2 DEF DownIsIdle, KnownIsKept, WrittenIsKept, PullsOK, SyncedIsCopied
<1>5. LogsInOrder
  BY <1>1, <1>2 DEF LogsInOrder, InOrder
<1>6. NothingSkipped
  BY <1>1, <1>2, Peers DEF NothingSkipped
<1> QED BY <1>3, <1>4, <1>5, <1>6 DEF IInv

(* Every step keeps it.                                                    *)
LEMMA NextInv == IInv /\ [Next]_vars => IInv'
<1> SUFFICES ASSUME IInv, [Next]_vars PROVE IInv'
  OBVIOUS
<1>1. CASE UNCHANGED vars
  BY <1>1 DEF vars, IInv, TypesOK, DownIsIdle, KnownIsKept, WrittenIsKept, LogsInOrder,
              PullsOK, NothingSkipped, SyncedIsCopied
<1>2. ASSUME NEW n \in Node, Persist(n)
      PROVE  IInv'
  BY <1>2, PersistInv
<1>3. ASSUME NEW n \in Node, NEW m \in Message, AcceptSms(n, m) \/ DeliverSms(n, m)
      PROVE  IInv'
  BY <1>3, SmsInv
<1>4. ASSUME NEW n \in Node, HandOver(n) \/ Yield(n)
      PROVE  IInv'
  BY <1>4, StepsBackInv
<1>5. ASSUME NEW n \in Node, TakeOver(n) \/ Split(n)
      PROVE  IInv'
  BY <1>5, BecomesActiveInv DEF TakeOver, Split
<1>6. ASSUME NEW n \in Node, Crash(n)
      PROVE  IInv'
  BY <1>6, CrashInv
<1>7. ASSUME NEW n \in Node, Start(n)
      PROVE  IInv'
  BY <1>7, StartInv
<1>8. ASSUME NEW n \in Node, Replicate(n)
      PROVE  IInv'
  BY <1>8, ConnectInv, ServeInv, StopServingInv, AppendReplicatedInv, SaveCursorInv,
     ImportSmsInv, ReceiveCaughtUpInv, EndPullInv DEF Replicate
<1> QED BY <1>1, <1>2, <1>3, <1>4, <1>5, <1>6, <1>7, <1>8 DEF Next

(* The invariant always holds.                                             *)
THEOREM Invariance == Safety => []IInv
<1>1. Init => IInv
  BY InitInv
<1>2. IInv /\ [Next]_vars => IInv'
  BY NextInv
<1> QED BY <1>1, <1>2, PTL DEF Safety

(* save_cursor after append_replicated, and the offsets the Active side    *)
(* announces, never let the cursor pass a record this node has not got.    *)
THEOREM NothingSkippedCorrect == Safety => []NothingSkipped
<1>1. IInv => NothingSkipped
  BY DEF IInv
<1> QED BY <1>1, Invariance, PTL

(* A node that reports ha_repl synced has the queue and all that was in    *)
(* its peer's log when it connected.                                       *)
THEOREM SyncedIsCopiedCorrect == Safety => []SyncedIsCopied
<1>1. IInv => SyncedIsCopied
  BY DEF IInv
<1> QED BY <1>1, Invariance, PTL

(* Of two records in front of a torn entry that one node wrote, the        *)
(* earlier one is the one written earlier.                                 *)
LEMMA OrderIsKept ==
  ASSUME NEW s \in Seq(Entries), InOrder(s), NEW i \in 1..Len(Readable(s)),
         NEW j \in 1..Len(Readable(s)), i < j, s[i][1] = s[j][1]
  PROVE  s[i][2] < s[j][2]
<1>1. /\ Len(Readable(s)) \in 0..Len(s) /\ Len(s) \in Nat
      /\ \A h \in 1..Len(Readable(s)) : s[h] # Torn
  BY ReadableIs
<1>2. i \in 1..Len(s) /\ j \in 1..Len(s) /\ i \in 1..(j - 1) /\ j \in 1..Len(s)
  BY <1>1
<1>3. s[i] \in Record /\ s[j] \in Record
  BY <1>1, <1>2 DEF Entries
<1>4. Whole(s, j) /\ Whole(s, i)
  <2>1. \A h \in 1..j : h \in 1..Len(Readable(s))
    BY <1>1
  <2>2. \A h \in 1..i : h \in 1..Len(Readable(s))
    BY <1>1
  <2> QED BY <1>1, <2>1, <2>2 DEF Whole
<1>5. s[i] # s[j]
  BY <1>2, <1>4 DEF InOrder
<1>6. /\ s[i] = <<s[i][1], s[i][2]>> /\ s[j] = <<s[j][1], s[j][2]>>
      /\ s[i][2] \in Nat \ {0} /\ s[j][2] \in Nat \ {0}
  BY <1>3 DEF Record
<1>7. s[i][2] # s[j][2]
  BY <1>5, <1>6
<1>8. CASE s[j][2] < s[i][2]
  <2>1. s[j][2] \in 1..(s[i][2] - 1)
    BY <1>6, <1>8
  <2>2. PICK h \in 1..(i - 1) : s[h] = <<s[i][1], s[j][2]>>
    BY <1>2, <1>4, <2>1 DEF InOrder
  <2>3. s[h] = s[j]
    BY <1>6, <2>2
  <2>4. h \in 1..(j - 1)
    BY <1>2
  <2> QED BY <1>2, <1>4, <2>3, <2>4 DEF InOrder
<1> QED BY <1>6, <1>7, <1>8

(* Store::known keeps history that went back and forth from being appended *)
(* twice, and what a node wrote stays in the order it was written in.      *)
THEOREM KeptOnceInOrderCorrect == Safety => []KeptOnceInOrder
<1>1. ASSUME IInv
      PROVE  KeptOnceInOrder
  <2> SUFFICES ASSUME NEW n \in Node,
                      NEW i \in DOMAIN Readable(log[n]), NEW j \in DOMAIN Readable(log[n]),
                      i < j, Readable(log[n])[i][1] = Readable(log[n])[j][1]
               PROVE  Readable(log[n])[i][2] < Readable(log[n])[j][2]
    BY DEF KeptOnceInOrder
  <2>1. log[n] \in Seq(Entries) /\ InOrder(log[n])
    BY <1>1 DEF IInv, TypesOK, LogsInOrder, Entries
  <2>2. /\ i \in 1..Len(Readable(log[n])) /\ j \in 1..Len(Readable(log[n]))
        /\ Readable(log[n])[i] = log[n][i] /\ Readable(log[n])[j] = log[n][j]
    BY <2>1, ReadableIs
  <2> QED BY <2>1, <2>2, OrderIsKept
<1>2. IInv => KeptOnceInOrder
  BY <1>1
<1> QED BY <1>2, Invariance, PTL

=============================================================================
