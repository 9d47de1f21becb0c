--------------------------- MODULE SmsCenterProofs ---------------------------
(***************************************************************************)
(* Safety of the SMS Center, for every set of messages, connections, tasks *)
(* and uuids and every setting: no message is on its way twice, and none   *)
(* leaves the queue without a reason.                                      *)
(* Then the types of the registrar and of the configuration file, which    *)
(* run beside it (MCClients), and what restarts the server.                *)
(***************************************************************************)
EXTENDS MCClients, TLAPS, FiniteSetTheorems, WellFoundedInduction

-----------------------------------------------------------------------------
(* The inductive invariant.                                                *)

QueuedNow == {m \in Message : Queued(m)}

DeliveryTask ==
  [pc : {"none", "look", "take", "send"}, force : BOOLEAN,
   client : Client \union {None}, msg : Message \union {None}, id : Nat,
   uuid : Uuid \union {None}]

ServerOK ==
  /\ place \in Client \union {None} /\ up \subseteq Client
  /\ blocked \in BOOLEAN /\ known \in BOOLEAN
  /\ sweeper \in {"idle", "due"} /\ upsets \in Nat

QueueOK ==
  /\ queue \in [Message -> Entry \union {None}]
  /\ IsFiniteSet(QueuedNow) /\ Cardinality(QueuedNow) <= QueueLimit
  /\ stored \in Nat

AttemptsOK == attempt \in [Uuid -> SmsRoute \union {None}]

TasksOK ==
  /\ task \in [Task -> DeliveryTask]
  /\ \A t \in Task :
       /\ task[t].pc \in {"take", "send"} => task[t].client \in Client
       /\ task[t].pc = "send" =>
            task[t].msg \in Message /\ task[t].id > 0 /\ task[t].uuid \in Uuid

(* A message in flight has been tried: release has an attempt to take back.*)
InFlightIsTried ==
  \A m \in Message :
    Queued(m) /\ queue[m].uuid # None => queue[m].attempts > 0

(* No id in use is yet to be given out, and no two messages share one.     *)
IdsAreOwn ==
  /\ \A m \in Message : Queued(m) => queue[m].id <= stored
  /\ \A u \in Uuid : attempt[u] # None => attempt[u].id <= stored
  /\ \A t \in Task : task[t].pc = "send" => task[t].id <= stored
  /\ \A m, n \in Message :
       Queued(m) /\ Queued(n) /\ queue[m].id = queue[n].id => m = n

(* The in-flight mark names the attempt that is under way, and stays until *)
(* its report is overdue.                                                  *)
MarkedWhileUnderway ==
  \A m \in Message : Queued(m) =>
    \A u \in Underway(queue[m].id) : queue[m].uuid = u /\ ~queue[m].late

(* A task that holds a message has a uuid no one else uses.                *)
HeldUuids ==
  \A t \in Task : task[t].pc = "send" =>
    /\ attempt[task[t].uuid] = None
    /\ \A s \in Task : task[s].pc = "send" /\ task[s].uuid = task[t].uuid => s = t

(* Whatever goes by the uuid a message is marked with is this message.     *)
MarksAreOwn ==
  \A m \in Message : Queued(m) =>
    /\ \A u \in Uuid : queue[m].uuid = u /\ attempt[u] # None =>
         attempt[u].id = queue[m].id
    /\ \A t \in Task : task[t].pc = "send" /\ task[t].uuid = queue[m].uuid =>
         task[t].id = queue[m].id

Deliveries ==
  /\ QueueOK /\ AttemptsOK /\ TasksOK
  /\ InFlightIsTried /\ IdsAreOwn /\ MarkedWhileUnderway
  /\ HeldUuids /\ MarksAreOwn

IInv == ServerOK /\ Deliveries

-----------------------------------------------------------------------------
(* Messages, attempts and tasks.                                           *)

(* None is no message, no attempt and no uuid.                             *)
LEMMA Nones ==
  /\ None \notin Entry /\ None \notin SmsRoute /\ None \notin Uuid
  /\ None \notin Client /\ Uuid \subseteq Nat /\ QueueLimit \in Nat
BY SmsCenterAssumption, SmsNoneAssumption DEF SmsCenterAssumption

(* What is queued is a message, and what is under way is an attempt.       *)
LEMMA Parts ==
  ASSUME QueueOK, AttemptsOK, TasksOK
  PROVE  /\ \A m \in Message : Queued(m) =>
              /\ queue[m] \in Entry
              /\ queue[m].id \in Nat \ {0} /\ queue[m].attempts \in Nat
              /\ queue[m].uuid \in Uuid \union {None}
              /\ queue[m].late \in BOOLEAN /\ queue[m].rested \in BOOLEAN
              /\ queue[m].expired \in BOOLEAN
         /\ \A u \in Uuid : attempt[u] # None =>
              /\ attempt[u] \in SmsRoute
              /\ attempt[u].id \in Nat \ {0} /\ attempt[u].late \in BOOLEAN
         /\ \A t \in Task :
              /\ task[t] \in DeliveryTask
              /\ task[t].pc \in {"none", "look", "take", "send"}
              /\ task[t].force \in BOOLEAN /\ task[t].id \in Nat
              /\ task[t].client \in Client \union {None}
BY DEF QueueOK, AttemptsOK, TasksOK, Queued, Entry, SmsRoute, DeliveryTask

(* A new task is no task that holds a message.                             *)
LEMMA TaskRecords ==
  /\ NoTask \in DeliveryTask /\ NoTask.pc = "none"
  /\ \A force \in BOOLEAN :
       LET new == [NoTask EXCEPT !.pc = "look", !.force = force]
       IN  new \in DeliveryTask /\ new.pc = "look"
BY DEF NoTask, DeliveryTask

(* Spawning changes one slot, and it holds no message.                     *)
LEMMA SpawnedTask ==
  ASSUME TasksOK, NEW force \in BOOLEAN, FreeTasks # {}, task' = Spawned(force)
  PROVE  /\ task' \in [Task -> DeliveryTask]
         /\ \A t \in Task : task'[t] = task[t] \/ task'[t].pc = "look"
<1> DEFINE t == CHOOSE t \in FreeTasks : TRUE
           new == [NoTask EXCEPT !.pc = "look", !.force = force]
<1>1. t \in FreeTasks
  OBVIOUS
<1>2. t \in Task
  BY <1>1 DEF FreeTasks
<1>3. new \in DeliveryTask /\ new.pc = "look"
  BY TaskRecords
<1>4. task' = [task EXCEPT ![t] = new]
  BY DEF Spawned
<1>5. task \in [Task -> DeliveryTask]
  BY DEF TasksOK
<1> HIDE DEF t, new
<1> QED BY <1>2, <1>3, <1>4, <1>5

-----------------------------------------------------------------------------
(* Most steps only take away: messages leave, marks are taken off, attempts*)
(* are answered or forgotten, tasks end or begin.  A mark goes, or becomes *)
(* late, only when no attempt is under way.                                *)
Fewer ==
  /\ UNCHANGED stored
  /\ queue' \in [Message -> Entry \union {None}]
  /\ \A m \in Message : queue'[m] # None =>
       /\ Queued(m) /\ queue'[m].id = queue[m].id
       /\ queue'[m].uuid \in {queue[m].uuid, None}
       /\ queue'[m].uuid # None => queue'[m].attempts > 0
       /\ \A u \in Underway(queue[m].id)' :
            queue'[m].uuid = queue[m].uuid /\ queue'[m].late = queue[m].late
  /\ attempt' \in [Uuid -> SmsRoute \union {None}]
  /\ \A u \in Uuid : attempt'[u] # None =>
       /\ attempt[u] # None /\ attempt'[u].id = attempt[u].id
       /\ attempt[u].late => attempt'[u].late
  /\ task' \in [Task -> DeliveryTask]
  /\ \A t \in Task :
       \/ task'[t] = task[t]
       \/ task'[t].pc \in {"none", "look"}
       \/ task'[t].pc = "take" /\ task'[t].client \in Client

(* Such a step leaves no more under way than was.                          *)
LEMMA FewerUnderway ==
  ASSUME Fewer, NEW id
  PROVE  Underway(id)' \subseteq Underway(id)
<1> SUFFICES ASSUME NEW u \in Uuid, u \in Underway(id)'
             PROVE  u \in Underway(id)
  BY DEF Underway
<1>1. CASE attempt'[u] # None /\ attempt'[u].id = id /\ ~attempt'[u].late
  BY <1>1 DEF Fewer, Underway
<1>2. CASE \E t \in Task : /\ task'[t].pc = "send"
                           /\ task'[t].id = id /\ task'[t].uuid = u
  BY <1>2 DEF Fewer, Underway
<1> QED BY <1>1, <1>2 DEF Underway

(* Such a step preserves what is said of deliveries.                       *)
LEMMA FewerInv ==
  ASSUME Deliveries, Fewer
  PROVE  Deliveries'
<1> USE DEF Deliveries
<1>1. QueueOK'
  <2>1. QueuedNow' \subseteq QueuedNow
    BY DEF Fewer, QueuedNow, Queued
  <2>2. IsFiniteSet(QueuedNow') /\ Cardinality(QueuedNow') <= Cardinality(QueuedNow)
    BY <2>1, FS_Subset DEF QueueOK
  <2>3. Cardinality(QueuedNow) \in Nat /\ Cardinality(QueuedNow') \in Nat
    BY <2>2, FS_CardinalityType DEF QueueOK
  <2> QED BY <2>2, <2>3, Nones DEF QueueOK, Fewer
<1>2. AttemptsOK'
  BY DEF AttemptsOK, Fewer
<1>3. TasksOK'
  BY DEF TasksOK, Fewer
<1>4. InFlightIsTried'
  BY DEF InFlightIsTried, Fewer, Queued
<1>5. IdsAreOwn'
  <2>1. \A m \in Message : Queued(m)' => Queued(m) /\ queue'[m].id = queue[m].id
    BY DEF Fewer, Queued
  <2>2. \A u \in Uuid : attempt'[u] # None =>
          attempt[u] # None /\ attempt'[u].id = attempt[u].id
    BY DEF Fewer
  <2>3. \A t \in Task : task'[t].pc = "send" => task'[t] = task[t]
    BY DEF Fewer
  <2>4. stored' = stored
    BY DEF Fewer
  <2> QED BY <2>1, <2>2, <2>3, <2>4 DEF IdsAreOwn
<1>6. MarkedWhileUnderway'
  <2> SUFFICES ASSUME NEW m \in Message, Queued(m)',
                      NEW u, u \in Underway(queue[m].id)'
               PROVE  queue'[m].uuid = u /\ ~queue'[m].late
    BY DEF MarkedWhileUnderway
  <2>2. Queued(m) /\ queue'[m].uuid = queue[m].uuid /\ queue'[m].late = queue[m].late
        /\ queue'[m].id = queue[m].id
    BY DEF Fewer, Queued
  <2>1. u \in Underway(queue[m].id)
    BY <2>2, FewerUnderway DEF Underway
  <2> QED BY <2>1, <2>2 DEF MarkedWhileUnderway
<1>7. HeldUuids'
  <2>1. \A t \in Task : task'[t].pc = "send" => task'[t] = task[t]
    BY DEF Fewer
  <2>2. \A u \in Uuid : attempt[u] = None => attempt'[u] = None
    BY DEF Fewer
  <2> QED BY <2>1, <2>2 DEF HeldUuids, TasksOK
<1>8. MarksAreOwn'
  <2> SUFFICES ASSUME NEW m \in Message, Queued(m)'
               PROVE  /\ \A u \in Uuid :
                           queue'[m].uuid = u /\ attempt'[u] # None =>
                             attempt'[u].id = queue'[m].id
                      /\ \A t \in Task : task'[t].pc = "send"
                                         /\ task'[t].uuid = queue'[m].uuid =>
                           task'[t].id = queue'[m].id
    BY DEF MarksAreOwn, Queued
  <2>1. /\ Queued(m) /\ queue'[m].id = queue[m].id
        /\ queue'[m].uuid \in {queue[m].uuid, None}
    BY DEF Fewer, Queued
  <2>2. \A u \in Uuid : attempt'[u] # None =>
          attempt[u] # None /\ attempt'[u].id = attempt[u].id
    BY DEF Fewer
  <2>3. \A t \in Task : task'[t].pc = "send" =>
          task'[t] = task[t] /\ task[t].uuid \in Uuid
    BY DEF Fewer, TasksOK
  <2> QED BY <2>1, <2>2, <2>3, Nones DEF MarksAreOwn
<1> QED BY <1>1, <1>2, <1>3, <1>4, <1>5, <1>6, <1>7, <1>8

(* It is one if the queue stays as it is, whatever ends or begins.         *)
LEMMA SameQueue ==
  ASSUME Deliveries, UNCHANGED <<queue, stored>>,
         attempt' \in [Uuid -> SmsRoute \union {None}],
         \A u \in Uuid : attempt'[u] \in {attempt[u], None},
         task' \in [Task -> DeliveryTask],
         \A t \in Task :
           \/ task'[t] = task[t]
           \/ task'[t].pc \in {"none", "look"}
           \/ task'[t].pc = "take" /\ task'[t].client \in Client
  PROVE  Deliveries'
<1>1. \A m \in Message : queue'[m] # None =>
        /\ Queued(m) /\ queue'[m] = queue[m]
        /\ queue'[m].uuid # None => queue'[m].attempts > 0
  BY DEF Queued, Deliveries, InFlightIsTried
<1>2. queue' \in [Message -> Entry \union {None}]
  BY DEF Deliveries, QueueOK
<1>3. Fewer
  BY <1>1, <1>2 DEF Fewer
<1> QED BY <1>3, FewerInv

(* It is one if no more than the queue changes, and no message in a way    *)
(* that matters while an attempt is under way.                             *)
LEMMA SameAttempts ==
  ASSUME Deliveries, UNCHANGED <<stored, attempt, task>>,
         queue' \in [Message -> Entry \union {None}],
         \A m \in Message : queue'[m] # None =>
           /\ Queued(m) /\ queue'[m].id = queue[m].id
           /\ queue'[m].attempts = queue[m].attempts
           /\ \/ queue'[m].uuid = queue[m].uuid /\ queue'[m].late = queue[m].late
              \/ queue[m].late /\ queue'[m].uuid = None
  PROVE  Deliveries'
<1>1. ASSUME NEW m \in Message, queue'[m] # None
      PROVE  /\ Queued(m) /\ queue'[m].id = queue[m].id
             /\ queue'[m].uuid \in {queue[m].uuid, None}
             /\ queue'[m].uuid # None => queue'[m].attempts > 0
             /\ \A u \in Underway(queue[m].id)' :
                  queue'[m].uuid = queue[m].uuid /\ queue'[m].late = queue[m].late
  <2>1. /\ Queued(m) /\ queue'[m].id = queue[m].id
        /\ queue'[m].uuid \in {queue[m].uuid, None}
        /\ queue'[m].uuid # None => queue'[m].attempts > 0
    BY <1>1 DEF Deliveries, InFlightIsTried
  <2>2. Underway(queue[m].id)' = Underway(queue[m].id)
    BY <2>1 DEF Underway
  <2>3. queue[m].late => Underway(queue[m].id) = {}
    BY <2>1 DEF Deliveries, MarkedWhileUnderway, Underway
  <2> QED BY <1>1, <2>1, <2>2, <2>3
<1>2. Fewer
  BY <1>1 DEF Fewer, Deliveries, AttemptsOK, TasksOK
<1> QED BY <1>2, FewerInv

-----------------------------------------------------------------------------
(* Initially nothing is registered, queued or under way.                   *)
LEMMA InitInv == Init => IInv
<1> SUFFICES ASSUME Init PROVE IInv
  OBVIOUS
<1> USE DEF Init
<1>1. \A m \in Message : ~Queued(m)
  BY DEF Queued, NoMessages
<1>2. QueuedNow = {}
  BY <1>1 DEF QueuedNow
<1>3. ServerOK
  BY DEF ServerOK
<1>4. QueueOK
  BY <1>2, FS_EmptySet, Nones DEF QueueOK, NoMessages
<1>5. AttemptsOK /\ TasksOK
  BY TaskRecords DEF AttemptsOK, TasksOK
<1>6. \A t \in Task : task[t].pc = "none"
  BY TaskRecords
<1>7. InFlightIsTried /\ IdsAreOwn /\ MarkedWhileUnderway
      /\ HeldUuids /\ MarksAreOwn
  BY <1>1, <1>6 DEF InFlightIsTried, IdsAreOwn, MarkedWhileUnderway, HeldUuids,
                    MarksAreOwn
<1> QED BY <1>3, <1>4, <1>5, <1>7 DEF IInv, Deliveries

-----------------------------------------------------------------------------
(* The server's connections and registrations.                             *)

(* Registering spawns a task at most.                                      *)
LEMMA RegisterInv ==
  ASSUME IInv, NEW c \in Client, Register(c)
  PROVE  IInv'
<1>1. ServerOK'
  BY DEF IInv, ServerOK, Register, Move
<1>2. /\ task' \in [Task -> DeliveryTask]
      /\ \A t \in Task : task'[t] = task[t] \/ task'[t].pc = "look"
  BY SpawnedTask DEF Register, IInv, Deliveries, TasksOK
<1>3. Deliveries'
  BY <1>2, SameQueue DEF Register, IInv, Deliveries, AttemptsOK
<1> QED BY <1>1, <1>3 DEF IInv

(* A connection that goes takes its SDS routes along.                      *)
LEMMA DisconnectInv ==
  ASSUME IInv, NEW c \in Client, Disconnect(c)
  PROVE  IInv'
<1>1. ServerOK'
  BY DEF IInv, ServerOK, Disconnect, Upset, center
<1>2. /\ attempt' \in [Uuid -> SmsRoute \union {None}]
      /\ \A u \in Uuid : attempt'[u] \in {attempt[u], None}
  BY DEF Disconnect, IInv, Deliveries, AttemptsOK
<1>3. Deliveries'
  BY <1>2, SameQueue DEF Disconnect, IInv, Deliveries, TasksOK, center
<1> QED BY <1>1, <1>3 DEF IInv

(* A restart forgets every task and every attempt, and keeps the queue.    *)
LEMMA RestartInv ==
  ASSUME IInv, Restart
  PROVE  IInv'
<1>1. ServerOK'
  BY DEF IInv, ServerOK, Restart, Upset, center
<1>2. /\ attempt' \in [Uuid -> SmsRoute \union {None}]
      /\ \A u \in Uuid : attempt'[u] \in {attempt[u], None}
      /\ task' \in [Task -> DeliveryTask]
      /\ \A t \in Task : task'[t].pc = "none"
  BY TaskRecords DEF Restart
<1>3. Deliveries'
  BY <1>2, SameQueue DEF Restart, IInv, center
<1> QED BY <1>1, <1>3 DEF IInv

(* The rest of what happens to the server does not touch deliveries.       *)
LEMMA ServerInv ==
  ASSUME IInv,
         \/ Deregister \/ Blacklist
         \/ \E c \in Client : Reconnect(c)
         \/ \E m \in Message : SdsHeader(m)
         \/ UNCHANGED vars
  PROVE  IInv'
<1>1. ServerOK'
  <2>1. CASE Deregister
    BY <2>1 DEF IInv, ServerOK, Deregister, Move, center
  <2>5. CASE Blacklist
    BY <2>5 DEF IInv, ServerOK, Blacklist, Upset, center
  <2>2. ASSUME NEW c \in Client, Reconnect(c)
        PROVE  ServerOK'
    BY <2>2 DEF IInv, ServerOK, Reconnect, center, bounds
  <2>3. ASSUME NEW m \in Message, SdsHeader(m)
        PROVE  ServerOK'
    BY <2>3 DEF IInv, ServerOK, SdsHeader, center, bounds
  <2>4. CASE UNCHANGED vars
    BY <2>4 DEF IInv, ServerOK, vars, server, center, bounds
  <2> QED BY <2>1, <2>2, <2>3, <2>4, <2>5
<1>2. UNCHANGED <<queue, stored, attempt, task>>
  BY DEF Deregister, Blacklist, Reconnect, SdsHeader, vars, center
<1>3. Deliveries'
  BY <1>2, SameQueue DEF IInv, Deliveries, TasksOK, AttemptsOK
<1> QED BY <1>1, <1>3 DEF IInv

-----------------------------------------------------------------------------
(* Storing.                                                                *)

(* A message stored for the first time has an id nothing goes by yet.      *)
LEMMA SdsTransferInv ==
  ASSUME IInv, NEW m \in Message, SdsTransfer(m)
  PROVE  IInv'
<1> DEFINE StoredNew ==
             /\ ~Queued(m) /\ Cardinality(QueuedNow) < QueueLimit
             /\ queue' = [queue EXCEPT ![m] = NewMessage] /\ stored' = stored + 1
<1>1. ServerOK'
  BY DEF IInv, ServerOK, SdsTransfer, bounds
<1>2. UNCHANGED <<attempt, task>>
  BY DEF SdsTransfer
<1>3. CASE UNCHANGED <<queue, stored>>
  BY <1>1, <1>2, <1>3, SameQueue DEF IInv, Deliveries, AttemptsOK, TasksOK
<1>4. CASE StoredNew
  <2> USE <1>2, <1>4 DEF IInv, Deliveries
  <2>1. /\ NewMessage \in Entry /\ NewMessage.id = stored + 1
        /\ NewMessage.uuid = None /\ stored \in Nat
    BY DEF NewMessage, Entry, QueueOK
  <2>2. /\ queue \in [Message -> Entry \union {None}]
        /\ \A n \in Message : n # m => queue'[n] = queue[n]
        /\ queue'[m] = NewMessage
        /\ queue' \in [Message -> Entry \union {None}]
    BY <2>1 DEF QueueOK
  <2>3. \A n \in Message : Queued(n)' /\ n # m => Queued(n)
    BY <2>2 DEF Queued
  <2>4. QueueOK'
    <3>1. QueuedNow' = QueuedNow \union {m} /\ m \notin QueuedNow
      BY <2>1, <2>2, Nones DEF QueuedNow, Queued
    <3>2. IsFiniteSet(QueuedNow') /\ Cardinality(QueuedNow') = Cardinality(QueuedNow) + 1
      BY <3>1, FS_AddElement DEF QueueOK
    <3>3. Cardinality(QueuedNow) \in Nat
      BY FS_CardinalityType DEF QueueOK
    <3> QED BY <2>1, <2>2, <3>2, <3>3, Nones DEF QueueOK
  <2>5. AttemptsOK' /\ TasksOK' /\ HeldUuids'
    BY DEF AttemptsOK, TasksOK, HeldUuids
  <2>6. InFlightIsTried'
    BY <2>1, <2>2, <2>3 DEF InFlightIsTried
  <2>7. IdsAreOwn'
    <3>1. \A n \in Message : Queued(n) => queue[n].id <= stored /\ queue[n].id \in Nat
      BY Parts DEF IdsAreOwn
    <3>2. \A u \in Uuid : attempt[u] # None =>
            attempt[u].id <= stored /\ attempt[u].id \in Nat
      BY Parts DEF IdsAreOwn
    <3>3. \A t \in Task : task[t].pc = "send" => task[t].id <= stored /\ task[t].id \in Nat
      BY Parts DEF IdsAreOwn
    <3> QED BY <2>1, <2>2, <2>3, <3>1, <3>2, <3>3 DEF IdsAreOwn
  <2>8. Underway(stored + 1) = {}
    <3>1. \A u \in Uuid : attempt[u] # None => attempt[u].id # stored + 1
      BY <2>1, Parts DEF IdsAreOwn
    <3>2. \A t \in Task : task[t].pc = "send" => task[t].id # stored + 1
      BY <2>1, Parts DEF IdsAreOwn
    <3> QED BY <3>1, <3>2 DEF Underway
  <2>9. MarkedWhileUnderway'
    <3> SUFFICES ASSUME NEW n \in Message, Queued(n)',
                        NEW u, u \in Underway(queue[n].id)'
                 PROVE  queue'[n].uuid = u /\ ~queue'[n].late
      BY DEF MarkedWhileUnderway
    <3>1. u \in Underway(queue'[n].id)
      BY DEF Underway
    <3>2. n # m
      BY <2>1, <2>2, <2>8, <3>1
    <3> QED BY <2>2, <2>3, <3>1, <3>2 DEF MarkedWhileUnderway
  <2>10. MarksAreOwn'
    <3>1. \A t \in Task : task[t].pc = "send" => task[t].uuid # None
      BY Nones DEF TasksOK
    <3> QED BY <2>1, <2>2, <2>3, <3>1, Nones DEF MarksAreOwn
  <2> QED BY <1>1, <2>4, <2>5, <2>6, <2>7, <2>9, <2>10
<1>5. Stored(m) => UNCHANGED <<queue, stored>> \/ StoredNew
  <2>1. Cardinality(QueuedNow) \in Nat /\ QueueLimit \in Nat
    BY FS_CardinalityType, Nones DEF IInv, Deliveries, QueueOK
  <2> QED BY <2>1 DEF Stored, QueuedNow
<1> QED BY <1>3, <1>4, <1>5 DEF SdsTransfer

-----------------------------------------------------------------------------
(* Time, the sweep and the operator.                                       *)

(* The report is overdue from now on, for the mark and for the attempt;    *)
(* no task still holds the message.                                        *)
LEMMA LateInv ==
  ASSUME IInv, NEW m \in Message, Late(m)
  PROVE  IInv'
<1> USE DEF IInv, Deliveries
<1>1. ServerOK'
  BY DEF ServerOK, Late, server, bounds
<1>2. /\ queue \in [Message -> Entry \union {None}] /\ queue[m] \in Entry
      /\ queue[m] # None
  BY Parts DEF Late, QueueOK, Queued
<1>3. queue' = [queue EXCEPT ![m] = [queue[m] EXCEPT !.late = TRUE]]
  BY <1>2 DEF Late
<1>4. LET new == [queue[m] EXCEPT !.late = TRUE]
      IN  /\ new \in Entry /\ new.id = queue[m].id /\ new.uuid = queue[m].uuid
          /\ new.attempts = queue[m].attempts
  BY <1>2 DEF Entry
<1>5. /\ queue' \in [Message -> Entry \union {None}]
      /\ \A n \in Message : queue'[n] # None =>
           /\ Queued(n) /\ queue'[n].id = queue[n].id
           /\ queue'[n].uuid = queue[n].uuid
           /\ queue'[n].attempts = queue[n].attempts
           /\ n # m => queue'[n] = queue[n]
  BY <1>2, <1>3, <1>4 DEF Queued
<1>6. ASSUME NEW u \in Uuid
      PROVE  /\ attempt'[u] \in SmsRoute \union {None}
             /\ attempt'[u] # None =>
                  /\ attempt[u] # None /\ attempt'[u].id = attempt[u].id
                  /\ attempt[u].late => attempt'[u].late
                  /\ queue[m].uuid = u => attempt'[u].late
  <2>1. CASE attempt[u] = None \/ queue[m].uuid # u
    BY <1>2, <2>1 DEF Late, AttemptsOK, Current
  <2>2. CASE attempt[u] # None /\ queue[m].uuid = u
    <3>1. attempt'[u] = [attempt[u] EXCEPT !.late = TRUE] /\ attempt[u] \in SmsRoute
      BY <2>2, <1>2 DEF Late, AttemptsOK, Current, Queued
    <3> QED BY <2>2, <3>1 DEF SmsRoute
  <2> QED BY <2>1, <2>2
<1>7. attempt' \in [Uuid -> SmsRoute \union {None}]
  BY <1>6 DEF Late
<1>8. Underway(queue[m].id)' = {}
  <2> SUFFICES ASSUME NEW u \in Uuid, u \in Underway(queue[m].id)'
               PROVE  FALSE
    BY DEF Underway
  <2>1. queue'[m].id = queue[m].id /\ Queued(m)
    BY <1>2, <1>3, <1>4 DEF Queued
  <2>2. ~\E t \in Task : task'[t].pc = "send" /\ task'[t].id = queue[m].id
    BY <2>1 DEF Late, Held, Holds
  <2>3. attempt'[u] # None /\ attempt'[u].id = queue[m].id /\ ~attempt'[u].late
    BY <2>1, <2>2 DEF Underway
  <2>4. attempt[u] # None /\ attempt[u].id = queue[m].id /\ ~attempt[u].late
    BY <1>6, <2>3
  <2>5. u \in Underway(queue[m].id)
    BY <2>4 DEF Underway
  <2>6. queue[m].uuid = u
    BY <2>1, <2>5 DEF MarkedWhileUnderway
  <2> QED BY <1>6, <2>3, <2>6
<1>9. Fewer
  <2>1. ASSUME NEW n \in Message, queue'[n] # None
        PROVE  /\ Queued(n) /\ queue'[n].id = queue[n].id
               /\ queue'[n].uuid \in {queue[n].uuid, None}
               /\ queue'[n].uuid # None => queue'[n].attempts > 0
               /\ \A u \in Underway(queue[n].id)' :
                    queue'[n].uuid = queue[n].uuid /\ queue'[n].late = queue[n].late
    BY <2>1, <1>5, <1>8 DEF InFlightIsTried
  <2> QED BY <2>1, <1>5, <1>6, <1>7 DEF Fewer, Late, TasksOK
<1> QED BY <1>1, <1>9, FewerInv

(* Resting and expiring leave id, mark and attempts alone; the operator's  *)
(* delete leaves the other messages alone.                                 *)
LEMMA RestInv ==
  ASSUME IInv, NEW m \in Message, Rest(m) \/ Expire(m) \/ Delete(m)
  PROVE  IInv'
<1> USE DEF IInv, Deliveries
<1>1. ServerOK'
  <2>1. CASE Rest(m) \/ Expire(m)
    BY <2>1 DEF ServerOK, Rest, Expire, server, bounds
  <2>2. CASE Delete(m)
    BY <2>2 DEF ServerOK, Delete, Upset, server
  <2> QED BY <2>1, <2>2
<1>2. /\ queue \in [Message -> Entry \union {None}] /\ queue[m] \in Entry
      /\ queue[m] # None
  BY Parts DEF Rest, Expire, Delete, QueueOK, Queued
<1>3. PICK new :
        /\ queue' = [queue EXCEPT ![m] = new]
        /\ new \in Entry \union {None}
        /\ new # None => /\ new.id = queue[m].id /\ new.uuid = queue[m].uuid
                         /\ new.attempts = queue[m].attempts
                         /\ new.late = queue[m].late
  <2>1. CASE Rest(m)
    <3>1. LET new == [queue[m] EXCEPT !.rested = TRUE]
          IN  /\ new \in Entry /\ new.id = queue[m].id
              /\ new.uuid = queue[m].uuid /\ new.attempts = queue[m].attempts
              /\ new.late = queue[m].late
              /\ queue' = [queue EXCEPT ![m] = new]
      BY <1>2, <2>1 DEF Rest, Entry
    <3> QED BY <3>1
  <2>2. CASE Expire(m)
    <3>1. LET new == [queue[m] EXCEPT !.expired = TRUE]
          IN  /\ new \in Entry /\ new.id = queue[m].id
              /\ new.uuid = queue[m].uuid /\ new.attempts = queue[m].attempts
              /\ new.late = queue[m].late
              /\ queue' = [queue EXCEPT ![m] = new]
      BY <1>2, <2>2 DEF Expire, Entry
    <3> QED BY <3>1
  <2>3. CASE Delete(m)
    BY <2>3 DEF Delete
  <2> QED BY <2>1, <2>2, <2>3
<1>4. /\ queue' \in [Message -> Entry \union {None}]
      /\ \A n \in Message : queue'[n] # None =>
           /\ Queued(n) /\ queue'[n].id = queue[n].id
           /\ queue'[n].attempts = queue[n].attempts
           /\ queue'[n].uuid = queue[n].uuid /\ queue'[n].late = queue[n].late
  BY <1>2, <1>3 DEF Queued
<1>5. UNCHANGED <<stored, attempt, task>>
  BY DEF Rest, Expire, Delete
<1> QED BY <1>1, <1>4, <1>5, SameAttempts

(* Taking the mark off changes nothing else of a message.                  *)
LEMMA FreedEntry ==
  ASSUME NEW e \in Entry
  PROVE  /\ Freed(e) \in Entry /\ Freed(e).id = e.id
         /\ Freed(e).attempts = e.attempts /\ Freed(e).late = e.late
         /\ Freed(e).expired = e.expired
         /\ \/ Freed(e).uuid = e.uuid
            \/ e.late /\ Freed(e).uuid = None
BY DEF Freed, Entry

(* The sweep takes the marks off that are overdue, and gives up messages   *)
(* that no report is awaited for.                                          *)
LEMMA SweepInv ==
  ASSUME IInv, Sweep
  PROVE  IInv'
<1> USE DEF IInv, Deliveries
<1>1. ServerOK'
  BY DEF ServerOK, Sweep, server, bounds
<1>2. ASSUME NEW n \in Message
      PROVE  /\ queue'[n] \in Entry \union {None}
             /\ queue'[n] # None =>
                  /\ Queued(n) /\ queue'[n].id = queue[n].id
                  /\ queue'[n].attempts = queue[n].attempts
                  /\ \/ queue'[n].uuid = queue[n].uuid
                        /\ queue'[n].late = queue[n].late
                     \/ queue[n].late /\ queue'[n].uuid = None
  <2>1. queue'[n] = Swept(n)
    BY DEF Sweep
  <2>2. Queued(n) => queue[n] \in Entry
    BY DEF QueueOK, Queued
  <2> QED BY <2>1, <2>2, FreedEntry DEF Swept
<1>3. queue' \in [Message -> Entry \union {None}]
  BY <1>2 DEF Sweep
<1>4. UNCHANGED <<stored, attempt, task>>
  BY DEF Sweep
<1> QED BY <1>1, <1>2, <1>3, <1>4, SameAttempts

(* What the sweep finds due is delivered by one more task.                 *)
LEMMA SpawnDueInv ==
  ASSUME IInv, SpawnDue
  PROVE  IInv'
<1>1. ServerOK'
  BY DEF IInv, ServerOK, SpawnDue, server, center, bounds
<1>2. /\ task' \in [Task -> DeliveryTask]
      /\ \A t \in Task : task'[t] = task[t] \/ task'[t].pc = "look"
  BY SpawnedTask DEF SpawnDue, IInv, Deliveries, TasksOK
<1>3. Deliveries'
  BY <1>2, SameQueue DEF SpawnDue, IInv, Deliveries, AttemptsOK, center
<1> QED BY <1>1, <1>3 DEF IInv

-----------------------------------------------------------------------------
(* Answers.                                                                *)

(* A report ends its attempt, and the message that awaits it.              *)
LEMMA SdsReportInv ==
  ASSUME IInv, NEW u \in Uuid, SdsReport(u)
  PROVE  IInv'
<1> USE DEF IInv, Deliveries
<1>1. ServerOK'
  BY DEF ServerOK, SdsReport, server, bounds
<1>2. /\ queue' \in [Message -> Entry \union {None}]
      /\ \A m \in Message : queue'[m] # None => queue'[m] = queue[m]
      /\ attempt' \in [Uuid -> SmsRoute \union {None}]
      /\ \A v \in Uuid : attempt'[v] \in {attempt[v], None}
  BY DEF SdsReport, Done, QueueOK, AttemptsOK
<1>3. UNCHANGED <<stored, task>>
  BY DEF SdsReport
<1>4. Fewer
  BY <1>2, <1>3 DEF Fewer, TasksOK, InFlightIsTried, Queued
<1> QED BY <1>1, <1>4, FewerInv

(* An attempt without an answer is forgotten.                              *)
LEMMA ForgetInv ==
  ASSUME IInv, NEW u \in Uuid, Forget(u)
  PROVE  IInv'
<1>1. ServerOK'
  BY DEF IInv, ServerOK, Forget, server, center, bounds
<1>2. /\ attempt' \in [Uuid -> SmsRoute \union {None}]
      /\ \A v \in Uuid : attempt'[v] \in {attempt[v], None}
  BY DEF IInv, Deliveries, Forget, AttemptsOK
<1>3. Deliveries'
  BY <1>2, SameQueue DEF Forget, IInv, Deliveries, TasksOK, center
<1> QED BY <1>1, <1>3 DEF IInv

-----------------------------------------------------------------------------
(* deliver_pending.                                                        *)

(* Looking the destination up ends the task or gives it a connection.      *)
LEMMA LookInv ==
  ASSUME IInv, NEW t \in Task, Look(t)
  PROVE  IInv'
<1> USE DEF IInv, Deliveries
<1>1. ServerOK'
  BY DEF ServerOK, Look, server, center, bounds
<1>2. task[t] \in DeliveryTask /\ task \in [Task -> DeliveryTask]
  BY DEF TasksOK
<1>3. CASE Registered
  <2>1. place \in Client
    BY <1>3 DEF Registered, ServerOK
  <2>2. LET new == [task[t] EXCEPT !.pc = "take", !.client = place]
        IN  /\ new \in DeliveryTask /\ new.pc = "take" /\ new.client = place
            /\ task' = [task EXCEPT ![t] = new]
    BY <1>2, <1>3, <2>1 DEF Look, DeliveryTask
  <2>3. /\ task' \in [Task -> DeliveryTask]
        /\ task'[t].pc = "take" /\ task'[t].client \in Client
        /\ \A s \in Task : s # t => task'[s] = task[s]
    BY <1>2, <2>1, <2>2
  <2> QED BY <1>1, <2>3, SameQueue DEF Look, AttemptsOK, center
<1>4. CASE ~Registered
  <2>1. task' = [task EXCEPT ![t] = NoTask]
    BY <1>2, <1>4 DEF Look
  <2>2. /\ task' \in [Task -> DeliveryTask] /\ task'[t].pc = "none"
        /\ \A s \in Task : s # t => task'[s] = task[s]
    BY <1>2, <2>1, TaskRecords
  <2> QED BY <1>1, <2>2, SameQueue DEF Look, AttemptsOK, center
<1> QED BY <1>3, <1>4

(* The least fresh uuid is one.                                            *)
LEMMA LeastFresh ==
  ASSUME FreshUuids # {}
  PROVE  (CHOOSE u \in FreshUuids : \A v \in FreshUuids : u <= v) \in FreshUuids
<1>1. FreshUuids \subseteq Nat
  BY Nones DEF FreshUuids
<1>2. PICK u \in FreshUuids :
        \A v \in FreshUuids : <<v, u>> \notin OpToRel(<, Nat)
  BY <1>1, WFMin, NatLessThanWellFounded
<1>3. \A v \in FreshUuids : ~(v < u)
  BY <1>1, <1>2 DEF OpToRel
<1>4. \A v \in FreshUuids : u <= v
  BY <1>1, <1>3
<1> QED BY <1>4

(* Taking a message counts one more attempt.                               *)
LEMMA TakenEntry ==
  ASSUME NEW e \in Entry, NEW u \in Uuid
  PROVE  LET new == [e EXCEPT !.uuid = u, !.attempts = e.attempts + 1,
                              !.late = FALSE, !.rested = FALSE]
         IN  /\ new \in Entry /\ new.id = e.id /\ new.uuid = u
             /\ new.attempts = e.attempts + 1 /\ new.late = FALSE
<1>1. PICK n \in Nat : n = e.attempts + 1
  BY DEF Entry
<1>2. LET new == [e EXCEPT !.uuid = u, !.attempts = n,
                           !.late = FALSE, !.rested = FALSE]
      IN  /\ new \in Entry /\ new.id = e.id /\ new.uuid = u
          /\ new.attempts = n /\ new.late = FALSE
  BY DEF Entry
<1> QED BY <1>1, <1>2

(* Releasing it takes the attempt back, and keeps it in the queue.         *)
LEMMA ReleasedEntry ==
  ASSUME NEW e \in Entry, e.attempts > 0
  PROVE  LET new == [e EXCEPT !.uuid = None, !.attempts = @ - 1]
         IN  new \in Entry /\ new.id = e.id /\ new.uuid = None
<1>1. PICK n \in Nat : n = e.attempts - 1
  BY DEF Entry
<1>2. LET new == [e EXCEPT !.uuid = None, !.attempts = n]
      IN  new \in Entry /\ new.id = e.id /\ new.uuid = None
  BY DEF Entry
<1> QED BY <1>1, <1>2

(* Taking a message marks it with a fresh uuid: nothing of it was under    *)
(* way, and only this task is from now on.                                 *)
LEMMA TakeInv ==
  ASSUME IInv, NEW t \in Task, Take(t)
  PROVE  IInv'
<1> USE DEF IInv, Deliveries
<1>1. ServerOK'
  <2>1. UNCHANGED <<known, server, sweeper, bounds>>
    BY DEF Take, center
  <2> QED BY <2>1 DEF ServerOK, server, bounds
<1>2. /\ task[t] \in DeliveryTask /\ task \in [Task -> DeliveryTask]
      /\ task[t].pc = "take" /\ task[t].client \in Client
  BY DEF Take, TasksOK
<1>3. CASE Oldest(task[t].force) = {}
  <2>1. task' = [task EXCEPT ![t] = NoTask]
    BY <1>3 DEF Take
  <2>2. /\ task' \in [Task -> DeliveryTask] /\ task'[t].pc = "none"
        /\ \A s \in Task : s # t => task'[s] = task[s]
    BY <1>2, <2>1, TaskRecords
  <2> QED BY <1>1, <1>3, <2>2, SameQueue DEF Take, AttemptsOK, center
<1>4. CASE Oldest(task[t].force) # {}
  <2>1. PICK m \in Oldest(task[t].force), u \in FreshUuids :
          /\ queue' = Taken(m, u)
          /\ task' = [task EXCEPT ![t] =
               [@ EXCEPT !.pc = "send", !.msg = m, !.id = queue[m].id, !.uuid = u]]
    BY <1>4, LeastFresh DEF Take
  <2>2. UNCHANGED <<stored, attempt>>
    BY <1>4 DEF Take
  <2>3. /\ m \in Message /\ Queued(m) /\ queue[m].uuid = None
        /\ queue[m] \in Entry /\ queue \in [Message -> Entry \union {None}]
        /\ queue[m].id \in Nat \ {0} /\ queue[m].attempts \in Nat
    BY Parts DEF Oldest, Due, QueueOK
  <2>4. /\ u \in Uuid /\ u # None /\ attempt[u] = None
        /\ \A n \in Message : Queued(n) => queue[n].uuid # u
        /\ \A s \in Task : task[s].uuid # u
    <3>1. u \in FreshUuids
      OBVIOUS
    <3> QED BY <3>1, Nones DEF FreshUuids
  <2>5. LET new == [queue[m] EXCEPT !.uuid = u,
                                    !.attempts = queue[m].attempts + 1,
                                    !.late = FALSE, !.rested = FALSE]
        IN  /\ new \in Entry /\ new.id = queue[m].id /\ new.uuid = u
            /\ new.attempts = queue[m].attempts + 1 /\ new.late = FALSE
            /\ queue' = [queue EXCEPT ![m] = new]
    BY <2>1, <2>3, <2>4, TakenEntry DEF Taken
  <2>6. /\ queue' \in [Message -> Entry \union {None}]
        /\ queue'[m] # None /\ queue'[m].id = queue[m].id
        /\ queue'[m].uuid = u /\ queue'[m].attempts > 0 /\ queue'[m].late = FALSE
        /\ \A n \in Message : n # m => queue'[n] = queue[n]
    BY <2>3, <2>5, Nones
  <2>7. LET new == [task[t] EXCEPT !.pc = "send", !.msg = m,
                                   !.id = queue[m].id, !.uuid = u]
        IN  /\ new \in DeliveryTask /\ new.pc = "send" /\ new.msg = m
            /\ new.id = queue[m].id /\ new.uuid = u
            /\ new.client = task[t].client
            /\ task' = [task EXCEPT ![t] = new]
    BY <1>2, <2>1, <2>3, <2>4 DEF DeliveryTask
  <2>8. /\ task' \in [Task -> DeliveryTask]
        /\ task'[t].pc = "send" /\ task'[t].msg = m
        /\ task'[t].id = queue[m].id /\ task'[t].uuid = u
        /\ task'[t].client \in Client
        /\ \A s \in Task : s # t => task'[s] = task[s]
    BY <1>2, <2>7
  <2>9. \A n \in Message : Queued(n)' <=> Queued(n)
    BY <2>3, <2>6 DEF Queued
  <2>10. QueueOK'
    <3>1. QueuedNow' = QueuedNow
      BY <2>9 DEF QueuedNow
    <3> QED BY <2>2, <2>6, <3>1 DEF QueueOK
  <2>11. AttemptsOK' /\ TasksOK'
    BY <2>2, <2>3, <2>4, <2>8 DEF AttemptsOK, TasksOK
  <2>12. InFlightIsTried'
    BY <2>6, <2>9 DEF InFlightIsTried
  <2>13. IdsAreOwn'
    BY <2>2, <2>3, <2>6, <2>8, <2>9 DEF IdsAreOwn
  <2>14. MarkedWhileUnderway'
    <3> SUFFICES ASSUME NEW n \in Message, Queued(n)',
                        NEW v \in Uuid, v \in Underway(queue[n].id)'
                 PROVE  queue'[n].uuid = v /\ ~queue'[n].late
      BY DEF MarkedWhileUnderway, Underway
    <3>1. Queued(n) /\ queue'[n].id = queue[n].id
      BY <2>6, <2>9
    <3>2. v \in Underway(queue[n].id) \/ (n = m /\ v = u)
      <4>1. CASE attempt[v] # None /\ attempt[v].id = queue[n].id /\ ~attempt[v].late
        BY <4>1 DEF Underway
      <4>2. ASSUME NEW s \in Task, task'[s].pc = "send",
                   task'[s].id = queue[n].id, task'[s].uuid = v
            PROVE  v \in Underway(queue[n].id) \/ (n = m /\ v = u)
        <5>1. CASE s = t
          BY <2>3, <2>8, <3>1, <4>2, <5>1 DEF IdsAreOwn
        <5>2. CASE s # t
          BY <2>8, <4>2, <5>2 DEF Underway
        <5> QED BY <5>1, <5>2
      <4> QED BY <2>2, <3>1, <4>1, <4>2 DEF Underway
    <3>3. CASE n = m
      <4>1. v \notin Underway(queue[m].id)
        BY <2>3, Nones DEF MarkedWhileUnderway
      <4> QED BY <2>6, <3>2, <3>3, <4>1
    <3>4. CASE n # m
      BY <2>6, <3>1, <3>2, <3>4 DEF MarkedWhileUnderway
    <3> QED BY <3>3, <3>4
  <2>15. HeldUuids'
    BY <2>2, <2>4, <2>8 DEF HeldUuids
  <2>16. MarksAreOwn'
    BY <2>2, <2>4, <2>6, <2>8, <2>9 DEF MarksAreOwn
  <2> QED BY <1>1, <2>10, <2>11, <2>12, <2>13, <2>14, <2>15, <2>16
<1> QED BY <1>3, <1>4

(* Sent to a connection that is there, the attempt is under way in the     *)
(* task's place.                                                           *)
LEMMA SendsInv ==
  ASSUME IInv, NEW t \in Task, Send(t), ~blocked /\ task[t].client \in up
  PROVE  IInv'
<1> USE DEF IInv, Deliveries
<1> DEFINE u == task[t].uuid
           new == [msg |-> task[t].msg, id |-> task[t].id, to |-> task[t].client,
                   late |-> FALSE]
<1>1. ServerOK'
  BY DEF ServerOK, Send, server, bounds
<1>2. /\ UNCHANGED <<queue, stored>>
      /\ attempt' = [attempt EXCEPT ![u] = new]
      /\ task' = [task EXCEPT ![t] =
           [NoTask EXCEPT !.pc = "look", !.force = task[t].force]]
      /\ task[t].pc = "send"
  BY DEF Send
<1>3. /\ u \in Uuid /\ new \in SmsRoute /\ new.id = task[t].id /\ ~new.late
      /\ new # None /\ task[t].id \in Nat
  <2>1. /\ u \in Uuid /\ task[t].msg \in Message /\ task[t].client \in Client
        /\ task[t].id \in Nat \ {0}
    BY <1>2, Parts DEF TasksOK
  <2>2. new \in SmsRoute
    BY <2>1 DEF SmsRoute
  <2> QED BY <2>1, <2>2, Nones
<1>4. /\ attempt' \in [Uuid -> SmsRoute \union {None}] /\ attempt'[u] = new
      /\ \A v \in Uuid : v # u => attempt'[v] = attempt[v]
  BY <1>2, <1>3 DEF AttemptsOK
<1>5. /\ task' \in [Task -> DeliveryTask] /\ task'[t].pc = "look"
      /\ \A s \in Task : s # t => task'[s] = task[s]
  BY <1>2, Parts, TaskRecords DEF TasksOK
<1> HIDE DEF new
<1>6. QueueOK' /\ AttemptsOK' /\ TasksOK' /\ InFlightIsTried'
  BY <1>2, <1>4, <1>5 DEF QueueOK, AttemptsOK, TasksOK, InFlightIsTried, Queued,
                          QueuedNow
<1>7. IdsAreOwn'
  BY <1>2, <1>3, <1>4, <1>5 DEF IdsAreOwn, Queued
<1>8. MarkedWhileUnderway'
  <2> SUFFICES ASSUME NEW n \in Message, Queued(n),
                      NEW v \in Uuid, v \in Underway(queue[n].id)'
               PROVE  v \in Underway(queue[n].id)
    BY <1>2 DEF MarkedWhileUnderway, Underway, Queued
  <2>1. CASE v = u /\ attempt'[v].id = queue[n].id
    BY <1>2, <1>3, <1>4, <2>1 DEF Underway
  <2>2. CASE /\ attempt[v] # None /\ attempt[v].id = queue[n].id
             /\ ~attempt[v].late
    BY <2>2 DEF Underway
  <2>3. ASSUME NEW s \in Task, task'[s].pc = "send", task'[s].id = queue[n].id,
               task'[s].uuid = v
        PROVE  v \in Underway(queue[n].id)
    BY <1>5, <2>3 DEF Underway
  <2> QED BY <1>2, <1>4, <2>1, <2>2, <2>3 DEF Underway
<1>9. HeldUuids'
  BY <1>2, <1>4, <1>5 DEF HeldUuids, TasksOK
<1>10. MarksAreOwn'
  BY <1>2, <1>3, <1>4, <1>5 DEF MarksAreOwn, Queued
<1> QED BY <1>1, <1>6, <1>7, <1>8, <1>9, <1>10

(* Not sent, the attempt is taken back: the mark goes with the only task   *)
(* that was about to send the message.                                     *)
LEMMA ReleasesInv ==
  ASSUME IInv, NEW t \in Task, Send(t), ~(~blocked /\ task[t].client \in up)
  PROVE  IInv'
<1> USE DEF IInv, Deliveries
<1> DEFINE u == task[t].uuid
<1>1. ServerOK'
  BY DEF ServerOK, Send, server, bounds
<1>2. /\ UNCHANGED <<stored, attempt>> /\ queue' = Released(u)
      /\ task' = [task EXCEPT ![t] = NoTask]
      /\ task[t].pc = "send" /\ u \in Uuid /\ u # None
  BY Nones DEF Send, TasksOK
<1>3. /\ task' \in [Task -> DeliveryTask] /\ task'[t].pc = "none"
      /\ \A s \in Task : s # t => task'[s] = task[s]
  BY <1>2, Parts, TaskRecords DEF TasksOK
<1>4. ASSUME NEW m \in Message
      PROVE  /\ queue'[m] \in Entry \union {None}
             /\ queue'[m] # None =>
                  /\ Queued(m) /\ queue'[m].id = queue[m].id
                  /\ \/ queue'[m].uuid = None /\ queue[m].uuid = u
                     \/ queue'[m] = queue[m] /\ queue[m].uuid # u
  <2>1. CASE Queued(m) /\ queue[m].uuid = u
    <3>1. queue'[m] = [queue[m] EXCEPT !.uuid = None, !.attempts = @ - 1]
      BY <1>2, <2>1 DEF Released
    <3>2. queue[m] \in Entry /\ queue[m].attempts \in Nat /\ queue[m].attempts > 0
      BY <1>2, <2>1, Parts DEF InFlightIsTried
    <3>3. queue'[m] \in Entry /\ queue'[m].id = queue[m].id /\ queue'[m].uuid = None
      BY <3>1, <3>2, ReleasedEntry
    <3> QED BY <2>1, <3>3
  <2>2. CASE ~(Queued(m) /\ queue[m].uuid = u)
    BY <1>2, <2>2 DEF Released, QueueOK, Queued
  <2> QED BY <2>1, <2>2
<1>5. queue' \in [Message -> Entry \union {None}]
  BY <1>2, <1>4 DEF Released
<1>6. ASSUME NEW m \in Message, queue'[m] # None,
             NEW v \in Uuid, v \in Underway(queue[m].id)'
      PROVE  v \in Underway(queue[m].id) /\ v # u
  <2>1. queue'[m].id = queue[m].id
    BY <1>4, <1>6
  <2>2. CASE attempt'[v] # None /\ attempt'[v].id = queue'[m].id /\ ~attempt'[v].late
    BY <1>2, <2>1, <2>2 DEF Underway, HeldUuids
  <2>3. ASSUME NEW s \in Task, task'[s].pc = "send", task'[s].id = queue'[m].id,
               task'[s].uuid = v
        PROVE  v \in Underway(queue[m].id) /\ v # u
    <3>1. s # t /\ task[s] = task'[s]
      BY <1>3, <2>3
    <3> QED BY <1>2, <2>1, <2>3, <3>1 DEF Underway, HeldUuids
  <2> QED BY <1>6, <2>2, <2>3 DEF Underway
<1>7. ASSUME NEW m \in Message, queue'[m] # None,
             NEW v, v \in Underway(queue[m].id)'
      PROVE  queue'[m] = queue[m]
  <2>1. v \in Uuid
    BY <1>7 DEF Underway
  <2>2. Queued(m) /\ v \in Underway(queue[m].id) /\ v # u
    BY <1>4, <1>6, <1>7, <2>1
  <2>3. queue[m].uuid = v
    BY <2>2 DEF MarkedWhileUnderway
  <2> QED BY <1>4, <1>7, <2>2, <2>3
<1>8. \A m \in Message : queue'[m] # None =>
        /\ queue'[m].uuid \in {queue[m].uuid, None}
        /\ queue'[m].uuid # None => queue'[m].attempts > 0
  BY <1>4 DEF InFlightIsTried
<1>9. Fewer
  BY <1>2, <1>3, <1>4, <1>5, <1>7, <1>8 DEF Fewer, AttemptsOK
<1> QED BY <1>1, <1>9, FewerInv

-----------------------------------------------------------------------------
(* Every step preserves the invariant.                                     *)
LEMMA NextInv == IInv /\ [Next]_vars => IInv'
<1> SUFFICES ASSUME IInv, [Next]_vars PROVE IInv'
  OBVIOUS
<1>1. \A t \in Task : Send(t) => IInv'
  BY SendsInv, ReleasesInv
<1> QED
  BY <1>1, RegisterInv, DisconnectInv, RestartInv, ServerInv, SdsTransferInv,
     LateInv, RestInv, SweepInv, SpawnDueInv, SdsReportInv, ForgetInv, LookInv,
     TakeInv DEF Next

(* Marks, uuids and ids fit together at all times.                         *)
THEOREM Invariance == Safety => []IInv
BY InitInv, NextInv, PTL DEF Safety

-----------------------------------------------------------------------------
(* What the queue promises.                                                *)

(* The invariant says of queue, attempts and tasks what SmsTypeOK does.    *)
LEMMA TypesFollow == IInv => SmsTypeOK
BY Parts DEF IInv, Deliveries, ServerOK, QueueOK, AttemptsOK, TasksOK, QueuedNow,
             SmsTypeOK

(* Queue, attempts and delivery tasks have their types, and the queue is   *)
(* never longer than max_messages_per_destination.                         *)
THEOREM TypeCorrect == Safety => []SmsTypeOK
BY TypesFollow, Invariance, PTL

(* However many tasks run side by side, no message is on its way twice     *)
(* while a report may still come in time: the in-flight mark allows one    *)
(* attempt, and is taken off when that one is answered or overdue.         *)
THEOREM AttemptsCorrect == Safety => []OneAttemptAtATime
<1>1. IInv => OneAttemptAtATime
  <2> SUFFICES ASSUME IInv, NEW m \in Message, Queued(m)
               PROVE  Cardinality(Underway(queue[m].id)) <= 1
    BY DEF OneAttemptAtATime
  <2>1. \A u \in Underway(queue[m].id) : u = queue[m].uuid
    BY DEF IInv, Deliveries, MarkedWhileUnderway
  <2>2. CASE Underway(queue[m].id) = {}
    BY <2>2, FS_EmptySet
  <2>3. CASE Underway(queue[m].id) # {}
    <3>1. Underway(queue[m].id) = {queue[m].uuid}
      BY <2>1, <2>3
    <3> QED BY <3>1, FS_Singleton
  <2> QED BY <2>2, <2>3
<1> QED BY <1>1, Invariance, PTL

-----------------------------------------------------------------------------
(* What a step that takes a message out of the queue may be.               *)
Reasons ==
  \A m \in Message : Queued(m) /\ ~Queued(m)' =>
    \/ Reported(m)
    \/ Overdue(m) /\ (queue[m].expired \/ UsedUp(m))
    \/ upsets' > upsets

(* Reports, the sweep and the operator take messages out; no other step    *)
(* does.                                                                   *)
LEMMA StepsHaveReasons ==
  ASSUME IInv, [Next]_vars
  PROVE  Reasons
<1> SUFFICES ASSUME NEW m \in Message, Queued(m), ~Queued(m)'
             PROVE  \/ Reported(m)
                    \/ Overdue(m) /\ (queue[m].expired \/ UsedUp(m))
                    \/ upsets' > upsets
  BY DEF Reasons
<1>1. queue[m] # None /\ queue'[m] = None /\ queue[m] \in Entry
      /\ queue \in [Message -> Entry \union {None}]
  BY DEF Queued, IInv, Deliveries, QueueOK
<1>2. queue' # queue
  BY <1>1
<1>3. ASSUME NEW n \in Message, SdsTransfer(n)
      PROVE  FALSE
  <2>1. NewMessage \in Entry
    BY DEF NewMessage, Entry, IInv, Deliveries, QueueOK
  <2> QED BY <1>1, <1>3, <2>1, Nones DEF SdsTransfer, Stored
<1>4. ASSUME NEW n \in Message, Late(n) \/ Rest(n) \/ Expire(n)
      PROVE  FALSE
  <2>1. CASE Late(n)
    BY <1>1, <2>1, Nones DEF Late, Entry
  <2>2. CASE Rest(n)
    BY <1>1, <2>2, Nones DEF Rest, Entry
  <2>3. CASE Expire(n)
    BY <1>1, <2>3, Nones DEF Expire, Entry
  <2> QED BY <1>4, <2>1, <2>2, <2>3
<1>5. ASSUME NEW n \in Message, Delete(n)
      PROVE  upsets' > upsets
  BY <1>5 DEF Delete, Upset, IInv, ServerOK
<1>6. ASSUME NEW t \in Task, Take(t)
      PROVE  FALSE
  <2>1. ASSUME NEW n \in Message, Queued(n), NEW u \in Uuid, queue' = Taken(n, u)
        PROVE  FALSE
    <3>1. [queue[n] EXCEPT !.uuid = u, !.attempts = queue[n].attempts + 1,
                           !.late = FALSE, !.rested = FALSE] \in Entry
      BY <2>1, Parts, TakenEntry DEF IInv, Deliveries
    <3> QED BY <1>1, <2>1, <3>1, Nones DEF Taken
  <2>2. \E n \in Message, u \in Uuid : Queued(n) /\ queue' = Taken(n, u)
    BY <1>2, <1>6, LeastFresh DEF Take, Oldest, Due, FreshUuids, center
  <2> QED BY <2>1, <2>2
<1>7. ASSUME NEW t \in Task, Send(t)
      PROVE  FALSE
  <2>1. queue' = Released(task[t].uuid) /\ task[t].uuid # None
    BY <1>2, <1>7, Nones DEF Send, IInv, Deliveries, TasksOK
  <2>2. CASE queue[m].uuid = task[t].uuid
    <3>1. [queue[m] EXCEPT !.uuid = None, !.attempts = @ - 1] \in Entry
      BY <1>1, <2>1, <2>2, ReleasedEntry DEF IInv, Deliveries, InFlightIsTried, Queued
    <3> QED BY <1>1, <2>1, <2>2, <3>1, Nones DEF Released
  <2>3. CASE queue[m].uuid # task[t].uuid
    BY <1>1, <2>1, <2>3 DEF Released
  <2> QED BY <2>2, <2>3
<1>8. ASSUME NEW u \in Uuid, SdsReport(u)
      PROVE  Reported(m)
  <2>1. queue[m].uuid = u /\ attempt[u] # None
    BY <1>1, <1>8 DEF SdsReport, Done, Current
  <2>2. attempt[u].id = queue[m].id
    BY <2>1 DEF IInv, Deliveries, MarksAreOwn
  <2> QED BY <1>8, <2>1, <2>2 DEF Reported, SdsReport, IInv, Deliveries, AttemptsOK
<1>9. ASSUME Sweep
      PROVE  Overdue(m) /\ (queue[m].expired \/ UsedUp(m))
  <2>1. GivenUp(Freed(queue[m]))
    BY <1>1, <1>9, FreedEntry, Nones DEF Sweep, Swept
  <2> QED BY <1>1, <2>1, FreedEntry DEF GivenUp, Overdue, UsedUp
<1>10. CASE UNCHANGED queue
  BY <1>2, <1>10
<1> QED
  BY <1>2, <1>3, <1>4, <1>5, <1>6, <1>7, <1>8, <1>9
     DEF Next, vars, center, Register, Disconnect, Reconnect, Deregister, Blacklist,
         SdsHeader, Look, Forget, SpawnDue, Restart

(* A message leaves the queue only because a Basestation reported this     *)
(* very message, or it expired or used up its attempts and no report is    *)
(* awaited, or the operator deleted it.                                    *)
THEOREM LeavingCorrect == Safety => LeavesForAReason
<1>1. IInv /\ [Next]_vars => Reasons
  BY StepsHaveReasons
<1>2. Safety => [][Reasons]_vars
  BY <1>1, Invariance, PTL DEF Safety
<1> QED BY <1>2 DEF LeavesForAReason, Reasons

-----------------------------------------------------------------------------
(* The registrar and the configuration file, which run beside the queue.   *)

Binding == [addr : Addr, left : 0..Ttl]

Datagram ==
  [p : Phone, code : {0, 200, 401}, from : Addr, want : {"on", "off", "gone"},
   nonce : Nonce \union {Nowhere}, fresh : Nonce \union {Nowhere},
   copy : BOOLEAN]

(* What a phone is told and tells is of the right kind, so a binding leads *)
(* to an address a phone was at, and ends in time.                         *)
BindingsOK ==
  /\ binding \in [Phone -> Binding \union {Nowhere}]
  /\ nonces \in [Nonce -> 0..NonceLife]
  /\ phone \in [Phone -> [want : {"on", "off", "gone"}, addr : Addr,
                          nonce : Nonce \union {Nowhere}, sure : 0..Ttl]]
  /\ datagrams \subseteq Datagram

TrunkOK ==
  /\ trunk \in {"Down", "Registering", "Up", "Failed"}
  /\ loop \in {"start", "first", "second", "rest"}
  /\ rest \in 0..Interval /\ held \in 0..TrunkTtl

Request ==
  [pc : {"snapshot", "flag", "save", "unflag"},
   edit : Setting \union Blockable \union {"raw"}, cfg : Config]

(* Whatever is edited here or by hand, a request only ever carries a       *)
(* configuration that parses; a file that does not comes from a hand.      *)
FileOK ==
  /\ started_on \in Config /\ blocked_list \subseteq Blockable
  /\ file \in Config \union {Broken} /\ asked \in Config
  /\ request \in [Person -> Request \union {NoRequest}]

(* Time left never runs below zero.                                        *)
LEMMA LessBounds ==
  ASSUME NEW k \in Nat, NEW i \in 0..k PROVE Less(i) \in 0..k
BY DEF Less

(* A datagram that comes late is still one.                                *)
LEMMA CopyOfDatagram ==
  ASSUME NEW d \in Datagram PROVE [d EXCEPT !.copy = TRUE] \in Datagram
<1>1. ASSUME NEW copy \in BOOLEAN PROVE [d EXCEPT !.copy = copy] \in Datagram
  BY DEF Datagram
<1> QED BY <1>1

(* A phone's own steps change the phone and what it waits for only.        *)
LEMMA PhoneStep ==
  ASSUME BindingsOK, NEW p \in Phone,
         Asks(p) \/ SignsOff(p) \/ Vanishes(p) \/ \E addr \in Addr : Arrives(p, addr)
  PROVE  BindingsOK'
<1>1. /\ phone[p] \in [want : {"on", "off", "gone"}, addr : Addr,
                       nonce : Nonce \union {Nowhere}, sure : 0..Ttl]
      /\ Ttl \in Nat
  BY SipRegistrarAssumption DEF BindingsOK
<1>2. ASSUME Asks(p) PROVE BindingsOK'
  <2>1. Ask(p) \in Datagram
    BY <1>1 DEF Ask, Datagram
  <2> QED BY <1>2, <2>1 DEF Asks, BindingsOK
<1>3. ASSUME NEW want \in {"on", "off", "gone"}, NEW addr \in Addr,
             NEW sure \in 0..Ttl, Becomes(p, want, addr, sure)
      PROVE  BindingsOK'
  <2>1. ASSUME NEW d \in datagrams
        PROVE  d \in Datagram /\ [d EXCEPT !.copy = TRUE] \in Datagram
    BY CopyOfDatagram DEF BindingsOK
  <2>2. Forgone(p) \subseteq Datagram
    BY <2>1 DEF Forgone
  <2>3. PICK new : new = [phone[p] EXCEPT !.want = want, !.addr = addr, !.sure = sure]
    OBVIOUS
  <2>4. new \in [want : {"on", "off", "gone"}, addr : Addr,
                 nonce : Nonce \union {Nowhere}, sure : 0..Ttl]
    BY <1>1, <2>3
  <2>5. phone' = [phone EXCEPT ![p] = new]
    BY <1>3, <2>3 DEF Becomes
  <2> QED BY <1>3, <2>2, <2>4, <2>5 DEF Becomes, PhoneMove, BindingsOK
<1> QED BY <1>1, <1>2, <1>3 DEF SignsOff, Vanishes, Arrives

(* A datagram that arrives, is lost or comes twice.                        *)
LEMMA DatagramStep ==
  ASSUME BindingsOK, NEW d \in datagrams,
         PhoneHears(d) \/ HandleRegister(d) \/ Lost(d) \/ Doubled(d)
  PROVE  BindingsOK'
<1>1. d \in Datagram /\ datagrams \subseteq Datagram
  BY DEF BindingsOK
<1>2. /\ d.p \in Phone /\ d.from \in Addr
      /\ phone[d.p] \in [want : {"on", "off", "gone"}, addr : Addr,
                         nonce : Nonce \union {Nowhere}, sure : 0..Ttl]
      /\ d.fresh \in Nonce \union {Nowhere}
      /\ Ttl \in Nat /\ NonceLife \in Nat
  BY <1>1, SipRegistrarAssumption DEF BindingsOK, Datagram
<1>3. CASE PhoneHears(d)
  <2>1. PICK new \in [want : {"on", "off", "gone"}, addr : Addr,
                      nonce : Nonce \union {Nowhere}, sure : 0..Ttl] :
          phone' = [phone EXCEPT ![d.p] = new]
    <3>1. CASE d.code = 401
      <4>1. [phone[d.p] EXCEPT !.nonce = d.fresh] \in
              [want : {"on", "off", "gone"}, addr : Addr,
               nonce : Nonce \union {Nowhere}, sure : 0..Ttl]
        BY <1>2
      <4> QED BY <1>3, <3>1, <4>1 DEF PhoneHears
    <3>2. CASE d.code # 401
      <4>1. [phone[d.p] EXCEPT !.sure = IF d.want = "on" THEN Ttl ELSE 0] \in
              [want : {"on", "off", "gone"}, addr : Addr,
               nonce : Nonce \union {Nowhere}, sure : 0..Ttl]
        BY <1>2
      <4> QED BY <1>3, <3>2, <4>1 DEF PhoneHears
    <3> QED BY <3>1, <3>2
  <2> QED BY <1>1, <1>2, <1>3, <2>1 DEF PhoneHears, BindingsOK
<1>4. CASE HandleRegister(d)
  <2>1. ASSUME NEW code \in {200, 401}, NEW fresh \in Nonce \union {Nowhere},
               Answer(d, code, fresh)
        PROVE  datagrams' \subseteq Datagram
    <3>1. PICK e \in Datagram : e = [d EXCEPT !.code = code]
      <4>1. [d EXCEPT !.code = code] \in Datagram
        BY <1>1 DEF Datagram
      <4> QED BY <4>1
    <3>2. [e EXCEPT !.fresh = fresh] \in Datagram
      BY DEF Datagram
    <3>3. [e EXCEPT !.fresh = fresh] = [d EXCEPT !.code = code, !.fresh = fresh]
      BY <3>1
    <3> QED BY <1>1, <2>1, <3>2, <3>3 DEF Answer
  <2>2. datagrams' \subseteq Datagram
    BY <1>4, <2>1 DEF HandleRegister, Spare
  <2>3. binding' \in [Phone -> Binding \union {Nowhere}]
    <3>1. [addr |-> d.from, left |-> Ttl] \in Binding
      BY <1>2 DEF Binding
    <3> QED BY <1>4, <1>2, <3>1 DEF HandleRegister, BindingsOK
  <2>4. nonces' \in [Nonce -> 0..NonceLife]
    BY <1>4, <1>2 DEF HandleRegister, BindingsOK, Spare
  <2> QED BY <1>4, <2>2, <2>3, <2>4 DEF HandleRegister, BindingsOK
<1>5. CASE Lost(d) \/ Doubled(d)
  <2>1. [d EXCEPT !.copy = TRUE] \in Datagram
    BY <1>1, CopyOfDatagram
  <2> QED BY <1>1, <1>5, <2>1 DEF Lost, Doubled, BindingsOK
<1> QED BY <1>3, <1>4, <1>5

(* Bindings, nonces and what a phone counts on run out.                    *)
LEMMA TimeStep ==
  ASSUME BindingsOK, TrunkOK, TimePasses PROVE BindingsOK' /\ TrunkOK'
<1>1. /\ Ttl \in Nat /\ NonceLife \in Nat /\ Interval \in Nat /\ TrunkTtl \in Nat
  BY SipRegistrarAssumption
<1>2. ASSUME NEW n \in Nonce \union {Nowhere} PROVE Good(n) \in Nonce \union {Nowhere}
  BY DEF Good
<1>3. binding' \in [Phone -> Binding \union {Nowhere}]
  <2>1. ASSUME NEW p \in Phone, binding[p] # Nowhere
        PROVE  [binding[p] EXCEPT !.left = Less(@)] \in Binding
    <3>1. binding[p] \in Binding
      BY <2>1 DEF BindingsOK
    <3>2. Less(binding[p].left) \in 0..Ttl
      BY <1>1, <3>1, LessBounds DEF Binding
    <3> QED BY <3>1, <3>2 DEF Binding
  <2> QED BY <2>1 DEF TimePasses
<1>4. nonces' \in [Nonce -> 0..NonceLife]
  <2>1. \A n \in Nonce : Less(nonces[n]) \in 0..NonceLife
    BY <1>1, LessBounds DEF BindingsOK
  <2> QED BY <2>1 DEF TimePasses
<1>5. phone' \in [Phone -> [want : {"on", "off", "gone"}, addr : Addr,
                            nonce : Nonce \union {Nowhere}, sure : 0..Ttl]]
  <2>1. ASSUME NEW p \in Phone
        PROVE  [phone[p] EXCEPT !.sure = Less(@), !.nonce = Good(@)] \in
                 [want : {"on", "off", "gone"}, addr : Addr,
                  nonce : Nonce \union {Nowhere}, sure : 0..Ttl]
    <3>1. phone[p] \in [want : {"on", "off", "gone"}, addr : Addr,
                        nonce : Nonce \union {Nowhere}, sure : 0..Ttl]
      BY DEF BindingsOK
    <3>2. Less(phone[p].sure) \in 0..Ttl /\ Good(phone[p].nonce) \in Nonce \union {Nowhere}
      BY <1>1, <1>2, <3>1, LessBounds
    <3> QED BY <3>1, <3>2
  <2> QED BY <2>1 DEF TimePasses
<1>6. datagrams' \subseteq Datagram
  <2>1. ASSUME NEW d \in datagrams PROVE [d EXCEPT !.nonce = Good(@)] \in Datagram
    <3>1. d \in Datagram
      BY DEF BindingsOK
    <3>2. Good(d.nonce) \in Nonce \union {Nowhere}
      BY <1>2, <3>1 DEF Datagram
    <3> QED BY <3>1, <3>2 DEF Datagram
  <2> QED BY <2>1 DEF TimePasses
<1>7. TrunkOK'
  BY <1>1, LessBounds DEF TimePasses, TrunkOK
<1> QED BY <1>3, <1>4, <1>5, <1>6, <1>7 DEF BindingsOK

(* The registration of a trunk: the loop never rests longer than           *)
(* register_interval_seconds, the provider holds it no longer than asked.  *)
LEMMA TrunkStep ==
  ASSUME TrunkOK,
         \/ BeginRegister
         \/ \E code \in Codes : FirstRegister(code) \/ SecondRegister(code)
         \/ \E how : ProviderChanges(how)
  PROVE  TrunkOK' /\ UNCHANGED phoneVars
<1>1. Interval \in 0..Interval /\ TrunkTtl \in 0..TrunkTtl /\ 0 \in 0..TrunkTtl
  BY SipRegistrarAssumption
<1>2. CASE BeginRegister
  BY <1>2 DEF BeginRegister, Status, TrunkOK
<1>3. ASSUME NEW code \in Codes, FirstRegister(code)
      PROVE  TrunkOK' /\ UNCHANGED phoneVars
  <2>1. held' \in 0..TrunkTtl /\ UNCHANGED phoneVars
    BY <1>1, <1>3 DEF FirstRegister, RegisterOnce, TrunkOK
  <2>2. /\ trunk' \in {"Down", "Registering", "Up", "Failed"}
        /\ loop' \in {"second", "rest"} /\ rest' \in 0..Interval
    BY <1>1, <1>3 DEF FirstRegister, Status, Rests, TrunkOK
  <2> QED BY <2>1, <2>2 DEF TrunkOK
<1>4. ASSUME NEW code \in Codes, SecondRegister(code)
      PROVE  TrunkOK' /\ UNCHANGED phoneVars
  <2>1. held' \in 0..TrunkTtl /\ UNCHANGED phoneVars
    BY <1>1, <1>4 DEF SecondRegister, RegisterOnce, TrunkOK
  <2> QED BY <1>1, <1>4, <2>1 DEF SecondRegister, Status, Rests, TrunkOK
<1>5. ASSUME NEW how, ProviderChanges(how) PROVE TrunkOK' /\ UNCHANGED phoneVars
  BY <1>1, <1>5 DEF ProviderChanges, TrunkOK
<1> QED BY <1>2, <1>3, <1>4, <1>5

(* No step of the registrar, of a phone or of the trunk mixes anything up. *)
LEMMA RegistrarNextOK ==
  ASSUME BindingsOK, TrunkOK, [RegistrarNext]_registrarVars
  PROVE  BindingsOK' /\ TrunkOK'
<1>1. ASSUME UNCHANGED phoneVars PROVE BindingsOK'
  BY <1>1 DEF phoneVars, BindingsOK
<1>2. ASSUME UNCHANGED trunkVars PROVE TrunkOK'
  BY <1>2 DEF trunkVars, TrunkOK
<1>3. ASSUME NEW p \in Phone,
             Asks(p) \/ SignsOff(p) \/ Vanishes(p) \/ \E addr \in Addr : Arrives(p, addr)
      PROVE  BindingsOK' /\ TrunkOK'
  <2>1. UNCHANGED trunkVars
    BY <1>3 DEF Asks, SignsOff, Vanishes, Arrives, Becomes, PhoneMove
  <2> QED BY <1>2, <1>3, <2>1, PhoneStep
<1>4. ASSUME NEW d \in datagrams,
             PhoneHears(d) \/ HandleRegister(d) \/ Lost(d) \/ Doubled(d)
      PROVE  BindingsOK' /\ TrunkOK'
  <2>1. UNCHANGED trunkVars
    BY <1>4 DEF PhoneHears, HandleRegister, Lost, Doubled
  <2> QED BY <1>2, <1>4, <2>1, DatagramStep
<1>5. CASE PurgeExpired
  <2>1. binding' \in [Phone -> Binding \union {Nowhere}]
    BY <1>5 DEF PurgeExpired, BindingsOK
  <2> QED BY <1>2, <1>5, <2>1 DEF PurgeExpired, BindingsOK
<1>6. CASE \/ BeginRegister
           \/ \E code \in Codes : FirstRegister(code) \/ SecondRegister(code)
           \/ \E how \in {"challenges", "open", "bare", "refuses", "mute"} :
                ProviderChanges(how)
  BY <1>1, <1>6, TrunkStep
<1>7. CASE TimePasses
  BY <1>7, TimeStep
<1>8. CASE UNCHANGED registrarVars
  BY <1>1, <1>2, <1>8 DEF registrarVars
<1> QED BY <1>3, <1>4, <1>5, <1>6, <1>7, <1>8 DEF RegistrarNext

(* No entry is mistaken for a file that does not parse.                    *)
LEMMA Parsed ==
  ASSUME NEW cfg \in Config
  PROVE  /\ cfg.settings \subseteq Setting /\ cfg.issis \subseteq Blockable
         /\ cfg # Broken
         /\ \A S \in SUBSET Setting : [cfg EXCEPT !.settings = S] \in Config
         /\ \A S \in SUBSET Blockable : [cfg EXCEPT !.issis = S] \in Config
BY BrokenAssumption DEF Config

(* A new request, or the next step of one.                                 *)
LEMMA RequestStep ==
  ASSUME FileOK, NEW p \in Person, NEW r \in Request \union {NoRequest},
         request' = [request EXCEPT ![p] = r],
         started_on' = started_on, blocked_list' \subseteq Blockable,
         file' \in Config \union {Broken}, asked' \in Config
  PROVE  FileOK'
BY DEF FileOK

(* Opening a request, with a configuration that parses.                    *)
LEMMA OpensStep ==
  ASSUME FileOK, NEW p \in Person, NEW pc \in {"snapshot", "save"},
         NEW edit \in Setting \union Blockable \union {"raw"}, NEW cfg \in Config,
         Opens(p, pc, edit, cfg),
         UNCHANGED <<started_on, file, asked>>, blocked_list' \subseteq Blockable
  PROVE  FileOK'
<1>1. [pc |-> pc, edit |-> edit, cfg |-> cfg] \in Request
  BY DEF Request
<1>2. file' \in Config \union {Broken} /\ asked' \in Config
  BY DEF FileOK
<1> QED BY <1>1, <1>2, RequestStep DEF Opens

(* Pages and the raw editor open requests that carry a configuration.      *)
LEMMA EditStep ==
  ASSUME FileOK, NEW p \in Person,
         Blacklists(p) \/ EditsSetting(p) \/ EditsHa(p) \/ SavesRaw(p)
  PROVE  FileOK'
<1>1. /\ started_on \in Config /\ blocked_list \subseteq Blockable
      /\ config_snapshot \in Config
  BY Parsed DEF FileOK, config_snapshot
<1>2. ASSUME NEW i \in Blockable, blocked_list' = Toggled(blocked_list, i),
             Opens(p, "snapshot", i, started_on), UNCHANGED <<started_on, file, asked>>
      PROVE  FileOK'
  <2>1. blocked_list' \subseteq Blockable
    BY <1>1, <1>2 DEF Toggled
  <2> QED BY <1>1, <1>2, <2>1, OpensStep
<1>3. ASSUME NEW cfg \in Config, NEW s \in Setting,
             Opens(p, "save", s, [cfg EXCEPT !.settings = Toggled(@, s)]),
             UNCHANGED <<started_on, blocked_list, file, asked>>
      PROVE  FileOK'
  <2>1. Toggled(cfg.settings, s) \in SUBSET Setting
    BY Parsed DEF Toggled
  <2>2. PICK new \in Config : new = [cfg EXCEPT !.settings = Toggled(cfg.settings, s)]
    BY <2>1, Parsed
  <2> QED BY <1>1, <1>3, <2>2, OpensStep
<1>4. CASE Blacklists(p)
  BY <1>2, <1>4 DEF Blacklists
<1>5. CASE EditsSetting(p)
  BY <1>1, <1>3, <1>5 DEF EditsSetting
<1>6. CASE EditsHa(p)
  <2>1. (IF file = Broken THEN started_on ELSE file) \in Config
    BY <1>1 DEF FileOK
  <2> QED BY <1>3, <1>6, <2>1, ConfigAssumption DEF EditsHa
<1>7. CASE SavesRaw(p)
  BY <1>1, <1>7, OpensStep DEF SavesRaw
<1> QED BY <1>4, <1>5, <1>6, <1>7

(* What the edits add up to parses.                                        *)
LEMMA AskedParses ==
  ASSUME FileOK, NEW r \in Request PROVE Asked(r) \in Config
<1>1. asked \in Config /\ r.cfg \in Config
  BY DEF FileOK, Request
<1>2. CASE r.edit \in Setting
  BY <1>1, <1>2, Parsed DEF Asked
<1>3. CASE r.edit \notin Setting /\ r.edit \in Blockable
  BY <1>1, <1>3, Parsed DEF Asked
<1>4. CASE r.edit \notin Setting /\ r.edit \notin Blockable
  BY <1>1, <1>4 DEF Asked
<1> QED BY <1>2, <1>3, <1>4

(* A request goes on, is answered or fails.                                *)
LEMMA ProceedStep ==
  ASSUME FileOK, NEW p \in Person, Proceed(p) PROVE FileOK'
<1>1. /\ request[p] # NoRequest => request[p] \in Request
      /\ started_on \in Config /\ blocked_list \subseteq Blockable
      /\ file \in Config \union {Broken} /\ asked \in Config
      /\ config_snapshot \in Config
  BY Parsed DEF FileOK, config_snapshot
<1>2. ASSUME request[p] # NoRequest,
             NEW pc \in {"snapshot", "flag", "save", "unflag"}, NEW cfg \in Config
      PROVE  [request[p] EXCEPT !.pc = pc, !.cfg = cfg] \in Request
  BY <1>1, <1>2 DEF Request
<1>3. ASSUME request[p] # NoRequest, NEW pc \in {"snapshot", "flag", "save", "unflag"}
      PROVE  [request[p] EXCEPT !.pc = pc] \in Request
  BY <1>1, <1>3 DEF Request
<1>4. CASE TakesSnapshot(p)
  <2>1. PICK r \in Request :
          r = [request[p] EXCEPT !.pc = "flag", !.cfg = config_snapshot]
    BY <1>1, <1>2, <1>4 DEF TakesSnapshot
  <2>2. request' = [request EXCEPT ![p] = r]
    BY <1>4, <2>1 DEF TakesSnapshot
  <2> QED BY <1>1, <1>4, <2>2, RequestStep DEF TakesSnapshot
<1>5. CASE Flags(p)
  <2>1. PICK r \in Request : r = [request[p] EXCEPT !.pc = "save"]
    BY <1>3, <1>5 DEF Flags
  <2>2. request' = [request EXCEPT ![p] = r]
    BY <1>5, <2>1 DEF Flags
  <2> QED BY <1>1, <1>5, <2>2, RequestStep DEF Flags
<1>6. CASE Saves(p)
  <2>1. request[p] \in Request /\ request[p].cfg \in Config
    BY <1>1, <1>6 DEF Saves, Request
  <2>2. Asked(request[p]) \in Config
    BY <2>1, AskedParses
  <2> QED BY <1>1, <1>6, <2>1, <2>2, RequestStep DEF Saves
<1>7. CASE FailsToSave(p)
  <2>1. PICK r \in Request \union {NoRequest} :
          r = IF request[p].edit \in Blockable THEN [request[p] EXCEPT !.pc = "unflag"]
              ELSE NoRequest
    BY <1>3, <1>7 DEF FailsToSave
  <2>2. Asked(request[p]) \in Config
    BY <1>1, <1>7, AskedParses DEF FailsToSave
  <2>3. request' = [request EXCEPT ![p] = r] /\ asked' \in Config
    BY <1>1, <1>7, <2>1, <2>2 DEF FailsToSave, Unsaved
  <2> QED BY <1>1, <1>7, <2>3, RequestStep DEF FailsToSave
<1>8. CASE Unflags(p)
  BY <1>1, <1>8, RequestStep DEF Unflags
<1> QED BY <1>4, <1>5, <1>6, <1>7, <1>8 DEF Proceed

(* A new process runs on a file that parses.                               *)
LEMMA StartsStep == FileOK /\ StartsOn => FileOK'
<1> SUFFICES ASSUME FileOK, StartsOn PROVE FileOK'
  OBVIOUS
<1>1. file \in Config /\ file.issis \in SUBSET Blockable
  BY Parsed DEF FileOK, StartsOn
<1>2. asked' \in Config
  BY <1>1, Parsed DEF FileOK, StartsOn
<1>3. request' \in [Person -> Request \union {NoRequest}]
  BY DEF StartsOn
<1> QED BY <1>1, <1>2, <1>3 DEF FileOK, StartsOn

(* Whoever edits, and whenever the process starts again.                   *)
LEMMA ConfigNextOK == FileOK /\ [ConfigNext]_configVars => FileOK'
<1> SUFFICES ASSUME FileOK, [ConfigNext]_configVars PROVE FileOK'
  OBVIOUS
<1>1. CASE EditsByHand
  BY <1>1 DEF EditsByHand, FileOK
<1>2. CASE SeesChange \/ SwapsFlag \/ Validates
  BY <1>2 DEF SeesChange, SwapsFlag, Validates, FileOK
<1>3. CASE WatcherRestarts \/ ApplySaved
  BY <1>3, StartsStep DEF WatcherRestarts, ApplySaved
<1>4. CASE UNCHANGED configVars
  BY <1>4 DEF configVars, FileOK
<1> QED BY <1>1, <1>2, <1>3, <1>4, EditStep, ProceedStep DEF ConfigNext, Watch

-----------------------------------------------------------------------------
(* The server's text messages, its phones and trunk and its configuration  *)
(* side by side: the queue stays within its limit and its attempts have a  *)
(* route, a binding leads to an address a phone has been at and ends in    *)
(* time, and whatever is edited the server runs on, and saves, a           *)
(* configuration that parses.                                              *)
THEOREM ClientsTypeCorrect == MCSpec => []ClientsTypeOK
<1> DEFINE Typed == IInv /\ BindingsOK /\ TrunkOK /\ FileOK
<1>1. MCInit => Typed
  <2> SUFFICES ASSUME MCInit PROVE Typed
    OBVIOUS
  <2>1. IInv
    BY InitInv DEF MCInit
  <2>2. BindingsOK /\ TrunkOK
    BY SipRegistrarAssumption DEF MCInit, RegistrarInit, BindingsOK, TrunkOK
  <2>3. [settings |-> {}, issis |-> {}] \in Config
    BY DEF Config
  <2>4. FileOK
    BY <2>3 DEF MCInit, ConfigInit, FileOK
  <2> QED BY <2>1, <2>2, <2>4
<1>2. Typed /\ [MCNext]_mcVars => Typed'
  <2> SUFFICES ASSUME Typed, [MCNext]_mcVars PROVE Typed'
    OBVIOUS
  <2>1. /\ [Next]_vars
        /\ [RegistrarNext]_registrarVars
        /\ [ConfigNext]_configVars
    BY DEF MCNext, mcVars
  <2>2. IInv'
    BY <2>1, NextInv
  <2>3. BindingsOK' /\ TrunkOK'
    BY <2>1, RegistrarNextOK
  <2>4. FileOK'
    BY <2>1, ConfigNextOK
  <2> QED BY <2>2, <2>3, <2>4
<1>3. Typed => ClientsTypeOK
  <2> SUFFICES ASSUME Typed PROVE ClientsTypeOK
    OBVIOUS
  <2>1. SmsTypeOK
    BY TypesFollow
  <2>2. SipRegistrarTypeOK
    BY DEF BindingsOK, Binding, TrunkOK, SipRegistrarTypeOK
  <2>3. ConfigTypeOK
    BY DEF FileOK, Request, ConfigTypeOK
  <2> QED BY <2>1, <2>2, <2>3 DEF ClientsTypeOK
<1> QED BY <1>1, <1>2, <1>3, PTL DEF MCSpec

-----------------------------------------------------------------------------
(* A blacklist edit does not restart the server.                           *)

(* The watcher has seen the file as it is.                                 *)
AtRest == watcher = [pc |-> "waits", last_mtime |-> mtime]

(* One edit at a time while the watcher is at rest, and a blacklist edit   *)
(* has set its flag before it writes the file; the watcher runs without HA *)
(* only.                                                                   *)
EditsInTurn ==
  /\ ha => watcher.pc = "waits"
  /\ ~ha => \A p \in Person : request[p] # NoRequest =>
       /\ AtRest
       /\ \A q \in Person : request[q] # NoRequest => q = p
       /\ request[p].pc = "save" /\ request[p].edit \in Blockable => applied_live

(* What the watcher has found is a change that only a restart applies, a   *)
(* file that does not parse, or a blacklist edit whose flag is still set;  *)
(* nothing is written until it is at rest again.                           *)
WatcherHasCause ==
  ~ha /\ ~AtRest =>
    /\ watcher.pc # "waits" => watcher.last_mtime = mtime
    /\ watcher.pc = "restarts" => due
    /\ watcher.pc = "loads" => due \/ file = Broken
    /\ watcher.pc \in {"waits", "changed"} => due \/ file = Broken \/ applied_live

WatcherOK ==
  /\ watcher \in [pc : {"waits", "changed", "loads", "restarts"}, last_mtime : Nat]
  /\ mtime \in Nat

WatchInv == FileOK /\ WatcherOK /\ EditsInTurn /\ WatcherHasCause

(* The watcher's states, and its clock.                                    *)
LEMMA WatchTypes ==
  ASSUME WatcherOK, [ConfigNext]_configVars PROVE WatcherOK'
<1>1. ASSUME UNCHANGED <<watcher, mtime>> PROVE WatcherOK'
  BY <1>1 DEF WatcherOK
<1>2. ASSUME NEW p \in Person,
             Blacklists(p) \/ EditsSetting(p) \/ EditsHa(p) \/ SavesRaw(p)
      PROVE  WatcherOK'
  BY <1>1, <1>2 DEF Blacklists, EditsSetting, EditsHa, SavesRaw
<1>3. ASSUME NEW p \in Person, Proceed(p) PROVE WatcherOK'
  BY <1>3 DEF Proceed, TakesSnapshot, Flags, Saves, FailsToSave, Unflags, WatcherOK
<1>4. CASE EditsByHand
  BY <1>4 DEF EditsByHand, WatcherOK
<1>5. CASE Watch \/ ApplySaved
  BY <1>5 DEF Watch, SeesChange, SwapsFlag, Validates, WatcherRestarts, ApplySaved,
              StartsOn, WatcherOK
<1>6. CASE UNCHANGED configVars
  BY <1>1, <1>6 DEF configVars
<1> QED BY <1>2, <1>3, <1>4, <1>5, <1>6 DEF ConfigNext

(* An edit begins when nobody edits and the watcher is at rest.            *)
LEMMA EditIsInTurn ==
  ASSUME Patient = TRUE, WatchInv, NEW p \in Person,
         Blacklists(p) \/ EditsSetting(p) \/ EditsHa(p) \/ SavesRaw(p)
  PROVE  EditsInTurn' /\ WatcherHasCause'
<1>1. /\ ~ha => AtRest /\ \A q \in Person : request[q] = NoRequest
      /\ UNCHANGED <<ha, file, mtime, watcher, applied_live, due>>
  BY DEF Blacklists, EditsSetting, EditsHa, SavesRaw, EditsHere, Edits, TakenUp,
         NobodyEdits, AtRest
<1>2. \E pc \in {"snapshot", "save"} : \E edit, cfg :
        /\ pc = "save" => edit \notin Blockable
        /\ request' = [request EXCEPT ![p] = [pc |-> pc, edit |-> edit, cfg |-> cfg]]
  BY ConfigAssumption
     DEF Blacklists, EditsSetting, EditsHa, SavesRaw, Opens
<1>3. \A q \in Person : request'[q] # NoRequest => q = p \/ request[q] # NoRequest
  BY <1>2 DEF WatchInv, FileOK
<1>4. ~(request'[p].pc = "save" /\ request'[p].edit \in Blockable)
  BY <1>2 DEF WatchInv, FileOK
<1>5. EditsInTurn'
  BY <1>1, <1>3, <1>4 DEF WatchInv, EditsInTurn, AtRest
<1> QED BY <1>1, <1>5 DEF WatchInv, WatcherHasCause, AtRest

(* What the one request under way does: the flag is set before the file is *)
(* written, and taken back only by who set it.                             *)
LEMMA ProceedIsInTurn ==
  ASSUME WatchInv, NEW p \in Person, Proceed(p)
  PROVE  EditsInTurn' /\ WatcherHasCause'
<1>1. /\ request[p] \in Request
      /\ request \in [Person -> Request \union {NoRequest}]
      /\ ~ha => AtRest /\ \A q \in Person : request[q] # NoRequest => q = p
  BY DEF Proceed, TakesSnapshot, Flags, Saves, FailsToSave, Unflags, WatchInv, FileOK,
         EditsInTurn
<1>2. ASSUME UNCHANGED <<ha, mtime, watcher>>,
             NEW r, request' = [request EXCEPT ![p] = r],
             r # NoRequest /\ r.pc = "save" /\ r.edit \in Blockable => applied_live'
      PROVE  EditsInTurn' /\ WatcherHasCause'
  BY <1>1, <1>2 DEF WatchInv, EditsInTurn, WatcherHasCause, AtRest
<1>3. CASE TakesSnapshot(p)
  <2>1. PICK r : /\ r = [request[p] EXCEPT !.pc = "flag", !.cfg = config_snapshot]
                 /\ request' = [request EXCEPT ![p] = r]
    BY <1>3 DEF TakesSnapshot
  <2>2. r.pc = "flag"
    BY <1>1, <2>1 DEF Request
  <2> QED BY <1>2, <1>3, <2>1, <2>2 DEF TakesSnapshot
<1>4. CASE Flags(p)
  <2>1. PICK r : request' = [request EXCEPT ![p] = r]
    BY <1>4 DEF Flags
  <2> QED BY <1>2, <1>4, <2>1 DEF Flags
<1>5. CASE Saves(p)
  <2>1. /\ UNCHANGED <<ha, watcher, applied_live>>
        /\ request' = [request EXCEPT ![p] = NoRequest]
        /\ request[p] # NoRequest /\ request[p].pc = "save"
        /\ due' = (due \/ request[p].edit \notin Blockable)
    BY <1>5 DEF Saves
  <2>2. ~ha => watcher.pc = "waits" /\ \A q \in Person : request'[q] = NoRequest
    BY <1>1, <2>1 DEF AtRest
  <2>3. ~ha => due' \/ applied_live'
    <3>1. CASE request[p].edit \in Blockable
      <4>1. ~ha => applied_live
        BY <1>1, <2>1, <3>1 DEF WatchInv, EditsInTurn
      <4>2. applied_live' = applied_live
        BY <2>1
      <4> QED BY <4>1, <4>2, Zenon
    <3>2. CASE request[p].edit \notin Blockable
      BY <2>1, <3>2, Zenon
    <3> QED BY <3>1, <3>2
  <2> QED BY <2>1, <2>2, <2>3 DEF WatchInv, EditsInTurn, WatcherHasCause
<1>6. CASE FailsToSave(p)
  <2>1. PICK r : /\ request' = [request EXCEPT ![p] = r]
                 /\ r = IF request[p].edit \in Blockable
                          THEN [request[p] EXCEPT !.pc = "unflag"] ELSE NoRequest
    BY <1>6 DEF FailsToSave
  <2>2. r # NoRequest => r.pc = "unflag"
    BY <1>1, <2>1 DEF Request
  <2> QED BY <1>2, <1>6, <2>1, <2>2 DEF FailsToSave
<1>7. CASE Unflags(p)
  BY <1>2, <1>7 DEF Unflags
<1> QED BY <1>3, <1>4, <1>5, <1>6, <1>7, Zenon DEF Proceed

(* Every edit and every step of the watcher; what is edited by hand and    *)
(* parses is due.                                                          *)
LEMMA WatchNextOK ==
  ASSUME Patient = TRUE, WatchInv, [ConfigNext]_configVars
  PROVE  WatchInv'
<1>1. FileOK' /\ WatcherOK'
  <2>1. FileOK'
    BY ConfigNextOK DEF WatchInv
  <2>2. WatcherOK'
    BY WatchTypes DEF WatchInv
  <2> QED BY <2>1, <2>2
<1>2. CASE EditsByHand
  <2>1. /\ ~ha => AtRest /\ \A q \in Person : request[q] = NoRequest
        /\ UNCHANGED <<ha, watcher, applied_live, request>>
        /\ due' \/ file' = Broken
    BY <1>2 DEF EditsByHand, Edits, TakenUp, NobodyEdits, AtRest
  <2>2. ~ha => watcher.pc = "waits"
    BY <2>1 DEF AtRest
  <2> QED BY <1>1, <2>1, <2>2 DEF WatchInv, EditsInTurn, WatcherHasCause
<1>3. CASE SeesChange
  <2>1. /\ ~ha /\ ~AtRest /\ watcher.pc = "waits" /\ watcher'.pc = "changed"
        /\ watcher'.last_mtime = mtime
        /\ UNCHANGED <<ha, file, mtime, applied_live, request, due>>
    BY <1>3 DEF SeesChange, AtRest
  <2> QED BY <1>1, <2>1 DEF WatchInv, EditsInTurn, WatcherHasCause
<1>4. CASE SwapsFlag
  <2>1. /\ watcher.pc = "changed" /\ ~AtRest
        /\ watcher'.pc = IF applied_live THEN "waits" ELSE "loads"
        /\ watcher'.last_mtime = watcher.last_mtime
        /\ UNCHANGED <<ha, file, mtime, request, due>>
    BY <1>4 DEF SwapsFlag, AtRest, WatchInv, WatcherOK
  <2>2. EditsInTurn'
    <3>1. ha => FALSE
      BY <2>1 DEF WatchInv, EditsInTurn
    <3>2. \A p \in Person : ~ha => request'[p] = NoRequest
      BY <2>1 DEF WatchInv, EditsInTurn
    <3> QED BY <2>1, <3>1, <3>2 DEF EditsInTurn
  <2>3. CASE applied_live
    <3>1. ~ha => AtRest'
      <4>1. ~ha => watcher'.last_mtime = mtime'
        BY <2>1 DEF WatchInv, WatcherHasCause
      <4> QED BY <1>1, <2>1, <2>3, <4>1 DEF WatcherOK, AtRest
    <3> QED BY <1>1, <2>1, <2>2, <3>1 DEF WatchInv, WatcherHasCause
  <2>4. CASE ~applied_live
    <3>1. ~ha => due \/ file = Broken
      BY <2>1, <2>4, Zenon DEF WatchInv, WatcherHasCause
    <3>2. ~ha => watcher'.last_mtime = mtime'
      BY <2>1 DEF WatchInv, WatcherHasCause
    <3>3. WatcherHasCause'
      BY <2>1, <2>4, <3>1, <3>2 DEF WatcherHasCause
    <3> QED BY <1>1, <2>2, <3>3 DEF WatchInv
  <2> QED BY <2>3, <2>4
<1>5. CASE Validates
  <2> QED BY <1>1, <1>5 DEF Validates, WatchInv, EditsInTurn, WatcherHasCause, AtRest
<1>6. CASE WatcherRestarts \/ ApplySaved
  <2>1. /\ watcher' = [pc |-> "waits", last_mtime |-> mtime'] /\ ha' = ha
        /\ request' = [p \in Person |-> NoRequest]
    BY <1>6 DEF WatcherRestarts, ApplySaved, StartsOn
  <2> QED BY <1>1, <2>1 DEF WatchInv, EditsInTurn, WatcherHasCause, AtRest
<1>7. CASE UNCHANGED configVars
  BY <1>1, <1>7 DEF configVars, WatchInv, EditsInTurn, WatcherHasCause, AtRest
<1> QED BY <1>1, <1>2, <1>3, <1>4, <1>5, <1>6, <1>7, EditIsInTurn, ProceedIsInTurn
        DEF WatchInv, ConfigNext, Watch

(* Whoever edits the blacklist, and whether or not it can be saved, the    *)
(* watcher only restarts the server for a change that takes a restart, if  *)
(* an edit is made when the last one is in effect: the flag that the       *)
(* watcher swaps away is one for all edits (CONFIG_WRITE_APPLIED_LIVE).    *)
THEOREM RestartsCorrect ==
  ASSUME Patient = TRUE PROVE MCSpec => RestartsForAReason
<1>1. MCInit => WatchInv
  <2> SUFFICES ASSUME MCInit PROVE WatchInv
    OBVIOUS
  <2>1. [settings |-> {}, issis |-> {}] \in Config
    BY DEF Config
  <2> QED BY <2>1 DEF MCInit, ConfigInit, FileOK, WatchInv, WatcherOK, EditsInTurn,
                      WatcherHasCause, AtRest
<1>2. [MCNext]_mcVars => [ConfigNext]_configVars
  BY DEF MCNext, mcVars
<1>3. WatchInv /\ [MCNext]_mcVars => WatchInv'
  BY <1>2, WatchNextOK
<1>4. WatchInv /\ [MCNext]_mcVars => [WatcherRestarts => due]_configVars
  <2> SUFFICES ASSUME WatchInv, WatcherRestarts PROVE due
    OBVIOUS
  <2>1. watcher.pc = "restarts" /\ ~AtRest
    BY DEF WatcherRestarts, AtRest
  <2> QED BY <2>1 DEF WatchInv, EditsInTurn, WatcherHasCause
<1> QED BY <1>1, <1>3, <1>4, PTL DEF MCSpec, RestartsForAReason
=============================================================================
