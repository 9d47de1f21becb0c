----------------------------- MODULE SmsCenter -----------------------------
(***************************************************************************)
(* Store and forward of individual SDS (src/src/sms_center.rs, with the    *)
(* SDS handlers of router.rs and the SDS routes of state.rs).              *)
(*                                                                         *)
(* The module follows the messages for one destination ISSI.  The queue    *)
(* and the server's tables have a lock each; a handler that takes them one *)
(* after the other, or sleeps in between, is several actions.  A delivery  *)
(* task is deliver_pending: it looks up the destination, takes a message   *)
(* (which marks it in flight), sleeps, sends it, and starts over.          *)
(*                                                                         *)
(* Time is three marks on a stored message: "late" once ack_timeout has    *)
(* passed since its last attempt, "rested" once retry_interval has, and    *)
(* "expired".  The queue file is written under the lock with every change  *)
(* and renamed into place, so the queue is what a restart finds.           *)
(***************************************************************************)
EXTENDS Naturals, FiniteSets

CONSTANTS
  Message,       \* the messages for it, by payload, but those never stored
                 \* (exclude_protocol_ids: location reports)
  Client,        \* the connections the destination may register on
  Sender,        \* the one the sender is on, possibly one of them
  Task,          \* delivery tasks that may run at the same time
  Uuid,          \* uuids of delivery attempts, numbers
  MaxAttempts,   \* max_attempts, 0 for no limit
  QueueLimit,    \* max_messages_per_destination
  OnlyKnown,     \* only_known_destinations
  Expires,       \* the messages whose validity may end
  MaxMoves,      \* bound: registrations and deregistrations
  MaxHeaders,    \* bound: how many SDS the sender begins
  MaxUpsets,     \* bound: lost connections, restarts, blacklistings, deletions
  None

ASSUME SmsCenterAssumption ==
  /\ Expires \subseteq Message
  /\ Uuid \subseteq Nat \ {0}
  /\ MaxAttempts \in Nat /\ QueueLimit \in Nat \ {0} /\ OnlyKnown \in BOOLEAN
  /\ MaxMoves \in Nat /\ MaxHeaders \in Nat /\ MaxUpsets \in Nat
  /\ None \notin Client \union {Sender} /\ None \notin Message /\ None \notin Uuid

VARIABLES
  place,         \* the connection the destination is registered on
  up,            \* inner.clients
  blocked,       \* whether the destination is on the blacklist
  known,         \* known_issis, as far as the destination goes
  transfer,      \* of each message: the SDS route of its sender, or None
  headers,       \* how many SDS the sender has begun
  queue,         \* SmsFile::messages
  stored,        \* how many have been stored: ids in the order of stored_at_ms
  attempt,       \* of each uuid: the delivery on its way, with its SDS route
  task,
  sweeper,       \* run: "idle", or "due" between sweep and due_destinations
  moves, upsets

server == <<place, up, blocked, transfer, headers>>
center == <<queue, stored, known>>
bounds == <<moves, upsets>>
vars == <<server, center, attempt, task, sweeper, bounds>>

NoTask == [pc |-> "none", force |-> FALSE, client |-> None, msg |-> None,
           id |-> 0, uuid |-> None]

NoMessages == [m \in Message |-> None]

Init ==
  /\ place = None
  /\ up = Client
  /\ blocked = FALSE
  /\ known \in BOOLEAN
  /\ transfer = [m \in Message |-> None]
  /\ headers = 0
  /\ queue = NoMessages
  /\ stored = 0
  /\ attempt = [u \in Uuid |-> None]
  /\ task = [t \in Task |-> NoTask]
  /\ sweeper = "idle"
  /\ moves = 0
  /\ upsets = 0

Queued(m) == queue[m] # None

Registered == place # None /\ place \in up

-----------------------------------------------------------------------------
(* Delivery tasks are spawned into a free slot.                            *)

FreeTasks == {t \in Task : task[t].pc = "none"}

Spawned(force) ==
  [task EXCEPT ![CHOOSE t \in FreeTasks : TRUE] =
     [NoTask EXCEPT !.pc = "look", !.force = force]]

Move == moves < MaxMoves /\ moves' = moves + 1 /\ UNCHANGED upsets

Upset == upsets < MaxUpsets /\ upsets' = upsets + 1 /\ UNCHANGED moves

(* subscriber_registered: the ISSI is known from now on, and what is held  *)
(* for it is delivered.                                                    *)
Register(c) ==
  /\ Move
  /\ c \in up
  /\ place' = c
  /\ known' = TRUE
  /\ IF \E m \in Message : Queued(m)
       THEN FreeTasks # {} /\ task' = Spawned(TRUE)
       ELSE UNCHANGED task
  /\ UNCHANGED <<up, blocked, transfer, headers, queue, stored, attempt,
                 sweeper>>

Deregister ==
  /\ Move
  /\ place # None
  /\ place' = None
  /\ UNCHANGED <<up, blocked, transfer, headers, center, attempt, task,
                 sweeper>>

(* cleanup_client: the SDS routes to the connection go with it.            *)
Disconnect(c) ==
  /\ Upset
  /\ c \in up
  /\ up' = up \ {c}
  /\ place' = IF place = c THEN None ELSE place
  /\ transfer' = [m \in Message |->
       IF transfer[m] # None /\ (c = Sender \/ c \in transfer[m].to)
         THEN None ELSE transfer[m]]
  /\ attempt' = [u \in Uuid |->
       IF attempt[u] # None /\ attempt[u].to = c THEN None ELSE attempt[u]]
  /\ UNCHANGED <<blocked, headers, center, task, sweeper>>

Reconnect(c) ==
  /\ c \notin up
  /\ up' = up \union {c}
  /\ UNCHANGED <<bounds, place, blocked, transfer, headers, center, attempt, task,
                 sweeper>>

(* The operator puts the destination on the blacklist or takes it off.     *)
Blacklist ==
  /\ Upset
  /\ blocked' = ~blocked
  /\ UNCHANGED <<place, up, transfer, headers, center, attempt, task,
                 sweeper>>

-----------------------------------------------------------------------------
(* The sender's SDS (handle_sds_header, handle_sds_transfer).              *)

Wants == known \/ ~OnlyKnown

(* SHORT_TRANSFER: where it will go is settled now, never back to where it *)
(* came from.  An SDS to a blacklisted ISSI is not stored.                 *)
SdsHeader(m) ==
  /\ headers < MaxHeaders
  /\ transfer[m] = None
  /\ Sender \in up \/ Sender \notin Client
  /\ headers' = headers + 1
  /\ LET targets == {place} \ {None, Sender}
     IN  transfer' = [transfer EXCEPT ![m] =
           [to |-> targets,
            store |-> ~blocked /\ targets = {} /\ Wants]]
  /\ UNCHANGED <<place, up, blocked, center, attempt, task, sweeper, bounds>>

NewMessage ==
  [id |-> stored + 1, attempts |-> 0, uuid |-> None, late |-> FALSE,
   rested |-> TRUE, expired |-> FALSE]

(* SmsCenter::store: a repetition of what is queued is not queued again.   *)
(* The sender repeats a message only within DUPLICATE_WINDOW_MS.           *)
StoresAnyNumber(m) ==
  IF Queued(m) THEN UNCHANGED <<queue, stored>>
               ELSE queue' = [queue EXCEPT ![m] = NewMessage] /\ stored' = stored + 1

Stored(m) ==
  IF Queued(m) \/ Cardinality({n \in Message : Queued(n)}) >= QueueLimit
    THEN UNCHANGED <<queue, stored>>
    ELSE /\ queue' = [queue EXCEPT ![m] = NewMessage]
         /\ stored' = stored + 1

(* SDS_TRANSFER: dropped if a blacklisted ISSI is a party, stored if       *)
(* nobody was there to get it, else sent on, which leaves no trace here.   *)
SdsTransfer(m) ==
  /\ transfer[m] # None
  /\ transfer' = [transfer EXCEPT ![m] = None]
  /\ IF transfer[m].store THEN Stored(m) ELSE UNCHANGED <<queue, stored>>
  /\ UNCHANGED <<place, up, blocked, known, headers, attempt, task, sweeper,
                 bounds>>

-----------------------------------------------------------------------------
(* deliver_pending.                                                        *)

(* client_of: where the destination is registered now, if it is.           *)
Look(t) ==
  /\ task[t].pc = "look"
  /\ task' = [task EXCEPT ![t] =
       IF Registered THEN [@ EXCEPT !.pc = "take", !.client = place]
                     ELSE NoTask]
  /\ UNCHANGED <<server, center, attempt, sweeper, bounds>>

DueInFlight(m, force) ==
  Queued(m) /\ ~queue[m].expired /\ (force \/ queue[m].rested)

Due(m, force) ==
  /\ Queued(m)
  /\ queue[m].uuid = None
  /\ ~queue[m].expired
  /\ force \/ queue[m].rested

(* take_next_due: the oldest message that is due, marked in flight.        *)
Oldest(force) ==
  {m \in Message : Due(m, force) /\ \A n \in Message :
     Due(n, force) => queue[m].id <= queue[n].id}

Taken(m, u) ==
  [queue EXCEPT ![m] =
     [queue[m] EXCEPT !.uuid = u, !.attempts = queue[m].attempts + 1,
                      !.late = FALSE, !.rested = FALSE]]

(* Uuids are drawn at random: one that is nowhere in use any more.         *)
FreshUuids ==
  {u \in Uuid :
     /\ attempt[u] = None
     /\ \A m \in Message : Queued(m) => queue[m].uuid # u
     /\ \A t \in Task : task[t].uuid # u}

Take(t) ==
  /\ task[t].pc = "take"
  /\ IF Oldest(task[t].force) = {}
       THEN /\ task' = [task EXCEPT ![t] = NoTask]
            /\ UNCHANGED center
       ELSE \E m \in Oldest(task[t].force) :
              /\ FreshUuids # {}
              /\ LET u == CHOOSE u \in FreshUuids : \A v \in FreshUuids : u <= v
                 IN  /\ queue' = Taken(m, u)
                     /\ task' = [task EXCEPT ![t] =
                          [@ EXCEPT !.pc = "send", !.msg = m,
                                    !.id = queue[m].id, !.uuid = u]]
              /\ UNCHANGED <<stored, known>>
  /\ UNCHANGED <<server, attempt, sweeper, bounds>>

(* release: an attempt that was not sent does not count.                   *)
Released(u) ==
  [m \in Message |->
     IF Queued(m) /\ queue[m].uuid = u
       THEN [queue[m] EXCEPT !.uuid = None, !.attempts = @ - 1]
       ELSE queue[m]]

(* The task is about to send the message as it is queued now.              *)
Holds(t, m) ==
  /\ task[t].pc = "send"
  /\ Queued(m) /\ task[t].id = queue[m].id

(* originate, after the spacing sleep: to the connection looked up before  *)
(* it, whether or not the destination is still there.                      *)
Send(t) ==
  /\ task[t].pc = "send"
  /\ IF ~blocked /\ task[t].client \in up
       THEN /\ attempt' = [attempt EXCEPT ![task[t].uuid] =
                 [msg |-> task[t].msg, id |-> task[t].id, to |-> task[t].client,
                  late |-> FALSE]]
            /\ task' = [task EXCEPT ![t] =
                 [NoTask EXCEPT !.pc = "look", !.force = task[t].force]]
            /\ UNCHANGED queue
       ELSE /\ queue' = Released(task[t].uuid)
            /\ task' = [task EXCEPT ![t] = NoTask]
            /\ UNCHANGED attempt
  /\ UNCHANGED <<server, stored, known, sweeper, bounds>>

-----------------------------------------------------------------------------
(* Answers.                                                                *)

Current(m, u) == Queued(m) /\ queue[m].uuid = u

(* on_report: done, if this attempt is the one awaited.                    *)
Done(u) ==
  [m \in Message |-> IF Current(m, u) THEN None ELSE queue[m]]

(* SDS_REPORT (handle_sds_report): the route of the attempt leads here.    *)
SdsReport(u) ==
  /\ attempt[u] # None
  /\ attempt' = [attempt EXCEPT ![u] = None]
  /\ queue' = Done(u)
  /\ UNCHANGED <<server, stored, known, task, sweeper, bounds>>

(* No answer comes within 60 seconds, and purge_ephemeral drops the route: *)
(* before or after ack_timeout_seconds, whichever is set longer.           *)
Forget(u) ==
  /\ attempt[u] # None
  /\ attempt' = [attempt EXCEPT ![u] = None]
  /\ UNCHANGED <<server, center, task, sweeper, bounds>>

-----------------------------------------------------------------------------
(* Time and the sweep.                                                     *)

(* A task that holds a message sends it within delivery_spacing_ms, which  *)
(* is less than the report time-out.                                       *)
Held(m) == \E t \in Task : Holds(t, m)

Late(m) ==
  /\ Queued(m) /\ ~queue[m].rested /\ ~queue[m].late /\ ~Held(m)
  /\ queue' = [queue EXCEPT ![m].late = TRUE]
  /\ attempt' = [u \in Uuid |->
       IF Current(m, u) /\ attempt[u] # None
         THEN [attempt[u] EXCEPT !.late = TRUE] ELSE attempt[u]]
  /\ UNCHANGED <<server, stored, known, task, sweeper, bounds>>

(* retry_interval_seconds is no shorter than ack_timeout_seconds.          *)
Rest(m) ==
  /\ Queued(m) /\ queue[m].late /\ ~queue[m].rested
  /\ queue' = [queue EXCEPT ![m].rested = TRUE]
  /\ UNCHANGED <<server, stored, known, attempt, task, sweeper,
                 bounds>>

Expire(m) ==
  /\ m \in Expires /\ Queued(m) /\ ~queue[m].expired
  /\ queue' = [queue EXCEPT ![m].expired = TRUE]
  /\ UNCHANGED <<server, stored, known, attempt, task, sweeper,
                 bounds>>

(* sweep: time-outs first, then what has expired or used up its attempts.  *)
FreedAtOnce(e) == IF e.uuid # None THEN [e EXCEPT !.uuid = None] ELSE e

Freed(e) == IF e.uuid # None /\ e.late THEN [e EXCEPT !.uuid = None] ELSE e

GivenUp(e) ==
  /\ e.uuid = None
  /\ e.expired \/ (MaxAttempts > 0 /\ e.attempts >= MaxAttempts)

Swept(m) ==
  IF ~Queued(m) \/ GivenUp(Freed(queue[m])) THEN None ELSE Freed(queue[m])

Sweep ==
  /\ sweeper = "idle"
  /\ queue' = [m \in Message |-> Swept(m)]
  /\ sweeper' = "due"
  /\ UNCHANGED <<server, stored, known, attempt, task, bounds>>

(* due_destinations: a message not in flight that has rested, or was never *)
(* tried.                                                                  *)
HasRetryDue ==
  \E m \in Message :
    Queued(m) /\ queue[m].uuid = None /\ queue[m].attempts > 0 /\ queue[m].rested

HasDue == \E m \in Message : Queued(m) /\ queue[m].uuid = None /\ queue[m].rested

SpawnDue ==
  /\ sweeper = "due"
  /\ sweeper' = "idle"
  /\ IF HasDue /\ Registered
       THEN FreeTasks # {} /\ task' = Spawned(FALSE)
       ELSE UNCHANGED task
  /\ UNCHANGED <<server, center, attempt, bounds>>

(* The dashboard's delete.                                                 *)
Delete(m) ==
  /\ Upset
  /\ Queued(m)
  /\ queue' = [queue EXCEPT ![m] = None]
  /\ UNCHANGED <<server, stored, known, attempt, task, sweeper>>

-----------------------------------------------------------------------------
(* The server restarts with its queue file and nothing else.               *)

Restart ==
  /\ Upset
  /\ place' = None
  /\ up' = {}
  /\ transfer' = [m \in Message |-> None]
  /\ attempt' = [u \in Uuid |-> None]
  /\ task' = [t \in Task |-> NoTask]
  /\ sweeper' = "idle"
  /\ UNCHANGED <<blocked, headers, center>>

Next ==
  \/ \E c \in Client : Register(c) \/ Disconnect(c) \/ Reconnect(c)
  \/ Deregister \/ Blacklist
  \/ \E m \in Message :
       SdsHeader(m) \/ SdsTransfer(m) \/ Late(m) \/ Rest(m) \/ Expire(m)
         \/ Delete(m)
  \/ \E t \in Task : Look(t) \/ Take(t) \/ Send(t)
  \/ \E u \in Uuid : SdsReport(u) \/ Forget(u)
  \/ Sweep \/ SpawnDue
  \/ Restart

-----------------------------------------------------------------------------
(* What the queue promises.                                                *)

Entry == [id : Nat \ {0}, attempts : Nat, uuid : Uuid \union {None},
          late : BOOLEAN, rested : BOOLEAN, expired : BOOLEAN]

SmsRoute == [msg : Message, id : Nat \ {0}, to : Client, late : BOOLEAN]

ASSUME SmsNoneAssumption == None \notin Entry \union SmsRoute

(* Types: a queued message, an SDS route of the SMS Center, the stages of  *)
(* deliver_pending, and the per-destination limit of store.                *)
SmsTypeOK ==
  /\ place \in Client \union {None} /\ up \subseteq Client
  /\ blocked \in BOOLEAN /\ known \in BOOLEAN
  /\ queue \in [Message -> Entry \union {None}]
  /\ Cardinality({m \in Message : Queued(m)}) <= QueueLimit
  /\ stored \in Nat
  /\ attempt \in [Uuid -> SmsRoute \union {None}]
  /\ \A t \in Task :
       /\ task[t].pc \in {"none", "look", "take", "send"}
       /\ task[t].pc \in {"take", "send"} => task[t].client \in Client
       /\ task[t].pc = "send" => task[t].msg \in Message /\ task[t].id > 0
  /\ sweeper \in {"idle", "due"}

(* One attempt at a time: tasks of two registrations and of the sweep run  *)
(* side by side, yet no message is on its way twice with the report of     *)
(* neither overdue (the in-flight mark, ack_timeout_seconds).              *)
Underway(id) ==
  {u \in Uuid : \/ attempt[u] # None /\ attempt[u].id = id /\ ~attempt[u].late
               \/ \E t \in Task : /\ task[t].pc = "send"
                                 /\ task[t].id = id /\ task[t].uuid = u}

OneAttemptAtATime ==
  \A m \in Message : Queued(m) => Cardinality(Underway(queue[m].id)) <= 1

(* A message leaves the queue only because a Basestation reported this     *)
(* very message, or it expired or used up its attempts with no report to   *)
(* wait for, or the operator deleted it; a restart loses none (CHANGELOG:  *)
(* it stays queued until the Basestation answers).                         *)
Reported(m) ==
  \E u \in Uuid : /\ attempt[u] # None
                  /\ attempt[u].id = queue[m].id /\ attempt'[u] = None

Overdue(m) == queue[m].uuid = None \/ queue[m].late

UsedUp(m) == MaxAttempts > 0 /\ queue[m].attempts >= MaxAttempts

LeavesForAReason ==
  [][\A m \in Message : Queued(m) /\ ~Queued(m)' =>
       \/ Reported(m)
       \/ Overdue(m) /\ (queue[m].expired \/ UsedUp(m))
       \/ upsets' > upsets]_vars

(* A destination that stays registered and off the blacklist gets what is  *)
(* held for it, or the message is given up: whoever restarts, and though   *)
(* no Basestation ever answers.                                            *)
HeldMessagesEnd ==
  \A m \in Message : []<>(~Queued(m) \/ ~Registered \/ blocked)
-----------------------------------------------------------------------------

Safety == Init /\ [][Next]_vars

(* The ticker of run fires for ever, the tasks it spawns are run, and time *)
(* passes.  No Basestation has to answer.                                  *)
Fairness ==
  /\ WF_vars(Sweep) /\ WF_vars(SpawnDue)
  /\ \A t \in Task : WF_vars(Look(t) \/ Take(t) \/ Send(t))
  /\ \A m \in Message : WF_vars(Late(m)) /\ WF_vars(Rest(m))
  /\ \A u \in Uuid : WF_vars(Forget(u))

Spec == Safety /\ Fairness
=============================================================================
