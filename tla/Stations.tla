-------------------------------- MODULE Stations --------------------------------
(***************************************************************************)
(* The Basestations' telemetry and control channels and roaming between    *)
(* them (telemetry.rs, control.rs, docs/Roaming.md).                       *)
(*                                                                         *)
(* A Basestation reports who registers over its telemetry connection; the  *)
(* server mirrors it, and when a radio registers elsewhere it has the old  *)
(* Basestation kick it over the control connection.  Each connection is in *)
(* order, different ones are not.  A connection that breaks may live on at *)
(* the server for a while, also after the Basestation has connected again; *)
(* sessions of one Basestation share one entry, under its name.            *)
(*                                                                         *)
(* Radios and Basestations are modelled as the server's tests and docs     *)
(* take them: a radio never deregisters from the cell it leaves, registers *)
(* periodically and after a kick, and a Basestation answers a kick with    *)
(* MsDeregistration.  Answers to commands are only logged here.            *)
(***************************************************************************)
EXTENDS Naturals, Sequences

CONSTANTS
  Station,       \* Basestations, by their identity
  Issi,          \* radios
  Lists,         \* Basestations whose CellsSnapshot lists the registered ISSIs
  MaxQueue,      \* bound: events on their way on one connection
  MaxKickTasks,  \* bound: tasks asleep for one radio and Basestation
  MaxRoams,      \* bound: moves of radios
  MaxBreaks,     \* bound: broken connections, timeouts of Basestations
  NoEntry        \* not in the map

ASSUME StationsAssumption ==
  /\ Lists \subseteq Station
  /\ MaxQueue \in Nat \ {0, 1} /\ MaxKickTasks \in Nat \ {0}
  /\ MaxRoams \in Nat /\ MaxBreaks \in Nat
  /\ NoEntry \notin Station

VARIABLES
  kick_old_issi, \* the setting of [roaming]
  at,            \* the Basestation each radio is on
  holds,         \* who each Basestation takes to be registered
  stations,      \* TelemetryState::stations: who is listed, or NoEntry
  last_registration,
  kickTasks,     \* roaming tasks asleep: how many of each radio and old one
  telemetry,     \* of each Basestation its sessions, oldest first: [open,
                 \* events]; the last may be the one it uses
  sessions,      \* ControlState::sessions: whether there is an entry
  control,       \* [open: its connection, ended: sessions of broken ones,
                 \* frames: kicks on their way to it]
  roams, breaks

stationsVars == <<kick_old_issi, at, holds, stations, last_registration,
                  kickTasks, telemetry, sessions, control, roams, breaks>>

Idle == [open |-> TRUE, events |-> <<>>]

(* Every Basestation has just connected.                                   *)
StationsInit ==
  /\ kick_old_issi \in BOOLEAN
  /\ at \in [Issi -> Station]
  /\ holds = [s \in Station |-> {r \in Issi : at[r] = s}]
  /\ stations = [s \in Station |-> {}]
  /\ last_registration = [r \in Issi |-> NoEntry]
  /\ kickTasks = [t \in Issi \X Station |-> 0]
  /\ telemetry = [s \in Station |-> <<Idle>>]
  /\ sessions = [s \in Station |-> TRUE]
  /\ control = [s \in Station |-> [open |-> TRUE, ended |-> 0, frames |-> {}]]
  /\ roams = 0 /\ breaks = 0

Breakage == breaks < MaxBreaks /\ breaks' = breaks + 1 /\ UNCHANGED roams
NoBreakage == UNCHANGED <<breaks, roams>>

-----------------------------------------------------------------------------
(* Radios and Basestations.                                                *)

Reports(s) == telemetry[s] # <<>> /\ telemetry[s][Len(telemetry[s])].open

InQueue(s) ==
  IF Reports(s) THEN telemetry[s][Len(telemetry[s])].events ELSE <<>>

Room(s) == Len(InQueue(s)) < MaxQueue

(* What a Basestation without a connection has to tell is never told.      *)
Tells(s, event) ==
  telemetry' =
    IF Reports(s)
      THEN [telemetry EXCEPT ![s][Len(telemetry[s])].events = Append(@, event)]
      ELSE telemetry

About(kind, r) == [kind |-> kind, issi |-> r]

Registers(r, s) ==
  /\ Room(s)
  /\ holds' = [holds EXCEPT ![s] = @ \union {r}]
  /\ Tells(s, About("MsRegistration", r))
  /\ UNCHANGED <<kick_old_issi, stations, last_registration, kickTasks, sessions,
                 control>>

Roams(r, s) ==
  /\ roams < MaxRoams
  /\ at[r] # s
  /\ at' = [at EXCEPT ![r] = s]
  /\ Registers(r, s)
  /\ roams' = roams + 1 /\ UNCHANGED breaks

RegistersAgain(r) ==
  /\ \A i \in DOMAIN InQueue(at[r]) :
       InQueue(at[r])[i] # About("MsRegistration", r)
  /\ Registers(r, at[r])
  /\ UNCHANGED at /\ NoBreakage

(* A Basestation sends its CellsSnapshot from time to time.                *)
Snapshots(s) ==
  LET snapshot == [kind |-> "CellsSnapshot", listed |-> holds[s]]
  IN  /\ s \in Lists /\ Reports(s) /\ Room(s)
      /\ \A i \in DOMAIN InQueue(s) : InQueue(s)[i].kind # "CellsSnapshot"
      /\ Tells(s, snapshot)
      /\ UNCHANGED <<kick_old_issi, at, holds, stations, last_registration,
                     kickTasks, sessions, control>> /\ NoBreakage

(* It drops a radio that it has not heard for long, if it ever does.       *)
TimesOut(s, r) ==
  /\ Breakage
  /\ r \in holds[s] /\ at[r] # s /\ Room(s)
  /\ holds' = [holds EXCEPT ![s] = @ \ {r}]
  /\ Tells(s, About("MsTimeoutDrop", r))
  /\ UNCHANGED <<kick_old_issi, at, stations, last_registration, kickTasks,
                 sessions, control>>

(* It carries out a KickMs.                                                *)
Kicks(s, r) ==
  /\ control[s].open /\ r \in control[s].frames /\ Room(s)
  /\ control' = [control EXCEPT ![s].frames = @ \ {r}]
  /\ holds' = [holds EXCEPT ![s] = @ \ {r}]
  /\ Tells(s, About("MsDeregistration", r))
  /\ UNCHANGED <<kick_old_issi, at, stations, last_registration, kickTasks,
                 sessions>> /\ NoBreakage

-----------------------------------------------------------------------------
(* Telemetry.                                                              *)

(* session: the entry is made anew, also if an older session is running.   *)
Connects(s) ==
  /\ ~Reports(s)
  /\ Len(telemetry[s]) < 2
  /\ telemetry' = [telemetry EXCEPT ![s] = Append(@, Idle)]
  /\ stations' = [stations EXCEPT ![s] = {}]
  /\ UNCHANGED <<kick_old_issi, at, holds, last_registration, kickTasks, sessions,
                 control>> /\ NoBreakage

(* Some of what was on its way has still arrived.                          *)
TelemetryBreaks(s) ==
  /\ Breakage
  /\ Reports(s)
  /\ \E n \in 0..Len(InQueue(s)) :
       telemetry' = [telemetry EXCEPT ![s][Len(telemetry[s])] =
         [open |-> FALSE, events |-> SubSeq(InQueue(s), 1, n)]]
  /\ UNCHANGED <<kick_old_issi, at, holds, stations, last_registration, kickTasks,
                 sessions, control>>

(* The end of session: the entry goes, whoever made it.                    *)
Disconnected(s, i) ==
  /\ i \in DOMAIN telemetry[s]
  /\ ~telemetry[s][i].open /\ telemetry[s][i].events = <<>>
  /\ telemetry' = [telemetry EXCEPT ![s] =
       SubSeq(@, 1, i - 1) \o SubSeq(@, i + 1, Len(@))]
  /\ stations' = [stations EXCEPT ![s] = NoEntry]
  /\ UNCHANGED <<kick_old_issi, at, holds, last_registration, kickTasks, sessions,
                 control>> /\ NoBreakage

(* take_roamed: those that still list a radio that registered elsewhere.   *)
Roamed(r, s) ==
  {old \in Station \ {s} : stations[old] # NoEntry /\ r \in stations[old]}

MsRegistration(r, s) ==
  LET old == IF kick_old_issi THEN Roamed(r, s) ELSE {}
  IN  /\ \A o \in old : kickTasks[r, o] < MaxKickTasks
      /\ stations' = [o \in Station |->
           CASE o = s -> stations[o] \union {r}
             [] o \in old -> stations[o] \ {r}
             [] OTHER -> stations[o]]
      /\ last_registration' = [last_registration EXCEPT ![r] = s]
      /\ kickTasks' = [t \in DOMAIN kickTasks |->
           kickTasks[t] + (IF t[1] = r /\ t[2] \in old THEN 1 ELSE 0)]

(* handle_event; events of a Basestation without an entry are dropped.     *)
Handled(s, event) ==
  CASE stations[s] = NoEntry ->
         UNCHANGED <<stations, last_registration, kickTasks>>
    [] stations[s] # NoEntry /\ event.kind = "MsRegistration" ->
         MsRegistration(event.issi, s)
    [] stations[s] # NoEntry /\ event.kind = "CellsSnapshot" ->
         /\ stations' = [stations EXCEPT ![s] = event.listed]
         /\ UNCHANGED <<last_registration, kickTasks>>
    [] OTHER ->
         /\ stations' = [stations EXCEPT ![s] = @ \ {event.issi}]
         /\ UNCHANGED <<last_registration, kickTasks>>

HandleEvent(s, i) ==
  /\ i \in DOMAIN telemetry[s] /\ telemetry[s][i].events # <<>>
  /\ telemetry' = [telemetry EXCEPT ![s][i].events = Tail(@)]
  /\ Handled(s, Head(telemetry[s][i].events))
  /\ UNCHANGED <<kick_old_issi, at, holds, sessions, control>> /\ NoBreakage

-----------------------------------------------------------------------------
(* Kicks over the control channel.                                         *)

(* A mutant: the kick is skipped while the radio is where it registered.   *)
BackOnAny(r, old) == last_registration[r] # old

BackOn(r, old) == last_registration[r] = old

(* The task of a roamed radio after its sleep; send_command.               *)
KickTask(r, old) ==
  /\ kickTasks[r, old] > 0
  /\ kickTasks' = [kickTasks EXCEPT ![<<r, old>>] = @ - 1]
  /\ control' =
       IF ~BackOn(r, old) /\ sessions[old] /\ control[old].open
         THEN [control EXCEPT ![old].frames = @ \union {r}]
         ELSE control
  /\ UNCHANGED <<kick_old_issi, at, holds, stations, last_registration, telemetry,
                 sessions>> /\ NoBreakage

ControlConnects(s) ==
  /\ ~control[s].open /\ control[s].ended < 2
  /\ control' = [control EXCEPT ![s].open = TRUE]
  /\ sessions' = [sessions EXCEPT ![s] = TRUE]
  /\ UNCHANGED <<kick_old_issi, at, holds, stations, last_registration, kickTasks,
                 telemetry>> /\ NoBreakage

ControlBreaks(s) ==
  /\ Breakage
  /\ control[s].open
  /\ control' = [control EXCEPT ![s] =
       [open |-> FALSE, ended |-> @.ended + 1, frames |-> {}]]
  /\ UNCHANGED <<kick_old_issi, at, holds, stations, last_registration, kickTasks,
                 telemetry, sessions>>

(* The end of session, which also removes the entry of a later one.        *)
ControlEnded(s) ==
  /\ control[s].ended > 0
  /\ control' = [control EXCEPT ![s].ended = @ - 1]
  /\ sessions' = [sessions EXCEPT ![s] = FALSE]
  /\ UNCHANGED <<kick_old_issi, at, holds, stations, last_registration, kickTasks,
                 telemetry>> /\ NoBreakage

-----------------------------------------------------------------------------
StationsNext ==
  \/ \E r \in Issi : RegistersAgain(r) \/ \E s \in Station : Roams(r, s)
  \/ \E s \in Station, r \in Issi :
       TimesOut(s, r) \/ Kicks(s, r) \/ KickTask(r, s)
  \/ \E s \in Station :
       \/ Snapshots(s) \/ Connects(s) \/ TelemetryBreaks(s)
       \/ ControlConnects(s) \/ ControlBreaks(s) \/ ControlEnded(s)
       \/ \E i \in {1, 2} : Disconnected(s, i) \/ HandleEvent(s, i)

(* Basestations connect again, sessions read on and end, tasks wake up,    *)
(* radios register again, and Basestations with snapshots send them.       *)
StationsFairness ==
  /\ \A r \in Issi : WF_stationsVars(RegistersAgain(r))
  /\ \A s \in Station :
       /\ WF_stationsVars(Snapshots(s))
       /\ WF_stationsVars(Connects(s)) /\ WF_stationsVars(ControlConnects(s))
       /\ WF_stationsVars(ControlEnded(s))
       /\ \A i \in {1, 2} :
            /\ WF_stationsVars(Disconnected(s, i))
            /\ WF_stationsVars(HandleEvent(s, i))
       /\ \A r \in Issi :
            WF_stationsVars(Kicks(s, r)) /\ WF_stationsVars(KickTask(r, s))

StationsSpec == StationsInit /\ [][StationsNext]_stationsVars /\ StationsFairness

-----------------------------------------------------------------------------
(* Every Basestation is in both maps.  One that has connected again before *)
(* its old session ended is not: that end removes the entry of the new     *)
(* session (session of telemetry.rs and of control.rs).                    *)
AllInView == \A s \in Station : stations[s] # NoEntry /\ sessions[s]

Listed ==
  AllInView => \A r \in Issi :
    /\ r \in stations[at[r]]
    /\ kick_old_issi => \A s \in Station \ {at[r]} : r \notin stations[s]

(* However radios roam and connections break, in the end every radio is    *)
(* listed on the Basestation it is on, and with [roaming] kick_old_issi on *)
(* no other: neither on the one it left, nor where a registration or a     *)
(* snapshot handled late has put it, nor missing where a kick that came    *)
(* too late has thrown it off (handle_event, take_roamed).                 *)
ListedWhereItIs == <>[]Listed
=============================================================================
