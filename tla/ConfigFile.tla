----------------------------- MODULE ConfigFile -----------------------------
(***************************************************************************)
(* The configuration file and who writes it (dashboard.rs, blacklist.rs,   *)
(* state.rs, and config_watcher of main.rs).                               *)
(*                                                                         *)
(* The process runs on what it read at its start, and on the blacklist,    *)
(* which may change at once.  Everything else that is saved takes effect   *)
(* with a restart: by the watcher, or with HA by "Apply saved config".     *)
(* CONFIG_WRITE_APPLIED_LIVE is to keep the watcher from a restart for a   *)
(* blacklist edit.  A setting is an entry that is in the file or not.      *)
(***************************************************************************)
EXTENDS Naturals

CONSTANTS
  Setting,     \* entries the settings pages add and delete
  HaSetting,   \* those among them that are in [ha]
  Blockable,   \* ISSIs somebody blocks and unblocks
  Person,      \* who edits, with one request at a time
  HaModes,     \* ha.enabled: the values to look at
  Patient,     \* whether a save is only made when the last is in effect
  ByHand,      \* whether the file is also edited by hand
  MaxEdits,    \* bound: edits
  Broken,      \* a file that does not parse
  NoRequest

ASSUME ConfigAssumption ==
  /\ HaSetting \subseteq Setting
  /\ Setting \cap Blockable = {} /\ "raw" \notin Setting \cup Blockable
  /\ HaModes \subseteq BOOLEAN /\ Patient \in BOOLEAN /\ ByHand \in BOOLEAN
  /\ MaxEdits \in Nat

Config == [settings : SUBSET Setting, issis : SUBSET Blockable]

ASSUME BrokenAssumption == Broken \notin Config

VARIABLES
  ha,           \* config.ha.enabled
  started_on,   \* AppState::config, as read at the start
  blocked_list, \* AppState::blocked
  file,         \* what the file says, or Broken
  mtime,        \* its modification time
  watcher,      \* config_watcher: [pc, last_mtime]
  applied_live, \* CONFIG_WRITE_APPLIED_LIVE
  request,      \* of each person: [pc, edit, cfg], or NoRequest
  asked,        \* what the edits so far add up to
  unsaved,      \* the last blacklist edit was answered "saving ... failed"
  due,          \* something was saved that only a restart applies
  edits

configVars == <<ha, started_on, blocked_list, file, mtime, watcher,
                applied_live, request, asked, unsaved, due, edits>>

ConfigInit ==
  /\ ha \in HaModes
  /\ file = [settings |-> {}, issis |-> {}]
  /\ started_on = file /\ blocked_list = file.issis /\ asked = file
  /\ mtime = 0 /\ watcher = [pc |-> "waits", last_mtime |-> 0]
  /\ applied_live = FALSE
  /\ request = [p \in Person |-> NoRequest]
  /\ unsaved = FALSE /\ due = FALSE /\ edits = 0

-----------------------------------------------------------------------------
NobodyEdits == \A p \in Person : request[p] = NoRequest

(* The last save is in effect.                                             *)
TakenUp == /\ NobodyEdits /\ ~due
           /\ ha \/ watcher = [pc |-> "waits", last_mtime |-> mtime]

Edits == /\ edits < MaxEdits /\ edits' = edits + 1
         /\ Patient => TakenUp

(* On the dashboard or from a console; a file that does not parse is first *)
(* put right by hand.                                                      *)
EditsHere == Edits /\ (Patient => file # Broken)

Opens(p, pc, edit, cfg) ==
  /\ request[p] = NoRequest
  /\ request' = [request EXCEPT ![p] = [pc |-> pc, edit |-> edit, cfg |-> cfg]]

config_snapshot == [started_on EXCEPT !.issis = blocked_list]

Toggled(S, x) == (S \ {x}) \cup ({x} \ S)

(* Blocks or unblocks an ISSI, from the dashboard or from a console: the   *)
(* running server first.                                                   *)
Blacklists(p) ==
  /\ EditsHere
  /\ \E i \in Blockable :
       /\ blocked_list' = Toggled(blocked_list, i)
       /\ Opens(p, "snapshot", i, started_on)
  /\ UNCHANGED <<ha, started_on, file, mtime, watcher, applied_live, asked,
                 unsaved, due>>

TakesSnapshot(p) ==
  /\ request[p] # NoRequest /\ request[p].pc = "snapshot"
  /\ request' = [request EXCEPT ![p].pc = "flag", ![p].cfg = config_snapshot]
  /\ UNCHANGED <<ha, started_on, blocked_list, file, mtime, watcher,
                 applied_live, asked, unsaved, due, edits>>

Flags(p) ==
  /\ request[p] # NoRequest /\ request[p].pc = "flag"
  /\ request' = [request EXCEPT ![p].pc = "save"]
  /\ applied_live' = TRUE
  /\ UNCHANGED <<ha, started_on, blocked_list, file, mtime, watcher, asked,
                 unsaved, due, edits>>

(* A settings page: one entry added to or deleted from the snapshot.       *)
EditsSetting(p) ==
  /\ EditsHere
  /\ \E s \in Setting \ HaSetting :
       Opens(p, "save", s, [config_snapshot EXCEPT !.settings = Toggled(@, s)])
  /\ UNCHANGED <<ha, started_on, blocked_list, file, mtime, watcher,
                 applied_live, asked, unsaved, due>>

(* The HA page: [ha] into the file as it is.                               *)
EditsHa(p) ==
  /\ EditsHere
  /\ \E s \in HaSetting :
       LET base == IF file = Broken THEN started_on ELSE file IN
       Opens(p, "save", s, [base EXCEPT !.settings = Toggled(@, s)])
  /\ UNCHANGED <<ha, started_on, blocked_list, file, mtime, watcher,
                 applied_live, asked, unsaved, due>>

(* The raw editor: the whole file.                                         *)
SavesRaw(p) ==
  /\ EditsHere
  /\ \E cfg \in Config : Opens(p, "save", "raw", cfg)
  /\ UNCHANGED <<ha, started_on, blocked_list, file, mtime, watcher,
                 applied_live, asked, unsaved, due>>

(* What the edits add up to with r: an entry or an ISSI more or less, or   *)
(* another file.                                                           *)
Asked(r) ==
  LET With(S, now) == IF r.edit \in now THEN S \cup {r.edit} ELSE S \ {r.edit}
  IN CASE r.edit \in Setting ->
            [asked EXCEPT !.settings = With(@, r.cfg.settings)]
       [] r.edit \in Blockable -> [asked EXCEPT !.issis = With(@, r.cfg.issis)]
       [] OTHER -> r.cfg

(* A blacklist edit that is in force and not in the file.                  *)
Unsaved(r) ==
  /\ unsaved' = (unsaved \/ r.edit \in Blockable)
  /\ asked' = IF r.edit \in Blockable THEN Asked(r) ELSE asked

(* save_config, and what the caller does after it.  The file is replaced   *)
(* as a whole; a failed blacklist edit takes its flag back.                *)
Saves(p) ==
  LET r == request[p] IN
  /\ r # NoRequest /\ r.pc = "save"
  /\ request' = [request EXCEPT ![p] = NoRequest]
  /\ file' = r.cfg /\ mtime' = mtime + 1
  /\ asked' = Asked(r)
  /\ unsaved' = (unsaved /\ r.edit \in HaSetting)
  /\ due' = (due \/ r.edit \notin Blockable)
  /\ UNCHANGED <<ha, started_on, blocked_list, watcher, applied_live, edits>>

(* A mutant: a failed blacklist edit leaves its flag.                      *)
KeepsFlag(p) ==
  LET r == request[p] IN
  /\ r # NoRequest /\ r.pc = "save"
  /\ request' = [request EXCEPT ![p] = NoRequest]
  /\ Unsaved(r)
  /\ UNCHANGED <<ha, started_on, blocked_list, file, mtime, watcher,
                 applied_live, due, edits>>

FailsToSave(p) ==
  LET r == request[p] IN
  /\ r # NoRequest /\ r.pc = "save"
  /\ request' = [request EXCEPT ![p] =
       IF r.edit \in Blockable THEN [r EXCEPT !.pc = "unflag"] ELSE NoRequest]
  /\ Unsaved(r)
  /\ UNCHANGED <<ha, started_on, blocked_list, file, mtime, watcher,
                 applied_live, due, edits>>

Unflags(p) ==
  /\ request[p] # NoRequest /\ request[p].pc = "unflag"
  /\ request' = [request EXCEPT ![p] = NoRequest]
  /\ applied_live' = FALSE
  /\ UNCHANGED <<ha, started_on, blocked_list, file, mtime, watcher, asked,
                 unsaved, due, edits>>

(* Somebody edits the file by hand; it may not parse afterwards.           *)
EditsByHand ==
  /\ ByHand /\ Edits
  /\ \E f \in Config \cup {Broken} :
       /\ f # file /\ file' = f
       /\ IF f = Broken THEN UNCHANGED <<asked, unsaved, due>>
          ELSE asked' = f /\ unsaved' = FALSE /\ due' = TRUE
  /\ mtime' = mtime + 1
  /\ UNCHANGED <<ha, started_on, blocked_list, watcher, applied_live,
                 request>>

-----------------------------------------------------------------------------
(* A new process: it reads the file, and its watcher the time of it.       *)
StartsOn ==
  /\ file # Broken
  /\ started_on' = file /\ blocked_list' = file.issis
  /\ watcher' = [pc |-> "waits", last_mtime |-> mtime]
  /\ applied_live' = FALSE
  /\ request' = [p \in Person |-> NoRequest]
  /\ asked' = IF unsaved THEN [asked EXCEPT !.issis = file.issis] ELSE asked
  /\ unsaved' = FALSE /\ due' = FALSE
  /\ UNCHANGED <<ha, file, mtime, edits>>

(* config_watcher, which does not run with HA: the time of the file, then  *)
(* the flag, then the file itself, then the restart.                       *)
SeesChange ==
  /\ ~ha /\ watcher.pc = "waits" /\ watcher.last_mtime # mtime
  /\ watcher' = [pc |-> "changed", last_mtime |-> mtime]
  /\ UNCHANGED <<ha, started_on, blocked_list, file, mtime, applied_live,
                 request, asked, unsaved, due, edits>>

SwapsFlag ==
  /\ watcher.pc = "changed"
  /\ watcher' = [watcher EXCEPT !.pc =
                   IF applied_live THEN "waits" ELSE "loads"]
  /\ applied_live' = FALSE
  /\ UNCHANGED <<ha, started_on, blocked_list, file, mtime, request, asked,
                 unsaved, due, edits>>

Validates ==
  /\ watcher.pc = "loads"
  /\ watcher' = [watcher EXCEPT !.pc =
                   IF file = Broken THEN "waits" ELSE "restarts"]
  /\ UNCHANGED <<ha, started_on, blocked_list, file, mtime, applied_live,
                 request, asked, unsaved, due, edits>>

WatcherRestarts == watcher.pc = "restarts" /\ StartsOn

(* "Apply saved config" of the HA page.                                    *)
ApplySaved == ha /\ (Patient => NobodyEdits) /\ StartsOn

Proceed(p) ==
  TakesSnapshot(p) \/ Flags(p) \/ Saves(p) \/ FailsToSave(p) \/ Unflags(p)

Watch == SeesChange \/ SwapsFlag \/ Validates \/ WatcherRestarts

ConfigNext ==
  \/ \E p \in Person :
       \/ Blacklists(p) \/ EditsSetting(p) \/ EditsHa(p) \/ SavesRaw(p)
       \/ Proceed(p)
  \/ EditsByHand
  \/ Watch \/ ApplySaved

(* Requests are carried out, the watcher polls, and an administrator who   *)
(* saves something with HA enabled applies it.                             *)
ConfigFairness ==
  /\ \A p \in Person : WF_configVars(Proceed(p))
  /\ WF_configVars(Watch)
  /\ WF_configVars(due /\ ApplySaved)

ConfigSpec == ConfigInit /\ [][ConfigNext]_configVars /\ ConfigFairness

-----------------------------------------------------------------------------
ConfigTypeOK ==
  /\ started_on \in Config /\ blocked_list \subseteq Blockable
  /\ file \in Config \cup {Broken} /\ asked \in Config
  /\ \A p \in Person : request[p] = NoRequest \/ request[p].cfg \in Config

(* Nothing that was saved is undone by another save: the file says what    *)
(* the edits add up to (mutate_and_save, config_snapshot), except for a    *)
(* blacklist edit whose answer was that it could not be saved.             *)
SavedIsKept ==
  NobodyEdits /\ file # Broken =>
    /\ file.settings = asked.settings
    /\ unsaved \/ file.issis = asked.issis

(* Blacklist edits never restart the server, which would drop every call   *)
(* (CONFIG_WRITE_APPLIED_LIVE, config_watcher).                            *)
RestartsForAReason == [][WatcherRestarts => due]_configVars

(* Nor is what was saved otherwise forgotten: it is always applied in the  *)
(* end, and the list in force is the one in the file (blacklist.rs,        *)
(* config_watcher).                                                        *)
SavesTakeEffect ==
  /\ RestartsForAReason
  /\ <>[](/\ ~due /\ SavedIsKept
          /\ file = Broken \/ unsaved \/ file.issis = blocked_list)
=============================================================================
