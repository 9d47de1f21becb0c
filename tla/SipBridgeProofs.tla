-------------------------- MODULE SipBridgeProofs --------------------------
(***************************************************************************)
(* What a SIP call takes it gives back: for any number of calls, of        *)
(* INVITEs handled and of handlers that end calls at once.                 *)
(***************************************************************************)
EXTENDS SipBridge, FiniteSetTheorems, TLAPS

-----------------------------------------------------------------------------
(* The inductive invariant.                                                *)

Pcs == {"none", "trying", "tracked", "bridged", "placed", "entered", "done"}
Live == {"called", "answering", "talking", "listening", "dialling"}
EndingPcs == {"relay", "call", "find", "bye", "leg", "core"}
Legs ==
  [run : Run \union {NoRun}, subscriber : BOOLEAN, connected : BOOLEAN,
   pending : BOOLEAN]
Answers ==
  [call : Call, ok : BOOLEAN, run : Run \union {NoRun}, pc : {"read", "act", "media"}]
Endings ==
  [by : {"peer", "far", "sweep", "control", "refusal", "answer", "brew"}, call : Call,
   run : Run \union {NoRun}, pc : EndingPcs]

SipTypesOK ==
  /\ call \in [Call -> {"none", "routing", "answered"}] /\ trunk \in Nat
  /\ relay \in [Call -> Run \union {NoRun}]
  /\ relaying \subseteq Run /\ coding \subseteq Run
  /\ leg \in [Call -> Legs]
  /\ client \subseteq Run /\ brew \subseteq Run
  /\ floor \in Run \union {NoRun, Other}
  /\ radio \in [Run -> Live \union {"idle", "over", "untold"}]
  /\ invite \in [Run -> [call : Call, pc : Pcs]]
  /\ answer \subseteq Answers /\ ending \subseteq Endings

(* A call from a radio; a handler whose leg is in, if it has one; one that *)
(* has tracked its call.                                                   *)
Out(r) == target[Of(r)] = "out"
Late(r) == At(r, "bridged") \/ At(r, "done")
Started(r) ==
  ~At(r, "none") /\ ~At(r, "trying") /\ (Out(r) => ~At(r, "tracked"))

RunsKeepTheirWay ==
  \A r \in Run :
    /\ At(r, "none") =>
         r \notin client \union coding \union relaying \union brew /\ floor # r
    /\ At(r, "trying") \/ At(r, "bridged") => ~Out(r)
    /\ At(r, "placed") => Out(r)
    /\ At(r, "entered") => r \in client /\ (Out(r) => r \in brew)

PlacedOnce ==
  \A r, q \in Run :
    ~At(r, "none") /\ ~At(q, "none") /\ Of(r) = Of(q) /\ Out(r) => r = q

CallsWereStarted ==
  \A c \in Call : call[c] # "none" => \E r \in Run : Of(r) = c /\ Started(r)

LegsAreOfTheirCall ==
  \A c \in Call :
    /\ leg[c].run # NoRun =>
         Of(leg[c].run) = c /\ leg[c].run \in client /\ Late(leg[c].run)
    /\ leg[c].pending \/ leg[c].subscriber =>
         leg[c].run # NoRun /\ At(leg[c].run, "done")

(* A leg that has left does not come back.                                 *)
CleanUpsAreLate ==
  \A e \in ending : e.pc = "core" =>
    e.run \in Run /\ Late(e.run) /\ leg[Of(e.run)].run # e.run

AnswersAreLate == \A a \in answer : a.pc = "act" => a.run \in Run /\ At(a.run, "done")

DialsAreOut == \A r \in Run : radio[r] = "dialling" => Out(r) /\ ~At(r, "none")

GroupHasFloor == floor \in Run => target[Of(floor)] = "group"

TasksAreNamed ==
  /\ \A r \in coding : leg[Of(r)].run = r \/ Repeated(Of(r))
  /\ \A r \in relaying : relay[Of(r)] = r \/ Repeated(Of(r))

Leaving(r) == \E e \in ending : e.pc = "core" /\ e.run = r

ClientsBelong ==
  \A r \in client :
    leg[Of(r)].run = r \/ At(r, "entered") \/ Repeated(Of(r)) \/ Leaving(r)

Running == {c \in OnTrunk : call[c] # "none"}

TrunkIsCounted == IsFiniteSet(Running) /\ TrunkCountIsExact

IInv ==
  /\ SipTypesOK /\ RunsKeepTheirWay /\ PlacedOnce /\ CallsWereStarted
  /\ LegsAreOfTheirCall /\ CleanUpsAreLate /\ AnswersAreLate /\ DialsAreOut
  /\ GroupHasFloor /\ TasksAreNamed /\ ClientsBelong /\ TrunkIsCounted
  /\ RadioIsInARealCall

-----------------------------------------------------------------------------
(* The handlers of INVITEs.                                                *)

(* A run is none of the two values that stand for no run and for a radio's *)
(* own call.                                                               *)
LEMMA RunsAreRuns == NoRun \notin Run /\ Other \notin Run /\ Other # NoRun
BY SipAssumption DEF Run, NoRun, Other

(* Two of a set of runs are more than one.                                 *)
LEMMA MoreThanOne ==
  ASSUME NEW S \in SUBSET Run, NEW r \in S, NEW q \in S, r # q
  PROVE  Cardinality(S) > 1
<1>1. IsFiniteSet(Run)
  BY FS_Interval, SipAssumption DEF Run
<1>2. IsFiniteSet(S) /\ {r, q} \in SUBSET S
  BY <1>1, FS_Subset
<1>3. Cardinality({r, q}) <= Cardinality(S)
  BY <1>2, FS_Subset
<1>4. IsFiniteSet({r}) /\ Cardinality({r}) = 1
  BY FS_Singleton
<1>5. {r, q} = {r} \cup {q} /\ q \notin {r}
  OBVIOUS
<1>6. Cardinality({r} \cup {q}) = 2
  <2>1. Cardinality({r} \cup {q}) =
          IF q \in {r} THEN Cardinality({r}) ELSE Cardinality({r}) + 1
    BY ONLY <1>4, FS_AddElement
  <2> QED BY ONLY <1>4, <1>5, <2>1
<1>7. Cardinality(S) \in Nat
  BY <1>2, FS_CardinalityType
<1> QED BY <1>3, <1>5, <1>6, <1>7

(* More runs are not fewer.                                                *)
LEMMA StaysMoreThanOne ==
  ASSUME NEW T \in SUBSET Run, NEW S \in SUBSET T, Cardinality(S) > 1
  PROVE  Cardinality(T) > 1
<1>1. IsFiniteSet(Run)
  BY FS_Interval, SipAssumption DEF Run
<1>2. IsFiniteSet(T) /\ IsFiniteSet(S)
  BY <1>1, FS_Subset
<1>3. Cardinality(S) <= Cardinality(T)
  BY <1>2, FS_Subset
<1>4. Cardinality(S) \in Nat /\ Cardinality(T) \in Nat
  BY <1>2, FS_CardinalityType
<1> QED BY <1>3, <1>4

(* What no step takes back: a handler keeps its call and does not return.  *)
Onward ==
  /\ target' = target
  /\ invite' \in [Run -> [call : Call, pc : Pcs]]
  /\ \A r \in Run : ~At(r, "none") =>
       /\ ~At(r, "none")' /\ Of(r)' = Of(r)
       /\ Late(r) => Late(r)'
       /\ At(r, "done") => At(r, "done")'
       /\ Started(r) => Started(r)'

(* An INVITE that was handled twice remains so.                            *)
LEMMA RepeatedStays ==
  ASSUME Onward, NEW c, Repeated(c)
  PROVE  Repeated(c)'
<1>1. RunsOf(c)' \in SUBSET Run /\ RunsOf(c) \in SUBSET RunsOf(c)'
  BY DEF Onward, RunsOf
<1>2. Cardinality(RunsOf(c)) > 1
  BY DEF Repeated
<1>3. Cardinality(RunsOf(c)') > 1
  BY <1>1, <1>2, StaysMoreThanOne
<1> QED BY <1>3 DEF Repeated

(* A call with two handlers had an INVITE that was handled twice.          *)
LEMMA TwoAreRepeated ==
  ASSUME NEW r \in Run, NEW q \in Run, r # q, Of(r) = Of(q), ~At(r, "none"), ~At(q, "none")
  PROVE  Repeated(Of(r))
BY MoreThanOne DEF Repeated, RunsOf

(* No handler goes on.                                                     *)
LEMMA OnwardSame ==
  ASSUME SipTypesOK, UNCHANGED <<target, invite>>
  PROVE  Onward
BY DEF Onward, SipTypesOK, At, Of, Late, Started, Out

(* One handler goes on.                                                    *)
LEMMA OnwardGoes ==
  ASSUME SipTypesOK, NEW r \in Run, NEW pc \in Pcs \ {"none", "trying"},
         ~At(r, "none"), Goes(r, pc), UNCHANGED target,
         Late(r) => pc \in {"bridged", "done"}, At(r, "done") => pc = "done",
         Out(r) => pc # "tracked"
  PROVE  /\ Onward /\ At(r, pc)' /\ Of(r)' = Of(r)
         /\ \A q \in Run : q # r => invite'[q] = invite[q]
         /\ \A q \in Run : Of(q)' = Of(q) /\ (At(q, "none")' <=> At(q, "none"))
<1>1. /\ invite' \in [Run -> [call : Call, pc : Pcs]]
      /\ invite'[r].call = invite[r].call /\ invite'[r].pc = pc
      /\ \A q \in Run : q # r => invite'[q] = invite[q]
  BY DEF SipTypesOK, Goes
<1>2. \A q \in Run : Of(q)' = Of(q) /\ (At(q, "none")' <=> At(q, "none"))
  BY <1>1 DEF Of, At
<1>3. ASSUME NEW q \in Run, ~At(q, "none")
      PROVE  /\ Late(q) => Late(q)'
             /\ At(q, "done") => At(q, "done")'
             /\ Started(q) => Started(q)'
  BY <1>1, <1>3 DEF At, Of, Late, Started, Out
<1> QED BY <1>1, <1>2, <1>3 DEF Onward, At

-----------------------------------------------------------------------------
(* What a step keeps that does not touch it.                               *)

(* Calls that were started.                                                *)
LEMMA CallsStay ==
  ASSUME Onward, CallsWereStarted,
         \A c \in Call : call'[c] # "none" => call[c] # "none"
  PROVE  CallsWereStarted'
<1> SUFFICES ASSUME NEW c \in Call, call'[c] # "none"
             PROVE  \E r \in Run : Of(r)' = c /\ Started(r)'
  BY DEF CallsWereStarted
<1>1. PICK r \in Run : Of(r) = c /\ Started(r)
  BY DEF CallsWereStarted
<1> QED BY <1>1 DEF Onward, Started

(* The count of a trunk.                                                   *)
LEMMA TrunkStays ==
  ASSUME Onward, SipTypesOK, TrunkIsCounted, trunk' = trunk,
         \A c \in Call : call'[c] = "none" <=> call[c] = "none"
  PROVE  TrunkIsCounted'
<1>1. Running' = Running
  BY SipAssumption DEF Running
<1>2. \A c : Repeated(c) => Repeated(c)'
  BY RepeatedStays
<1> QED BY <1>1, <1>2 DEF TrunkIsCounted, TrunkCountIsExact, Running

(* Legs.                                                                   *)
LEMMA LegsStay ==
  ASSUME Onward, SipTypesOK, RunsKeepTheirWay, LegsAreOfTheirCall, client \subseteq client',
         \A c \in Call : /\ leg'[c].run = leg[c].run
                         /\ leg'[c].pending => leg[c].pending
                         /\ leg'[c].subscriber => leg[c].subscriber
  PROVE  LegsAreOfTheirCall'
<1> SUFFICES ASSUME NEW c \in Call, leg[c].run # NoRun
             PROVE  /\ Of(leg[c].run)' = c /\ leg[c].run \in client' /\ Late(leg[c].run)'
                    /\ At(leg[c].run, "done") => At(leg[c].run, "done")'
  BY DEF LegsAreOfTheirCall, At
<1>1. leg[c].run \in client /\ leg[c].run \in Run
  BY DEF LegsAreOfTheirCall, SipTypesOK
<1>2. ~At(leg[c].run, "none")
  BY <1>1 DEF RunsKeepTheirWay
<1> QED BY <1>1, <1>2 DEF LegsAreOfTheirCall, Onward

(* Relay tasks and transcoders.                                            *)
LEMMA TasksStay ==
  ASSUME Onward, SipTypesOK, RunsKeepTheirWay, TasksAreNamed,
         coding' \subseteq coding, relaying' \subseteq relaying,
         \A r \in coding' : leg'[Of(r)].run = leg[Of(r)].run,
         \A r \in relaying' : relay'[Of(r)] = relay[Of(r)]
  PROVE  TasksAreNamed'
<1>1. \A r \in coding \union relaying : r \in Run /\ ~At(r, "none")
  BY DEF RunsKeepTheirWay, SipTypesOK
<1>2. \A r \in coding \union relaying : Of(r)' = Of(r)
  BY <1>1 DEF Onward
<1>3. \A c : Repeated(c) => Repeated(c)'
  BY RepeatedStays
<1> QED BY <1>2, <1>3 DEF TasksAreNamed

(* Virtual clients.                                                        *)
LEMMA ClientsStay ==
  ASSUME Onward, SipTypesOK, RunsKeepTheirWay, ClientsBelong, client' \subseteq client,
         \A r \in client' : /\ leg[Of(r)].run = r => leg'[Of(r)].run = r \/ Leaving(r)'
                            /\ At(r, "entered") => At(r, "entered")'
                            /\ Leaving(r) => Leaving(r)'
  PROVE  ClientsBelong'
<1>1. \A r \in client' : r \in Run /\ ~At(r, "none")
  BY DEF RunsKeepTheirWay, SipTypesOK
<1>2. \A r \in client' : Of(r)' = Of(r)
  BY <1>1 DEF Onward
<1>3. \A c : Repeated(c) => Repeated(c)'
  BY RepeatedStays
<1> QED BY <1>2, <1>3 DEF ClientsBelong

(* Handlers that end calls.                                                *)
LEMMA CleanUpsStay ==
  ASSUME Onward, SipTypesOK, CleanUpsAreLate,
         \A e \in ending' : e.pc = "core" => e \in ending,
         \A e \in ending' : e.pc = "core" =>
           (leg'[Of(e.run)].run = e.run => leg[Of(e.run)].run = e.run)
  PROVE  CleanUpsAreLate'
<1> SUFFICES ASSUME NEW e \in ending', e.pc = "core"
             PROVE  e.run \in Run /\ Late(e.run)' /\ leg'[Of(e.run)'].run # e.run
  BY DEF CleanUpsAreLate
<1>1. e.run \in Run /\ Late(e.run) /\ leg[Of(e.run)].run # e.run
  BY DEF CleanUpsAreLate
<1>2. ~At(e.run, "none")
  BY <1>1 DEF Late, At
<1> QED BY <1>1, <1>2 DEF Onward

(* Handlers of responses.                                                  *)
LEMMA AnswersStay ==
  ASSUME Onward, AnswersAreLate, \A a \in answer' : a.pc = "act" => a \in answer
  PROVE  AnswersAreLate'
<1> SUFFICES ASSUME NEW a \in answer', a.pc = "act"
             PROVE  a.run \in Run /\ At(a.run, "done")'
  BY DEF AnswersAreLate
<1>1. a.run \in Run /\ At(a.run, "done")
  BY DEF AnswersAreLate
<1> QED BY <1>1 DEF Onward, At

(* The holder of the floor.                                                *)
LEMMA FloorStays ==
  ASSUME Onward, RunsKeepTheirWay, GroupHasFloor, floor' \in {floor, NoRun, Other}
  PROVE  GroupHasFloor'
<1>1. ASSUME floor' \in Run
      PROVE  floor' = floor /\ floor \in Run /\ ~At(floor, "none")
  BY <1>1, RunsAreRuns DEF RunsKeepTheirWay
<1>2. ASSUME floor' \in Run
      PROVE  invite'[floor].call = invite[floor].call
  BY <1>1, <1>2 DEF Onward, Of
<1> QED BY <1>1, <1>2 DEF Onward, GroupHasFloor, Of

(* Radios: one that hears of nothing, or of the end of its call.           *)
LEMMA RadiosStay ==
  ASSUME Onward, SipTypesOK, RadioIsInARealCall, DialsAreOut,
         \A r \in Run : radio'[r] \in Live =>
           /\ radio[r] = radio'[r] /\ (r \in brew => r \in brew')
           /\ radio'[r] = "dialling" /\ At(r, "done")' => r \in brew'
  PROVE  RadioIsInARealCall' /\ DialsAreOut'
<1>1. \A r \in Run : radio'[r] = "dialling" => Out(r)' /\ ~At(r, "none")'
  BY DEF DialsAreOut, Onward, Out, Live
<1>2. \A r \in Run : radio'[r] \in Live => r \in brew' \/ (radio'[r] = "dialling" /\ ~At(r, "done")')
  BY DEF RadioIsInARealCall, Live
<1> QED BY <1>1, <1>2 DEF RadioIsInARealCall, DialsAreOut, Live

-----------------------------------------------------------------------------
(* Steps that take nothing and give nothing back.                          *)

(* The clean-ups in the Brew core go on, and no other begins.              *)
CleanUpsKept ==
  /\ ending' \subseteq Endings
  /\ \A e \in ending' : e.pc = "core" => e \in ending
  /\ \A e \in ending : e.pc = "core" => e \in ending'

LegsKept ==
  /\ leg' \in [Call -> Legs]
  /\ \A c \in Call : /\ leg'[c].run = leg[c].run
                     /\ leg'[c].pending => leg[c].pending
                     /\ leg'[c].subscriber => leg[c].subscriber

CallsKept ==
  /\ call' \in [Call -> {"none", "routing", "answered"}]
  /\ \A c \in Call : call'[c] = "none" <=> call[c] = "none"

RadiosKept ==
  /\ radio' \in [Run -> Live \union {"idle", "over", "untold"}]
  /\ RadioIsInARealCall' /\ DialsAreOut'

AllKept ==
  /\ UNCHANGED <<target, trunk, relay, relaying, coding, client, brew>>
  /\ CleanUpsKept /\ LegsKept /\ CallsKept /\ RadiosKept
  /\ floor' \in {floor, NoRun, Other}
  /\ answer' \subseteq Answers

(* Such a step keeps the invariant, with a handler that goes on or not.    *)
LEMMA KeptInv ==
  ASSUME IInv, AllKept, Onward, RunsKeepTheirWay', PlacedOnce', AnswersAreLate',
         \A r \in Run : At(r, "entered") => At(r, "entered")'
  PROVE  IInv'
<1>1. SipTypesOK'
  BY DEF IInv, SipTypesOK, AllKept, CleanUpsKept, LegsKept, CallsKept, RadiosKept, Onward
<1>2. CallsWereStarted' /\ TrunkIsCounted'
  BY CallsStay, TrunkStays DEF IInv, AllKept, CallsKept
<1>3. LegsAreOfTheirCall'
  BY LegsStay DEF IInv, AllKept, LegsKept
<1>4. \A r \in Run : ~At(r, "none") => Of(r) \in Call /\ leg'[Of(r)].run = leg[Of(r)].run
  BY DEF IInv, SipTypesOK, AllKept, LegsKept, Of
<1>5. CleanUpsAreLate'
  <2>1. \A e \in ending' : e.pc = "core" => e \in ending
    BY DEF AllKept, CleanUpsKept
  <2>2. \A e \in ending' : e.pc = "core" => e.run \in Run /\ ~At(e.run, "none")
    BY <2>1 DEF IInv, CleanUpsAreLate, Late, At
  <2> QED BY <1>4, <2>1, <2>2, CleanUpsStay DEF IInv
<1>6. \A r \in client \union coding \union relaying : r \in Run /\ ~At(r, "none")
  BY DEF IInv, SipTypesOK, RunsKeepTheirWay
<1>7. TasksAreNamed'
  BY <1>4, <1>6, TasksStay DEF IInv, AllKept
<1>8. ClientsBelong'
  <2>1. \A r : Leaving(r) => Leaving(r)'
    BY DEF AllKept, CleanUpsKept, Leaving
  <2> QED BY <1>4, <1>6, <2>1, ClientsStay DEF IInv, AllKept
<1>9. GroupHasFloor'
  BY FloorStays DEF IInv, AllKept
<1> QED BY <1>1, <1>2, <1>3, <1>5, <1>7, <1>8, <1>9 DEF IInv, AllKept, RadiosKept

(* A step in which no handler of an INVITE goes on.                        *)
LEMMA KeptSameInv ==
  ASSUME IInv, AllKept, UNCHANGED invite, AnswersAreLate'
  PROVE  IInv'
<1>1. UNCHANGED target /\ Onward
  BY OnwardSame DEF IInv, AllKept
<1>2. RunsKeepTheirWay'
  <2>1. \A r \in Run : floor' = r => floor = r
    BY RunsAreRuns DEF AllKept
  <2> QED BY <1>1, <2>1 DEF IInv, AllKept, RunsKeepTheirWay, At, Of, Out
<1>3. PlacedOnce' /\ \A r \in Run : At(r, "entered") => At(r, "entered")'
  BY <1>1 DEF IInv, PlacedOnce, At, Of, Out
<1> QED BY <1>1, <1>2, <1>3, KeptInv

(* A handler that ends a call begins.                                      *)
LEMMA BeginsKept ==
  ASSUME SipTypesOK, NEW c \in Call, NEW pc \in EndingPcs \ {"core"},
         NEW by \in {"peer", "far", "sweep", "control", "refusal", "answer"},
         Begins(by, c, pc)
  PROVE  CleanUpsKept
BY DEF SipTypesOK, Begins, CleanUpsKept, Endings

(* It goes on.                                                             *)
LEMMA StepKept ==
  ASSUME SipTypesOK, NEW e \in ending, e.pc # "core", NEW f \in Endings, f.pc # "core",
         Step(e, f)
  PROVE  CleanUpsKept
BY DEF SipTypesOK, Step, CleanUpsKept

(* It is at its end.                                                       *)
LEMMA EndKept ==
  ASSUME SipTypesOK, NEW e \in ending, e.pc # "core", ending' = ending \ {e}
  PROVE  CleanUpsKept
BY DEF SipTypesOK, CleanUpsKept

(* What is not touched is kept.                                            *)
LEMMA SameKept ==
  ASSUME SipTypesOK
  PROVE  /\ ending' = ending => CleanUpsKept
         /\ leg' = leg => LegsKept
         /\ call' = call => CallsKept
BY DEF SipTypesOK, CleanUpsKept, LegsKept, CallsKept

(* A radio hears of nothing, or what it hears does not bring it into a     *)
(* call.                                                                   *)
LEMMA RadioKept ==
  ASSUME IInv, Onward, UNCHANGED brew, NEW r \in Run,
         NEW s \in Live \union {"idle", "over", "untold"},
         radio' = radio \/ radio' = [radio EXCEPT ![r] = s],
         s \in Live => r \in brew /\ s # "dialling",
         \A q \in Run : radio'[q] = "dialling" /\ At(q, "done")' => q \in brew
  PROVE  RadiosKept
<1>1. radio' \in [Run -> Live \union {"idle", "over", "untold"}]
  BY DEF IInv, SipTypesOK
<1>2. \A q \in Run : radio'[q] = radio[q] \/ (q = r /\ radio'[q] = s)
  BY DEF IInv, SipTypesOK
<1>3. DialsAreOut'
  <2>1. \A q \in Run : radio'[q] = "dialling" => Out(q) /\ ~At(q, "none")
    BY <1>2 DEF IInv, DialsAreOut, Live
  <2> QED BY <2>1 DEF DialsAreOut, Onward, Out
<1>4. RadioIsInARealCall'
  <2>1. \A q \in Run : radio'[q] \in Live =>
          q \in brew \/ (radio'[q] = "dialling" /\ ~At(q, "done")')
    BY <1>2 DEF IInv, RadioIsInARealCall, Live
  <2> QED BY <2>1 DEF RadioIsInARealCall, Live
<1> QED BY <1>1, <1>3, <1>4 DEF RadiosKept

(* The same of a step in which no handler of an INVITE goes on.            *)
LEMMA RadioKeptSame ==
  ASSUME IInv, UNCHANGED <<target, invite, brew>>, NEW r \in Run,
         NEW s \in Live \union {"idle", "over", "untold"},
         radio' = radio \/ radio' = [radio EXCEPT ![r] = s],
         s \in Live => r \in brew /\ s # "dialling"
  PROVE  RadiosKept
<1>1. Onward
  BY OnwardSame DEF IInv
<1>2. ASSUME NEW q \in Run, radio'[q] = "dialling", At(q, "done")'
      PROVE  q \in brew
  <2>1. At(q, "done") /\ ~(radio[q] = "dialling" /\ ~At(q, "done"))
    BY <1>2 DEF At
  <2>2. radio[q] \in Live
    BY <1>2 DEF IInv, SipTypesOK, Live
  <2> QED BY <2>1, <2>2 DEF IInv, RadioIsInARealCall, Live
<1> QED BY <1>1, <1>2, RadioKept

(* Radios that hear of nothing.                                            *)
LEMMA SameRadiosKept ==
  ASSUME IInv, UNCHANGED <<target, invite, brew, radio>>
  PROVE  RadiosKept
<1>1. 1 \in Run
  BY SipAssumption DEF Run
<1>2. "idle" \in Live \union {"idle", "over", "untold"} /\ "idle" \notin Live
  BY DEF Live
<1> QED BY <1>1, <1>2, RadioKeptSame

(* A caller hangs up or cancels, the far end does, the sweep comes to a    *)
(* call, or a radio's release is the answer to the caller.                 *)
LEMMA BeginInv ==
  ASSUME IInv,
         \/ \E c \in Call : HangUp(c) \/ FarEndHangsUp(c) \/ Sweep(c)
         \/ \E r \in Run : Busy(r)
  PROVE  IInv'
<1>1. PICK c \in Call, by \in {"peer", "far", "sweep", "control"},
           pc \in EndingPcs \ {"core"} : Begins(by, c, pc)
  BY DEF HangUp, FarEndHangsUp, Sweep, Busy, FirstStep, EndsWhatItHas, EndingPcs, IInv,
         SipTypesOK, Of
<1>2. UNCHANGED <<sip, rtp, core, target, radio, invite, answer, leg>>
  BY DEF HangUp, FarEndHangsUp, Sweep, Busy, parties
<1>3. CleanUpsKept
  BY <1>1, BeginsKept DEF IInv
<1>4. RadiosKept
  BY <1>2, SameRadiosKept DEF core
<1>5. AllKept
  BY <1>2, <1>3, <1>4, SameKept DEF IInv, SipTypesOK, AllKept, sip, rtp, core
<1>6. AnswersAreLate'
  BY <1>2 DEF IInv, AnswersAreLate, At
<1> QED BY <1>2, <1>5, <1>6, KeptSameInv

(* A handler that ends a call tells the party.                             *)
LEMMA TellInv ==
  ASSUME IInv, NEW e \in ending, FindLeg(e) \/ ForceEnd(e)
  PROVE  IInv'
<1>1. /\ UNCHANGED <<sip, rtp, core, target, radio, invite, answer, leg>>
      /\ e.pc # "core"
      /\ \/ Step(e, [e EXCEPT !.pc = "leg", !.run = NoRun])
         \/ Step(e, [e EXCEPT !.pc = "leg"])
         \/ ending' = ending \ {e}
  BY DEF FindLeg, ForceEnd
<1>2. /\ [e EXCEPT !.pc = "leg", !.run = NoRun] \in Endings
      /\ [e EXCEPT !.pc = "leg", !.run = NoRun].pc = "leg"
      /\ [e EXCEPT !.pc = "leg"] \in Endings /\ [e EXCEPT !.pc = "leg"].pc = "leg"
  BY DEF IInv, SipTypesOK, Endings, EndingPcs
<1>3. CleanUpsKept
  <2>1. CASE Step(e, [e EXCEPT !.pc = "leg", !.run = NoRun])
    BY <1>1, <1>2, <2>1, StepKept DEF IInv
  <2>2. CASE Step(e, [e EXCEPT !.pc = "leg"])
    BY <1>1, <1>2, <2>2, StepKept DEF IInv
  <2>3. CASE ending' = ending \ {e}
    BY <1>1, <2>3, EndKept DEF IInv
  <2> QED BY <1>1, <2>1, <2>2, <2>3
<1>4. RadiosKept
  BY <1>1, SameRadiosKept DEF core
<1>5. AllKept
  BY <1>1, <1>3, <1>4, SameKept DEF IInv, SipTypesOK, AllKept, sip, rtp, core
<1>6. AnswersAreLate'
  BY <1>1 DEF IInv, AnswersAreLate, At
<1> QED BY <1>1, <1>5, <1>6, KeptSameInv

(* The party we invited answers; its response meets a leg, or none.        *)
LEMMA RespondInv ==
  ASSUME IInv,
         \/ \E c \in Call, ok \in BOOLEAN : Respond(c, ok)
         \/ \E a \in answer : ReadLeg(a)
  PROVE  IInv'
<1>1. UNCHANGED <<sip, rtp, core, target, radio, invite, ending, leg>>
  BY DEF Respond, ReadLeg, parties
<1>2. \A a \in answer' : a \in Answers /\ (a.pc = "act" => a.run \in Run /\ At(a.run, "done"))
  <2>1. CASE \E c \in Call, ok \in BOOLEAN : Respond(c, ok)
    BY <2>1 DEF Respond, IInv, SipTypesOK, AnswersAreLate, Answers
  <2>2. ASSUME NEW a \in answer, ReadLeg(a)
        PROVE  \A b \in answer' :
                 b \in Answers /\ (b.pc = "act" => b.run \in Run /\ At(b.run, "done"))
    <3>1. a \in Answers /\ a.call \in Call
      BY DEF IInv, SipTypesOK, Answers
    <3>2. leg[a.call].subscriber =>
            leg[a.call].run # NoRun /\ At(leg[a.call].run, "done")
      BY <3>1 DEF IInv, LegsAreOfTheirCall
    <3>3. leg[a.call].run \in Run \union {NoRun}
      BY <3>1 DEF IInv, SipTypesOK, Legs
    <3>4. DEFINE b2 == [a EXCEPT !.run = leg[a.call].run, !.pc = "act"]
    <3>5. b2 \in Answers /\ b2.run = leg[a.call].run
      BY <3>1, <3>3 DEF Answers
    <3>6. \A b \in answer' : b \in answer \/ (leg[a.call].subscriber /\ b = b2)
      BY <2>2 DEF ReadLeg
    <3> HIDE DEF b2
    <3> QED BY <3>2, <3>3, <3>5, <3>6 DEF IInv, SipTypesOK, AnswersAreLate
  <2> QED BY <2>1, <2>2
<1>3. RadiosKept
  BY <1>1, SameRadiosKept DEF core
<1>4. AllKept
  BY <1>1, <1>2, <1>3, SameKept DEF IInv, SipTypesOK, AllKept, sip, rtp, core
<1>5. AnswersAreLate'
  BY <1>1, <1>2 DEF AnswersAreLate, At
<1> QED BY <1>1, <1>4, <1>5, KeptSameInv

(* A radio accepts, which its caller's control task confirms; that task's  *)
(* channel closes; another talker's call ends.                             *)
LEMMA AcceptInv ==
  ASSUME IInv,
         \/ \E r \in Run : RadioAccepts(r) \/ Confirm(r) \/ ControlCloses(r)
         \/ TalkerEnds
  PROVE  IInv'
<1>1. /\ UNCHANGED <<trunk, rtp, client, brew, target, invite, answer, ending, leg>>
      /\ floor' \in {floor, NoRun, Other}
  BY DEF RadioAccepts, Confirm, ControlCloses, TalkerEnds, sip, core, parties, tasks
<1>2. CallsKept
  <2>1. call' = call \/ \E c \in Call : call' = Answered(c)
    BY DEF RadioAccepts, Confirm, ControlCloses, TalkerEnds, sip, IInv, SipTypesOK, Of
  <2> QED BY <2>1 DEF Answered, CallsKept, IInv, SipTypesOK
<1>3. RadiosKept
  <2>1. CASE radio' = radio
    BY <1>1, <2>1, SameRadiosKept
  <2>2. ASSUME NEW r \in Run, radio[r] \in {"called", "answering"},
               NEW s \in {"answering", "talking"}, radio' = [radio EXCEPT ![r] = s]
        PROVE  RadiosKept
    <3>1. r \in brew
      BY <2>2 DEF IInv, RadioIsInARealCall
    <3>2. s \in Live \union {"idle", "over", "untold"} /\ s # "dialling"
      BY <2>2 DEF Live
    <3> QED BY <1>1, <2>2, <3>1, <3>2, RadioKeptSame
  <2>3. radio' = radio \/ \E r \in Run, s \in {"answering", "talking"} :
          radio[r] \in {"called", "answering"} /\ radio' = [radio EXCEPT ![r] = s]
    <3>1. ASSUME NEW r \in Run, RadioAccepts(r)
          PROVE  radio[r] = "called" /\ radio' = [radio EXCEPT ![r] = "answering"]
      BY <3>1 DEF RadioAccepts
    <3>2. ASSUME NEW r \in Run, Confirm(r)
          PROVE  \/ radio' = radio
                 \/ radio[r] = "answering" /\ radio' = [radio EXCEPT ![r] = "talking"]
      BY <3>2 DEF Confirm, IInv, SipTypesOK
    <3>3. ASSUME (\E r \in Run : ControlCloses(r)) \/ TalkerEnds
          PROVE  radio' = radio
      BY <3>3 DEF ControlCloses, TalkerEnds, parties
    <3> QED BY <3>1, <3>2, <3>3
  <2> QED BY <2>1, <2>2, <2>3
<1>4. AllKept
  BY <1>1, <1>2, <1>3, SameKept DEF IInv, SipTypesOK, AllKept, rtp
<1>5. AnswersAreLate'
  BY <1>1 DEF IInv, AnswersAreLate, At
<1> QED BY <1>1, <1>4, <1>5, KeptSameInv

(* The response is acted on: the radio is in the call, or out of it.       *)
LEMMA ActOnInv ==
  ASSUME IInv, NEW a \in answer, ActOn(a)
  PROVE  IInv'
<1>1. a \in Answers /\ a.call \in Call /\ a.run \in Run /\ At(a.run, "done")
  BY DEF ActOn, IInv, SipTypesOK, Answers, AnswersAreLate
<1>2. UNCHANGED <<trunk, rtp, core, target, invite>>
  BY DEF ActOn
<1>3. CallsKept
  <2>1. call' = call \/ call' = Answered(a.call)
    BY DEF ActOn
  <2> QED BY <1>1, <2>1 DEF Answered, CallsKept, IInv, SipTypesOK
<1>4. LegsKept
  <2>1. leg' = [leg EXCEPT ![a.call].connected = leg[a.call].run # NoRun]
    BY DEF ActOn, Connected
  <2>2. leg[a.call] \in Legs
    BY <1>1 DEF IInv, SipTypesOK
  <2>3. DEFINE l == [leg[a.call] EXCEPT !.connected = leg[a.call].run # NoRun]
  <2>4. /\ l \in Legs /\ l.run = leg[a.call].run
        /\ l.pending = leg[a.call].pending /\ l.subscriber = leg[a.call].subscriber
    BY <2>2 DEF Legs
  <2>5. leg' = [leg EXCEPT ![a.call] = l]
    BY <2>1
  <2> HIDE DEF l
  <2> QED BY <1>1, <2>4, <2>5 DEF LegsKept, IInv, SipTypesOK
<1>5. RadiosKept
  <2>1. CASE radio[a.run] # "dialling"
    <3>1. radio' = radio
      BY <1>1, <2>1 DEF ActOn, IInv, SipTypesOK
    <3> QED BY <1>2, <3>1, SameRadiosKept DEF core
  <2>2. CASE radio[a.run] = "dialling"
    <3>1. a.run \in brew
      BY <1>1, <2>2 DEF IInv, RadioIsInARealCall
    <3>2. PICK s \in {"talking", "over"} : radio' = [radio EXCEPT ![a.run] = s]
      BY <2>2 DEF ActOn
    <3>3. s \in Live \union {"idle", "over", "untold"} /\ s # "dialling"
      BY DEF Live
    <3> QED BY <1>1, <1>2, <3>1, <3>2, <3>3, RadioKeptSame DEF core
  <2> QED BY <2>1, <2>2
<1>6. CleanUpsKept
  <2>1. \/ ending' = ending
        \/ Begins("answer", a.call, "leg")
    BY DEF ActOn
  <2>2. "leg" \in EndingPcs \ {"core"}
    BY DEF EndingPcs
  <2> QED BY <1>1, <2>1, <2>2, SameKept, BeginsKept DEF IInv
<1>7. /\ answer' \subseteq Answers
      /\ \A b \in answer' : b.pc = "act" => b \in answer
  <2>1. /\ [a EXCEPT !.pc = "media"] \in Answers
        /\ [a EXCEPT !.pc = "media"].pc = "media"
    BY <1>1 DEF Answers
  <2>2. \A b \in answer' : b \in answer \/ b = [a EXCEPT !.pc = "media"]
    BY DEF ActOn
  <2> QED BY <2>1, <2>2 DEF IInv, SipTypesOK
<1>8. AllKept
  BY <1>2, <1>3, <1>4, <1>5, <1>6, <1>7 DEF AllKept, rtp, core
<1>9. AnswersAreLate'
  BY <1>2, <1>7 DEF IInv, AnswersAreLate, At
<1> QED BY <1>2, <1>8, <1>9, KeptSameInv

-----------------------------------------------------------------------------
(* Handlers that go on and take nothing.                                   *)

(* A handler begins, for an INVITE or for a call from a radio.             *)
LEMMA NewRunInv ==
  ASSUME IInv, NEW c \in Call, Invite(c) \/ SetUp(c)
  PROVE  IInv'
<1>1. PICK r \in Run, pc \in {"trying", "tracked"} :
        /\ At(r, "none") /\ invite' = [invite EXCEPT ![r] = [call |-> c, pc |-> pc]]
        /\ radio' = IF target[c] = "out" THEN [radio EXCEPT ![r] = "dialling"] ELSE radio
        /\ target[c] # "out" \/ (RunsOf(c) = {} /\ pc = "tracked")
  BY DEF Invite, SetUp, NewRun
<1>2. UNCHANGED <<sip, rtp, core, target, answer, ending, leg>>
  BY DEF Invite, SetUp
<1>3. /\ invite' \in [Run -> [call : Call, pc : Pcs]]
      /\ invite'[r].call = c /\ invite'[r].pc = pc
      /\ \A q \in Run : q # r => invite'[q] = invite[q]
  BY <1>1 DEF IInv, SipTypesOK, Pcs
<1>4. \A q \in Run : ~At(q, "none") => q # r /\ invite'[q] = invite[q]
  BY <1>1, <1>3
<1>5. Onward
  BY <1>2, <1>3, <1>4 DEF Onward, At, Of, Late, Started, Out
<1>6. RunsKeepTheirWay'
  <2>1. /\ r \notin client \union coding \union relaying \union brew /\ floor # r
    BY <1>1 DEF IInv, RunsKeepTheirWay
  <2>2. /\ ~At(r, "none")' /\ ~At(r, "bridged")' /\ ~At(r, "placed")' /\ ~At(r, "entered")'
        /\ At(r, "trying")' => ~Out(r)'
    BY <1>1, <1>2, <1>3 DEF At, Out, Of
  <2>3. \A q \in Run : q # r =>
          /\ Out(q)' = Out(q)
          /\ \A s \in Pcs : At(q, s)' = At(q, s)
    BY <1>2, <1>3 DEF At, Out, Of
  <2>4. /\ client' = client /\ coding' = coding /\ relaying' = relaying
        /\ brew' = brew /\ floor' = floor
    BY <1>2 DEF core, rtp
  <2> QED BY <2>2, <2>3, <2>4 DEF IInv, RunsKeepTheirWay, Pcs
<1>7. PlacedOnce'
  <2>1. \A q \in Run : ~At(q, "none") /\ Of(q) = c => target[c] # "out"
    BY <1>1 DEF RunsOf
  <2>2. \A q \in Run : q # r => At(q, "none")' = At(q, "none") /\ Of(q)' = Of(q)
    BY <1>3 DEF At, Of
  <2>3. Of(r)' = c
    BY <1>3 DEF Of
  <2>4. \A q \in Run : Out(q)' <=> target[Of(q)'] = "out"
    BY <1>2 DEF Out
  <2>5. \A q \in Run : Out(q) <=> target[Of(q)] = "out"
    BY DEF Out
  <2> QED BY <2>1, <2>2, <2>3, <2>4, <2>5 DEF IInv, PlacedOnce
<1>8. RadiosKept
  <2>1. r \notin brew /\ radio[r] \notin Live
    BY <1>1 DEF IInv, RunsKeepTheirWay, RadioIsInARealCall, DialsAreOut, Live, At
  <2>2. radio' \in [Run -> Live \union {"idle", "over", "untold"}]
    BY <1>1 DEF IInv, SipTypesOK, Live
  <2>3. \A q \in Run : radio'[q] \in Live =>
          \/ q # r /\ radio'[q] = radio[q]
          \/ q = r /\ radio'[q] = "dialling" /\ target[c] = "out" /\ ~At(r, "done")'
    <3>1. r \in Run /\ radio \in [Run -> Live \union {"idle", "over", "untold"}]
      BY DEF IInv, SipTypesOK
    <3>2. ~At(r, "done")'
      BY <1>3 DEF At
    <3> QED BY <1>1, <2>1, <3>1, <3>2
  <2>4. ~At(r, "none")' /\ (Out(r)' <=> target[c] = "out") /\ brew' = brew
    BY <1>2, <1>3 DEF At, Out, Of, core
  <2>5. \A q \in Run : q # r =>
          Out(q)' = Out(q) /\ At(q, "none")' = At(q, "none") /\ At(q, "done")' = At(q, "done")
    BY <1>2, <1>3 DEF At, Out, Of
  <2>6. DialsAreOut'
    BY <2>3, <2>4, <2>5 DEF IInv, DialsAreOut, Live
  <2>7. RadioIsInARealCall'
    BY <2>3, <2>4, <2>5 DEF IInv, RadioIsInARealCall, Live
  <2> QED BY <2>2, <2>6, <2>7 DEF RadiosKept
<1>9. AllKept
  BY <1>2, <1>8, SameKept DEF IInv, SipTypesOK, AllKept, sip, rtp, core
<1>10. AnswersAreLate'
  BY <1>2, <1>5, AnswersStay DEF IInv
<1>11. \A q \in Run : At(q, "entered") => At(q, "entered")'
  BY <1>4 DEF At
<1> QED BY <1>5, <1>6, <1>7, <1>9, <1>10, <1>11, KeptInv

(* A handler that goes on keeps to the way of its call, and takes for its  *)
(* own run only.                                                           *)
LEMMA GoesKeeps ==
  ASSUME IInv, NEW r \in Run, NEW pc \in Pcs \ {"none", "trying"}, ~At(r, "none"),
         Goes(r, pc), UNCHANGED target,
         Late(r) => pc \in {"bridged", "done"}, At(r, "done") => pc = "done",
         Out(r) => pc \notin {"tracked", "bridged"}, pc = "placed" => Out(r),
         client' \in {client, client \union {r}}, brew' \in {brew, brew \union {r}},
         coding' \subseteq coding \union {r}, relaying' \subseteq relaying \union {r},
         floor' \in {floor, r},
         pc = "entered" => r \in client' /\ r \in brew'
  PROVE  RunsKeepTheirWay' /\ PlacedOnce'
<1>1. /\ Onward /\ At(r, pc)'
      /\ \A q \in Run : q # r => invite'[q] = invite[q]
      /\ \A q \in Run : Of(q)' = Of(q) /\ (At(q, "none")' <=> At(q, "none"))
  BY OnwardGoes DEF IInv
<1>2. \A q \in Run : Out(q)' = Out(q)
  BY <1>1 DEF Out
<1>3. PlacedOnce'
  BY <1>1, <1>2 DEF IInv, PlacedOnce
<1>4. \A q \in Run : q # r => \A s \in Pcs : At(q, s)' = At(q, s)
  BY <1>1 DEF At
<1>5. \A s \in Pcs : At(r, s)' <=> s = pc
  BY <1>1 DEF At
<1>6. ASSUME NEW q \in Run, q # r
      PROVE  /\ At(q, "none")' => q \notin client' \union coding' \union relaying' \union brew'
                                  /\ floor' # q
             /\ At(q, "trying")' \/ At(q, "bridged")' => ~Out(q)'
             /\ At(q, "placed")' => Out(q)'
             /\ At(q, "entered")' => q \in client' /\ (Out(q)' => q \in brew')
  BY <1>2, <1>4, <1>6 DEF IInv, RunsKeepTheirWay, Pcs
<1>7. /\ ~At(r, "none")' /\ ~At(r, "trying")'
      /\ At(r, "bridged")' => ~Out(r)'
      /\ At(r, "placed")' => Out(r)'
      /\ At(r, "entered")' => r \in client' /\ r \in brew'
  BY <1>2, <1>5 DEF Pcs
<1> QED BY <1>3, <1>6, <1>7 DEF RunsKeepTheirWay

(* An INVITE is refused or answered, a call from a radio cannot be placed. *)
LEMMA DoneInv ==
  ASSUME IInv, NEW r \in Run, Refuse(r) \/ NotPlaced(r) \/ Answer(r)
  PROVE  IInv'
<1>1. /\ At(r, "tracked") \/ At(r, "bridged")
      /\ Goes(r, "done")
      /\ UNCHANGED <<trunk, rtp, core, target, answer, leg>>
  BY DEF Refuse, NotPlaced, Answer, sip
<1>2. ~At(r, "none") /\ ~At(r, "entered") /\ "done" \in Pcs \ {"none", "trying"}
  BY <1>1 DEF At, Pcs
<1>3. /\ Onward
      /\ \A q \in Run : q # r => invite'[q] = invite[q]
  BY <1>1, <1>2, OnwardGoes DEF IInv
<1>4. RunsKeepTheirWay' /\ PlacedOnce'
  BY <1>1, <1>2, GoesKeeps DEF core, rtp
<1>5. radio' = radio \/ \E s \in {"over", "untold"} : radio' = [radio EXCEPT ![r] = s]
  BY DEF Refuse, NotPlaced, Answer
<1>6. ASSUME NEW q \in Run, radio'[q] = "dialling", At(q, "done")'
      PROVE  q \in brew
  <2>1. ~(q = r /\ radio' # radio)
    BY <1>5, <1>6 DEF IInv, SipTypesOK
  <2>2. radio[q] = "dialling"
    BY <1>5, <1>6, <2>1 DEF IInv, SipTypesOK
  <2>3. CASE q # r
    BY <1>3, <1>6, <2>2, <2>3 DEF IInv, RadioIsInARealCall, At
  <2>4. CASE q = r
    <3>1. radio' = radio /\ Out(r)
      BY <2>1, <2>2, <2>4 DEF IInv, DialsAreOut
    <3>2. At(r, "tracked") => target[Of(r)] # "out" \/ radio' # radio
      <4>1. ASSUME NotPlaced(r) PROVE radio' # radio
        <5>1. PICK s \in {"over", "untold"} : radio' = [radio EXCEPT ![r] = s]
          BY <4>1 DEF NotPlaced
        <5> QED BY <2>2, <2>4, <5>1 DEF IInv, SipTypesOK
      <4> QED BY <4>1 DEF Refuse, Answer, At
    <3>3. At(r, "bridged") => ~Out(r)
      BY DEF IInv, RunsKeepTheirWay
    <3> QED BY <1>1, <3>1, <3>2, <3>3 DEF Out
  <2> QED BY <2>3, <2>4
<1>7. RadiosKept
  <2>1. CASE radio' = radio
    <3>1. "idle" \in Live \union {"idle", "over", "untold"} /\ "idle" \notin Live
      BY DEF Live
    <3> QED BY <1>1, <1>3, <1>6, <2>1, <3>1, RadioKept DEF core
  <2>2. ASSUME NEW s \in {"over", "untold"}, radio' = [radio EXCEPT ![r] = s]
        PROVE  RadiosKept
    <3>1. s \in Live \union {"idle", "over", "untold"} /\ s \notin Live
      BY DEF Live
    <3> QED BY <1>1, <1>3, <1>6, <2>2, <3>1, RadioKept DEF core
  <2> QED BY <1>5, <2>1, <2>2
<1>8. Of(r) \in Call
  BY DEF IInv, SipTypesOK, Of
<1>9. CleanUpsKept
  <2>1. ending' = ending \/ Begins("refusal", Of(r), "call")
    BY DEF Refuse, NotPlaced, Answer
  <2>2. "call" \in EndingPcs \ {"core"}
    BY DEF EndingPcs
  <2> QED BY <1>8, <2>1, <2>2, SameKept, BeginsKept DEF IInv
<1>10. CallsKept
  <2>1. call' = call \/ call' = Answered(Of(r))
    BY DEF Refuse, NotPlaced, Answer, sip
  <2> QED BY <1>8, <2>1 DEF Answered, CallsKept, IInv, SipTypesOK
<1>11. AllKept
  BY <1>1, <1>7, <1>9, <1>10, SameKept DEF IInv, SipTypesOK, AllKept, rtp, core
<1>12. AnswersAreLate'
  BY <1>1, <1>3, AnswersStay DEF IInv
<1>13. \A q \in Run : At(q, "entered") => At(q, "entered")'
  BY <1>2, <1>3 DEF At
<1> QED BY <1>3, <1>4, <1>11, <1>12, <1>13, KeptInv

-----------------------------------------------------------------------------
(* Handlers that take something.                                           *)

(* SipState::start_call: the trunk counts the call, and one that had been  *)
(* there is counted twice only if its INVITE was handled twice.            *)
LEMMA StartCounted ==
  ASSUME IInv, Onward, NEW r \in Run, ~At(r, "none"), ~Started(r), Started(r)',
         StartCall(Of(r))
  PROVE  CallsWereStarted' /\ TrunkIsCounted'
<1>1. PICK c \in Call : c = Of(r) /\ c = Of(r)'
  BY DEF IInv, SipTypesOK, Of, Onward
<1>2. /\ \A d \in Call : d # c => call'[d] = call[d]
      /\ call'[c] # "none"
      /\ trunk \in Nat /\ trunk' = trunk + IF c \in OnTrunk THEN 1 ELSE 0
  BY <1>1 DEF StartCall, IInv, SipTypesOK
<1>3. CallsWereStarted'
  <2> SUFFICES ASSUME NEW d \in Call, call'[d] # "none"
               PROVE  \E q \in Run : Of(q)' = d /\ Started(q)'
    BY DEF CallsWereStarted
  <2>1. CASE d = c
    BY <1>1, <2>1
  <2>2. CASE d # c
    <3>1. PICK q \in Run : Of(q) = d /\ Started(q)
      BY <1>2, <2>2 DEF IInv, CallsWereStarted
    <3> QED BY <3>1 DEF Onward, Started
  <2> QED BY <2>1, <2>2
<1>4. /\ IsFiniteSet(Running) /\ Cardinality(Running) \in Nat
      /\ trunk >= Cardinality(Running)
      /\ (\A d \in OnTrunk : ~Repeated(d)) => trunk = Cardinality(Running)
  BY FS_CardinalityType DEF IInv, TrunkIsCounted, TrunkCountIsExact, Running
<1>5. \A d : Repeated(d) => Repeated(d)'
  BY RepeatedStays
<1>6. /\ IsFiniteSet(Running') /\ Cardinality(Running') \in Nat
      /\ trunk' >= Cardinality(Running')
      /\ (\A d \in OnTrunk : ~Repeated(d)') => trunk' = Cardinality(Running')
  <2>1. CASE c \notin OnTrunk
    <3>1. Running' = Running /\ trunk' = trunk
      BY <1>2, <2>1, SipAssumption DEF Running
    <3> QED BY <1>4, <1>5, <3>1
  <2>2. CASE c \in OnTrunk /\ call[c] = "none"
    <3>1. Running' = Running \union {c} /\ c \notin Running /\ trunk' = trunk + 1
      BY <1>2, <2>2, SipAssumption DEF Running
    <3>2. IsFiniteSet(Running') /\ Cardinality(Running') = Cardinality(Running) + 1
      BY <1>4, <3>1, FS_AddElement
    <3> QED BY <1>2, <1>4, <1>5, <3>1, <3>2
  <2>3. CASE c \in OnTrunk /\ call[c] # "none"
    <3>1. Running' = Running /\ trunk' = trunk + 1
      BY <1>2, <2>3, SipAssumption DEF Running
    <3>2. PICK q \in Run : Of(q) = c /\ Started(q)
      BY <1>1, <2>3 DEF IInv, CallsWereStarted
    <3>3. q # r /\ ~At(q, "none")
      BY <3>2 DEF Started
    <3>4. Repeated(c)
      BY <1>1, <3>2, <3>3, TwoAreRepeated
    <3>5. Repeated(c)'
      BY <1>5, <3>4
    <3> QED BY <1>2, <1>4, <2>3, <3>1, <3>5
  <2> QED BY <2>1, <2>2, <2>3
<1> QED BY <1>3, <1>6 DEF TrunkIsCounted, TrunkCountIsExact, Running

(* A call is tracked, of an INVITE or to be placed.                        *)
LEMMA TrackInv ==
  ASSUME IInv, NEW r \in Run, Track(r) \/ PlaceOutbound(r)
  PROVE  IInv'
<1>1. PICK pc \in {"tracked", "placed"} :
        /\ Goes(r, pc) /\ StartCall(Of(r))
        /\ \/ pc = "tracked" /\ At(r, "trying") /\ ~Out(r)
           \/ pc = "placed" /\ At(r, "tracked") /\ Out(r)
        /\ UNCHANGED <<rtp, core, parties, answer, ending, leg>>
  BY DEF Track, PlaceOutbound, IInv, RunsKeepTheirWay, Out
<1>2. /\ ~At(r, "none") /\ ~At(r, "entered") /\ ~Late(r)
      /\ pc \in Pcs \ {"none", "trying"} /\ ~Started(r)
  BY <1>1 DEF At, Late, Pcs, Started
<1>3. /\ Onward /\ At(r, pc)'
      /\ \A q \in Run : q # r => invite'[q] = invite[q]
      /\ \A q \in Run : Of(q)' = Of(q) /\ (At(q, "none")' <=> At(q, "none"))
  BY <1>1, <1>2, OnwardGoes DEF IInv, parties, Late
<1>4. RunsKeepTheirWay' /\ PlacedOnce'
  BY <1>1, <1>2, GoesKeeps DEF core, rtp, parties, Late
<1>5. CallsWereStarted' /\ TrunkIsCounted'
  <2>1. Started(r)'
    BY <1>1, <1>3 DEF Started, At, Out, Onward
  <2> QED BY <1>1, <1>2, <1>3, <2>1, StartCounted
<1>6. SipTypesOK'
  <2>1. Of(r) \in Call /\ trunk' \in Nat
    BY <1>1 DEF IInv, SipTypesOK, Of, StartCall
  <2> QED BY <1>1, <1>3, <2>1 DEF IInv, SipTypesOK, StartCall, Onward, rtp, core, parties
<1>7. LegsAreOfTheirCall' /\ TasksAreNamed' /\ CleanUpsAreLate' /\ AnswersAreLate'
  BY <1>1, <1>3, LegsStay, TasksStay, CleanUpsStay, AnswersStay DEF IInv, rtp, core
<1>8. ClientsBelong'
  <2>1. \A q \in Run : At(q, "entered") => At(q, "entered")'
    BY <1>2, <1>3 DEF At
  <2>2. \A q : Leaving(q) => Leaving(q)'
    BY <1>1 DEF Leaving
  <2> QED BY <1>1, <1>3, <2>1, <2>2, ClientsStay DEF IInv, SipTypesOK, core
<1>9. GroupHasFloor'
  BY <1>1, <1>3, FloorStays DEF IInv, core
<1>10. RadioIsInARealCall' /\ DialsAreOut'
  <2>1. \A q \in Run : At(q, "done")' => At(q, "done")
    BY <1>1, <1>3 DEF At
  <2>2. \A q \in Run : radio[q] = "dialling" /\ At(q, "done")' => q \in brew
    BY <2>1 DEF IInv, RadioIsInARealCall
  <2> QED BY <1>1, <1>3, <2>2, RadiosStay DEF IInv, core, parties
<1> QED BY <1>4, <1>5, <1>6, <1>7, <1>8, <1>9, <1>10 DEF IInv

(* The relay runs.                                                         *)
LEMMA BridgeInv ==
  ASSUME IInv, NEW r \in Run, Bridge(r)
  PROVE  IInv'
<1>1. /\ At(r, "tracked") /\ ~Out(r) /\ Goes(r, "bridged")
      /\ relaying' = relaying \union {r} /\ relay' = [relay EXCEPT ![Of(r)] = r]
      /\ UNCHANGED <<sip, coding, core, parties, answer, ending, leg>>
  BY DEF Bridge, Out
<1>2. /\ ~At(r, "none") /\ ~At(r, "entered") /\ ~Late(r)
      /\ "bridged" \in Pcs \ {"none", "trying"}
  BY <1>1 DEF At, Late, Pcs
<1>3. /\ Onward
      /\ \A q \in Run : q # r => invite'[q] = invite[q]
      /\ \A q \in Run : Of(q)' = Of(q) /\ (At(q, "none")' <=> At(q, "none"))
  BY <1>1, <1>2, OnwardGoes DEF IInv, parties, Late
<1>4. RunsKeepTheirWay' /\ PlacedOnce'
  BY <1>1, <1>2, GoesKeeps DEF core, parties, Late
<1>5. CallsWereStarted' /\ TrunkIsCounted'
  BY <1>1, <1>3, CallsStay, TrunkStays DEF IInv, sip
<1>6. SipTypesOK'
  <2>1. Of(r) \in Call
    BY DEF IInv, SipTypesOK, Of
  <2> QED BY <1>1, <1>3, <2>1 DEF IInv, SipTypesOK, Onward, sip, core, parties
<1>7. LegsAreOfTheirCall' /\ CleanUpsAreLate' /\ AnswersAreLate'
  BY <1>1, <1>3, LegsStay, CleanUpsStay, AnswersStay DEF IInv, core
<1>8. TasksAreNamed'
  <2>1. \A c : Repeated(c) => Repeated(c)'
    BY <1>3, RepeatedStays
  <2>2. relay'[Of(r)] = r
    BY <1>1 DEF IInv, SipTypesOK, Of
  <2>3. ASSUME NEW q \in relaying, q # r
        PROVE  relay'[Of(q)] = q \/ Repeated(Of(q))
    <3>1. q \in Run /\ ~At(q, "none")
      BY DEF IInv, SipTypesOK, RunsKeepTheirWay
    <3>2. CASE Of(q) = Of(r)
      BY <1>2, <2>3, <3>1, <3>2, TwoAreRepeated
    <3>3. CASE Of(q) # Of(r)
      BY <1>1, <3>1, <3>3 DEF IInv, SipTypesOK, TasksAreNamed, Of
    <3> QED BY <3>2, <3>3
  <2>4. \A q \in coding \union relaying : q \in Run
    BY DEF IInv, SipTypesOK
  <2>5. \A q \in coding : leg[Of(q)].run = q \/ Repeated(Of(q))
    BY DEF IInv, TasksAreNamed
  <2>6. \A q \in relaying' : relay'[Of(q)] = q \/ Repeated(Of(q))
    BY <1>1, <2>2, <2>3
  <2>7. \A q \in coding' \union relaying' : q \in Run /\ Of(q)' = Of(q)
    BY <1>1, <1>3, <2>4
  <2>8. coding' = coding /\ leg' = leg
    BY <1>1
  <2> QED BY <2>1, <2>5, <2>6, <2>7, <2>8 DEF TasksAreNamed
<1>9. ClientsBelong'
  <2>1. \A q \in Run : At(q, "entered") => At(q, "entered")'
    BY <1>2, <1>3 DEF At
  <2>2. \A q : Leaving(q) => Leaving(q)'
    BY <1>1 DEF Leaving
  <2> QED BY <1>1, <1>3, <2>1, <2>2, ClientsStay DEF IInv, SipTypesOK, core
<1>10. GroupHasFloor'
  BY <1>1, <1>3, FloorStays DEF IInv, core
<1>11. RadioIsInARealCall' /\ DialsAreOut'
  <2>1. \A q \in Run : q # r => (At(q, "done")' <=> At(q, "done"))
    BY <1>3 DEF At
  <2>2. \A q \in Run : radio[q] = "dialling" /\ At(q, "done")' => q \in brew
    BY <1>1, <2>1 DEF IInv, RadioIsInARealCall, DialsAreOut
  <2> QED BY <1>1, <1>3, <2>2, RadiosStay DEF IInv, core, parties
<1> QED BY <1>4, <1>5, <1>6, <1>7, <1>8, <1>9, <1>10, <1>11 DEF IInv

(* The virtual client enters the Brew core.                                *)
LEMMA EnterInv ==
  ASSUME IInv, NEW r \in Run, Enter(r)
  PROVE  IInv'
<1>1. /\ At(r, "placed") \/ (At(r, "tracked") /\ ~Out(r))
      /\ Goes(r, "entered")
      /\ client' = client \union {r} /\ brew' = brew \union {r}
      /\ floor' = IF target[Of(r)] = "group" THEN r ELSE floor
      /\ UNCHANGED <<sip, rtp, talker, target, answer, ending, leg>>
  BY DEF Enter, Out
<1>2. /\ ~At(r, "none") /\ ~Late(r) /\ "entered" \in Pcs \ {"none", "trying"}
  BY <1>1 DEF At, Late, Pcs
<1>3. /\ Onward /\ At(r, "entered")'
      /\ \A q \in Run : q # r => invite'[q] = invite[q]
      /\ \A q \in Run : Of(q)' = Of(q) /\ (At(q, "none")' <=> At(q, "none"))
  BY <1>1, <1>2, OnwardGoes DEF IInv, Late
<1>4. RunsKeepTheirWay' /\ PlacedOnce'
  BY <1>1, <1>2, GoesKeeps DEF rtp, Late
<1>5. CallsWereStarted' /\ TrunkIsCounted'
  BY <1>1, <1>3, CallsStay, TrunkStays DEF IInv, sip
<1>6. /\ radio' \in [Run -> Live \union {"idle", "over", "untold"}]
      /\ \A q \in Run : radio'[q] = radio[q]
                        \/ (q = r /\ radio'[q] \in {"called", "listening"})
  BY DEF Enter, IInv, SipTypesOK, Live
<1>7. SipTypesOK'
  BY <1>1, <1>3, <1>6 DEF IInv, SipTypesOK, Onward, sip, rtp
<1>8. LegsAreOfTheirCall' /\ TasksAreNamed' /\ CleanUpsAreLate' /\ AnswersAreLate'
  BY <1>1, <1>3, LegsStay, TasksStay, CleanUpsStay, AnswersStay DEF IInv, rtp
<1>9. ClientsBelong'
  <2>1. \A q \in Run : At(q, "entered") => At(q, "entered")'
    BY <1>3 DEF At
  <2>2. \A c : Repeated(c) => Repeated(c)'
    BY <1>3, RepeatedStays
  <2>3. \A q : Leaving(q) => Leaving(q)'
    BY <1>1 DEF Leaving
  <2>4. \A q \in client : q \in Run /\ Of(q)' = Of(q)
    BY <1>3 DEF IInv, SipTypesOK
  <2> QED BY <1>1, <1>3, <2>1, <2>2, <2>3, <2>4 DEF IInv, ClientsBelong
<1>10. GroupHasFloor'
  <2>1. CASE target[Of(r)] = "group"
    BY <1>1, <1>3, <2>1 DEF GroupHasFloor
  <2>2. CASE target[Of(r)] # "group"
    BY <1>1, <1>3, <2>2, FloorStays DEF IInv
  <2> QED BY <2>1, <2>2
<1>11. \A q \in Run : Out(q)' = Out(q) /\ (At(q, "done")' => At(q, "done"))
  BY <1>1, <1>3 DEF Out, At
<1>12. DialsAreOut'
  BY <1>3, <1>6, <1>11 DEF IInv, DialsAreOut
<1>13. RadioIsInARealCall'
  BY <1>1, <1>6, <1>11 DEF IInv, RadioIsInARealCall
<1> QED BY <1>4, <1>5, <1>7, <1>8, <1>9, <1>10, <1>12, <1>13 DEF IInv

(* The leg is entered, the one it replaces is of an INVITE that was        *)
(* handled twice.                                                          *)
LEMMA AddLegInv ==
  ASSUME IInv, NEW r \in Run, AddLeg(r)
  PROVE  IInv'
<1>1. PICK pc \in {"bridged", "done"}, l \in Legs :
        /\ At(r, "entered") /\ Goes(r, pc)
        /\ pc = "bridged" => ~Out(r)
        /\ l.run = r /\ (l.pending \/ l.subscriber => pc = "done")
        /\ leg' = [leg EXCEPT ![Of(r)] = l]
        /\ coding' \in {coding, coding \union {r}}
        /\ UNCHANGED <<sip, relay, relaying, core, target, radio, answer, ending>>
  <2>1. DEFINE t == target[Of(r)]
               l == [run |-> r, subscriber |-> t = "out", connected |-> FALSE,
                     pending |-> t = "out"]
               pc == IF t = "group" THEN "bridged" ELSE "done"
  <2>2. l \in Legs /\ l.run = r /\ l.pending = (t = "out") /\ l.subscriber = (t = "out")
    BY DEF Legs
  <2>3. pc \in {"bridged", "done"} /\ (pc = "bridged" <=> t = "group")
    OBVIOUS
  <2>4. /\ At(r, "entered") /\ Goes(r, pc) /\ leg' = [leg EXCEPT ![Of(r)] = l]
        /\ coding' \in {coding, coding \union {r}}
        /\ UNCHANGED <<sip, relay, relaying, core, target, radio, answer, ending>>
    BY DEF AddLeg
  <2>5. pc = "bridged" => ~Out(r)
    BY <2>3 DEF Out
  <2>6. t = "out" => pc = "done"
    OBVIOUS
  <2> HIDE DEF t, l, pc
  <2> QED BY <2>2, <2>3, <2>4, <2>5, <2>6
<1>2. /\ ~At(r, "none") /\ ~Late(r) /\ ~At(r, "done") /\ r \in client
      /\ pc \in Pcs \ {"none", "trying"} /\ (Out(r) => r \in brew)
  BY <1>1 DEF At, Late, Pcs, IInv, RunsKeepTheirWay
<1>3. /\ Onward /\ At(r, pc)' /\ Of(r)' = Of(r)
      /\ \A q \in Run : q # r => invite'[q] = invite[q]
      /\ \A q \in Run : Of(q)' = Of(q) /\ (At(q, "none")' <=> At(q, "none"))
  BY <1>1, <1>2, OnwardGoes DEF IInv
<1>4. RunsKeepTheirWay' /\ PlacedOnce'
  BY <1>1, <1>2, GoesKeeps DEF core
<1>5. CallsWereStarted' /\ TrunkIsCounted'
  BY <1>1, <1>3, CallsStay, TrunkStays DEF IInv, sip
<1>6. PICK c \in Call : c = Of(r)
  BY DEF IInv, SipTypesOK, Of
<1>7. leg'[c] = l /\ \A d \in Call : d # c => leg'[d] = leg[d]
  BY <1>1, <1>6 DEF IInv, SipTypesOK
<1>8. SipTypesOK'
  BY <1>1, <1>3, <1>6 DEF IInv, SipTypesOK, Onward, sip, core
<1>9. \A q \in Run : q # r => \A s \in Pcs : At(q, s)' = At(q, s)
  BY <1>3 DEF At
<1>10. LegsAreOfTheirCall'
  <2>1. /\ Of(l.run)' = c /\ l.run \in client' /\ Late(l.run)'
        /\ l.pending \/ l.subscriber => l.run # NoRun /\ At(l.run, "done")'
    BY <1>1, <1>2, <1>3, <1>6, RunsAreRuns DEF Late, core
  <2>2. ASSUME NEW d \in Call, d # c, leg[d].run # NoRun
        PROVE  /\ Of(leg[d].run)' = d /\ leg[d].run \in client' /\ Late(leg[d].run)'
               /\ At(leg[d].run, "done") => At(leg[d].run, "done")'
    <3>1. /\ leg[d].run \in Run /\ Of(leg[d].run) = d /\ Late(leg[d].run)
          /\ leg[d].run \in client /\ ~At(leg[d].run, "none")
      BY <2>2 DEF IInv, SipTypesOK, LegsAreOfTheirCall, Late, At
    <3>2. leg'[d] = leg[d]
      BY <1>7, <2>2
    <3> QED BY <1>1, <1>3, <3>1, <3>2 DEF Onward, core
  <2> QED BY <1>7, <2>1, <2>2 DEF LegsAreOfTheirCall, IInv
<1>11. \A q \in Run : ~At(q, "none") /\ Of(q) = c /\ q # r => Repeated(c)
  BY <1>2, <1>6, TwoAreRepeated
<1>12. \A d : Repeated(d) => Repeated(d)'
  BY <1>3, RepeatedStays
<1>13. \A q \in client \union coding \union relaying :
         q \in Run /\ ~At(q, "none") /\ Of(q) \in Call /\ Of(q)' = Of(q)
  BY <1>3 DEF IInv, SipTypesOK, RunsKeepTheirWay, Of
<1>14. TasksAreNamed'
  <2>1. \A q \in coding' : leg'[Of(q)].run = q \/ Repeated(Of(q))
    BY <1>1, <1>6, <1>7, <1>11, <1>13 DEF IInv, TasksAreNamed
  <2>2. \A q \in relaying' : relay'[Of(q)] = q \/ Repeated(Of(q))
    BY <1>1 DEF IInv, TasksAreNamed
  <2>3. \A q \in coding' \union relaying' : Of(q)' = Of(q)
    BY <1>1, <1>3, <1>13
  <2> QED BY <1>12, <2>1, <2>2, <2>3 DEF TasksAreNamed
<1>15. ClientsBelong'
  <2>1. \A q \in client' :
          leg'[Of(q)].run = q \/ At(q, "entered")' \/ Repeated(Of(q)) \/ Leaving(q)'
    <3> SUFFICES ASSUME NEW q \in client
                 PROVE  leg'[Of(q)].run = q \/ At(q, "entered")' \/ Repeated(Of(q))
                        \/ Leaving(q)'
      BY <1>1 DEF core
    <3>1. CASE q = r
      BY <1>1, <1>6, <1>7, <3>1
    <3>2. CASE q # r /\ Of(q) = c
      BY <1>11, <1>13, <3>2
    <3>3. CASE q # r /\ Of(q) # c
      <4>1. leg'[Of(q)] = leg[Of(q)]
        BY <1>7, <1>13, <3>3
      <4>2. At(q, "entered")' = At(q, "entered")
        BY <1>9, <1>13, <3>3 DEF Pcs
      <4>3. Leaving(q) => Leaving(q)'
        BY <1>1 DEF Leaving
      <4> QED BY <4>1, <4>2, <4>3 DEF IInv, ClientsBelong
    <3> QED BY <3>1, <3>2, <3>3
  <2>2. \A q \in client' : Of(q)' = Of(q)
    BY <1>1, <1>13 DEF core
  <2> QED BY <1>12, <2>1, <2>2 DEF ClientsBelong
<1>16. CleanUpsAreLate'
  <2>1. ASSUME NEW e \in ending, e.pc = "core"
        PROVE  e.run \in Run /\ Late(e.run)' /\ leg'[Of(e.run)].run # e.run
    <3>1. /\ e.run \in Run /\ Late(e.run) /\ leg[Of(e.run)].run # e.run
          /\ ~At(e.run, "none") /\ e.run # r /\ Of(e.run) \in Call
      BY <1>2, <2>1 DEF IInv, CleanUpsAreLate, Late, At, SipTypesOK, Of
    <3> QED BY <1>1, <1>3, <1>7, <3>1 DEF Onward
  <2>2. \A e \in ending : e.pc = "core" => Of(e.run)' = Of(e.run)
    BY <1>3, <2>1
  <2> QED BY <1>1, <2>1, <2>2 DEF CleanUpsAreLate
<1>17. AnswersAreLate' /\ GroupHasFloor'
  BY <1>1, <1>3, AnswersStay, FloorStays DEF IInv, core
<1>18. RadioIsInARealCall' /\ DialsAreOut'
  <2>1. \A q \in Run : radio[q] = "dialling" /\ At(q, "done")' => q \in brew
    <3>1. ASSUME NEW q \in Run, radio[q] = "dialling", At(q, "done")'
          PROVE  q \in brew
      <4>1. CASE q = r
        BY <1>2, <3>1, <4>1 DEF IInv, DialsAreOut
      <4>2. CASE q # r
        BY <1>9, <3>1, <4>2 DEF IInv, RadioIsInARealCall, Pcs
      <4> QED BY <4>1, <4>2
    <3> QED BY <3>1
  <2> QED BY <1>1, <1>3, <2>1, RadiosStay DEF IInv, core
<1> QED BY <1>4, <1>5, <1>8, <1>10, <1>14, <1>15, <1>16, <1>17, <1>18 DEF IInv

-----------------------------------------------------------------------------
(* Steps that give something back.                                         *)

(* No handler of an INVITE goes on, and only ended calls lose something.   *)
LEMMA SameRuns ==
  ASSUME IInv, UNCHANGED <<target, invite>>,
         client' \subseteq client, brew' \subseteq brew, relaying' \subseteq relaying,
         \A r \in coding' : r \in coding \/ (r \in Run /\ ~At(r, "none")),
         floor' \in {floor, NoRun, Other},
         \A r \in Run : At(r, "entered") =>
           (r \in client => r \in client') /\ (Out(r) /\ r \in brew => r \in brew')
  PROVE  /\ Onward /\ RunsKeepTheirWay' /\ PlacedOnce' /\ GroupHasFloor'
         /\ \A r \in Run : /\ Of(r)' = Of(r) /\ Out(r)' = Out(r)
                           /\ \A s \in Pcs : At(r, s)' = At(r, s)
<1>1. Onward
  BY OnwardSame DEF IInv
<1>2. \A r \in Run : /\ Of(r)' = Of(r) /\ Out(r)' = Out(r)
                     /\ \A s : At(r, s)' = At(r, s)
  BY DEF Of, Out, At
<1>3. PlacedOnce'
  BY <1>2 DEF IInv, PlacedOnce
<1>4. RunsKeepTheirWay'
  <2>1. \A r \in Run : floor' = r => floor = r
    BY RunsAreRuns
  <2> QED BY <1>2, <2>1 DEF IInv, RunsKeepTheirWay
<1>5. GroupHasFloor'
  BY <1>1, FloorStays DEF IInv
<1> QED BY <1>1, <1>2, <1>3, <1>4, <1>5

(* The transcoder of a call from a radio starts, once.                     *)
LEMMA StartMediaInv ==
  ASSUME IInv, NEW a \in answer, StartMedia(a)
  PROVE  IInv'
<1>1. PICK c \in Call : c = a.call
  BY DEF IInv, SipTypesOK, Answers
<1>2. /\ answer' = answer \ {a}
      /\ coding' = IF leg[c].pending THEN coding \union {leg[c].run} ELSE coding
      /\ leg' = [leg EXCEPT ![c].pending = FALSE]
      /\ UNCHANGED <<sip, relay, relaying, core, target, radio, invite, ending>>
  BY <1>1 DEF StartMedia, parties
<1>3. /\ leg[c] \in Legs
      /\ leg[c].pending => /\ leg[c].run \in Run /\ Of(leg[c].run) = c
                           /\ ~At(leg[c].run, "none")
  BY DEF IInv, SipTypesOK, Legs, LegsAreOfTheirCall, At
<1>4. /\ leg' \in [Call -> Legs]
      /\ \A d \in Call : /\ leg'[d].run = leg[d].run
                         /\ leg'[d].pending => leg[d].pending
                         /\ leg'[d].subscriber => leg[d].subscriber
  <2>1. DEFINE l == [leg[c] EXCEPT !.pending = FALSE]
  <2>2. l \in Legs /\ l.run = leg[c].run /\ l.pending = FALSE /\ l.subscriber = leg[c].subscriber
    BY <1>3 DEF Legs
  <2>3. leg' = [leg EXCEPT ![c] = l]
    BY <1>2
  <2> HIDE DEF l
  <2> QED BY <2>2, <2>3 DEF IInv, SipTypesOK
<1>5. /\ Onward /\ RunsKeepTheirWay' /\ PlacedOnce' /\ GroupHasFloor'
      /\ \A r \in Run : /\ Of(r)' = Of(r)
                        /\ \A s \in Pcs : At(r, s)' = At(r, s)
  BY <1>2, <1>3, SameRuns DEF core
<1>6. SipTypesOK'
  BY <1>2, <1>3, <1>4 DEF IInv, SipTypesOK, sip, core
<1>7. CallsWereStarted' /\ TrunkIsCounted' /\ LegsAreOfTheirCall' /\ AnswersAreLate'
  BY <1>2, <1>4, <1>5, CallsStay, TrunkStays, LegsStay, AnswersStay DEF IInv, sip, core
<1>8. \A r \in Run : Of(r) \in Call
  BY DEF IInv, SipTypesOK, Of
<1>9. CleanUpsAreLate'
  <2>1. \A e \in ending : e.pc = "core" => e.run \in Run
    BY DEF IInv, CleanUpsAreLate
  <2> QED BY <1>2, <1>4, <1>5, <1>8, <2>1, CleanUpsStay DEF IInv
<1>10. TasksAreNamed'
  <2>1. \A r \in coding' : r \in Run /\ (leg'[Of(r)].run = r \/ Repeated(Of(r)))
    BY <1>2, <1>3, <1>4, <1>8 DEF IInv, TasksAreNamed, SipTypesOK
  <2>2. \A r \in relaying' : r \in Run /\ (relay'[Of(r)] = r \/ Repeated(Of(r)))
    BY <1>2 DEF IInv, TasksAreNamed, SipTypesOK
  <2>3. \A d : Repeated(d) => Repeated(d)'
    BY <1>5, RepeatedStays
  <2> QED BY <1>5, <2>1, <2>2, <2>3 DEF TasksAreNamed
<1>11. ClientsBelong'
  <2>1. \A r : Leaving(r) => Leaving(r)'
    BY <1>2 DEF Leaving
  <2>2. \A r \in client : r \in Run
    BY DEF IInv, SipTypesOK
  <2> QED BY <1>2, <1>4, <1>5, <1>8, <2>1, <2>2, ClientsStay DEF IInv, core, Pcs
<1>12. RadioIsInARealCall' /\ DialsAreOut'
  <2>1. \A r \in Run : radio[r] = "dialling" /\ At(r, "done")' => r \in brew
    BY <1>5 DEF IInv, RadioIsInARealCall, Pcs
  <2> QED BY <1>2, <1>5, <2>1, RadiosStay DEF IInv, core
<1> QED BY <1>5, <1>6, <1>7, <1>9, <1>10, <1>11, <1>12 DEF IInv

(* The Brew core ends a call, and its radio with it.                       *)
LEMMA BrewEndsInv ==
  ASSUME IInv, NEW r \in Run, RadioReleases(r) \/ RouterLimit(r) \/ Preempt(r)
  PROVE  IInv'
<1>1. PICK taker \in {NoRun, Other}, s \in {"over", "untold"} :
        /\ BrewEnds(r, taker) /\ radio' = [radio EXCEPT ![r] = s]
        /\ Out(r) => At(r, "done")
        /\ UNCHANGED <<sip, rtp, target, invite, answer, leg>>
  <2>1. CASE RadioReleases(r)
    BY <2>1 DEF RadioReleases, Out
  <2>2. CASE RouterLimit(r)
    BY <2>2 DEF RouterLimit
  <2>3. CASE Preempt(r)
    BY <2>3 DEF Preempt, IInv, GroupHasFloor, Out
  <2> QED BY <2>1, <2>2, <2>3
<1>2. /\ brew' = brew \ {r} /\ client' = client
      /\ floor' \in {floor, NoRun, Other}
      /\ ending' = ending \union {[by |-> "brew", call |-> Of(r), run |-> r, pc |-> "find"]}
  BY <1>1 DEF BrewEnds
<1>3. /\ Onward /\ RunsKeepTheirWay' /\ PlacedOnce' /\ GroupHasFloor'
      /\ \A q \in Run : /\ Of(q)' = Of(q)
                        /\ \A t \in Pcs : At(q, t)' = At(q, t)
  <2>1. \A q \in Run : At(q, "entered") /\ Out(q) /\ q \in brew => q \in brew'
    BY <1>1, <1>2 DEF At
  <2>2. \A q \in coding' : q \in coding
    BY <1>1 DEF rtp
  <2> QED BY <1>1, <1>2, <2>1, <2>2, SameRuns DEF rtp
<1>4. /\ ending' \subseteq Endings
      /\ \A e \in ending' : e.pc = "core" => e \in ending
  BY <1>2 DEF IInv, SipTypesOK, Endings, EndingPcs, Of
<1>5. /\ radio' \in [Run -> Live \union {"idle", "over", "untold"}]
      /\ \A q \in Run : radio'[q] \in Live => q # r /\ radio'[q] = radio[q]
  BY <1>1 DEF IInv, SipTypesOK, Live
<1>6. SipTypesOK'
  BY <1>1, <1>2, <1>4, <1>5 DEF IInv, SipTypesOK, sip, rtp
<1>7. CallsWereStarted' /\ TrunkIsCounted' /\ LegsAreOfTheirCall' /\ AnswersAreLate'
      /\ TasksAreNamed' /\ CleanUpsAreLate'
  BY <1>1, <1>2, <1>3, <1>4, CallsStay, TrunkStays, LegsStay, AnswersStay, TasksStay,
     CleanUpsStay DEF IInv, sip, rtp
<1>8. ClientsBelong'
  <2>1. \A q : Leaving(q) => Leaving(q)'
    BY <1>2 DEF Leaving
  <2>2. \A q \in client : q \in Run
    BY DEF IInv, SipTypesOK
  <2> QED BY <1>1, <1>2, <1>3, <2>1, <2>2, ClientsStay DEF IInv, Pcs
<1>9. RadioIsInARealCall' /\ DialsAreOut'
  <2>1. \A q \in Run : radio[q] = "dialling" /\ At(q, "done")' => q \in brew
    BY <1>3 DEF IInv, RadioIsInARealCall, Pcs
  <2> QED BY <1>2, <1>3, <1>5, <2>1, RadiosStay DEF IInv
<1> QED BY <1>3, <1>6, <1>7, <1>8, <1>9 DEF IInv

(* The relay is aborted.                                                   *)
LEMMA AbortRelayInv ==
  ASSUME IInv, NEW e \in ending, AbortRelay(e)
  PROVE  IInv'
<1>1. PICK c \in Call : c = e.call
  BY DEF IInv, SipTypesOK, Endings
<1>2. /\ e.pc = "relay"
      /\ relaying' = relaying \ {relay[c]} /\ relay' = [relay EXCEPT ![c] = NoRun]
      /\ Step(e, [e EXCEPT !.pc = "call"])
      /\ UNCHANGED <<sip, coding, core, target, radio, invite, answer, leg>>
  BY <1>1 DEF AbortRelay, parties
<1>3. "call" \in EndingPcs /\ NoRun \in Run \union {NoRun}
  BY DEF EndingPcs
<1>4. CleanUpsKept
  <2>1. [e EXCEPT !.pc = "call"] \in Endings /\ [e EXCEPT !.pc = "call"].pc = "call"
    <3>1. e \in Endings
      BY DEF IInv, SipTypesOK
    <3> QED BY <1>3, <3>1 DEF Endings
  <2> QED BY <1>2, <2>1, StepKept DEF IInv
<1>5. /\ Onward /\ RunsKeepTheirWay' /\ PlacedOnce' /\ GroupHasFloor'
      /\ \A r \in Run : Of(r)' = Of(r) /\ \A s \in Pcs : At(r, s)' = At(r, s)
  BY <1>2, SameRuns DEF core
<1>6. SipTypesOK'
  BY <1>2, <1>4 DEF IInv, SipTypesOK, CleanUpsKept, sip, core
<1>7. CallsWereStarted' /\ TrunkIsCounted' /\ LegsAreOfTheirCall' /\ AnswersAreLate'
      /\ CleanUpsAreLate'
  BY <1>2, <1>4, <1>5, CallsStay, TrunkStays, LegsStay, AnswersStay, CleanUpsStay
     DEF IInv, sip, core, CleanUpsKept
<1>8. TasksAreNamed'
  <2>1. ASSUME NEW r \in relaying'
        PROVE  r \in Run /\ (relay'[Of(r)] = r \/ Repeated(Of(r)))
    <3>1. r \in relaying /\ r \in Run /\ r # relay[c]
      BY <1>2 DEF IInv, SipTypesOK
    <3>2. relay[Of(r)] = r \/ Repeated(Of(r))
      BY <3>1 DEF IInv, TasksAreNamed
    <3> QED BY <1>2, <3>1, <3>2 DEF IInv, SipTypesOK
  <2>2. \A r \in coding' : r \in Run /\ (leg'[Of(r)].run = r \/ Repeated(Of(r)))
    BY <1>2 DEF IInv, TasksAreNamed, SipTypesOK
  <2>3. \A d : Repeated(d) => Repeated(d)'
    BY <1>5, RepeatedStays
  <2> QED BY <1>5, <2>1, <2>2, <2>3 DEF TasksAreNamed
<1>9. ClientsBelong'
  <2>1. \A r : Leaving(r) => Leaving(r)'
    BY <1>4 DEF Leaving, CleanUpsKept
  <2>2. \A r \in client : r \in Run
    BY DEF IInv, SipTypesOK
  <2> QED BY <1>2, <1>5, <2>1, <2>2, ClientsStay DEF IInv, core, Pcs
<1>10. RadioIsInARealCall' /\ DialsAreOut'
  <2>1. \A r \in Run : radio[r] = "dialling" /\ At(r, "done")' => r \in brew
    BY <1>5 DEF IInv, RadioIsInARealCall, Pcs
  <2> QED BY <1>2, <1>5, <2>1, RadiosStay DEF IInv, core
<1> QED BY <1>5, <1>6, <1>7, <1>8, <1>9, <1>10 DEF IInv

(* The leg leaves; what it named is now the clean-up's to remove.          *)
LEMMA RemoveLegInv ==
  ASSUME IInv, NEW e \in ending, RemoveLeg(e)
  PROVE  IInv'
<1>1. PICK c \in Call, r \in Run \union {NoRun} : c = e.call /\ r = leg[c].run
  BY DEF IInv, SipTypesOK, Endings, Legs
<1>2. /\ e.pc = "leg"
      /\ leg' = [leg EXCEPT ![c] = NoLeg]
      /\ coding' = coding \ {r}
      /\ IF r = NoRun THEN Step(e, [e EXCEPT !.pc = "call"])
                      ELSE Step(e, [e EXCEPT !.pc = "core", !.run = r])
      /\ UNCHANGED <<sip, relay, relaying, core, target, radio, invite, answer>>
  BY <1>1 DEF RemoveLeg, parties
<1>3. {"call", "core"} \subseteq EndingPcs
  BY DEF EndingPcs
<1>4. PICK f \in Endings :
        /\ ending' = (ending \ {e}) \union {f}
        /\ f.pc = IF r = NoRun THEN "call" ELSE "core"
        /\ r # NoRun => f.run = r
  <2>1. /\ [e EXCEPT !.pc = "call"] \in Endings /\ [e EXCEPT !.pc = "call"].pc = "call"
        /\ [e EXCEPT !.pc = "core", !.run = r] \in Endings
        /\ [e EXCEPT !.pc = "core", !.run = r].pc = "core"
        /\ [e EXCEPT !.pc = "core", !.run = r].run = r
    <3>1. e \in Endings
      BY DEF IInv, SipTypesOK
    <3> QED BY <1>3, <3>1 DEF Endings
  <2>2. CASE r = NoRun
    BY <1>2, <2>1, <2>2 DEF Step
  <2>3. CASE r # NoRun
    BY <1>2, <2>1, <2>3 DEF Step
  <2> QED BY <2>2, <2>3
<1>5. /\ leg' \in [Call -> Legs] /\ leg'[c] = NoLeg
      /\ \A d \in Call : d # c => leg'[d] = leg[d]
  BY <1>2 DEF IInv, SipTypesOK, NoLeg, Legs
<1>6. r # NoRun => r \in Run /\ Of(r) = c /\ Late(r)
  BY <1>1 DEF IInv, LegsAreOfTheirCall
<1>7. /\ Onward /\ RunsKeepTheirWay' /\ PlacedOnce' /\ GroupHasFloor'
      /\ \A q \in Run : Of(q)' = Of(q) /\ \A s \in Pcs : At(q, s)' = At(q, s)
  BY <1>2, SameRuns DEF core
<1>8. SipTypesOK'
  BY <1>2, <1>4, <1>5 DEF IInv, SipTypesOK, sip, core
<1>9. CallsWereStarted' /\ TrunkIsCounted' /\ AnswersAreLate'
  BY <1>2, <1>7, CallsStay, TrunkStays, AnswersStay DEF IInv, sip
<1>10. \A q \in Run : Of(q) \in Call
  BY DEF IInv, SipTypesOK, Of
<1>11. LegsAreOfTheirCall'
  <2>1. leg'[c].run = NoRun /\ ~leg'[c].pending /\ ~leg'[c].subscriber
    BY <1>5 DEF NoLeg
  <2>2. ASSUME NEW d \in Call, d # c, leg[d].run # NoRun
        PROVE  /\ Of(leg[d].run)' = d /\ leg[d].run \in client' /\ Late(leg[d].run)'
               /\ At(leg[d].run, "done") => At(leg[d].run, "done")'
    <3>1. leg[d].run \in Run /\ Of(leg[d].run) = d /\ Late(leg[d].run)
          /\ leg[d].run \in client
      BY <2>2 DEF IInv, SipTypesOK, LegsAreOfTheirCall
    <3>2. leg'[d] = leg[d]
      BY <1>5, <2>2
    <3> QED BY <1>2, <1>7, <3>1, <3>2 DEF Late, core, Pcs
  <2> QED BY <1>5, <2>1, <2>2 DEF LegsAreOfTheirCall, IInv
<1>12. CleanUpsAreLate'
  <2>1. ASSUME NEW g \in ending', g.pc = "core"
        PROVE  g.run \in Run /\ Late(g.run) /\ leg'[Of(g.run)].run # g.run
    <3>1. CASE g = f
      <4>1. g.run = r /\ r # NoRun
        BY <1>4, <2>1, <3>1
      <4> QED BY <1>5, <1>6, <4>1 DEF NoLeg
    <3>2. CASE g # f
      <4>1. g.run \in Run /\ Late(g.run) /\ leg[Of(g.run)].run # g.run
        BY <1>4, <2>1, <3>2 DEF IInv, CleanUpsAreLate
      <4> QED BY <1>5, <1>10, <4>1, RunsAreRuns DEF NoLeg
    <3> QED BY <3>1, <3>2
  <2>2. \A g \in ending' : g.pc = "core" => Of(g.run)' = Of(g.run) /\ Late(g.run)'
    BY <1>7, <2>1 DEF Late, Pcs
  <2> QED BY <2>1, <2>2 DEF CleanUpsAreLate
<1>13. TasksAreNamed'
  <2>1. ASSUME NEW q \in coding'
        PROVE  q \in Run /\ (leg'[Of(q)].run = q \/ Repeated(Of(q)))
    <3>1. q \in coding /\ q \in Run /\ q # r
      BY <1>2 DEF IInv, SipTypesOK
    <3>2. leg[Of(q)].run = q \/ Repeated(Of(q))
      BY <3>1 DEF IInv, TasksAreNamed
    <3> QED BY <1>1, <1>5, <1>10, <3>1, <3>2
  <2>2. \A q \in relaying' : q \in Run /\ (relay'[Of(q)] = q \/ Repeated(Of(q)))
    BY <1>2 DEF IInv, TasksAreNamed, SipTypesOK
  <2>3. \A d : Repeated(d) => Repeated(d)'
    BY <1>7, RepeatedStays
  <2> QED BY <1>7, <2>1, <2>2, <2>3 DEF TasksAreNamed
<1>14. ClientsBelong'
  <2>1. \A q : Leaving(q) => Leaving(q)'
    BY <1>2, <1>4 DEF Leaving
  <2>2. ASSUME NEW q \in client, leg[Of(q)].run = q
        PROVE  leg'[Of(q)].run = q \/ Leaving(q)'
    <3>1. q \in Run /\ Of(q) \in Call
      BY <1>10 DEF IInv, SipTypesOK
    <3>2. CASE Of(q) = c
      <4>1. q = r /\ r # NoRun
        BY <1>1, <2>2, <3>1, <3>2, RunsAreRuns
      <4>2. f \in ending' /\ f.pc = "core" /\ f.run = q
        BY <1>4, <4>1
      <4> QED BY <4>2 DEF Leaving
    <3>3. CASE Of(q) # c
      BY <1>5, <2>2, <3>1, <3>3
    <3> QED BY <3>2, <3>3
  <2>3. \A q \in client : q \in Run
    BY DEF IInv, SipTypesOK
  <2> QED BY <1>2, <1>7, <2>1, <2>2, <2>3, ClientsStay DEF IInv, core, Pcs
<1>15. RadioIsInARealCall' /\ DialsAreOut'
  <2>1. \A q \in Run : radio[q] = "dialling" /\ At(q, "done")' => q \in brew
    BY <1>7 DEF IInv, RadioIsInARealCall, Pcs
  <2> QED BY <1>2, <1>7, <2>1, RadiosStay DEF IInv, core
<1> QED BY <1>7, <1>8, <1>9, <1>11, <1>12, <1>13, <1>14, <1>15 DEF IInv

(* The virtual client and its call leave the Brew core.                    *)
LEMMA CleanUpInv ==
  ASSUME IInv, NEW e \in ending, CleanUp(e)
  PROVE  IInv'
<1>1. PICK r \in Run : /\ r = e.run /\ Late(r) /\ leg[Of(r)].run # r
  BY DEF CleanUp, IInv, CleanUpsAreLate
<1>2. /\ e.pc = "core"
      /\ client' = client \ {r} /\ brew' = brew \ {r}
      /\ floor' \in {floor, NoRun, Other}
      /\ radio' = IF r \in brew THEN [radio EXCEPT ![r] = "over"] ELSE radio
      /\ Step(e, [e EXCEPT !.pc = "call"])
      /\ UNCHANGED <<sip, rtp, target, invite, answer, leg>>
  BY <1>1 DEF CleanUp, ClientsWithout, CallsWithout, FloorWithout, ToldOfTheEnd
<1>3. /\ ending' \subseteq Endings
      /\ \A g \in ending' : g.pc = "core" => g \in ending
      /\ \A g \in ending : g # e => g \in ending'
  <2>1. e \in Endings /\ "call" \in EndingPcs
    BY DEF IInv, SipTypesOK, EndingPcs
  <2>2. [e EXCEPT !.pc = "call"] \in Endings /\ [e EXCEPT !.pc = "call"].pc = "call"
    BY <2>1 DEF Endings
  <2> QED BY <1>2, <2>2 DEF Step, IInv, SipTypesOK
<1>4. /\ Onward /\ RunsKeepTheirWay' /\ PlacedOnce' /\ GroupHasFloor'
      /\ \A q \in Run : Of(q)' = Of(q) /\ \A s \in Pcs : At(q, s)' = At(q, s)
  <2>1. ~At(r, "entered")
    BY <1>1 DEF Late, At
  <2>2. \A q \in coding' : q \in coding
    BY <1>2 DEF rtp
  <2> QED BY <1>2, <2>1, <2>2, SameRuns DEF rtp
<1>5. /\ radio' \in [Run -> Live \union {"idle", "over", "untold"}]
      /\ \A q \in Run : q # r => radio'[q] = radio[q]
      /\ r \in brew => radio'[r] = "over"
      /\ r \notin brew => radio'[r] = radio[r]
  BY <1>2 DEF IInv, SipTypesOK
<1>6. SipTypesOK'
  BY <1>2, <1>3, <1>5, RunsAreRuns DEF IInv, SipTypesOK, sip, rtp
<1>7. CallsWereStarted' /\ TrunkIsCounted' /\ AnswersAreLate' /\ TasksAreNamed'
      /\ CleanUpsAreLate'
  BY <1>2, <1>3, <1>4, CallsStay, TrunkStays, AnswersStay, TasksStay, CleanUpsStay
     DEF IInv, sip, rtp
<1>8. LegsAreOfTheirCall'
  <2>1. ASSUME NEW d \in Call, leg[d].run # NoRun
        PROVE  /\ Of(leg[d].run) = d /\ leg[d].run \in client' /\ Late(leg[d].run)
               /\ leg[d].run \in Run
    <3>1. leg[d].run \in Run /\ Of(leg[d].run) = d /\ Late(leg[d].run)
          /\ leg[d].run \in client
      BY <2>1 DEF IInv, SipTypesOK, LegsAreOfTheirCall
    <3>2. leg[d].run # r
      BY <1>1, <3>1
    <3> QED BY <1>2, <3>1, <3>2
  <2>2. ASSUME NEW d \in Call, leg[d].run # NoRun
        PROVE  /\ Of(leg[d].run)' = d /\ leg[d].run \in client' /\ Late(leg[d].run)'
               /\ At(leg[d].run, "done") => At(leg[d].run, "done")'
    BY <1>2, <1>4, <2>1, <2>2 DEF Late, Pcs
  <2>3. leg' = leg
    BY <1>2
  <2> QED BY <2>2, <2>3 DEF IInv, LegsAreOfTheirCall
<1>9. ClientsBelong'
  <2>1. \A q \in client' : Leaving(q) => Leaving(q)'
    <3> SUFFICES ASSUME NEW q \in client', NEW g \in ending, g.pc = "core", g.run = q
                 PROVE  Leaving(q)'
      BY DEF Leaving
    <3>1. g # e
      BY <1>1, <1>2
    <3> QED BY <1>3, <3>1 DEF Leaving
  <2>2. \A q \in client : q \in Run
    BY DEF IInv, SipTypesOK
  <2> QED BY <1>2, <1>4, <2>1, <2>2, ClientsStay DEF IInv, Pcs
<1>10. RadioIsInARealCall' /\ DialsAreOut'
  <2>1. radio'[r] \notin Live
    <3>1. CASE r \in brew
      BY <1>5, <3>1 DEF Live
    <3>2. CASE r \notin brew
      <4>1. At(r, "bridged") => radio[r] # "dialling"
        BY DEF IInv, RunsKeepTheirWay, DialsAreOut
      <4> QED BY <1>1, <1>5, <3>2, <4>1 DEF IInv, RadioIsInARealCall, Live, Late
    <3> QED BY <3>1, <3>2
  <2>2. \A q \in Run : radio[q] = "dialling" /\ At(q, "done")' => q \in brew
    BY <1>4 DEF IInv, RadioIsInARealCall, Pcs
  <2>3. \A q \in Run : radio'[q] \in Live =>
          q # r /\ radio[q] = radio'[q] /\ (q \in brew => q \in brew')
    BY <1>2, <1>5, <2>1
  <2> QED BY <1>4, <2>2, <2>3, RadiosStay DEF IInv, Live
<1> QED BY <1>4, <1>6, <1>7, <1>8, <1>9, <1>10 DEF IInv

(* The call is ended, and counted out of its trunk if it was there.        *)
LEMMA EndCallInv ==
  ASSUME IInv, NEW e \in ending, EndCall(e)
  PROVE  IInv'
<1>1. PICK c \in Call : c = e.call
  BY DEF IInv, SipTypesOK, Endings
<1>2. /\ e.pc = "call"
      /\ call' = [call EXCEPT ![c] = "none"]
      /\ trunk' = IF trunk > CountedOut(c) THEN trunk - CountedOut(c) ELSE 0
      /\ ending' = ending \ {e}
      /\ UNCHANGED <<rtp, core, target, radio, invite, answer, leg>>
  BY <1>1 DEF EndCall
<1>3. CleanUpsKept
  BY <1>2, EndKept DEF IInv
<1>4. /\ Onward /\ RunsKeepTheirWay' /\ PlacedOnce' /\ GroupHasFloor'
      /\ \A q \in Run : Of(q)' = Of(q) /\ \A s \in Pcs : At(q, s)' = At(q, s)
  BY <1>2, SameRuns DEF core, rtp
<1>5. /\ IsFiniteSet(Running) /\ Cardinality(Running) \in Nat /\ trunk \in Nat
      /\ trunk >= Cardinality(Running)
      /\ (\A d \in OnTrunk : ~Repeated(d)) => trunk = Cardinality(Running)
  BY FS_CardinalityType DEF IInv, TrunkIsCounted, TrunkCountIsExact, Running, SipTypesOK
<1>6. \A d \in Call : call'[d] = IF d = c THEN "none" ELSE call[d]
  BY <1>2 DEF IInv, SipTypesOK
<1>7. \A d : Repeated(d) => Repeated(d)'
  BY <1>4, RepeatedStays
<1>8. /\ trunk' \in Nat /\ IsFiniteSet(Running')
      /\ trunk' >= Cardinality(Running')
      /\ (\A d \in OnTrunk : ~Repeated(d)') => trunk' = Cardinality(Running')
  <2>1. CASE c \notin Running
    <3>1. Running' = Running /\ CountedOut(c) = 0
      BY <1>6, <2>1, SipAssumption DEF Running, CountedOut
    <3>2. trunk' = trunk
      BY <1>2, <1>5, <3>1
    <3> QED BY <1>5, <1>7, <3>1, <3>2
  <2>2. CASE c \in Running
    <3>1. Running' = Running \ {c} /\ CountedOut(c) = 1
      BY <1>6, <2>2, SipAssumption DEF Running, CountedOut
    <3>2. IsFiniteSet(Running') /\ Cardinality(Running') = Cardinality(Running) - 1
      BY <1>5, <2>2, <3>1, FS_RemoveElement
    <3>3. Cardinality(Running) > 0
      BY <1>5, <2>2, FS_EmptySet
    <3>4. trunk' = trunk - 1
      BY <1>2, <1>5, <3>1, <3>3
    <3> QED BY <1>5, <1>7, <3>2, <3>3, <3>4
  <2> QED BY <2>1, <2>2
<1>9. TrunkIsCounted'
  BY <1>8 DEF TrunkIsCounted, TrunkCountIsExact, Running
<1>10. SipTypesOK'
  BY <1>2, <1>3, <1>8 DEF IInv, SipTypesOK, CleanUpsKept, rtp, core
<1>11. CallsWereStarted' /\ LegsAreOfTheirCall' /\ AnswersAreLate' /\ TasksAreNamed'
       /\ CleanUpsAreLate'
  BY <1>2, <1>3, <1>4, <1>6, CallsStay, LegsStay, AnswersStay, TasksStay, CleanUpsStay
     DEF IInv, rtp, core, CleanUpsKept
<1>12. ClientsBelong'
  <2>1. \A q : Leaving(q) => Leaving(q)'
    BY <1>3 DEF Leaving, CleanUpsKept
  <2>2. \A q \in client : q \in Run
    BY DEF IInv, SipTypesOK
  <2> QED BY <1>2, <1>4, <2>1, <2>2, ClientsStay DEF IInv, core, Pcs
<1>13. RadioIsInARealCall' /\ DialsAreOut'
  <2>1. \A q \in Run : radio[q] = "dialling" /\ At(q, "done")' => q \in brew
    BY <1>4 DEF IInv, RadioIsInARealCall, Pcs
  <2> QED BY <1>2, <1>4, <2>1, RadiosStay DEF IInv, core
<1> QED BY <1>4, <1>9, <1>10, <1>11, <1>12, <1>13 DEF IInv

-----------------------------------------------------------------------------
(* The invariant, and what follows from it.                                *)

(* It holds before the first call.                                         *)
LEMMA InitInv == SipInit => IInv
<1> SUFFICES ASSUME SipInit PROVE IInv
  OBVIOUS
<1>1. /\ call = [c \in Call |-> "none"] /\ trunk = 0
      /\ relay = [c \in Call |-> NoRun] /\ relaying = {} /\ coding = {}
      /\ leg = [c \in Call |-> NoLeg]
      /\ client = {} /\ brew = {}
      /\ floor \in {Other, NoRun}
      /\ radio = [r \in Run |-> "idle"]
      /\ invite = [r \in Run |-> NoInvite]
      /\ answer = {} /\ ending = {}
  BY DEF SipInit
<1>2. NoInvite \in [call : Call, pc : Pcs] /\ NoInvite.pc = "none"
  BY SipAssumption DEF NoInvite, Pcs
<1>3. NoLeg \in Legs /\ NoLeg.run = NoRun /\ ~NoLeg.pending /\ ~NoLeg.subscriber
  BY DEF NoLeg, Legs
<1>4. SipTypesOK
  BY <1>1, <1>2, <1>3 DEF SipTypesOK
<1>5. \A r \in Run : At(r, "none") /\ ~At(r, "trying") /\ ~At(r, "bridged")
                     /\ ~At(r, "placed") /\ ~At(r, "entered") /\ floor # r
  BY <1>1, <1>2, RunsAreRuns DEF At
<1>6. RunsKeepTheirWay /\ PlacedOnce
  BY <1>1, <1>5 DEF RunsKeepTheirWay, PlacedOnce
<1>7. CallsWereStarted /\ LegsAreOfTheirCall /\ CleanUpsAreLate /\ AnswersAreLate
  BY <1>1, <1>3 DEF CallsWereStarted, LegsAreOfTheirCall, CleanUpsAreLate, AnswersAreLate
<1>8. DialsAreOut /\ GroupHasFloor /\ TasksAreNamed /\ ClientsBelong /\ RadioIsInARealCall
  BY <1>1, RunsAreRuns
     DEF DialsAreOut, GroupHasFloor, TasksAreNamed, ClientsBelong, RadioIsInARealCall
<1>9. TrunkIsCounted
  <2>1. Running = {}
    BY <1>1, SipAssumption DEF Running
  <2>2. IsFiniteSet(Running) /\ Cardinality(Running) = 0
    BY <2>1, FS_EmptySet
  <2> QED BY <1>1, <2>2 DEF TrunkIsCounted, TrunkCountIsExact, Running
<1> QED BY <1>4, <1>6, <1>7, <1>8, <1>9 DEF IInv

(* Every step keeps it.                                                    *)
LEMMA NextInv == IInv /\ [SipNext]_sipVars => IInv'
<1> SUFFICES ASSUME IInv, [SipNext]_sipVars PROVE IInv'
  OBVIOUS
<1>1. CASE UNCHANGED sipVars
  <2>1. UNCHANGED <<sip, rtp, core, target, radio, invite, answer, ending, leg>>
    BY <1>1 DEF sipVars, parties, tasks
  <2>2. RadiosKept
    BY <2>1, SameRadiosKept DEF core
  <2>3. AllKept
    BY <2>1, <2>2, SameKept DEF IInv, SipTypesOK, AllKept, sip, rtp, core
  <2>4. AnswersAreLate'
    BY <2>1 DEF IInv, AnswersAreLate, At
  <2> QED BY <2>1, <2>3, <2>4, KeptSameInv
<1>2. CASE Handlers
  BY <1>2, TrackInv, DoneInv, BridgeInv, EnterInv, AddLegInv, AcceptInv, BeginInv,
     RespondInv, ActOnInv, StartMediaInv, AbortRelayInv, TellInv, RemoveLegInv, CleanUpInv,
     EndCallInv DEF Handlers
<1>3. CASE Parties
  BY <1>3, NewRunInv, BeginInv, RespondInv, AcceptInv, BrewEndsInv DEF Parties
<1>4. CASE Limits
  BY <1>4, BeginInv, BrewEndsInv DEF Limits
<1> QED BY <1>1, <1>2, <1>3, <1>4 DEF SipNext

(* The invariant always holds.                                             *)
THEOREM Invariance == SipSpec => []IInv
<1>1. SipInit => IInv
  BY InitInv
<1>2. IInv /\ [SipNext]_sipVars => IInv'
  BY NextInv
<1> QED BY <1>1, <1>2, PTL DEF SipSpec

(* What BrewBridge and the relays hold belongs to a leg, to an INVITE on   *)
(* its way or to a clean-up: nothing is left behind, however many handlers *)
(* end a call at once.                                                     *)
THEOREM LeftBehindCorrect == SipSpec => []NothingIsLeftBehind
<1>1. IInv => NothingIsLeftBehind
  BY DEF IInv, ClientsBelong, TasksAreNamed, LegsAreOfTheirCall, Leaving,
         NothingIsLeftBehind
<1> QED BY <1>1, Invariance, PTL

(* SipState's trunk count is that of the calls on it, however often        *)
(* end_call runs; only a repeated INVITE counts twice.                     *)
THEOREM TrunkCorrect == SipSpec => []TrunkCountIsExact
<1>1. IInv => TrunkCountIsExact
  BY DEF IInv, TrunkIsCounted
<1> QED BY <1>1, Invariance, PTL

(* A radio that believes it is in a call is in one that the Brew core has. *)
THEOREM RadioCorrect == SipSpec => []RadioIsInARealCall
<1>1. IInv => RadioIsInARealCall
  BY DEF IInv
<1> QED BY <1>1, Invariance, PTL

(* Whoever gives up the floor of the group ends the call that holds it.    *)
LEMMA FloorStep ==
  ASSUME IInv, SipNext, floor # NoRun, floor' = NoRun
  PROVE  IF floor = Other THEN ~talker' ELSE floor \notin brew'
<1>1. ASSUME NEW r \in Run, Enter(r)
      PROVE  FALSE
  BY <1>1, RunsAreRuns DEF Enter
<1>2. ASSUME NEW r \in Run, NEW taker, BrewEnds(r, taker)
      PROVE  floor = r /\ r \notin brew' /\ r # Other
  BY <1>2, RunsAreRuns DEF BrewEnds
<1>3. ASSUME NEW e \in ending, CleanUp(e)
      PROVE  floor = e.run /\ e.run \notin brew' /\ e.run # Other
  <2>1. e.run \in Run
    BY <1>3 DEF CleanUp, IInv, CleanUpsAreLate
  <2> QED BY <1>3, <2>1, RunsAreRuns DEF CleanUp, FloorWithout, CallsWithout
<1>4. ASSUME TalkerEnds
      PROVE  floor = Other /\ ~talker'
  BY <1>4 DEF TalkerEnds
<1>5. CASE Handlers
  BY <1>1, <1>3, <1>5
     DEF Handlers, Track, Refuse, Bridge, AddLeg, Answer, NotPlaced, PlaceOutbound, Confirm,
         Busy, ControlCloses, ReadLeg, ActOn, StartMedia, AbortRelay, FindLeg, ForceEnd,
         RemoveLeg, EndCall, core
<1>6. CASE Parties
  BY <1>2, <1>4, <1>6
     DEF Parties, Invite, HangUp, SetUp, FarEndHangsUp, Respond, RadioAccepts, RadioReleases,
         Preempt, core
<1>7. CASE Limits
  BY <1>2, <1>7 DEF Limits, Sweep, RouterLimit, core
<1> QED BY <1>5, <1>6, <1>7 DEF SipNext

(* The floor is given up only by the end of the call that holds it         *)
(* (bridge.rs: teardown and its check of group_floor).                     *)
THEOREM FloorCorrect == SipSpec => FloorIsLeftToItsHolder
<1>1. IInv /\ [SipNext]_sipVars =>
        [floor # NoRun /\ floor' = NoRun =>
           IF floor = Other THEN ~talker' ELSE floor \notin brew']_sipVars
  BY FloorStep
<1> QED BY <1>1, Invariance, PTL DEF SipSpec, FloorIsLeftToItsHolder

=============================================================================
