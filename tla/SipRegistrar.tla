---------------------------- MODULE SipRegistrar ----------------------------
(***************************************************************************)
(* The registrar of the SIP side (handle_register of sip/transport.rs, the *)
(* bindings of sip/state.rs) and the loop that registers an outbound trunk *)
(* with its provider (outbound_register_loop).                             *)
(*                                                                         *)
(* Phones register over UDP: a datagram can be lost, come twice, or come   *)
(* late, after the phone has moved or gone.  Every datagram is handled by  *)
(* a task of its own.  A phone repeats itself until it is answered and     *)
(* registers again before its binding ends.  The digest is abstracted to   *)
(* the nonce: a phone knows its password, so the answer to a challenge is  *)
(* good as long as the nonce is.                                           *)
(*                                                                         *)
(* Time passes in ticks, and not while somebody waits for an answer that   *)
(* is on its way (answers take milliseconds, a tick is 15 seconds).        *)
(***************************************************************************)
EXTENDS Naturals, FiniteSets

CONSTANTS
  Phone,         \* provisioned extensions
  Open,          \* those with an empty password
  Addr,          \* the addresses a phone may be at
  Nonce,         \* nonces, numbers
  Ttl,           \* ticks a phone registers for
  NonceLife,     \* 2 minutes in ticks
  Interval,      \* register_interval_seconds of the trunk in ticks
  TrunkTtl,      \* ticks the provider keeps a registration, "Expires: 300"
  MaxPhoneMoves, \* bound: phones that move, leave, vanish or come back
  MaxMishaps,    \* bound: lost and doubled datagrams, failures of the provider
  Nowhere        \* no binding, no nonce

ASSUME SipRegistrarAssumption ==
  /\ Open \subseteq Phone
  /\ Nonce \subseteq Nat \ {0}
  /\ Ttl \in Nat \ {0, 1} /\ NonceLife \in Nat \ {0}
  /\ TrunkTtl \in Nat \ {0} /\ Interval \in 1 .. (TrunkTtl - 1)
  /\ MaxPhoneMoves \in Nat /\ MaxMishaps \in Nat
  /\ Nowhere \notin Addr /\ Nowhere \notin Nonce

VARIABLES
  binding,       \* registrations: of each phone [addr, left], or Nowhere
  nonces,        \* SipTransport::nonces: ticks each is still good for
  phone,         \* [want, addr, nonce, sure]: sure is how long it thinks
                 \* its binding lasts
  datagrams,     \* REGISTERs and their answers on their way
  trunk,         \* TrunkState::status
  loop,          \* outbound_register_loop: where it is
  rest,          \* ticks it still sleeps
  provider,      \* how it takes a REGISTER, "none" if no trunk is set up
  held,          \* ticks it still holds our registration
  phoneMoves, mishaps

phoneVars == <<binding, nonces, phone, datagrams>>
trunkVars == <<trunk, loop, rest, provider, held>>
registrarVars == <<phoneVars, trunkVars, phoneMoves, mishaps>>

(* Phones or a trunk: neither touches anything the other has.              *)
RegistrarInit ==
  /\ binding = [p \in Phone |-> Nowhere]
  /\ nonces = [n \in Nonce |-> 0]
  /\ phone \in [Phone -> [want : {"off"}, addr : Addr, nonce : {Nowhere},
                          sure : {0}]]
  /\ datagrams = {}
  /\ trunk = "Down"
  /\ loop = "start"
  /\ rest = 0
  /\ provider \in {"none", "challenges", "open"}
  /\ held = 0
  /\ phoneMoves = IF provider = "none" THEN 0 ELSE MaxPhoneMoves
  /\ mishaps = 0

Mishap == mishaps < MaxMishaps /\ mishaps' = mishaps + 1 /\ UNCHANGED phoneMoves

PhoneMove ==
  /\ phoneMoves < MaxPhoneMoves
  /\ phoneMoves' = phoneMoves + 1
  /\ UNCHANGED <<mishaps, binding, nonces, trunkVars>>

-----------------------------------------------------------------------------
(* Phones.                                                                 *)

(* A REGISTER is a copy if nobody waits for its answer, an answer then is  *)
(* nothing (and its nonce one that nobody knows).                          *)
Awaited(p) == {d \in datagrams : d.p = p /\ ~d.copy}
Forgone(p) ==
  {IF d.p = p THEN [d EXCEPT !.copy = TRUE] ELSE d :
     d \in {e \in datagrams : e.p # p \/ e.code = 0}}

Ask(p) ==
  [p |-> p, code |-> 0, from |-> phone[p].addr, want |-> phone[p].want,
   nonce |-> phone[p].nonce, fresh |-> Nowhere, copy |-> FALSE]

Eager(p) ==
  \/ phone[p].want = "on" /\ phone[p].sure <= 1
  \/ phone[p].want = "off" /\ phone[p].sure > 0

Asks(p) ==
  /\ Eager(p) /\ Awaited(p) = {}
  /\ datagrams' = datagrams \union {Ask(p)}
  /\ UNCHANGED <<binding, nonces, phone, trunkVars, phoneMoves, mishaps>>

(* A challenged phone asks again with the new nonce.                       *)
PhoneHears(d) ==
  /\ d \in datagrams /\ d.code # 0
  /\ datagrams' = datagrams \ {d}
  /\ phone' =
       IF d.code = 401 THEN [phone EXCEPT ![d.p].nonce = d.fresh]
       ELSE [phone EXCEPT ![d.p].sure = IF d.want = "on" THEN Ttl ELSE 0]
  /\ UNCHANGED <<binding, nonces, trunkVars, phoneMoves, mishaps>>

(* It gets another address or comes back, signs off, or loses power; what  *)
(* it still waited for it waits for no more.                               *)
Becomes(p, want, addr, sure) ==
  /\ PhoneMove
  /\ phone' = [phone EXCEPT ![p] =
       [@ EXCEPT !.want = want, !.addr = addr, !.sure = sure]]
  /\ datagrams' = Forgone(p)

Arrives(p, addr) ==
  /\ phone[p].want # "on" \/ phone[p].addr # addr
  /\ Becomes(p, "on", addr, 0)

SignsOff(p) == phone[p].want = "on" /\ Becomes(p, "off", phone[p].addr, Ttl)

Vanishes(p) == phone[p].want = "on" /\ Becomes(p, "gone", phone[p].addr, 0)

-----------------------------------------------------------------------------
(* The registrar.                                                          *)

Spare == {n \in Nonce : /\ nonces[n] = 0
                        /\ \A p \in Phone : phone[p].nonce # n
                        /\ \A d \in datagrams : n \notin {d.nonce, d.fresh}}

(* Nonces older than two minutes are dropped, the others can be used again.*)
NonceValid(n) == n \in Nonce /\ nonces[n] > 0

Answer(d, code, fresh) ==
  datagrams' = (datagrams \ {d}) \union
    (IF d.copy THEN {} ELSE {[d EXCEPT !.code = code, !.fresh = fresh]})

(* handle_register.                                                        *)
HandleRegister(d) ==
  /\ d \in datagrams /\ d.code = 0
  /\ IF d.p \in Open \/ NonceValid(d.nonce)
       THEN /\ Answer(d, 200, Nowhere)
            /\ binding' = [binding EXCEPT ![d.p] =
                 IF d.want = "on" THEN [addr |-> d.from, left |-> Ttl]
                                  ELSE Nowhere]
            /\ UNCHANGED nonces
       ELSE \E n \in Spare :
            /\ \A m \in Spare : n <= m
            /\ Answer(d, 401, n)
            /\ nonces' = IF d.copy THEN nonces
                         ELSE [nonces EXCEPT ![n] = NonceLife]
            /\ UNCHANGED binding
  /\ UNCHANGED <<phone, trunkVars, phoneMoves, mishaps>>

Lookup(p) == IF binding[p] = Nowhere THEN Nowhere ELSE binding[p].addr

(* A mutant: bindings of extensions with a password stay.                  *)
EndedOpen(p) == p \in Open /\ binding[p] # Nowhere /\ binding[p].left = 0

Ended(p) == binding[p] # Nowhere /\ binding[p].left = 0

(* purge_expired.                                                          *)
PurgeExpired ==
  /\ \E p \in Phone : Ended(p)
  /\ binding' = [p \in Phone |-> IF Ended(p) THEN Nowhere ELSE binding[p]]
  /\ UNCHANGED <<nonces, phone, datagrams, trunkVars, phoneMoves, mishaps>>

Lost(d) ==
  /\ Mishap
  /\ ~d.copy
  /\ datagrams' = datagrams \ {d}
  /\ UNCHANGED <<binding, nonces, phone, trunkVars>>

(* A REGISTER comes a second time, at any later time.                      *)
Doubled(d) ==
  /\ Mishap
  /\ d.code = 0 /\ ~d.copy
  /\ datagrams' = datagrams \union {[d EXCEPT !.copy = TRUE]}
  /\ UNCHANGED <<binding, nonces, phone, trunkVars>>

-----------------------------------------------------------------------------
(* The trunk.                                                              *)

Status(status, next) == trunk' = status /\ loop' = next

(* A mutant: the default interval, as long as what is asked for.           *)
RestsLong == rest' = TrunkTtl

Rests == rest' = Interval

(* The top of the loop.                                                    *)
BeginRegister ==
  /\ provider # "none"
  /\ loop = "start" \/ (loop = "rest" /\ rest = 0)
  /\ Status("Registering", "first")
  /\ UNCHANGED <<phoneVars, rest, provider, held, phoneMoves, mishaps>>

(* What one REGISTER on a socket of its own comes back with; 0 for nothing *)
(* within three seconds, 4010 for a 401 that has no challenge.             *)
Reply(authorized) ==
  CASE provider = "open" -> 200
    [] provider = "challenges" -> IF authorized THEN 200 ELSE 401
    [] provider = "bare" -> 4010
    [] provider = "refuses" -> 403
    [] provider = "mute" -> 0

(* register_once; the reply may be lost though the provider took it.       *)
RegisterOnce(authorized, code) ==
  /\ held' = IF Reply(authorized) = 200 THEN TrunkTtl ELSE held
  /\ \/ code = Reply(authorized) /\ UNCHANGED <<mishaps, phoneMoves>>
     \/ code = 0 /\ Reply(authorized) # 0 /\ Mishap
  /\ UNCHANGED <<phoneVars, provider>>

FirstRegister(code) ==
  /\ loop = "first"
  /\ RegisterOnce(FALSE, code)
  /\ CASE code = 200 -> Status("Up", "rest") /\ Rests
       [] code = 401 -> Status(trunk, "second") /\ UNCHANGED rest
       [] code = 4010 -> Status(trunk, "rest") /\ Rests
       [] OTHER -> Status("Failed", "rest") /\ Rests

SecondRegister(code) ==
  /\ loop = "second"
  /\ RegisterOnce(TRUE, code)
  /\ Status(IF code = 200 THEN "Up" ELSE "Failed", "rest")
  /\ Rests

(* The provider fails, changes its mind, or restarts and forgets us.       *)
ProviderChanges(how) ==
  /\ Mishap
  /\ provider # "none" /\ loop # "start"
  /\ provider' = how
  /\ held' = 0
  /\ UNCHANGED <<phoneVars, trunk, loop, rest>>

-----------------------------------------------------------------------------
Less(n) == IF n = 0 THEN 0 ELSE n - 1

(* A nonce that is too old is as good as none.                             *)
Good(n) == IF n # Nowhere /\ nonces[n] > 1 THEN n ELSE Nowhere

(* Nobody waits for an answer, no phone is due, the trunk is at rest.      *)
TimePasses ==
  /\ \A p \in Phone : Awaited(p) = {} /\ ~Eager(p)
  /\ provider = "none" \/ (loop = "rest" /\ rest > 0)
  /\ binding' = [p \in Phone |->
       IF binding[p] = Nowhere THEN Nowhere
       ELSE [binding[p] EXCEPT !.left = Less(@)]]
  /\ nonces' = [n \in Nonce |-> Less(nonces[n])]
  /\ phone' = [p \in Phone |->
       [phone[p] EXCEPT !.sure = Less(@), !.nonce = Good(@)]]
  /\ datagrams' = {[d EXCEPT !.nonce = Good(@)] : d \in datagrams}
  /\ rest' = Less(rest)
  /\ held' = Less(held)
  /\ UNCHANGED <<trunk, loop, provider, phoneMoves, mishaps>>

Codes == {0, 200, 401, 403, 4010}

RegistrarNext ==
  \/ \E p \in Phone :
       \/ Asks(p) \/ SignsOff(p) \/ Vanishes(p)
       \/ \E addr \in Addr : Arrives(p, addr)
  \/ \E d \in datagrams :
       PhoneHears(d) \/ HandleRegister(d) \/ Lost(d) \/ Doubled(d)
  \/ PurgeExpired
  \/ BeginRegister
  \/ \E code \in Codes : FirstRegister(code) \/ SecondRegister(code)
  \/ \E how \in {"challenges", "open", "bare", "refuses", "mute"} :
       ProviderChanges(how)
  \/ TimePasses

(* Phones ask, datagrams that are waited for arrive, the purge task and    *)
(* the trunk's loop go on, and time passes.                                *)
RegistrarFairness ==
  /\ \A p \in Phone :
       /\ WF_registrarVars(Asks(p))
       /\ WF_registrarVars(\E d \in Awaited(p) : PhoneHears(d) \/ HandleRegister(d))
  /\ WF_registrarVars(PurgeExpired)
  /\ WF_registrarVars(BeginRegister)
  /\ WF_registrarVars(\E code \in Codes : FirstRegister(code) \/ SecondRegister(code))
  /\ WF_registrarVars(TimePasses)

RegistrarSpec ==
  RegistrarInit /\ [][RegistrarNext]_registrarVars /\ RegistrarFairness

-----------------------------------------------------------------------------
SipRegistrarTypeOK ==
  /\ \A p \in Phone : binding[p] # Nowhere =>
       binding[p].addr \in Addr /\ binding[p].left \in 0..Ttl
  /\ nonces \in [Nonce -> 0..NonceLife]
  /\ trunk \in {"Down", "Registering", "Up", "Failed"}
  /\ loop \in {"start", "first", "second", "rest"}
  /\ rest \in 0..Interval /\ held \in 0..TrunkTtl

(* In the end a call finds every phone that is on where it is, and no      *)
(* phone that is off or gone: whatever was lost, came twice or came after  *)
(* the phone had moved or signed off, and though an old nonce is refused   *)
(* (handle_register, purge_expired, lookup_registration).                  *)
BindingsFollowPhones ==
  \A p \in Phone :
    <>[](Lookup(p) = IF phone[p].want = "on" THEN phone[p].addr ELSE Nowhere)

(* A trunk whose provider takes registrations again comes up by itself,    *)
(* and then stays registered between two rounds of the loop, as long as    *)
(* they are shorter than the 300 seconds it asks for.                      *)
TrunkComesUp ==
  <>[](provider \in {"open", "challenges"} =>
         held > 0 /\ trunk \in {"Up", "Registering"})
=============================================================================
