---------------------------- MODULE ExchangeProofs ----------------------------
(***************************************************************************)
(* Proofs about Exchange, for any number of callers and admins, any limit, *)
(* window, request timeout, token lifetime and scopes watched.             *)
(***************************************************************************)
EXTENDS Exchange, MachineClientsProofs, FiniteSetTheorems

(***************************************************************************)
(* What an exchange in flight has read bounds how long ago the record      *)
(* granted what its token will carry.                                      *)
(***************************************************************************)
InFlight(e) == e.pc \in {"bump", "verify"}

BackedBy(e, time) ==
  InFlight(e) => /\ e.client.active
                 /\ ~e.stale /\ Granting(e.client) => e.began <= time

Backed == \A c \in Callers : BackedBy(exchange[c], granted)

EInv ==
  /\ IInv
  /\ ExchangeTypeOK
  /\ granted <= clock
  /\ Backed
  /\ TokensRunOut

-----------------------------------------------------------------------------
LEMMA Remembered ==
  ASSUME EInv, Remember, clock' \in Nat, clock <= clock'
  PROVE  /\ granted' \in Nat \cup {-1}
         /\ granted <= granted'
         /\ granted' <= clock'
         /\ Granting(record') => granted' = clock'
  BY DEF EInv, ExchangeTypeOK, Remember

\* What has run out by some time has run out by a later one.
LEMMA Later ==
  ASSUME NEW x \in Int, NEW y \in Int, NEW e \in Nat, NEW r \in Nat, NEW l \in Nat,
         x <= y, e > 0 => x >= 0 /\ e <= x + r + l
  PROVE  e > 0 => y >= 0 /\ e <= y + r + l
  OBVIOUS

LEMMA StillRunOut ==
  ASSUME EInv, granted' \in Nat \cup {-1}, granted <= granted', UNCHANGED expiry
  PROVE  TokensRunOut'
  <1>1. /\ expiry \in Nat /\ granted \in Int /\ granted' \in Int
        /\ RequestTimeout \in Nat /\ Lifetime \in Nat
    BY ExchangeAssumption DEF EInv, ExchangeTypeOK
  <1>2. expiry > 0 => granted' >= 0 /\ expiry <= granted' + RequestTimeout + Lifetime
    BY <1>1, Later DEF EInv, TokensRunOut
  <1> QED BY <1>2 DEF TokensRunOut

LEMMA StillBacked ==
  ASSUME EInv, granted' \in Nat \cup {-1}, granted <= granted', UNCHANGED exchange
  PROVE  Backed'
  BY DEF EInv, ExchangeTypeOK, Exchanges, Backed, BackedBy, InFlight, Granting

\* One exchange moves.
LEMMA MovedBacked ==
  ASSUME EInv, granted' \in Nat \cup {-1}, granted <= granted',
         NEW c \in Callers, NEW moved \in Exchanges,
         exchange' = [exchange EXCEPT ![c] = moved], BackedBy(moved, granted')
  PROVE  /\ Backed'
         /\ exchange' \in [Callers -> Exchanges]
         /\ exchange'[c] = moved
         /\ \A b \in Callers \ {c} : exchange'[b] = exchange[b]
  <1>1. exchange \in [Callers -> Exchanges]
    BY DEF EInv, ExchangeTypeOK
  <1>2. ASSUME NEW b \in Callers \ {c} PROVE BackedBy(exchange[b], granted')
    <2>1. BackedBy(exchange[b], granted) /\ exchange[b].began \in Nat
      BY <1>1 DEF EInv, Backed, Exchanges
    <2> QED BY <2>1 DEF BackedBy, EInv, ExchangeTypeOK
  <1> QED BY <1>1, <1>2 DEF Backed

LEMMA RestingTyped ==
  ASSUME NEW answer \in Responses
  PROVE  /\ [Resting EXCEPT !.answer = answer] \in Exchanges
         /\ \A time : BackedBy([Resting EXCEPT !.answer = answer], time)
  <1>1. NoRecord \in Records
    BY NoRecordTyped
  <1> QED BY <1>1, ExchangeAssumption
          DEF Resting, Exchanges, Responses, BackedBy, InFlight, NoSecret

\* An exchange that answers is at rest.
LEMMA Responding ==
  ASSUME EInv, granted' \in Nat \cup {-1}, granted <= granted',
         NEW c \in Callers, NEW answer \in Responses, Respond(c, answer)
  PROVE  /\ Backed'
         /\ exchange' \in [Callers -> Exchanges]
         /\ exchange'[c].pc = "idle"
         /\ \A b \in Callers \ {c} : exchange'[b] = exchange[b]
  <1> DEFINE moved == [Resting EXCEPT !.answer = answer]
  <1>1. moved \in Exchanges /\ BackedBy(moved, granted') /\ moved.pc = "idle"
    BY RestingTyped DEF Resting
  <1>2. exchange' = [exchange EXCEPT ![c] = moved]
    BY DEF Respond
  <1> QED BY <1>1, <1>2, MovedBacked

-----------------------------------------------------------------------------
LEMMA InitEInv == ExchangeInit => EInv
  <1> SUFFICES ASSUME ExchangeInit PROVE EInv
    OBVIOUS
  <1>1. IInv
    BY InitIInv DEF ExchangeInit
  <1>2. Resting \in Exchanges /\ Resting.pc = "idle"
    BY NoRecordTyped, ExchangeAssumption DEF Resting, Exchanges, Responses, NoSecret
  <1>3. ExchangeTypeOK
    BY <1>2 DEF ExchangeInit, Window!Init, ExchangeTypeOK
  <1>4. Backed
    BY <1>2 DEF ExchangeInit, Backed, BackedBy, InFlight
  <1> QED BY <1>1, <1>3, <1>4 DEF EInv, ExchangeInit, Window!Init, TokensRunOut

\* An admin's step leaves the exchanges and the limiter alone.
LEMMA AdminEInv == EInv /\ [Next]_vars /\ UNCHANGED own /\ Remember => EInv'
  <1> SUFFICES ASSUME EInv, [Next]_vars, UNCHANGED own, Remember PROVE EInv'
    OBVIOUS
  <1>1. UNCHANGED <<exchange, call, clock, windows, left, sweeps, compared, expiry>>
    BY DEF own, limiter
  <1>2. /\ granted' \in Nat \cup {-1} /\ granted <= granted' /\ granted' <= clock'
    BY <1>1, Remembered DEF EInv, ExchangeTypeOK
  <1>3. IInv'
    BY NextIInv DEF EInv
  <1>4. ExchangeTypeOK'
    BY <1>1, <1>2 DEF EInv, ExchangeTypeOK
  <1> QED BY <1>1, <1>2, <1>3, <1>4, StillBacked, StillRunOut DEF EInv

-----------------------------------------------------------------------------
(***************************************************************************)
(* A step of one exchange: it moves, and with it its call of the limiter.  *)
(***************************************************************************)
Calling == {"idle", "asking"} \cup Window!Answers

LEMMA CallerEInv ==
  ASSUME EInv, Remember, UNCHANGED vars, UNCHANGED <<clock, sweeps>>,
         NEW c \in Callers, NEW moved \in Exchanges,
         exchange' = [exchange EXCEPT ![c] = moved], BackedBy(moved, granted'),
         call' \in [Callers -> Calling], \A b \in Callers \ {c} : call'[b] = call[b],
         moved.pc = "bump" <=> call'[c] = "asking",
         windows' \in Nat, left' \in Nat, compared' \in Nat, expiry' \in Nat,
         TokensRunOut'
  PROVE  EInv'
  <1>1. /\ granted' \in Nat \cup {-1} /\ granted <= granted' /\ granted' <= clock'
        /\ clock' \in Nat /\ sweeps' \in Nat
    BY Remembered DEF EInv, ExchangeTypeOK
  <1>2. /\ Backed' /\ exchange' \in [Callers -> Exchanges] /\ exchange'[c] = moved
        /\ \A b \in Callers \ {c} : exchange'[b] = exchange[b]
    BY <1>1, MovedBacked
  <1>3. IInv'
    BY NextIInv DEF EInv
  <1>4. \A b \in Callers : exchange'[b].pc = "bump" <=> call'[b] = "asking"
    BY <1>2 DEF EInv, ExchangeTypeOK
  <1>5. ExchangeTypeOK'
    BY <1>1, <1>2, <1>4 DEF ExchangeTypeOK, Calling
  <1> QED BY <1>1, <1>2, <1>3, <1>5 DEF EInv

\* A step that leaves the tokens alone.
LEMMA TokenlessEInv ==
  ASSUME EInv, Remember, UNCHANGED vars, UNCHANGED <<clock, sweeps, expiry>>,
         NEW c \in Callers, NEW moved \in Exchanges,
         exchange' = [exchange EXCEPT ![c] = moved], BackedBy(moved, granted'),
         call' \in [Callers -> Calling], \A b \in Callers \ {c} : call'[b] = call[b],
         moved.pc = "bump" <=> call'[c] = "asking",
         windows' \in Nat, left' \in Nat, compared' \in Nat
  PROVE  EInv'
  <1>1. /\ granted' \in Nat \cup {-1} /\ granted <= granted' /\ expiry' \in Nat
    BY Remembered DEF EInv, ExchangeTypeOK
  <1>2. TokensRunOut'
    BY <1>1, StillRunOut
  <1> QED BY <1>1, <1>2, CallerEInv

LEMMA Calls == EInv => /\ exchange \in [Callers -> Exchanges]
                       /\ call \in [Callers -> Calling]
                       /\ windows \in Nat /\ left \in Nat /\ compared \in Nat
  BY DEF EInv, ExchangeTypeOK, Calling

LEMMA Replied ==
  ASSUME EInv, NEW c \in Callers, NEW answer \in {"asking"} \cup Window!Answers,
         Window!Reply(c, answer)
  PROVE  /\ call' \in [Callers -> Calling] /\ call'[c] = answer
         /\ \A b \in Callers \ {c} : call'[b] = call[b]
         /\ UNCHANGED <<clock, sweeps>>
  BY Calls DEF Window!Reply, Calling

LEMMA Slotted ==
  ASSUME EInv, Window!OpenWindow \/ Window!TakeSlot
  PROVE  windows' \in Nat /\ left' \in Nat
  BY Calls, ExchangeAssumption DEF Window!OpenWindow, Window!TakeSlot

LEMMA SnapshotTyped == ASSUME EInv, NEW r \in Snapshots PROVE r \in Records
  BY DEF EInv, IInv, TypeOK, Snapshots

\* The record is read: what it grants now backs the exchange.
LEMMA LookupEInv ==
  ASSUME EInv, Remember, UNCHANGED vars, NEW c \in Callers, Lookup(c)
  PROVE  EInv'
  <1>1. PICK secret \in {NoSecret, inUse, Watched[3]}, audience \in Audiences, r \in Snapshots :
          IF Usable(r)
            THEN /\ exchange' = [exchange EXCEPT ![c] =
                      [pc |-> "bump", secret |-> secret, audience |-> audience,
                       client |-> r, began |-> clock, answer |-> "none",
                       stale |-> r # record,
                       revoked |-> Exists(record) /\ ~record.active,
                       entitled |-> /\ inUse # NoSecret /\ secret = inUse
                                    /\ record.active
                                    /\ audience \in DOMAIN record.audiences]]
                 /\ Window!Ask(c)
            ELSE Respond(c, "401") /\ UNCHANGED limiter
    BY DEF Lookup
  <1>2. UNCHANGED <<compared, expiry>> /\ exchange[c].pc = "idle"
    BY DEF Lookup
  <1>3. CASE Usable(r)
    <2> DEFINE moved == [pc |-> "bump", secret |-> secret, audience |-> audience,
                         client |-> r, began |-> clock, answer |-> "none",
                         stale |-> r # record,
                         revoked |-> Exists(record) /\ ~record.active,
                         entitled |-> /\ inUse # NoSecret /\ secret = inUse
                                      /\ record.active
                                      /\ audience \in DOMAIN record.audiences]
    <2>1. exchange' = [exchange EXCEPT ![c] = moved] /\ Window!Ask(c)
      BY <1>1, <1>3
    <2>2. secret \in Nat /\ r \in Records /\ clock \in Nat
      BY SnapshotTyped, ExchangeAssumption DEF EInv, IInv, TypeOK, ExchangeTypeOK, NoSecret
    <2>3. moved \in Exchanges
      <3> HIDE DEF moved
      <3> QED BY <2>2, Zenon DEF moved, Exchanges, Responses
    <2>4. /\ UNCHANGED <<clock, sweeps, windows, left>>
          /\ call' \in [Callers -> Calling] /\ call'[c] = "asking"
          /\ \A b \in Callers \ {c} : call'[b] = call[b]
      BY <2>1, Calls DEF Window!Ask, Calling
    <2>5. BackedBy(moved, granted')
      <3>1. r.active
        BY <1>3 DEF Usable
      <3>2. ASSUME ~moved.stale, Granting(r) PROVE clock <= granted'
        <4>1. r = record /\ record' = record /\ clock' = clock
          BY <2>4, <3>2 DEF vars
        <4>2. granted' = clock
          BY <3>2, <4>1, Remembered DEF Remember
        <4> QED BY <2>2, <4>2
      <3> QED BY <3>1, <3>2 DEF BackedBy
    <2>6. moved.pc = "bump"
      OBVIOUS
    <2> HIDE DEF moved
    <2> QED BY <1>2, <2>1, <2>3, <2>4, <2>5, <2>6, Calls, TokenlessEInv
  <1>4. CASE ~Usable(r)
    <2>1. Respond(c, "401") /\ UNCHANGED <<clock, sweeps, windows, left, call>>
      BY <1>1, <1>4 DEF limiter
    <2>2. call[c] # "asking"
      BY <1>2 DEF EInv, ExchangeTypeOK
    <2> QED BY <1>2, <2>1, <2>2, Calls, RestingTyped, TokenlessEInv
            DEF Respond, Responses, Resting
  <1> QED BY <1>3, <1>4

\* An exchange that ends here gives its call up, or had none.
LEMMA RestEInv ==
  ASSUME EInv, Remember, UNCHANGED vars, UNCHANGED <<clock, sweeps, expiry>>,
         NEW c \in Callers, NEW answer \in Responses, Respond(c, answer),
         call' \in [Callers -> Calling], \A b \in Callers \ {c} : call'[b] = call[b],
         call'[c] # "asking", windows' \in Nat, left' \in Nat, compared' \in Nat
  PROVE  EInv'
  <1>1. [Resting EXCEPT !.answer = answer].pc # "bump"
    BY DEF Resting
  <1> QED BY <1>1, RestingTyped, TokenlessEInv DEF Respond

LEMMA RefusedEInv ==
  ASSUME EInv, Remember, UNCHANGED vars, NEW c \in Callers, Refused(c)
  PROVE  EInv'
  <1>1. call[c] # "asking"
    BY DEF Refused, EInv, ExchangeTypeOK
  <1> QED BY <1>1, Calls, RestEInv DEF Refused, Responses, limiter

LEMMA BumpEInv ==
  ASSUME EInv, Remember, UNCHANGED vars, NEW c \in Callers, Bump(c)
  PROVE  EInv'
  <1>1. UNCHANGED <<compared, expiry>> /\ exchange[c] \in Exchanges /\ exchange[c].pc = "bump"
    BY Calls DEF Bump
  <1>2. BackedBy(exchange[c], granted')
    <2>1. granted' \in Nat \cup {-1} /\ granted <= granted'
      <3>1. clock' = clock
        BY DEF Bump, LetThrough, Window!Admit, Window!Refuse, Window!Fail,
               Window!Forfeit, Window!Reply
      <3> QED BY <3>1, Remembered DEF EInv, ExchangeTypeOK
    <2> QED BY <2>1 DEF EInv, ExchangeTypeOK, Exchanges, Backed, BackedBy
  <1>3. CASE LetThrough(c) /\ exchange' = [exchange EXCEPT ![c].pc = "verify"]
    <2> DEFINE moved == [exchange[c] EXCEPT !.pc = "verify"]
    <2>1. /\ moved \in Exchanges /\ moved.pc = "verify"
          /\ exchange' = [exchange EXCEPT ![c] = moved]
      BY <1>1, <1>3, Calls DEF Exchanges
    <2>2. BackedBy(moved, granted')
      BY <1>1, <1>2 DEF BackedBy, InFlight, Exchanges
    <2>3. Window!Reply(c, "admitted") /\ (Window!OpenWindow \/ Window!TakeSlot)
      BY <1>3 DEF LetThrough, Window!Admit
    <2>4. /\ call' \in [Callers -> Calling] /\ call'[c] = "admitted"
          /\ \A b \in Callers \ {c} : call'[b] = call[b]
          /\ UNCHANGED <<clock, sweeps>> /\ windows' \in Nat /\ left' \in Nat
      BY <2>3, Replied, Slotted DEF Window!Answers
    <2> HIDE DEF moved
    <2>5. compared' \in Nat /\ UNCHANGED expiry /\ ~(moved.pc = "bump")
      BY <1>1, <2>1, Calls
    <2> QED BY <2>1, <2>2, <2>4, <2>5, TokenlessEInv
  <1>4. CASE Window!Refuse(c) /\ Respond(c, "429")
    BY <1>1, <1>4, Calls, Replied, RestEInv DEF Window!Refuse, Window!Answers, Responses
  <1>5. CASE Window!Fail(c) /\ Respond(c, "500")
    BY <1>1, <1>5, Calls, Replied, RestEInv DEF Window!Fail, Window!Answers, Responses
  <1>6. CASE Window!Forfeit(c) /\ IF call'[c] = "error" THEN Respond(c, "500")
                                                       ELSE UNCHANGED exchange
    <2>1. windows' \in Nat /\ left' \in Nat
      BY <1>6, Slotted DEF Window!Forfeit
    <2>2. CASE Window!Reply(c, "error")
      BY <1>1, <1>6, <2>1, <2>2, Calls, Replied, RestEInv DEF Window!Answers, Responses
    <2>3. CASE Window!Reply(c, "asking")
      <3>1. exchange' = [exchange EXCEPT ![c] = exchange[c]]
        BY <1>6, <2>3, Calls, Replied
      <3> QED BY <1>1, <1>2, <2>1, <2>3, <3>1, Calls, Replied, TokenlessEInv
    <2> QED BY <1>6, <2>2, <2>3 DEF Window!Forfeit
  <1> QED BY <1>3, <1>4, <1>5, <1>6 DEF Bump

\* The token carries what the record granted after the exchange began, and the
\* exchange is not older than RequestTimeout.
LEMMA VerifyEInv ==
  ASSUME EInv, Remember, UNCHANGED vars, NEW c \in Callers, Verify(c)
  PROVE  EInv'
  <1> DEFINE e == exchange[c]
             scopes == e.client.audiences
  <1>1. /\ e \in Exchanges /\ e.pc = "verify" /\ InTime(c)
        /\ UNCHANGED <<call, clock, windows, left, sweeps>>
        /\ call[c] # "asking" /\ compared' \in Nat
    BY Calls DEF Verify, limiter, EInv, ExchangeTypeOK
  <1>2. /\ granted' \in Nat \cup {-1} /\ granted <= granted'
        /\ clock \in Nat /\ expiry \in Nat /\ RequestTimeout \in Nat /\ Lifetime \in Nat
    BY <1>1, Remembered, ExchangeAssumption DEF EInv, ExchangeTypeOK
  <1>3. CASE UNCHANGED expiry
    <2>1. \E answer \in Responses : Respond(c, answer)
      BY DEF Verify, Responses
    <2> QED BY <1>1, <1>3, <2>1, Calls, RestEInv
  <1>4. CASE expiry' # expiry
    <2>1. /\ Respond(c, "200") /\ expiry' = clock + Lifetime
          /\ ~e.stale /\ e.audience \in DOMAIN scopes
          /\ VerifySecret(e.client.rounds, e.secret)
          /\ Watched = <<e.audience, scopes[e.audience], e.secret>>
      BY <1>4 DEF Verify
    <2>2. e.began <= granted /\ e.began \in Nat
      <3>1. BackedBy(e, granted)
        BY DEF EInv, Backed
      <3>2. e.client.active
        BY <1>1, <3>1 DEF BackedBy, InFlight
      <3>3. Watched[1] = e.audience /\ Watched[2] = scopes[e.audience] /\ Watched[3] = e.secret
        BY <2>1
      <3>4. Granting(e.client)
        BY <2>1, <3>2, <3>3 DEF Granting
      <3> QED BY <1>1, <2>1, <3>1, <3>4 DEF BackedBy, InFlight, Exchanges
    <2>3. clock <= e.began + RequestTimeout
      BY <1>1 DEF InTime
    <2>4. expiry' \in Nat /\ granted' >= 0 /\ expiry' <= granted' + RequestTimeout + Lifetime
      <3>1. granted \in Int /\ granted' \in Int
        BY <1>2, <2>2 DEF EInv, ExchangeTypeOK
      <3> DEFINE before == granted
                 after == granted'
      <3>2. /\ before \in Int /\ after \in Int /\ before <= after
            /\ e.began \in Nat /\ e.began <= before
        BY <1>2, <2>2, <3>1
      <3>3. /\ clock + Lifetime \in Nat /\ after >= 0
            /\ clock + Lifetime <= after + RequestTimeout + Lifetime
        <4> HIDE DEF e, before, after
        <4> QED BY <1>2, <2>3, <3>2
      <3> QED BY <2>1, <3>3
    <2>5. TokensRunOut'
      BY <2>4 DEF TokensRunOut
    <2>6. [Resting EXCEPT !.answer = "200"].pc # "bump"
      BY DEF Resting
    <2> QED BY <1>1, <2>1, <2>4, <2>5, <2>6, Calls, RestingTyped, CallerEInv
            DEF Respond, Responses
  <1> QED BY <1>3, <1>4

LEMMA CutEInv ==
  ASSUME EInv, Remember, UNCHANGED vars, NEW c \in Callers, Cut(c)
  PROVE  EInv'
  <1>1. Respond(c, "500") /\ UNCHANGED <<compared, expiry>>
    BY DEF Cut
  <1>2. CASE exchange[c].pc = "bump"
    BY <1>1, <1>2, Calls, Replied, RestEInv DEF Cut, Window!Fail, Window!Answers, Responses
  <1>3. CASE exchange[c].pc # "bump"
    <2>1. UNCHANGED <<call, clock, windows, left, sweeps>> /\ call[c] # "asking"
      BY <1>3 DEF Cut, limiter, EInv, ExchangeTypeOK
    <2> QED BY <1>1, <2>1, Calls, RestEInv DEF Responses
  <1> QED BY <1>2, <1>3

\* Time passes, or the TTL process takes the window away.
LEMMA TimeEInv ==
  ASSUME EInv, Remember, UNCHANGED vars, WindowSweep \/ Tick
  PROVE  EInv'
  <1>1. /\ UNCHANGED <<exchange, call, windows, compared, expiry>>
        /\ clock' \in Nat /\ clock <= clock' /\ left' \in Nat /\ sweeps' \in Nat
    BY DEF WindowSweep, Tick, Window!Sweep, Window!Tick, EInv, ExchangeTypeOK
  <1>2. /\ granted' \in Nat \cup {-1} /\ granted <= granted' /\ granted' <= clock'
    BY <1>1, Remembered
  <1>3. IInv'
    BY NextIInv DEF EInv
  <1>4. ExchangeTypeOK'
    BY <1>1, <1>2 DEF EInv, ExchangeTypeOK
  <1> QED BY <1>1, <1>2, <1>3, <1>4, StillBacked, StillRunOut DEF EInv

LEMMA NextEInv == EInv /\ [ExchangeNext]_allVars => EInv'
  <1> SUFFICES ASSUME EInv, [ExchangeNext]_allVars PROVE EInv'
    OBVIOUS
  <1>1. CASE Next /\ UNCHANGED own /\ Remember
    BY <1>1, AdminEInv
  <1>2. CASE (\E c \in Callers : ExchangeStep(c)) /\ UNCHANGED vars /\ Remember
    BY <1>2, LookupEInv, RefusedEInv, BumpEInv, VerifyEInv, CutEInv DEF ExchangeStep
  <1>3. CASE (WindowSweep \/ Tick) /\ UNCHANGED vars /\ Remember
    BY <1>3, TimeEInv
  <1>4. CASE UNCHANGED allVars
    <2>1. /\ UNCHANGED <<exchange, call, clock, windows, left, sweeps, compared, expiry, granted>>
          /\ UNCHANGED vars
      BY <1>4 DEF allVars, own, limiter
    <2>2. IInv'
      BY <2>1, NextIInv DEF EInv
    <2>3. granted \in Nat \cup {-1} /\ granted <= granted'
      BY <2>1 DEF EInv, ExchangeTypeOK
    <2>4. ExchangeTypeOK'
      BY <2>1 DEF EInv, ExchangeTypeOK
    <2> QED BY <2>1, <2>2, <2>3, <2>4, StillBacked, StillRunOut DEF EInv
  <1> QED BY <1>1, <1>2, <1>3, <1>4 DEF ExchangeNext

\* The inductive invariant holds throughout.
THEOREM ExchangeInductive == ExchangeSpec => []EInv
  BY InitEInv, NextEInv, PTL DEF ExchangeSpec

\* The exchanges and the limiter keep their shape (Exchange).
THEOREM ExchangeTypeCorrect == ExchangeSpec => []ExchangeTypeOK
  <1>1. EInv => ExchangeTypeOK
    BY DEF EInv
  <1> QED BY <1>1, ExchangeInductive, PTL

\* Once a client has lost some scopes, by a revocation or an update, the tokens
\* that carry them are gone after Lifetime and the time of one request, whichever
\* exchanges were under way (RevokeClient, UpdateClient, Exchange).
THEOREM TokensAreGone == ExchangeSpec => []TokensRunOut
  <1>1. EInv => TokensRunOut
    BY DEF EInv
  <1> QED BY <1>1, ExchangeInductive, PTL

-----------------------------------------------------------------------------
(***************************************************************************)
(* Every comparison of a secret is paid for by a slot: those made, those   *)
(* about to be made, and the slots that are left are no more than all the  *)
(* slots there were.                                                       *)
(***************************************************************************)
Verifying == {c \in Callers : exchange[c].pc = "verify"}

PaidFor == compared + Cardinality(Verifying) + left <= Limit * windows

OnTime == windows * Duration <= clock + Duration + sweeps * (Duration + RequestTimeout)

SlotInv == PaidFor /\ OnTime

\* Verifying changes with the exchange that moves.
LEMMA VerifyingMoves ==
  ASSUME EInv, NEW c \in Callers, exchange' \in [Callers -> Exchanges],
         \A b \in Callers \ {c} : exchange'[b] = exchange[b]
  PROVE  /\ Cardinality(Verifying) \in Nat /\ Cardinality(Verifying') \in Nat
         /\ Cardinality(Verifying') = Cardinality(Verifying)
              + (IF exchange'[c].pc = "verify" THEN 1 ELSE 0)
              - (IF exchange[c].pc = "verify" THEN 1 ELSE 0)
  <1> DEFINE old == Verifying
             new == Verifying'
  <1>1. exchange \in [Callers -> Exchanges]
    BY Calls
  <1>2. new = IF exchange'[c].pc = "verify" THEN old \cup {c} ELSE old \ {c}
    BY <1>1 DEF Verifying
  <1>3. IsFiniteSet(old) /\ (c \in old <=> exchange[c].pc = "verify")
    <2>1. old \in SUBSET Callers
      BY DEF Verifying
    <2> QED BY <2>1, FS_Subset, ExchangeAssumption DEF Verifying
  <1>4. Cardinality(old) \in Nat
    BY <1>3, FS_CardinalityType
  <1> HIDE DEF old, new
  <1>5. Cardinality(old \cup {c}) = IF c \in old THEN Cardinality(old) ELSE Cardinality(old) + 1
    BY <1>3, FS_AddElement
  <1>6. Cardinality(old \ {c}) = IF c \in old THEN Cardinality(old) - 1 ELSE Cardinality(old)
    BY <1>3, FS_RemoveElement
  <1>7. IsFiniteSet(new)
    BY <1>2, <1>3, FS_AddElement, FS_RemoveElement
  <1>8. Cardinality(new) \in Nat
    BY <1>7, FS_CardinalityType
  <1>9. Cardinality(new) = Cardinality(old) + (IF exchange'[c].pc = "verify" THEN 1 ELSE 0)
                                            - (IF exchange[c].pc = "verify" THEN 1 ELSE 0)
    BY <1>2, <1>3, <1>4, <1>5, <1>6
  <1> QED BY <1>4, <1>8, <1>9 DEF old, new

\* The arithmetic of a slot: n comparisons, made or to come, and what is left.
LEMMA SlotSpent ==
  ASSUME NEW n \in Nat, NEW l \in Nat, NEW w \in Nat, n + l <= Limit * w
  PROVE  /\ Limit * w \in Nat
         /\ l > 0 => n + 1 + (l - 1) <= Limit * w
         /\ n + 1 + (Limit - 1) <= Limit * (w + 1)
         /\ n + 1 <= Limit * (w + 1)
  <1>1. Limit \in Nat
    BY ExchangeAssumption
  <1>2. Limit * (w + 1) = Limit * w + Limit /\ Limit * w \in Nat
    BY <1>1
  <1> QED BY <1>1, <1>2, ExchangeAssumption

LEMMA SlotTypes == EInv => /\ clock \in Nat /\ sweeps \in Nat /\ windows \in Nat
                           /\ left \in Nat /\ compared \in Nat
                           /\ Limit \in Nat \ {0} /\ Duration \in Nat \ {0}
                           /\ RequestTimeout \in Nat
  BY ExchangeAssumption DEF EInv, ExchangeTypeOK

\* A step of one exchange that compares no more than it had a slot for.
LEMMA SlotKept ==
  ASSUME EInv, SlotInv, NEW c \in Callers, EInv', UNCHANGED <<clock, sweeps>>,
         \A b \in Callers \ {c} : exchange'[b] = exchange[b],
         \/ /\ UNCHANGED <<windows, left>>
            /\ \/ compared' = compared /\ exchange'[c].pc # "verify"
               \/ /\ compared' \in {compared, compared + 1}
                  /\ exchange[c].pc = "verify" /\ exchange'[c].pc # "verify"
         \/ /\ Window!OpenWindow \/ Window!TakeSlot
            /\ compared' = compared /\ exchange[c].pc # "verify"
  PROVE  SlotInv'
  <1> DEFINE n == compared + Cardinality(Verifying)
             m == (compared + Cardinality(Verifying))'
             spare == left
             spare2 == left'
             w == windows
             w2 == windows'
  <1>1. exchange' \in [Callers -> Exchanges]
    BY DEF EInv, ExchangeTypeOK
  <1>2. /\ n \in Nat /\ m \in Nat /\ spare \in Nat /\ spare2 \in Nat
        /\ w \in Nat /\ w2 \in Nat
    BY <1>1, VerifyingMoves, SlotTypes DEF EInv, ExchangeTypeOK
  <1>3. n + spare <= Limit * w
    BY DEF SlotInv, PaidFor
  <1>4. \/ w2 = w /\ spare2 = spare /\ m <= n
        \/ w2 = w + 1 /\ spare2 = Limit - 1 /\ m <= n + 1
        \/ w2 = w /\ spare > 0 /\ spare2 = spare - 1 /\ m <= n + 1
    <2>1. /\ Cardinality(Verifying) \in Nat /\ Cardinality(Verifying') \in Nat
          /\ Cardinality(Verifying') = Cardinality(Verifying)
               + (IF exchange'[c].pc = "verify" THEN 1 ELSE 0)
               - (IF exchange[c].pc = "verify" THEN 1 ELSE 0)
          /\ compared \in Nat
      BY <1>1, VerifyingMoves, SlotTypes
    <2> QED BY <2>1 DEF Window!OpenWindow, Window!TakeSlot
  <1>5. m + spare2 <= Limit * w2
    <2> HIDE DEF n, m, spare, spare2, w, w2
    <2>1. Limit \in Nat \ {0}
      BY ExchangeAssumption
    <2> QED BY <1>2, <1>3, <1>4, <2>1, SlotSpent
  <1>6. OnTime'
    BY DEF SlotInv, OnTime, Window!OpenWindow, Window!TakeSlot, Window!Due
  <1> QED BY <1>5, <1>6 DEF SlotInv, PaidFor

\* A step that no exchange takes.
LEMMA SlotQuiet ==
  ASSUME EInv, SlotInv, EInv', UNCHANGED <<exchange, compared, windows>>,
         clock <= clock', sweeps' \in {sweeps, sweeps + 1}, left' \in {left, 0}
  PROVE  SlotInv'
  <1> DEFINE n == compared + Cardinality(Verifying)
             spare == left
             spare2 == left'
             slots == Limit * windows
             time == clock
             time2 == clock'
             lag == Duration + RequestTimeout
             deleted == sweeps
             deleted2 == sweeps'
             paced == windows * Duration
  <1>1. /\ spare \in Nat /\ spare2 \in {spare, 0} /\ n + spare <= slots
        /\ time \in Nat /\ time2 \in Nat /\ time <= time2 /\ lag \in Nat
        /\ deleted \in Nat /\ deleted2 \in {deleted, deleted + 1}
        /\ Duration \in Nat /\ slots \in Nat /\ paced \in Nat
        /\ paced <= time + Duration + deleted * lag
    BY SlotTypes DEF SlotInv, PaidFor, OnTime, EInv, ExchangeTypeOK
  <1>2. n \in Nat
    <2>1. Verifying \in SUBSET Callers
      BY DEF Verifying
    <2>2. Cardinality(Verifying) \in Nat
      BY <2>1, FS_Subset, FS_CardinalityType, ExchangeAssumption
    <2> QED BY <2>2, SlotTypes
  <1>3. n + spare2 <= slots
    <2> HIDE DEF n, spare, spare2, slots
    <2> QED BY <1>1, <1>2
  <1>4. paced <= time2 + Duration + deleted2 * lag
    <2> HIDE DEF paced, time, time2, deleted, deleted2, lag
    <2>1. deleted * lag <= deleted2 * lag /\ deleted * lag \in Nat /\ deleted2 * lag \in Nat
      <3>1. (deleted + 1) * lag = deleted * lag + lag /\ deleted * lag \in Nat
        BY <1>1
      <3> QED BY <1>1, <3>1
    <2> QED BY <1>1, <2>1
  <1> QED BY <1>3, <1>4 DEF SlotInv, PaidFor, OnTime, Verifying

LEMMA NextSlot == EInv /\ SlotInv /\ EInv' /\ [ExchangeNext]_allVars => SlotInv'
  <1> SUFFICES ASSUME EInv, SlotInv, EInv', [ExchangeNext]_allVars PROVE SlotInv'
    OBVIOUS
  <1>1. CASE UNCHANGED own
    <2>1. UNCHANGED <<exchange, compared, windows, clock, sweeps, left>>
      BY <1>1 DEF own, limiter
    <2> QED BY <2>1, SlotQuiet, SlotTypes
  <1>2. CASE WindowSweep \/ Tick
    <2>1. /\ UNCHANGED <<exchange, compared, windows>> /\ clock <= clock'
          /\ sweeps' \in {sweeps, sweeps + 1} /\ left' \in {left, 0}
      BY <1>2, SlotTypes DEF WindowSweep, Tick, Window!Sweep, Window!Tick
    <2> QED BY <2>1, SlotQuiet
  <1>3. ASSUME NEW c \in Callers, ExchangeStep(c) PROVE SlotInv'
    <2>1. exchange \in [Callers -> Exchanges]
      BY Calls
    <2>2. ASSUME NEW answer, Respond(c, answer)
          PROVE  /\ exchange'[c].pc = "idle"
                 /\ \A b \in Callers \ {c} : exchange'[b] = exchange[b]
      BY <2>1, <2>2 DEF Respond, Resting
    <2>3. CASE Lookup(c)
      <3>1. /\ exchange'[c].pc # "verify" /\ compared' = compared
            /\ \A b \in Callers \ {c} : exchange'[b] = exchange[b]
            /\ UNCHANGED <<clock, sweeps, windows, left>>
        BY <2>1, <2>2, <2>3 DEF Lookup, Window!Ask, limiter
      <3> QED BY <3>1, SlotKept
    <2>4. CASE Refused(c)
      BY <2>2, <2>4, SlotKept DEF Refused, limiter
    <2>5. CASE Bump(c)
      <3>1. exchange[c].pc # "verify" /\ compared' = compared
        BY <2>5 DEF Bump
      <3>2. CASE LetThrough(c) /\ exchange' = [exchange EXCEPT ![c].pc = "verify"]
        BY <2>1, <3>1, <3>2, SlotKept DEF LetThrough, Window!Admit, Window!Reply
      <3>3. CASE (Window!Refuse(c) \/ Window!Fail(c)) /\ exchange'[c].pc = "idle"
                   /\ \A b \in Callers \ {c} : exchange'[b] = exchange[b]
        BY <3>1, <3>3, SlotKept DEF Window!Refuse, Window!Fail, Window!Reply
      <3>4. CASE Window!Forfeit(c) /\ \A b \in Callers \ {c} : exchange'[b] = exchange[b]
        BY <3>1, <3>4, SlotKept DEF Window!Forfeit, Window!Reply
      <3> QED BY <2>2, <2>5, <3>2, <3>3, <3>4 DEF Bump
    <2>6. CASE Verify(c)
      <3>1. /\ compared' \in {compared, compared + 1} /\ exchange[c].pc = "verify"
            /\ UNCHANGED <<clock, sweeps, windows, left>>
        BY <2>6 DEF Verify, limiter
      <3>2. \E answer : Respond(c, answer)
        BY <2>6 DEF Verify
      <3> QED BY <2>2, <3>1, <3>2, SlotKept
    <2>7. CASE Cut(c)
      <3>1. /\ UNCHANGED <<clock, sweeps, windows, left, compared>> /\ Respond(c, "500")
        BY <2>7 DEF Cut, Window!Fail, Window!Reply, limiter
      <3> QED BY <2>2, <3>1, SlotKept
    <2> QED BY <1>3, <2>3, <2>4, <2>5, <2>6, <2>7 DEF ExchangeStep
  <1> QED BY <1>1, <1>2, <1>3 DEF ExchangeNext, allVars

\* Guesses at a client's secret are held to the rate of the limiter, however many
\* callers exchange at once and however their calls fail or are cut (Exchange).
THEOREM GuessesHeld == ExchangeSpec => []GuessesLimited
  <1>1. ExchangeInit => SlotInv
    <2> SUFFICES ASSUME ExchangeInit PROVE SlotInv
      OBVIOUS
    <2>1. Verifying = {}
      BY DEF ExchangeInit, Resting, Verifying
    <2> QED BY <2>1, FS_EmptySet, ExchangeAssumption
            DEF ExchangeInit, Window!Init, SlotInv, PaidFor, OnTime
  <1>2. EInv /\ SlotInv => GuessesLimited
    <2> SUFFICES ASSUME EInv, SlotInv PROVE GuessesLimited
      OBVIOUS
    <2> DEFINE slots == windows * Duration
               time == clock + Duration + sweeps * (Duration + RequestTimeout)
    <2>1. compared <= Limit * windows
      <3>1. Verifying \in SUBSET Callers
        BY DEF Verifying
      <3>2. Cardinality(Verifying) \in Nat
        BY <3>1, FS_Subset, FS_CardinalityType, ExchangeAssumption
      <3> QED BY <3>2, SlotTypes DEF SlotInv, PaidFor
    <2>2. compared * Duration <= (Limit * windows) * Duration
      BY <2>1, SlotTypes
    <2>3. (Limit * windows) * Duration = Limit * slots
      BY SlotTypes
    <2>4. Limit * slots <= Limit * time
      <3>1. slots <= time /\ slots \in Nat /\ time \in Nat
        BY SlotTypes DEF SlotInv, OnTime
      <3> HIDE DEF slots, time
      <3> QED BY <3>1, SlotTypes
    <2> QED BY <2>2, <2>3, <2>4, SlotTypes DEF GuessesLimited
  <1> QED BY <1>1, <1>2, NextSlot, ExchangeInductive, PTL DEF ExchangeSpec
-----------------------------------------------------------------------------
(***************************************************************************)
(* A caller with the delivered secret is served while a single admin works *)
(* on the client, whatever the callers, the window, the clock and stale    *)
(* reads of others do.  One admin is between two deliveries at any time,   *)
(* so at most one secret has been written since the one in use: it is the  *)
(* newest round or the one before.                                         *)
(***************************************************************************)

Newest == history[Len(history)]

Delivered ==
  /\ \A a \in Admins : Given(a) => Len(history) > 0 /\ request[a].secret = Newest
  /\ inUse # NoSecret =>
       \/ Len(history) > 0 /\ inUse = Newest
       \/ /\ Len(history) > 1 /\ inUse = history[Len(history) - 1]
          /\ \E a \in Admins : Given(a)

Unanswered(e) == InFlight(e) => e.answer = "none"

WellRead(e) ==
  InFlight(e) /\ e.entitled /\ ~e.stale =>
    /\ VerifySecret(e.client.rounds, e.secret)
    /\ e.audience \in DOMAIN e.client.audiences

Calm == OneAdmin /\ MaxSecretRounds > 1 /\ lost = 0

ServedInv ==
  /\ \A c \in Callers : Unanswered(exchange[c])
  /\ Calm => Delivered /\ \A c \in Callers : WellRead(exchange[c])

-----------------------------------------------------------------------------
LEMMA HistoryTyped ==
  ASSUME IInv
  PROVE  /\ history \in Seq(Secrets) /\ Len(history) \in Nat
         /\ request \in [Admins -> Requests]
         /\ lost \in Nat
  BY DEF IInv, TypeOK

\* The secret in use is accepted.
LEMMA DeliveredAccepted ==
  ASSUME IInv, Delivered, MaxSecretRounds > 1, inUse # NoSecret
  PROVE  VerifySecret(record.rounds, inUse)
  <1>1. /\ Len(record.rounds) = Shorter(MaxSecretRounds, Len(history))
        /\ \A i \in 1 .. Len(record.rounds) : record.rounds[i] = history[Len(history) + 1 - i]
    BY DEF IInv, Latest
  <1>2. Len(history) \in Nat /\ MaxSecretRounds \in Nat
    BY HistoryTyped, ClientsAssumption
  <1>3. CASE Len(history) > 0 /\ inUse = Newest
    <2>1. 1 \in 1 .. Len(record.rounds) /\ Len(history) + 1 - 1 = Len(history)
      BY <1>1, <1>2, <1>3 DEF Shorter
    <2> QED BY <1>1, <1>3, <2>1 DEF VerifySecret, Newest
  <1>4. CASE Len(history) > 1 /\ inUse = history[Len(history) - 1]
    <2>1. 2 \in 1 .. Len(record.rounds) /\ Len(history) + 1 - 2 = Len(history) - 1
      BY <1>1, <1>2, <1>4 DEF Shorter
    <2> QED BY <1>1, <1>4, <2>1 DEF VerifySecret
  <1> QED BY <1>3, <1>4 DEF Delivered

-----------------------------------------------------------------------------
\* A request that is not answered moves, and no secret is written or given.
LEMMA NothingGiven ==
  ASSUME Delivered, OneAdmin, NEW a \in Admins, request[a].pc # "answered",
         UNCHANGED <<history, inUse>>, ~Given(a)'
  PROVE  Delivered'
  <1>1. \A b \in Admins : b = a /\ ~Given(b) /\ ~Given(b)'
    BY DEF OneAdmin, Given
  <1> QED BY <1>1 DEF Delivered, Newest

\* A secret is written and answered.
LEMMA SecretGiven ==
  ASSUME IInv, Delivered, OneAdmin, NEW a \in Admins, request[a].pc # "answered",
         request[a].secret \in Secrets,
         history' = Append(history, request[a].secret), UNCHANGED inUse,
         Given(a)', request'[a].secret = request[a].secret
  PROVE  Delivered'
  <1>1. \A b \in Admins : b = a /\ ~Given(b)
    BY DEF OneAdmin, Given
  <1>2. /\ Len(history') = Len(history) + 1 /\ Len(history) \in Nat
        /\ history'[Len(history')] = request[a].secret
        /\ \A i \in 1 .. Len(history) : history'[i] = history[i]
    BY HistoryTyped
  <1>3. \A b \in Admins : Given(b)' => Len(history') > 0 /\ request'[b].secret = Newest'
    BY <1>1, <1>2 DEF Newest
  <1>4. ASSUME inUse # NoSecret
        PROVE  Len(history') > 1 /\ inUse' = history'[Len(history') - 1]
    <2>1. Len(history) > 0 /\ inUse = Newest
      BY <1>1, <1>4 DEF Delivered
    <2> QED BY <1>2, <2>1 DEF Newest
  <1> QED BY <1>3, <1>4 DEF Delivered

LEMMA AnswerIs ==
  ASSUME IInv, NEW a \in Admins, NEW verdict \in Verdicts, Answer(a, verdict)
  PROVE  /\ request'[a].pc = "answered" /\ request'[a].verdict = verdict
         /\ request'[a].secret = request[a].secret
  BY Answering DEF IInv

LEMMA AnswerFromIs ==
  ASSUME IInv, NEW a \in Admins, NEW verdict \in Verdicts, NEW r, AnswerFrom(a, r, verdict)
  PROVE  request'[a].verdict = verdict
  BY AnsweringFrom DEF IInv

\* Without a lost answer an applied write is answered ok.
LEMMA AppliedIsOk ==
  ASSUME IInv, NEW a \in Admins, Applied(a), lost' = 0
  PROVE  Answer(a, "ok")
  <1>1. lost \in Nat
    BY HistoryTyped
  <1> QED BY <1>1 DEF Applied

LEMMA AdminDelivered ==
  ASSUME IInv, Delivered, OneAdmin, lost' = 0, NEW a \in Admins, AdminStep(a)
  PROVE  Delivered'
  <1>1. request \in [Admins -> Requests]
    BY HistoryTyped
  <1>2. ASSUME NEW verdict \in Verdicts \ {"ok"}, request[a].pc # "answered",
               Answer(a, verdict) \/ \E r : AnswerFrom(a, r, verdict),
               UNCHANGED <<history, inUse>>
        PROVE  Delivered'
    <2>1. request'[a].verdict # "ok"
      BY <1>2, AnswerIs, AnswerFromIs
    <2> QED BY <1>2, <2>1, NothingGiven DEF Given
  <1>3. ASSUME NEW pc \in {"put", "get", "deactivate", "replace"}, NEW secret, NEW map,
               Begin(a, pc, secret, map)
        PROVE  Delivered'
    <2>1. request'[a].pc = pc /\ request[a].pc = "idle"
      BY <1>1, <1>3 DEF Begin, Idle
    <2> QED BY <1>3, <2>1, NothingGiven DEF Given, Begin
  <1>4. CASE \E map \in Maps : Create(a, map) \/ Update(a, map)
    BY <1>3, <1>4 DEF Create, Update
  <1>5. CASE Rotate(a) \/ Revoke(a)
    BY <1>3, <1>5 DEF Rotate, Revoke
  <1>6. CASE Malformed(a) \/ Fail(a)
    BY <1>2, <1>6 DEF Malformed, Fail, Verdicts, Writing
  <1>7. ASSUME request[a].pc \in {"put", "swap"}, Applied(a), UNCHANGED inUse,
               history' = Append(history, request[a].secret)
        PROVE  Delivered'
    <2>1. request[a].secret \in Secrets
      BY <1>7 DEF IInv, Carried
    <2>2. /\ request'[a].pc = "answered" /\ request'[a].verdict = "ok"
          /\ request'[a].secret = request[a].secret
      BY <1>7, AppliedIsOk, AnswerIs DEF Verdicts
    <2>3. Given(a)'
      BY <2>1, <2>2 DEF Given, Secrets, NoSecret
    <2> QED BY <1>7, <2>1, <2>2, <2>3, SecretGiven
  <1>8. CASE PutRecord(a)
    <2>1. CASE Exists(record)
      BY <1>2, <1>8, <2>1 DEF PutRecord, Verdicts
    <2>2. CASE ~Exists(record)
      BY <1>7, <1>8, <2>2 DEF PutRecord
    <2> QED BY <2>1, <2>2
  <1>9. CASE Deactivate(a) \/ ReplaceAudiences(a)
    <2>1. request[a].pc \in {"deactivate", "replace"} /\ UNCHANGED <<history, inUse>>
      BY <1>9 DEF Deactivate, ReplaceAudiences, SetAttribute
    <2>2. CASE ~Exists(record)
      BY <1>2, <1>9, <2>1, <2>2 DEF Deactivate, ReplaceAudiences, SetAttribute, Verdicts
    <2>3. CASE Exists(record)
      <3>1. Applied(a)
        BY <1>9, <2>3 DEF Deactivate, ReplaceAudiences, SetAttribute
      <3>2. request'[a].secret = NoSecret
        BY <2>1, <3>1, AppliedIsOk, AnswerIs DEF Verdicts, IInv, Carried
      <3> QED BY <2>1, <3>2, NothingGiven DEF Given
    <2> QED BY <2>2, <2>3
  <1>10. CASE GetForRotation(a)
    <2>1. PICK r \in Snapshots :
            IF Rotatable(r)
              THEN request' = [request EXCEPT ![a].pc = "swap", ![a].read = r,
                                              ![a].secret = generated + 1,
                                              ![a].stale = r # record]
              ELSE AnswerFrom(a, r, IF Exists(r) THEN "inactive" ELSE "notfound")
      BY <1>10 DEF GetForRotation
    <2>2. request[a].pc # "answered" /\ UNCHANGED <<history, inUse>>
      BY <1>10 DEF GetForRotation
    <2>3. CASE Rotatable(r)
      <3> DEFINE older == r # record
                 moved == [request[a] EXCEPT !.pc = "swap", !.read = r,
                                             !.secret = generated + 1, !.stale = older]
      <3>1. request'[a] = moved
        BY <1>1, <2>1, <2>3
      <3>2. moved.pc = "swap"
        BY <1>1 DEF Requests
      <3> QED BY <2>2, <3>1, <3>2, NothingGiven DEF Given
    <2>4. CASE ~Rotatable(r)
      BY <1>2, <2>1, <2>2, <2>4 DEF Verdicts
    <2> QED BY <2>3, <2>4
  <1>11. CASE SwapRounds(a)
    <2>1. CASE RoundsAsRead(a)
      BY <1>7, <1>11, <2>1 DEF SwapRounds
    <2>2. CASE ~RoundsAsRead(a)
      <3>1. /\ request'[a] = [request[a] EXCEPT !.pc = "reread"]
            /\ request[a].pc = "swap" /\ UNCHANGED <<history, inUse>>
        BY <1>1, <1>11, <2>2 DEF SwapRounds
      <3>2. request'[a].pc = "reread"
        BY <1>1, <3>1 DEF Requests
      <3> QED BY <3>1, <3>2, NothingGiven DEF Given
    <2> QED BY <2>1, <2>2
  <1>12. CASE Reread(a)
    BY <1>2, <1>12 DEF Reread, RefusedVerdict, Verdicts
  <1>13. CASE Receive(a)
    <2>1. /\ request'[a] = Idle /\ history' = history
          /\ inUse' = IF Given(a) THEN request[a].secret ELSE inUse
      BY <1>1, <1>13 DEF Receive, Given
    <2>2. \A b \in Admins : b = a /\ ~Given(b)'
      BY <2>1 DEF OneAdmin, Given, Idle
    <2> QED BY <2>1, <2>2 DEF Delivered, Newest
  <1> QED BY <1>4, <1>5, <1>6, <1>8, <1>9, <1>10, <1>11, <1>12, <1>13 DEF AdminStep

-----------------------------------------------------------------------------
\* An exchange that moves, the others as they were.
LEMMA OneExchange ==
  ASSUME EInv, NEW c \in Callers, ExchangeStep(c)
  PROVE  \A b \in Callers \ {c} : exchange'[b] = exchange[b]
  BY Calls DEF ExchangeStep, Lookup, Refused, Bump, Verify, Cut, Respond

\* An exchange that is answered is at rest.
LEMMA AtRest ==
  ASSUME EInv, NEW c \in Callers, NEW answer, Respond(c, answer)
  PROVE  /\ exchange'[c].answer = answer /\ ~InFlight(exchange'[c])
  <1>1. exchange'[c] = [Resting EXCEPT !.answer = answer]
    BY Calls DEF Respond
  <1> QED BY <1>1 DEF Resting, InFlight

\* What a Lookup that goes on has read.
LEMMA LookupRead ==
  ASSUME EInv, NEW c \in Callers, Lookup(c)
  PROVE  /\ Unanswered(exchange'[c])
         /\ Delivered /\ MaxSecretRounds > 1 => WellRead(exchange'[c])
  <1>1. PICK secret \in {NoSecret, inUse, Watched[3]}, audience \in Audiences, r \in Snapshots :
          IF Usable(r)
            THEN exchange' = [exchange EXCEPT ![c] =
                   [pc |-> "bump", secret |-> secret, audience |-> audience,
                    client |-> r, began |-> clock, answer |-> "none",
                    stale |-> r # record,
                    revoked |-> Exists(record) /\ ~record.active,
                    entitled |-> /\ inUse # NoSecret /\ secret = inUse
                                 /\ record.active
                                 /\ audience \in DOMAIN record.audiences]]
            ELSE Respond(c, "401")
    BY DEF Lookup
  <1>2. CASE ~Usable(r)
    BY <1>1, <1>2, AtRest DEF Unanswered, WellRead
  <1>3. CASE Usable(r)
    <2> DEFINE older == r # record
               gone == Exists(record) /\ ~record.active
               mine == /\ inUse # NoSecret /\ secret = inUse
                       /\ record.active
                       /\ audience \in DOMAIN record.audiences
    <2>1. exchange'[c] = [pc |-> "bump", secret |-> secret, audience |-> audience,
                          client |-> r, began |-> clock, answer |-> "none",
                          stale |-> older, revoked |-> gone, entitled |-> mine]
      BY <1>1, <1>3, Calls
    <2> HIDE DEF older, gone, mine
    <2>2. /\ exchange'[c].answer = "none" /\ exchange'[c].secret = secret
          /\ exchange'[c].client = r /\ exchange'[c].audience = audience
          /\ exchange'[c].stale = older /\ exchange'[c].entitled = mine
      BY <2>1
    <2>3. /\ exchange'[c].answer = "none" /\ exchange'[c].secret = secret
          /\ exchange'[c].client = r /\ exchange'[c].audience = audience
          /\ ~exchange'[c].stale => r = record
          /\ exchange'[c].entitled => /\ inUse # NoSecret /\ secret = inUse
                                      /\ audience \in DOMAIN record.audiences
      BY <2>2 DEF older, mine
    <2>4. ASSUME Delivered, MaxSecretRounds > 1, exchange'[c].entitled, ~exchange'[c].stale
          PROVE  /\ VerifySecret(r.rounds, secret)
                 /\ audience \in DOMAIN r.audiences
      BY <2>3, <2>4, DeliveredAccepted DEF EInv
    <2> QED BY <2>3, <2>4 DEF Unanswered, WellRead
  <1> QED BY <1>2, <1>3

\* Past the Lookup an exchange is answered, or goes on with what it has read.
LEMMA GoesOn ==
  ASSUME EInv, NEW c \in Callers, Refused(c) \/ Bump(c) \/ Verify(c) \/ Cut(c)
  PROVE  \/ ~InFlight(exchange'[c])
         \/ /\ InFlight(exchange[c])
            /\ exchange'[c].answer = exchange[c].answer
            /\ exchange'[c].entitled = exchange[c].entitled
            /\ exchange'[c].stale = exchange[c].stale
            /\ exchange'[c].client = exchange[c].client
            /\ exchange'[c].secret = exchange[c].secret
            /\ exchange'[c].audience = exchange[c].audience
  <1>1. CASE \E answer : Respond(c, answer)
    BY <1>1, AtRest
  <1>2. CASE exchange' = [exchange EXCEPT ![c].pc = "verify"] /\ exchange[c].pc = "bump"
    <2>1. exchange'[c] = [exchange[c] EXCEPT !.pc = "verify"] /\ exchange[c] \in Exchanges
      BY <1>2, Calls
    <2> QED BY <1>2, <2>1 DEF InFlight, Exchanges
  <1>3. CASE UNCHANGED exchange
    BY <1>3
  <1> QED BY <1>1, <1>2, <1>3 DEF Refused, Bump, Verify, Cut

-----------------------------------------------------------------------------
LEMMA InitServed == ExchangeInit => ServedInv
  BY DEF ExchangeInit, Init, ServedInv, Unanswered, WellRead, InFlight, Resting,
         Delivered, Given, Idle

LEMMA NextServed == EInv /\ ServedInv /\ [ExchangeNext]_allVars => ServedInv'
  <1> SUFFICES ASSUME EInv, ServedInv, [ExchangeNext]_allVars PROVE ServedInv'
    OBVIOUS
  <1>1. CASE Next /\ UNCHANGED own
    <2>1. UNCHANGED exchange
      BY <1>1 DEF own
    <2>2. ASSUME Calm' PROVE Calm /\ lost' = 0
      <3>1. lost \in Nat
        BY HistoryTyped DEF EInv
      <3>2. lost' = lost \/ lost' = lost + 1
        BY <1>1 DEF Next, AdminStep, Create, Update, Rotate, Revoke, Begin, Malformed,
             PutRecord, Deactivate, ReplaceAudiences, SetAttribute, Applied,
             GetForRotation, SwapRounds, Reread, Fail, Receive, Replicate
      <3> QED BY <2>2, <3>1, <3>2 DEF Calm, OneAdmin
    <2>3. ASSUME Calm' PROVE Delivered'
      <3>1. Delivered /\ OneAdmin /\ lost' = 0
        BY <2>2, <2>3 DEF ServedInv, Calm
      <3>2. CASE Replicate
        BY <3>1, <3>2 DEF Replicate, Delivered, Newest, Given
      <3>3. CASE \E a \in Admins : AdminStep(a)
        BY <3>1, <3>3, AdminDelivered DEF EInv
      <3> QED BY <1>1, <3>2, <3>3 DEF Next
    <2> QED BY <2>1, <2>2, <2>3 DEF ServedInv
  <1>2. CASE UNCHANGED vars /\ \E c \in Callers : ExchangeStep(c)
    <2>1. PICK c \in Callers : ExchangeStep(c)
      BY <1>2
    <2>2. Calm' = Calm /\ Delivered' = Delivered
      BY <1>2 DEF vars, Calm, OneAdmin, Delivered, Newest, Given
    <2>3. Unanswered(exchange'[c]) /\ (Calm => WellRead(exchange'[c]))
      <3>1. CASE Lookup(c)
        BY <3>1, LookupRead DEF ServedInv, Calm
      <3>2. CASE ~Lookup(c)
        BY <2>1, <3>2, GoesOn DEF ExchangeStep, ServedInv, Unanswered, WellRead
      <3> QED BY <3>1, <3>2
    <2> QED BY <2>1, <2>2, <2>3, OneExchange DEF ServedInv
  <1>3. CASE UNCHANGED vars /\ UNCHANGED exchange
    BY <1>3 DEF vars, ServedInv, Calm, OneAdmin, Delivered, Newest, Given
  <1> QED BY <1>1, <1>2, <1>3
          DEF ExchangeNext, WindowSweep, Tick, allVars, own

\* A caller with the delivered secret is served by every exchange that reads the
\* record as it is, through rotations, as long as one admin works on the client
\* and no answer of the table is lost (RotateClient, VerifySecret).
THEOREM EntitledAreServed == ExchangeSpec => EntitledServed
  <1>1. EInv /\ ServedInv /\ [ExchangeNext]_allVars =>
          [OneAdmin /\ MaxSecretRounds > 1 /\ lost = 0 => \A c \in Callers :
             /\ exchange[c].pc # "idle"
             /\ exchange[c].entitled
             /\ ~exchange[c].stale
             => exchange'[c].answer # "401"]_allVars
    <2> SUFFICES ASSUME EInv, ServedInv, ExchangeNext, Calm, NEW c \in Callers,
                        exchange[c].pc # "idle", exchange[c].entitled, ~exchange[c].stale
                 PROVE  exchange'[c].answer # "401"
      BY DEF Calm
    <2>1. InFlight(exchange[c])
      BY Calls DEF InFlight, Exchanges
    <2>2. exchange[c].answer = "none" /\ WellRead(exchange[c])
      BY <2>1 DEF ServedInv, Unanswered
    <2>3. CASE UNCHANGED exchange
      BY <2>2, <2>3
    <2>4. ASSUME NEW b \in Callers \ {c}, ExchangeStep(b) PROVE exchange'[c].answer # "401"
      BY <2>2, <2>4, OneExchange
    <2>5. CASE ExchangeStep(c)
      <3>1. CASE Bump(c)
        <4>1. \/ exchange' = [exchange EXCEPT ![c].pc = "verify"]
              \/ Respond(c, "429") \/ Respond(c, "500") \/ UNCHANGED exchange
          BY <3>1 DEF Bump
        <4>2. CASE exchange' = [exchange EXCEPT ![c].pc = "verify"]
          <5>1. exchange'[c] = [exchange[c] EXCEPT !.pc = "verify"] /\ exchange[c] \in Exchanges
            BY <4>2, Calls
          <5> QED BY <2>2, <5>1 DEF Exchanges
        <4> QED BY <2>2, <4>1, <4>2, AtRest
      <3>2. CASE Verify(c)
        <4>1. /\ VerifySecret(exchange[c].client.rounds, exchange[c].secret)
              /\ exchange[c].audience \in DOMAIN exchange[c].client.audiences
          BY <2>1, <2>2 DEF WellRead
        <4>2. Respond(c, "200") \/ Respond(c, "500")
          BY <3>2, <4>1 DEF Verify
        <4> QED BY <4>2, AtRest
      <3>3. CASE Cut(c)
        BY <3>3, AtRest DEF Cut
      <3> QED BY <2>5, <3>1, <3>2, <3>3 DEF ExchangeStep, Lookup, Refused
    <2> QED BY <2>3, <2>4, <2>5 DEF ExchangeNext, own, WindowSweep, Tick
  <1> QED BY <1>1, InitServed, NextServed, ExchangeInductive, PTL
          DEF ExchangeSpec, EntitledServed
=============================================================================
