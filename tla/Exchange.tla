------------------------------- MODULE Exchange -------------------------------
(***************************************************************************)
(* The token exchange of one machine client, POST /login/v1/m2m/tokens     *)
(* (api/m2m.go, Exchange of m2m/service.go), beside the admin requests of  *)
(* MachineClients and over the limiter that FixedWindow promises and       *)
(* RateWindow implements.  An exchange reads the record once, asks the     *)
(* limiter, and judges the audience and the secret by what it read; the    *)
(* record, the window and the clock may move between these steps.          *)
(***************************************************************************)
EXTENDS MachineClients, FiniteSets

CONSTANTS Callers,        \* concurrent exchanges
          Audiences,
          Limit, Duration, RequestTimeout,
          Lifetime,       \* of a machine token
          Watched,        \* an audience, scopes for it and a secret, arbitrary
          MaxSweeps,      \* bound: deletions of the window by TTL
          MaxTime         \* bound: the clock stops here

ASSUME ExchangeAssumption ==
  /\ IsFiniteSet(Callers)
  /\ Limit \in Nat \ {0}
  /\ Duration \in Nat \ {0}
  /\ RequestTimeout \in Nat
  /\ Lifetime \in Nat \ {0}
  /\ Watched[1] \in Audiences
  /\ Watched[3] \in Nat
  /\ \A map \in Maps : DOMAIN map \subseteq Audiences
  /\ MaxSweeps \in Nat
  /\ MaxTime \in Nat

VARIABLES exchange, \* the exchanges
          call, clock, windows, left, sweeps, \* the limiter
          compared, \* history: secrets compared with the client's rounds
          granted,  \* history: when the record last granted Watched (-1: never)
          expiry    \* history: when the last token for Watched expires

Window == INSTANCE FixedWindow WITH Calls <- Callers

limiter == <<call, clock, windows, left, sweeps>>
own == <<exchange, limiter, compared, expiry>>

-----------------------------------------------------------------------------
(***************************************************************************)
(* An exchange: where Exchange is, the secret and the audience it is asked *)
(* with, the client it read, and when; or the answer it gave.  As history, *)
(* whether the read showed an older record, whether the client was revoked,*)
(* and whether the secret was the one that the callers are meant to use    *)
(* and the record allowed the audience.                                    *)
(***************************************************************************)
Responses == {"none", "200", "400", "401", "429", "500"}

Resting == [pc |-> "idle", secret |-> NoSecret, audience |-> Watched[1],
            client |-> NoRecord, began |-> 0, answer |-> "none",
            stale |-> FALSE, revoked |-> FALSE, entitled |-> FALSE]

\* Mutant: only the newest round is compared.
MatchesNewest(rounds, secret) == rounds[1] = secret

VerifySecret(rounds, secret) == \E i \in 1 .. Len(rounds) : rounds[i] = secret

\* Who has the secret watched can have tokens for the scopes watched.
Granting(r) ==
  /\ r.active
  /\ VerifySecret(r.rounds, Watched[3])
  /\ Watched[1] \in DOMAIN r.audiences
  /\ r.audiences[Watched[1]] = Watched[2]

ExchangeInit ==
  /\ Init
  /\ Window!Init
  /\ exchange = [c \in Callers |-> Resting]
  /\ compared = 0
  /\ granted = -1
  /\ expiry = 0

\* Mutant: the handler goes on after its answer.
NoReturn(c, answer) == exchange' = [exchange EXCEPT ![c].answer = answer]

Respond(c, answer) ==
  exchange' = [exchange EXCEPT ![c] = [Resting EXCEPT !.answer = answer]]

InTime(c) == clock <= exchange[c].began + RequestTimeout

\* Mutant: a revoked client goes on.
UsableThoughRevoked(r) == Exists(r)

Usable(r) == Exists(r) /\ r.active

(***************************************************************************)
(* GetClient and the early return for a client that is unknown or revoked. *)
(* A caller has the delivered secret, the watched one, which may never     *)
(* have been written or long be evicted, or a wrong one: secret 0.         *)
(***************************************************************************)
Lookup(c) ==
  /\ exchange[c].pc = "idle"
  /\ \E secret \in {NoSecret, inUse, Watched[3]}, audience \in Audiences, r \in Snapshots :
       IF Usable(r)
         THEN /\ exchange' = [exchange EXCEPT ![c] =
                   [pc |-> "bump", secret |-> secret, audience |-> audience,
                    client |-> r, began |-> clock, answer |-> "none",
                    stale |-> r # record,
                    revoked |-> Exists(record) /\ ~record.active,
                    entitled |-> /\ inUse # NoSecret /\ secret = inUse
                                 /\ record.active
                                 /\ audience \in DOMAIN record.audiences]]
              /\ Window!Ask(c)
         ELSE Respond(c, "401") /\ UNCHANGED limiter
  /\ UNCHANGED <<compared, expiry>>

\* Credentials or an audience of the wrong form, or a GetClient that fails.
Refused(c) ==
  /\ exchange[c].pc = "idle"
  /\ Respond(c, "400") \/ Respond(c, "500")
  /\ UNCHANGED <<limiter, compared, expiry>>

\* Mutant: the count is not compared with the limit.
Unlimited(c) == Window!Admit(c) \/ Window!Refuse(c)

LetThrough(c) == Window!Admit(c)

\* BumpWindow and the comparison with the limit.
Bump(c) ==
  /\ exchange[c].pc = "bump"
  /\ InTime(c)
  /\ \/ LetThrough(c) /\ exchange' = [exchange EXCEPT ![c].pc = "verify"]
     \/ Window!Refuse(c) /\ Respond(c, "429")
     \/ Window!Fail(c) /\ Respond(c, "500")
     \/ /\ Window!Forfeit(c)
        /\ IF call'[c] = "error" THEN Respond(c, "500") ELSE UNCHANGED exchange
  /\ UNCHANGED <<compared, expiry>>

(***************************************************************************)
(* The audience, the secret, and the token.  Signing may fail.             *)
(***************************************************************************)
Verify(c) ==
  LET e == exchange[c]
      scopes == e.client.audiences
      allowed == e.audience \in DOMAIN scopes
  IN  /\ e.pc = "verify"
      /\ InTime(c)
      /\ compared' = IF allowed THEN compared + 1 ELSE compared
      /\ IF allowed /\ VerifySecret(e.client.rounds, e.secret)
           THEN \/ /\ Respond(c, "200")
                   /\ expiry' = IF /\ ~e.stale
                                    /\ Watched = <<e.audience, scopes[e.audience], e.secret>>
                                  THEN clock + Lifetime ELSE expiry
                \/ Respond(c, "500") /\ UNCHANGED expiry
           ELSE Respond(c, "401") /\ UNCHANGED expiry
      /\ UNCHANGED limiter

\* Lambda kills an invocation that has run for RequestTimeout.
Cut(c) ==
  /\ exchange[c].pc \in {"bump", "verify"}
  /\ ~InTime(c)
  /\ Respond(c, "500")
  /\ IF exchange[c].pc = "bump" THEN Window!Fail(c) ELSE UNCHANGED limiter
  /\ UNCHANGED <<compared, expiry>>

WindowSweep ==
  /\ sweeps < MaxSweeps
  /\ Window!Sweep
  /\ UNCHANGED <<exchange, compared, expiry>>

Tick ==
  /\ clock < MaxTime
  /\ Window!Tick
  /\ UNCHANGED <<exchange, compared, expiry>>

ExchangeStep(c) == Lookup(c) \/ Refused(c) \/ Bump(c) \/ Verify(c) \/ Cut(c)

Remember == granted' = IF Granting(record') THEN clock' ELSE granted

ExchangeNext ==
  /\ \/ Next /\ UNCHANGED own
     \/ (\E c \in Callers : ExchangeStep(c)) /\ UNCHANGED vars
     \/ (WindowSweep \/ Tick) /\ UNCHANGED vars
  /\ Remember

allVars == <<vars, own, granted>>

ExchangeSpec == ExchangeInit /\ [][ExchangeNext]_allVars

-----------------------------------------------------------------------------
Exchanges ==
  [pc : {"idle", "bump", "verify"}, secret : Nat, audience : Audiences,
   client : Records, began : Nat, answer : Responses,
   stale : BOOLEAN, revoked : BOOLEAN, entitled : BOOLEAN]

\* The exchanges, the limiter and the histories keep their shape.
ExchangeTypeOK ==
  /\ exchange \in [Callers -> Exchanges]
  /\ call \in [Callers -> {"idle", "asking"} \cup Window!Answers]
  /\ clock \in Nat /\ windows \in Nat /\ left \in Nat /\ sweeps \in Nat
  /\ compared \in Nat
  /\ granted \in Nat \cup {-1}
  /\ expiry \in Nat
  /\ \A c \in Callers : exchange[c].pc = "bump" <=> call[c] = "asking"

\* However exchanges overlap with revocations, updates of the audiences and
\* rotations, the last token for scopes that the client no longer has, or for a
\* secret that its record no longer accepts, expires within Lifetime and the time
\* one request may take (RevokeClient, UpdateClient, RotateClient, Exchange); an
\* exchange that read an older record is not counted.
TokensRunOut ==
  expiry > 0 => granted >= 0 /\ expiry <= granted + RequestTimeout + Lifetime

\* Guesses at the secret are held to the rate of the limiter: an exchange comes
\* to the comparison only through a slot, whatever becomes of it (Exchange has
\* no other throttle).
GuessesLimited ==
  compared * Duration
    <= Limit * (clock + Duration + sweeps * (Duration + RequestTimeout))

OneAdmin == \A a, b \in Admins : a = b

\* As long as no answer of the table is lost, a single admin works on the client
\* and a record keeps a predecessor, an exchange with the delivered secret that
\* reads the record as it is is never answered 401, also when a rotation is in
\* progress (VerifySecret, RotateClient).
EntitledServed ==
  [][OneAdmin /\ MaxSecretRounds > 1 /\ lost = 0 => \A c \in Callers :
       /\ exchange[c].pc # "idle"
       /\ exchange[c].entitled
       /\ ~exchange[c].stale
       => exchange'[c].answer # "401"]_allVars

\* An exchange that begins after the revocation was written gets no token
\* ("new exchanges fail immediately", RevokeClient).
RevokedRefused ==
  [][\A c \in Callers :
       exchange[c].revoked => exchange'[c].answer # "200"]_allVars
=============================================================================
