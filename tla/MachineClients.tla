---------------------------- MODULE MachineClients ----------------------------
(***************************************************************************)
(* The record of one machine client, CLIENT#<clientId> of dynamo/m2m.go,   *)
(* and the admin requests that create, rotate, revoke and update it        *)
(* (m2m/provision_service.go behind api/m2m_provision.go).  Requests run   *)
(* concurrently in separate Lambda instances and meet only in the table:   *)
(* create, revoke and update are one conditional write each, a rotation is *)
(* a read, a compare-and-swap on the rounds, and one more read when the    *)
(* swap is refused.  Reads are GetItem without ConsistentRead and may show *)
(* an older record.  The SDK repeats a write whose answer was lost.        *)
(*                                                                         *)
(* A secret stands for itself and for its bcrypt round.  The table keeps   *)
(* no more of a record than the three fields here (timestamps and index    *)
(* keys follow them).                                                      *)
(***************************************************************************)
EXTENDS Integers, Sequences

CONSTANTS Admins,          \* concurrent admin requests
          Maps,            \* audiences-to-scopes maps a request may carry
          NoMap,
          MaxSecretRounds, \* provision.go: current round and predecessor
          StaleReads,      \* may a GetItem show an older record?
          MaxSecrets,      \* bound: secrets generated
          MaxLost          \* bound: answers of DynamoDB that are lost

ASSUME ClientsAssumption ==
  /\ MaxSecretRounds \in Nat \ {0}
  /\ StaleReads \in BOOLEAN
  /\ MaxSecrets \in Nat
  /\ MaxLost \in Nat
  /\ NoMap \notin Maps

VARIABLES record,    \* the CLIENT# item as the last write left it
          replica,   \* an older state of it that a read may still show
          request,   \* the admin requests
          generated, \* secrets generated so far
          lost,      \* answers lost so far
          history,   \* history: secrets written to the record, oldest first
          inUse      \* the secret the operator delivered last (0: none)

vars == <<record, replica, request, generated, lost, history, inUse>>

-----------------------------------------------------------------------------
NoRecord == [rounds |-> <<>>, active |-> FALSE, audiences |-> NoMap]
Exists(r) == r.rounds # <<>>

Writing == {"put", "swap", "deactivate", "replace"}
Verdicts == {"ok", "invalid", "exists", "notfound", "inactive", "conflict", "error"}

NoSecret == 0

(***************************************************************************)
(* A request: where its handler is, the secret it generated, the map it    *)
(* carries, the record it read, its verdict; and, as history, how many     *)
(* secrets had been written and whether the client was revoked when it     *)
(* began, and whether a read of it showed an older record.                 *)
(***************************************************************************)
Idle == [pc |-> "idle", secret |-> NoSecret, map |-> NoMap, read |-> NoRecord,
         verdict |-> "ok", since |-> 0, revoked |-> FALSE, stale |-> FALSE]

Init ==
  /\ record = NoRecord
  /\ replica = NoRecord
  /\ request = [a \in Admins |-> Idle]
  /\ generated = 0
  /\ lost = 0
  /\ history = <<>>
  /\ inUse = NoSecret

Answer(a, verdict) ==
  request' = [request EXCEPT ![a].pc = "answered", ![a].verdict = verdict]

\* An answer that rests on the record r that was read.
AnswerFrom(a, r, verdict) ==
  request' = [request EXCEPT ![a].pc = "answered", ![a].verdict = verdict,
                             ![a].stale = @ \/ r # record]

(***************************************************************************)
(* An applied write: its answer arrives, or is lost.  A lost answer makes  *)
(* the SDK send the write again, until it gives up and the request fails.  *)
(***************************************************************************)
Applied(a) ==
  \/ /\ Answer(a, "ok")
     /\ UNCHANGED lost
  \/ /\ lost < MaxLost
     /\ lost' = lost + 1
     /\ UNCHANGED request \/ Answer(a, "error")

Snapshots == IF StaleReads THEN {record, replica} ELSE {record}

-----------------------------------------------------------------------------
Begin(a, pc, secret, map) ==
  /\ request[a].pc = "idle"
  /\ request' = [request EXCEPT ![a] =
       [Idle EXCEPT !.pc = pc, !.secret = secret, !.map = map,
                    !.since = Len(history),
                    !.revoked = Exists(record) /\ ~record.active]]
  /\ UNCHANGED <<record, replica, lost, history, inUse>>

\* A clientId, audience or scope of the wrong form: 400 and nothing else.
Malformed(a) ==
  /\ request[a].pc = "idle"
  /\ Answer(a, "invalid")
  /\ UNCHANGED <<record, replica, generated, lost, history, inUse>>

Create(a, map) ==
  /\ generated < MaxSecrets
  /\ generated' = generated + 1
  /\ Begin(a, "put", generated + 1, map)

Rotate(a) == Begin(a, "get", NoSecret, NoMap) /\ UNCHANGED generated
Revoke(a) == Begin(a, "deactivate", NoSecret, NoMap) /\ UNCHANGED generated
Update(a, map) == Begin(a, "replace", NoSecret, map) /\ UNCHANGED generated

\* CreateClient of the store: PutItem if attribute_not_exists(PK).
PutRecord(a) ==
  /\ request[a].pc = "put"
  /\ IF Exists(record)
       THEN /\ Answer(a, "exists")
            /\ UNCHANGED <<record, lost, history>>
       ELSE /\ record' = [rounds |-> <<request[a].secret>>, active |-> TRUE,
                          audiences |-> request[a].map]
            /\ history' = Append(history, request[a].secret)
            /\ Applied(a)
  /\ UNCHANGED <<replica, generated, inUse>>

\* DeactivateClient and UpdateAudiences: SET of one attribute if the record
\* exists.
SetAttribute(a, written) ==
  /\ IF Exists(record)
       THEN record' = written /\ Applied(a)
       ELSE Answer(a, "notfound") /\ UNCHANGED <<record, lost>>
  /\ UNCHANGED <<replica, generated, history, inUse>>

Deactivate(a) ==
  /\ request[a].pc = "deactivate"
  /\ SetAttribute(a, [record EXCEPT !.active = FALSE])

ReplaceAudiences(a) ==
  /\ request[a].pc = "replace"
  /\ SetAttribute(a, [record EXCEPT !.audiences = request[a].map])

\* Mutant: a rotation of an inactive client is not refused.
ExistingIsRotatable(r) == Exists(r)

Rotatable(r) == Exists(r) /\ r.active

\* RotateClient: GetClient, its early returns, and the new secret.
GetForRotation(a) ==
  /\ request[a].pc = "get"
  /\ \E r \in Snapshots :
       IF Rotatable(r)
         THEN /\ generated < MaxSecrets
              /\ generated' = generated + 1
              /\ request' = [request EXCEPT ![a].pc = "swap", ![a].read = r,
                                            ![a].secret = generated + 1,
                                            ![a].stale = r # record]
         ELSE /\ AnswerFrom(a, r, IF Exists(r) THEN "inactive" ELSE "notfound")
              /\ UNCHANGED generated
  /\ UNCHANGED <<record, replica, lost, history, inUse>>

\* Mutant: the rounds are not trimmed.
NextUntrimmed(a) == <<request[a].secret>> \o request[a].read.rounds

NextRounds(a) ==
  LET rounds == <<request[a].secret>> \o request[a].read.rounds
  IN  SubSeq(rounds, 1,
             IF Len(rounds) > MaxSecretRounds THEN MaxSecretRounds ELSE Len(rounds))

\* Mutant: the swap only asks that the record exists.
RoundsNotCompared(a) == Exists(record)

\* attribute_exists(PK) AND secretRounds = :expected
RoundsAsRead(a) == Exists(record) /\ record.rounds = request[a].read.rounds

\* Mutant: the swap writes back the whole record it read.
WholeRecord(a) == [request[a].read EXCEPT !.rounds = NextRounds(a)]

Rotated(a) == [record EXCEPT !.rounds = NextRounds(a)]

\* UpdateRounds, first half.
SwapRounds(a) ==
  /\ request[a].pc = "swap"
  /\ IF RoundsAsRead(a)
       THEN /\ record' = Rotated(a)
            /\ history' = Append(history, request[a].secret)
            /\ Applied(a)
       ELSE /\ request' = [request EXCEPT ![a].pc = "reread"]
            /\ UNCHANGED <<record, lost, history>>
  /\ UNCHANGED <<replica, generated, inUse>>

\* Mutant: the two causes of a refused swap are not told apart.
RefusedIsMissing(r) == "notfound"

\* Mutant: a refused swap is taken for a done one.
RefusedIgnored(r) == IF Exists(r) THEN "ok" ELSE "notfound"

RefusedVerdict(r) == IF Exists(r) THEN "conflict" ELSE "notfound"

\* UpdateRounds, second half: the swap was refused.
Reread(a) ==
  /\ request[a].pc = "reread"
  /\ \E r \in Snapshots : AnswerFrom(a, r, RefusedVerdict(r))
  /\ UNCHANGED <<record, replica, generated, lost, history, inUse>>

\* DynamoDB does not take the call, or the instance is lost before it.
Fail(a) ==
  /\ request[a].pc \in Writing \cup {"get", "reread"}
  /\ Answer(a, "error")
  /\ UNCHANGED <<record, replica, generated, lost, history, inUse>>

\* The admin has the answer; a secret in it is delivered to the caller
\* before this admin asks for anything else.
Receive(a) ==
  /\ request[a].pc = "answered"
  /\ inUse' = IF request[a].verdict = "ok" /\ request[a].secret # NoSecret
                THEN request[a].secret ELSE inUse
  /\ request' = [request EXCEPT ![a] = Idle]
  /\ UNCHANGED <<record, replica, generated, lost, history>>

\* The lagging copy catches up.
Replicate ==
  /\ replica # record
  /\ replica' = record
  /\ UNCHANGED <<record, request, generated, lost, history, inUse>>

AdminStep(a) ==
  \/ \E map \in Maps : Create(a, map) \/ Update(a, map)
  \/ Rotate(a) \/ Revoke(a) \/ Malformed(a)
  \/ PutRecord(a) \/ Deactivate(a) \/ ReplaceAudiences(a)
  \/ GetForRotation(a) \/ SwapRounds(a) \/ Reread(a)
  \/ Fail(a) \/ Receive(a)

Next == (\E a \in Admins : AdminStep(a)) \/ Replicate

Spec == Init /\ [][Next]_vars

-----------------------------------------------------------------------------
Secrets == Nat \ {0}

Records == [rounds : Seq(Secrets), active : BOOLEAN, audiences : Maps \cup {NoMap}]

Requests ==
  [pc : {"idle", "get", "reread", "answered"} \cup Writing,
   secret : Nat, map : Maps \cup {NoMap}, read : Records,
   verdict : Verdicts, since : Nat, revoked : BOOLEAN, stale : BOOLEAN]

\* The record, its copy and the requests keep their shape; a record has no
\* more rounds than MaxSecretRounds (RotateClient trims).
TypeOK ==
  /\ record \in Records
  /\ replica \in Records
  /\ request \in [Admins -> Requests]
  /\ generated \in Nat
  /\ lost \in Nat
  /\ history \in Seq(Secrets)
  /\ inUse \in Nat
  /\ Len(record.rounds) <= MaxSecretRounds

\* No update of the rounds is lost: the record accepts exactly the last
\* MaxSecretRounds secrets ever written to it, newest first, whatever stale
\* copies concurrent rotations started from (UpdateRounds).
RoundsAreLatest ==
  /\ Len(record.rounds) =
       IF Len(history) < MaxSecretRounds THEN Len(history) ELSE MaxSecretRounds
  /\ \A i \in 1 .. Len(record.rounds) :
       record.rounds[i] = history[Len(history) + 1 - i]

\* A revoked client stays revoked, in particular when a rotation or an update
\* that read or began before the revocation writes after it (DeactivateClient,
\* UpdateRounds, UpdateAudiences).
RevocationPermanent ==
  [][Exists(record) /\ ~record.active => ~record'.active]_vars

\* The audiences change only to the map of a create or an update in progress: a
\* rotation or a revocation that overlaps an update never brings an older map
\* back (the SETs name single attributes).
AudiencesAsAsked ==
  [][record'.audiences # record.audiences =>
       \E a \in Admins : /\ request[a].pc \in {"put", "replace"}
                         /\ record'.audiences = request[a].map]_vars

\* A secret an admin is given was written, and is refused only once
\* MaxSecretRounds more have been: no request answers with a secret that
\* another one has silently overwritten (CreateClient, RotateClient).
AnsweredSecretWritten ==
  \A a \in Admins :
    /\ request[a].pc = "answered"
    /\ request[a].verdict = "ok"
    /\ request[a].secret # NoSecret
    => \E i \in 1 .. Len(history) :
         /\ history[i] = request[a].secret
         /\ Len(history) - i < MaxSecretRounds
              => record.rounds[Len(history) + 1 - i] = request[a].secret

Exact(a) ==
  LET q == request[a]
      Others(from) == \E i \in from .. Len(history) : history[i] # q.secret
  IN  q.pc = "answered" =>
        /\ q.verdict = "exists" => Others(1)
        /\ q.verdict = "conflict" => Others(q.since + 1)
        /\ q.verdict = "notfound" => q.since = 0

\* The verdicts of ProvisionStore are exact: a create is refused only when
\* another one made the record, a rotation only after a concurrent write of the
\* rounds, and a missing client is reported only when it was missing.
ExactVerdicts == \A a \in Admins : Exact(a)

\* The verdicts are exact as long as no answer of the table is lost, for a
\* request whose reads, if it made any, showed the record as it was.
ExactUnlessStale == lost = 0 => \A a \in Admins : ~request[a].stale => Exact(a)

Rotates(a) ==
  /\ request[a].pc = "answered"
  /\ request[a].verdict = "ok"
  /\ request[a].secret # NoSecret

\* A rotation asked for after the client was revoked is refused (409 in
\* spec/api.yaml) when it reads the record as it is, even though the swap
\* itself does not ask whether the client is active (RotateClient).
RevokedNotRotatedUnlessStale ==
  \A a \in Admins : request[a].revoked /\ ~request[a].stale => ~Rotates(a)

\* No secret is written twice: a write whose answer was lost and that is sent
\* again finds its own condition broken by itself (CreateClient, UpdateRounds).
WrittenOnce ==
  \A i, j \in 1 .. Len(history) : history[i] = history[j] => i = j

-----------------------------------------------------------------------------
(***************************************************************************)
(* A request as the promise of the record sees it: what it is about, and   *)
(* the secret it carries only once that is written.                        *)
(***************************************************************************)
Operation(pc) ==
  CASE pc = "idle" -> "none"
    [] pc = "put" -> "create"
    [] pc \in {"get", "swap", "reread"} -> "rotate"
    [] pc = "deactivate" -> "revoke"
    [] pc = "replace" -> "update"
    [] pc = "answered" -> "answered"

WrittenSecret(secret) ==
  IF \E i \in 1 .. Len(history) : history[i] = secret THEN secret ELSE NoSecret

Call(q) == [map |-> q.map, secret |-> WrittenSecret(q.secret), verdict |-> q.verdict,
            since |-> q.since, revoked |-> q.revoked, stale |-> q.stale]

Promise == INSTANCE ClientRecord
             WITH Secrets <- 1 .. MaxSecrets, secrets <- history,
                  op <- [a \in Admins |-> Operation(request[a].pc)],
                  call <- [a \in Admins |-> Call(request[a])]

\* The reads, conditional writes and retries of the admin requests keep the
\* promise of a record that is changed in one step by each: no secret is written
\* twice, lost or brought back, and a refusal has a cause (ProvisionStore).
KeepsRecord == Promise!Spec
=============================================================================
