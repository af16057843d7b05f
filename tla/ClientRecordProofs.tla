-------------------------- MODULE ClientRecordProofs --------------------------
(***************************************************************************)
(* Proofs that MachineClients keeps the promise of ClientRecord and writes *)
(* no secret twice, for any number of concurrent admins, of lost answers   *)
(* and of secrets, any MaxSecretRounds, and stale reads or not.            *)
(*                                                                         *)
(* A write whose answer was lost is sent again by the request that still   *)
(* carries the secret.  A create then finds its record.  A swap finds that *)
(* the newest round is not the one it read: the round it read was written  *)
(* before its own secret, and no secret is written twice.                  *)
(***************************************************************************)
EXTENDS VerdictProofs

Before(s, t, hist) ==
  \E j \in 1 .. Len(hist) :
    hist[j] = s /\ \A k \in 1 .. Len(hist) : hist[k] = t => j < k

\* What a request may rely on, whether answers are lost or not.
Standing(q, hist, rounds, gen) ==
  /\ q.since <= Len(hist)
  /\ q.secret <= gen
  /\ q.stale => StaleReads
  /\ q.pc = "get" => q.secret = NoSecret /\ ~q.stale
  /\ q.pc = "swap" =>
       /\ q.read.rounds # <<>>
       /\ Before(q.read.rounds[1], q.secret, hist)
       /\ ~q.stale => q.read.rounds = rounds \/ q.since < Len(hist)
  /\ q.pc = "reread" => q.stale \/ q.since < Len(hist)

AllStanding == \A a \in Admins : Standing(request[a], history, record.rounds, generated)

Counted == generated <= MaxSecrets /\ \A i \in 1 .. Len(history) : history[i] <= generated

\* Two requests never carry the same secret.
Distinct ==
  \A a, b \in Admins :
    a # b /\ request[a].secret # NoSecret => request[a].secret # request[b].secret

CopyKnown == Exists(replica) => \E j \in 1 .. Len(history) : history[j] = replica.rounds[1]

Lasting == AllStanding /\ Counted /\ Distinct /\ CopyKnown /\ WrittenOnce

-----------------------------------------------------------------------------
\* A longer history keeps what was said of a shorter one.
LEMMA Longer ==
  ASSUME NEW hist \in Seq(Secrets), NEW s \in Secrets
  PROVE  /\ Append(hist, s) \in Seq(Secrets)
         /\ Len(hist) \in Nat /\ Len(Append(hist, s)) = Len(hist) + 1
         /\ Append(hist, s)[Len(hist) + 1] = s
         /\ \A i \in 1 .. Len(hist) : Append(hist, s)[i] = hist[i]
  OBVIOUS

LEMMA StillStanding ==
  ASSUME NEW q \in Requests, NEW hist \in Seq(Secrets), NEW s \in Secrets,
         NEW rounds, NEW next, NEW gen, Standing(q, hist, rounds, gen)
  PROVE  Standing(q, Append(hist, s), next, gen)
  <1> DEFINE longer == Append(hist, s)
  <1>1. /\ Len(hist) \in Nat /\ Len(longer) = Len(hist) + 1
        /\ \A i \in 1 .. Len(hist) : longer[i] = hist[i]
    BY Longer
  <1> HIDE DEF longer
  <1>2. ASSUME NEW r, Before(r, q.secret, hist)
        PROVE  Before(r, q.secret, longer)
    <2>1. PICK j \in 1 .. Len(hist) :
            hist[j] = r /\ \A k \in 1 .. Len(hist) : hist[k] = q.secret => j < k
      BY <1>2 DEF Before
    <2>2. ASSUME NEW k \in 1 .. Len(longer), longer[k] = q.secret
          PROVE  j < k
      <3>1. CASE k = Len(longer)
        BY <1>1, <3>1
      <3>2. CASE k # Len(longer)
        <4>1. k \in 1 .. Len(hist)
          BY <1>1, <3>2
        <4> QED BY <1>1, <2>1, <2>2, <4>1
      <3> QED BY <3>1, <3>2
    <2>3. j \in 1 .. Len(longer) /\ longer[j] = r
      BY <1>1, <2>1
    <2> QED BY <2>2, <2>3 DEF Before
  <1>3. q.since \in Nat /\ q.since <= Len(hist)
    BY DEF Requests, Standing
  <1>4. q.since <= Len(longer) /\ q.since < Len(longer)
    BY <1>1, <1>3
  <1>5. Standing(q, longer, next, gen)
    BY <1>2, <1>4 DEF Standing
  <1> QED BY <1>5 DEF longer

\* A secret that is generated takes nothing from the others.
LEMMA MoreGenerated ==
  ASSUME NEW q \in Requests, NEW hist, NEW rounds, NEW gen \in Nat, NEW more \in Nat,
         gen <= more, Standing(q, hist, rounds, gen)
  PROVE  Standing(q, hist, rounds, more)
  <1>1. q.secret \in Nat
    BY DEF Requests
  <1> QED BY <1>1 DEF Standing

\* One request moves and writes nothing.
LEMMA QuietLasting ==
  ASSUME IInv, Lasting, NEW a \in Admins,
         request' \in [Admins -> Requests],
         \A b \in Admins \ {a} : request'[b] = request[b],
         history' = history, record'.rounds = record.rounds, replica' = replica,
         generated' \in Nat, generated <= generated', generated' <= MaxSecrets,
         Standing(request'[a], history, record.rounds, generated'),
         \/ request'[a].secret \in {NoSecret, request[a].secret}
         \/ request'[a].secret > generated
  PROVE  Lasting'
  <1>1. /\ generated \in Nat /\ history \in Seq(Secrets)
        /\ request \in [Admins -> Requests]
    BY DEF IInv, TypeOK
  <1>2. AllStanding'
    <2> SUFFICES ASSUME NEW b \in Admins
                 PROVE  Standing(request'[b], history, record.rounds, generated')
      BY DEF AllStanding
    <2>1. CASE b = a
      BY <2>1
    <2>2. CASE b # a
      <3>1. Standing(request[b], history, record.rounds, generated)
        BY DEF Lasting, AllStanding
      <3> QED BY <1>1, <2>2, <3>1, MoreGenerated
    <2> QED BY <2>1, <2>2
  <1>3. Counted'
    BY <1>1 DEF Lasting, Counted, Secrets
  <1>4. Distinct'
    <2>1. ASSUME NEW b \in Admins \ {a}
          PROVE  \/ request'[a].secret = NoSecret
                 \/ request'[a].secret # request'[b].secret
      <3>1. request'[b] = request[b]
        OBVIOUS
      <3>2. CASE request'[a].secret = request[a].secret
        BY <3>1, <3>2 DEF Lasting, Distinct
      <3>3. CASE request'[a].secret > generated
        <4>1. request[b].secret <= generated
          BY DEF Lasting, AllStanding, Standing
        <4>2. request[b].secret \in Nat /\ request'[a].secret \in Nat
          BY <1>1 DEF Requests
        <4> QED BY <1>1, <3>1, <3>3, <4>1, <4>2
      <3> QED BY <3>2, <3>3
    <2> QED BY <2>1 DEF Lasting, Distinct
  <1>5. CopyKnown' /\ WrittenOnce'
    BY DEF Lasting, CopyKnown, WrittenOnce, Exists
  <1> QED BY <1>2, <1>3, <1>4, <1>5 DEF Lasting

\* One request writes its secret, which nobody had written; it is answered, or
\* about to send the write again.
LEMMA WriteLasting ==
  ASSUME IInv, Lasting, NEW a \in Admins, request[a].pc \in {"put", "swap"},
         Unwritten(request[a].secret, history),
         request' \in [Admins -> Requests],
         \A b \in Admins \ {a} : request'[b] = request[b],
         request'[a].pc = "answered" \/ request'[a] = request[a],
         request'[a].secret = request[a].secret,
         request'[a].since = request[a].since, request'[a].stale = request[a].stale,
         history' = Append(history, request[a].secret),
         generated' = generated, replica' = replica
  PROVE  Lasting'
  <1> DEFINE s == request[a].secret
  <1>1. /\ generated \in Nat /\ history \in Seq(Secrets)
        /\ request \in [Admins -> Requests]
    BY DEF IInv, TypeOK
  <1>2. s \in Secrets /\ s <= generated
    BY DEF IInv, Carried, Lasting, AllStanding, Standing
  <1>3. /\ Len(history) \in Nat /\ Len(history') = Len(history) + 1
        /\ history'[Len(history) + 1] = s
        /\ \A i \in 1 .. Len(history) : history'[i] = history[i]
    BY <1>1, <1>2, Longer
  <1>4. AllStanding'
    <2> SUFFICES ASSUME NEW b \in Admins
                 PROVE  Standing(request'[b], history', record'.rounds, generated)
      BY DEF AllStanding
    <2>1. Standing(request[b], history, record.rounds, generated)
      BY DEF Lasting, AllStanding
    <2>2. Standing(request[b], history', record'.rounds, generated)
      BY <1>1, <1>2, <2>1, StillStanding
    <2>3. CASE request'[b] = request[b]
      BY <2>2, <2>3
    <2>4. CASE b = a /\ request'[a].pc = "answered"
      BY <2>2, <2>4 DEF Standing
    <2> QED BY <2>3, <2>4
  <1>5. ASSUME NEW i \in 1 .. Len(history')
        PROVE  i \in 1 .. Len(history) \/ i = Len(history) + 1
    BY <1>3
  <1>6. Counted'
    <2> SUFFICES ASSUME NEW i \in 1 .. Len(history') PROVE history'[i] <= generated
      BY DEF Lasting, Counted
    <2>1. CASE i = Len(history) + 1
      BY <1>2, <1>3, <2>1
    <2>2. CASE i \in 1 .. Len(history)
      BY <1>3, <2>2 DEF Lasting, Counted
    <2> QED BY <1>5, <2>1, <2>2
  <1>7. Distinct'
    <2>1. \A b \in Admins : request'[b].secret = request[b].secret
      OBVIOUS
    <2> QED BY <2>1 DEF Lasting, Distinct
  <1>8. CopyKnown'
    <2> SUFFICES ASSUME Exists(replica)
                 PROVE  \E j \in 1 .. Len(history') : history'[j] = replica.rounds[1]
      BY DEF CopyKnown, Exists
    <2>1. PICK j \in 1 .. Len(history) : history[j] = replica.rounds[1]
      BY DEF Lasting, CopyKnown
    <2>2. j \in 1 .. Len(history')
      BY <1>3
    <2> QED BY <1>3, <2>1, <2>2
  <1>9. WrittenOnce'
    <2> SUFFICES ASSUME NEW i \in 1 .. Len(history'), NEW j \in 1 .. Len(history'),
                        history'[i] = history'[j]
                 PROVE  i = j
      BY DEF WrittenOnce
    <2>1. CASE i \in 1 .. Len(history) /\ j \in 1 .. Len(history)
      BY <1>3, <2>1 DEF Lasting, WrittenOnce
    <2>2. CASE i \in 1 .. Len(history) /\ j = Len(history) + 1
      BY <1>3, <2>2 DEF Unwritten
    <2>3. CASE i = Len(history) + 1 /\ j \in 1 .. Len(history)
      BY <1>3, <2>3 DEF Unwritten
    <2> QED BY <1>5, <2>1, <2>2, <2>3
  <1> QED BY <1>4, <1>6, <1>7, <1>8, <1>9 DEF Lasting

-----------------------------------------------------------------------------
\* A create that finds no record, and a swap that finds the rounds it read, have
\* not written their secret before.
LEMMA FreshSecret ==
  ASSUME IInv, Lasting, NEW a \in Admins,
         \/ request[a].pc = "put" /\ ~Exists(record)
         \/ request[a].pc = "swap" /\ RoundsAsRead(a)
  PROVE  Unwritten(request[a].secret, history)
  <1>1. /\ Len(history) \in Nat
        /\ Exists(record) <=> Len(history) > 0
        /\ record.rounds \in Seq(Secrets)
    BY HistoryOfRecord
  <1>2. CASE ~Exists(record)
    BY <1>1, <1>2 DEF Unwritten
  <1>3. CASE request[a].pc = "swap" /\ RoundsAsRead(a)
    <2>1. Exists(record) /\ record.rounds = request[a].read.rounds
      BY <1>3 DEF RoundsAsRead
    <2>2. Standing(request[a], history, record.rounds, generated)
      BY DEF Lasting, AllStanding
    <2>3. PICK j \in 1 .. Len(history) :
            /\ history[j] = record.rounds[1]
            /\ \A k \in 1 .. Len(history) : history[k] = request[a].secret => j < k
      BY <1>3, <2>1, <2>2 DEF Standing, Before
    <2>4. record.rounds[1] = history[Len(history)]
      <3>1. Len(record.rounds) = Shorter(MaxSecretRounds, Len(history))
        BY DEF IInv, Latest
      <3>2. 1 \in 1 .. Len(record.rounds) /\ Len(history) + 1 - 1 = Len(history)
        BY <1>1, <2>1, <3>1, ClientsAssumption DEF Shorter
      <3> QED BY <3>2 DEF IInv, Latest
    <2>5. j = Len(history)
      BY <1>1, <2>1, <2>3, <2>4 DEF Lasting, WrittenOnce
    <2> QED BY <1>1, <2>3, <2>5 DEF Unwritten
  <1> QED BY <1>2, <1>3

\* What an applied write leaves of its request.
LEMMA AppliedRequest ==
  ASSUME IInv, NEW a \in Admins, Applied(a)
  PROVE  /\ request' \in [Admins -> Requests]
         /\ \A b \in Admins \ {a} : request'[b] = request[b]
         /\ request'[a].pc = "answered" \/ request'[a] = request[a]
         /\ request'[a].secret = request[a].secret
         /\ request'[a].since = request[a].since
         /\ request'[a].stale = request[a].stale
  <1>1. CASE Answer(a, "ok") \/ Answer(a, "error")
    BY <1>1, Answered DEF Verdicts
  <1>2. CASE UNCHANGED request
    BY <1>2 DEF IInv, TypeOK
  <1> QED BY <1>1, <1>2 DEF Applied

\* A read shows an older record only where reads may be stale.
LEMMA OlderIsStale ==
  ASSUME NEW r \in Snapshots, r # record
  PROVE  StaleReads
  BY DEF Snapshots

-----------------------------------------------------------------------------
LEMMA BeginLasting ==
  ASSUME IInv, Lasting, NEW a \in Admins, NEW map \in Maps \cup {NoMap}, NEW secret \in Nat,
         NEW pc \in {"put", "get", "deactivate", "replace"},
         Begin(a, pc, secret, map), generated' \in Nat, generated <= generated',
         generated' <= MaxSecrets, secret <= generated',
         secret # NoSecret => pc = "put" /\ secret > generated
  PROVE  Lasting'
  <1> DEFINE began == Exists(record) /\ ~record.active
             moved == [Idle EXCEPT !.pc = pc, !.secret = secret, !.map = map,
                                   !.since = Len(history), !.revoked = began]
  <1>1. /\ request \in [Admins -> Requests] /\ record \in Records
        /\ Len(history) \in Nat
    BY DEF IInv, TypeOK
  <1>2. began \in BOOLEAN
    BY <1>1 DEF Records, Exists
  <1>3. request' = [request EXCEPT ![a] = moved]
    BY DEF Begin
  <1> HIDE DEF began
  <1>4. moved \in Requests
    BY <1>1, <1>2, IdleTyped DEF Requests, Idle, Writing
  <1>5. /\ moved.pc = pc /\ moved.secret = secret /\ moved.since = Len(history)
        /\ moved.stale = FALSE
    BY DEF Idle
  <1> HIDE DEF moved
  <1>6. /\ request' \in [Admins -> Requests] /\ request'[a] = moved
        /\ \A b \in Admins \ {a} : request'[b] = request[b]
    BY <1>1, <1>3, <1>4
  <1>7. Standing(moved, history, record.rounds, generated')
    BY <1>1, <1>5 DEF Standing
  <1>8. UNCHANGED <<record, replica, history>>
    BY DEF Begin
  <1> QED BY <1>5, <1>6, <1>7, <1>8, QuietLasting

\* A request is answered without a write.
LEMMA AnsweredLasting ==
  ASSUME IInv, Lasting, NEW a \in Admins, NEW verdict \in Verdicts,
         Answer(a, verdict) \/ \E r \in Snapshots : AnswerFrom(a, r, verdict),
         UNCHANGED <<replica, generated, history>>, record'.rounds = record.rounds
  PROVE  Lasting'
  <1>1. /\ request' \in [Admins -> Requests]
        /\ \A b \in Admins \ {a} : request'[b] = request[b]
        /\ request'[a].pc = "answered"
        /\ request'[a].secret = request[a].secret
        /\ request'[a].since = request[a].since
    BY Answered, AnsweredFrom
  <1>2. Standing(request[a], history, record.rounds, generated)
    BY DEF Lasting, AllStanding
  <1>3. request'[a].stale => StaleReads
    <2>1. CASE Answer(a, verdict)
      BY <1>2, <2>1, Answered DEF Standing
    <2>2. ASSUME NEW r \in Snapshots, AnswerFrom(a, r, verdict), request'[a].stale
          PROVE  StaleReads
      <3>1. request \in [Admins -> Requests]
        BY DEF IInv, TypeOK
      <3>2. request'[a] = [request[a] EXCEPT !.pc = "answered", !.verdict = verdict,
                                             !.stale = @ \/ r # record]
        BY <2>2, <3>1 DEF AnswerFrom
      <3>3. request'[a].stale = (request[a].stale \/ r # record)
        BY <3>1, <3>2 DEF Requests
      <3> QED BY <1>2, <2>2, <3>3, OlderIsStale DEF Standing
    <2> QED BY <2>1, <2>2
  <1>4. Standing(request'[a], history, record.rounds, generated')
    BY <1>1, <1>2, <1>3 DEF Standing
  <1>5. generated \in Nat /\ generated <= generated' /\ generated' <= MaxSecrets
    BY DEF IInv, TypeOK, Lasting, Counted
  <1> QED BY <1>1, <1>4, <1>5, QuietLasting

LEMMA SetLasting ==
  ASSUME IInv, Lasting, NEW a \in Admins, request[a].pc \in {"deactivate", "replace"},
         NEW written, written.rounds = record.rounds, SetAttribute(a, written)
  PROVE  Lasting'
  <1>1. UNCHANGED <<replica, generated, history>>
    BY DEF SetAttribute
  <1>2. CASE ~Exists(record)
    BY <1>1, <1>2, AnsweredLasting DEF SetAttribute, Verdicts
  <1>3. CASE Exists(record)
    <2>1. record'.rounds = record.rounds /\ Applied(a)
      BY <1>3 DEF SetAttribute
    <2>2. CASE Answer(a, "ok") \/ Answer(a, "error")
      BY <1>1, <2>1, <2>2, AnsweredLasting DEF Verdicts
    <2>3. CASE UNCHANGED request
      <3>1. Standing(request[a], history, record.rounds, generated)
        BY DEF Lasting, AllStanding
      <3>2. generated \in Nat /\ generated <= generated' /\ generated' <= MaxSecrets
        BY <1>1 DEF IInv, TypeOK, Lasting, Counted
      <3>3. request' \in [Admins -> Requests]
        BY <2>3 DEF IInv, TypeOK
      <3> QED BY <1>1, <2>1, <2>3, <3>1, <3>2, <3>3, QuietLasting
    <2> QED BY <2>1, <2>2, <2>3 DEF Applied
  <1> QED BY <1>2, <1>3

LEMMA PutLasting ==
  ASSUME IInv, Lasting, NEW a \in Admins, PutRecord(a)
  PROVE  Lasting'
  <1>1. request[a].pc = "put" /\ UNCHANGED <<replica, generated>>
    BY DEF PutRecord
  <1>2. CASE Exists(record)
    BY <1>1, <1>2, AnsweredLasting DEF PutRecord, Verdicts
  <1>3. CASE ~Exists(record)
    <2>1. history' = Append(history, request[a].secret) /\ Applied(a)
      BY <1>3 DEF PutRecord
    <2>2. Unwritten(request[a].secret, history)
      BY <1>1, <1>3, FreshSecret
    <2> QED BY <1>1, <2>1, <2>2, AppliedRequest, WriteLasting
  <1> QED BY <1>2, <1>3

LEMMA GetLasting ==
  ASSUME IInv, Lasting, NEW a \in Admins, GetForRotation(a)
  PROVE  Lasting'
  <1>1. PICK r \in Snapshots :
          IF Rotatable(r)
            THEN /\ generated < MaxSecrets
                 /\ generated' = generated + 1
                 /\ request' = [request EXCEPT ![a].pc = "swap", ![a].read = r,
                                               ![a].secret = generated + 1,
                                               ![a].stale = r # record]
            ELSE /\ AnswerFrom(a, r, IF Exists(r) THEN "inactive" ELSE "notfound")
                 /\ UNCHANGED generated
    BY DEF GetForRotation
  <1>2. UNCHANGED <<record, replica, history>>
    BY DEF GetForRotation
  <1>3. CASE ~Rotatable(r)
    BY <1>1, <1>2, <1>3, AnsweredLasting DEF Verdicts
  <1>4. CASE Rotatable(r)
    <2>1. /\ generated \in Nat /\ history \in Seq(Secrets)
          /\ request \in [Admins -> Requests] /\ r \in Records
      BY DEF IInv, TypeOK, Snapshots
    <2> DEFINE s == generated + 1
               older == r # record
               moved == [request[a] EXCEPT !.pc = "swap", !.read = r, !.secret = s,
                                           !.stale = older]
    <2>2. s \in Nat /\ s > generated /\ generated' = s /\ generated <= s
      BY <1>1, <1>4, <2>1
    <2>3. s <= MaxSecrets
      BY <1>1, <1>4, <2>1, ClientsAssumption
    <2>4. request' = [request EXCEPT ![a] = moved]
      BY <1>1, <1>4
    <2> HIDE DEF s
    <2>5. moved \in Requests
      BY <2>1, <2>2 DEF Requests, Writing
    <2>6. /\ moved.pc = "swap" /\ moved.read = r /\ moved.secret = s
          /\ moved.stale = older /\ moved.since = request[a].since
      BY <2>1 DEF Requests
    <2> HIDE DEF moved
    <2>7. /\ request' \in [Admins -> Requests] /\ request'[a] = moved
          /\ \A b \in Admins \ {a} : request'[b] = request[b]
      BY <2>1, <2>4, <2>5
    <2>8. r.rounds # <<>>
      BY <1>4 DEF Rotatable, Exists
    <2>9. \E j \in 1 .. Len(history) : history[j] = r.rounds[1]
      <3>1. CASE r = replica
        BY <2>8, <3>1 DEF Lasting, CopyKnown, Exists
      <3>2. CASE r = record
        <4>1. Len(record.rounds) = Shorter(MaxSecretRounds, Len(history))
          BY DEF IInv, Latest
        <4>2. Len(history) \in Nat /\ Len(history) > 0
          BY <2>8, <3>2, HistoryOfRecord DEF Exists
        <4>3. /\ 1 \in 1 .. Len(record.rounds) /\ Len(history) + 1 - 1 = Len(history)
              /\ Len(history) \in 1 .. Len(history)
          BY <4>1, <4>2, ClientsAssumption DEF Shorter
        <4> QED BY <3>2, <4>3 DEF IInv, Latest
      <3> QED BY <3>1, <3>2 DEF Snapshots
    <2>10. \A k \in 1 .. Len(history) : history[k] # s
      <3> SUFFICES ASSUME NEW k \in 1 .. Len(history) PROVE history[k] # s
        OBVIOUS
      <3>1. history[k] <= generated /\ history[k] \in Nat
        BY <2>1 DEF Lasting, Counted, Secrets
      <3> QED BY <2>1, <2>2, <3>1
    <2>11. Before(r.rounds[1], s, history)
      BY <2>9, <2>10 DEF Before
    <2>12. request[a].since <= Len(history)
      BY DEF Lasting, AllStanding, Standing
    <2>13. s <= s
      BY <2>2
    <2>14. Standing(moved, history, record.rounds, s)
      BY <2>6, <2>8, <2>11, <2>12, <2>13, OlderIsStale DEF Standing
    <2> QED BY <1>2, <2>2, <2>3, <2>6, <2>7, <2>14, QuietLasting
  <1> QED BY <1>3, <1>4

LEMMA SwapLasting ==
  ASSUME IInv, Lasting, NEW a \in Admins, SwapRounds(a)
  PROVE  Lasting'
  <1>1. request[a].pc = "swap" /\ UNCHANGED <<replica, generated>>
    BY DEF SwapRounds
  <1>2. Standing(request[a], history, record.rounds, generated)
    BY DEF Lasting, AllStanding
  <1>3. CASE RoundsAsRead(a)
    <2>1. history' = Append(history, request[a].secret) /\ Applied(a)
      BY <1>3 DEF SwapRounds
    <2>2. Unwritten(request[a].secret, history)
      BY <1>1, <1>3, FreshSecret
    <2> QED BY <1>1, <2>1, <2>2, AppliedRequest, WriteLasting
  <1>4. CASE ~RoundsAsRead(a)
    <2> DEFINE moved == [request[a] EXCEPT !.pc = "reread"]
    <2>1. request' = [request EXCEPT ![a] = moved] /\ UNCHANGED <<record, history>>
      BY <1>4 DEF SwapRounds
    <2>2. request \in [Admins -> Requests] /\ request[a] \in Requests
      BY DEF IInv, TypeOK
    <2>3. /\ moved \in Requests /\ moved.pc = "reread"
          /\ moved.secret = request[a].secret /\ moved.since = request[a].since
          /\ moved.stale = request[a].stale
      BY <2>2 DEF Requests
    <2> HIDE DEF moved
    <2>4. /\ request' \in [Admins -> Requests] /\ request'[a] = moved
          /\ \A b \in Admins \ {a} : request'[b] = request[b]
      BY <2>1, <2>2, <2>3
    <2>5. request[a].stale \/ request[a].since < Len(history)
      BY <1>1, <1>2, <1>4 DEF Standing, RoundsAsRead, Exists
    <2>6. Standing(moved, history, record.rounds, generated')
      BY <1>1, <1>2, <2>3, <2>5 DEF Standing
    <2>7. generated \in Nat /\ generated <= generated' /\ generated' <= MaxSecrets
      BY <1>1 DEF IInv, TypeOK, Lasting, Counted
    <2> QED BY <1>1, <2>1, <2>3, <2>4, <2>6, <2>7, QuietLasting
  <1> QED BY <1>3, <1>4

LEMMA ReceiveLasting ==
  ASSUME IInv, Lasting, NEW a \in Admins, Receive(a)
  PROVE  Lasting'
  <1>1. /\ request \in [Admins -> Requests] /\ generated \in Nat
        /\ Len(history) \in Nat
    BY DEF IInv, TypeOK
  <1>2. /\ request' = [request EXCEPT ![a] = Idle]
        /\ UNCHANGED <<record, replica, generated, history>>
    BY DEF Receive
  <1>3. /\ request' \in [Admins -> Requests] /\ request'[a] = Idle
        /\ \A b \in Admins \ {a} : request'[b] = request[b]
    BY <1>1, <1>2, IdleTyped
  <1>4. Idle.secret = NoSecret /\ Standing(Idle, history, record.rounds, generated)
    BY <1>1 DEF Standing, Idle, NoSecret
  <1>5. generated <= generated' /\ generated' <= MaxSecrets
    BY <1>1, <1>2 DEF Lasting, Counted
  <1> QED BY <1>1, <1>2, <1>3, <1>4, <1>5, QuietLasting

\* The copy shows the record, whose newest round is the last secret written.
LEMMA ReplicateLasting ==
  ASSUME IInv, Lasting, Replicate
  PROVE  Lasting'
  <1>1. /\ replica' = record
        /\ UNCHANGED <<record, request, generated, history>>
    BY DEF Replicate
  <1>2. CopyKnown'
    <2> SUFFICES ASSUME Exists(record)
                 PROVE  \E j \in 1 .. Len(history) : history[j] = record.rounds[1]
      BY <1>1 DEF CopyKnown, Exists
    <2>1. Len(record.rounds) = Shorter(MaxSecretRounds, Len(history))
      BY DEF IInv, Latest
    <2>2. Len(history) \in Nat /\ Len(history) > 0
      BY HistoryOfRecord
    <2>3. /\ 1 \in 1 .. Len(record.rounds) /\ Len(history) + 1 - 1 = Len(history)
          /\ Len(history) \in 1 .. Len(history)
      BY <2>1, <2>2, ClientsAssumption DEF Shorter
    <2> QED BY <2>3 DEF IInv, Latest
  <1>3. AllStanding' /\ Counted' /\ Distinct' /\ WrittenOnce'
    BY <1>1 DEF Lasting, AllStanding, Counted, Distinct, WrittenOnce
  <1> QED BY <1>2, <1>3 DEF Lasting

LEMMA NextLasting == IInv /\ Lasting /\ [Next]_vars => Lasting'
  <1> SUFFICES ASSUME IInv, Lasting, [Next]_vars PROVE Lasting'
    OBVIOUS
  <1>1. CASE UNCHANGED vars
    BY <1>1 DEF vars, Lasting, AllStanding, Counted, Distinct, CopyKnown, Exists, WrittenOnce
  <1>2. CASE Replicate
    BY <1>2, ReplicateLasting
  <1>3. ASSUME NEW a \in Admins, AdminStep(a) PROVE Lasting'
    <2>1. /\ generated \in Nat /\ generated <= generated /\ generated <= MaxSecrets
          /\ generated + 1 \in Nat /\ generated + 1 > generated
          /\ generated <= generated + 1 /\ generated + 1 <= generated + 1
      BY DEF IInv, TypeOK, Lasting, Counted
    <2>2. NoSecret \in Nat /\ NoSecret <= generated /\ NoMap \in Maps \cup {NoMap}
      BY <2>1 DEF NoSecret
    <2>3. ASSUME NEW map \in Maps, Create(a, map) PROVE Lasting'
      <3>1. /\ generated' = generated + 1 /\ generated < MaxSecrets
            /\ Begin(a, "put", generated + 1, map)
        BY <2>3 DEF Create
      <3>2. generated + 1 <= MaxSecrets
        BY <2>1, <3>1, ClientsAssumption
      <3> HIDE DEF Begin
      <3> QED BY <2>1, <3>1, <3>2, BeginLasting
    <2>4. ASSUME NEW map \in Maps, Update(a, map) PROVE Lasting'
      <3>1. Begin(a, "replace", NoSecret, map) /\ generated' = generated
        BY <2>4 DEF Update
      <3>2. /\ generated' \in Nat /\ NoSecret <= generated'
            /\ generated <= generated' /\ generated' <= MaxSecrets
        BY <2>1, <2>2, <3>1
      <3> QED BY <2>1, <2>2, <3>1, <3>2, BeginLasting
    <2>5. CASE Rotate(a)
      <3>1. Begin(a, "get", NoSecret, NoMap) /\ generated' = generated
        BY <2>5 DEF Rotate
      <3>2. /\ generated' \in Nat /\ NoSecret <= generated'
            /\ generated <= generated' /\ generated' <= MaxSecrets
        BY <2>1, <2>2, <3>1
      <3> QED BY <2>1, <2>2, <3>1, <3>2, BeginLasting
    <2>6. CASE Revoke(a)
      <3>1. Begin(a, "deactivate", NoSecret, NoMap) /\ generated' = generated
        BY <2>6 DEF Revoke
      <3>2. /\ generated' \in Nat /\ NoSecret <= generated'
            /\ generated <= generated' /\ generated' <= MaxSecrets
        BY <2>1, <2>2, <3>1
      <3> QED BY <2>1, <2>2, <3>1, <3>2, BeginLasting
    <2>7. CASE Malformed(a)
      BY <2>7, AnsweredLasting DEF Malformed, Verdicts
    <2>8. CASE PutRecord(a)
      BY <2>8, PutLasting
    <2>9. CASE Deactivate(a)
      <3>1. [record EXCEPT !.active = FALSE].rounds = record.rounds
        BY DEF IInv, TypeOK, Records
      <3> QED BY <2>9, <3>1, SetLasting DEF Deactivate
    <2>10. CASE ReplaceAudiences(a)
      <3>1. [record EXCEPT !.audiences = request[a].map].rounds = record.rounds
        BY DEF IInv, TypeOK, Records
      <3> QED BY <2>10, <3>1, SetLasting DEF ReplaceAudiences
    <2>11. CASE GetForRotation(a)
      BY <2>11, GetLasting
    <2>12. CASE SwapRounds(a)
      BY <2>12, SwapLasting
    <2>13. CASE Reread(a)
      BY <2>13, AnsweredLasting DEF Reread, RefusedVerdict, Verdicts
    <2>14. CASE Fail(a)
      BY <2>14, AnsweredLasting DEF Fail, Verdicts
    <2>15. CASE Receive(a)
      BY <2>15, ReceiveLasting
    <2> QED BY <1>3, <2>3, <2>4, <2>5, <2>6, <2>7, <2>8, <2>9, <2>10, <2>11,
               <2>12, <2>13, <2>14, <2>15 DEF AdminStep
  <1> QED BY <1>1, <1>2, <1>3 DEF Next

LEMMA InitLasting == Init => Lasting
  <1> SUFFICES ASSUME Init PROVE Lasting
    OBVIOUS
  <1>1. /\ history = <<>> /\ Len(history) = 0 /\ generated = 0
        /\ replica.rounds = <<>> /\ \A a \in Admins : request[a] = Idle
    BY DEF Init, NoRecord
  <1>2. AllStanding
    <2>1. Standing(Idle, history, record.rounds, generated)
      BY <1>1 DEF Standing, Idle, NoSecret
    <2> QED BY <1>1, <2>1 DEF AllStanding
  <1>3. Counted /\ Distinct /\ CopyKnown /\ WrittenOnce
    BY <1>1, ClientsAssumption DEF Counted, Distinct, CopyKnown, WrittenOnce, Exists,
                                   Idle, NoSecret
  <1> QED BY <1>2, <1>3 DEF Lasting

\* No secret is written twice, although a write whose answer is lost is sent
\* again: what makes the record ready for it the first time is gone the second
\* (PutItem if attribute_not_exists, UpdateItem if secretRounds = :expected).
THEOREM SecretsWrittenOnce == Spec => []WrittenOnce
  <1>1. Lasting => WrittenOnce
    BY DEF Lasting
  <1> QED BY <1>1, InitLasting, NextLasting, Inductive, PTL DEF Spec

-----------------------------------------------------------------------------
(***************************************************************************)
(* The requests as the promise sees them, and how one of them moves.       *)
(***************************************************************************)
Ops == [b \in Admins |-> Operation(request[b].pc)]
Calls == [b \in Admins |-> Call(request[b])]

LEMMA OneMoves ==
  ASSUME IInv, NEW a \in Admins, request' \in [Admins -> Requests],
         \A b \in Admins \ {a} : /\ request'[b] = request[b]
                                 /\ WrittenSecret(request[b].secret)' =
                                      WrittenSecret(request[b].secret)
  PROVE  /\ Ops' = [Ops EXCEPT ![a] = Operation(request'[a].pc)]
         /\ Calls' = [Calls EXCEPT ![a] = Call(request[a])']
  <1>1. \A b \in Admins \ {a} : Call(request[b])' = Call(request[b])
    BY DEF Call
  <1> QED BY <1>1 DEF Ops, Calls

\* The secrets the others carry are written or not as before.
LEMMA SameSecrets ==
  ASSUME history' = history
  PROVE  \A s : WrittenSecret(s)' = WrittenSecret(s)
  BY DEF WrittenSecret

LEMMA OneMoreWritten ==
  ASSUME history \in Seq(Secrets), NEW s \in Secrets, history' = Append(history, s)
  PROVE  /\ WrittenSecret(s)' = s
         /\ \A t : t # s => WrittenSecret(t)' = WrittenSecret(t)
  <1>1. /\ Len(history) \in Nat /\ Len(history') = Len(history) + 1
        /\ history'[Len(history) + 1] = s
        /\ \A i \in 1 .. Len(history) : history'[i] = history[i]
    BY Longer
  <1>2. Len(history) + 1 \in 1 .. Len(history')
    BY <1>1
  <1>3. ASSUME NEW t, t # s
        PROVE  (\E i \in 1 .. Len(history') : history'[i] = t)
                 <=> \E i \in 1 .. Len(history) : history[i] = t
    <2>1. ASSUME NEW i \in 1 .. Len(history'), history'[i] = t
          PROVE  i \in 1 .. Len(history) /\ history[i] = t
      BY <1>1, <1>3, <2>1
    <2>2. ASSUME NEW i \in 1 .. Len(history), history[i] = t
          PROVE  i \in 1 .. Len(history') /\ history'[i] = t
      BY <1>1, <2>2
    <2> QED BY <2>1, <2>2
  <1> QED BY <1>1, <1>2, <1>3 DEF WrittenSecret

\* There is a record when a secret has been written.
LEMMA PresentRecord ==
  ASSUME IInv
  PROVE  Promise!Present <=> Exists(record)
  <1>1. history \in Seq(Secrets)
    BY DEF IInv, TypeOK
  <1>2. history # <<>> <=> Len(history) > 0
    BY <1>1
  <1> QED BY <1>2, HistoryOfRecord DEF Promise!Present

-----------------------------------------------------------------------------
\* A request begins.
LEMMA AskPromised ==
  ASSUME IInv, NEW a \in Admins, NEW map, NEW secret,
         NEW pc \in {"put", "get", "deactivate", "replace"},
         Begin(a, pc, secret, map), request' \in [Admins -> Requests],
         WrittenSecret(secret) = NoSecret
  PROVE  Promise!Ask(a, Operation(pc), map)
  <1> DEFINE began == Exists(record) /\ ~record.active
  <1>1. /\ request \in [Admins -> Requests] /\ request[a].pc = "idle"
        /\ UNCHANGED <<record, history>>
    BY DEF IInv, TypeOK, Begin
  <1>2. /\ request'[a] = [Idle EXCEPT !.pc = pc, !.secret = secret, !.map = map,
                                      !.since = Len(history), !.revoked = began]
        /\ \A b \in Admins \ {a} : request'[b] = request[b]
    BY <1>1 DEF Begin
  <1>3. /\ Ops' = [Ops EXCEPT ![a] = Operation(request'[a].pc)]
        /\ Calls' = [Calls EXCEPT ![a] = Call(request[a])']
    BY <1>1, <1>2, SameSecrets, OneMoves
  <1> HIDE DEF began
  <1>4. request'[a].pc = pc
    BY <1>2 DEF Idle
  <1>5. Call(request[a])' = [map |-> map, secret |-> NoSecret, verdict |-> "ok",
                             since |-> Len(history), revoked |-> began, stale |-> FALSE]
    BY <1>1, <1>2, SameSecrets DEF Call, Idle
  <1> DEFINE revoked == Promise!Present /\ ~record.active
  <1>6. revoked = began
    BY PresentRecord DEF began
  <1> HIDE DEF revoked
  <1>7. ASSUME NEW asked,
               asked = [Promise!NoCall EXCEPT !.map = map, !.since = Len(history),
                                              !.revoked = revoked]
        PROVE  asked = [map |-> map, secret |-> NoSecret, verdict |-> "ok",
                        since |-> Len(history), revoked |-> revoked, stale |-> FALSE]
    BY <1>7, Zenon DEF Promise!NoCall
  <1>8. Ops[a] = "none"
    BY <1>1 DEF Ops, Operation
  <1> QED BY <1>1, <1>3, <1>4, <1>5, <1>6, <1>7, <1>8
       DEF Promise!Ask, Promise!Goto, Ops, Calls, revoked

\* A request of the wrong form.
LEMMA RejectPromised ==
  ASSUME IInv, NEW a \in Admins, Malformed(a)
  PROVE  Promise!Reject(a)
  <1>1. /\ request \in [Admins -> Requests] /\ request[a].pc = "idle"
        /\ UNCHANGED <<record, history>> /\ Answer(a, "invalid")
    BY DEF IInv, TypeOK, Malformed
  <1>2. /\ request' \in [Admins -> Requests]
        /\ \A b \in Admins \ {a} : request'[b] = request[b]
    BY <1>1, Answered DEF Verdicts
  <1>3. request'[a] = [request[a] EXCEPT !.pc = "answered", !.verdict = "invalid"]
    BY <1>1 DEF Answer
  <1>4. /\ Ops' = [Ops EXCEPT ![a] = Operation(request'[a].pc)]
        /\ Calls' = [Calls EXCEPT ![a] = Call(request[a])']
    BY <1>1, <1>2, SameSecrets, OneMoves
  <1>5. Call(request[a])' = [Call(request[a]) EXCEPT !.verdict = "invalid"]
    BY <1>1, <1>3, SameSecrets DEF Call, Requests
  <1>6. Operation(request'[a].pc) = "answered" /\ Ops[a] = "none"
    BY <1>1, <1>3 DEF Ops, Operation, Requests
  <1>7. Calls' = [Calls EXCEPT ![a].verdict = "invalid"]
    BY <1>4, <1>5 DEF Calls
  <1> QED BY <1>1, <1>4, <1>6, <1>7 DEF Promise!Reject, Promise!Goto, Ops, Calls

\* How the promise sees a request that changes in some of its fields.
LEMMA CallRefused ==
  ASSUME NEW q, NEW verdict, NEW stale, NEW call,
         call = [Call(q) EXCEPT !.verdict = verdict, !.stale = stale]
  PROVE  call = [map |-> q.map, secret |-> WrittenSecret(q.secret), verdict |-> verdict,
                 since |-> q.since, revoked |-> q.revoked, stale |-> stale]
  BY Zenon DEF Call

LEMMA CallWritten ==
  ASSUME NEW q, NEW secret, NEW call, call = [Call(q) EXCEPT !.secret = secret]
  PROVE  call = [map |-> q.map, secret |-> secret, verdict |-> q.verdict,
                 since |-> q.since, revoked |-> q.revoked, stale |-> q.stale]
  BY Zenon DEF Call

LEMMA CallAnswered ==
  ASSUME NEW q, NEW secret, NEW verdict, NEW call,
         call = [Call(q) EXCEPT !.secret = secret, !.verdict = verdict]
  PROVE  call = [map |-> q.map, secret |-> secret, verdict |-> verdict,
                 since |-> q.since, revoked |-> q.revoked, stale |-> q.stale]
  BY Zenon DEF Call

LEMMA CallLagged ==
  ASSUME NEW q, NEW stale, NEW call, call = [Call(q) EXCEPT !.stale = stale]
  PROVE  call = [map |-> q.map, secret |-> WrittenSecret(q.secret), verdict |-> q.verdict,
                 since |-> q.since, revoked |-> q.revoked, stale |-> stale]
  BY Zenon DEF Call

\* A request is refused: with a cause, or after a look at an older record, or
\* because the table did not take the call.
LEMMA RefusePromised ==
  ASSUME IInv, NEW a \in Admins, NEW stale,
         NEW verdict \in {"exists", "notfound", "inactive", "conflict", "error"},
         request[a].pc \in Writing \cup {"get", "reread"},
         request' = [request EXCEPT ![a].pc = "answered", ![a].verdict = verdict,
                                    ![a].stale = stale],
         UNCHANGED <<record, history>>,
         \/ Promise!Cause(a, verdict) /\ stale = request[a].stale
         \/ /\ StaleReads /\ request[a].pc \in {"get", "reread"}
            /\ verdict \in {"notfound", "inactive", "conflict"} /\ stale = TRUE
         \/ verdict = "error" /\ stale = request[a].stale
  PROVE  Promise!Refuse(a)
  <1>1. request \in [Admins -> Requests] /\ request[a] \in Requests
    BY DEF IInv, TypeOK
  <1>2. request'[a] = [request[a] EXCEPT !.pc = "answered", !.verdict = verdict,
                                         !.stale = stale]
    BY <1>1
  <1>3. stale \in BOOLEAN
    BY <1>1 DEF Requests
  <1>4. /\ request' \in [Admins -> Requests]
        /\ \A b \in Admins \ {a} : request'[b] = request[b]
    BY <1>1, <1>3 DEF Requests, Verdicts
  <1>5. /\ Ops' = [Ops EXCEPT ![a] = Operation(request'[a].pc)]
        /\ Calls' = [Calls EXCEPT ![a] = Call(request[a])']
    BY <1>4, SameSecrets, OneMoves
  <1>6. Call(request[a])' = [Call(request[a]) EXCEPT !.verdict = verdict, !.stale = stale]
    <2>1. /\ request'[a].map = request[a].map /\ request'[a].secret = request[a].secret
          /\ request'[a].since = request[a].since
          /\ request'[a].revoked = request[a].revoked
          /\ request'[a].verdict = verdict /\ request'[a].stale = stale
      BY <1>1, <1>2 DEF Requests
    <2>2. Call(request[a])' =
            [map |-> request[a].map, secret |-> WrittenSecret(request[a].secret),
             verdict |-> verdict, since |-> request[a].since,
             revoked |-> request[a].revoked, stale |-> stale]
      BY <2>1, SameSecrets DEF Call
    <2> QED BY <2>2, CallRefused
  <1>7. request'[a].pc = "answered"
    BY <1>1, <1>2 DEF Requests
  <1>8. Operation(request'[a].pc) = "answered"
    BY <1>7 DEF Operation
  <1>9. /\ Ops[a] \in Promise!Operations
        /\ request[a].pc \in {"get", "reread"} => Ops[a] = "rotate"
    BY DEF Ops, Operation, Promise!Operations, Writing
  <1>10. Calls' = [Calls EXCEPT ![a].verdict = verdict, ![a].stale = stale]
    BY <1>5, <1>6 DEF Calls
  <1>11. Calls[a].stale = request[a].stale
    BY DEF Calls, Call
  <1>12. Promise!Goto(a, "answered")
    BY <1>5, <1>8 DEF Promise!Goto, Ops
  <1>13. Promise!Verdict(a, verdict, stale)
    BY <1>10 DEF Promise!Verdict, Calls
  <1> QED BY <1>9, <1>11, <1>12, <1>13 DEF Promise!Refuse, Ops, Calls

\* An answer as a refusal.
LEMMA AnswerAsRefused ==
  ASSUME IInv, NEW a \in Admins, NEW verdict, Answer(a, verdict)
  PROVE  request' = [request EXCEPT ![a].pc = "answered", ![a].verdict = verdict,
                                    ![a].stale = request[a].stale]
  <1>1. request \in [Admins -> Requests] /\ request[a] \in Requests
    BY DEF IInv, TypeOK
  <1> QED BY <1>1 DEF Answer, Requests

\* A write takes effect: it is answered so, or fails all the same, or nobody has
\* heard of it yet.
LEMMA EffectPromised ==
  ASSUME IInv, NEW a \in Admins, Applied(a), NEW secret,
         WrittenSecret(request[a].secret)' = secret,
         \A b \in Admins \ {a} :
           WrittenSecret(request[b].secret)' = WrittenSecret(request[b].secret)
  PROVE  Promise!Effect(a, secret)
  <1>1. /\ request \in [Admins -> Requests] /\ request' \in [Admins -> Requests]
        /\ \A b \in Admins \ {a} : request'[b] = request[b]
    BY AppliedRequest DEF IInv, TypeOK
  <1>2. /\ Ops' = [Ops EXCEPT ![a] = Operation(request'[a].pc)]
        /\ Calls' = [Calls EXCEPT ![a] = Call(request[a])']
    BY <1>1, OneMoves
  <1>3. CASE UNCHANGED request
    <2>1. Call(request[a])' =
            [map |-> request[a].map, secret |-> secret, verdict |-> request[a].verdict,
             since |-> request[a].since, revoked |-> request[a].revoked,
             stale |-> request[a].stale]
      BY <1>3 DEF Call
    <2>2. Call(request[a])' = [Call(request[a]) EXCEPT !.secret = secret]
      BY <2>1, CallWritten
    <2>3. Calls' = [Calls EXCEPT ![a].secret = secret]
      BY <1>2, <2>2 DEF Calls
    <2>4. Ops' = Ops
      BY <1>3 DEF Ops
    <2> QED BY <2>3, <2>4 DEF Promise!Effect, Ops, Calls
  <1>4. ASSUME NEW verdict \in {"ok", "error"}, Answer(a, verdict)
        PROVE  Promise!Effect(a, secret)
    <2>1. request'[a] = [request[a] EXCEPT !.pc = "answered", !.verdict = verdict]
      BY <1>1, <1>4 DEF Answer
    <2>2. /\ request'[a].map = request[a].map /\ request'[a].secret = request[a].secret
          /\ request'[a].since = request[a].since
          /\ request'[a].revoked = request[a].revoked
          /\ request'[a].stale = request[a].stale
          /\ request'[a].verdict = verdict /\ request'[a].pc = "answered"
      BY <1>1, <2>1 DEF Requests
    <2>3. Call(request[a])' =
            [map |-> request[a].map, secret |-> secret, verdict |-> verdict,
             since |-> request[a].since, revoked |-> request[a].revoked,
             stale |-> request[a].stale]
      BY <2>2 DEF Call
    <2>4. Call(request[a])' = [Call(request[a]) EXCEPT !.secret = secret, !.verdict = verdict]
      BY <2>3, CallAnswered
    <2>5. Calls' = [Calls EXCEPT ![a].secret = secret, ![a].verdict = verdict]
      BY <1>2, <2>4 DEF Calls
    <2>6. Operation(request'[a].pc) = "answered"
      BY <2>2 DEF Operation
    <2>7. Promise!Goto(a, "answered")
      BY <1>2, <2>6 DEF Promise!Goto, Ops
    <2> QED BY <2>5, <2>7 DEF Promise!Effect, Ops, Calls
  <1> QED BY <1>3, <1>4 DEF Applied

\* A request writes a new secret: it is one of Secrets that nobody had written.
LEMMA WritePromised ==
  ASSUME IInv, Lasting, NEW a \in Admins, request[a].pc \in {"put", "swap"}, Applied(a),
         Unwritten(request[a].secret, history),
         history' = Append(history, request[a].secret)
  PROVE  Promise!Write(a)
  <1> DEFINE s == request[a].secret
  <1>1. /\ history \in Seq(Secrets) /\ request[a] \in Requests /\ generated \in Nat
        /\ \A b \in Admins \ {a} : request'[b] = request[b]
        /\ request'[a].secret = s
    BY AppliedRequest DEF IInv, TypeOK
  <1>2. s \in Secrets /\ s <= generated /\ generated <= MaxSecrets
    BY DEF IInv, Carried, Lasting, AllStanding, Standing, Counted
  <1>3. s \in 1 .. MaxSecrets
    BY <1>1, <1>2, ClientsAssumption DEF Secrets
  <1>4. /\ WrittenSecret(s)' = s
        /\ \A t : t # s => WrittenSecret(t)' = WrittenSecret(t)
    BY <1>1, <1>2, OneMoreWritten
  <1>5. \A b \in Admins \ {a} :
          WrittenSecret(request[b].secret)' = WrittenSecret(request[b].secret)
    <2> SUFFICES ASSUME NEW b \in Admins \ {a}
                 PROVE  WrittenSecret(request[b].secret)' = WrittenSecret(request[b].secret)
      OBVIOUS
    <2>1. request[b].secret # s
      BY <1>2 DEF Lasting, Distinct, Secrets, NoSecret
    <2>2. request'[b].secret = request[b].secret
      BY <1>1
    <2> QED BY <1>4, <2>1, <2>2
  <1>6. WrittenSecret(request[a].secret)' = s
    BY <1>1, <1>4
  <1>7. Promise!Effect(a, s)
    BY <1>5, <1>6, EffectPromised
  <1>8. Calls[a].secret = NoSecret
    BY DEF Calls, Call, WrittenSecret, Unwritten
  <1> QED BY <1>3, <1>7, <1>8 DEF Promise!Write, Unwritten, Calls

\* The newest secrets as the promise lists them are the rounds.
LEMMA NewestAreRounds ==
  ASSUME NEW hist \in Seq(Secrets), NEW rounds \in Seq(Secrets), Latest(rounds, hist)
  PROVE  Promise!Newest(hist) = rounds
  <1>1. /\ Len(hist) \in Nat /\ Len(rounds) \in Nat
        /\ Len(rounds) = Shorter(MaxSecretRounds, Len(hist))
        /\ \A i \in 1 .. Len(rounds) : rounds[i] = hist[Len(hist) + 1 - i]
    BY DEF Latest
  <1>2. Len(rounds) = IF Len(hist) < MaxSecretRounds THEN Len(hist) ELSE MaxSecretRounds
    BY <1>1, ClientsAssumption DEF Shorter
  <1>3. rounds = [i \in 1 .. Len(rounds) |-> rounds[i]]
    OBVIOUS
  <1> QED BY <1>1, <1>2, <1>3 DEF Promise!Newest

LEMMA PutPromised ==
  ASSUME IInv, Lasting, IInv', NEW a \in Admins, PutRecord(a)
  PROVE  Promise!Create(a) \/ Promise!Refuse(a)
  <1>1. request[a].pc = "put" /\ request[a] \in Requests
    BY DEF PutRecord, IInv, TypeOK
  <1>2. Ops[a] = "create"
    BY <1>1 DEF Ops, Operation
  <1>3. CASE Exists(record)
    <2>1. Answer(a, "exists") /\ UNCHANGED <<record, history>>
      BY <1>3 DEF PutRecord
    <2>2. Promise!Cause(a, "exists")
      BY <1>2, <1>3, PresentRecord DEF Promise!Cause, Ops
    <2> QED BY <1>1, <2>1, <2>2, RefusePromised, AnswerAsRefused DEF Writing
  <1>4. CASE ~Exists(record)
    <2>1. /\ record' = [rounds |-> <<request[a].secret>>, active |-> TRUE,
                        audiences |-> request[a].map]
          /\ history' = Append(history, request[a].secret)
          /\ Applied(a)
      BY <1>4 DEF PutRecord
    <2>2. Unwritten(request[a].secret, history)
      BY <1>1, <1>4, FreshSecret
    <2>3. Promise!Write(a)
      BY <1>1, <2>1, <2>2, WritePromised
    <2>4. Promise!Newest(history') = record'.rounds
      BY NewestAreRounds DEF IInv, TypeOK, Records
    <2>5. Calls[a].map = request[a].map
      BY DEF Calls, Call
    <2>6. ~Promise!Present
      BY <1>4, PresentRecord
    <2> QED BY <1>2, <2>1, <2>3, <2>4, <2>5, <2>6 DEF Promise!Create, Ops, Calls
  <1> QED BY <1>3, <1>4

\* DeactivateClient and UpdateAudiences.
LEMMA SetPromised ==
  ASSUME IInv, NEW a \in Admins, Deactivate(a) \/ ReplaceAudiences(a)
  PROVE  Promise!Revoke(a) \/ Promise!Update(a) \/ Promise!Refuse(a)
  <1>1. /\ request[a].pc \in {"deactivate", "replace"} /\ request[a] \in Requests
        /\ history' = history
    BY DEF Deactivate, ReplaceAudiences, SetAttribute, IInv, TypeOK
  <1>2. CASE ~Exists(record)
    <2>1. Answer(a, "notfound") /\ UNCHANGED <<record, history>>
      BY <1>2 DEF Deactivate, ReplaceAudiences, SetAttribute
    <2>2. Ops[a] \in {"revoke", "update"}
      BY <1>1 DEF Ops, Operation
    <2>3. Promise!Cause(a, "notfound")
      BY <1>2, <2>2, PresentRecord DEF Promise!Cause, Ops
    <2> QED BY <1>1, <2>1, <2>3, RefusePromised, AnswerAsRefused DEF Writing
  <1>3. CASE Exists(record)
    <2>1. Applied(a)
      BY <1>3 DEF Deactivate, ReplaceAudiences, SetAttribute
    <2>2. request[a].secret = NoSecret /\ request'[a].secret = NoSecret
      BY <1>1, <2>1, AppliedRequest DEF IInv, Carried
    <2>3. WrittenSecret(request[a].secret)' = Calls[a].secret
      BY <1>1, <2>2, SameSecrets DEF Calls, Call
    <2>4. \A b \in Admins \ {a} :
            WrittenSecret(request[b].secret)' = WrittenSecret(request[b].secret)
      BY <1>1, <2>1, SameSecrets, AppliedRequest
    <2>5. Promise!Effect(a, Calls[a].secret)
      BY <2>1, <2>3, <2>4, EffectPromised
    <2>6. Promise!Present
      BY <1>3, PresentRecord
    <2>7. CASE Deactivate(a)
      <3>1. record' = [record EXCEPT !.active = FALSE] /\ Ops[a] = "revoke"
        BY <1>3, <2>7 DEF Deactivate, SetAttribute, Ops, Operation
      <3> QED BY <1>1, <2>5, <2>6, <3>1 DEF Promise!Revoke, Ops, Calls
    <2>8. CASE ReplaceAudiences(a)
      <3>1. /\ record' = [record EXCEPT !.audiences = request[a].map]
            /\ Ops[a] = "update" /\ Calls[a].map = request[a].map
        BY <1>3, <2>8 DEF ReplaceAudiences, SetAttribute, Ops, Operation, Calls, Call
      <3> QED BY <1>1, <2>5, <2>6, <3>1 DEF Promise!Update, Ops, Calls
    <2> QED BY <2>7, <2>8
  <1> QED BY <1>2, <1>3

\* A rotation that the table refuses, or that its own reads refuse.
LEMMA RotationRefused ==
  ASSUME IInv, Lasting, NEW a \in Admins, request[a].pc \in {"get", "reread"},
         NEW r \in Snapshots, NEW verdict \in {"notfound", "inactive", "conflict"},
         AnswerFrom(a, r, verdict), UNCHANGED <<record, history>>,
         ~request[a].stale /\ r = record => Promise!Cause(a, verdict)
  PROVE  Promise!Refuse(a)
  <1>1. PICK stale : stale = (request[a].stale \/ r # record)
    OBVIOUS
  <1>2. request' = [request EXCEPT ![a].pc = "answered", ![a].verdict = verdict,
                                   ![a].stale = stale]
    <2>1. request \in [Admins -> Requests] /\ request[a] \in Requests
      BY DEF IInv, TypeOK
    <2> QED BY <1>1, <2>1 DEF AnswerFrom, Requests
  <1>3. stale => StaleReads
    BY <1>1, OlderIsStale DEF Lasting, AllStanding, Standing
  <1>4. request[a].stale \in BOOLEAN /\ stale \in BOOLEAN
    BY <1>1 DEF IInv, TypeOK, Requests
  <1>5. ~stale => Promise!Cause(a, verdict) /\ stale = request[a].stale
    BY <1>1, <1>4
  <1>6. CASE stale = TRUE
    BY <1>2, <1>3, <1>6, RefusePromised
  <1>7. CASE stale = FALSE
    BY <1>2, <1>5, <1>7, RefusePromised
  <1> QED BY <1>4, <1>6, <1>7

\* RotateClient before it writes: it looks at the record, or at an older one, or
\* turns the request away.
LEMMA GetPromised ==
  ASSUME IInv, Lasting, NEW a \in Admins, GetForRotation(a)
  PROVE  [Promise!Next]_(Promise!vars)
  <1>1. PICK r \in Snapshots :
          IF Rotatable(r)
            THEN /\ generated < MaxSecrets
                 /\ generated' = generated + 1
                 /\ request' = [request EXCEPT ![a].pc = "swap", ![a].read = r,
                                               ![a].secret = generated + 1,
                                               ![a].stale = r # record]
            ELSE /\ AnswerFrom(a, r, IF Exists(r) THEN "inactive" ELSE "notfound")
                 /\ UNCHANGED generated
    BY DEF GetForRotation
  <1>2. /\ request[a].pc = "get" /\ UNCHANGED <<record, history>>
        /\ request \in [Admins -> Requests] /\ request[a] \in Requests
        /\ generated \in Nat /\ history \in Seq(Secrets) /\ r \in Records
    BY DEF GetForRotation, IInv, TypeOK, Snapshots
  <1>3. Ops[a] = "rotate"
    BY <1>2 DEF Ops, Operation
  <1>4. CASE ~Rotatable(r)
    <2> DEFINE verdict == IF Exists(r) THEN "inactive" ELSE "notfound"
    <2>1. r = record => Promise!Cause(a, verdict)
      BY <1>3, <1>4, PresentRecord DEF Promise!Cause, Ops, Rotatable
    <2>2. Promise!Refuse(a)
      BY <1>1, <1>2, <1>4, <2>1, RotationRefused
    <2>3. Ops[a] \in Promise!Operations
      BY <1>3 DEF Promise!Operations
    <2> QED BY <2>2, <2>3 DEF Promise!Next, Promise!CallStep, Ops
  <1>5. CASE Rotatable(r)
    <2> DEFINE older == r # record
               moved == [request[a] EXCEPT !.pc = "swap", !.read = r,
                                           !.secret = generated + 1, !.stale = older]
    <2>1. request' = [request EXCEPT ![a] = moved]
      BY <1>1, <1>5
    <2>2. generated + 1 \in Nat /\ older \in BOOLEAN
      BY <1>2
    <2>3. /\ moved.map = request[a].map /\ moved.secret = generated + 1
          /\ moved.since = request[a].since /\ moved.revoked = request[a].revoked
          /\ moved.verdict = request[a].verdict /\ moved.stale = older
          /\ moved.pc = "swap" /\ moved \in Requests
      BY <1>2, <2>2 DEF Requests, Writing
    <2> HIDE DEF moved
    <2>4. /\ request' \in [Admins -> Requests] /\ request'[a] = moved
          /\ \A b \in Admins \ {a} : request'[b] = request[b]
      BY <1>2, <2>1, <2>3
    <2>5. /\ Ops' = [Ops EXCEPT ![a] = Operation(request'[a].pc)]
          /\ Calls' = [Calls EXCEPT ![a] = Call(request[a])']
      BY <1>2, <2>4, SameSecrets, OneMoves
    <2>6. Ops' = Ops
      <3>1. Operation(request'[a].pc) = Ops[a]
        BY <1>3, <2>3, <2>4 DEF Operation
      <3> QED BY <2>5, <3>1 DEF Ops
    <2>7. WrittenSecret(generated + 1) = NoSecret
      <3>1. \A i \in 1 .. Len(history) : history[i] <= generated /\ history[i] \in Nat
        BY <1>2 DEF Lasting, Counted, Secrets
      <3>2. \A i \in 1 .. Len(history) : history[i] # generated + 1
        BY <1>2, <3>1
      <3> QED BY <3>2 DEF WrittenSecret
    <2>8. request[a].secret = NoSecret /\ request[a].stale = FALSE
      BY <1>2 DEF Lasting, AllStanding, Standing, Requests
    <2>9. WrittenSecret(NoSecret) = NoSecret
      BY DEF WrittenSecret
    <2>10. Call(request[a])' =
             [map |-> request[a].map, secret |-> WrittenSecret(request[a].secret),
              verdict |-> request[a].verdict, since |-> request[a].since,
              revoked |-> request[a].revoked, stale |-> older]
      BY <1>2, <2>3, <2>4, <2>7, <2>8, <2>9, SameSecrets DEF Call
    <2>11. Call(request[a])' = [Call(request[a]) EXCEPT !.stale = older]
      BY <2>10, CallLagged
    <2>12. CASE older = FALSE
      <3>1. Call(request[a])' = Call(request[a])
        BY <2>8, <2>10, <2>12 DEF Call
      <3>2. Calls' = Calls
        BY <2>5, <3>1 DEF Calls
      <3> QED BY <1>2, <2>6, <3>2 DEF Promise!vars, Ops, Calls
    <2>13. CASE older = TRUE
      <3>1. Calls' = [Calls EXCEPT ![a].stale = TRUE]
        BY <2>5, <2>11, <2>13 DEF Calls
      <3>2. StaleReads
        BY <2>13, OlderIsStale
      <3>3. Promise!Lag(a)
        BY <1>2, <1>3, <2>6, <3>1, <3>2 DEF Promise!Lag, Ops, Calls
      <3>4. Ops[a] \in Promise!Operations
        BY <1>3 DEF Promise!Operations
      <3> QED BY <3>3, <3>4 DEF Promise!Next, Promise!CallStep, Ops
    <2> QED BY <2>2, <2>12, <2>13
  <1> QED BY <1>4, <1>5

\* UpdateRounds: the swap rotates, or goes to find out why it did not.
LEMMA SwapPromised ==
  ASSUME IInv, Lasting, TurnedAway, IInv', NEW a \in Admins, SwapRounds(a)
  PROVE  Promise!Rotate(a) \/ UNCHANGED Promise!vars
  <1>1. /\ request[a].pc = "swap" /\ request[a] \in Requests
        /\ request \in [Admins -> Requests] /\ record \in Records
    BY DEF SwapRounds, IInv, TypeOK
  <1>2. Ops[a] = "rotate"
    BY <1>1 DEF Ops, Operation
  <1>3. CASE RoundsAsRead(a)
    <2>1. /\ record' = Rotated(a) /\ Applied(a)
          /\ history' = Append(history, request[a].secret)
      BY <1>3 DEF SwapRounds
    <2>2. Promise!Write(a)
      BY <1>1, <1>3, <2>1, FreshSecret, WritePromised
    <2>3. Promise!Newest(history') = record'.rounds
      BY NewestAreRounds DEF IInv, TypeOK, Records
    <2>4. record' = [record EXCEPT !.rounds = Promise!Newest(history')]
      <3>1. record'.rounds = NextRounds(a)
        BY <1>1, <2>1 DEF Rotated, Records
      <3> QED BY <2>1, <2>3, <3>1 DEF Rotated
    <2>5. Promise!Present
      BY <1>3, PresentRecord DEF RoundsAsRead
    <2>6. Calls[a].revoked => Calls[a].stale
      BY <1>1 DEF TurnedAway, Calls, Call
    <2> QED BY <1>2, <2>2, <2>4, <2>5, <2>6 DEF Promise!Rotate, Ops, Calls
  <1>4. CASE ~RoundsAsRead(a)
    <2> DEFINE moved == [request[a] EXCEPT !.pc = "reread"]
    <2>1. request' = [request EXCEPT ![a] = moved] /\ UNCHANGED <<record, history>>
      BY <1>4 DEF SwapRounds
    <2>2. /\ moved.map = request[a].map /\ moved.secret = request[a].secret
          /\ moved.since = request[a].since /\ moved.revoked = request[a].revoked
          /\ moved.verdict = request[a].verdict /\ moved.stale = request[a].stale
          /\ moved.pc = "reread" /\ moved \in Requests
      BY <1>1 DEF Requests
    <2> HIDE DEF moved
    <2>3. /\ request' \in [Admins -> Requests] /\ request'[a] = moved
          /\ \A b \in Admins \ {a} : request'[b] = request[b]
      BY <1>1, <2>1, <2>2
    <2>4. /\ Ops' = [Ops EXCEPT ![a] = Operation(request'[a].pc)]
          /\ Calls' = [Calls EXCEPT ![a] = Call(request[a])']
      BY <2>1, <2>3, SameSecrets, OneMoves
    <2>5. Ops' = Ops
      <3>1. Operation(request'[a].pc) = Ops[a]
        BY <1>2, <2>2, <2>3 DEF Operation
      <3> QED BY <2>4, <3>1 DEF Ops
    <2>6. Call(request[a])' = Call(request[a])
      BY <2>1, <2>2, <2>3, SameSecrets DEF Call
    <2>7. Calls' = Calls
      BY <2>4, <2>6 DEF Calls
    <2> QED BY <2>1, <2>5, <2>7 DEF Promise!vars, Ops, Calls
  <1> QED BY <1>3, <1>4

\* What UpdateRounds says of a refused swap.
LEMMA RereadPromised ==
  ASSUME IInv, Lasting, NEW a \in Admins, Reread(a)
  PROVE  Promise!Refuse(a)
  <1>1. PICK r \in Snapshots : AnswerFrom(a, r, RefusedVerdict(r))
    BY DEF Reread
  <1>2. request[a].pc = "reread" /\ UNCHANGED <<record, history>>
    BY DEF Reread
  <1>3. Ops[a] = "rotate" /\ Calls[a].since = request[a].since
    BY <1>2 DEF Ops, Operation, Calls, Call
  <1>4. ~request[a].stale => request[a].since < Len(history)
    BY <1>2 DEF Lasting, AllStanding, Standing
  <1>5. request[a].since \in Nat /\ Len(history) \in Nat
    BY DEF IInv, TypeOK, Requests
  <1>6. RefusedVerdict(r) \in {"notfound", "inactive", "conflict"}
    BY DEF RefusedVerdict
  <1>7. ~request[a].stale /\ r = record => Promise!Cause(a, RefusedVerdict(r))
    BY <1>3, <1>4, <1>5, PresentRecord DEF Promise!Cause, RefusedVerdict, Ops, Calls
  <1> QED BY <1>1, <1>2, <1>6, <1>7, RotationRefused

LEMMA FailPromised ==
  ASSUME IInv, NEW a \in Admins, Fail(a)
  PROVE  Promise!Refuse(a)
  <1>1. /\ request[a].pc \in Writing \cup {"get", "reread"}
        /\ Answer(a, "error") /\ UNCHANGED <<record, history>>
    BY DEF Fail
  <1> QED BY <1>1, AnswerAsRefused, RefusePromised

LEMMA ReceivePromised ==
  ASSUME IInv, NEW a \in Admins, Receive(a)
  PROVE  Promise!Receive(a)
  <1>1. /\ request \in [Admins -> Requests] /\ request[a].pc = "answered"
        /\ request' = [request EXCEPT ![a] = Idle] /\ UNCHANGED <<record, history>>
    BY DEF Receive, IInv, TypeOK
  <1>2. /\ request' \in [Admins -> Requests] /\ request'[a] = Idle
        /\ \A b \in Admins \ {a} : request'[b] = request[b]
    BY <1>1, IdleTyped
  <1>3. /\ Ops' = [Ops EXCEPT ![a] = Operation(request'[a].pc)]
        /\ Calls' = [Calls EXCEPT ![a] = Call(request[a])']
    BY <1>1, <1>2, SameSecrets, OneMoves
  <1>4. Call(request[a])' = Promise!NoCall
    BY <1>2 DEF Call, Idle, Promise!NoCall, WrittenSecret
  <1>5. Operation(request'[a].pc) = "none" /\ Ops[a] = "answered"
    BY <1>1, <1>2 DEF Idle, Operation, Ops
  <1> QED BY <1>1, <1>3, <1>4, <1>5 DEF Promise!Receive, Promise!Goto, Ops, Calls

-----------------------------------------------------------------------------
LEMMA StepPromised ==
  IInv /\ IInv' /\ Lasting /\ TurnedAway /\ [Next]_vars => [Promise!Next]_(Promise!vars)
  <1> SUFFICES ASSUME IInv, IInv', Lasting, TurnedAway, [Next]_vars
               PROVE  [Promise!Next]_(Promise!vars)
    OBVIOUS
  <1>1. CASE UNCHANGED vars
    <2>1. Ops' = Ops /\ Calls' = Calls
      BY <1>1, SameSecrets DEF vars, Ops, Calls, Call
    <2> QED BY <1>1, <2>1 DEF vars, Promise!vars, Ops, Calls
  <1>2. CASE Replicate
    <2>1. UNCHANGED <<record, request, history>>
      BY <1>2 DEF Replicate
    <2>2. Ops' = Ops /\ Calls' = Calls
      BY <2>1, SameSecrets DEF Ops, Calls, Call
    <2> QED BY <2>1, <2>2 DEF Promise!vars, Ops, Calls
  <1>3. ASSUME NEW a \in Admins, AdminStep(a)
        PROVE  [Promise!Next]_(Promise!vars)
    <2>1. /\ request \in [Admins -> Requests] /\ request' \in [Admins -> Requests]
          /\ generated \in Nat /\ history \in Seq(Secrets)
      BY DEF IInv, TypeOK
    <2>2. WrittenSecret(NoSecret) = NoSecret /\ WrittenSecret(generated + 1) = NoSecret
      <3>1. \A i \in 1 .. Len(history) : history[i] <= generated /\ history[i] \in Nat
        BY <2>1 DEF Lasting, Counted, Secrets
      <3>2. \A i \in 1 .. Len(history) : history[i] # generated + 1
        BY <2>1, <3>1
      <3> QED BY <3>2 DEF WrittenSecret
    <2>3. /\ Operation("put") = "create" /\ Operation("get") = "rotate"
          /\ Operation("deactivate") = "revoke" /\ Operation("replace") = "update"
      BY DEF Operation
    <2>4. ASSUME Promise!Ask(a, "rotate", NoMap) \/ Promise!Ask(a, "revoke", NoMap)
                   \/ Promise!Reject(a)
                   \/ \E map \in Maps : Promise!Ask(a, "create", map)
                                          \/ Promise!Ask(a, "update", map)
          PROVE  Promise!Next
      <3>1. Ops[a] = "none"
        BY <2>4 DEF Promise!Ask, Promise!Reject, Ops
      <3> QED BY <2>4, <3>1 DEF Promise!Next, Promise!CallStep, Ops
    <2>5. ASSUME Promise!Create(a) \/ Promise!Rotate(a) \/ Promise!Revoke(a)
                   \/ Promise!Update(a) \/ Promise!Refuse(a)
          PROVE  Promise!Next
      <3>1. Ops[a] \in Promise!Operations
        BY <2>5 DEF Promise!Create, Promise!Rotate, Promise!Revoke, Promise!Update,
                    Promise!Refuse, Promise!Operations, Ops
      <3> QED BY <2>5, <3>1 DEF Promise!Next, Promise!CallStep, Ops
    <2>6. CASE \E map \in Maps : Create(a, map)
      <3>1. PICK map \in Maps : Begin(a, "put", generated + 1, map)
        BY <2>6 DEF Create
      <3>2. Promise!Ask(a, "create", map)
        BY <2>1, <2>2, <2>3, <3>1, AskPromised
      <3> QED BY <2>4, <3>2
    <2>7. CASE \E map \in Maps : Update(a, map)
      <3>1. PICK map \in Maps : Begin(a, "replace", NoSecret, map)
        BY <2>7 DEF Update
      <3>2. Promise!Ask(a, "update", map)
        BY <2>1, <2>2, <2>3, <3>1, AskPromised
      <3> QED BY <2>4, <3>2
    <2>8. CASE Rotate(a)
      <3>1. Begin(a, "get", NoSecret, NoMap)
        BY <2>8 DEF Rotate
      <3>2. Promise!Ask(a, "rotate", NoMap)
        BY <2>1, <2>2, <2>3, <3>1, AskPromised
      <3> QED BY <2>4, <3>2
    <2>9. CASE Revoke(a)
      <3>1. Begin(a, "deactivate", NoSecret, NoMap)
        BY <2>9 DEF Revoke
      <3>2. Promise!Ask(a, "revoke", NoMap)
        BY <2>1, <2>2, <2>3, <3>1, AskPromised
      <3> QED BY <2>4, <3>2
    <2>10. CASE Malformed(a)
      BY <2>4, <2>10, RejectPromised
    <2>11. CASE PutRecord(a)
      BY <2>5, <2>11, PutPromised
    <2>12. CASE Deactivate(a) \/ ReplaceAudiences(a)
      BY <2>5, <2>12, SetPromised
    <2>13. CASE GetForRotation(a)
      BY <2>13, GetPromised
    <2>14. CASE SwapRounds(a)
      BY <2>5, <2>14, SwapPromised
    <2>15. CASE Reread(a)
      BY <2>5, <2>15, RereadPromised
    <2>16. CASE Fail(a)
      BY <2>5, <2>16, FailPromised
    <2>17. CASE Receive(a)
      <3>1. Promise!Receive(a)
        BY <2>17, ReceivePromised
      <3> QED BY <3>1 DEF Promise!Next, Promise!CallStep
    <2> QED BY <1>3, <2>6, <2>7, <2>8, <2>9, <2>10, <2>11, <2>12, <2>13, <2>14,
               <2>15, <2>16, <2>17 DEF AdminStep
  <1> QED BY <1>1, <1>2, <1>3 DEF Next

\* The conditional writes, stale reads and retries of the admin requests keep the
\* promise of ClientRecord: each request takes effect in one step between its
\* beginning and its answer, with a secret nobody had written, on the record as
\* it is then, or is refused for a cause (ProvisionStore).
THEOREM RecordKept == Spec => KeepsRecord
  <1>1. Init => Promise!Init
    <2> SUFFICES ASSUME Init PROVE Promise!Init
      OBVIOUS
    <2>1. /\ record = NoRecord /\ history = <<>>
          /\ \A a \in Admins : request[a] = Idle
      BY DEF Init
    <2>2. Call(Idle) = Promise!NoCall /\ Operation("idle") = "none" /\ Idle.pc = "idle"
      BY DEF Call, Idle, Promise!NoCall, WrittenSecret, Operation
    <2> QED BY <2>1, <2>2 DEF Promise!Init, NoRecord
  <1>2. Init => TurnedAway
    BY DEF Init, Idle, TurnedAway, Rotates
  <1>3. IInv /\ IInv' /\ Lasting /\ TurnedAway /\ [Next]_vars
          => [Promise!Next]_(Promise!vars)
    BY StepPromised
  <1> QED BY <1>1, <1>2, <1>3, InitLasting, NextLasting, NextTurned, Inductive, PTL
       DEF Spec, KeepsRecord, Promise!Spec
=============================================================================
