---------------------------- MODULE VerdictProofs ----------------------------
(***************************************************************************)
(* Proof that the verdicts of MachineClients are exact as long as no       *)
(* answer of the table is lost, for any number of concurrent admins.       *)
(*                                                                         *)
(* A secret that is generated but not written is not in the history and    *)
(* belongs to one request only, so every entry of the history was written  *)
(* by somebody else; and the record that a request read either is still    *)
(* there, or the history has grown since the request began.                *)
(***************************************************************************)
EXTENDS MachineClientsProofs

Pending(q) == q.pc \in {"put", "swap", "reread"}

WrittenFrom(from, hist, s) == \E i \in from .. Len(hist) : hist[i] # s

Unwritten(s, hist) == \A i \in 1 .. Len(hist) : hist[i] # s

\* What a request may rely on, given the secrets written, the rounds of the
\* record, and the secrets generated.
Informed(q, hist, rounds, gen) ==
  /\ q.since <= Len(hist)
  /\ Pending(q) => q.secret <= gen /\ Unwritten(q.secret, hist)
  /\ q.pc = "swap" =>
       /\ q.read.rounds # <<>>
       /\ ~q.stale => q.read.rounds = rounds \/ q.since < Len(hist)
  /\ q.pc = "reread" => q.stale \/ q.since < Len(hist)
  /\ q.pc = "answered" /\ ~q.stale =>
       /\ q.verdict = "exists" => WrittenFrom(1, hist, q.secret)
       /\ q.verdict = "conflict" => WrittenFrom(q.since + 1, hist, q.secret)
       /\ q.verdict = "notfound" => q.since = 0

AllInformed == \A a \in Admins : Informed(request[a], history, record.rounds, generated)

Numbered == \A i \in 1 .. Len(history) : history[i] <= generated

OwnSecrets ==
  \A a, b \in Admins :
    a # b /\ Pending(request[a]) /\ Pending(request[b])
      => request[a].secret # request[b].secret

Told == AllInformed /\ Numbered /\ OwnSecrets

VInv == lost = 0 => Told

-----------------------------------------------------------------------------
\* What a request knows stays true when a secret is generated.
LEMMA StillInformed ==
  ASSUME NEW q \in Requests, NEW hist, NEW rounds,
         NEW gen \in Nat, NEW more \in Nat, gen <= more,
         Informed(q, hist, rounds, gen)
  PROVE  Informed(q, hist, rounds, more)
  <1>1. q.secret \in Nat
    BY DEF Requests
  <1> QED BY <1>1 DEF Informed

\* And when another request writes its own.
LEMMA AnotherWrites ==
  ASSUME NEW q \in Requests, NEW hist \in Seq(Secrets), NEW rounds, NEW next,
         NEW gen \in Nat, NEW s \in Secrets, Pending(q) => q.secret # s,
         Informed(q, hist, rounds, gen)
  PROVE  Informed(q, Append(hist, s), next, gen)
  <1> DEFINE longer == Append(hist, s)
  <1>1. /\ Len(longer) = Len(hist) + 1 /\ Len(hist) \in Nat
        /\ longer[Len(longer)] = s
        /\ \A i \in 1 .. Len(hist) : longer[i] = hist[i]
    OBVIOUS
  <1>2. q.since \in Nat /\ q.secret \in Nat
    BY DEF Requests
  <1> HIDE DEF longer
  <1>3. ASSUME Unwritten(q.secret, hist), q.secret # s
        PROVE  Unwritten(q.secret, longer)
    <2> SUFFICES ASSUME NEW i \in 1 .. Len(longer) PROVE longer[i] # q.secret
      BY DEF Unwritten
    <2>1. CASE i = Len(longer)
      BY <1>1, <1>3, <2>1
    <2>2. CASE i \in 1 .. Len(hist)
      BY <1>1, <1>3, <2>2 DEF Unwritten
    <2> QED BY <1>1, <2>1, <2>2
  <1>4. ASSUME NEW from \in Nat \ {0}, WrittenFrom(from, hist, q.secret)
        PROVE  WrittenFrom(from, longer, q.secret)
    <2>1. PICK i \in from .. Len(hist) : hist[i] # q.secret
      BY <1>4 DEF WrittenFrom
    <2>2. i \in 1 .. Len(hist) /\ i \in from .. Len(longer)
      BY <1>1, <2>1
    <2> QED BY <1>1, <2>1, <2>2 DEF WrittenFrom
  <1>5. 1 \in Nat \ {0} /\ q.since + 1 \in Nat \ {0}
    BY <1>2
  <1>6. /\ WrittenFrom(1, hist, q.secret) => WrittenFrom(1, longer, q.secret)
        /\ WrittenFrom(q.since + 1, hist, q.secret) => WrittenFrom(q.since + 1, longer, q.secret)
    BY <1>4, <1>5
  <1>7. q.since <= Len(longer) /\ q.since < Len(longer)
    BY <1>1, <1>2 DEF Informed
  <1>8. Informed(q, longer, next, gen)
    BY <1>3, <1>6, <1>7 DEF Informed
  <1> QED BY <1>8 DEF longer

-----------------------------------------------------------------------------
\* One request moves and writes nothing; if it has a secret to write, it had it
\* before or has just generated it.
LEMMA QuietTold ==
  ASSUME IInv, Told, NEW a \in Admins,
         request' \in [Admins -> Requests],
         \A b \in Admins \ {a} : request'[b] = request[b],
         history' = history, record'.rounds = record.rounds,
         generated' \in Nat, generated <= generated',
         Informed(request'[a], history, record.rounds, generated'),
         Pending(request'[a]) =>
           \/ Pending(request[a]) /\ request'[a].secret = request[a].secret
           \/ request'[a].secret > generated
  PROVE  Told'
  <1>1. /\ generated \in Nat /\ history \in Seq(Secrets)
        /\ request \in [Admins -> Requests]
    BY DEF IInv, TypeOK
  <1>2. AllInformed'
    <2> SUFFICES ASSUME NEW b \in Admins
                 PROVE  Informed(request'[b], history, record.rounds, generated')
      BY DEF AllInformed
    <2>1. CASE b = a
      BY <2>1
    <2>2. CASE b # a
      <3>1. Informed(request[b], history, record.rounds, generated)
        BY DEF Told, AllInformed
      <3> QED BY <1>1, <2>2, <3>1, StillInformed
    <2> QED BY <2>1, <2>2
  <1>3. Numbered'
    BY <1>1 DEF Told, Numbered, Secrets
  <1>4. OwnSecrets'
    <2> SUFFICES ASSUME NEW b \in Admins \ {a}, Pending(request'[a]), Pending(request'[b])
                 PROVE  request'[a].secret # request'[b].secret
      BY DEF Told, OwnSecrets
    <2>1. Pending(request[b]) /\ request'[b] = request[b]
      OBVIOUS
    <2>2. CASE Pending(request[a]) /\ request'[a].secret = request[a].secret
      BY <2>1, <2>2 DEF Told, OwnSecrets
    <2>3. CASE request'[a].secret > generated
      <3>1. request[b].secret <= generated
        BY <2>1 DEF Told, AllInformed, Informed
      <3>2. request[b].secret \in Nat /\ request'[a].secret \in Nat
        BY <1>1 DEF Requests
      <3> QED BY <1>1, <2>1, <2>3, <3>1, <3>2
    <2> QED BY <2>2, <2>3
  <1> QED BY <1>2, <1>3, <1>4 DEF Told

\* One request writes its secret and is told so.
LEMMA WriteTold ==
  ASSUME IInv, Told, NEW a \in Admins, request[a].pc \in {"put", "swap"},
         request' \in [Admins -> Requests],
         \A b \in Admins \ {a} : request'[b] = request[b],
         request'[a].pc = "answered", request'[a].verdict = "ok",
         request'[a].since = request[a].since,
         history' = Append(history, request[a].secret), generated' = generated
  PROVE  Told'
  <1> DEFINE s == request[a].secret
  <1>1. /\ generated \in Nat /\ history \in Seq(Secrets)
        /\ request \in [Admins -> Requests]
    BY DEF IInv, TypeOK
  <1>2. s \in Secrets /\ s <= generated
    BY DEF IInv, Carried, Told, AllInformed, Informed, Pending
  <1>3. /\ Len(history') = Len(history) + 1 /\ Len(history) \in Nat
        /\ history'[Len(history')] = s
        /\ \A i \in 1 .. Len(history) : history'[i] = history[i]
    BY <1>1, <1>2
  <1>4. AllInformed'
    <2> SUFFICES ASSUME NEW b \in Admins
                 PROVE  Informed(request'[b], history', record'.rounds, generated)
      BY DEF AllInformed
    <2>1. Informed(request[b], history, record.rounds, generated)
      BY DEF Told, AllInformed
    <2>2. CASE b = a
      <3>1. request[b].since \in Nat /\ request[b].since <= Len(history)
        BY <1>1, <2>1 DEF Requests, Informed
      <3> QED BY <1>3, <2>2, <3>1 DEF Informed, Pending
    <2>3. CASE b # a
      <3>1. Pending(request[b]) => request[b].secret # s
        BY <2>3 DEF Told, OwnSecrets, Pending
      <3>2. Informed(request[b], Append(history, s), record'.rounds, generated)
        BY <1>1, <1>2, <2>1, <3>1, AnotherWrites
      <3> QED BY <2>3, <3>2
    <2> QED BY <2>2, <2>3
  <1>5. Numbered'
    <2> SUFFICES ASSUME NEW i \in 1 .. Len(history')
                 PROVE  history'[i] <= generated
      BY DEF Numbered
    <2>1. CASE i = Len(history')
      BY <1>2, <1>3, <2>1
    <2>2. CASE i \in 1 .. Len(history)
      BY <1>3, <2>2 DEF Told, Numbered
    <2> QED BY <1>3, <2>1, <2>2
  <1>6. OwnSecrets'
    BY DEF Told, OwnSecrets, Pending
  <1> QED BY <1>4, <1>5, <1>6 DEF Told

-----------------------------------------------------------------------------
\* Without a lost answer an applied write is answered ok.
LEMMA AppliedOk ==
  ASSUME IInv, NEW a \in Admins, Applied(a), lost' = 0
  PROVE  Answer(a, "ok") /\ UNCHANGED lost
  <1>1. lost \in Nat
    BY DEF IInv, TypeOK
  <1> QED BY <1>1 DEF Applied

\* What an answer leaves of a request.
LEMMA Answered ==
  ASSUME IInv, NEW a \in Admins, NEW verdict \in Verdicts, Answer(a, verdict)
  PROVE  /\ request' \in [Admins -> Requests]
         /\ \A b \in Admins \ {a} : request'[b] = request[b]
         /\ request'[a].pc = "answered" /\ request'[a].verdict = verdict
         /\ request'[a].secret = request[a].secret
         /\ request'[a].since = request[a].since
         /\ request'[a].stale = request[a].stale
  <1>1. TypeOK /\ request \in [Admins -> Requests]
    BY DEF IInv, TypeOK
  <1>2. request'[a] = [request[a] EXCEPT !.pc = "answered", !.verdict = verdict]
    BY <1>1 DEF Answer
  <1>3. /\ request'[a].since = request[a].since
        /\ request'[a].stale = request[a].stale
    BY <1>1, <1>2 DEF Requests
  <1> QED BY <1>1, <1>3, Answering

LEMMA AnsweredFrom ==
  ASSUME IInv, NEW a \in Admins, NEW verdict \in Verdicts, NEW r,
         AnswerFrom(a, r, verdict)
  PROVE  /\ request' \in [Admins -> Requests]
         /\ \A b \in Admins \ {a} : request'[b] = request[b]
         /\ request'[a].pc = "answered" /\ request'[a].verdict = verdict
         /\ request'[a].secret = request[a].secret
         /\ request'[a].since = request[a].since
         /\ ~request'[a].stale => ~request[a].stale /\ r = record
  <1>1. TypeOK /\ request \in [Admins -> Requests]
    BY DEF IInv, TypeOK
  <1>2. request'[a] = [request[a] EXCEPT !.pc = "answered", !.verdict = verdict,
                                         !.stale = @ \/ r # record]
    BY <1>1 DEF AnswerFrom
  <1>3. /\ request'[a].since = request[a].since
        /\ request'[a].stale = (request[a].stale \/ r # record)
    BY <1>1, <1>2 DEF Requests
  <1> QED BY <1>1, <1>3, AnsweringFrom

\* Before the first secret is written there is no record, and after it there is
\* one.
LEMMA HistoryOfRecord ==
  ASSUME IInv
  PROVE  /\ Len(history) \in Nat
         /\ Exists(record) <=> Len(history) > 0
         /\ record.rounds \in Seq(Secrets)
  <1>1. record.rounds \in Seq(Secrets) /\ history \in Seq(Secrets)
    BY DEF IInv, TypeOK, Records
  <1>2. Len(record.rounds) = Shorter(MaxSecretRounds, Len(history))
    BY DEF IInv, Latest
  <1>3. Len(record.rounds) > 0 <=> Len(history) > 0
    BY <1>1, <1>2, ClientsAssumption DEF Shorter
  <1>4. record.rounds = <<>> <=> Len(record.rounds) = 0
    BY <1>1
  <1> QED BY <1>1, <1>3, <1>4 DEF Exists

\* An entry of the history was not written by a request that has yet to write.
LEMMA WrittenByAnother ==
  ASSUME NEW hist, NEW s, NEW from \in Nat \ {0}, Len(hist) \in Nat,
         Unwritten(s, hist), from <= Len(hist)
  PROVE  WrittenFrom(from, hist, s)
  <1>1. from \in from .. Len(hist) /\ from \in 1 .. Len(hist)
    OBVIOUS
  <1> QED BY <1>1 DEF Unwritten, WrittenFrom

-----------------------------------------------------------------------------
\* A request is answered without a write, truly unless a read of it was stale.
LEMMA VerdictStep ==
  ASSUME IInv, Told, NEW a \in Admins, NEW verdict \in Verdicts,
         Answer(a, verdict) \/ \E r : AnswerFrom(a, r, verdict),
         UNCHANGED <<record, generated, history>>,
         ~request'[a].stale =>
           /\ verdict = "exists" => WrittenFrom(1, history, request[a].secret)
           /\ verdict = "conflict" =>
                WrittenFrom(request[a].since + 1, history, request[a].secret)
           /\ verdict = "notfound" => request[a].since = 0
  PROVE  Told'
  <1>1. /\ request' \in [Admins -> Requests]
        /\ \A b \in Admins \ {a} : request'[b] = request[b]
        /\ request'[a].pc = "answered" /\ request'[a].verdict = verdict
        /\ request'[a].secret = request[a].secret
        /\ request'[a].since = request[a].since
    BY Answered, AnsweredFrom
  <1>2. request[a].since <= Len(history)
    BY DEF Told, AllInformed, Informed
  <1>3. Informed(request'[a], history, record.rounds, generated')
    BY <1>1, <1>2 DEF Informed, Pending
  <1>4. generated \in Nat /\ generated' = generated /\ generated <= generated'
    BY DEF IInv, TypeOK
  <1>5. ~Pending(request'[a])
    BY <1>1 DEF Pending
  <1> QED BY <1>1, <1>3, <1>4, <1>5, QuietTold

\* Verdicts about which nothing is promised.
LEMMA OtherVerdictStep ==
  ASSUME IInv, Told, NEW a \in Admins,
         NEW verdict \in Verdicts \ {"exists", "conflict", "notfound"},
         Answer(a, verdict) \/ \E r : AnswerFrom(a, r, verdict),
         UNCHANGED <<record, generated, history>>
  PROVE  Told'
  BY VerdictStep

\* A client that a request does not find was not there when it began.
LEMMA MissingStep ==
  ASSUME IInv, Told, NEW a \in Admins,
         Answer(a, "notfound") \/ \E r : AnswerFrom(a, r, "notfound"),
         UNCHANGED <<record, generated, history>>,
         ~request'[a].stale => ~Exists(record)
  PROVE  Told'
  <1>1. "notfound" \in Verdicts
    BY DEF Verdicts
  <1>2. ~Exists(record) => request[a].since = 0
    <2>1. request[a].since \in Nat /\ request[a].since <= Len(history)
      BY DEF IInv, TypeOK, Requests, Told, AllInformed, Informed
    <2> QED BY <2>1, HistoryOfRecord
  <1> QED BY <1>1, <1>2, VerdictStep

LEMMA BeginTold ==
  ASSUME IInv, Told, NEW a \in Admins, NEW pc \in {"put", "get", "deactivate", "replace"},
         NEW secret \in Nat, NEW map \in Maps \cup {NoMap}, Begin(a, pc, secret, map),
         generated' \in Nat, generated <= generated',
         pc = "put" => secret > generated /\ secret <= generated'
  PROVE  Told'
  <1>1. /\ generated \in Nat /\ history \in Seq(Secrets)
        /\ request \in [Admins -> Requests]
    BY DEF IInv, TypeOK
  <1>2. Len(history) \in Nat /\ (Exists(record) /\ ~record.active) \in BOOLEAN
    BY <1>1
  <1> DEFINE moved == [Idle EXCEPT !.pc = pc, !.secret = secret, !.map = map,
                                   !.since = Len(history),
                                   !.revoked = Exists(record) /\ ~record.active]
  <1>3. moved \in Requests
    BY <1>2, IdleTyped DEF Requests, Idle, Writing
  <1>4. moved.pc = pc /\ moved.secret = secret /\ moved.since = Len(history)
    BY DEF Idle
  <1>5. request' = [request EXCEPT ![a] = moved]
    BY DEF Begin
  <1> HIDE DEF moved
  <1>6. /\ request' \in [Admins -> Requests] /\ request'[a] = moved
        /\ \A b \in Admins \ {a} : request'[b] = request[b]
    BY <1>1, <1>3, <1>5
  <1>7. Unwritten(secret, history) \/ pc # "put"
    <2> SUFFICES ASSUME pc = "put", NEW i \in 1 .. Len(history)
                 PROVE  history[i] # secret
      BY DEF Unwritten
    <2>1. history[i] <= generated /\ history[i] \in Nat
      BY <1>1 DEF Told, Numbered, Secrets
    <2> QED BY <1>1, <2>1
  <1>8. Informed(moved, history, record.rounds, generated')
    BY <1>2, <1>4, <1>7 DEF Informed, Pending
  <1>9. Pending(moved) => moved.secret > generated
    BY <1>4 DEF Pending
  <1>10. history' = history /\ record'.rounds = record.rounds
    BY DEF Begin
  <1> QED BY <1>6, <1>8, <1>9, <1>10, QuietTold

LEMMA PutTold ==
  ASSUME IInv, Told, NEW a \in Admins, PutRecord(a), lost' = 0
  PROVE  Told'
  <1>1. request[a].pc = "put" /\ generated' = generated
    BY DEF PutRecord
  <1>2. CASE Exists(record)
    <2>1. Answer(a, "exists") /\ UNCHANGED <<record, generated, history>>
      BY <1>1, <1>2 DEF PutRecord
    <2>2. Unwritten(request[a].secret, history)
      BY <1>1 DEF Told, AllInformed, Informed, Pending
    <2>3. Len(history) \in Nat /\ 1 <= Len(history)
      BY <1>2, HistoryOfRecord
    <2>4. WrittenFrom(1, history, request[a].secret)
      BY <2>2, <2>3, WrittenByAnother
    <2> QED BY <2>1, <2>4, VerdictStep DEF Verdicts
  <1>3. CASE ~Exists(record)
    <2>1. history' = Append(history, request[a].secret) /\ Applied(a)
      BY <1>3 DEF PutRecord
    <2>2. Answer(a, "ok") /\ "ok" \in Verdicts
      BY <2>1, AppliedOk DEF Verdicts
    <2> QED BY <1>1, <2>1, <2>2, Answered, WriteTold
  <1> QED BY <1>2, <1>3

LEMMA SetTold ==
  ASSUME IInv, Told, NEW a \in Admins, NEW written, written.rounds = record.rounds,
         SetAttribute(a, written), lost' = 0
  PROVE  Told'
  <1>1. CASE ~Exists(record)
    BY <1>1, MissingStep DEF SetAttribute
  <1>2. CASE Exists(record)
    <2>1. /\ record'.rounds = record.rounds /\ Applied(a)
          /\ history' = history /\ generated' = generated
      BY <1>2 DEF SetAttribute
    <2>2. Answer(a, "ok") /\ "ok" \in Verdicts
      BY <2>1, AppliedOk DEF Verdicts
    <2>3. /\ request' \in [Admins -> Requests]
          /\ \A b \in Admins \ {a} : request'[b] = request[b]
          /\ request'[a].pc = "answered" /\ request'[a].verdict = "ok"
          /\ request'[a].since = request[a].since
      BY <2>2, Answered
    <2>4. Informed(request'[a], history, record.rounds, generated')
      BY <2>3 DEF Told, AllInformed, Informed, Pending
    <2>5. generated \in Nat /\ generated <= generated'
      BY <2>1 DEF IInv, TypeOK
    <2>6. ~Pending(request'[a])
      BY <2>3 DEF Pending
    <2> QED BY <2>1, <2>3, <2>4, <2>5, <2>6, QuietTold
  <1> QED BY <1>1, <1>2

LEMMA GetTold ==
  ASSUME IInv, Told, NEW a \in Admins, GetForRotation(a)
  PROVE  Told'
  <1>1. PICK r \in Snapshots :
          IF Rotatable(r)
            THEN /\ generated' = generated + 1
                 /\ request' = [request EXCEPT ![a].pc = "swap", ![a].read = r,
                                               ![a].secret = generated + 1,
                                               ![a].stale = r # record]
            ELSE /\ AnswerFrom(a, r, IF Exists(r) THEN "inactive" ELSE "notfound")
                 /\ UNCHANGED generated
    BY DEF GetForRotation
  <1>2. UNCHANGED <<record, history>>
    BY DEF GetForRotation
  <1>3. CASE ~Rotatable(r) /\ Exists(r)
    BY <1>1, <1>2, <1>3, OtherVerdictStep DEF Verdicts
  <1>4. CASE ~Exists(r)
    <2>1. AnswerFrom(a, r, "notfound") /\ UNCHANGED <<record, generated, history>>
      BY <1>1, <1>2, <1>4 DEF Rotatable
    <2>2. ~request'[a].stale => r = record
      BY <2>1, AnsweredFrom DEF Verdicts
    <2> QED BY <1>4, <2>1, <2>2, MissingStep
  <1>5. CASE Rotatable(r)
    <2>1. /\ generated \in Nat /\ history \in Seq(Secrets)
          /\ request \in [Admins -> Requests] /\ r \in Records
      BY DEF IInv, TypeOK, Snapshots
    <2> DEFINE s == generated + 1
               older == r # record
               moved == [request[a] EXCEPT !.pc = "swap", !.read = r, !.secret = s,
                                           !.stale = older]
    <2>2. s \in Nat /\ s > generated /\ generated' = s
      BY <1>1, <1>5, <2>1
    <2>3. request' = [request EXCEPT ![a] = moved]
      BY <1>1, <1>5
    <2> HIDE DEF s
    <2>4. moved \in Requests
      BY <2>1, <2>2 DEF Requests, Writing
    <2>5. /\ moved.pc = "swap" /\ moved.read = r /\ moved.secret = s
          /\ moved.stale = older /\ moved.since = request[a].since
      BY <2>1 DEF Requests
    <2> HIDE DEF moved
    <2>6. /\ request' \in [Admins -> Requests] /\ request'[a] = moved
          /\ \A b \in Admins \ {a} : request'[b] = request[b]
      BY <2>1, <2>3, <2>4
    <2>7. Unwritten(s, history)
      <3> SUFFICES ASSUME NEW i \in 1 .. Len(history) PROVE history[i] # s
        BY DEF Unwritten
      <3>1. history[i] <= generated /\ history[i] \in Nat
        BY <2>1 DEF Told, Numbered, Secrets
      <3> QED BY <2>1, <2>2, <3>1
    <2>8. r.rounds # <<>>
      BY <1>5 DEF Rotatable, Exists
    <2>9. request[a].since <= Len(history)
      BY DEF Told, AllInformed, Informed
    <2>10. ~moved.stale => moved.read.rounds = record.rounds
      BY <2>5
    <2>11. generated <= s /\ s <= s
      BY <2>1, <2>2
    <2>12. Informed(moved, history, record.rounds, s)
      BY <2>5, <2>7, <2>8, <2>9, <2>10, <2>11 DEF Informed, Pending
    <2> QED BY <1>2, <2>2, <2>5, <2>6, <2>11, <2>12, QuietTold
  <1> QED BY <1>3, <1>4, <1>5 DEF Rotatable

LEMMA SwapTold ==
  ASSUME IInv, Told, NEW a \in Admins, SwapRounds(a), lost' = 0
  PROVE  Told'
  <1>1. request[a].pc = "swap" /\ generated' = generated
    BY DEF SwapRounds
  <1>2. Informed(request[a], history, record.rounds, generated)
    BY DEF Told, AllInformed
  <1>3. CASE RoundsAsRead(a)
    <2>1. history' = Append(history, request[a].secret) /\ Applied(a)
      BY <1>3 DEF SwapRounds
    <2>2. Answer(a, "ok") /\ "ok" \in Verdicts
      BY <2>1, AppliedOk DEF Verdicts
    <2> QED BY <1>1, <2>1, <2>2, Answered, WriteTold
  <1>4. CASE ~RoundsAsRead(a)
    <2> DEFINE moved == [request[a] EXCEPT !.pc = "reread"]
    <2>1. request' = [request EXCEPT ![a] = moved] /\ UNCHANGED <<record, history>>
      BY <1>4 DEF SwapRounds
    <2>2. request \in [Admins -> Requests] /\ request[a] \in Requests
      BY DEF IInv, TypeOK
    <2>3. /\ moved \in Requests /\ moved.pc = "reread"
          /\ moved.secret = request[a].secret /\ moved.since = request[a].since
          /\ moved.stale = request[a].stale
      BY <2>2 DEF Requests
    <2> HIDE DEF moved
    <2>4. /\ request' \in [Admins -> Requests] /\ request'[a] = moved
          /\ \A b \in Admins \ {a} : request'[b] = request[b]
      BY <2>1, <2>2, <2>3
    <2>5. request[a].stale \/ request[a].since < Len(history)
      BY <1>1, <1>2, <1>4 DEF Informed, RoundsAsRead, Exists
    <2>6. Informed(moved, history, record.rounds, generated')
      BY <1>1, <1>2, <2>3, <2>5 DEF Informed, Pending
    <2>7. generated \in Nat /\ generated <= generated'
      BY <1>1 DEF IInv, TypeOK
    <2>8. Pending(request[a]) /\ request'[a].secret = request[a].secret
      BY <1>1, <2>3, <2>4 DEF Pending
    <2> QED BY <1>1, <2>1, <2>4, <2>6, <2>7, <2>8, QuietTold
  <1> QED BY <1>3, <1>4

LEMMA RereadTold ==
  ASSUME IInv, Told, NEW a \in Admins, Reread(a)
  PROVE  Told'
  <1>1. PICK r \in Snapshots : AnswerFrom(a, r, RefusedVerdict(r))
    BY DEF Reread
  <1>2. request[a].pc = "reread" /\ UNCHANGED <<record, generated, history>>
    BY DEF Reread
  <1>3. RefusedVerdict(r) \in Verdicts
    BY DEF RefusedVerdict, Verdicts
  <1>4. ~request'[a].stale => ~request[a].stale /\ r = record
    BY <1>1, <1>3, AnsweredFrom
  <1>5. CASE ~Exists(r)
    BY <1>1, <1>2, <1>4, <1>5, MissingStep DEF RefusedVerdict
  <1>6. CASE Exists(r)
    <2>1. AnswerFrom(a, r, "conflict") /\ "conflict" \in Verdicts
      BY <1>1, <1>6 DEF RefusedVerdict, Verdicts
    <2>2. Informed(request[a], history, record.rounds, generated)
      BY DEF Told, AllInformed
    <2>3. request[a].since \in Nat /\ Len(history) \in Nat
      BY DEF IInv, TypeOK, Requests
    <2>4. ASSUME ~request'[a].stale
          PROVE  WrittenFrom(request[a].since + 1, history, request[a].secret)
      <3>1. request[a].since + 1 \in Nat \ {0} /\ request[a].since + 1 <= Len(history)
        BY <1>2, <1>4, <2>2, <2>3, <2>4 DEF Informed
      <3>2. Unwritten(request[a].secret, history)
        BY <1>2, <2>2 DEF Informed, Pending
      <3> QED BY <2>3, <3>1, <3>2, WrittenByAnother
    <2> QED BY <1>2, <2>1, <2>4, VerdictStep
  <1> QED BY <1>5, <1>6

\* The admin takes the answer.
LEMMA ReceiveTold ==
  ASSUME IInv, Told, NEW a \in Admins, Receive(a)
  PROVE  Told'
  <1>1. /\ request \in [Admins -> Requests] /\ generated \in Nat
        /\ Len(history) \in Nat
    BY DEF IInv, TypeOK
  <1>2. /\ request' = [request EXCEPT ![a] = Idle]
        /\ UNCHANGED <<record, generated, history>>
    BY DEF Receive
  <1>3. /\ request' \in [Admins -> Requests] /\ request'[a] = Idle
        /\ \A b \in Admins \ {a} : request'[b] = request[b]
    BY <1>1, <1>2, IdleTyped
  <1>4. Informed(Idle, history, record.rounds, generated') /\ ~Pending(Idle)
    BY <1>1 DEF Informed, Pending, Idle
  <1>5. generated <= generated' /\ generated' \in Nat
    BY <1>1, <1>2
  <1> QED BY <1>2, <1>3, <1>4, <1>5, QuietTold

-----------------------------------------------------------------------------
LEMMA NextTold == IInv /\ VInv /\ [Next]_vars => VInv'
  <1> SUFFICES ASSUME IInv, VInv, [Next]_vars, lost' = 0 PROVE Told'
    BY DEF VInv
  <1>1. CASE UNCHANGED vars
    <2>1. Told
      BY <1>1 DEF vars, VInv
    <2> QED BY <1>1, <2>1 DEF vars, Told, AllInformed, Numbered, OwnSecrets
  <1>2. CASE Next
    <2>1. lost = 0
      <3>1. lost \in Nat
        BY DEF IInv, TypeOK
      <3>2. lost' = lost \/ lost' = lost + 1
        BY <1>2 DEF Next, AdminStep, Create, Update, Rotate, Revoke, Begin, Malformed,
             PutRecord, Deactivate, ReplaceAudiences, SetAttribute, Applied,
             GetForRotation, SwapRounds, Reread, Fail, Receive, Replicate
      <3> QED BY <3>1, <3>2
    <2>2. Told
      BY <2>1 DEF VInv
    <2>3. CASE Replicate
      BY <2>2, <2>3 DEF Replicate, Told, AllInformed, Numbered, OwnSecrets
    <2>4. ASSUME NEW a \in Admins, AdminStep(a) PROVE Told'
      <3>1. /\ generated \in Nat /\ generated <= generated
            /\ generated + 1 \in Nat /\ generated + 1 > generated
            /\ generated <= generated + 1 /\ generated + 1 <= generated + 1
        BY DEF IInv, TypeOK
      <3>2. NoSecret \in Nat /\ NoMap \in Maps \cup {NoMap}
        BY DEF NoSecret
      <3>3. ASSUME NEW map \in Maps, Create(a, map) PROVE Told'
        <4>1. generated' = generated + 1 /\ Begin(a, "put", generated + 1, map)
          BY <3>3 DEF Create
        <4> HIDE DEF Begin
        <4> QED BY <2>2, <3>1, <4>1, BeginTold
      <3>4. ASSUME NEW map \in Maps, Update(a, map) PROVE Told'
        BY <2>2, <3>1, <3>2, <3>4, BeginTold DEF Update
      <3>5. CASE Rotate(a)
        BY <2>2, <3>1, <3>2, <3>5, BeginTold DEF Rotate
      <3>6. CASE Revoke(a)
        BY <2>2, <3>1, <3>2, <3>6, BeginTold DEF Revoke
      <3>7. CASE Malformed(a)
        BY <2>2, <3>7, OtherVerdictStep DEF Malformed, Verdicts
      <3>8. CASE PutRecord(a)
        BY <2>2, <3>8, PutTold
      <3>9. CASE Deactivate(a)
        <4>1. [record EXCEPT !.active = FALSE].rounds = record.rounds
          BY DEF IInv, TypeOK, Records
        <4> QED BY <2>2, <3>9, <4>1, SetTold DEF Deactivate
      <3>10. CASE ReplaceAudiences(a)
        <4>1. [record EXCEPT !.audiences = request[a].map].rounds = record.rounds
          BY DEF IInv, TypeOK, Records
        <4> QED BY <2>2, <3>10, <4>1, SetTold DEF ReplaceAudiences
      <3>11. CASE GetForRotation(a)
        BY <2>2, <3>11, GetTold
      <3>12. CASE SwapRounds(a)
        BY <2>2, <3>12, SwapTold
      <3>13. CASE Reread(a)
        BY <2>2, <3>13, RereadTold
      <3>14. CASE Fail(a)
        BY <2>2, <3>14, OtherVerdictStep DEF Fail, Verdicts
      <3>15. CASE Receive(a)
        BY <2>2, <3>15, ReceiveTold
      <3> QED BY <2>4, <3>3, <3>4, <3>5, <3>6, <3>7, <3>8, <3>9, <3>10, <3>11,
                 <3>12, <3>13, <3>14, <3>15 DEF AdminStep
    <2> QED BY <1>2, <2>3, <2>4 DEF Next
  <1> QED BY <1>1, <1>2

\* As long as no answer of the table is lost, the verdicts are exact for every
\* request whose reads, if any, showed the record as it was: a create is refused
\* only by another create, a rotation only after another's write of the rounds,
\* and no client is reported missing that was there when the request began
\* (CreateClient, UpdateRounds, DeactivateClient, UpdateAudiences).
THEOREM VerdictsExact == Spec => []ExactUnlessStale
  <1>1. Init => VInv
    <2> SUFFICES ASSUME Init PROVE Told
      BY DEF VInv
    <2>1. history = <<>> /\ Len(history) = 0 /\ \A a \in Admins : request[a] = Idle
      BY DEF Init
    <2>2. AllInformed
      <3>1. 0 <= Len(history)
        BY <2>1
      <3>2. Informed(Idle, history, record.rounds, generated)
        BY <3>1 DEF Informed, Pending, Idle
      <3> QED BY <2>1, <3>2 DEF AllInformed
    <2>3. Numbered /\ OwnSecrets
      BY <2>1 DEF Numbered, OwnSecrets, Pending, Idle
    <2> QED BY <2>2, <2>3 DEF Told
  <1>2. IInv /\ VInv /\ [Next]_vars => VInv'
    BY NextTold
  <1>3. VInv => ExactUnlessStale
    BY DEF VInv, Told, AllInformed, Informed, WrittenFrom, ExactUnlessStale, Exact
  <1> QED BY <1>1, <1>2, <1>3, Inductive, PTL DEF Spec
=============================================================================
