------------------------- MODULE MachineClientsProofs -------------------------
(***************************************************************************)
(* Proofs about MachineClients, for any number of concurrent admins and    *)
(* lost answers, any MaxSecretRounds, and stale reads or not.              *)
(***************************************************************************)
EXTENDS MachineClients, TLAPS

(***************************************************************************)
(* A rotation writes what it read plus one secret, and the swap makes sure *)
(* that what it read is what is there; so the record follows the history   *)
(* by one secret at a time.  Nothing is needed about the copies that reads *)
(* may show.                                                               *)
(***************************************************************************)
Shorter(m, n) == IF n < m THEN n ELSE m

Latest(rounds, hist) ==
  /\ Len(rounds) = Shorter(MaxSecretRounds, Len(hist))
  /\ \A i \in 1 .. Len(rounds) : rounds[i] = hist[Len(hist) + 1 - i]

\* Requests that write no secret carry none; those that do carry a new one.
Carried ==
  \A a \in Admins :
    /\ request[a].pc \in {"put", "swap"} => request[a].secret \in Secrets
    /\ request[a].pc \in {"idle", "deactivate", "replace"} => request[a].secret = NoSecret

Given(a) ==
  /\ request[a].pc = "answered"
  /\ request[a].verdict = "ok"
  /\ request[a].secret # NoSecret

Written == \A a \in Admins : Given(a) =>
             \E i \in 1 .. Len(history) : history[i] = request[a].secret

IInv == TypeOK /\ Carried /\ Latest(record.rounds, history) /\ Written

-----------------------------------------------------------------------------
\* What RotateClient makes of the rounds it read.
LEMMA Trimmed ==
  ASSUME NEW s \in Secrets, NEW r \in Seq(Secrets), NEW m \in Nat \ {0}
  PROVE  LET all == <<s>> \o r
             next == SubSeq(all, 1, IF Len(all) > m THEN m ELSE Len(all))
         IN  /\ next \in Seq(Secrets)
             /\ Len(next) = Shorter(m, Len(r) + 1)
             /\ next[1] = s
             /\ \A i \in 2 .. Len(next) : next[i] = r[i - 1]
  <1> DEFINE all == <<s>> \o r
             n == IF Len(all) > m THEN m ELSE Len(all)
             next == SubSeq(all, 1, n)
  <1>1. all \in Seq(Secrets) /\ Len(all) = Len(r) + 1
    OBVIOUS
  <1>2. all[1] = s /\ \A i \in 2 .. Len(all) : all[i] = r[i - 1]
    OBVIOUS
  <1>3. n \in 1 .. Len(all) /\ n = Shorter(m, Len(r) + 1)
    BY <1>1 DEF Shorter
  <1>4. next \in Seq(Secrets) /\ Len(next) = n
    BY <1>1, <1>3
  <1>5. \A i \in 1 .. n : next[i] = all[i]
    BY <1>1, <1>3
  <1> QED BY <1>1, <1>2, <1>3, <1>4, <1>5

\* A first secret, and one more secret, keep the rounds in step.
LEMMA FirstSecret ==
  ASSUME NEW hist \in Seq(Secrets), Latest(<<>>, hist), NEW s \in Secrets
  PROVE  Latest(<<s>>, Append(hist, s))
  <1>1. Len(hist) = 0
    BY ClientsAssumption DEF Latest, Shorter
  <1>2. /\ Len(Append(hist, s)) = 1 /\ Append(hist, s)[1] = s
        /\ Len(<<s>>) = 1 /\ <<s>>[1] = s
    BY <1>1
  <1> QED BY <1>2, ClientsAssumption DEF Latest, Shorter

LEMMA OneMoreSecret ==
  ASSUME NEW hist \in Seq(Secrets), NEW r \in Seq(Secrets), Latest(r, hist),
         NEW s \in Secrets, NEW next \in Seq(Secrets),
         Len(next) = Shorter(MaxSecretRounds, Len(r) + 1), next[1] = s,
         \A i \in 2 .. Len(next) : next[i] = r[i - 1]
  PROVE  Latest(next, Append(hist, s))
  <1> DEFINE longer == Append(hist, s)
  <1>1. /\ Len(longer) = Len(hist) + 1 /\ longer[Len(hist) + 1] = s
        /\ \A i \in 1 .. Len(hist) : longer[i] = hist[i]
    OBVIOUS
  <1>2. Len(next) = Shorter(MaxSecretRounds, Len(hist) + 1)
    BY ClientsAssumption DEF Latest, Shorter
  <1>3. ASSUME NEW i \in 1 .. Len(next)
        PROVE  next[i] = longer[Len(hist) + 2 - i]
    <2>1. CASE i = 1
      BY <1>1, <2>1
    <2>2. CASE i # 1
      <3>1. i \in 2 .. Len(next) /\ i - 1 \in 1 .. Len(r)
        BY <2>2, ClientsAssumption DEF Shorter
      <3>2. next[i] = hist[Len(hist) + 1 - (i - 1)]
        BY <3>1 DEF Latest
      <3>3. Len(r) <= Len(hist)
        BY ClientsAssumption DEF Latest, Shorter
      <3>4. Len(hist) + 2 - i \in 1 .. Len(hist)
        BY <3>1, <3>3
      <3> QED BY <1>1, <3>2, <3>4
    <2> QED BY <2>1, <2>2
  <1>4. \A i \in 1 .. Len(next) : Len(longer) + 1 - i = Len(hist) + 2 - i
    BY <1>1
  <1> QED BY <1>1, <1>2, <1>3, <1>4 DEF Latest

-----------------------------------------------------------------------------
(***************************************************************************)
(* How one step changes the requests: one of them moves.                   *)
(***************************************************************************)
LEMMA OneRequest ==
  ASSUME TypeOK, NEW a \in Admins, NEW moved \in Requests,
         request' = [request EXCEPT ![a] = moved]
  PROVE  /\ request' \in [Admins -> Requests]
         /\ request'[a] = moved
         /\ \A b \in Admins \ {a} : request'[b] = request[b]
  BY DEF TypeOK

LEMMA Answering ==
  ASSUME TypeOK, NEW a \in Admins, NEW verdict \in Verdicts, Answer(a, verdict)
  PROVE  /\ request' \in [Admins -> Requests]
         /\ request'[a].pc = "answered"
         /\ request'[a].verdict = verdict
         /\ request'[a].secret = request[a].secret
         /\ \A b \in Admins \ {a} : request'[b] = request[b]
  <1> DEFINE moved == [request[a] EXCEPT !.pc = "answered", !.verdict = verdict]
  <1>1. request[a] \in Requests
    BY DEF TypeOK
  <1>2. moved \in Requests
    BY <1>1 DEF Requests
  <1>3. request' = [request EXCEPT ![a] = moved]
    BY DEF Answer
  <1>4. /\ moved.pc = "answered" /\ moved.verdict = verdict
        /\ moved.secret = request[a].secret
    BY <1>1 DEF Requests
  <1> HIDE DEF moved
  <1> QED BY <1>2, <1>3, <1>4, OneRequest

LEMMA AnsweringFrom ==
  ASSUME TypeOK, NEW a \in Admins, NEW r, NEW verdict \in Verdicts,
         AnswerFrom(a, r, verdict)
  PROVE  /\ request' \in [Admins -> Requests]
         /\ request'[a].pc = "answered"
         /\ request'[a].verdict = verdict
         /\ request'[a].secret = request[a].secret
         /\ \A b \in Admins \ {a} : request'[b] = request[b]
  <1> DEFINE older == request[a].stale \/ r # record
             moved == [request[a] EXCEPT !.pc = "answered", !.verdict = verdict,
                                         !.stale = older]
  <1>1. request[a] \in Requests
    BY DEF TypeOK
  <1>2. older \in BOOLEAN
    BY <1>1 DEF Requests
  <1>3. request' = [request EXCEPT ![a] = moved]
    BY DEF AnswerFrom
  <1> HIDE DEF older
  <1>4. moved \in Requests
    BY <1>1, <1>2 DEF Requests
  <1>5. /\ moved.pc = "answered" /\ moved.verdict = verdict
        /\ moved.secret = request[a].secret
    BY <1>1 DEF Requests
  <1> HIDE DEF moved
  <1> QED BY <1>3, <1>4, <1>5, OneRequest

(***************************************************************************)
(* An applied write either answers ok or leaves the request or fails it.   *)
(***************************************************************************)
LEMMA Applying ==
  ASSUME TypeOK, NEW a \in Admins, Applied(a)
  PROVE  /\ request' \in [Admins -> Requests]
         /\ lost' \in Nat
         /\ request'[a].secret = request[a].secret
         /\ \/ request'[a].pc = "answered"
            \/ request'[a] = request[a]
         /\ \A b \in Admins \ {a} : request'[b] = request[b]
  <1>1. lost \in Nat
    BY DEF TypeOK
  <1>2. lost' \in Nat
    <2>1. lost' = lost \/ lost' = lost + 1
      BY DEF Applied
    <2> QED BY <1>1, <2>1
  <1>3. CASE Answer(a, "ok") \/ Answer(a, "error")
    BY <1>2, <1>3, Answering DEF Verdicts
  <1>4. CASE UNCHANGED request
    BY <1>2, <1>4 DEF TypeOK
  <1> QED BY <1>3, <1>4 DEF Applied

(***************************************************************************)
(* A request that moves without writing a secret; what it may carry.       *)
(***************************************************************************)
Proper(q) ==
  /\ q.pc \in {"put", "swap"} => q.secret \in Secrets
  /\ q.pc \in {"idle", "deactivate", "replace"} => q.secret = NoSecret
  /\ q.pc = "answered" /\ q.verdict = "ok" => q.secret = NoSecret

LEMMA QuietStep ==
  ASSUME IInv, NEW a \in Admins,
         \/ Proper(request'[a])
         \/ /\ request'[a].pc = "answered" /\ request'[a].verdict # "ok"
         \/ request'[a] = request[a],
         \A b \in Admins \ {a} : request'[b] = request[b],
         history' = history, record'.rounds = record.rounds
  PROVE  Carried' /\ Latest(record.rounds, history)' /\ Written'
  <1>1. Carried'
    BY DEF IInv, Carried, Proper
  <1>2. Latest(record.rounds, history)'
    BY DEF IInv, Latest
  <1>3. Written'
    <2> SUFFICES ASSUME NEW b \in Admins, Given(b)'
                 PROVE  \E i \in 1 .. Len(history) : history[i] = request'[b].secret
      BY DEF Written
    <2>1. request'[b] = request[b]
      BY DEF Given, Proper
    <2>2. Given(b)
      BY <2>1 DEF Given
    <2> QED BY <2>1, <2>2 DEF IInv, Written
  <1> QED BY <1>1, <1>2, <1>3
(***************************************************************************)
(* A write of one more secret, answered or about to be sent again.         *)
(***************************************************************************)
LEMMA WritingStep ==
  ASSUME IInv, NEW a \in Admins, request[a].pc \in {"put", "swap"},
         history' = Append(history, request[a].secret),
         Latest(record.rounds, history)', Applied(a)
  PROVE  Carried' /\ Latest(record.rounds, history)' /\ Written'
  <1> DEFINE s == request[a].secret
  <1>1. /\ request'[a].secret = s
        /\ request'[a].pc = "answered" \/ request'[a] = request[a]
        /\ \A b \in Admins \ {a} : request'[b] = request[b]
    BY Applying DEF IInv
  <1>2. s \in Secrets /\ history \in Seq(Secrets)
    BY DEF IInv, Carried, TypeOK
  <1>3. Carried'
    BY <1>1 DEF IInv, Carried
  <1>4. /\ Len(history') = Len(history) + 1
        /\ history'[Len(history')] = s
        /\ \A i \in 1 .. Len(history) : history'[i] = history[i]
    BY <1>2
  <1>5. Len(history) \in Nat
    BY <1>2
  <1>6. Len(history') \in 1 .. Len(history') /\ 1 .. Len(history) \subseteq 1 .. Len(history')
    BY <1>4, <1>5
  <1>7. Written'
    <2> SUFFICES ASSUME NEW b \in Admins, Given(b)'
                 PROVE  \E i \in 1 .. Len(history') : history'[i] = request'[b].secret
      BY DEF Written
    <2>1. CASE b = a
      BY <1>1, <1>4, <1>6, <2>1
    <2>2. CASE b # a
      <3>1. request'[b] = request[b] /\ Given(b)
        BY <1>1, <2>2 DEF Given
      <3>2. PICK i \in 1 .. Len(history) : history[i] = request[b].secret
        BY <3>1 DEF IInv, Written
      <3>3. i \in 1 .. Len(history') /\ history'[i] = request'[b].secret
        BY <1>4, <1>6, <3>1, <3>2
      <3> QED BY <3>3
    <2> QED BY <2>1, <2>2
  <1> QED BY <1>3, <1>7

\* A record in step with the history has at most MaxSecretRounds rounds.
LEMMA Bounded ==
  ASSUME NEW rounds \in Seq(Secrets), NEW hist \in Seq(Secrets), Latest(rounds, hist)
  PROVE  Len(rounds) <= MaxSecretRounds
  BY ClientsAssumption DEF Latest, Shorter

(***************************************************************************)
(* TypeOK after a step whose new values have their types.                  *)
(***************************************************************************)
LEMMA Typed ==
  ASSUME record' \in Records, replica' \in Records,
         request' \in [Admins -> Requests], generated' \in Nat, lost' \in Nat,
         history' \in Seq(Secrets), inUse' \in Nat,
         Latest(record.rounds, history)'
  PROVE  TypeOK'
  <1>1. record'.rounds \in Seq(Secrets)
    BY DEF Records
  <1>2. Len(record'.rounds) <= MaxSecretRounds
    BY <1>1, Bounded
  <1> QED BY <1>2 DEF TypeOK

LEMMA NoRecordTyped == NoRecord \in Records
  <1>1. <<>> \in Seq(Secrets)
    OBVIOUS
  <1> QED BY <1>1 DEF NoRecord, Records

LEMMA IdleTyped == Idle \in Requests
  <1>1. NoRecord \in Records
    BY NoRecordTyped
  <1>2. NoSecret \in Nat /\ 0 \in Nat
    BY DEF NoSecret
  <1> QED BY <1>1, <1>2 DEF Idle, Requests, Verdicts

LEMMA InitIInv == Init => IInv
  <1> SUFFICES ASSUME Init PROVE IInv
    OBVIOUS
  <1>1. /\ history = <<>> /\ record.rounds = <<>>
        /\ \A a \in Admins : request[a] = Idle
    BY DEF Init, NoRecord
  <1>2. /\ Len(<<>>) = 0 /\ <<>> \in Seq(Secrets) /\ 0 \in Nat
    OBVIOUS
  <1>3. MaxSecretRounds \in Nat /\ 0 <= MaxSecretRounds
    BY ClientsAssumption
  <1>4. Latest(record.rounds, history)
    BY <1>1, <1>2, <1>3 DEF Latest, Shorter
  <1>5. TypeOK
    <2>1. request \in [Admins -> Requests]
      BY IdleTyped DEF Init
    <2>2. Len(record.rounds) <= MaxSecretRounds
      BY <1>1, <1>2, <1>3
    <2> QED BY <1>1, <1>2, <2>1, <2>2, NoRecordTyped DEF Init, TypeOK, NoSecret
  <1>6. Carried /\ Written
    BY <1>1 DEF Carried, Written, Given, Idle
  <1> QED BY <1>4, <1>5, <1>6 DEF IInv

-----------------------------------------------------------------------------
(***************************************************************************)
(* The steps, one lemma for each kind.                                     *)
(***************************************************************************)
LEMMA NewNumber ==
  ASSUME NEW n \in Nat
  PROVE  n + 1 \in Nat /\ n + 1 \in Secrets /\ n + 1 # NoSecret
  BY DEF Secrets, NoSecret

\* A request starts: a create with a new secret, the others with none.
LEMMA BeginStep ==
  ASSUME IInv, NEW a \in Admins, NEW map \in Maps \cup {NoMap}, NEW secret \in Nat,
         NEW pc \in {"put", "get", "deactivate", "replace"},
         pc = "put" => secret \in Secrets,
         pc \in {"deactivate", "replace"} => secret = NoSecret,
         Begin(a, pc, secret, map), generated' \in Nat
  PROVE  IInv'
  <1> DEFINE moved == [Idle EXCEPT !.pc = pc, !.secret = secret, !.map = map,
                                   !.since = Len(history),
                                   !.revoked = Exists(record) /\ ~record.active]
  <1>1. TypeOK
    BY DEF IInv
  <1>2. Len(history) \in Nat
    BY <1>1 DEF TypeOK
  <1>3. (Exists(record) /\ ~record.active) \in BOOLEAN
    BY <1>1 DEF TypeOK, Records, Exists
  <1>4. moved \in Requests
    BY <1>2, <1>3, IdleTyped DEF Requests, Idle, Writing
  <1>5. request' = [request EXCEPT ![a] = moved]
    BY DEF Begin
  <1>6. moved.pc = pc /\ moved.secret = secret
    BY DEF Idle
  <1> HIDE DEF moved
  <1>7. /\ request' \in [Admins -> Requests]
        /\ request'[a] = moved
        /\ \A b \in Admins \ {a} : request'[b] = request[b]
    BY <1>1, <1>4, <1>5, OneRequest
  <1>8. Proper(moved)
    BY <1>6 DEF Proper
  <1>9. Carried' /\ Latest(record.rounds, history)' /\ Written'
    BY <1>7, <1>8, QuietStep DEF Begin
  <1>10. TypeOK'
    BY <1>1, <1>7, <1>9, Typed DEF Begin, TypeOK
  <1> QED BY <1>9, <1>10 DEF IInv

\* A request is answered without a write, and not with ok.
LEMMA RefusedStep ==
  ASSUME IInv, NEW a \in Admins, NEW verdict \in Verdicts \ {"ok"},
         Answer(a, verdict) \/ \E r : AnswerFrom(a, r, verdict),
         UNCHANGED <<record, replica, generated, lost, history, inUse>>
  PROVE  IInv'
  <1>1. TypeOK
    BY DEF IInv
  <1>2. /\ request' \in [Admins -> Requests]
        /\ request'[a].pc = "answered" /\ request'[a].verdict # "ok"
        /\ \A b \in Admins \ {a} : request'[b] = request[b]
    BY <1>1, Answering, AnsweringFrom
  <1>3. Carried' /\ Latest(record.rounds, history)' /\ Written'
    BY <1>2, QuietStep
  <1>4. TypeOK'
    BY <1>1, <1>2, <1>3, Typed DEF TypeOK
  <1> QED BY <1>3, <1>4 DEF IInv
\* SET of one attribute: the rounds stay as they are.
LEMMA SettingStep ==
  ASSUME IInv, NEW a \in Admins, request[a].pc \in {"deactivate", "replace"},
         NEW written \in Records, written.rounds = record.rounds,
         SetAttribute(a, written)
  PROVE  IInv'
  <1>1. TypeOK
    BY DEF IInv
  <1>2. CASE ~Exists(record)
    BY <1>2, RefusedStep DEF SetAttribute, Verdicts
  <1>3. CASE Exists(record)
    <2>1. record' = written /\ Applied(a)
      BY <1>3 DEF SetAttribute
    <2>2. /\ request' \in [Admins -> Requests] /\ lost' \in Nat
          /\ request'[a].secret = request[a].secret
          /\ request'[a].pc = "answered" \/ request'[a] = request[a]
          /\ \A b \in Admins \ {a} : request'[b] = request[b]
      BY <1>1, <2>1, Applying
    <2>3. request[a].secret = NoSecret
      BY DEF IInv, Carried
    <2>4. Proper(request'[a]) \/ request'[a] = request[a]
      BY <2>2, <2>3 DEF Proper
    <2>5. history' = history /\ record'.rounds = record.rounds
      BY <2>1 DEF SetAttribute
    <2>6. Carried' /\ Latest(record.rounds, history)' /\ Written'
      BY <2>2, <2>4, <2>5, QuietStep
    <2>7. TypeOK'
      BY <1>1, <2>1, <2>2, <2>6, Typed DEF SetAttribute, TypeOK
    <2> QED BY <2>6, <2>7 DEF IInv
  <1> QED BY <1>2, <1>3

\* CreateClient of the store: the first secret of the record.
LEMMA PutStep ==
  ASSUME IInv, NEW a \in Admins, PutRecord(a)
  PROVE  IInv'
  <1>1. TypeOK
    BY DEF IInv
  <1>2. CASE Exists(record)
    BY <1>2, RefusedStep DEF PutRecord, Verdicts
  <1>3. CASE ~Exists(record)
    <2> DEFINE s == request[a].secret
    <2>1. /\ record' = [rounds |-> <<s>>, active |-> TRUE, audiences |-> request[a].map]
          /\ history' = Append(history, s)
          /\ Applied(a) /\ request[a].pc = "put"
      BY <1>3 DEF PutRecord
    <2>2. s \in Secrets
      BY <2>1 DEF IInv, Carried
    <2>3. history \in Seq(Secrets) /\ request[a].map \in Maps \cup {NoMap}
      BY <1>1 DEF TypeOK, Requests
    <2>4. Latest(<<>>, history)
      BY <1>3 DEF IInv, Exists
    <2>5. Latest(<<s>>, Append(history, s))
      BY <2>2, <2>3, <2>4, FirstSecret
    <2>6. Latest(record.rounds, history)'
      BY <2>1, <2>5
    <2>7. Carried' /\ Latest(record.rounds, history)' /\ Written'
      BY <2>1, <2>6, WritingStep
    <2>8. /\ <<s>> \in Seq(Secrets)
          /\ Append(history, s) \in Seq(Secrets)
      BY <2>2, <2>3
    <2>9. record' \in Records
      BY <2>1, <2>3, <2>8 DEF Records
    <2>10. request' \in [Admins -> Requests] /\ lost' \in Nat
      BY <1>1, <2>1, Applying
    <2>11. TypeOK'
      BY <1>1, <2>1, <2>7, <2>8, <2>9, <2>10, Typed DEF PutRecord, TypeOK
    <2> QED BY <2>7, <2>11 DEF IInv
  <1> QED BY <1>2, <1>3

\* RotateClient: what it read and the new secret.
LEMMA GetStep ==
  ASSUME IInv, NEW a \in Admins, GetForRotation(a)
  PROVE  IInv'
  <1>1. TypeOK
    BY DEF IInv
  <1>2. PICK r \in Snapshots :
          IF Rotatable(r)
            THEN /\ generated' = generated + 1
                 /\ request' = [request EXCEPT ![a].pc = "swap", ![a].read = r,
                                               ![a].secret = generated + 1,
                                               ![a].stale = r # record]
            ELSE /\ AnswerFrom(a, r, IF Exists(r) THEN "inactive" ELSE "notfound")
                 /\ UNCHANGED generated
    BY DEF GetForRotation
  <1>3. UNCHANGED <<record, replica, lost, history, inUse>>
    BY DEF GetForRotation
  <1>4. CASE ~Rotatable(r)
    BY <1>2, <1>3, <1>4, RefusedStep DEF Verdicts
  <1>5. CASE Rotatable(r)
    <2> DEFINE s == generated + 1
               older == r # record
               moved == [request[a] EXCEPT !.pc = "swap", !.read = r, !.secret = s,
                                           !.stale = older]
    <2>1. generated \in Nat
      BY <1>1 DEF TypeOK
    <2>2. s \in Nat /\ s \in Secrets
      BY <2>1, NewNumber
    <2>3. generated' = s /\ request' = [request EXCEPT ![a] = moved]
      BY <1>2, <1>5
    <2> HIDE DEF s
    <2>4. r \in Records /\ request[a] \in Requests
      BY <1>1 DEF Snapshots, TypeOK
    <2>5. moved \in Requests /\ moved.pc = "swap" /\ moved.secret = s
      BY <2>2, <2>4 DEF Requests, Writing
    <2> HIDE DEF moved
    <2>6. /\ request' \in [Admins -> Requests]
          /\ request'[a] = moved
          /\ \A b \in Admins \ {a} : request'[b] = request[b]
      BY <1>1, <2>3, <2>5, OneRequest
    <2>7. Proper(moved)
      BY <2>2, <2>5 DEF Proper
    <2>8. Carried' /\ Latest(record.rounds, history)' /\ Written'
      BY <1>3, <2>6, <2>7, QuietStep
    <2>9. TypeOK'
      BY <1>1, <1>3, <2>2, <2>3, <2>6, <2>8, Typed DEF TypeOK
    <2> QED BY <2>8, <2>9 DEF IInv
  <1> QED BY <1>4, <1>5

\* UpdateRounds: the swap adds one secret to what is there, or is refused.
LEMMA SwapStep ==
  ASSUME IInv, NEW a \in Admins, SwapRounds(a)
  PROVE  IInv'
  <1>1. TypeOK /\ request[a].pc = "swap"
    BY DEF IInv, SwapRounds
  <1> DEFINE s == request[a].secret
  <1>2. s \in Secrets
    BY <1>1 DEF IInv, Carried
  <1>3. CASE ~RoundsAsRead(a)
    <2> DEFINE moved == [request[a] EXCEPT !.pc = "reread"]
    <2>1. /\ request' = [request EXCEPT ![a] = moved]
          /\ UNCHANGED <<record, replica, generated, lost, history, inUse>>
      BY <1>3 DEF SwapRounds
    <2>2. request[a] \in Requests
      BY <1>1 DEF TypeOK
    <2>3. moved \in Requests /\ moved.pc = "reread"
      BY <2>2 DEF Requests
    <2> HIDE DEF moved
    <2>4. /\ request' \in [Admins -> Requests]
          /\ request'[a] = moved
          /\ \A b \in Admins \ {a} : request'[b] = request[b]
      BY <1>1, <2>1, <2>3, OneRequest
    <2>5. Proper(moved)
      BY <2>3 DEF Proper
    <2>6. Carried' /\ Latest(record.rounds, history)' /\ Written'
      BY <2>1, <2>4, <2>5, QuietStep
    <2>7. TypeOK'
      BY <1>1, <2>1, <2>4, <2>6, Typed DEF TypeOK
    <2> QED BY <2>6, <2>7 DEF IInv
  <1>4. CASE RoundsAsRead(a)
    <2>1. /\ record' = Rotated(a) /\ history' = Append(history, s) /\ Applied(a)
          /\ UNCHANGED <<replica, generated, inUse>>
      BY <1>4 DEF SwapRounds
    <2>2. /\ record \in Records /\ history \in Seq(Secrets)
          /\ request[a].read.rounds = record.rounds
      BY <1>1, <1>4 DEF TypeOK, RoundsAsRead
    <2>3. record.rounds \in Seq(Secrets)
      BY <2>2 DEF Records
    <2>4. MaxSecretRounds \in Nat \ {0}
      BY ClientsAssumption
    <2>5. /\ NextRounds(a) \in Seq(Secrets)
          /\ Len(NextRounds(a)) = Shorter(MaxSecretRounds, Len(record.rounds) + 1)
          /\ NextRounds(a)[1] = s
          /\ \A i \in 2 .. Len(NextRounds(a)) : NextRounds(a)[i] = record.rounds[i - 1]
      BY <1>2, <2>2, <2>3, <2>4, Trimmed DEF NextRounds
    <2>6. Latest(NextRounds(a), Append(history, s))
      BY <1>2, <2>2, <2>3, <2>5, OneMoreSecret DEF IInv
    <2>7. record' \in Records /\ record'.rounds = NextRounds(a)
      BY <2>1, <2>2, <2>5 DEF Rotated, Records
    <2>8. Latest(record.rounds, history)'
      BY <2>1, <2>6, <2>7
    <2>9. Carried' /\ Latest(record.rounds, history)' /\ Written'
      BY <1>1, <2>1, <2>8, WritingStep
    <2>10. request' \in [Admins -> Requests] /\ lost' \in Nat
      BY <1>1, <2>1, Applying
    <2>11. Append(history, s) \in Seq(Secrets)
      BY <1>2, <2>2
    <2>12. TypeOK'
      BY <1>1, <2>1, <2>7, <2>9, <2>10, <2>11, Typed DEF TypeOK
    <2> QED BY <2>9, <2>12 DEF IInv
  <1> QED BY <1>3, <1>4

\* The admin takes the answer.
LEMMA ReceiveStep ==
  ASSUME IInv, NEW a \in Admins, Receive(a)
  PROVE  IInv'
  <1>1. TypeOK
    BY DEF IInv
  <1>2. /\ request' = [request EXCEPT ![a] = Idle]
        /\ UNCHANGED <<record, replica, generated, lost, history>>
    BY DEF Receive
  <1>3. /\ request' \in [Admins -> Requests]
        /\ request'[a] = Idle
        /\ \A b \in Admins \ {a} : request'[b] = request[b]
    BY <1>1, <1>2, IdleTyped, OneRequest
  <1>4. Proper(Idle)
    BY DEF Proper, Idle
  <1>5. Carried' /\ Latest(record.rounds, history)' /\ Written'
    BY <1>2, <1>3, <1>4, QuietStep
  <1>6. inUse' \in Nat
    BY <1>1 DEF Receive, TypeOK, Requests
  <1>7. TypeOK'
    BY <1>1, <1>2, <1>3, <1>5, <1>6, Typed DEF TypeOK
  <1> QED BY <1>5, <1>7 DEF IInv

LEMMA ReplicateStep ==
  ASSUME IInv, Replicate
  PROVE  IInv'
  <1>1. UNCHANGED <<record, request, generated, lost, history, inUse>> /\ replica' = record
    BY DEF Replicate
  <1>2. TypeOK'
    BY <1>1 DEF IInv, TypeOK
  <1> QED BY <1>1, <1>2 DEF IInv, Carried, Latest, Written, Given
-----------------------------------------------------------------------------
LEMMA NextIInv == IInv /\ [Next]_vars => IInv'
  <1> SUFFICES ASSUME IInv, [Next]_vars PROVE IInv'
    OBVIOUS
  <1>1. TypeOK
    BY DEF IInv
  <1>2. CASE UNCHANGED vars
    BY <1>2 DEF vars, IInv, TypeOK, Carried, Latest, Written, Given
  <1>3. CASE Replicate
    BY <1>3, ReplicateStep
  <1>4. ASSUME NEW a \in Admins, AdminStep(a)
        PROVE  IInv'
    <2>1. generated \in Nat
      BY <1>1 DEF TypeOK
    <2>2. NoMap \in Maps \cup {NoMap} /\ Maps \subseteq Maps \cup {NoMap}
      OBVIOUS
    <2>3. NoSecret \in Nat
      BY DEF NoSecret
    <2>4. ASSUME NEW map \in Maps, Create(a, map) PROVE IInv'
      <3>1. generated + 1 \in Nat /\ generated + 1 \in Secrets
        BY <2>1, NewNumber
      <3>2. generated' = generated + 1 /\ Begin(a, "put", generated + 1, map)
        BY <2>4 DEF Create
      <3> QED BY <2>2, <3>1, <3>2, BeginStep
    <2>5. ASSUME NEW map \in Maps, Update(a, map) PROVE IInv'
      BY <2>1, <2>2, <2>3, <2>5, BeginStep DEF Update
    <2>6. CASE Rotate(a)
      BY <2>1, <2>2, <2>3, <2>6, BeginStep DEF Rotate
    <2>7. CASE Revoke(a)
      BY <2>1, <2>2, <2>3, <2>7, BeginStep DEF Revoke
    <2>8. CASE Malformed(a)
      BY <2>8, RefusedStep DEF Malformed, Verdicts
    <2>9. CASE PutRecord(a)
      BY <2>9, PutStep
    <2>10. CASE Deactivate(a)
      <3>1. /\ [record EXCEPT !.active = FALSE] \in Records
            /\ [record EXCEPT !.active = FALSE].rounds = record.rounds
        BY <1>1 DEF TypeOK, Records
      <3> QED BY <2>10, <3>1, SettingStep DEF Deactivate
    <2>11. CASE ReplaceAudiences(a)
      <3>1. /\ [record EXCEPT !.audiences = request[a].map] \in Records
            /\ [record EXCEPT !.audiences = request[a].map].rounds = record.rounds
        BY <1>1 DEF TypeOK, Records, Requests
      <3> QED BY <2>11, <3>1, SettingStep DEF ReplaceAudiences
    <2>12. CASE GetForRotation(a)
      BY <2>12, GetStep
    <2>13. CASE SwapRounds(a)
      BY <2>13, SwapStep
    <2>14. CASE Reread(a)
      BY <2>14, RefusedStep DEF Reread, RefusedVerdict, Verdicts
    <2>15. CASE Fail(a)
      BY <2>15, RefusedStep DEF Fail, Verdicts
    <2>16. CASE Receive(a)
      BY <2>16, ReceiveStep
    <2> QED BY <1>4, <2>4, <2>5, <2>6, <2>7, <2>8, <2>9, <2>10, <2>11, <2>12,
               <2>13, <2>14, <2>15, <2>16 DEF AdminStep
  <1> QED BY <1>2, <1>3, <1>4 DEF Next

\* IInv holds in every reachable state.
THEOREM Inductive == Spec => []IInv
  BY InitIInv, NextIInv, PTL DEF Spec

\* The record, its copy and the requests keep their shape, and the record never
\* has more rounds than MaxSecretRounds.
THEOREM TypeCorrect == Spec => []TypeOK
  <1>1. IInv => TypeOK
    BY DEF IInv
  <1> QED BY <1>1, Inductive, PTL

\* The compare-and-swap of UpdateRounds loses no update: however many rotations
\* overlap, and however stale what they read, the record accepts exactly the
\* last MaxSecretRounds secrets written.
THEOREM NoRotationLost == Spec => []RoundsAreLatest
  <1>1. IInv => RoundsAreLatest
    <2> SUFFICES ASSUME IInv PROVE RoundsAreLatest
      OBVIOUS
    <2>1. Len(record.rounds) = Shorter(MaxSecretRounds, Len(history))
      BY DEF IInv, Latest
    <2>2. history \in Seq(Secrets) /\ MaxSecretRounds \in Nat
      BY ClientsAssumption DEF IInv, TypeOK
    <2>3. Len(history) \in Nat
      BY <2>2
    <2>4. Shorter(MaxSecretRounds, Len(history)) =
            IF Len(history) < MaxSecretRounds THEN Len(history) ELSE MaxSecretRounds
      BY <2>2, <2>3 DEF Shorter
    <2> QED BY <2>1, <2>4 DEF IInv, Latest, RoundsAreLatest
  <1> QED BY <1>1, Inductive, PTL

\* No admin is given a secret that was not written, or that another request has
\* silently overwritten.
THEOREM SecretsAreWritten == Spec => []AnsweredSecretWritten
  <1>1. IInv => AnsweredSecretWritten
    <2> SUFFICES ASSUME IInv, NEW a \in Admins, Given(a)
                 PROVE  \E i \in 1 .. Len(history) :
                          /\ history[i] = request[a].secret
                          /\ Len(history) - i < MaxSecretRounds =>
                               record.rounds[Len(history) + 1 - i] = request[a].secret
      BY DEF AnsweredSecretWritten, Given
    <2>1. PICK i \in 1 .. Len(history) : history[i] = request[a].secret
      BY DEF IInv, Written
    <2>2. Len(history) \in Nat /\ MaxSecretRounds \in Nat \ {0}
      BY ClientsAssumption DEF IInv, TypeOK
    <2>3. ASSUME Len(history) - i < MaxSecretRounds
          PROVE  record.rounds[Len(history) + 1 - i] = history[i]
      <3> DEFINE j == Len(history) + 1 - i
      <3>1. Len(record.rounds) = Shorter(MaxSecretRounds, Len(history))
        BY DEF IInv, Latest
      <3>2. j \in 1 .. Len(record.rounds) /\ Len(history) + 1 - j = i
        BY <2>2, <2>3, <3>1 DEF Shorter
      <3> QED BY <3>2 DEF IInv, Latest
    <2> QED BY <2>1, <2>3
  <1> QED BY <1>1, Inductive, PTL

LEMMA StaysInactive ==
  ASSUME IInv, Next, Exists(record), ~record.active
  PROVE  ~record'.active
  <1>1. record \in Records
    BY DEF IInv, TypeOK
  <1>2. CASE Replicate
    BY <1>2 DEF Replicate
  <1>3. ASSUME NEW a \in Admins, AdminStep(a)
        PROVE  ~record'.active
    <2>1. CASE PutRecord(a)
      BY <2>1 DEF PutRecord
    <2>2. CASE Deactivate(a) \/ ReplaceAudiences(a)
      BY <1>1, <2>2 DEF Deactivate, ReplaceAudiences, SetAttribute, Records
    <2>3. CASE SwapRounds(a)
      BY <1>1, <2>3 DEF SwapRounds, Rotated, Records
    <2>4. CASE UNCHANGED record
      BY <2>4
    <2> QED BY <1>3, <2>1, <2>2, <2>3, <2>4
         DEF AdminStep, Create, Update, Rotate, Revoke, Begin, Malformed,
             GetForRotation, Reread, Fail, Receive
  <1> QED BY <1>2, <1>3 DEF Next

\* Once revoked a client stays revoked, whatever rotation or update was under
\* way: only CreateClient writes active, and only where there is no record.
THEOREM RevocationKept == Spec => RevocationPermanent
  <1>1. IInv /\ [Next]_vars =>
          [Exists(record) /\ ~record.active => ~record'.active]_vars
    BY StaysInactive DEF vars
  <1> QED BY <1>1, Inductive, PTL DEF Spec, RevocationPermanent

\* An overlapping rotation or revocation never brings an older map of audiences
\* back: the map is that of a create or an update in progress.
THEOREM AudiencesKept == Spec => AudiencesAsAsked
  <1>1. IInv /\ [Next]_vars =>
          [record'.audiences # record.audiences =>
             \E a \in Admins : /\ request[a].pc \in {"put", "replace"}
                               /\ record'.audiences = request[a].map]_vars
    <2> SUFFICES ASSUME IInv, Next, record'.audiences # record.audiences
                 PROVE  \E a \in Admins : /\ request[a].pc \in {"put", "replace"}
                                          /\ record'.audiences = request[a].map
      BY DEF vars
    <2>1. record \in Records
      BY DEF IInv, TypeOK
    <2>2. CASE Replicate
      BY <2>2 DEF Replicate
    <2>3. ASSUME NEW a \in Admins, AdminStep(a)
          PROVE  /\ request[a].pc \in {"put", "replace"}
                 /\ record'.audiences = request[a].map
      <3>1. CASE PutRecord(a)
        BY <3>1 DEF PutRecord
      <3>2. CASE Deactivate(a)
        BY <2>1, <3>2 DEF Deactivate, SetAttribute, Records
      <3>3. CASE ReplaceAudiences(a)
        BY <2>1, <3>3 DEF ReplaceAudiences, SetAttribute, Records
      <3>4. CASE SwapRounds(a)
        BY <2>1, <3>4 DEF SwapRounds, Rotated, Records
      <3>5. CASE UNCHANGED record
        BY <3>5
      <3> QED BY <2>3, <3>1, <3>2, <3>3, <3>4, <3>5
           DEF AdminStep, Create, Update, Rotate, Revoke, Begin, Malformed,
               GetForRotation, Reread, Fail, Receive
    <2> QED BY <2>2, <2>3 DEF Next
  <1> QED BY <1>1, Inductive, PTL DEF Spec, AudiencesAsAsked

-----------------------------------------------------------------------------
(***************************************************************************)
(* Why a revoked client is not rotated by a request that reads the record  *)
(* as it is: revocation is permanent, so a request that began after it     *)
(* reads an inactive record, and is turned away before it has a secret.    *)
(***************************************************************************)
Revoked == Exists(record) /\ ~record.active

TurnedAway ==
  \A a \in Admins : request[a].revoked =>
    /\ Revoked
    /\ request[a].pc = "swap" => request[a].stale
    /\ request[a].pc = "reread" => request[a].stale
    /\ Rotates(a) => request[a].stale

LEMMA StaysRevoked ==
  ASSUME IInv, Next, Revoked
  PROVE  Revoked'
  <1>1. ~record'.active
    BY StaysInactive DEF Revoked
  <1>2. /\ record \in Records /\ record' \in Records
        /\ history \in Seq(Secrets) /\ history' \in Seq(Secrets)
        /\ Latest(record.rounds, history) /\ Latest(record'.rounds, history')
    BY NextIInv DEF IInv, TypeOK
  <1>3. record.rounds \in Seq(Secrets) /\ record'.rounds \in Seq(Secrets)
    BY <1>2 DEF Records
  <1>4. Len(record.rounds) # 0
    BY <1>3 DEF Revoked, Exists
  <1>5. Len(history) # 0
    BY <1>2, <1>4, ClientsAssumption DEF Latest, Shorter
  <1>6. Len(history') # 0
    <2>1. history' = history \/ \E a \in Admins : history' = Append(history, request[a].secret)
      BY DEF Next, AdminStep, Create, Update, Rotate, Revoke, Begin, Malformed,
             PutRecord, Deactivate, ReplaceAudiences, SetAttribute, GetForRotation,
             SwapRounds, Reread, Fail, Receive, Replicate
    <2>2. \A x : Len(Append(history, x)) = Len(history) + 1
      BY <1>2
    <2> QED BY <1>2, <1>5, <2>1, <2>2
  <1>7. Len(record'.rounds) # 0
    BY <1>2, <1>6, ClientsAssumption DEF Latest, Shorter
  <1>8. record'.rounds # <<>>
    BY <1>7
  <1> QED BY <1>1, <1>8 DEF Revoked, Exists

\* One request moves, and the record stays revoked if it was.
LEMMA TurnedAwayKept ==
  ASSUME TurnedAway, NEW a \in Admins, Revoked => Revoked',
         \A b \in Admins \ {a} : request'[b] = request[b],
         request'[a].revoked =>
           /\ Revoked'
           /\ request'[a].pc = "swap" => request'[a].stale
           /\ request'[a].pc = "reread" => request'[a].stale
           /\ Rotates(a)' => request'[a].stale
  PROVE  TurnedAway'
  BY DEF TurnedAway, Rotates

\* A request that is answered, not with a new secret.
LEMMA NoSecretGiven ==
  ASSUME TurnedAway, NEW a \in Admins, Revoked => Revoked',
         \A b \in Admins \ {a} : request'[b] = request[b],
         request'[a].revoked => request[a].revoked,
         request'[a].pc = "answered",
         request'[a].verdict # "ok" \/ request'[a].secret = NoSecret
  PROVE  TurnedAway'
  <1>1. ~Rotates(a)'
    BY DEF Rotates
  <1>2. request'[a].revoked => Revoked'
    BY DEF TurnedAway
  <1> QED BY <1>1, <1>2, TurnedAwayKept
\* A request that moves on without being answered.
LEMMA NotAnswered ==
  ASSUME TurnedAway, NEW a \in Admins, Revoked => Revoked',
         \A b \in Admins \ {a} : request'[b] = request[b],
         request'[a].revoked => Revoked',
         request'[a].pc \notin {"swap", "reread", "answered"}
  PROVE  TurnedAway'
  <1>1. ~Rotates(a)'
    BY DEF Rotates
  <1> QED BY <1>1, TurnedAwayKept

LEMMA NextTurned == IInv /\ TurnedAway /\ [Next]_vars => TurnedAway'
  <1> SUFFICES ASSUME IInv, TurnedAway, [Next]_vars PROVE TurnedAway'
    OBVIOUS
  <1>1. CASE UNCHANGED vars
    BY <1>1 DEF vars, TurnedAway, Revoked, Exists, Rotates
  <1>2. CASE Next
    <2>1. Revoked => Revoked'
      BY <1>2, StaysRevoked
    <2>2. CASE Replicate
      BY <2>2, <2>1 DEF Replicate, TurnedAway, Rotates
    <2>3. ASSUME NEW a \in Admins, AdminStep(a) PROVE TurnedAway'
      <3>1. request \in [Admins -> Requests] /\ request[a] \in Requests
        BY DEF IInv, TypeOK
      <3>2. ASSUME NEW pc \in {"put", "get", "deactivate", "replace"}, NEW secret, NEW map,
                   Begin(a, pc, secret, map)
            PROVE  TurnedAway'
        <4>1. /\ request'[a] = [Idle EXCEPT !.pc = pc, !.secret = secret, !.map = map,
                                     !.since = Len(history), !.revoked = Revoked]
              /\ \A b \in Admins \ {a} : request'[b] = request[b]
          BY <3>1, <3>2 DEF Begin, Revoked
        <4>2. request'[a].pc = pc /\ request'[a].revoked = Revoked
          BY <4>1 DEF Idle
        <4> QED BY <2>1, <4>1, <4>2, NotAnswered
      <3>3. CASE \E map \in Maps : Create(a, map) \/ Update(a, map)
        BY <3>2, <3>3 DEF Create, Update
      <3>4. CASE Rotate(a) \/ Revoke(a)
        BY <3>2, <3>4 DEF Rotate, Revoke
      <3>5. ASSUME NEW verdict \in Verdicts, Answer(a, verdict),
                   verdict # "ok" \/ request[a].secret = NoSecret
            PROVE  TurnedAway'
        <4>1. /\ request'[a] = [request[a] EXCEPT !.pc = "answered", !.verdict = verdict]
              /\ \A b \in Admins \ {a} : request'[b] = request[b]
          BY <3>1, <3>5 DEF Answer
        <4>2. /\ request'[a].pc = "answered" /\ request'[a].verdict = verdict
              /\ request'[a].secret = request[a].secret
              /\ request'[a].revoked = request[a].revoked
          BY <3>1, <4>1 DEF Requests
        <4> QED BY <2>1, <3>5, <4>1, <4>2, NoSecretGiven
      <3>6. CASE Malformed(a) \/ Fail(a)
        BY <3>5, <3>6 DEF Malformed, Fail, Verdicts
      <3>7. CASE PutRecord(a)
        <4>1. CASE Exists(record)
          BY <3>5, <3>7, <4>1 DEF PutRecord, Verdicts
        <4>2. CASE ~Exists(record)
          <5>1. ~request[a].revoked
            BY <4>2 DEF TurnedAway, Revoked
          <5>2. /\ request'[a].revoked = request[a].revoked
                /\ \A b \in Admins \ {a} : request'[b] = request[b]
            BY <3>1, <3>7, <4>2 DEF PutRecord, Applied, Answer, Requests
          <5> QED BY <2>1, <5>1, <5>2, TurnedAwayKept
        <4> QED BY <4>1, <4>2
      <3>8. CASE Deactivate(a) \/ ReplaceAudiences(a)
        <4>1. request[a].secret = NoSecret
          BY <3>8 DEF IInv, Carried, Deactivate, ReplaceAudiences
        <4>2. CASE UNCHANGED request
          BY <2>1, <4>2 DEF TurnedAway, Rotates
        <4>3. CASE \E verdict \in Verdicts : Answer(a, verdict)
          BY <3>5, <4>1, <4>3
        <4> QED BY <3>8, <4>2, <4>3 DEF Deactivate, ReplaceAudiences, SetAttribute, Applied, Verdicts
      <3>9. CASE GetForRotation(a)
        <4>1. PICK r \in Snapshots :
                IF Rotatable(r)
                  THEN request' = [request EXCEPT ![a].pc = "swap", ![a].read = r,
                                                  ![a].secret = generated + 1,
                                                  ![a].stale = r # record]
                  ELSE AnswerFrom(a, r, IF Exists(r) THEN "inactive" ELSE "notfound")
          BY <3>9 DEF GetForRotation
        <4>2. CASE Rotatable(r)
          <5>1. /\ request'[a] = [request[a] EXCEPT !.pc = "swap", !.read = r,
                                     !.secret = generated + 1, !.stale = r # record]
                /\ \A b \in Admins \ {a} : request'[b] = request[b]
            BY <3>1, <4>1, <4>2
          <5>2. /\ request'[a].pc = "swap" /\ request'[a].stale = (r # record)
                /\ request'[a].revoked = request[a].revoked
            BY <3>1, <5>1 DEF Requests
          <5>3. request[a].revoked => Revoked /\ r # record
            BY <4>2 DEF TurnedAway, Revoked, Rotatable
          <5> QED BY <2>1, <5>1, <5>2, <5>3, TurnedAwayKept DEF Rotates
        <4>3. CASE ~Rotatable(r)
          <5>1. /\ request'[a].pc = "answered"
                /\ request'[a].verdict \in {"inactive", "notfound"}
                /\ request'[a].revoked = request[a].revoked
                /\ \A b \in Admins \ {a} : request'[b] = request[b]
            BY <3>1, <4>1, <4>3 DEF AnswerFrom, Requests
          <5> QED BY <2>1, <5>1, NoSecretGiven
        <4> QED BY <4>2, <4>3
      <3>10. CASE SwapRounds(a)
        <4>1. /\ request'[a].revoked = request[a].revoked
              /\ request'[a].stale = request[a].stale
              /\ \A b \in Admins \ {a} : request'[b] = request[b]
          BY <3>1, <3>10 DEF SwapRounds, Applied, Answer, Requests
        <4>2. request[a].revoked => request[a].stale
          BY <3>10 DEF SwapRounds, TurnedAway
        <4>3. request[a].revoked => Revoked'
          BY <2>1 DEF TurnedAway
        <4> QED BY <2>1, <4>1, <4>2, <4>3, TurnedAwayKept
      <3>11. CASE Reread(a)
        <4>1. /\ request'[a].pc = "answered"
              /\ request'[a].verdict \in {"conflict", "notfound"}
              /\ request'[a].revoked = request[a].revoked
              /\ \A b \in Admins \ {a} : request'[b] = request[b]
          BY <3>1, <3>11 DEF Reread, AnswerFrom, RefusedVerdict, Requests
        <4> QED BY <2>1, <4>1, NoSecretGiven
      <3>12. CASE Receive(a)
        <4>1. /\ request'[a] = Idle
              /\ \A b \in Admins \ {a} : request'[b] = request[b]
          BY <3>1, <3>12 DEF Receive
        <4>2. ~request'[a].revoked
          BY <4>1 DEF Idle
        <4> QED BY <2>1, <4>1, <4>2, TurnedAwayKept
      <3> QED BY <2>3, <3>3, <3>4, <3>6, <3>7, <3>8, <3>9, <3>10, <3>11, <3>12 DEF AdminStep
    <2> QED BY <1>2, <2>2, <2>3 DEF Next
  <1> QED BY <1>1, <1>2

\* A rotation that was asked for after the client was revoked, and that reads the
\* record as it is, is never answered with a secret (RotateClient), although the
\* condition of the swap does not look at active.
THEOREM RevokedRotationRefused == Spec => []RevokedNotRotatedUnlessStale
  <1>1. Init => TurnedAway
    BY DEF Init, Idle, TurnedAway, Rotates
  <1>2. IInv /\ TurnedAway /\ [Next]_vars => TurnedAway'
    BY NextTurned
  <1>3. TurnedAway => RevokedNotRotatedUnlessStale
    BY DEF TurnedAway, RevokedNotRotatedUnlessStale
  <1> QED BY <1>1, <1>2, <1>3, Inductive, PTL DEF Spec
=============================================================================
