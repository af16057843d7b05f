----------------------------- MODULE ClientRecord -----------------------------
(***************************************************************************)
(* What m2m/provision_service.go promises of the record of one machine     *)
(* client, without the conditional writes, the reads and the retries that  *)
(* MachineClients models: a request takes effect in one step between its   *)
(* beginning and its answer, a new secret is written at most once however  *)
(* often the write is sent, the record accepts the newest MaxSecretRounds  *)
(* of all secrets written, and a refusal has its cause.                    *)
(***************************************************************************)
EXTENDS Integers, Sequences

CONSTANTS Admins, Maps, NoMap, MaxSecretRounds, StaleReads,
          Secrets, \* what a new secret is taken from
          NoSecret

VARIABLES record,  \* what the exchanges and the admins find
          secrets, \* all secrets ever written, oldest first
          op,      \* what each admin is about
          call     \* the admin requests

vars == <<record, secrets, op, call>>

-----------------------------------------------------------------------------
(***************************************************************************)
(* A request: the map it carries, the secret it has written, its verdict;  *)
(* how many secrets there were and whether the client was revoked when it  *)
(* began, and whether it has looked at an older record.                    *)
(***************************************************************************)
NoCall == [map |-> NoMap, secret |-> NoSecret, verdict |-> "ok",
           since |-> 0, revoked |-> FALSE, stale |-> FALSE]

Operations == {"create", "rotate", "revoke", "update"}

Init ==
  /\ record = [rounds |-> <<>>, active |-> FALSE, audiences |-> NoMap]
  /\ secrets = <<>>
  /\ op = [a \in Admins |-> "none"]
  /\ call = [a \in Admins |-> NoCall]

Present == secrets # <<>>

Goto(a, next) == op' = [op EXCEPT ![a] = next]

Ask(a, operation, map) ==
  /\ op[a] = "none"
  /\ Goto(a, operation)
  /\ call' = [call EXCEPT ![a] =
       [NoCall EXCEPT !.map = map, !.since = Len(secrets),
                      !.revoked = Present /\ ~record.active]]
  /\ UNCHANGED <<record, secrets>>

\* A request of the wrong form.
Reject(a) ==
  /\ op[a] = "none"
  /\ Goto(a, "answered")
  /\ call' = [call EXCEPT ![a].verdict = "invalid"]
  /\ UNCHANGED <<record, secrets>>

\* The request has taken effect: it is answered so, or fails all the same, or
\* nobody has heard of it yet.
Effect(a, secret) ==
  \/ call' = [call EXCEPT ![a].secret = secret] /\ UNCHANGED op
  \/ /\ Goto(a, "answered")
     /\ \E verdict \in {"ok", "error"} :
          call' = [call EXCEPT ![a].secret = secret, ![a].verdict = verdict]

-----------------------------------------------------------------------------
Newest(all) ==
  [i \in 1 .. (IF Len(all) < MaxSecretRounds THEN Len(all) ELSE MaxSecretRounds) |->
     all[Len(all) + 1 - i]]

\* A secret that was never written before becomes the newest.
Write(a) ==
  \E secret \in {s \in Secrets : \A i \in 1 .. Len(secrets) : secrets[i] # s} :
    /\ call[a].secret = NoSecret
    /\ secrets' = Append(secrets, secret)
    /\ Effect(a, secret)

Create(a) ==
  /\ op[a] = "create"
  /\ ~Present
  /\ Write(a)
  /\ record' = [rounds |-> Newest(secrets'), active |-> TRUE,
                audiences |-> call[a].map]

\* A client that was revoked before the request began is not rotated.
Rotate(a) ==
  /\ op[a] = "rotate"
  /\ Present
  /\ call[a].revoked => call[a].stale
  /\ Write(a)
  /\ record' = [record EXCEPT !.rounds = Newest(secrets')]

Revoke(a) ==
  /\ op[a] = "revoke"
  /\ Present
  /\ Effect(a, call[a].secret)
  /\ record' = [record EXCEPT !.active = FALSE]
  /\ UNCHANGED secrets

Update(a) ==
  /\ op[a] = "update"
  /\ Present
  /\ Effect(a, call[a].secret)
  /\ record' = [record EXCEPT !.audiences = call[a].map]
  /\ UNCHANGED secrets

-----------------------------------------------------------------------------
\* A rotation looks at an older record.
Lag(a) ==
  /\ StaleReads
  /\ op[a] = "rotate"
  /\ UNCHANGED <<record, secrets, op>>
  /\ call' = [call EXCEPT ![a].stale = TRUE]

\* What makes a verdict true of a request that looked at the record as it is.
Cause(a, verdict) ==
  \/ verdict = "exists" /\ op[a] = "create" /\ Present
  \/ verdict = "notfound" /\ op[a] \in {"rotate", "revoke", "update"} /\ ~Present
  \/ verdict = "inactive" /\ op[a] = "rotate" /\ Present /\ ~record.active
  \/ verdict = "conflict" /\ op[a] = "rotate" /\ Len(secrets) > call[a].since

Verdict(a, verdict, stale) ==
  call' = [call EXCEPT ![a].verdict = verdict, ![a].stale = stale]

Refuse(a) ==
  /\ op[a] \in Operations
  /\ Goto(a, "answered")
  /\ \/ \E verdict \in {"exists", "notfound", "inactive", "conflict"} :
          Cause(a, verdict) /\ Verdict(a, verdict, call[a].stale)
     \/ /\ StaleReads /\ op[a] = "rotate"
        /\ \E verdict \in {"notfound", "inactive", "conflict"} : Verdict(a, verdict, TRUE)
     \/ Verdict(a, "error", call[a].stale)
  /\ UNCHANGED <<record, secrets>>

Receive(a) ==
  /\ op[a] = "answered"
  /\ Goto(a, "none")
  /\ call' = [call EXCEPT ![a] = NoCall]
  /\ UNCHANGED <<record, secrets>>

CallStep(a) ==
  \/ /\ op[a] = "none"
     /\ \/ \E map \in Maps : Ask(a, "create", map) \/ Ask(a, "update", map)
        \/ Ask(a, "rotate", NoMap) \/ Ask(a, "revoke", NoMap) \/ Reject(a)
  \/ /\ op[a] \in Operations
     /\ \/ Create(a) \/ Rotate(a) \/ Revoke(a) \/ Update(a)
        \/ Lag(a) \/ Refuse(a)
  \/ Receive(a)

Next == \E a \in Admins : CallStep(a)

Spec == Init /\ [][Next]_vars
=============================================================================
