----------------------------- MODULE FixedWindow ------------------------------
(***************************************************************************)
(* What the limiter of m2m/service.go promises to the exchanges of one     *)
(* clientId, without the item, the two UpdateItems and the clock readings  *)
(* that RateWindow models: a window has Limit slots, an exchange is let    *)
(* through by taking one or by opening the next window, it is turned away  *)
(* only when no slot is left, and windows are not opened before they are   *)
(* due.                                                                    *)
(***************************************************************************)
EXTENDS Integers

CONSTANTS Calls, Limit, Duration, RequestTimeout

VARIABLES call,    \* where each caller is with the limiter
          clock,
          windows, \* windows opened so far
          left,    \* slots left in the last of them
          sweeps   \* deletions by the TTL process so far

vars == <<call, clock, windows, left, sweeps>>

Answers == {"admitted", "limited", "error"}

Init ==
  /\ call = [c \in Calls |-> "idle"]
  /\ clock = 0
  /\ windows = 0
  /\ left = 0
  /\ sweeps = 0

Ask(c) ==
  /\ call[c] # "asking"
  /\ call' = [call EXCEPT ![c] = "asking"]
  /\ UNCHANGED <<clock, windows, left, sweeps>>

(***************************************************************************)
(* One window per Duration; a deletion adds one, and with it the part of a *)
(* window that an old clock reading reaches back.                          *)
(***************************************************************************)
Due ==
  (windows + 1) * Duration <= clock + Duration + sweeps * (Duration + RequestTimeout)

OpenWindow == Due /\ windows' = windows + 1 /\ left' = Limit - 1
TakeSlot == left > 0 /\ left' = left - 1 /\ UNCHANGED windows

Reply(c, answer) ==
  /\ call[c] = "asking"
  /\ call' = [call EXCEPT ![c] = answer]
  /\ UNCHANGED <<clock, sweeps>>

Admit(c) == Reply(c, "admitted") /\ (OpenWindow \/ TakeSlot)
Refuse(c) == Reply(c, "limited") /\ left = 0 /\ UNCHANGED <<windows, left>>
Fail(c) == Reply(c, "error") /\ UNCHANGED <<windows, left>>

\* A slot is used up and its answer lost; the caller asks again or gives up.
Forfeit(c) ==
  /\ Reply(c, "asking") \/ Reply(c, "error")
  /\ OpenWindow \/ TakeSlot

\* The TTL process deletes the item, and with it the slots that are left.
Sweep ==
  /\ sweeps' = sweeps + 1
  /\ left' = 0
  /\ UNCHANGED <<call, clock, windows>>

Tick == clock' = clock + 1 /\ UNCHANGED <<call, windows, left, sweeps>>

CallStep(c) == Ask(c) \/ Admit(c) \/ Refuse(c) \/ Fail(c) \/ Forfeit(c)

Next == (\E c \in Calls : CallStep(c)) \/ Sweep \/ Tick

Spec == Init /\ [][Next]_vars
=============================================================================
