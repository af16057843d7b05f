--------------------------- MODULE RateWindowProofs ---------------------------
(***************************************************************************)
(* Proofs about RateWindow, for every number of callers, limit, window     *)
(* length, request timeout and number of deletions by the TTL process.     *)
(***************************************************************************)
EXTENDS RateWindow, TLAPS

USE DEF Missing

(***************************************************************************)
(* The induction.  Spent relates what was let through to the count in the  *)
(* item: all windows but the last may be used up, the last one is used up  *)
(* to its count.  Paced keeps the earliest time at which the present       *)
(* number of windows can have been installed: Paid is that time plus       *)
(* Duration, and while the item is there its windowEnd is no earlier.      *)
(***************************************************************************)
AtMostLimit(count) == IF count > Limit THEN Limit ELSE count

Spent ==
  /\ item.windowEnd = Missing => item = Absent /\ granted <= Limit * windows
  /\ item.windowEnd # Missing =>
       /\ windows > 0
       /\ granted <= Limit * (windows - 1) + AtMostLimit(item.windowCount)

Paid == windows * Duration - sweeps * (Duration + RequestTimeout)

Paced ==
  /\ item.windowEnd <= clock + Duration
  /\ item.windowEnd # Missing => Paid <= item.windowEnd
  /\ item.windowEnd = Missing => Paid <= clock - RequestTimeout \/ Paid <= 0

Readings == \A c \in Calls : now[c] <= clock

IInv == TypeOK /\ Readings /\ Spent /\ Paced

-----------------------------------------------------------------------------
(***************************************************************************)
(* Multiplication by a successor, where the arithmetic prover needs help.  *)
(***************************************************************************)
LEMMA Successor ==
  ASSUME NEW a \in Nat, NEW b \in Nat
  PROVE  /\ a * b \in Nat
         /\ (a + 1) * b = a * b + b
         /\ b * (a + 1) = b * a + b
         /\ a \in Nat \ {0} => b * a = b * (a - 1) + b
  BY SMT

(***************************************************************************)
(* Whatever becomes of the answer to an applied UpdateItem, at most one    *)
(* exchange is let through, and none when the count is over the limit      *)
(* (Exchange's comparison with WindowLimit).                               *)
(***************************************************************************)
LEMMA OutcomeSpends ==
  ASSUME TypeOK, NEW c \in Calls, NEW count \in Nat, Outcome(c, count)
  PROVE  /\ pc' \in [Calls -> {"idle"} \cup InFlight \cup Finished]
         /\ attempts' \in [Calls -> Nat]
         /\ granted' \in Nat
         /\ count <= Limit => granted' <= granted + 1
         /\ count > Limit => granted' = granted
  <1>1. CASE Answered(c, count)
    BY <1>1, RateAssumption DEF Answered, TypeOK, InFlight, Finished
  <1>2. CASE AnswerLost(c)
    BY <1>2 DEF AnswerLost, TypeOK, InFlight, Finished
  <1> QED BY <1>1, <1>2 DEF Outcome

LEMMA InitIInv == Init => IInv
  <1> SUFFICES ASSUME Init PROVE IInv
    OBVIOUS
  <1> USE RateAssumption DEF Init
  <1>1. TypeOK
    BY DEF TypeOK, Attributes, Absent, InFlight, Finished
  <1>2. Readings
    <2> SUFFICES ASSUME NEW c \in Calls PROVE now[c] <= clock
      BY DEF Readings
    <2>1. now[c] = 0 /\ clock = 0
      OBVIOUS
    <2> QED BY <2>1
  <1>3. Spent
    BY <1>1, Successor DEF Spent, Absent
  <1>4. Paced
    BY DEF Paced, Paid, Absent
  <1> QED BY <1>1, <1>2, <1>3, <1>4 DEF IInv

(***************************************************************************)
(* Between two windows: what is let through never exceeds Limit * windows. *)
(***************************************************************************)
LEMMA SpentWithinBudget == IInv => BudgetPerWindow
  <1> SUFFICES ASSUME IInv PROVE granted <= Limit * windows
    BY DEF BudgetPerWindow
  <1> USE RateAssumption DEF IInv, TypeOK, Attributes
  <1>1. CASE item.windowEnd = Missing
    BY <1>1 DEF Spent
  <1>2. CASE item.windowEnd # Missing
    <2>1. windows \in Nat \ {0} /\ granted <= Limit * (windows - 1) + Limit
      BY <1>2 DEF Spent, AtMostLimit
    <2> QED BY <2>1, Successor
  <1> QED BY <1>1, <1>2

(***************************************************************************)
(* The conditional UpdateItem: a new window is paid for, because the one   *)
(* before it had ended by a reading no later than the clock.               *)
(***************************************************************************)
LEMMA RolloverIInv ==
  ASSUME IInv, NEW c \in Calls, StartOrRollover(c)
  PROVE  IInv'
  <1> USE RateAssumption DEF IInv, StartOrRollover, NewWindowEnd
  <1> DEFINE end == now[c] + Duration
  <1>1. /\ now[c] \in Nat /\ now[c] <= clock /\ end \in Nat \ {0}
        /\ clock \in Nat /\ windows \in Nat /\ sweeps \in Nat
        /\ granted \in Nat /\ item \in Attributes
    BY DEF TypeOK, Readings
  <1>2. /\ item' \in Attributes
        /\ item'.windowEnd = end /\ item'.windowCount = 1
    BY <1>1 DEF Attributes, IfNotExists
  <1>3. TypeOK'
    BY <1>1, <1>2, OutcomeSpends DEF TypeOK
  <1>4. Readings'
    BY DEF Readings
  <1>5. Spent'
    <2>1. granted <= Limit * windows
      BY SpentWithinBudget DEF BudgetPerWindow
    <2>2. granted' <= granted + 1
      BY OutcomeSpends, <1>1
    <2>3. AtMostLimit(1) = 1
      BY DEF AtMostLimit
    <2>4. windows' = windows + 1 /\ windows' - 1 = windows
      BY <1>1
    <2>5. granted' \in Nat /\ Limit * windows \in Nat
      BY <1>1, <1>3, Successor DEF TypeOK
    <2> QED BY <2>1, <2>2, <2>3, <2>4, <2>5, <1>1, <1>2 DEF Spent, AtMostLimit
  <1>6. Paced'
    <2>1. Paid' = Paid + Duration /\ Paid \in Int
      <3>1. (windows + 1) * Duration = windows * Duration + Duration
        BY <1>1, Successor
      <3>2. windows' = windows + 1 /\ sweeps' = sweeps
        OBVIOUS
      <3>3. Paid' = (windows + 1) * Duration - sweeps * (Duration + RequestTimeout)
        BY <3>2 DEF Paid
      <3>4. /\ windows * Duration \in Nat
            /\ sweeps * (Duration + RequestTimeout) \in Nat
        BY <1>1, Successor
      <3> QED BY <3>1, <3>3, <3>4 DEF Paid
    <2>2. Paid <= now[c]
      <3>1. CASE item.windowEnd = Missing
        BY <3>1, <1>1, <2>1 DEF Paced, InTime
      <3>2. CASE item.windowEnd # Missing
        BY <3>2, <1>1, <2>1 DEF Paced, WindowOver, Attributes
      <3> QED BY <3>1, <3>2
    <2> QED BY <2>1, <2>2, <1>1, <1>2 DEF Paced
  <1> QED BY <1>3, <1>4, <1>5, <1>6

(***************************************************************************)
(* The ADD: it counts in the window that is there, whichever call installed*)
(* it, or installs one when the TTL process has taken the item away.       *)
(***************************************************************************)
LEMMA AddIInv ==
  ASSUME IInv, NEW c \in Calls, AddToWindow(c)
  PROVE  IInv'
  <1> USE RateAssumption DEF IInv, AddToWindow, NewWindowEnd
  <1> DEFINE end == now[c] + Duration
             count == item.windowCount + 1
  <1>1. /\ now[c] \in Nat /\ now[c] <= clock /\ end \in Nat \ {0}
        /\ clock \in Nat /\ windows \in Nat /\ sweeps \in Nat
        /\ granted \in Nat /\ item \in Attributes /\ count \in Nat
    BY DEF TypeOK, Readings, Attributes
  <1>2. /\ item' \in Attributes
        /\ item'.windowCount = count
        /\ item'.windowEnd = IfNotExists(item.windowEnd, end)
    BY <1>1 DEF Attributes, IfNotExists
  <1>3. TypeOK'
    BY <1>1, <1>2, OutcomeSpends DEF TypeOK
  <1>4. Readings'
    BY DEF Readings
  <1>5. /\ count <= Limit => granted' <= granted + 1
        /\ count > Limit => granted' = granted
        /\ granted' \in Nat
    BY OutcomeSpends, <1>1
  <1>6. CASE item.windowEnd = Missing
    <2>1. /\ item'.windowEnd = end /\ windows' = windows + 1 /\ count = 1
      BY <1>1, <1>2, <1>6 DEF IfNotExists, Spent, Absent
    <2>2. Spent'
      <3>1. granted <= Limit * windows /\ Limit * windows \in Nat
        BY <1>1, <1>6, Successor DEF Spent
      <3>2. windows' - 1 = windows
        BY <1>1, <2>1
      <3> QED BY <3>1, <3>2, <2>1, <1>1, <1>2, <1>5 DEF Spent, AtMostLimit
    <2>3. Paced'
      <3>1. Paid' = Paid + Duration /\ Paid \in Int
        BY <1>1, <2>1, Successor DEF Paid
      <3>2. Paid <= now[c]
        BY <1>1, <1>6, <3>1 DEF Paced, InTime
      <3> QED BY <3>1, <3>2, <2>1, <1>1 DEF Paced
    <2> QED BY <1>3, <1>4, <2>2, <2>3
  <1>7. CASE item.windowEnd # Missing
    <2>1. item'.windowEnd = item.windowEnd /\ windows' = windows
      BY <1>2, <1>7 DEF IfNotExists
    <2>2. Spent'
      <3>1. Limit * (windows - 1) \in Int
        BY <1>1
      <3>2. granted <= Limit * (windows - 1) + AtMostLimit(item.windowCount)
        BY <1>7 DEF Spent
      <3>3. granted' <= Limit * (windows - 1) + AtMostLimit(count)
        BY <3>1, <3>2, <1>1, <1>5 DEF AtMostLimit, Attributes
      <3> QED BY <3>3, <2>1, <1>2, <1>7 DEF Spent, AtMostLimit
    <2>3. Paced'
      BY <2>1, <1>7 DEF Paced, Paid
    <2> QED BY <1>3, <1>4, <2>2, <2>3
  <1> QED BY <1>6, <1>7

(***************************************************************************)
(* A deletion forgets the window; its end was at most Duration ahead.      *)
(***************************************************************************)
LEMMA SweepIInv ==
  ASSUME IInv, Sweep
  PROVE  IInv'
  <1> USE RateAssumption DEF IInv, Sweep
  <1>1. /\ clock \in Nat /\ windows \in Nat /\ sweeps \in Nat
        /\ item \in Attributes
    BY DEF TypeOK
  <1>2. item'.windowEnd = Missing
    BY DEF Absent
  <1>3. TypeOK'
    BY DEF TypeOK, Attributes, Absent
  <1>4. Readings'
    BY DEF Readings
  <1>5. Spent'
    BY <1>2, SpentWithinBudget DEF Spent, BudgetPerWindow, Absent
  <1>6. Paced'
    <2>1. /\ Paid' = Paid - (Duration + RequestTimeout) /\ Paid \in Int
      BY <1>1, Successor DEF Paid
    <2>2. Paid <= clock + Duration
      BY <1>1, <2>1 DEF Paced, Attributes
    <2> QED BY <1>1, <1>2, <2>1, <2>2 DEF Paced
  <1> QED BY <1>3, <1>4, <1>5, <1>6

\* The induction step, for every step of Next.
LEMMA NextIInv == IInv /\ [Next]_vars => IInv'
  <1> SUFFICES ASSUME IInv, [Next]_vars PROVE IInv'
    OBVIOUS
  <1> USE RateAssumption
  <1>1. ASSUME NEW c \in Calls, Begin(c) PROVE IInv'
    BY <1>1 DEF IInv, Begin, TypeOK, Attributes, Readings, Spent, Paced, Paid,
                AtMostLimit, InFlight, Finished, Absent
  <1>2. ASSUME NEW c \in Calls, StartOrRollover(c) PROVE IInv'
    BY <1>2, RolloverIInv
  <1>3. ASSUME NEW c \in Calls, FallThrough(c) \/ Fail(c) \/ Killed(c) PROVE IInv'
    BY <1>3 DEF IInv, FallThrough, Fail, Killed, TypeOK, Attributes, Readings,
                Spent, Paced, Paid, AtMostLimit, InFlight, Finished, Absent
  <1>4. ASSUME NEW c \in Calls, AddToWindow(c) PROVE IInv'
    BY <1>4, AddIInv
  <1>5. CASE Sweep
    BY <1>5, SweepIInv
  <1>6. CASE Tick
    <2>1. Readings'
      BY <1>6 DEF IInv, Tick, TypeOK, Readings
    <2>2. TypeOK' /\ Spent'
      BY <1>6 DEF IInv, Tick, TypeOK, Spent, AtMostLimit, Absent
    <2>3. Paced'
      <3>1. Paid' = Paid /\ Paid \in Int
        BY <1>6, Successor DEF IInv, Tick, TypeOK, Paid
      <3> QED BY <1>6, <3>1 DEF IInv, Tick, TypeOK, Attributes, Paced
    <2> QED BY <2>1, <2>2, <2>3 DEF IInv
  <1>7. CASE UNCHANGED vars
    BY <1>7 DEF IInv, vars, TypeOK, Attributes, Readings, Spent, Paced, Paid,
                AtMostLimit, Absent
  <1> QED BY <1>1, <1>2, <1>3, <1>4, <1>5, <1>6, <1>7 DEF Next, Bump

\* The inductive invariant holds throughout.
THEOREM Inductive == Spec => []IInv
  BY InitIInv, NextIInv, PTL DEF Spec

\* The state of the counter and of the calls keeps its shape (BumpWindow).
THEOREM TypeCorrect == Spec => []TypeOK
  <1>1. IInv => TypeOK
    BY DEF IInv
  <1> QED BY <1>1, Inductive, PTL

\* Concurrent, retried and interrupted bumps never let more than Limit
\* exchanges through per installed window (BumpWindow, Exchange).
THEOREM BudgetKept == Spec => []BudgetPerWindow
  BY SpentWithinBudget, Inductive, PTL

LEMMA PacedRate == IInv => RateBound
  <1> SUFFICES ASSUME IInv PROVE RateBound
    OBVIOUS
  <1>1. /\ clock \in Nat /\ windows \in Nat /\ sweeps \in Nat
        /\ item \in Attributes
    BY DEF IInv, TypeOK
  <1>2. Paid <= clock + Duration
    BY <1>1, RateAssumption DEF IInv, Paced, Paid, Attributes
  <1> QED BY <1>1, <1>2, Successor, RateAssumption DEF RateBound, Paid

\* Windows start no faster than one per Duration, up to what deletions by the
\* TTL process add (the condition windowEnd <= :now of BumpWindow).
THEOREM RateKept == Spec => []RateBound
  BY PacedRate, Inductive, PTL

\* As long as the TTL process has deleted nothing, the limiter is the fixed
\* window its comments describe.
THEOREM FixedWindowWithoutSweeps == Spec => [](sweeps = 0 => FixedWindowRate)
  <1>1. IInv => (sweeps = 0 => FixedWindowRate)
    <2> SUFFICES ASSUME IInv, sweeps = 0 PROVE FixedWindowRate
      OBVIOUS
    <2>1. /\ clock \in Nat /\ windows \in Nat /\ item \in Attributes
      BY DEF IInv, TypeOK
    <2>2. Paid = windows * Duration
      BY <2>1, RateAssumption, Successor DEF Paid
    <2> QED BY <2>1, <2>2, RateAssumption
               DEF IInv, Paced, Attributes, FixedWindowRate
  <1> QED BY <1>1, Inductive, PTL

-----------------------------------------------------------------------------
(***************************************************************************)
(* The limiter keeps the promise of FixedWindow.                           *)
(***************************************************************************)
LEMMA AskingMoves ==
  ASSUME TypeOK, NEW c \in Calls,
         NEW s \in {"idle"} \cup InFlight \cup Finished, pc' = [pc EXCEPT ![c] = s]
  PROVE  Asking' = [Asking EXCEPT ![c] = IF s \in InFlight THEN "asking" ELSE s]
  BY DEF TypeOK, Asking

LEMMA AskingStays == ASSUME TypeOK, UNCHANGED pc PROVE Asking' = Asking
  BY DEF TypeOK, Asking

\* What becomes of an applied UpdateItem is an answer of the promise: with a slot
\* for the caller, let through or forfeited; without one, turned away, or no
\* change that a caller sees.
LEMMA OutcomePromised ==
  ASSUME TypeOK, NEW c \in Calls, NEW count \in Nat, pc[c] \in InFlight, Outcome(c, count),
         UNCHANGED <<clock, sweeps>>
  PROVE  /\ Asking[c] = "asking"
         /\ count <= Limit => \/ Promise!Reply(c, "admitted")
                              \/ Promise!Reply(c, "asking") \/ Promise!Reply(c, "error")
         /\ count > Limit => \/ Promise!Reply(c, "limited") \/ Promise!Reply(c, "error")
                             \/ UNCHANGED Asking
  <1>1. Asking \in [Calls -> {"idle", "asking"} \cup Finished] /\ Asking[c] = "asking"
    BY DEF Asking, TypeOK, Finished
  <1>2. CASE Answered(c, count)
    <2>1. CASE count > Limit
      <3>1. Asking' = [Asking EXCEPT ![c] = "limited"]
        BY <1>2, <2>1, AskingMoves DEF Answered, Finished, InFlight
      <3> QED BY <1>1, <2>1, <3>1, RateAssumption DEF Promise!Reply
    <2>2. CASE ~(count > Limit)
      <3>1. Asking' = [Asking EXCEPT ![c] = "admitted"]
        BY <1>2, <2>2, AskingMoves DEF Answered, Finished, InFlight
      <3> QED BY <1>1, <2>2, <3>1, RateAssumption DEF Promise!Reply
    <2> QED BY <2>1, <2>2
  <1>3. CASE AnswerLost(c)
    <2>1. CASE UNCHANGED pc
      <3>1. Asking' = Asking /\ Asking = [Asking EXCEPT ![c] = "asking"]
        BY <1>1, <2>1, AskingStays
      <3> QED BY <1>1, <3>1 DEF Promise!Reply
    <2>2. CASE pc' = [pc EXCEPT ![c] = "error"]
      <3>1. Asking' = [Asking EXCEPT ![c] = "error"]
        BY <2>2, AskingMoves DEF Finished, InFlight
      <3> QED BY <1>1, <3>1 DEF Promise!Reply
    <2> QED BY <1>3, <2>1, <2>2 DEF AnswerLost
  <1> QED BY <1>1, <1>2, <1>3 DEF Outcome

\* A step of Bump that installs a window, or counts in the one that is there.
LEMMA CountPromised ==
  ASSUME TypeOK, NEW c \in Calls, NEW count \in Nat \ {0}, pc[c] \in InFlight,
         Outcome(c, count), UNCHANGED <<clock, sweeps>>,
         \/ Promise!Due /\ windows' = windows + 1 /\ count = 1 /\ Left' = Limit - 1
         \/ /\ windows' = windows
            /\ Left = IF count > Limit THEN 0 ELSE Limit - (count - 1)
            /\ Left' = IF count > Limit THEN 0 ELSE Limit - count
  PROVE  [Promise!Next]_(Promise!vars)
  <1>1. CASE count <= Limit
    <2>1. Promise!OpenWindow \/ Promise!TakeSlot
      BY <1>1, RateAssumption DEF Promise!OpenWindow, Promise!TakeSlot
    <2>2. Promise!Admit(c) \/ Promise!Forfeit(c)
      BY <1>1, <2>1, OutcomePromised DEF Promise!Admit, Promise!Forfeit
    <2> QED BY <2>2 DEF Promise!Next, Promise!CallStep
  <1>2. CASE count > Limit
    <2>1. Left = 0 /\ Left' = 0 /\ windows' = windows
      BY <1>2, RateAssumption
    <2>2. Promise!Refuse(c) \/ Promise!Fail(c) \/ UNCHANGED Promise!vars
      BY <1>2, <2>1, OutcomePromised DEF Promise!Refuse, Promise!Fail, Promise!vars
    <2> QED BY <2>2 DEF Promise!Next, Promise!CallStep
  <1> QED BY <1>1, <1>2, RateAssumption

LEMMA StepPromised == IInv /\ [Next]_vars => [Promise!Next]_(Promise!vars)
  <1> SUFFICES ASSUME IInv, [Next]_vars PROVE [Promise!Next]_(Promise!vars)
    OBVIOUS
  <1> USE RateAssumption
  <1>1. TypeOK /\ IInv' /\ RateBound'
    BY NextIInv, PacedRate, PTL DEF IInv
  <1>2. ASSUME windows' = windows + 1, UNCHANGED <<clock, sweeps>> PROVE Promise!Due
    BY <1>1, <1>2 DEF Promise!Due, RateBound
  <1>3. ASSUME NEW c \in Calls, Begin(c) PROVE Promise!Ask(c)
    <2>1. Asking' = [Asking EXCEPT ![c] = "asking"] /\ Asking[c] # "asking"
      BY <1>1, <1>3, AskingMoves DEF Begin, InFlight, Finished, Asking
    <2> QED BY <1>3, <2>1 DEF Begin, Promise!Ask, Left
  <1>4. ASSUME NEW c \in Calls, StartOrRollover(c) PROVE [Promise!Next]_(Promise!vars)
    <2>1. Left' = Limit - 1
      <3>1. item'.windowCount = 1 /\ item'.windowEnd # Missing
        BY <1>1, <1>4 DEF StartOrRollover, NewWindowEnd, TypeOK
      <3> QED BY <3>1 DEF Left
    <2> QED BY <1>1, <1>2, <1>4, <2>1, CountPromised DEF StartOrRollover, InFlight
  <1>5. ASSUME NEW c \in Calls, AddToWindow(c) PROVE [Promise!Next]_(Promise!vars)
    <2> DEFINE count == item.windowCount + 1
    <2>1. /\ item \in Attributes /\ count \in Nat \ {0} /\ now[c] + Duration # Missing
          /\ item'.windowCount = count
          /\ item'.windowEnd = IfNotExists(item.windowEnd, now[c] + Duration)
      BY <1>1, <1>5 DEF AddToWindow, NewWindowEnd, TypeOK, Attributes
    <2>2. item'.windowEnd # Missing
      BY <2>1 DEF IfNotExists
    <2>3. CASE item.windowEnd = Missing
      <3>1. count = 1 /\ windows' = windows + 1
        BY <1>5, <2>3 DEF AddToWindow, IInv, Spent, Absent
      <3>2. Left' = Limit - 1
        BY <2>1, <2>2, <3>1 DEF Left
      <3> QED BY <1>1, <1>2, <1>5, <2>1, <3>1, <3>2, CountPromised DEF AddToWindow, InFlight
    <2>4. CASE item.windowEnd # Missing
      <3>1. windows' = windows
        BY <1>5, <2>4 DEF AddToWindow
      <3>2. /\ Left = IF count > Limit THEN 0 ELSE Limit - (count - 1)
            /\ Left' = IF count > Limit THEN 0 ELSE Limit - count
        BY <2>1, <2>2, <2>4 DEF Left, Attributes
      <3> QED BY <1>1, <1>5, <2>1, <3>1, <3>2, CountPromised DEF AddToWindow, InFlight
    <2> QED BY <2>3, <2>4
  <1>6. ASSUME NEW c \in Calls, FallThrough(c) PROVE UNCHANGED Promise!vars
    <2>1. Asking' = Asking
      BY <1>1, <1>6, AskingMoves DEF FallThrough, InFlight, Asking, TypeOK
    <2> QED BY <1>6, <2>1 DEF FallThrough, Promise!vars, Left
  <1>7. ASSUME NEW c \in Calls, Fail(c) \/ Killed(c) PROVE Promise!Fail(c)
    <2>1. Asking' = [Asking EXCEPT ![c] = "error"] /\ Asking[c] = "asking"
      BY <1>1, <1>7, AskingMoves DEF Fail, Killed, InFlight, Finished, Asking
    <2> QED BY <1>7, <2>1 DEF Fail, Killed, Promise!Fail, Promise!Reply, Left
  <1>8. CASE Sweep
    BY <1>1, <1>8, AskingStays DEF Sweep, Promise!Next, Promise!Sweep, Left, Absent
  <1>9. CASE Tick
    BY <1>1, <1>9, AskingStays DEF Tick, Promise!Next, Promise!Tick, Left
  <1>10. CASE UNCHANGED vars
    BY <1>1, <1>10, AskingStays DEF vars, Promise!vars, Left
  <1> QED BY <1>3, <1>4, <1>5, <1>6, <1>7, <1>8, <1>9, <1>10
          DEF Next, Bump, Promise!Next, Promise!CallStep

\* BumpWindow implements the fixed window: whatever its two UpdateItems meet, an
\* exchange is let through only by a slot of a window that was due, and is turned
\* away only when no slot is left.
THEOREM PromiseKept == Spec => KeepsPromise
  <1>1. Init => Promise!Init
    BY DEF Init, Promise!Init, Asking, Left, Absent, InFlight
  <1>2. IInv /\ [Next]_vars => [Promise!Next]_(Promise!vars)
    BY StepPromised
  <1> QED BY <1>1, <1>2, Inductive, PTL DEF Spec, KeepsPromise, Promise!Spec
=============================================================================
