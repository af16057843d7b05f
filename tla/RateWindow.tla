------------------------------ MODULE RateWindow ------------------------------
(***************************************************************************)
(* The fixed-window counter of one clientId: the RATE#<clientId> item of   *)
(* dynamo/m2m.go, bumped by concurrent token exchanges that run in         *)
(* separate Lambda instances, while the wall clock advances and DynamoDB's *)
(* TTL process deletes the item when its ttl attribute has passed.         *)
(*                                                                         *)
(* BumpWindow is not one step.  It reads the clock, sends a conditional    *)
(* UpdateItem that starts or rolls over the window, and, when the          *)
(* condition fails, sends an unconditional ADD.  The clock may advance and *)
(* other calls and the TTL process may act between any two of these.       *)
(***************************************************************************)
EXTENDS Integers

CONSTANTS Calls,          \* the callers that exchange with this clientId
          Limit,          \* windowLimit
          Duration,       \* windowDuration
          RequestTimeout, \* a Lambda invocation is killed after this long
          MaxAttempts,    \* attempts the SDK makes for one UpdateItem
          MaxSweeps,      \* bound: deletions by the TTL process
          MaxTime         \* bound: the clock stops here

ASSUME RateAssumption ==
  /\ Limit \in Nat \ {0}
  /\ Duration \in Nat \ {0}
  /\ RequestTimeout \in Nat
  /\ MaxAttempts \in Nat \ {0}
  /\ MaxSweeps \in Nat
  /\ MaxTime \in Nat

VARIABLES item,     \* the RATE# item
          clock,    \* Unix seconds
          pc,       \* where each caller's exchange is
          now,      \* the clock reading of each caller's BumpWindow
          attempts, \* attempts already made for the current UpdateItem
          windows,  \* history: windows installed so far
          granted,  \* history: exchanges let through the limiter so far
          sweeps    \* history: deletions by the TTL process so far

vars == <<item, clock, pc, now, attempts, windows, granted, sweeps>>

(***************************************************************************)
(* An attribute that is not there is Missing; no epoch the code stores is  *)
(* 0, because every one is a clock reading plus Duration.  An item that is *)
(* not there has no attribute, which is what UpdateItem starts from when   *)
(* it creates one.                                                         *)
(***************************************************************************)
Missing == 0
Absent == [windowCount |-> 0, windowEnd |-> Missing, ttl |-> Missing]

InFlight == {"rollover", "add"}
Finished == {"admitted", "limited", "error"}

\* Mutant: a plain SET where the code has if_not_exists.
PlainSet(attribute, value) == value

IfNotExists(attribute, value) == IF attribute = Missing THEN value ELSE attribute

Init ==
  /\ item = Absent
  /\ clock = 0
  /\ pc = [c \in Calls |-> "idle"]
  /\ now = [c \in Calls |-> 0]
  /\ attempts = [c \in Calls |-> 0]
  /\ windows = 0
  /\ granted = 0
  /\ sweeps = 0

\* Mutant: the comparison with the limit is off by one.
AnsweredOffByOne(c, count) ==
  /\ pc' = [pc EXCEPT ![c] = IF count > Limit + 1 THEN "limited" ELSE "admitted"]
  /\ granted' = IF count > Limit + 1 THEN granted ELSE granted + 1
  /\ UNCHANGED attempts

(***************************************************************************)
(* What a caller makes of an UpdateItem that DynamoDB applied: the answer  *)
(* arrives and Exchange compares the count with the limit; or the answer   *)
(* is lost, and the SDK sends the same UpdateItem again until its attempts *)
(* are used up and the exchange fails.                                     *)
(***************************************************************************)
Answered(c, count) ==
  /\ pc' = [pc EXCEPT ![c] = IF count > Limit THEN "limited" ELSE "admitted"]
  /\ granted' = IF count > Limit THEN granted ELSE granted + 1
  /\ UNCHANGED attempts

AnswerLost(c) ==
  /\ attempts' = [attempts EXCEPT ![c] = @ + 1]
  /\ pc' = IF attempts[c] + 1 < MaxAttempts
             THEN pc ELSE [pc EXCEPT ![c] = "error"]
  /\ UNCHANGED granted

Outcome(c, count) == Answered(c, count) \/ AnswerLost(c)

\* The invocation of a caller has not been killed yet.
InTime(c) == clock <= now[c] + RequestTimeout

(***************************************************************************)
(* Bound: a caller starts one exchange per clock unit.                     *)
(***************************************************************************)
Begin(c) ==
  /\ pc[c] = "idle" \/ (pc[c] \in Finished /\ now[c] < clock)
  /\ pc' = [pc EXCEPT ![c] = "rollover"]
  /\ now' = [now EXCEPT ![c] = clock]
  /\ attempts' = [attempts EXCEPT ![c] = 0]
  /\ UNCHANGED <<item, clock, windows, granted, sweeps>>

\* Mutant: the window length is subtracted.
WindowEndBackwards(c) == now[c] - Duration

NewWindowEnd(c) == now[c] + Duration

\* Mutant: the stored end is compared with :windowEnd in place of :now.
WindowOverAgainstNewEnd(c) ==
  item.windowEnd = Missing \/ item.windowEnd <= NewWindowEnd(c)

\* attribute_not_exists(PK) OR attribute_not_exists(windowEnd)
\*   OR windowEnd <= :now
WindowOver(c) == item.windowEnd = Missing \/ item.windowEnd <= now[c]

StartOrRollover(c) ==
  /\ pc[c] = "rollover"
  /\ InTime(c)
  /\ WindowOver(c)
  /\ item' = [windowCount |-> 1,
              windowEnd |-> NewWindowEnd(c),
              ttl |-> IfNotExists(item.ttl, NewWindowEnd(c))]
  /\ windows' = windows + 1
  /\ Outcome(c, 1)
  /\ UNCHANGED <<clock, now, sweeps>>

\* ConditionalCheckFailedException: a window is active.
FallThrough(c) ==
  /\ pc[c] = "rollover"
  /\ InTime(c)
  /\ ~WindowOver(c)
  /\ pc' = [pc EXCEPT ![c] = "add"]
  /\ attempts' = [attempts EXCEPT ![c] = 0]
  /\ UNCHANGED <<item, clock, now, windows, granted, sweeps>>

\* The item may have been deleted or rolled over since the condition failed.
AddToWindow(c) ==
  /\ pc[c] = "add"
  /\ InTime(c)
  /\ item' = [item EXCEPT !.windowCount = @ + 1,
                          !.windowEnd = IfNotExists(@, NewWindowEnd(c))]
  /\ windows' = IF item.windowEnd = Missing THEN windows + 1 ELSE windows
  /\ Outcome(c, item.windowCount + 1)
  /\ UNCHANGED <<clock, now, sweeps>>

\* An UpdateItem failed for good without being applied.
Fail(c) ==
  /\ pc[c] \in InFlight
  /\ InTime(c)
  /\ pc' = [pc EXCEPT ![c] = "error"]
  /\ UNCHANGED <<item, clock, now, attempts, windows, granted, sweeps>>

\* Lambda kills the invocation (template.yml, Timeout).
Killed(c) ==
  /\ pc[c] \in InFlight
  /\ ~InTime(c)
  /\ pc' = [pc EXCEPT ![c] = "error"]
  /\ UNCHANGED <<item, clock, now, attempts, windows, granted, sweeps>>

\* DynamoDB deletes an item some time after its ttl has passed.
Sweep ==
  /\ item.ttl # Missing
  /\ item.ttl < clock
  /\ sweeps < MaxSweeps
  /\ item' = Absent
  /\ sweeps' = sweeps + 1
  /\ UNCHANGED <<clock, pc, now, attempts, windows, granted>>

Tick ==
  /\ clock < MaxTime
  /\ clock' = clock + 1
  /\ UNCHANGED <<item, pc, now, attempts, windows, granted, sweeps>>

Bump(c) == StartOrRollover(c) \/ FallThrough(c) \/ AddToWindow(c)

Next ==
  \/ \E c \in Calls : Begin(c) \/ Bump(c) \/ Fail(c) \/ Killed(c)
  \/ Sweep
  \/ Tick

Spec == Init /\ [][Next]_vars

(***************************************************************************)
(* Fairness: time passes, the SDK works through the UpdateItems of a call  *)
(* or Lambda kills it, and a caller that was turned away (429) tries again *)
(* later.  Nothing promises that the TTL process ever runs, or that a call *)
(* succeeds.                                                               *)
(***************************************************************************)
Fairness ==
  /\ WF_vars(Tick)
  /\ \A c \in Calls : WF_vars(Bump(c) \/ Killed(c)) /\ WF_vars(Begin(c))

FairSpec == Spec /\ Fairness

-----------------------------------------------------------------------------
Attributes == [windowCount : Nat, windowEnd : Nat, ttl : Nat]

\* The state has the shape the code gives it (BumpWindow, Exchange).
TypeOK ==
  /\ item \in Attributes
  /\ clock \in Nat
  /\ pc \in [Calls -> {"idle"} \cup InFlight \cup Finished]
  /\ now \in [Calls -> Nat]
  /\ attempts \in [Calls -> Nat]
  /\ windows \in Nat
  /\ granted \in Nat
  /\ sweeps \in Nat

\* However the two UpdateItems of concurrent calls interleave, are retried or
\* are cut by the TTL process, one installed window lets at most Limit
\* exchanges through (BumpWindow with the comparison in Exchange).
BudgetPerWindow == granted <= Limit * windows

\* Windows are installed no faster than one per Duration, except that each
\* deletion by the TTL process may add one and lose the part of a window that
\* a stale clock reading reaches back.  With no deletion this is the fixed
\* window the limiter promises, in spite of clock readings taken before the
\* conditional UpdateItem reached the table.
RateBound ==
  windows * Duration
    <= clock + Duration + sweeps * (Duration + RequestTimeout)

\* One window per Duration, without RateBound's allowance for deletions.  The
\* comments of M2MStore and BumpWindow say that deletion by TTL has no part in
\* correctness, so this must hold however often the item is deleted.
FixedWindowRate == windows * Duration <= clock + Duration

\* When an exchange has been turned away, some exchange of the client is let
\* through later, unless a call fails in between.  The clock must have room
\* for one Duration before it reaches its bound.
Served(g) ==
  granted > g \/ \E c \in Calls : pc[c] = "error" \/ attempts[c] > 0

EventuallyServed ==
  \A g \in 0 .. Limit * (MaxTime + 1) :
    /\ granted = g
    /\ clock + Duration <= MaxTime
    /\ \E c \in Calls : pc[c] = "limited"
    ~> Served(g)

-----------------------------------------------------------------------------
(***************************************************************************)
(* The slots an item leaves, and a caller as the limiter's promise sees    *)
(* it.                                                                     *)
(***************************************************************************)
Left ==
  IF item.windowEnd = Missing \/ item.windowCount >= Limit
    THEN 0 ELSE Limit - item.windowCount

Asking == [c \in Calls |-> IF pc[c] \in InFlight THEN "asking" ELSE pc[c]]

Promise == INSTANCE FixedWindow WITH call <- Asking, left <- Left

\* The two UpdateItems of BumpWindow, retried, interleaved and cut by the TTL
\* process, keep the promise of a fixed window: an exchange is let through only
\* by a slot of a window that was due, and is turned away only when the window
\* has no slot left.
KeepsPromise == Promise!Spec
=============================================================================
