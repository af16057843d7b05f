---------------------------- MODULE SessionsProofs ----------------------------
(***************************************************************************)
(* Proofs about Sessions, for any number of concurrent requests, tokens    *)
(* and failures, and whatever reads of the table may show.                 *)
(***************************************************************************)
EXTENDS Sessions, TLAPS

(***************************************************************************)
(* Held: a token that is on its way to the browser is in the table or has  *)
(* expired, and nobody else knows it: it is not in the jar, no request was *)
(* sent with it, and no other answer carries it.  So nobody can ask for    *)
(* its deletion.                                                           *)
(***************************************************************************)
OnItsWay(r) == request[r].answer = "200 set"

Held ==
  \A r \in Requests : OnItsWay(r) =>
    /\ request[r].new \in store \cup expired
    /\ request[r].new # jar.refresh
    /\ \A q \in Requests :
         /\ request[q].presented # request[r].new
         /\ q # r /\ OnItsWay(q) => request[q].new # request[r].new

(***************************************************************************)
(* Rotating: the token presented with a refresh is gone from the moment    *)
(* the handler has passed its Delete, unless a call has failed.            *)
(***************************************************************************)
PastDelete(r) ==
  request[r].kind = "refresh" /\ (request[r].pc = "save" \/ OnItsWay(r))

Rotating ==
  failures = 0 => \A r \in Requests : PastDelete(r) => Presented(r) \notin store

(***************************************************************************)
(* Replaced: unless a call has failed, a jar whose token has left the      *)
(* table is about to get another one.                                      *)
(***************************************************************************)
Replaced ==
  failures = 0 =>
    \/ jar.refresh \in store \cup expired \cup {NoToken}
    \/ \E r \in Requests : PastDelete(r)

\* The handler's positions belong to the kinds of requests; the security check
\* puts one scheme into the context at most; an answer is there at the end only.
Shape ==
  /\ jar.refresh <= issued
  /\ \A r \in Requests :
       /\ request[r].pc \in {"get", "delete"} => request[r].kind = "refresh"
       /\ /\ request[r].kind = "refresh"
          /\ request[r].pc \in {"get", "delete", "save"}
          => request[r].presented # NoToken
       /\ request[r].context # Schemes
       /\ request[r].answer # "none" => request[r].pc = "answered"
       /\ request[r].pc = "idle" => ~OnItsWay(r)

IInv == TypeOK /\ Shape /\ Held /\ Rotating /\ Replaced

Requested ==
  [kind : Kinds, pc : {"idle", "answered"} \cup Working, presented : Nat,
   context : SUBSET Schemes, new : Nat, answer : Answers, late : BOOLEAN,
   stale : BOOLEAN]

-----------------------------------------------------------------------------
\* The numbers of tokens: the next one is new.
LEMMA Fresh ==
  ASSUME NEW n \in Nat
  PROVE  /\ n + 1 \in Nat /\ n + 1 # 0 /\ n + 1 \in 1 .. n + 1
         /\ \A x \in Nat : x <= n => x # n + 1 /\ x <= n + 1
         /\ \A x \in Nat : x <= n /\ x # 0 => x \in 1 .. n
         /\ \A x \in 1 .. n : /\ x \in Nat /\ x # 0 /\ x <= n
                             /\ x # n + 1 /\ x \in 1 .. n + 1
  OBVIOUS

\* What TypeOK says of the numbers.
LEMMA NumberType ==
  ASSUME TypeOK
  PROVE  /\ issued \in Nat /\ failures \in Nat /\ jar.refresh \in Nat
         /\ store \subseteq 1 .. issued /\ replica \subseteq 1 .. issued
         /\ expired \subseteq 1 .. issued /\ rotated \subseteq 1 .. issued
  BY DEF TypeOK, Cookies

(***************************************************************************)
(* The security check stops at the first alternative that validates, so    *)
(* the context never holds what both would put there.                      *)
(***************************************************************************)
LEMMA FirstOnly ==
  ASSUME NEW cookies
  PROVE  /\ Validated(RefreshSecurity, cookies) \in SUBSET Schemes
         /\ Validated(RefreshSecurity, cookies) # Schemes
         /\ Validated(RefreshSecurity, cookies) # {} => cookies.refresh # NoToken
         /\ Validated(LogoutSecurity, cookies) \in SUBSET Schemes
         /\ Validated(LogoutSecurity, cookies) # Schemes
  <1>1. /\ DOMAIN RefreshSecurity = {1}
        /\ RefreshSecurity[1] = "icaaRefreshCookieAuth"
    BY DEF RefreshSecurity
  <1>2. /\ DOMAIN LogoutSecurity = {1, 2}
        /\ LogoutSecurity[1] = "icaaCookieAuth"
        /\ LogoutSecurity[2] = "icaaRefreshCookieAuth"
    BY DEF LogoutSecurity
  <1>3. /\ Validated(RefreshSecurity, cookies) \subseteq {"icaaRefreshCookieAuth"}
        /\ Validated(RefreshSecurity, cookies) # {} => cookies.refresh # NoToken
    BY <1>1 DEF Validated, SchemeValid
  <1>4. /\ Validated(LogoutSecurity, cookies) \subseteq Schemes
        /\ "icaaCookieAuth" \in Validated(LogoutSecurity, cookies)
             => "icaaRefreshCookieAuth" \notin Validated(LogoutSecurity, cookies)
    <2> DEFINE valid == {i \in {1, 2} : SchemeValid(LogoutSecurity[i], cookies)}
               first == {j \in valid : \A k \in valid : j <= k}
    <2>1. Validated(LogoutSecurity, cookies) = {LogoutSecurity[i] : i \in first}
      BY <1>2 DEF Validated
    <2>2. ~(1 \in first /\ 2 \in first)
      OBVIOUS
    <2>3. first \subseteq {1, 2}
      OBVIOUS
    <2> QED BY <1>2, <2>1, <2>2, <2>3 DEF Schemes
  <1> QED BY <1>3, <1>4 DEF Schemes

\* What TypeOK says of one request, where a step looks at one.
LEMMA RequestType ==
  ASSUME TypeOK, NEW r \in Requests
  PROVE  /\ request[r] \in Requested
         /\ request[r].presented <= issued
         /\ request[r].answer = "200 set" => request[r].new \in 1 .. issued
  BY DEF TypeOK, Requested

(***************************************************************************)
(* A step of one handler: every other request is as it was, so each part   *)
(* of the invariant is to be looked at for the request that moves.         *)
(***************************************************************************)
LEMMA OneRequest ==
  ASSUME TypeOK, NEW r \in Requests, NEW moved \in Requested,
         request' = [request EXCEPT ![r] = moved]
  PROVE  /\ request' \in [Requests -> Requested]
         /\ request'[r] = moved
         /\ \A q \in Requests \ {r} : request'[q] = request[q]
  BY DEF TypeOK, Requested

LEMMA HeldKept ==
  ASSUME IInv, NEW r \in Requests, NEW moved \in Requested,
         request' = [request EXCEPT ![r] = moved],
         moved.answer # "200 set",
         moved.presented \in {request[r].presented, jar.refresh, NoToken},
         jar' = jar,
         \A q \in Requests : OnItsWay(q) => request[q].new \in store' \cup expired'
  PROVE  Held'
  <1>1. /\ request'[r] = moved
        /\ \A q \in Requests \ {r} : request'[q] = request[q]
    BY OneRequest DEF IInv
  <1> SUFFICES ASSUME NEW p \in Requests, OnItsWay(p)'
               PROVE  /\ request'[p].new \in store' \cup expired'
                      /\ request'[p].new # jar'.refresh
                      /\ \A q \in Requests :
                           /\ request'[q].presented # request'[p].new
                           /\ q # p /\ OnItsWay(q)'
                                => request'[q].new # request'[p].new
    BY DEF Held, OnItsWay
  <1>2. /\ p # r /\ OnItsWay(p) /\ request'[p] = request[p]
        /\ request[p].new # NoToken
    <2>1. p # r /\ OnItsWay(p) /\ request'[p] = request[p]
      BY <1>1 DEF OnItsWay
    <2>2. request[p].new \in 1 .. issued
      BY <2>1, RequestType DEF OnItsWay, IInv
    <2> QED BY <2>1, <2>2, Fresh, NumberType DEF IInv, NoToken
  <1>3. ASSUME NEW q \in Requests
        PROVE  /\ request'[q].presented # request[p].new
               /\ q # p /\ OnItsWay(q)' => request'[q].new # request[p].new
    <2>1. CASE q = r
      BY <1>1, <1>2, <2>1 DEF IInv, Held, OnItsWay
    <2>2. CASE q # r
      BY <1>1, <1>2, <2>2 DEF IInv, Held, OnItsWay
    <2> QED BY <2>1, <2>2
  <1> QED BY <1>2, <1>3 DEF IInv, Held

LEMMA InitIInv == Init => IInv
  <1> SUFFICES ASSUME Init PROVE IInv
    OBVIOUS
  <1> USE DEF Init, NoToken, NoCookies
  <1>1. Idle \in Requested
    BY DEF Idle, Requested, Kinds, Working, Answers, Schemes
  <1>2. \A r \in Requests : request[r] = Idle
    OBVIOUS
  <1>3. request \in [Requests -> Requested]
    BY <1>1
  <1>4. jar \in Cookies /\ jar.refresh = 0
    BY DEF Cookies
  <1>5. TypeOK
    <2>1. \A r \in Requests :
            request[r].presented <= issued /\ request[r].answer # "200 set"
      <3>1. 0 <= 0
        OBVIOUS
      <3> QED BY <1>2, <3>1 DEF Idle
    <2>2. /\ store \subseteq 1 .. issued /\ replica \subseteq 1 .. issued
          /\ expired \subseteq 1 .. issued /\ rotated \subseteq 1 .. issued
          /\ issued \in Nat /\ failures \in Nat
      OBVIOUS
    <2> QED BY <1>3, <1>4, <2>1, <2>2 DEF TypeOK, Requested
  <1>6. Shape
    <2>1. /\ Idle.pc = "idle" /\ Idle.context = {} /\ Idle.answer = "none"
          /\ Schemes # {} /\ jar.refresh <= issued
      BY <1>4 DEF Idle, Schemes
    <2> QED BY <1>2, <2>1 DEF Shape, OnItsWay
  <1>7. Held
    BY <1>2 DEF Held, Idle, OnItsWay
  <1>8. Rotating
    BY <1>2 DEF Rotating, PastDelete, Idle, OnItsWay
  <1>9. Replaced
    BY <1>4 DEF Replaced
  <1> QED BY <1>5, <1>6, <1>7, <1>8, <1>9 DEF IInv

\* The request as it is sent.
Sent(kind, pc, context, presented, late) ==
  [kind |-> kind, pc |-> pc, presented |-> presented, context |-> context,
   new |-> NoToken, answer |-> IF pc = "answered" THEN "401" ELSE "none",
   late |-> late, stale |-> FALSE]

LEMMA SentType ==
  ASSUME NEW kind \in Kinds, NEW pc \in {"answered", "get", "save", "logout"},
         NEW context \in SUBSET Schemes, NEW presented \in Nat, NEW late \in BOOLEAN
  PROVE  Sent(kind, pc, context, presented, late) \in Requested
  BY DEF Sent, Requested, Working, Answers, NoToken

\* A request is sent: what it carries is in the jar, so it is not on its way.
LEMMA SendIInv ==
  ASSUME IInv, NEW r \in Requests, Login(r) \/ Refresh(r) \/ Logout(r)
  PROVE  IInv'
  <1>1. PICK kind \in Kinds, pc \in {"answered", "get", "save", "logout"},
             context \in SUBSET Schemes :
          /\ Send(r, kind, pc, context)
          /\ context # Schemes
          /\ pc = "save" => kind # "refresh"
          /\ pc = "get" => kind = "refresh"
          /\ pc = "get" => jar.refresh # NoToken
    BY FirstOnly DEF Login, Refresh, Logout, Kinds, Schemes
  <1> DEFINE late == jar.refresh \in rotated
             moved == Sent(kind, pc, context, jar.refresh, late)
  <1>2. /\ request[r].pc = "idle"
        /\ request' = [request EXCEPT ![r] = moved]
        /\ UNCHANGED <<store, replica, expired, jar, issued, failures, rotated>>
    BY <1>1 DEF Send, Sent
  <1>3. moved \in Requested
    <2>1. jar.refresh \in Nat
      BY DEF IInv, TypeOK, Cookies
    <2>2. late \in BOOLEAN
      OBVIOUS
    <2> QED BY <2>1, <2>2, SentType
  <1>4. /\ moved.presented = jar.refresh /\ moved.kind = kind /\ moved.pc = pc
        /\ moved.context = context /\ moved.answer # "200 set"
        /\ moved.answer # "none" => moved.pc = "answered"
    BY DEF Sent
  <1> HIDE DEF moved
  <1>5. /\ request' \in [Requests -> Requested]
        /\ request'[r] = moved
        /\ \A q \in Requests \ {r} : request'[q] = request[q]
    BY <1>2, <1>3, OneRequest DEF IInv
  <1>6. TypeOK'
    BY <1>2, <1>4, <1>5 DEF IInv, TypeOK, Shape, Requested
  <1>7. Shape'
    BY <1>1, <1>2, <1>4, <1>5 DEF IInv, Shape, OnItsWay
  <1>8. Held'
    BY <1>2, <1>3, <1>4, HeldKept DEF IInv, Held
  <1>9. Rotating'
    BY <1>1, <1>2, <1>4, <1>5 DEF IInv, Rotating, PastDelete, OnItsWay, Presented
  <1>10. Replaced'
    <2>1. ~PastDelete(r)
      BY <1>2 DEF IInv, Shape, PastDelete, OnItsWay
    <2> QED BY <1>2, <1>5, <2>1 DEF IInv, Replaced, PastDelete, OnItsWay
  <1> QED BY <1>6, <1>7, <1>8, <1>9, <1>10 DEF IInv

\* The store's Get only moves the handler on or ends it with a 401.
LEMMA GetIInv ==
  ASSUME IInv, NEW r \in Requests, GetToken(r)
  PROVE  IInv'
  <1>1. /\ request[r].pc = "get"
        /\ GoOn(r) \/ Answer(r, "401")
        /\ UNCHANGED <<store, replica, expired, jar, issued, rotated>>
    BY DEF GetToken
  <1>2. failures' \in Nat /\ (failures' = 0 => failures = 0)
    <2>1. failures' = failures \/ failures' = failures + 1
      BY DEF GetToken, Failure
    <2>2. failures \in Nat
      BY NumberType DEF IInv
    <2> QED BY <2>1, <2>2, Fresh
  <1>3. PICK moved \in Requested :
          /\ request' = [request EXCEPT ![r] = moved]
          /\ moved.presented = request[r].presented
          /\ moved.kind = request[r].kind
          /\ moved.context = request[r].context
          /\ moved.answer # "200 set"
          /\ \/ moved.pc = "delete" /\ moved.answer = request[r].answer
             \/ moved.pc = "answered"
    <2>1. request[r] \in Requested /\ request[r].answer = "none"
      BY <1>1, RequestType DEF IInv, Shape
    <2>2. CASE GoOn(r)
      <3> DEFINE gone == Presented(r) \notin store
                 moved == [request[r] EXCEPT !.pc = "delete", !.stale = gone]
      <3>1. moved \in Requested
        BY <2>1 DEF Requested, Working
      <3>2. request' = [request EXCEPT ![r] = moved]
        BY <2>2 DEF GoOn
      <3> QED BY <3>1, <3>2, <2>1 DEF Requested
    <2>3. CASE Answer(r, "401")
      <3> DEFINE moved == [request[r] EXCEPT !.pc = "answered", !.answer = "401"]
      <3>1. moved \in Requested
        BY <2>1 DEF Requested, Answers
      <3>2. request' = [request EXCEPT ![r] = moved]
        BY <2>3 DEF Answer
      <3> QED BY <3>1, <3>2, <2>1 DEF Requested
    <2> QED BY <1>1, <2>2, <2>3
  <1>4. /\ request' \in [Requests -> Requested]
        /\ request'[r] = moved
        /\ \A q \in Requests \ {r} : request'[q] = request[q]
    BY <1>3, OneRequest DEF IInv
  <1>5. ~PastDelete(r)
    BY <1>1 DEF IInv, Shape, PastDelete, OnItsWay
  <1>6. TypeOK'
    BY <1>1, <1>2, <1>3, <1>4 DEF IInv, TypeOK, Requested
  <1>7. Shape'
    BY <1>1, <1>3, <1>4 DEF IInv, Shape, OnItsWay
  <1>8. Held'
    BY <1>1, <1>3, HeldKept DEF IInv, Held
  <1>9. Rotating'
    BY <1>1, <1>2, <1>3, <1>4 DEF IInv, Rotating, PastDelete, OnItsWay, Presented
  <1>10. Replaced'
    BY <1>1, <1>2, <1>4, <1>5 DEF IInv, Replaced, PastDelete, OnItsWay
  <1> QED BY <1>6, <1>7, <1>8, <1>9, <1>10 DEF IInv

\* The store's Delete: the presented token is nobody's answer.
LEMMA DeleteIInv ==
  ASSUME IInv, NEW r \in Requests, DeleteToken(r)
  PROVE  IInv'
  <1>1. /\ request[r].pc = "delete"
        /\ Goto(r, "save")
        /\ UNCHANGED <<replica, expired, jar, issued, rotated>>
    BY DEF DeleteToken
  <1>2. \/ store' = store \ {Presented(r)} /\ failures' = failures
        \/ store' = store /\ failures' = failures + 1
    BY DEF DeleteToken, Deleted, Failure
  <1> DEFINE moved == [request[r] EXCEPT !.pc = "save"]
  <1>3. /\ request[r] \in Requested /\ request[r].answer = "none"
        /\ request[r].kind = "refresh"
    BY <1>1, RequestType DEF IInv, Shape
  <1>4. /\ moved \in Requested
        /\ request' = [request EXCEPT ![r] = moved]
        /\ moved.presented = request[r].presented /\ moved.kind = "refresh"
        /\ moved.context = request[r].context /\ moved.answer = "none"
        /\ moved.pc = "save"
    <2>1. moved \in Requested
      BY <1>3 DEF Requested, Working
    <2> QED BY <1>1, <1>3, <2>1 DEF Goto, Requested
  <1> HIDE DEF moved
  <1>5. /\ request' \in [Requests -> Requested]
        /\ request'[r] = moved
        /\ \A q \in Requests \ {r} : request'[q] = request[q]
    BY <1>4, OneRequest DEF IInv
  <1>6. failures \in Nat /\ failures' \in Nat /\ (failures' = 0 => failures = 0)
    <2>1. failures \in Nat
      BY NumberType DEF IInv
    <2> QED BY <1>2, <2>1, Fresh
  <1>7. TypeOK'
    <2>1. store' \subseteq store
      BY <1>2
    <2> QED BY <1>1, <1>4, <1>5, <1>6, <2>1 DEF IInv, TypeOK, Requested
  <1>8. Shape'
    BY <1>1, <1>4, <1>5 DEF IInv, Shape, OnItsWay
  <1>9. Held'
    <2>1. \A q \in Requests : OnItsWay(q) => request[q].new \in store' \cup expired'
      BY <1>1, <1>2 DEF IInv, Held, Presented
    <2> QED BY <1>1, <1>4, <2>1, HeldKept
  <1>10. Rotating'
    <2> SUFFICES ASSUME failures' = 0, NEW q \in Requests, PastDelete(q)'
                 PROVE  request'[q].presented \notin store'
      BY DEF Rotating, Presented
    <2>1. failures = 0 /\ store' = store \ {Presented(r)}
      BY <1>2, <1>6
    <2>2. CASE q = r
      BY <1>4, <1>5, <2>1, <2>2 DEF Presented
    <2>3. CASE q # r
      BY <1>5, <2>1, <2>3 DEF IInv, Rotating, PastDelete, OnItsWay, Presented
    <2> QED BY <2>2, <2>3
  <1>11. Replaced'
    <2>1. PastDelete(r)'
      BY <1>4, <1>5 DEF PastDelete
    <2> QED BY <2>1 DEF Replaced
  <1> QED BY <1>7, <1>8, <1>9, <1>10, <1>11 DEF IInv

\* The tokens are saved under a fresh id, or the request ends with a 401.
LEMMA SaveIInv ==
  ASSUME IInv, NEW r \in Requests, SaveToken(r)
  PROVE  IInv'
  <1>1. /\ request[r].pc = "save" /\ issued' = issued + 1 /\ issued \in Nat
        /\ UNCHANGED <<replica, expired, jar>>
        /\ request[r] \in Requested /\ request[r].answer = "none"
        /\ failures \in Nat /\ jar.refresh \in Nat /\ jar.refresh <= issued
        /\ store \subseteq 1 .. issued /\ request[r].presented <= issued
    BY RequestType, NumberType DEF SaveToken, IInv, Shape
  <1>2. CASE /\ Granted(r) /\ store' = store \cup {issued + 1}
             /\ rotated' = IF request[r].kind = "refresh"
                             THEN rotated \cup {Presented(r)} ELSE rotated
             /\ UNCHANGED failures
    <2> DEFINE moved == [request[r] EXCEPT !.pc = "answered", !.answer = "200 set",
                                           !.new = issued + 1]
    <2>1. /\ moved \in Requested
          /\ request' = [request EXCEPT ![r] = moved]
          /\ moved.presented = request[r].presented /\ moved.kind = request[r].kind
          /\ moved.context = request[r].context /\ moved.answer = "200 set"
          /\ moved.pc = "answered" /\ moved.new = issued + 1
      <3>1. moved \in Requested
        <4>1. issued + 1 \in Nat
          BY <1>1, Fresh
        <4> QED BY <1>1, <4>1 DEF Requested, Answers
      <3> QED BY <1>1, <1>2, <3>1 DEF Granted, Requested
    <2> HIDE DEF moved
    <2>2. /\ request' \in [Requests -> Requested]
          /\ request'[r] = moved
          /\ \A q \in Requests \ {r} : request'[q] = request[q]
      BY <2>1, OneRequest DEF IInv
    <2>3. TypeOK'
      <3>1. rotated' \subseteq 1 .. issued'
        <4>1. request[r].kind = "refresh" => request[r].presented # NoToken
          BY <1>1 DEF IInv, Shape
        <4>2. request[r].presented \in Nat
          BY <1>1 DEF Requested
        <4>3. request[r].kind = "refresh" => request[r].presented \in 1 .. issued
          BY <1>1, <4>1, <4>2, Fresh DEF NoToken
        <4>4. rotated \subseteq 1 .. issued
          BY NumberType DEF IInv
        <4> QED BY <1>1, <1>2, <4>3, <4>4, Fresh DEF Presented
      <3>2. /\ issued' \in Nat /\ failures' \in Nat /\ jar' \in Cookies
            /\ store' \subseteq 1 .. issued' /\ replica' \subseteq 1 .. issued'
            /\ expired' \subseteq 1 .. issued'
        BY <1>1, <1>2, Fresh, NumberType DEF IInv, TypeOK
      <3>3. \A q \in Requests :
              /\ request'[q].presented <= issued'
              /\ request'[q].answer = "200 set" => request'[q].new \in 1 .. issued'
        <4> TAKE q \in Requests
        <4>1. CASE q = r
          <5>1. /\ request[r].presented \in Nat /\ request[r].presented <= issued
                /\ request'[q].presented = request[r].presented
                /\ request'[q].new = issued + 1 /\ issued' = issued + 1
            BY <1>1, <2>1, <2>2, <4>1 DEF Requested
          <5>2. request[r].presented <= issued + 1 /\ issued + 1 \in 1 .. issued + 1
            BY <1>1, <5>1, Fresh
          <5> QED BY <5>1, <5>2
        <4>2. CASE q # r
          <5>1. request'[q] = request[q] /\ request[q].presented \in Nat
            BY <2>2, <4>2, RequestType DEF IInv, Requested
          <5> QED BY <1>1, <5>1, Fresh, RequestType DEF IInv
        <4> QED BY <4>1, <4>2
      <3> QED BY <2>2, <3>1, <3>2, <3>3 DEF TypeOK, Requested
    <2>4. Shape'
      <3>1. jar'.refresh <= issued'
        BY <1>1, Fresh
      <3> QED BY <2>1, <2>2, <3>1 DEF IInv, Shape, OnItsWay
    <2>5. Held'
      <3> SUFFICES ASSUME NEW p \in Requests, OnItsWay(p)'
                   PROVE  /\ request'[p].new \in store' \cup expired'
                          /\ request'[p].new # jar'.refresh
                          /\ \A q \in Requests :
                               /\ request'[q].presented # request'[p].new
                               /\ q # p /\ OnItsWay(q)'
                                    => request'[q].new # request'[p].new
        BY DEF Held, OnItsWay
      <3>1. \A q \in Requests :
              /\ request'[q].presented = request[q].presented
              /\ request[q].presented <= issued /\ request[q].presented \in Nat
              /\ q # r /\ OnItsWay(q)' => OnItsWay(q) /\ request[q].new \in 1 .. issued
        BY <2>1, <2>2, RequestType DEF OnItsWay, IInv, Requested
      <3>2. CASE p = r
        <4>1. request'[p].new = issued + 1
          BY <2>1, <2>2, <3>2
        <4>2. ASSUME NEW q \in Requests, q # p, OnItsWay(q)'
              PROVE  request'[q].new # issued + 1
          <5>1. request[q].new \in 1 .. issued /\ request'[q] = request[q]
            BY <2>2, <3>1, <3>2, <4>2
          <5> QED BY <1>1, <5>1, Fresh
        <4>3. \A q \in Requests : request'[q].presented # issued + 1
          BY <1>1, <3>1, Fresh
        <4>4. issued + 1 \in store' /\ issued + 1 # jar'.refresh
          BY <1>1, <1>2, Fresh
        <4> QED BY <4>1, <4>2, <4>3, <4>4
      <3>3. CASE p # r
        <4>1. /\ request'[p] = request[p] /\ OnItsWay(p)
              /\ request[p].new \in 1 .. issued
          BY <2>2, <3>1, <3>3
        <4>2. ASSUME NEW q \in Requests, q # p, OnItsWay(q)'
              PROVE  request'[q].new # request[p].new
          <5>1. CASE q = r
            <6>1. request'[q].new = issued + 1
              BY <2>1, <2>2, <5>1
            <6> QED BY <1>1, <4>1, <6>1, Fresh
          <5>2. CASE q # r
            BY <2>2, <3>1, <4>1, <4>2, <5>2 DEF IInv, Held
          <5> QED BY <5>1, <5>2
        <4> QED BY <1>1, <1>2, <3>1, <4>1, <4>2 DEF IInv, Held
      <3> QED BY <3>2, <3>3
    <2>6. Rotating'
      <3> SUFFICES ASSUME failures' = 0, NEW q \in Requests, PastDelete(q)'
                   PROVE  request'[q].presented \notin store'
        BY DEF Rotating, Presented
      <3>1. PastDelete(q) /\ request'[q].presented = request[q].presented
        BY <1>1, <2>1, <2>2 DEF PastDelete, OnItsWay
      <3>2. request[q].presented \notin store
        BY <1>2, <3>1 DEF IInv, Rotating, Presented
      <3>3. request[q].presented \in Nat /\ request[q].presented <= issued
        BY RequestType DEF IInv, Requested
      <3> QED BY <1>1, <1>2, <3>1, <3>2, <3>3
    <2>7. Replaced'
      <3>1. \A q \in Requests : PastDelete(q) => PastDelete(q)'
        BY <2>1, <2>2 DEF PastDelete, OnItsWay
      <3> QED BY <1>1, <1>2, <3>1 DEF IInv, Replaced
    <2> QED BY <2>3, <2>4, <2>5, <2>6, <2>7 DEF IInv
  <1>3. CASE /\ Failure /\ Refused(r) /\ UNCHANGED rotated
             /\ store' \in {store, store \cup {issued + 1}}
    <2> DEFINE moved == [request[r] EXCEPT !.pc = "answered", !.answer = "401"]
    <2>1. /\ moved \in Requested
          /\ request' = [request EXCEPT ![r] = moved]
          /\ moved.presented = request[r].presented /\ moved.kind = request[r].kind
          /\ moved.context = request[r].context /\ moved.answer = "401"
          /\ moved.pc = "answered"
      <3>1. moved \in Requested
        BY <1>1 DEF Requested, Answers
      <3> QED BY <1>1, <1>3, <3>1 DEF Refused, Answer, Requested
    <2> HIDE DEF moved
    <2>2. /\ request' \in [Requests -> Requested]
          /\ request'[r] = moved
          /\ \A q \in Requests \ {r} : request'[q] = request[q]
      BY <2>1, OneRequest DEF IInv
    <2>3. failures' \in Nat /\ failures' # 0
      BY <1>1, <1>3 DEF Failure
    <2>4. TypeOK'
      <3>1. /\ issued' \in Nat /\ jar' \in Cookies
            /\ store' \subseteq 1 .. issued' /\ replica' \subseteq 1 .. issued'
            /\ expired' \subseteq 1 .. issued' /\ rotated' \subseteq 1 .. issued'
        BY <1>1, <1>3, Fresh, NumberType DEF IInv, TypeOK
      <3>2. \A q \in Requests :
              /\ request'[q].presented <= issued'
              /\ request'[q].answer = "200 set" => request'[q].new \in 1 .. issued'
        BY <1>1, <2>1, <2>2, Fresh, RequestType DEF IInv, Requested
      <3> QED BY <2>2, <2>3, <3>1, <3>2 DEF TypeOK, Requested
    <2>5. Shape'
      <3>1. jar'.refresh <= issued'
        BY <1>1, Fresh
      <3> QED BY <2>1, <2>2, <3>1 DEF IInv, Shape, OnItsWay
    <2>6. Held'
      <3>1. \A q \in Requests : OnItsWay(q) => request[q].new \in store' \cup expired'
        BY <1>1, <1>3 DEF IInv, Held
      <3> QED BY <1>1, <2>1, <3>1, HeldKept
    <2> QED BY <2>3, <2>4, <2>5, <2>6 DEF IInv, Rotating, Replaced
  <1> QED BY <1>2, <1>3 DEF SaveToken

\* A logout deletes nothing, because its context never holds both schemes.
LEMMA LogoutIInv ==
  ASSUME IInv, NEW r \in Requests, HandleLogout(r)
  PROVE  IInv'
  <1>1. /\ request[r].pc = "logout"
        /\ UNCHANGED <<replica, expired, jar, issued, failures, rotated>>
    BY DEF HandleLogout
  <1>2. store' = store
    <2>1. Revocable(r) = {}
      BY DEF Revocable, IInv, Shape
    <2> QED BY <2>1 DEF HandleLogout
  <1>3. PICK moved \in Requested :
          /\ request' = [request EXCEPT ![r] = moved]
          /\ moved.presented = request[r].presented
          /\ moved.kind = request[r].kind
          /\ moved.context = request[r].context
          /\ moved.answer # "200 set"
          /\ moved.pc = "answered"
    <2>1. request[r] \in Requested
      BY RequestType DEF IInv
    <2>2. PICK answer \in {"200 clear", "200 keep"} : Answer(r, answer)
      BY DEF HandleLogout
    <2> DEFINE moved == [request[r] EXCEPT !.pc = "answered", !.answer = answer]
    <2>3. moved \in Requested
      BY <2>1, <2>2 DEF Requested, Answers
    <2>4. request' = [request EXCEPT ![r] = moved]
      BY <2>2 DEF Answer
    <2> QED BY <2>1, <2>2, <2>3, <2>4 DEF Requested
  <1>4. /\ request' \in [Requests -> Requested]
        /\ request'[r] = moved
        /\ \A q \in Requests \ {r} : request'[q] = request[q]
    BY <1>3, OneRequest DEF IInv
  <1>5. ~PastDelete(r)
    BY <1>1 DEF IInv, Shape, PastDelete, OnItsWay
  <1>6. TypeOK'
    BY <1>1, <1>2, <1>3, <1>4 DEF IInv, TypeOK, Requested
  <1>7. Shape'
    BY <1>1, <1>3, <1>4 DEF IInv, Shape, OnItsWay
  <1>8. Held'
    BY <1>1, <1>2, <1>3, HeldKept DEF IInv, Held
  <1>9. Rotating'
    BY <1>1, <1>2, <1>3, <1>4 DEF IInv, Rotating, PastDelete, OnItsWay, Presented
  <1>10. Replaced'
    BY <1>1, <1>2, <1>4, <1>5 DEF IInv, Replaced, PastDelete, OnItsWay
  <1> QED BY <1>6, <1>7, <1>8, <1>9, <1>10 DEF IInv

\* A request that is over is idle again.
LEMMA IdleAgain ==
  ASSUME IInv, NEW r \in Requests, request' = [request EXCEPT ![r] = Idle]
  PROVE  /\ Idle \in Requested /\ ~OnItsWay(r)' /\ ~PastDelete(r)'
         /\ request'[r] = Idle /\ Idle.presented = NoToken /\ Idle.answer = "none"
         /\ request' \in [Requests -> Requested]
         /\ \A q \in Requests \ {r} : request'[q] = request[q]
         /\ jar'.refresh <= issued' => Shape'
         /\ \A q \in Requests :
              /\ 0 <= issued => request'[q].presented <= issued
              /\ request'[q].answer = "200 set" => request'[q].new \in 1 .. issued
  <1>1. /\ Idle.presented = NoToken /\ Idle.answer = "none" /\ Idle.pc = "idle"
        /\ Idle.context = {} /\ Idle.kind = "login"
    BY DEF Idle
  <1>2. Idle \in Requested
    BY DEF Idle, Requested, Kinds, Working, Answers, Schemes, NoToken
  <1>3. /\ request' \in [Requests -> Requested]
        /\ request'[r] = Idle
        /\ \A q \in Requests \ {r} : request'[q] = request[q]
    BY <1>2, OneRequest DEF IInv
  <1>4. ~OnItsWay(r)' /\ ~PastDelete(r)'
    BY <1>1, <1>3 DEF OnItsWay, PastDelete
  <1>5. jar'.refresh <= issued' => Shape'
    <2>1. Schemes # {}
      BY DEF Schemes
    <2> QED BY <1>1, <1>3, <2>1 DEF IInv, Shape, OnItsWay
  <1>6. \A q \in Requests :
          /\ 0 <= issued => request'[q].presented <= issued
          /\ request'[q].answer = "200 set" => request'[q].new \in 1 .. issued
    BY <1>1, <1>3, RequestType DEF IInv, NoToken
  <1> QED BY <1>1, <1>2, <1>3, <1>4, <1>5, <1>6

LEMMA LoseIInv ==
  ASSUME IInv, NEW r \in Requests, Lose(r)
  PROVE  IInv'
  <1>1. /\ request' = [request EXCEPT ![r] = Idle]
        /\ failures' = failures + 1
        /\ UNCHANGED <<store, replica, expired, jar, issued, rotated>>
    BY DEF Lose, Failure
  <1>2. failures' \in Nat /\ failures' # 0
    <2>1. failures \in Nat
      BY NumberType DEF IInv
    <2> QED BY <1>1, <2>1, Fresh
  <1>3. TypeOK'
    <2>1. 0 <= issued
      <3>1. issued \in Nat
        BY NumberType DEF IInv
      <3> QED BY <3>1
    <2>2. \A q \in Requests :
            /\ request'[q].presented <= issued
            /\ request'[q].answer = "200 set" => request'[q].new \in 1 .. issued
      BY <1>1, <2>1, IdleAgain
    <2> QED BY <1>1, <1>2, <2>2, IdleAgain DEF IInv, TypeOK, Requested
  <1>4. Shape'
    BY <1>1, IdleAgain DEF IInv, Shape
  <1>5. Held'
    <2>1. /\ Idle \in Requested /\ Idle.answer # "200 set"
          /\ Idle.presented = NoToken
      BY <1>1, IdleAgain
    <2> QED BY <1>1, <2>1, HeldKept DEF IInv, Held
  <1> QED BY <1>2, <1>3, <1>4, <1>5 DEF IInv, Rotating, Replaced

\* What the browser takes from an answer is no longer on its way, and nobody
\* else has it.
LEMMA ReceiveIInv ==
  ASSUME IInv, NEW r \in Requests, Receive(r)
  PROVE  IInv'
  <1>1. /\ request' = [request EXCEPT ![r] = Idle]
        /\ request[r].pc = "answered"
        /\ UNCHANGED <<store, replica, expired, issued, failures, rotated>>
    BY DEF Receive
  <1>2. /\ request'[r] = Idle /\ ~OnItsWay(r)' /\ ~PastDelete(r)'
        /\ Idle.presented = NoToken
        /\ request' \in [Requests -> Requested]
        /\ \A q \in Requests \ {r} : request'[q] = request[q]
    BY <1>1, IdleAgain
  <1>3. \/ OnItsWay(r) /\ jar' = [access |-> TRUE, refresh |-> request[r].new]
        \/ ~OnItsWay(r) /\ jar' = NoCookies
        \/ ~OnItsWay(r) /\ jar' = jar
    BY DEF Receive, OnItsWay
  <1>4. /\ issued \in Nat /\ failures \in Nat /\ 0 <= issued /\ jar.refresh \in Nat
        /\ jar \in Cookies /\ jar.refresh <= issued
    <2>1. issued \in Nat /\ failures \in Nat /\ jar.refresh \in Nat
      BY NumberType DEF IInv
    <2>2. 0 <= issued
      BY <2>1
    <2> QED BY <2>1, <2>2 DEF IInv, TypeOK, Shape
  <1>5. OnItsWay(r) => /\ request[r].new \in 1 .. issued
                       /\ request[r].new \in store \cup expired
    BY RequestType DEF IInv, OnItsWay, Held
  <1>6. jar' \in Cookies /\ jar'.refresh <= issued
    <2>1. CASE jar' = [access |-> TRUE, refresh |-> request[r].new] /\ OnItsWay(r)
      BY <1>4, <1>5, <2>1, Fresh DEF Cookies
    <2>2. CASE jar' = NoCookies
      BY <1>4, <2>2 DEF Cookies, NoCookies, NoToken
    <2> QED BY <1>3, <1>4, <2>1, <2>2
  <1>7. TypeOK'
    <2>1. \A q \in Requests :
            /\ request'[q].presented <= issued
            /\ request'[q].answer = "200 set" => request'[q].new \in 1 .. issued
      BY <1>1, <1>4, IdleAgain
    <2> QED BY <1>1, <1>2, <1>6, <2>1 DEF IInv, TypeOK, Requested
  <1>8. Shape'
    BY <1>1, <1>6, IdleAgain
  <1>9. Held'
    <2> SUFFICES ASSUME NEW p \in Requests, OnItsWay(p)'
                 PROVE  /\ request'[p].new \in store' \cup expired'
                        /\ request'[p].new # jar'.refresh
                        /\ \A q \in Requests :
                             /\ request'[q].presented # request'[p].new
                             /\ q # p /\ OnItsWay(q)'
                                  => request'[q].new # request'[p].new
      BY DEF Held, OnItsWay
    <2>1. p # r /\ OnItsWay(p) /\ request'[p] = request[p]
      BY <1>2 DEF OnItsWay
    <2>2. request[p].new \in store \cup expired
      BY <2>1 DEF IInv, Held
    <2>3. request[p].new # NoToken
      <3>1. request[p].new \in 1 .. issued
        BY <2>1, RequestType DEF IInv, OnItsWay
      <3> QED BY <3>1, <1>4, Fresh DEF NoToken
    <2>4. request[p].new # jar'.refresh
      <3>1. CASE OnItsWay(r) /\ jar' = [access |-> TRUE, refresh |-> request[r].new]
        BY <2>1, <3>1 DEF IInv, Held
      <3>2. CASE jar' = NoCookies
        BY <2>3, <3>2 DEF NoCookies
      <3>3. CASE jar' = jar
        BY <2>1, <3>3 DEF IInv, Held
      <3> QED BY <1>3, <3>1, <3>2, <3>3
    <2>5. ASSUME NEW q \in Requests
          PROVE  /\ request'[q].presented # request[p].new
                 /\ q # p /\ OnItsWay(q)' => request'[q].new # request[p].new
      <3>1. CASE q = r
        BY <1>2, <2>1, <2>3, <3>1
      <3>2. CASE q # r
        BY <1>2, <2>1, <3>2 DEF IInv, Held, OnItsWay
      <3> QED BY <3>1, <3>2
    <2> QED BY <1>1, <2>1, <2>2, <2>4, <2>5
  <1>10. Rotating'
    BY <1>1, <1>2 DEF IInv, Rotating, PastDelete, OnItsWay, Presented
  <1>11. Replaced'
    <2> SUFFICES ASSUME failures = 0
                 PROVE  \/ jar'.refresh \in store \cup expired \cup {NoToken}
                        \/ \E q \in Requests : PastDelete(q)'
      BY <1>1 DEF Replaced
    <2>1. CASE OnItsWay(r) /\ jar' = [access |-> TRUE, refresh |-> request[r].new]
      BY <1>5, <2>1
    <2>2. CASE jar' = NoCookies
      BY <2>2 DEF NoCookies
    <2>3. CASE jar' = jar /\ ~OnItsWay(r)
      <3>1. ~PastDelete(r)
        BY <1>1, <2>3 DEF PastDelete
      <3> QED BY <1>2, <2>3, <3>1 DEF IInv, Replaced, PastDelete, OnItsWay
    <2> QED BY <1>3, <2>1, <2>2, <2>3
  <1> QED BY <1>7, <1>8, <1>9, <1>10, <1>11 DEF IInv

\* Time passes and the table replicates: only expired tokens disappear.
LEMMA EnvironmentIInv ==
  ASSUME IInv, AccessExpires \/ RefreshExpires \/ Sweep \/ Replicate
  PROVE  IInv'
  <1>1. /\ UNCHANGED <<request, issued, failures, rotated>>
        /\ jar' \in Cookies /\ jar'.refresh = jar.refresh
    BY DEF AccessExpires, RefreshExpires, Sweep, Replicate, IInv, TypeOK, Cookies
  <1>2. /\ store' \subseteq store /\ expired \subseteq expired'
        /\ expired' \subseteq 1 .. issued /\ replica' \subseteq 1 .. issued
        /\ store \cup expired \subseteq store' \cup expired'
    BY NumberType DEF AccessExpires, RefreshExpires, Sweep, Replicate, IInv
  <1>3. TypeOK'
    BY <1>1, <1>2 DEF IInv, TypeOK
  <1>4. Shape'
    BY <1>1 DEF IInv, Shape, OnItsWay
  <1>5. Held'
    BY <1>1, <1>2 DEF IInv, Held, OnItsWay
  <1>6. Rotating'
    BY <1>1, <1>2 DEF IInv, Rotating, PastDelete, OnItsWay, Presented
  <1>7. Replaced'
    BY <1>1, <1>2 DEF IInv, Replaced, PastDelete, OnItsWay
  <1> QED BY <1>3, <1>4, <1>5, <1>6, <1>7 DEF IInv

\* The induction step, for every step of Next.
LEMMA NextIInv == IInv /\ [Next]_vars => IInv'
  <1> SUFFICES ASSUME IInv, [Next]_vars PROVE IInv'
    OBVIOUS
  <1>1. ASSUME NEW r \in Requests, RequestStep(r) PROVE IInv'
    BY <1>1, SendIInv, GetIInv, DeleteIInv, SaveIInv, LogoutIInv, LoseIInv,
       ReceiveIInv DEF RequestStep
  <1>2. CASE AccessExpires \/ RefreshExpires \/ Sweep \/ Replicate
    BY <1>2, EnvironmentIInv
  <1>3. CASE UNCHANGED vars
    BY <1>3 DEF vars, IInv, TypeOK, Shape, Held, Rotating, Replaced, OnItsWay,
                PastDelete, Presented
  <1> QED BY <1>1, <1>2, <1>3 DEF Next

\* The inductive invariant holds throughout.
THEOREM Inductive == Spec => []IInv
  BY InitIInv, NextIInv, PTL DEF Spec

\* Cookies, requests and tokens keep their shape, and an answer that sets
\* cookies carries a token that was generated (the three handlers).
THEOREM TypeCorrect == Spec => []TypeOK
  <1>1. IInv => TypeOK
    BY DEF IInv
  <1> QED BY <1>1, Inductive, PTL

\* A refresh token on its way to the browser is in the table or has expired,
\* whatever fails and whatever the other requests do.
THEOREM AnswersAreBacked == Spec => []AnsweredTokenStored
  <1>1. IInv => AnsweredTokenStored
    BY DEF IInv, Held, OnItsWay, AnsweredTokenStored
  <1> QED BY <1>1, Inductive, PTL

\* As long as nothing has failed, a refresh that answers 200 has removed the
\* token it was asked with, also when reads are stale and refreshes overlap.
THEOREM RotationInvalidates == Spec => []OldTokenInvalidated
  <1>1. IInv => OldTokenInvalidated
    BY DEF IInv, Rotating, PastDelete, OnItsWay, OldTokenInvalidated, GrantedRefresh
  <1> QED BY <1>1, Inductive, PTL

\* As long as nothing has failed, a browser that waits for its answers keeps
\* its session, however its refreshes and logouts overlap.
THEOREM SessionsSurvive == Spec => []SessionKept
  <1>1. IInv => SessionKept
    <2> SUFFICES ASSUME IInv, failures = 0,
                        \A r \in Requests : request[r].pc = "idle"
                 PROVE  jar.refresh \in store \cup expired \cup {NoToken}
      BY DEF SessionKept
    <2>1. \A r \in Requests : ~PastDelete(r)
      BY DEF IInv, Shape, PastDelete
    <2> QED BY <2>1 DEF IInv, Replaced
  <1> QED BY <1>1, Inductive, PTL

-----------------------------------------------------------------------------
(***************************************************************************)
(* Why a late refresh is refused when Get sees the table as it is: a token *)
(* whose refresh has been answered is out of the table for good, and late  *)
(* says that this was so when the request was sent.                        *)
(***************************************************************************)
Spent == failures = 0 => rotated \cap store = {}

Passed(r) ==
  request[r].kind = "refresh" /\ (request[r].pc \in {"delete", "save"} \/ OnItsWay(r))

LateInv ==
  /\ Spent
  /\ \A r \in Requests : request[r].late => Presented(r) \in rotated
  /\ failures = 0 =>
       \A r \in Requests : Passed(r) /\ ~request[r].stale => ~request[r].late

\* One request moves, and the table loses tokens only.
LEMMA LateKept ==
  ASSUME LateInv, NEW r \in Requests, store' \subseteq store, rotated' = rotated,
         failures' = 0 => failures = 0,
         \A q \in Requests \ {r} : request'[q] = request[q],
         request'[r].late => request'[r].presented \in rotated,
         ~Passed(r)'
  PROVE  LateInv'
  <1>1. Spent'
    BY DEF LateInv, Spent
  <1>2. \A q \in Requests : request'[q].late => request'[q].presented \in rotated
    BY DEF LateInv, Presented
  <1>3. ASSUME failures' = 0, NEW q \in Requests, Passed(q)', ~request'[q].stale
        PROVE  ~request'[q].late
    <2>1. q # r /\ request'[q] = request[q]
      BY <1>3
    <2>2. Passed(q)
      BY <1>3, <2>1 DEF Passed, OnItsWay
    <2> QED BY <1>3, <2>1, <2>2 DEF LateInv
  <1> QED BY <1>1, <1>2, <1>3 DEF LateInv, Presented

LEMMA NextLate == IInv /\ LateInv /\ [Next]_vars => LateInv'
  <1> SUFFICES ASSUME IInv, LateInv, [Next]_vars PROVE LateInv'
    OBVIOUS
  <1>1. /\ issued \in Nat /\ failures \in Nat /\ rotated \subseteq 1 .. issued
        /\ failures + 1 # 0 /\ issued + 1 \notin rotated
        /\ request \in [Requests -> Requested]
    BY NumberType, Fresh DEF IInv, TypeOK, Requested
  <1>2. ASSUME NEW r \in Requests, Login(r) \/ Refresh(r) \/ Logout(r)
        PROVE  LateInv'
    <2>1. PICK kind \in Kinds, pc \in {"answered", "get", "save", "logout"},
               context \in SUBSET Schemes :
            Send(r, kind, pc, context) /\ (pc = "save" => kind # "refresh")
      BY <1>2, FirstOnly DEF Login, Refresh, Logout, Kinds, Schemes
    <2> DEFINE moved == Sent(kind, pc, context, jar.refresh, jar.refresh \in rotated)
    <2>2. /\ request' = [request EXCEPT ![r] = moved]
          /\ UNCHANGED <<store, rotated, failures>>
      BY <2>1 DEF Send, Sent
    <2>3. /\ moved.late => moved.presented \in rotated
          /\ moved.kind = kind /\ moved.pc = pc /\ moved.answer # "200 set"
      BY DEF Sent
    <2> HIDE DEF moved
    <2>4. /\ request'[r] = moved
          /\ \A q \in Requests \ {r} : request'[q] = request[q]
      BY <1>1, <2>2
    <2>5. ~Passed(r)'
      BY <2>1, <2>3, <2>4 DEF Passed, OnItsWay
    <2> QED BY <2>2, <2>3, <2>4, <2>5, LateKept
  <1>3. ASSUME NEW r \in Requests, GetToken(r)
        PROVE  LateInv'
    <2>1. UNCHANGED <<store, rotated>> /\ (failures' = 0 => failures = 0)
      BY <1>1, <1>3 DEF GetToken, Failure
    <2>2. \A q \in Requests \ {r} : request'[q] = request[q]
      BY <1>1, <1>3 DEF GetToken, GoOn, Answer
    <2>3. /\ request'[r].late = request[r].late
          /\ request'[r].presented = request[r].presented
          /\ Passed(r)' /\ ~request'[r].stale => Presented(r) \in store
      <3>1. CASE GoOn(r)
        <4> DEFINE gone == Presented(r) \notin store
                   moved == [request[r] EXCEPT !.pc = "delete", !.stale = gone]
        <4>1. request'[r] = moved
          BY <1>1, <3>1 DEF GoOn
        <4>2. /\ moved.late = request[r].late
              /\ moved.presented = request[r].presented
              /\ ~moved.stale => Presented(r) \in store
          BY <1>1 DEF Requested
        <4> QED BY <4>1, <4>2
      <3>2. CASE Answer(r, "401")
        BY <1>1, <3>2 DEF Answer, Passed, OnItsWay, Requested
      <3> QED BY <1>3, <3>1, <3>2 DEF GetToken
    <2>4. ASSUME failures' = 0, Passed(r)', ~request'[r].stale
          PROVE  ~request'[r].late
      BY <2>1, <2>3, <2>4 DEF LateInv, Spent
    <2> QED BY <2>1, <2>2, <2>3, <2>4 DEF LateInv, Spent, Passed, OnItsWay, Presented
  <1>4. ASSUME NEW r \in Requests, DeleteToken(r)
        PROVE  LateInv'
    <2>1. /\ store' \subseteq store /\ UNCHANGED rotated
          /\ failures' = 0 => failures = 0
      BY <1>1, <1>4 DEF DeleteToken, Deleted, Failure
    <2>2. /\ \A q \in Requests \ {r} : request'[q] = request[q]
          /\ request'[r] = [request[r] EXCEPT !.pc = "save"]
          /\ request[r].pc = "delete"
      BY <1>1, <1>4 DEF DeleteToken, Goto
    <2>3. /\ request'[r].late = request[r].late /\ request'[r].stale = request[r].stale
          /\ request'[r].presented = request[r].presented
          /\ Passed(r)' => Passed(r)
      BY <1>1, <2>2 DEF Passed, OnItsWay, Requested
    <2> QED BY <2>1, <2>2, <2>3 DEF LateInv, Spent, Passed, OnItsWay, Presented
  <1>5. ASSUME NEW r \in Requests, SaveToken(r)
        PROVE  LateInv'
    <2>1. /\ request[r].pc = "save"
          /\ \A q \in Requests \ {r} : request'[q] = request[q]
          /\ request'[r].late = request[r].late /\ request'[r].stale = request[r].stale
          /\ request'[r].presented = request[r].presented
          /\ Passed(r)' => Passed(r)
      <3>1. request[r].pc = "save"
        BY <1>5 DEF SaveToken
      <3>2. CASE Granted(r)
        <4> DEFINE moved == [request[r] EXCEPT !.pc = "answered", !.answer = "200 set",
                                               !.new = issued + 1]
        <4>1. /\ request'[r] = moved
              /\ \A q \in Requests \ {r} : request'[q] = request[q]
          BY <1>1, <3>2 DEF Granted
        <4>2. /\ moved.late = request[r].late /\ moved.stale = request[r].stale
              /\ moved.presented = request[r].presented /\ moved.kind = request[r].kind
          BY <1>1 DEF Requested
        <4> HIDE DEF moved
        <4> QED BY <3>1, <4>1, <4>2 DEF Passed
      <3>3. CASE Answer(r, "401")
        BY <1>1, <3>1, <3>3 DEF Answer, Passed, OnItsWay, Requested
      <3> QED BY <1>5, <3>1, <3>2, <3>3 DEF SaveToken, Refused
    <2>2. /\ failures' = 0 => failures = 0
          /\ failures' = 0 => store' = store \cup {issued + 1}
          /\ rotated \subseteq rotated'
          /\ rotated' \subseteq rotated \cup
               (IF request[r].kind = "refresh" THEN {Presented(r)} ELSE {})
      BY <1>1, <1>5 DEF SaveToken, Failure
    <2>3. failures = 0 /\ request[r].kind = "refresh" => Presented(r) \notin store
      BY <2>1 DEF IInv, Rotating, PastDelete
    <2>4. Presented(r) # issued + 1
      <3>1. Presented(r) \in Nat /\ Presented(r) <= issued
        BY RequestType DEF IInv, Requested, Presented
      <3> QED BY <1>1, <3>1, Fresh
    <2>5. Spent'
      BY <1>1, <2>2, <2>3, <2>4 DEF LateInv, Spent
    <2> QED BY <2>1, <2>2, <2>5 DEF LateInv, Passed, OnItsWay, Presented
  <1>6. ASSUME NEW r \in Requests, HandleLogout(r)
        PROVE  LateInv'
    <2>1. store' \subseteq store /\ rotated' = rotated /\ failures' = failures
      BY <1>6 DEF HandleLogout
    <2>2. /\ \A q \in Requests \ {r} : request'[q] = request[q]
          /\ request'[r].late = request[r].late
          /\ request'[r].presented = request[r].presented
          /\ request'[r].pc = "answered" /\ request'[r].answer # "200 set"
      BY <1>1, <1>6 DEF HandleLogout, Answer, Requested
    <2>3. ~Passed(r)'
      BY <2>2 DEF Passed, OnItsWay
    <2>4. request'[r].late => request'[r].presented \in rotated
      BY <2>2 DEF LateInv, Presented
    <2>5. \A q \in Requests \ {r} : request'[q] = request[q]
      BY <2>2
    <2> QED BY <2>1, <2>3, <2>4, <2>5, LateKept
  <1>7. ASSUME NEW r \in Requests, Lose(r) \/ Receive(r)
        PROVE  LateInv'
    <2>1. /\ UNCHANGED <<store, rotated>> /\ (failures' = 0 => failures = 0)
          /\ request' = [request EXCEPT ![r] = Idle]
      BY <1>1, <1>7 DEF Lose, Receive, Failure
    <2>2. /\ \A q \in Requests \ {r} : request'[q] = request[q]
          /\ request'[r] = Idle
      BY <1>1, <2>1
    <2>3. Idle.kind = "login" /\ ~Idle.late
      BY DEF Idle
    <2>4. ~Passed(r)' /\ ~request'[r].late
      BY <2>2, <2>3 DEF Passed
    <2>5. store' \subseteq store /\ rotated' = rotated
      BY <2>1
    <2> QED BY <2>1, <2>2, <2>4, <2>5, LateKept
  <1>8. CASE AccessExpires \/ RefreshExpires \/ Sweep \/ Replicate
    <2>1. UNCHANGED <<request, rotated, failures>> /\ store' \subseteq store
      BY <1>8 DEF AccessExpires, RefreshExpires, Sweep, Replicate
    <2> QED BY <2>1 DEF LateInv, Spent, Passed, OnItsWay, Presented
  <1>9. CASE UNCHANGED vars
    BY <1>9 DEF vars, LateInv, Spent, Passed, OnItsWay, Presented
  <1> QED BY <1>2, <1>3, <1>4, <1>5, <1>6, <1>7, <1>8, <1>9 DEF Next, RequestStep

\* As long as nothing has failed, a refresh sent after the refresh of its token
\* was answered is refused, unless its Get showed a table that was no more.
THEOREM LateRefreshRefused == Spec => []NoLateRefreshUnlessStale
  <1>1. Init => LateInv
    <2>1. Idle.kind = "login" /\ ~Idle.late
      BY DEF Idle
    <2> QED BY <2>1 DEF Init, LateInv, Spent, Passed
  <1>2. LateInv => NoLateRefreshUnlessStale
    BY DEF LateInv, Passed, OnItsWay, NoLateRefreshUnlessStale, GrantedRefresh
  <1> QED BY <1>1, <1>2, Inductive, NextLate, PTL DEF Spec
=============================================================================
