------------------------------- MODULE Sessions -------------------------------
(***************************************************************************)
(* The login session of one browser: POST /login/google, POST              *)
(* /login/refresh and DELETE /login/session (api/google.go, refresh.go,    *)
(* session.go) behind the security check of api/openapivalidate.go, over   *)
(* the refresh tokens of dynamo/refresh_token.go.                          *)
(*                                                                         *)
(* Several requests of the browser run at once (tabs, retries), each in    *)
(* its own handler, which calls the table several times; the cookies are   *)
(* those the browser had when it sent the request, and the answers reach   *)
(* it in any order.  A call of the table fails, a handler dies, an answer  *)
(* gets lost.  Refresh tokens are numbered as they are generated.          *)
(***************************************************************************)
EXTENDS Integers

CONSTANTS Requests,    \* requests the browser runs at once
          StaleReads,  \* may a GetItem show an older table?
          MaxTokens,   \* bound: refresh tokens generated
          MaxFailures  \* bound: failed calls, dead handlers, lost answers

ASSUME SessionsAssumption ==
  /\ StaleReads \in BOOLEAN
  /\ MaxTokens \in Nat
  /\ MaxFailures \in Nat

VARIABLES store,     \* refresh tokens in the table
          replica,   \* an older state of them that a read may still show
          expired,   \* refresh tokens past their expiry
          jar,       \* the two cookies of the browser
          request,   \* the requests
          issued,    \* refresh tokens generated so far
          failures,  \* failures so far
          rotated    \* history: tokens whose refresh was answered 200

vars == <<store, replica, expired, jar, request, issued, failures, rotated>>

-----------------------------------------------------------------------------
NoToken == 0
NoCookies == [access |-> FALSE, refresh |-> NoToken]

(***************************************************************************)
(* A request: its kind, its handler's position, the refresh token it was   *)
(* sent with, what the security check put into its context, the refresh    *)
(* token it generated, and the answer: 401, or 200 with cookies that are   *)
(* set, cleared or not mentioned.  As history, late: it was sent after the *)
(* refresh of its token had been answered; stale: its Get found a token    *)
(* that had left the table.                                                *)
(***************************************************************************)
Kinds == {"login", "refresh", "logout"}
Working == {"get", "delete", "save", "logout"}
Answers == {"none", "401", "200 set", "200 clear", "200 keep"}

Idle == [kind |-> "login", pc |-> "idle", presented |-> NoToken, context |-> {},
         new |-> NoToken, answer |-> "none", late |-> FALSE, stale |-> FALSE]

Init ==
  /\ store = {} /\ replica = {} /\ expired = {}
  /\ jar = NoCookies
  /\ request = [r \in Requests |-> Idle]
  /\ issued = 0
  /\ failures = 0
  /\ rotated = {}

Schemes == {"icaaCookieAuth", "icaaRefreshCookieAuth"}

\* validateAccessTokenCookie, validateRefreshTokenCookie.
SchemeValid(scheme, cookies) ==
  IF scheme = "icaaCookieAuth"
    THEN cookies.access
    ELSE cookies.refresh # NoToken /\ cookies.refresh \notin expired

(***************************************************************************)
(* The alternatives of a security list are tried in order; the first that  *)
(* validates ends the check and is the only one to put anything into the   *)
(* request's context.                                                      *)
(***************************************************************************)
Validated(alternatives, cookies) ==
  LET valid == {i \in DOMAIN alternatives : SchemeValid(alternatives[i], cookies)}
  IN  {alternatives[i] : i \in {j \in valid : \A k \in valid : j <= k}}

RefreshSecurity == <<"icaaRefreshCookieAuth">>
LogoutSecurity == <<"icaaCookieAuth", "icaaRefreshCookieAuth">>

Goto(r, pc) == request' = [request EXCEPT ![r].pc = pc]

Presented(r) == request[r].presented

Answer(r, answer) ==
  request' = [request EXCEPT ![r].pc = "answered", ![r].answer = answer]

Failure ==
  /\ failures < MaxFailures
  /\ failures' = failures + 1

Table == IF StaleReads THEN {store, replica} ELSE {store}

-----------------------------------------------------------------------------
(***************************************************************************)
(* The browser sends its cookies and the security check takes place; an    *)
(* answer of the check is the last of the request.                         *)
(***************************************************************************)
Send(r, kind, pc, context) ==
  /\ request[r].pc = "idle"
  /\ request' = [request EXCEPT ![r] =
       [kind |-> kind, pc |-> pc, presented |-> jar.refresh, context |-> context,
        new |-> NoToken, answer |-> IF pc = "answered" THEN "401" ELSE "none",
        late |-> jar.refresh \in rotated, stale |-> FALSE]]
  /\ UNCHANGED <<store, replica, expired, jar, issued, failures, rotated>>

\* PostLoginGoogle up to the Save; the Google token may be refused.
Login(r) == Send(r, "login", "save", {}) \/ Send(r, "login", "answered", {})

Refresh(r) ==
  LET context == Validated(RefreshSecurity, jar)
  IN  Send(r, "refresh", IF context = {} THEN "answered" ELSE "get", context)

Logout(r) ==
  LET context == Validated(LogoutSecurity, jar)
  IN  Send(r, "logout", IF context = {} THEN "answered" ELSE "logout", context)

Found(t, table) == t \in table /\ t \notin expired

GoOn(r) ==
  request' = [request EXCEPT ![r].pc = "delete",
                             ![r].stale = Presented(r) \notin store]

\* PostLoginRefresh, the store's Get: an error, a missing and an expired item
\* all answer 401.
GetToken(r) ==
  /\ request[r].pc = "get"
  /\ \/ /\ \E table \in Table :
             IF Found(Presented(r), table) THEN GoOn(r) ELSE Answer(r, "401")
        /\ UNCHANGED failures
     \/ Failure /\ Answer(r, "401")
  /\ UNCHANGED <<store, replica, expired, jar, issued, rotated>>

\* Mutant: the id deleted is that of the new token.
DeletedWrongToken(r) == store \ {request[r].new}

Deleted(r) == store \ {Presented(r)}

\* PostLoginRefresh, the store's Delete: an error is logged and ignored.
DeleteToken(r) ==
  /\ request[r].pc = "delete"
  /\ Goto(r, "save")
  /\ \/ store' = Deleted(r) /\ UNCHANGED failures
     \/ Failure /\ UNCHANGED store
  /\ UNCHANGED <<replica, expired, jar, issued, rotated>>

\* Mutant: the refresh cookie is built from an empty value.
GrantedEmpty(r) == Answer(r, "200 set")

Granted(r) ==
  request' = [request EXCEPT ![r].pc = "answered", ![r].answer = "200 set",
                             ![r].new = issued + 1]

\* Mutant: the error of Save is ignored.
SaveErrorIgnored(r) == Granted(r)

Refused(r) == Answer(r, "401")

\* PostLoginGoogle and PostLoginRefresh: the tokens are generated and saved.
\* A generation or a save that fails answers 401; a save may report an error
\* although it was done.
SaveToken(r) ==
  /\ request[r].pc = "save"
  /\ issued < MaxTokens
  /\ issued' = issued + 1
  /\ \/ /\ Granted(r)
        /\ store' = store \cup {issued + 1}
        /\ rotated' = IF request[r].kind = "refresh"
                        THEN rotated \cup {Presented(r)} ELSE rotated
        /\ UNCHANGED failures
     \/ /\ Failure
        /\ Refused(r)
        /\ store' \in {store, store \cup {issued + 1}}
        /\ UNCHANGED rotated
  /\ UNCHANGED <<replica, expired, jar>>

\* Mutant: the deletion comes before the check for a JWT.
RevocableWithoutJWT(r) ==
  IF "icaaRefreshCookieAuth" \in request[r].context THEN {Presented(r)} ELSE {}

(***************************************************************************)
(* DeleteLoginSession.  Without a JWT in the context it answers 200 and    *)
(* leaves everything alone; with one it deletes the refresh token whose id *)
(* the context holds, if it holds one, and clears the cookies.  The        *)
(* deletion may fail, which is ignored.                                    *)
(***************************************************************************)
Revocable(r) ==
  IF request[r].context = Schemes THEN {Presented(r)} ELSE {}

HandleLogout(r) ==
  /\ request[r].pc = "logout"
  /\ Answer(r, IF "icaaCookieAuth" \in request[r].context
                 THEN "200 clear" ELSE "200 keep")
  /\ store' \in {store \ Revocable(r), store}
  /\ UNCHANGED <<replica, expired, jar, issued, failures, rotated>>

\* The handler dies (Lambda timeout, instance lost) or its answer does not
\* arrive.
Lose(r) ==
  /\ request[r].pc # "idle"
  /\ Failure
  /\ request' = [request EXCEPT ![r] = Idle]
  /\ UNCHANGED <<store, replica, expired, jar, issued, rotated>>

\* The browser has the answer and follows its Set-Cookie headers.
Receive(r) ==
  /\ request[r].pc = "answered"
  /\ jar' = CASE request[r].answer = "200 set" -> [access |-> TRUE, refresh |-> request[r].new]
              [] request[r].answer = "200 clear" -> NoCookies
              [] OTHER -> jar
  /\ request' = [request EXCEPT ![r] = Idle]
  /\ UNCHANGED <<store, replica, expired, issued, failures, rotated>>

AccessExpires ==
  /\ jar.access
  /\ jar' = [jar EXCEPT !.access = FALSE]
  /\ UNCHANGED <<store, replica, expired, request, issued, failures, rotated>>

RefreshExpires ==
  /\ \E t \in (1 .. issued) \ expired : expired' = expired \cup {t}
  /\ UNCHANGED <<store, replica, jar, request, issued, failures, rotated>>

\* The TTL process deletes an item whose expiry has passed.
Sweep ==
  /\ \E t \in store \cap expired : store' = store \ {t}
  /\ UNCHANGED <<replica, expired, jar, request, issued, failures, rotated>>

\* The lagging copy of the table catches up.
Replicate ==
  /\ StaleReads
  /\ replica # store
  /\ replica' = store
  /\ UNCHANGED <<store, expired, jar, request, issued, failures, rotated>>

RequestStep(r) ==
  \/ Login(r) \/ Refresh(r) \/ Logout(r)
  \/ GetToken(r) \/ DeleteToken(r) \/ SaveToken(r) \/ HandleLogout(r)
  \/ Lose(r) \/ Receive(r)

Next ==
  \/ \E r \in Requests : RequestStep(r)
  \/ AccessExpires \/ RefreshExpires \/ Sweep \/ Replicate

Spec == Init /\ [][Next]_vars

-----------------------------------------------------------------------------
Cookies == [access : BOOLEAN, refresh : Nat]

\* The cookies, the requests and the tokens keep their shape.
TypeOK ==
  /\ store \subseteq 1 .. issued
  /\ replica \subseteq 1 .. issued
  /\ expired \subseteq 1 .. issued
  /\ rotated \subseteq 1 .. issued
  /\ issued \in Nat
  /\ failures \in Nat
  /\ jar \in Cookies
  /\ request \in [Requests ->
       [kind : Kinds, pc : {"idle", "answered"} \cup Working, presented : Nat,
        context : SUBSET Schemes, new : Nat, answer : Answers, late : BOOLEAN,
        stale : BOOLEAN]]
  /\ \A r \in Requests :
       /\ request[r].presented <= issued
       /\ request[r].answer = "200 set" => request[r].new \in 1 .. issued

GrantedRefresh(r) == request[r].kind = "refresh" /\ request[r].answer = "200 set"

\* The cookies of an answer under way hold a refresh token that is in the table
\* until it expires: neither the failures of other requests nor their logouts
\* and rotations take it away before the browser has it (PostLoginGoogle,
\* PostLoginRefresh).
AnsweredTokenStored ==
  \A r \in Requests :
    request[r].answer = "200 set" => request[r].new \in store \cup expired

\* As long as no call has failed, a token is no longer in the table when its
\* refresh is answered 200, also when refreshes of it overlap and reads are
\* stale (PostLoginRefresh deletes it before it saves the next).
OldTokenInvalidated ==
  failures = 0 => \A r \in Requests : GrantedRefresh(r) => Presented(r) \notin store

\* A refresh sent after the refresh of the same token was answered is refused
\* (token rotation, spec/api.yaml on /login/refresh), as long as no call has
\* failed and its Get saw the table as it was (PostLoginRefresh, the store's Get).
NoLateRefreshUnlessStale ==
  failures = 0 =>
    \A r \in Requests : GrantedRefresh(r) /\ ~request[r].stale => ~request[r].late

\* As long as no call has failed, once its requests are answered the browser
\* holds a refresh token that is in the table, or an expired one, or none:
\* however refreshes of several tabs and logouts overlap, and in whatever order
\* their answers arrive, the session is not lost.
SessionKept ==
  failures = 0 /\ (\A r \in Requests : request[r].pc = "idle")
    => jar.refresh \in store \cup expired \cup {NoToken}

\* A refresh token presented with a logout that is answered 200 is revoked
\* (spec/api.yaml on DELETE /login/session).
LogoutRevokes ==
  \A r \in Requests :
    request[r].kind = "logout" /\ request[r].answer \in {"200 clear", "200 keep"}
      => Presented(r) \notin store
=============================================================================
