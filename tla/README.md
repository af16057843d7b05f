# Formal model of the login service

TLA+ modules, TLC runs and TLAPS proofs for the ICAA login service (`src/`, Go
on AWS Lambda and DynamoDB). The service signs browsers in with Google, keeps
their session with rotating refresh tokens, and exchanges the secrets of machine
clients for short-lived tokens that other services verify with a public key set.
No process of the service shares memory with another: every Lambda instance
handles its requests alone, and what they share is the table `login-api`. So the
hard behaviour is the interleaving of handlers that make several table calls
each, reads that lag behind writes, answers that get lost and are retried, and
the clock.

## The system

| Component | Source | State | Operations |
|---|---|---|---|
| rate limiter | `dynamo/m2m.go` 51-200, `m2m/service.go` 104-111 | `RATE#<clientId>`: windowCount, windowEnd, ttl | `BumpWindow`: conditional UpdateItem, then ADD |
| machine client record | `dynamo/m2m.go`, `m2m/provision_service.go`, `m2m/provision.go`, `api/m2m_provision.go` | `CLIENT#<clientId>`: secretRounds, audiences, active; its entry in the index GSI1 | create, rotate, revoke, update, list |
| token exchange | `m2m/service.go`, `api/m2m.go` | none of its own | `Exchange`: read the client, bump the window, check audience and secret, sign |
| session handlers | `api/google.go`, `api/refresh.go`, `api/session.go` | two cookies in the browser | login, refresh, logout, read the session |
| refresh token store | `dynamo/refresh_token.go` | `REFRESH_TOKEN#<id>` with expiry | Save, Get, Delete |
| request authentication | `api/openapivalidate.go`, `spec/api.yaml` | the request's context | cookie and bearer schemes, scopes, security alternatives |
| signing keys | `cmd/jwks.go`, `cmd/config.go`, `api/jwks.go` | keys of each instance, cached key sets | sign, publish, rotate by redeploy |
| startup, shutdown | `cmd/main.go`, `cmd/clients.go`, `cmd/config.go` | config, `sync.Once` | errgroup, signal or server error |
| server and generated code | `api/api.go`, `api/gen.go` | | wiring |
| deployment | `template.yml`, `deploy/` | | timeout, TTL attribute |

Interactions. The exchange reads the record that provisioning writes, and asks
the limiter between that read and the checks that rest on it. The session
handlers see only what the security check put into the request's context. The
tables' TTL process deletes `RATE#` and `REFRESH_TOKEN#` items on its own. Lambda
kills an invocation after 10 s (`template.yml` 19). The AWS SDK sends a write
again when its answer is lost. Every `GetItem` is eventually consistent, since
no caller sets `ConsistentRead`, and so is every query of the index. Instances
read the signing keys once, at startup, and other services cache the key set
that an instance publishes; instances of different ages work side by side.

What makes each part correct:

* limiter: a window lets at most the limit through; one window per Duration; a
  client that was turned away gets through later.
* record: no rotation is lost, no secret is handed out that was not written,
  revocation and updates are not undone, the verdicts are exact.
* exchange: a client that is entitled to a token gets it, one that is not stops
  getting them, tokens of former rights run out, guessing is throttled.
* sessions: an answer never carries a dead refresh token, an old token is
  invalidated, the browser does not lose its session, logout revokes.
* list of clients: in order, nobody twice, nobody left out that the index had,
  no revoked client shown as active.
* signing keys: tokens of a key that stays in the parameter go on being verified by
  every service and accepted by every instance, through restarts, redeploys and
  edits of any kind; an edit is in effect everywhere a bounded time after its redeploy.

The hazards (every place where these can go wrong, at its line) are listed in
`PROJECT.json` with the properties that watch them.

## Modules

```
FixedWindow       abstract: what the limiter promises
RateWindow        BumpWindow's two UpdateItems         implements FixedWindow
ClientRecord      abstract: what the record of a machine client promises
MachineClients    the record and the admin requests    implements ClientRecord
Exchange          EXTENDS MachineClients, INSTANCE FixedWindow
Listing           the paged list of machine clients
Sessions          browser, handlers, refresh tokens
KeyRotation       parameter, instances, cached key sets
MC*               instances for TLC
*Proofs           theorems; VerdictProofs and ExchangeProofs extend
                  MachineClientsProofs, ClientRecordProofs extends VerdictProofs
```

### RateWindow and FixedWindow

`RateWindow` is the item of one clientId with its callers. `Begin` reads the
clock (`now`, m2m.go 139). `StartOrRollover` is the conditional UpdateItem that
holds, `FallThrough` the one whose condition fails, `AddToWindow` the ADD.
`Outcome` is what the caller makes of an applied write: the count comes back and
`Exchange` compares it with the limit, or the answer is lost and the SDK repeats
the write (`AnswerLost`), the ADD counting once more. `Killed` is the Lambda
timeout, which bounds how old `now` can be at a write; `Sweep` is deletion by TTL, possible
once `ttl` has passed. `windows`, `granted` and `sweeps` are history variables.

`FixedWindow` knows nothing of the item: a window has slots, an admission takes
one or opens a window that is due, a refusal happens only when none is left, a
deletion forfeits the slots that remain. `RateWindow!KeepsPromise` is
`FixedWindow!Spec` under the mapping `Left`, `Asking`; it is checked by TLC and
proved. `Exchange` is built on `FixedWindow`, which is what makes its state space
small enough. The rates (`RateBound`, `FixedWindowRate`, `Due`, `GuessesLimited`) count all
windows since the clock began: after a quiet time they would allow several windows at
once. What a single window lets through is `BudgetPerWindow` in sum and, slot by slot,
`KeepsPromise`.

### MachineClients and ClientRecord

One clientId and concurrent admin requests. Create, revoke and update are one
conditional write each; a rotation is `GetForRotation`, `SwapRounds` (condition
`secretRounds = :expected`) and, when refused, `Reread`. `Snapshots` is what a
read may show: the record or the lagging `replica`, which is an older state and
follows by `Replicate`. `Applied` is the answer of a write that was done: it arrives, or is
lost, and then the SDK sends it again (the request stays where it is) or gives up
(500). A secret stands for itself and for its bcrypt round. `inUse` is the secret
the operator delivered last; delivery is the step in which an answer is received.
`revoked`, `since`, `stale` in a request and `history` are history variables.
Records written by hand (`src/README.md` 98-111) are not modelled here: they may
hold more than two rounds, and their `audience`/`scopes` fields are not the ones
`MachineClientItem` reads. `Listing` has them.

`ClientRecord` has no table: a request begins (`Ask`), takes effect in one step
(`Create`, `Rotate`, `Revoke`, `Update`) or is refused (`Refuse`), and is answered. A
secret is written only if it never was before and only by a request that has
written none, so a create or a rotation takes effect once however often its write
is sent; a revocation or an update may take effect again, as a repeated SET does,
until it is answered. An effect may be answered 500. The record accepts the
`Newest` of all secrets written. A refusal has its `Cause` at that moment, or the
request is a rotation that looked at an older record (`Lag`), or something broke (500).
`MachineClients!KeepsRecord` is `ClientRecord!Spec` under the mapping `Operation`,
`Call` with `history` for the secrets: the swap on `secretRounds` is where a rotation
takes effect. A "conflict" is promised only when a secret was written since the request
began, which may be its own, written by a lost and repeated swap;
`ExactUnlessStale` says when it is another's.

### Exchange

`POST /login/v1/m2m/tokens` beside the admin requests. `Lookup` is GetClient with
its early return (401 for an unknown or revoked client), `Bump` the limiter with
200/429/500 of the code's error mapping, `Verify` the audience, the secret and the
signature, `Cut` the Lambda timeout; `Refused` is a malformed request or a failing
GetClient. Of the secrets, a caller presents the delivered one, a wrong one, or the
one that is watched, at any time before or after it was written, delivered or evicted.
`Watched` is an arbitrary audience with arbitrary scopes and an arbitrary secret;
`granted` remembers when the record last gave exactly those scopes to who has that
secret and `expiry` when the last token obtained so runs out. That is what becomes of
tokens after a revocation, an update of the audiences, and a rotation too many.

### Sessions

One browser with a few requests under way, each sent with the cookies of that
moment, answered in any order. `Send` includes the security check: the
alternatives of the operation's security list are tried in order and only the one
that holds fills the context (`Validated`). `GetToken`, `DeleteToken` and
`SaveToken` are the three table calls of `PostLoginRefresh`; login joins at
`SaveToken`. A failing Get answers 401, a failing Delete is ignored
(refresh.go 43-48), a failing Save answers 401 and may have been done. `Lose` is a
dead handler or a lost answer. `expired` tokens leave the table by `Sweep` at any
later time.

### Listing

`GET /login/v1/m2m-clients` beside creates and revocations of all clients. A
client is the rank of its clientId. `Create` and `Revoke` write the table,
`Propagate` brings one item to one copy of GSI1, and `Query` is one round of the
loop of `ListClients` (m2m.go 251-277): some copy answers with everything past
`startKey`, or is cut after any item, which becomes `LastEvaluatedKey`. The cut may fall
after the last item, and then one more, empty, query follows. `Fail` throws the
pages away (m2m.go 261-268). `indexed` and `gone` are history: what every copy held, and
showed as revoked, when the listing began. A record written by hand has no
`GSI1PK` and never reaches the index.

### KeyRotation

One of the two key parameters (machine and user keys go the same way), the
processes that load it, and the services that verify. `Start`, `Load`, `Serve`
are the phases of `setupApi` (main.go 71-207), with the refusal of LOCAL inside
Lambda (config.go 255-277) and of a parameter whose current key is missing (config.go 208);
`Stop` is every way an instance ends. A serving instance signs with its current
key (`Sign`) and gives out all its keys (`Fetch`, `Published`), for as long as
`Cache-Control` allows (m2m.go 28 of `api/`: max-age plus stale-while-revalidate).
The operator is outside the code, and `src/README.md` 68-92 only says "edit, then
redeploy". `Edit` therefore replaces the parameter by any other one at any
moment, several edits may overlap one redeploy, keys may come, go and sign in the
same edit, and the current key may be lost; nobody waits for anything. What can be said
about tokens then depends on how old the last edit is, and on which keys it left
alone. Three history variables tell: `old`, the instances started before the last
edit, `settled`, when the last of them ended, and `kept`, the keys that were in
effect everywhere before an edit and that no edit since has taken out (`Kept`). `Signing`
and `Published` are what an instance does with its keys, `Verified` and `Accepted` what
becomes of a token at the services and at the instances.

That a service never meets a token it cannot verify (`Verifiable`) does not follow:
`KeyRotationOneEdit` has the counterexample.

## Runs

`Listing` and `KeyRotation` are checked for deadlock. The other runs say
`CHECK_DEADLOCK FALSE`: the clock, the number of secrets, tokens and
retries are bounded, and a behaviour that has used them up stops. The code itself
has no state in which it waits for another process.

| Run | Checks | What it shows |
|---|---|---|
| RateWindow | TypeOK, BudgetPerWindow, RateBound, KeepsPromise, EventuallyServed | two callers, limit 2, one retry, one deletion: budget, rate, refinement; a caller turned away is served in a later window |
| RateWindowTTL | FixedWindowRate, violated | one deletion in an active window gives a second budget |
| MachineClients | TypeOK, RoundsAreLatest, AnsweredSecretWritten, ExactUnlessStale, RevokedNotRotatedUnlessStale, WrittenOnce, RevocationPermanent, AudiencesAsAsked, KeepsRecord | two admins, stale reads, a lost answer; refinement |
| MachineClientsLostVerdict | ExactVerdicts, violated | a lost answer and its retry: a request is refused because of its own write |
| Sessions | TypeOK, AnsweredTokenStored, OldTokenInvalidated, SessionKept, NoLateRefreshUnlessStale | two overlapping requests, stale reads, one failure |
| SessionsLogout | LogoutRevokes, violated | a logout with both cookies leaves the refresh token in the table |
| Exchange | ExchangeTypeOK, TokensRunOut, GuessesLimited | exchange, admin, window, deletion and clock together |
| ExchangeRotation | EntitledServed | the delivered secret is served through rotations, with up to three secrets |
| ExchangeRevoked | RevokedRefused, violated | an exchange that begins after the revocation is answered 200 by a stale read |
| Listing | TypeOK, ListedInOrder, ListedComplete, RevocationShown, EventuallyListed | pages cut anywhere, from copies that disagree, beside creates and revocations |
| KeyRotation | TypeOK, KeptVerified, FormerKeysSilent, EditReachesAll, WholeOnceSettled | any edits, with instances of all ages and cached key sets: who leaves a key in breaks none of its tokens, and what an edit broke is whole again in time |
| KeyRotationOneEdit | Verifiable, violated | an edit that adds a key and makes it current: a cached key set lacks the key that signs |

### Bounds, and why they are enough

* `MaxTime` 4 with `Duration` 2 holds three windows and their boundary seconds, and
  leaves a whole Duration after a refusal; `RateWindowTTL` uses 5.
  `RequestTimeout` 1 lets the clock move once between reading it and writing.
  Two callers, one retry and `Limit` 2 contest the last slot and go over the limit
  (with `Limit` 1 no ADD would be let through); the proofs have any number of callers.
* A caller of `RateWindow` begins at most one exchange per clock unit.
* `MaxSecrets` 4 with `MaxSecretRounds` 2 evicts rounds twice; two admins meet in
  every pair of operations. `MaxLost` 1 is a retried or a failed write. The view of
  `MachineClients.cfg` leaves out `inUse`, which no guard and, but for its type, no
  property of that run reads; the exchange does, and its runs have no view.
* `replica` is one older state. A read may show the newest or that one, and every
  older state is one at which the replica could have stopped.
* `MaxTokens` 3 is a login and two refreshes; two requests overlap in every pair
  of kinds. `MaxFailures` 1 in the passing run, 0 in the violation, which does not
  depend on failures.
* `Exchange` runs with one admin and one caller. `Exchange.cfg` keeps one round and
  has two secrets, so that a single rotation evicts the watched one, and a clock up
  to 2 with one deletion: a right that is lost at 0 leaves no token at 2 with
  `Lifetime` and `RequestTimeout` 1, and a token issued too late would show. Its view leaves out the
  answers and what only action properties and `MachineClients` look at.
  `ExchangeRotation.cfg` has two rounds, three secrets and the clock stopped, since
  `EntitledServed` does not depend on time. That several callers and admins, more
  rounds and longer times behave no worse is part of the proofs.
* `Listing`: three clients of the API give a page boundary before, inside and
  after the list; one record is written by hand and sits between them. Two copies
  of the index are enough for two pages that contradict each other. Every page
  size occurs, since `Query` may be cut anywhere. Nothing else needs a bound: the
  list of a handler is bounded by the clients.
* `KeyRotation`: two keys are a rotation and the way back; two instances are an
  old and a new one; verifiers do not affect each other, so one is enough.
  `Lifetime` 1 < `CacheAge` 2 as in production (300 s against 3900 s), and
  `MaxTime` 5 has room for an edit, its redeploy and both ages to run out, and for
  another edit after it. `KeyRotationOneEdit` restricts the edits to those that keep
  all keys, add one and make it current, the most careful rotation there is in one edit.

Admins, callers and requests are interchangeable; symmetry is used only where no
temporal property other than a step property or a refinement without fairness is
checked.

### Fairness

`RateWindow` assumes that time passes; that the UpdateItems of a call are
worked through or Lambda kills the call; that a caller that was turned away tries
again. `Listing` assumes that each copy of the index goes on catching up, that the
handler goes on with its pages, and that an admin keeps asking; no create,
revocation or failure has to happen, and `EventuallyListed` allows a listing to end in an
error. The code's handlers run to an answer or to the timeout, so nothing more
than their progress is assumed; that DynamoDB answers well is not (a failing
call is an accepted outcome), nor that the TTL process ever runs (it may).

## Proofs

Every theorem is checked by tlapm for all values of the constants.

* `RateWindowProofs`: `TypeCorrect`, `BudgetKept`, `RateKept`,
  `FixedWindowWithoutSweeps`, `PromiseKept`. `BudgetPerWindow` is not inductive:
  an ADD needs to know how much of the present window is spent. `Spent` says that
  what was let through is at most all earlier windows plus the count of the
  present one. `RateBound` needs `Paced`: the earliest time at which so many windows can have been
  installed is tied to `windowEnd`, and, when the item is gone, to the clock
  less the timeout, because the next rollover may use an old reading.
* `MachineClientsProofs`: `TypeCorrect`, `NoRotationLost`, `SecretsAreWritten`,
  `RevocationKept`, `AudiencesKept`, `RevokedRotationRefused`. The invariant says that the rounds are
  the last secrets written, newest first (`Latest`), and that requests carry a
  secret exactly when they write one; a swap that holds has read those very
  rounds, so nothing about the replica is needed. `TurnedAway` adds that a
  request that began after a revocation reaches its swap only by a stale read,
  which rests on revocation being permanent.
* `SessionsProofs`: `TypeCorrect`, `AnswersAreBacked`, `RotationInvalidates`,
  `SessionsSurvive`, `LateRefreshRefused`. `Held`: a token on its way to the
  browser is known to nobody else, so no request can delete it. `Rotating` and
  `Replaced` hold as long as nothing has failed: a handler past its Delete has
  removed its token, and a jar with a dead token has a request past its Delete that
  will bring another.
* `ExchangeProofs`: `ExchangeTypeCorrect`, `TokensAreGone`, `GuessesHeld`.
  `Backed`: an exchange in flight whose read was not stale began no later than the
  record last granted what it read to the secret it was asked with; with the timeout
  and the lifetime this bounds the expiry. `PaidFor`: comparisons, exchanges about to compare and slots that are
  left add up to at most the slots of the windows opened; `OnTime` is the rate of
  the windows.
* `VerdictProofs`: `VerdictsExact`. `Told` is what a request may rely on as long as no
  answer was lost: a secret that is generated but not written belongs to one
  request and is not in the history, so what is in the history was written by
  somebody else; and the rounds a rotation has read are either still there, or
  the history has grown since it began. The swap compares rounds and not
  identities, so the first part is what makes "conflict" mean another's write.
* `ClientRecordProofs`: `SecretsWrittenOnce`, `RecordKept`. `Lasting` is what
  holds whether or not answers are lost. A swap in progress carries a secret that
  comes, in the history, after the newest round it has read (`Before`, in
  `Standing`): once the secret is written the swap's condition fails, however the
  rounds change later, so a repeated write cannot be applied again. `Distinct` and
  `Counted` make a new secret new. Each step of `MachineClients` is then shown to be
  the step of `ClientRecord` it stands for, or to leave it unchanged; that a rotation
  of a client revoked before it began has looked at an older record is `TurnedAway`.
* Also in `ExchangeProofs`: `EntitledAreServed`. With one admin at most one secret is written
  between two deliveries, so the delivered secret is the newest round or the one
  before (`Delivered`); two rounds are therefore enough, for any number of secrets. `WellRead`
  carries this from the read of the record to the comparison.
* `ListingProofs`: `TypeCorrect`, `InOrderAlways`, `NobodyLeftOut`,
  `RevocationsShown`. `Progressing`: in the middle of the loop nothing past
  `startKey` has been listed, and everything up to it that all copies held at the start has. It holds
  although each page may come from another copy, because what a copy holds only
  grows (`HistoryHolds`) and the start key is a key and not a position.
* `KeyRotationProofs`: `TypeCorrect`, `KeptAlwaysVerified`, `FormerKeysRunOut`,
  `EditsReachAll`, `WholeInTheEnd`. None of them assumes anything about the edits. `KeptKnown`: a
  kept key is in every loaded instance and in every cache that is in use; a key becomes
  kept only by an edit that finds the former one settled, and there `Settled` dates
  what is cached and signed: an instance that is not `old` has the keys of the
  parameter (`FreshLoaded`), so a cache with other keys, or a token of another key, is
  from no later than `settled`. `Dated` says that nothing is cached or signed for
  longer than its age from now.

The assumptions are those named in the modules (`RateAssumption`,
`ClientsAssumption`, `SessionsAssumption`, `ExchangeAssumption`,
`ListingAssumption`, `KeysAssumption`): positive limit, duration, lifetime of a machine token,
number of rounds and of clients, bounds that are naturals, `NoMap` not a map, the
key of LOCAL mode none of the operator's.

Only model-checked: `EventuallyServed` and `EventuallyListed` (liveness under
fairness). `FixedWindowRate` is proved in the form "as long as TTL deletes nothing".
Liveness, ENABLED, induction over data and RECURSIVE operators are beyond the
prover used here.

## Where the code and its documents differ

Five runs end in a violation; each is a finding in `PROJECT.json` with the lines.
In short:

1. `ttl` is set once and never moved on (m2m.go 151), so after the first window TTL
   may delete the counter of an active one, although the comments say TTL plays no
   part in correctness.
2. A conditional write that is retried after a lost answer is refused by itself.
3. An eventually consistent GetClient lets an exchange, or a rotation, of a client
   that has been revoked go on; rotation's swap does not compare `active`.
4. The logout's security list offers its cookies as alternatives, so the handler
   never has both the JWT and the refresh token id, and revokes nothing.
5. `src/README.md` 69-77 describes a rotation as one edit and a redeploy. The key
   that is new with the edit signs at once, and services may go on for 3900 s with a key
   set that lacks it (one that asks again for an unknown key may be answered
   from the edge). What does work is to leave the former keys in, and to add a key one
   edit and one cache age before the edit that makes it current: by then it is `Kept`.

Seen, and not the subject of a run:

* A rotation that was written and whose answer was lost uses up a round; the next
  one evicts the secret in use. `EntitledServed` is stated for `lost = 0` because of it.
* The eventually consistent Get of the refresh token store may accept a token that
  has been replaced (`spec/api.yaml` 89). `NoLateRefreshUnlessStale` excludes just that.
* `dynamo/m2m.go` 244 says `ListClients` returns every CLIENT# record; one made as
  `src/README.md` 98-111 describes has no `GSI1PK` and is never listed, and its
  `audience` and `scopes` are not the attributes the code reads. `EventuallyListed` is about the others.
* `m2m/provision.go` 59-60 says scopes cannot be granted later ("revoke + recreate
  instead") while PATCH grants them, and a create of a revoked clientId is refused
  because its record stays.
* `cmd/main.go` 60 logs a graceful shutdown while requests are cut.
* `m2m/service.go` 88-89 says an unknown client fails before any crypto work, and
  line 99 compares against a dummy hash.

## Not modelled

* A promise about the stale Get of the refresh token store ("Seen", above): the code lets
  the replaced token through, and only that it takes a stale read is checked.
* Roles. A refresh mints its access token with the roles stored at login (refresh.go
  51) and the admin list is read at startup; no document says when a change of
  the list takes effect, so there is no promise to check, and the roles are a
  value copied from one token to the next.
* Scopes and the bearer scheme of `openapivalidate.go`, Basic credentials, the
  formats of client ids and audiences: functions of one request with no state and
  no second actor. They appear as the choice between refusal and going on.
* `GET /login/session`, which only reads its own request.
* The order of the two goroutines of the errgroup in `setupApi`: they share only the AWS
  configuration of `sync.Once`, which reading the license key in phase 1 has
  already loaded; in LOCAL mode neither uses it.
* Wording of responses, logging, tracing and its flush, CORS, cookie attributes.
* bcrypt, RSA, the Google validator: libraries, present as a choice to succeed or
  fail. Signing never fails for a valid key, the model lets it.
* `gen.go` (generated), the wiring of `api.go`, deployment files beyond the
  timeout, the TTL attribute, the index and the redeploy.

## Plan

Done: the limiter and the record, each with its abstract specification and the
proof that it is implemented, the verdicts, the list, the exchange, the sessions, key
rotation under arbitrary edits and startup, and proofs of every safety property the
passing runs check.

What remains would add little that is not already stated: an abstract session
(one live token per browser) refined by `Sessions`, which `AnsweredTokenStored`
and `SessionKept` state directly; `Exchange` over `RateWindow` itself instead of the
promise it is proved to keep; and `Listing` composed with `MachineClients`, whose
lost answers and retries change nothing in what an index may show.
