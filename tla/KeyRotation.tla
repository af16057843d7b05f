----------------------------- MODULE KeyRotation -----------------------------
(***************************************************************************)
(* The signing keys: from the parameter the operator edits (README.md,     *)
(* "Manual SSM provisioning") through the instances that read it once at   *)
(* startup (run and setupApi of cmd/main.go, cmd/config.go) to the key     *)
(* sets other services fetch from them and cache (cmd/jwks.go, api/jwks.go *)
(* and its Cache-Control).  Lambda starts and stops instances at will, so  *)
(* old and new key sets sign and publish side by side.                     *)
(*                                                                         *)
(* The machine and the user keys go the same way and never mix: this is    *)
(* one of the two sets.  A key stands for its kid.  The operator edits the *)
(* parameter as it pleases and whenever it pleases; the redeploy that      *)
(* follows ends the instances that run, one by one.                        *)
(***************************************************************************)
EXTENDS Integers, FiniteSets

CONSTANTS Keys,       \* kids the operator may use
          FirstKey,
          DevKey,     \* the ephemeral keypair of LOCAL mode
          Instances,  \* processes inside the Lambda runtime
          Verifiers,  \* services that verify tokens
          Lifetime,   \* of a token: token.DefaultMachineTokenLifetime
          CacheAge,   \* max-age and stale-while-revalidate of the key set
          MaxTime     \* bound: the clock

ASSUME KeysAssumption ==
  /\ FirstKey \in Keys
  /\ DevKey \notin Keys
  /\ Lifetime \in Nat
  /\ CacheAge \in Nat
  /\ MaxTime \in Nat

VARIABLES param,    \* the SSM parameter
          instance, \* the processes and the keys they loaded
          cache,    \* the key set each verifier holds
          expiry,   \* when the last token signed by a key expires
          clock,
          old,      \* history: instances started before the last edit
          settled,  \* history: when the last of them was gone
          kept      \* history: keys that were in effect everywhere and that no
                    \* edit since has taken out

edits == <<old, settled, kept>>
vars == <<param, instance, cache, expiry, clock, edits>>

-----------------------------------------------------------------------------
AllKeys == Keys \cup {DevKey}

Off == [pc |-> "off", env |-> "PROD", keys |-> {}, current |-> FirstKey]

Never == -1

Init ==
  /\ param = [keys |-> {FirstKey}, current |-> FirstKey]
  /\ instance = [i \in Instances |-> Off]
  /\ cache = [v \in Verifiers |-> [keys |-> {}, until |-> Never]]
  /\ expiry = [k \in AllKeys |-> Never]
  /\ clock = 0
  /\ old = {}
  /\ settled = 0
  /\ kept = {FirstKey}

Running == {i \in Instances : instance[i].pc # "off"}
Loaded == {i \in Instances : instance[i].pc \in {"wire", "serve"}}
Serving == {i \in Instances : instance[i].pc = "serve"}

Set(i, new) == instance' = [instance EXCEPT ![i] = new]

-----------------------------------------------------------------------------
\* Mutant: LOCAL mode is not refused inside Lambda.
AsAsked(samLocal) == {IF samLocal THEN "LOCAL" ELSE "PROD"}

\* getApiEnvironment: LOCAL is refused inside the Lambda runtime.
Environments(samLocal) == IF samLocal THEN {} ELSE {"PROD"}

\* run begins, with AWS_SAM_LOCAL set or not: the environment, the New Relic
\* license key and telemetry.
Start(i, samLocal) ==
  /\ instance[i].pc = "off"
  /\ \E env \in Environments(samLocal) :
       Set(i, [Off EXCEPT !.pc = "load", !.env = env])
  /\ UNCHANGED <<param, cache, expiry, clock, edits>>

\* Mutant: currentKey is not looked up in keys.
Unchecked(p) == TRUE

\* parseRSAJWTSigningKeysJSON: the current key is one of the keys.
Parses(p) == p.current \in p.keys

\* fetchAppConfig reads the parameter, or LOCAL makes a keypair; the database
\* client of the other goroutine has no state.
Load(i) ==
  /\ instance[i].pc = "load"
  /\ \/ /\ instance[i].env = "PROD"
        /\ Parses(param)
        /\ Set(i, [pc |-> "wire", env |-> "PROD",
                   keys |-> param.keys, current |-> param.current])
     \/ /\ instance[i].env = "LOCAL"
        /\ Set(i, [pc |-> "wire", env |-> "LOCAL",
                   keys |-> {DevKey}, current |-> DevKey])
  /\ UNCHANGED <<param, cache, expiry, clock, edits>>

\* The signers and the key set are built, and ListenAndServe begins.
Serve(i) ==
  /\ instance[i].pc = "wire"
  /\ Set(i, [instance[i] EXCEPT !.pc = "serve"])
  /\ UNCHANGED <<param, cache, expiry, clock, edits>>

\* A step of setupApi fails, the server fails, a signal arrives, or Lambda
\* ends the instance.
Stop(i) ==
  /\ instance[i].pc # "off"
  /\ Set(i, Off)
  /\ old' = old \ {i}
  /\ settled' = IF i \in old THEN clock ELSE settled
  /\ UNCHANGED <<param, cache, expiry, clock, kept>>

\* Mutant: the signer takes the first of the keys.
FirstKid(i) == CHOOSE k \in instance[i].keys : TRUE

Signing(i) == instance[i].current

\* A login, a refresh or an exchange is answered with a signed token.
Sign(i) ==
  /\ instance[i].pc = "serve"
  /\ expiry' = [expiry EXCEPT ![Signing(i)] = clock + Lifetime]
  /\ UNCHANGED <<param, instance, cache, clock, edits>>

\* Mutant: only the signing key is published.
CurrentOnly(i) == {instance[i].current}

\* keypairJWKS: every key that was loaded.
Published(i) == instance[i].keys

\* Mutant: a cache counts the age from when it first uses the answer.
UntilUsed(age) == clock + age + 1

Until(age) == clock + age

\* GET /login/.well-known/jwks.json, kept as its Cache-Control allows.
Fetch(v, i) ==
  /\ instance[i].pc = "serve"
  /\ cache' = [cache EXCEPT ![v] = [keys |-> Published(i), until |-> Until(CacheAge)]]
  /\ UNCHANGED <<param, instance, expiry, clock, edits>>

-----------------------------------------------------------------------------
\* The redeploy is over, and wait has passed since.
SettledFor(wait) == old = {} /\ clock > settled + wait

\* The keys that every instance and every cache in use has.
Kept == IF SettledFor(CacheAge) THEN param.keys ELSE kept

\* Any edit of the parameter: keys come, go and change places in one go, and the
\* current key may be lost.  The redeploy that follows stops what runs now.
Edit(new) ==
  /\ new # param
  /\ param' = new
  /\ old' = Running
  /\ settled' = clock
  /\ kept' = Kept \cap new.keys
  /\ UNCHANGED <<instance, cache, expiry, clock>>

Tick ==
  /\ clock < MaxTime
  /\ clock' = clock + 1
  /\ UNCHANGED <<param, instance, cache, expiry, edits>>

InstanceStep(i) ==
  \/ \E samLocal \in BOOLEAN : Start(i, samLocal)
  \/ Load(i) \/ Serve(i) \/ Stop(i) \/ Sign(i)
  \/ \E v \in Verifiers : Fetch(v, i)

OperatorStep ==
  \E keys \in SUBSET Keys, current \in Keys : Edit([keys |-> keys, current |-> current])

Next == (\E i \in Instances : InstanceStep(i)) \/ OperatorStep \/ Tick

Spec == Init /\ [][Next]_vars

-----------------------------------------------------------------------------
Times == Nat \cup {Never}

\* The parameter, the processes and the caches keep their shape; in particular
\* no process inside Lambda ever has the keys of LOCAL mode.
TypeOK ==
  /\ param \in [keys : SUBSET Keys, current : Keys]
  /\ instance \in [Instances -> [pc : {"off", "load", "wire", "serve"},
                                 env : {"PROD"}, keys : SUBSET Keys, current : Keys]]
  /\ cache \in [Verifiers -> [keys : SUBSET Keys, until : Times]]
  /\ expiry \in [AllKeys -> Times]
  /\ clock \in Nat
  /\ old \subseteq Running
  /\ settled \in Nat
  /\ kept \subseteq Keys

Unexpired(k) == clock <= expiry[k]
Usable(v) == clock <= cache[v].until

Verified(k) == \A v \in Verifiers : Usable(v) => k \in cache[v].keys
Accepted(k) == \A i \in Serving : k \in instance[i].keys

\* A token that has not expired is verified by every service with the key set it
\* holds: "every other service verifies with public keys fetched from the JWKS
\* endpoint", and a rotation is an edit and a redeploy (README.md 68-70, 74-77).
Verifiable == \A k \in AllKeys : Unexpired(k) => Verified(k)

\* A key that was in effect everywhere is known to every service and accepted by
\* every instance for as long as no edit takes it out of the parameter, whatever
\* else the edits do and however instances of all ages publish side by side: a
\* rotation that leaves the former key in breaks none of its tokens (keypairJWKS,
\* UserTokens in api/api.go).
KeptVerified == \A k \in Kept : Unexpired(k) => Verified(k) /\ Accepted(k)

\* Lifetime after a redeploy is over only the current key of the edit has tokens
\* that are valid: instances that read the parameter before, or as it was
\* between two edits, have not signed since (fetchProdAppConfig at startup only).
FormerKeysSilent ==
  SettledFor(Lifetime) => \A k \in AllKeys : Unexpired(k) => k = param.current

\* CacheAge after a redeploy is over every service uses exactly the keys of the
\* edit: a new key is known and a dropped one is accepted nowhere.
EditReachesAll ==
  SettledFor(CacheAge) =>
    \A v \in Verifiers : Usable(v) => cache[v].keys = param.keys

\* What an edit in the wrong order breaks is whole again once the redeploy is over
\* and the caches and tokens from before have run out: each token is verified by
\* every service and accepted by every instance.  An edit that loses the current
\* key does not break it either, since no instance starts on it.
WholeOnceSettled ==
  SettledFor(CacheAge) /\ SettledFor(Lifetime) =>
    \A k \in AllKeys : Unexpired(k) => Verified(k) /\ Accepted(k)
=============================================================================
