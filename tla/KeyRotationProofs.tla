-------------------------- MODULE KeyRotationProofs --------------------------
(***************************************************************************)
(* Proofs about KeyRotation for any keys, instances and verifiers, any     *)
(* Lifetime and CacheAge, and any edits.  The inductive invariant says     *)
(* that a kept key is in the parameter, in every instance that loaded and  *)
(* in every cache in use, and what one may conclude once the instances     *)
(* from before the last edit are gone.                                     *)
(***************************************************************************)
EXTENDS KeyRotation, TLAPS

\* A key is known wherever a token of it may be judged.
Known(k) ==
  /\ k \in param.keys
  /\ \A i \in Loaded : k \in instance[i].keys
  /\ \A v \in Verifiers : Usable(v) => k \in cache[v].keys

KeptKnown == \A k \in kept : Known(k)

\* An instance started after the last edit has what it says, and it parses.
FreshLoaded ==
  \A i \in Loaded \ old :
    /\ instance[i].keys = param.keys
    /\ instance[i].current = param.current
    /\ param.current \in param.keys

\* Nothing is dated further ahead than the code dates it.
Dated ==
  /\ settled <= clock
  /\ \A v \in Verifiers : cache[v].until <= clock + CacheAge
  /\ \A k \in AllKeys : expiry[k] <= clock + Lifetime

\* Once the redeploy is over only the keys of the edit are given out and only its
\* current key signs.
Settled ==
  old = {} =>
    /\ \A v \in Verifiers : cache[v].until > settled + CacheAge => cache[v].keys = param.keys
    /\ \A k \in AllKeys : expiry[k] > settled + Lifetime =>
         k = param.current /\ k \in param.keys

IInv == TypeOK /\ KeptKnown /\ FreshLoaded /\ Dated /\ Settled

-----------------------------------------------------------------------------
LEMMA InitOK == ASSUME Init PROVE IInv
<1>1. TypeOK
  BY KeysAssumption DEF Init, TypeOK, Off, Running, Times, Never, AllKeys
<1>2. Loaded = {} /\ clock = 0 /\ settled = 0 /\ kept = param.keys
  BY DEF Init, Loaded, Off
<1>3. \A k \in AllKeys : expiry[k] = -1
  BY DEF Init, Never
<1>4. \A v \in Verifiers : ~Usable(v) /\ cache[v].until = -1
  BY DEF Init, Usable, Never
<1>5. KeptKnown /\ FreshLoaded
  BY <1>2, <1>4 DEF KeptKnown, Known, FreshLoaded
<1>6. Dated /\ Settled
  BY <1>2, <1>3, <1>4, KeysAssumption DEF Dated, Settled
<1> QED BY <1>1, <1>5, <1>6 DEF IInv

\* A step of one process that changes neither the parameter nor the clock, and
\* after which the instance has loaded nothing, what it had, or the parameter.
LEMMA ProcessStep ==
  ASSUME IInv, NEW i \in Instances, NEW new, Set(i, new),
         new \in [pc : {"off", "load", "wire", "serve"}, env : {"PROD"},
                  keys : SUBSET Keys, current : Keys],
         new.pc \in {"wire", "serve"} =>
           \/ i \in Loaded /\ new.keys = instance[i].keys /\ new.current = instance[i].current
           \/ /\ new.keys = param.keys /\ new.current = param.current
              /\ param.current \in param.keys,
         new.pc # "off" \/ i \notin old,
         UNCHANGED <<param, cache, expiry, clock, edits>>
  PROVE  IInv'
<1>1. /\ instance' = [instance EXCEPT ![i] = new]
      /\ instance'[i] = new
      /\ \A j \in Instances : j # i => instance'[j] = instance[j]
      /\ UNCHANGED <<old, settled, kept>>
  BY DEF Set, IInv, TypeOK, edits
<1>2. \A j \in Loaded' : \/ j \in Loaded /\ instance'[j].keys = instance[j].keys
                                         /\ instance'[j].current = instance[j].current
                         \/ j = i /\ instance'[j].keys = param.keys
                                  /\ instance'[j].current = param.current
                                  /\ param.current \in param.keys
  BY <1>1 DEF Loaded
<1>3. TypeOK'
  BY <1>1 DEF IInv, TypeOK, Running
<1>4. KeptKnown'
  BY <1>1, <1>2 DEF IInv, KeptKnown, Known, Usable
<1>5. FreshLoaded'
  BY <1>1, <1>2 DEF IInv, FreshLoaded
<1>6. Dated' /\ Settled'
  BY <1>1 DEF IInv, Dated, Settled
<1> QED BY <1>3, <1>4, <1>5, <1>6 DEF IInv

LEMMA StartStep ==
  ASSUME IInv, NEW i \in Instances, NEW samLocal \in BOOLEAN, Start(i, samLocal)
  PROVE  IInv'
<1>1. /\ Set(i, [Off EXCEPT !.pc = "load", !.env = "PROD"])
      /\ UNCHANGED <<param, cache, expiry, clock, edits>>
  BY DEF Start, Environments
<1> QED BY <1>1, ProcessStep, KeysAssumption DEF Off

LEMMA LoadStep == ASSUME IInv, NEW i \in Instances, Load(i) PROVE IInv'
<1> DEFINE new == [pc |-> "wire", env |-> "PROD",
                   keys |-> param.keys, current |-> param.current]
<1>1. /\ Set(i, new) /\ param.current \in param.keys
      /\ UNCHANGED <<param, cache, expiry, clock, edits>>
  BY DEF Load, Parses, IInv, TypeOK
<1>2. new \in [pc : {"off", "load", "wire", "serve"}, env : {"PROD"},
               keys : SUBSET Keys, current : Keys]
  BY DEF IInv, TypeOK
<1>3. new.pc = "wire" /\ new.keys = param.keys /\ new.current = param.current
  OBVIOUS
<1> HIDE DEF new
<1> QED BY <1>1, <1>2, <1>3, ProcessStep

LEMMA ServeStep == ASSUME IInv, NEW i \in Instances, Serve(i) PROVE IInv'
<1> DEFINE new == [instance[i] EXCEPT !.pc = "serve"]
<1>1. /\ Set(i, new) /\ i \in Loaded
      /\ UNCHANGED <<param, cache, expiry, clock, edits>>
  BY DEF Serve, Loaded
<1>2. new \in [pc : {"off", "load", "wire", "serve"}, env : {"PROD"},
               keys : SUBSET Keys, current : Keys]
  BY DEF IInv, TypeOK
<1>3. new.pc = "serve" /\ new.keys = instance[i].keys /\ new.current = instance[i].current
  BY DEF IInv, TypeOK
<1> HIDE DEF new
<1> QED BY <1>1, <1>2, <1>3, ProcessStep

LEMMA StopStep == ASSUME IInv, NEW i \in Instances, Stop(i) PROVE IInv'
<1>1. /\ instance' = [instance EXCEPT ![i] = Off]
      /\ old' = old \ {i}
      /\ settled' = IF i \in old THEN clock ELSE settled
      /\ UNCHANGED <<param, cache, expiry, clock, kept>>
  BY DEF Stop, Set
<1>2. /\ Loaded' = Loaded \ {i} /\ Running' = Running \ {i}
      /\ \A j \in Instances : j # i => instance'[j] = instance[j]
  BY <1>1 DEF Loaded, Running, Off, IInv, TypeOK
<1>3. TypeOK'
  BY <1>1, <1>2, KeysAssumption DEF IInv, TypeOK, Off
<1>4. KeptKnown'
  BY <1>1, <1>2 DEF IInv, KeptKnown, Known, Usable, Loaded
<1>5. FreshLoaded'
  BY <1>1, <1>2 DEF IInv, FreshLoaded, Loaded
<1>6. Dated'
  BY <1>1 DEF IInv, Dated, TypeOK
<1>7. Settled'
  <2>1. CASE i \in old
    <3>1. settled' = clock
      BY <1>1, <2>1
    <3>2. \A v \in Verifiers : ~(cache[v].until > clock + CacheAge)
      BY KeysAssumption DEF IInv, Dated, TypeOK, Times, Never
    <3>3. \A k \in AllKeys : ~(expiry[k] > clock + Lifetime)
      BY KeysAssumption DEF IInv, Dated, TypeOK, Times, Never
    <3> QED BY <1>1, <3>1, <3>2, <3>3 DEF Settled
  <2>2. CASE i \notin old
    BY <1>1, <1>2, <2>2 DEF IInv, Settled
  <2> QED BY <2>1, <2>2
<1> QED BY <1>3, <1>4, <1>5, <1>6, <1>7 DEF IInv

LEMMA SignStep == ASSUME IInv, NEW i \in Instances, Sign(i) PROVE IInv'
<1> DEFINE k == instance[i].current
<1>1. /\ expiry' = [expiry EXCEPT ![k] = clock + Lifetime]
      /\ i \in Loaded /\ k \in Keys
      /\ UNCHANGED <<param, instance, cache, clock, old, settled, kept>>
  BY DEF Sign, Signing, Loaded, IInv, TypeOK, edits
<1>2. \A j \in AllKeys : expiry'[j] = IF j = k THEN clock + Lifetime ELSE expiry[j]
  BY <1>1 DEF IInv, TypeOK
<1>3. TypeOK'
  <2>1. clock + Lifetime \in Times
    BY KeysAssumption DEF IInv, TypeOK, Times
  <2> QED BY <1>1, <2>1 DEF IInv, TypeOK, Running
<1>4. Loaded' = Loaded
  BY <1>1 DEF Loaded
<1>5. KeptKnown' /\ FreshLoaded'
  BY <1>1, <1>4 DEF IInv, KeptKnown, Known, Usable, FreshLoaded
<1>6. Dated'
  BY <1>1, <1>2, KeysAssumption DEF IInv, TypeOK, Dated
<1>7. Settled'
  <2>1. old = {} => k = param.current /\ k \in param.keys
    BY <1>1 DEF IInv, FreshLoaded
  <2> QED BY <1>1, <1>2, <2>1 DEF IInv, Settled
<1> QED BY <1>3, <1>5, <1>6, <1>7 DEF IInv

LEMMA FetchStep ==
  ASSUME IInv, NEW i \in Instances, NEW v \in Verifiers, Fetch(v, i)
  PROVE  IInv'
<1> DEFINE new == [keys |-> instance[i].keys, until |-> clock + CacheAge]
<1>1. /\ cache' = [cache EXCEPT ![v] = new]
      /\ i \in Loaded
      /\ UNCHANGED <<param, instance, expiry, clock, old, settled, kept>>
  BY DEF Fetch, Published, Until, Loaded, edits
<1>2. \A w \in Verifiers : cache'[w] = IF w = v THEN new ELSE cache[w]
  BY <1>1 DEF IInv, TypeOK
<1>3. TypeOK'
  <2>1. new \in [keys : SUBSET Keys, until : Times]
    BY KeysAssumption DEF IInv, TypeOK, Times
  <2> QED BY <1>1, <2>1 DEF IInv, TypeOK, Running
<1>4. Loaded' = Loaded
  BY <1>1 DEF Loaded
<1>5. KeptKnown'
  BY <1>1, <1>2, <1>4 DEF IInv, KeptKnown, Known, Usable
<1>6. FreshLoaded'
  BY <1>1, <1>4 DEF IInv, FreshLoaded
<1>7. Dated'
  BY <1>1, <1>2, KeysAssumption DEF IInv, TypeOK, Dated
<1>8. Settled'
  <2>1. old = {} => instance[i].keys = param.keys
    BY <1>1 DEF IInv, FreshLoaded
  <2> QED BY <1>1, <1>2, <2>1 DEF IInv, Settled
<1> QED BY <1>3, <1>5, <1>6, <1>7, <1>8 DEF IInv

-----------------------------------------------------------------------------
\* What every instance, every cache in use and every valid token has once an edit
\* has settled.
LEMMA SettledInstances ==
  ASSUME IInv, old = {}
  PROVE  \A i \in Loaded : instance[i].keys = param.keys
BY DEF IInv, FreshLoaded

LEMMA SettledCaches ==
  ASSUME IInv, SettledFor(CacheAge)
  PROVE  \A v \in Verifiers : Usable(v) => cache[v].keys = param.keys
<1> SUFFICES ASSUME NEW v \in Verifiers, Usable(v) PROVE cache[v].keys = param.keys
  OBVIOUS
<1>1. cache[v].until > settled + CacheAge
  BY KeysAssumption DEF IInv, TypeOK, SettledFor, Usable, Times, Never
<1> QED BY <1>1 DEF IInv, Settled, SettledFor

LEMMA SettledTokens ==
  ASSUME IInv, SettledFor(Lifetime), NEW k \in AllKeys, Unexpired(k)
  PROVE  k = param.current /\ k \in param.keys
<1>1. expiry[k] > settled + Lifetime
  BY KeysAssumption DEF IInv, TypeOK, SettledFor, Unexpired, Times, Never
<1> QED BY <1>1 DEF IInv, Settled, SettledFor

LEMMA AllKeptKnown == ASSUME IInv PROVE \A k \in Kept : Known(k)
<1>1. CASE SettledFor(CacheAge)
  <2>1. old = {} /\ Kept = param.keys
    BY <1>1 DEF SettledFor, Kept
  <2> QED BY <1>1, <2>1, SettledInstances, SettledCaches DEF Known
<1>2. CASE ~SettledFor(CacheAge)
  BY <1>2 DEF Kept, IInv, KeptKnown
<1> QED BY <1>1, <1>2

\* Any edit: what was kept and stays in the parameter is still known, and
\* nothing has settled yet.
LEMMA EditStep ==
  ASSUME IInv, NEW keys \in SUBSET Keys, NEW current \in Keys,
         Edit([keys |-> keys, current |-> current])
  PROVE  IInv'
<1>1. /\ param' = [keys |-> keys, current |-> current]
      /\ old' = Running /\ settled' = clock /\ kept' = Kept \cap keys
      /\ UNCHANGED <<instance, cache, expiry, clock>>
  BY DEF Edit
<1>2. Loaded' = Loaded /\ Running' = Running /\ Loaded \subseteq old' /\ param'.keys = keys
  BY <1>1 DEF Loaded, Running
<1>3. TypeOK'
  BY <1>1, <1>2 DEF IInv, TypeOK
<1>4. KeptKnown'
  BY <1>1, <1>2, AllKeptKnown DEF KeptKnown, Known, Usable
<1>5. FreshLoaded'
  BY <1>1, <1>2 DEF FreshLoaded
<1>6. Dated'
  BY <1>1 DEF IInv, Dated, TypeOK
<1>7. Settled'
  <2>1. \A v \in Verifiers : ~(cache[v].until > clock + CacheAge)
    BY KeysAssumption DEF IInv, Dated, TypeOK, Times, Never
  <2>2. \A k \in AllKeys : ~(expiry[k] > clock + Lifetime)
    BY KeysAssumption DEF IInv, Dated, TypeOK, Times, Never
  <2> QED BY <1>1, <2>1, <2>2 DEF Settled
<1> QED BY <1>3, <1>4, <1>5, <1>6, <1>7 DEF IInv

LEMMA TickStep == ASSUME IInv, Tick PROVE IInv'
<1>1. /\ clock' = clock + 1
      /\ UNCHANGED <<param, instance, cache, expiry, old, settled, kept>>
  BY DEF Tick, edits
<1>2. Loaded' = Loaded /\ Running' = Running
  BY <1>1 DEF Loaded, Running
<1>3. TypeOK'
  BY <1>1, <1>2 DEF IInv, TypeOK
<1>4. \A v \in Verifiers : Usable(v)' => Usable(v)
  BY <1>1 DEF IInv, TypeOK, Usable, Times, Never
<1>5. KeptKnown'
  BY <1>1, <1>2, <1>4 DEF IInv, KeptKnown, Known
<1>6. FreshLoaded' /\ Settled'
  BY <1>1, <1>2 DEF IInv, FreshLoaded, Settled
<1>7. Dated'
  BY <1>1, KeysAssumption DEF IInv, TypeOK, Dated, Times, Never
<1> QED BY <1>3, <1>5, <1>6, <1>7 DEF IInv

LEMMA Inductive == ASSUME IInv, [Next]_vars PROVE IInv'
<1>1. CASE UNCHANGED vars
  <2>1. Loaded' = Loaded /\ UNCHANGED <<old, settled, kept>>
    BY <1>1 DEF vars, edits, Loaded
  <2>2. KeptKnown' /\ FreshLoaded' /\ Dated' /\ Settled'
    BY <1>1, <2>1 DEF vars, IInv, KeptKnown, Known, Usable, FreshLoaded, Dated, Settled
  <2> QED BY <1>1, <2>1, <2>2 DEF vars, IInv, TypeOK, Running
<1>2. CASE \E i \in Instances : InstanceStep(i)
  BY <1>2, StartStep, LoadStep, ServeStep, StopStep, SignStep, FetchStep DEF InstanceStep
<1>3. CASE OperatorStep
  BY <1>3, EditStep DEF OperatorStep
<1>4. CASE Tick
  BY <1>4, TickStep
<1> QED BY <1>1, <1>2, <1>3, <1>4 DEF Next

THEOREM Invariance == Spec => []IInv
<1>1. Init => IInv
  BY InitOK
<1>2. IInv /\ [Next]_vars => IInv'
  BY Inductive
<1> QED BY <1>1, <1>2, PTL DEF Spec

-----------------------------------------------------------------------------
\* The parameter, the processes and the caches keep their shape, and no process
\* inside Lambda has the keys of LOCAL mode.
THEOREM TypeCorrect == Spec => []TypeOK
<1>1. IInv => TypeOK
  BY DEF IInv
<1> QED BY <1>1, Invariance, PTL

\* A key that was in effect everywhere and stays in the parameter is known to
\* every service and instance, whatever the edits do besides.
THEOREM KeptAlwaysVerified == Spec => []KeptVerified
<1>1. IInv => KeptVerified
  BY AllKeptKnown DEF KeptVerified, Known, Verified, Accepted, Serving, Loaded
<1> QED BY <1>1, Invariance, PTL

\* Lifetime after a redeploy is over only the current key of the edit has valid
\* tokens.
THEOREM FormerKeysRunOut == Spec => []FormerKeysSilent
<1>1. IInv => FormerKeysSilent
  BY SettledTokens DEF FormerKeysSilent
<1> QED BY <1>1, Invariance, PTL

\* CacheAge after a redeploy is over every service uses the keys of the edit.
THEOREM EditsReachAll == Spec => []EditReachesAll
<1>1. IInv => EditReachesAll
  BY SettledCaches DEF EditReachesAll
<1> QED BY <1>1, Invariance, PTL

\* Once a redeploy is over and the caches and tokens from before have run out,
\* every token is verified and accepted everywhere, whatever the edits were.
THEOREM WholeInTheEnd == Spec => []WholeOnceSettled
<1>1. IInv => WholeOnceSettled
  BY SettledInstances, SettledCaches, SettledTokens
    DEF WholeOnceSettled, SettledFor, Verified, Accepted, Serving, Loaded
<1> QED BY <1>1, Invariance, PTL
=============================================================================
