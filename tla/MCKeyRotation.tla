---------------------------- MODULE MCKeyRotation ----------------------------
(***************************************************************************)
(* Instances of KeyRotation for TLC.  Tokens live shorter than caches, as  *)
(* in production (300 s and 3900 s), and the clock has room for an edit to *)
(* settle and for another one after it.                                    *)
(***************************************************************************)
EXTENDS KeyRotation, TLC

\* The operator keeps the keys there are, adds one and makes it the current one.
AddsKey ==
  /\ param.keys \subseteq param'.keys
  /\ param'.current \in param'.keys \ param.keys

AddingSpec == Init /\ [][Next /\ (param' # param => AddsKey)]_vars

Symmetry == Permutations(Instances) \cup Permutations(Verifiers)
=============================================================================
