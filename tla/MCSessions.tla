------------------------------ MODULE MCSessions ------------------------------
(***************************************************************************)
(* Instances of Sessions for TLC.  Two requests overlap; three tokens are  *)
(* a login and both outcomes of two refreshes of its token, or a chain of  *)
(* two refreshes.                                                          *)
(***************************************************************************)
EXTENDS Sessions, TLC

Symmetry == Permutations(Requests)
=============================================================================
