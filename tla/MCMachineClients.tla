--------------------------- MODULE MCMachineClients ---------------------------
(***************************************************************************)
(* Instances of MachineClients for TLC.  Four secrets are one create and   *)
(* three rotations: one more than it takes to push a secret out of the     *)
(* record.                                                                 *)
(***************************************************************************)
EXTENDS MachineClients, TLC

\* inUse is read by the exchange alone: no guard here and no property of these
\* runs looks at it.
WithoutInUse == <<record, replica, request, generated, lost, history>>

Symmetry == Permutations(Admins) \cup Permutations(Maps)
=============================================================================
