------------------------------ MODULE MCListing ------------------------------
(***************************************************************************)
(* An instance of Listing for TLC.  Three clients of the API give a page   *)
(* in the middle of the list, before and after the record made by hand;    *)
(* two copies of the index give pages that disagree.                       *)
(***************************************************************************)
EXTENDS Listing

=============================================================================
