----------------------------- MODULE MCRateWindow -----------------------------
(***************************************************************************)
(* Instances of RateWindow for TLC.  Duration 2 and RequestTimeout 1 keep  *)
(* the production order (60 s and 10 s): a stale clock reading is older    *)
(* than the table by less than a window.  Limit 2 leaves a slot to the     *)
(* ADD; two callers and one retry contest it, and go over the limit.       *)
(***************************************************************************)
EXTENDS RateWindow
=============================================================================
