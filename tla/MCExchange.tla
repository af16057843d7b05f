------------------------------ MODULE MCExchange ------------------------------
(***************************************************************************)
(* Instances of Exchange for TLC.  Each of the two maps lacks the audience *)
(* of the other; where time passes, one audience and the map without any   *)
(* do.  Watched is the first secret.                                       *)
(***************************************************************************)
EXTENDS Exchange, TLC

CONSTANTS shop, games, read, write

TwoAudiences == {shop, games}

Shopping == <<shop, read, 1>>

\* Without what only the action properties look at: the answers, and what a
\* request or an exchange remembers for them.
WithoutAnswers ==
  <<record, replica, generated, inUse,
    [a \in Admins |-> LET q == request[a] IN
                      <<q.pc, q.secret, q.map, q.read, q.verdict = "ok">>],
    [c \in Callers |-> LET e == exchange[c] IN
                       <<e.pc, e.secret, e.audience, e.client, e.began, e.stale,
                         call[c] = "asking">>],
    clock, windows, left, sweeps, compared, granted, expiry>>

TwoMaps == {shop :> read, games :> write}

OneAudience == {shop}

ShopOrNothing == {shop :> read, <<>>}
=============================================================================
