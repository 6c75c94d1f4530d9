--------------------------- MODULE MCTokenExchange ---------------------------
(* Bounded instances of TokenExchange. *)
EXTENDS TokenExchange, TLC

CONSTANTS x1

\* PostgreSQL: a credential and its tenant, whose rows exchanges could lock in
\* either order.
TwoBuckets == x1 :> {1, 2}
\* SQLite has one lock whatever the buckets.
OneBucket == x1 :> {1}
==============================================================================
