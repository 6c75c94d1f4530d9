---------------------------- MODULE MCTenantAccess ----------------------------
(* Bounded instances of TenantAccess. *)
EXTENDS TenantAccess, TLC

CONSTANTS k1, k2

\* Calls and the names that are drawn are interchangeable.
AccessSymmetry == Permutations(Calls) \cup Permutations(Credentials)

\* The second key is for credentials to be issued and rotated with: a second
\* call of every other operation repeats the first one or clashes with it.
SecondKeyMints ==
    \A c \in Calls : calls[c].key = k2 => calls[c].request.action \in Minting
===============================================================================
