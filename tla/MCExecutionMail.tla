--------------------------- MODULE MCExecutionMail ---------------------------
(* Constants for the run of ExecutionMail: one node, one way to configure it. *)
EXTENDS ExecutionMail

CONSTANTS olga, carl, customs, w1, w2

\* Notices inside the house.
MCInside == {[responsible |-> olga, internal |-> TRUE, external |-> FALSE]}

\* The execution starts, with a second notice to the customer, when the first
\* one has no attempt and no resolution left, so that the second waits behind it.
SecondBehindExhausted == version' # version => Exhausted(Name(0, None, "customer"))
=============================================================================
