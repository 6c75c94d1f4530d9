--------------------------- MODULE MCFclExecution ---------------------------
(* Constants for the runs of FclExecution. *)
EXTENDS FclExecution, TLC

CONSTANTS olga, carl                    \* an owner and a colleague
CONSTANTS booking, customs

MCUsers == {olga, carl}
MCNodes == {booking, customs}

\* Nobody is responsible yet; the colleague is and gets mail.
MCRoutings ==
    {[responsible |-> None, internal |-> FALSE, external |-> FALSE],
     [responsible |-> carl, internal |-> TRUE, external |-> FALSE]}

\* The claim of the customer, messages settled by a person and documents that
\* are sent change no node: the run looks at one of each, up to version 2, and
\* the runs of ExecutionMail at what becomes of the messages.
ByHand == {i \in DOMAIN outbox :
             i.kind = "documents" \/ outbox[i].resolved + outbox[i].retried > 0}
Early  == (ByHand = {} /\ ~claimed) \/ (Cardinality(ByHand) <= 1 /\ version <= 2)
=============================================================================
