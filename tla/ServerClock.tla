------------------------------ MODULE ServerClock ------------------------------
(***************************************************************************)
(* What the parts of the MCP server share: the clock of the process (every *)
(* part is given Date.now or a clock of its own) and the absent value.     *)
(***************************************************************************)
EXTENDS Integers, FiniteSets

CONSTANTS
    None,
    MaxTime                     \* bound on the clock

VARIABLE now

Times == 0..MaxTime

\* a is not after b, for two numbers.
Earlier(a, b) == IF a < b THEN a ELSE b
==============================================================================
