------------------------------- MODULE MCServer -------------------------------
(***************************************************************************)
(* Constants for the parts of the MCP server process, and for how its state*)
(* is made before it starts.  The parts share the clock and nothing else,  *)
(* so a behaviour is one of a single part, which the first state chooses:  *)
(* together they are what the server can do.                               *)
(***************************************************************************)
EXTENDS Sessions, ToolWrites, ManagedProvider, PluginConfig, StateInitializer, TLC

VARIABLE part

MCBodies == {[enabled |-> TRUE, ends |-> 2], [enabled |-> TRUE, ends |-> 1],
             [enabled |-> FALSE, ends |-> 2]}

\* The names of one part serve in the others, so that one group permutes all.
ServerSymmetry == Permutations(Openers) \cup Permutations(Identities)

\* How far the clock goes in each part.
LastTime == [sessions |-> 1, tools |-> 2, provider |-> 1, configuration |-> 1, initializer |-> 0]

\* One request at a time is one that was given up.
OneGivenUp == Cardinality({r \in Requests : requests[r].aborted}) <= 1

ServerInit ==
    /\ part \in DOMAIN LastTime
    /\ now = 0
    /\ SessionInit /\ ToolInit /\ ConfigInit /\ InitializerInit
    /\ ProviderInit
    /\ part # "provider" => offer = [revision |-> 1, body |-> CHOOSE b \in Bodies : b.enabled]

ServerNext ==
    /\ UNCHANGED part
    /\ \/ part = "sessions" /\ SessionNext /\ UNCHANGED <<toolVars, providerVars, configVars, initializerVars>>
       \/ part = "tools" /\ ToolNext /\ UNCHANGED <<sessionVars, providerVars, configVars, initializerVars>>
       \/ part = "provider" /\ ProviderNext /\ UNCHANGED <<sessionVars, toolVars, configVars, initializerVars>>
       \/ part = "configuration" /\ ConfigNext /\ UNCHANGED <<sessionVars, toolVars, providerVars, initializerVars>>
       \/ part = "initializer" /\ InitializerNext
              /\ UNCHANGED <<sessionVars, toolVars, providerVars, configVars, now>>
    /\ now' <= LastTime[part]

ServerSpec ==
    ServerInit /\ [][ServerNext]_<<part, now, sessionVars, toolVars, providerVars, configVars, initializerVars>>
==============================================================================
