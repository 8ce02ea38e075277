------------------------------- MODULE MCStores -------------------------------
(***************************************************************************)
(* The three stores beside the session store, checked in one run.  They    *)
(* share no state: a behaviour picks one of them, and the others keep      *)
(* their initial state.  ProductState is taken in two parts, the commands  *)
(* of any client and the MCP connections.                                  *)
(***************************************************************************)
EXTENDS EventDedupe, SandboxLease, ProductState, TLC

CONSTANT LinkTime  \* bound: the clock while the connections are followed

VARIABLE focus

mcVars == <<focus, dedupeVars, sandboxVars, stateVars>>

MCInit ==
    /\ focus \in {"dedupe", "sandbox", "commands", "links"}
    /\ DedupeInit /\ SandboxInit /\ StateInit
    /\ focus # "dedupe" => durable

LinksNext ==
    \/ \E l \in Links :
          \/ Connect(l) \/ Operate(l) \/ RemoteEvent(l) \/ Returned(l) \/ Saved(l) \/ Disconnect(l)
    \/ stateTime < LinkTime /\ PassTime

CommandsNext ==
    \/ \E k \in StateKeys, v \in Values, i \in CommandIds,
          expected \in 0..MaxWrites, now \in 0..stateTime :
             Command(k, v, expected, <<i>>, now)
    \/ PassTime

MCNext ==
    /\ \/ focus = "dedupe" /\ DedupeNext /\ UNCHANGED <<sandboxVars, stateVars>>
       \/ focus = "sandbox" /\ SandboxNext /\ UNCHANGED <<dedupeVars, stateVars>>
       \/ focus = "commands" /\ CommandsNext /\ UNCHANGED <<dedupeVars, sandboxVars>>
       \/ focus = "links" /\ LinksNext /\ UNCHANGED <<dedupeVars, sandboxVars>>
    /\ UNCHANGED focus

MCSpec == MCInit /\ [][MCNext]_mcVars

\* Tasks and connections are interchangeable.
Symmetric == Permutations(Tasks) \cup Permutations(Links)
==============================================================================
