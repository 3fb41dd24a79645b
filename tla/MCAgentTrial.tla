---------------------------- MODULE MCAgentTrial ----------------------------
(***************************************************************************)
(* Two trials, one per policy mode, of at most two turns and two calls; the *)
(* model may propose a permitted call to the server under audit and a      *)
(* write through a controlled tool that needs approval.                    *)
(***************************************************************************)
EXTENDS AgentTrial

CONSTANTS search, write, listed, drifted

MCRules == [t \in {search, write} |-> IF t = search THEN "allowed"
                                      ELSE "requires_approval"]
MCCalls == {[tool |-> search, matches |-> TRUE],
            [tool |-> write, matches |-> TRUE]}
MCTargetTools == {search}
MCCatalogs == {listed, drifted}
MCPolicyModes == <<"observe", "enforce">>

=============================================================================
