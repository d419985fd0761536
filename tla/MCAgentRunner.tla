---------------------------- MODULE MCAgentRunner ----------------------------
(***************************************************************************)
(* An instance of AgentRunner.  Two upserts of one content, a definition   *)
(* that uses prompt 2 and has agent 2 and itself as sub-agents, and a      *)
(* third that uses prompt 1 and only delegates to agent 2: a later version *)
(* of an agent may name another prompt and fewer sub-agents.  Agents and   *)
(* prompts share their ids.                                                *)
(***************************************************************************)
EXTENDS AgentRunner, TLC

CONSTANTS e1, e2, other

MCSlug     == 1 .. 2
MCEditor   == {e1, e2, other}
MCPromptIn == [e \in MCEditor |-> IF e = other THEN 1 ELSE 2]
MCSubsIn   == [e \in MCEditor |-> IF e = other THEN {2} ELSE {1, 2}]

Symmetry == Permutations({e1, e2}) \cup Permutations(Load)
==============================================================================
