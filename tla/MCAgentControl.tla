---------------------------- MODULE MCAgentControl ----------------------------
(***************************************************************************)
(* A small instance of AgentControl: one socket carries one Agent, the     *)
(* other both, as the CLI does, one process per verb.                      *)
(***************************************************************************)
EXTENDS AgentControl

CONSTANTS a, b, s1, s2

OneAndBoth == [s \in {s1, s2} |-> IF s = s1 THEN {a} ELSE {a, b}]

===============================================================================
