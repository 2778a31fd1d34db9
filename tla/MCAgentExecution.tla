-------------------------- MODULE MCAgentExecution --------------------------
(* Small instances of AgentExecution.                                      *)
EXTENDS AgentExecution, TLC

\* Runner processes differ only in their ids.
RunnerSymmetry == Permutations(Runners)
=============================================================================
