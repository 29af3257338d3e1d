-------------------------- MODULE MCAgentLifecycle --------------------------
(* Instances of AgentLifecycle for TLC. *)
EXTENDS AgentLifecycle, TLC

\* Refs, sessions, callers and killers are told apart by nothing but what they
\* do.
ObjectSymmetry ==
    Permutations(Refs) \union Permutations(Sessions) \union Permutations(Callers)
    \union Permutations(Releasers \ {Teardown})
=============================================================================
