----------------------------- MODULE MCSpawnTree -----------------------------
(* Instances of SpawnTree for TLC.                                          *)
EXTENDS SpawnTree

CONSTANTS main, a1, a2, b1, provider

\* The main session, two subagents, and a subagent of the first.
TreeAgents == {main, a1, a2, b1}
TreeParent == (a1 :> main) @@ (a2 :> main) @@ (b1 :> a1)
TreeBelow == (main :> {a1, a2, b1}) @@ (a1 :> {b1}) @@ (a2 :> {}) @@ (b1 :> {})
TreeRequests == (main :> 2) @@ (a1 :> 1) @@ (a2 :> 1) @@ (b1 :> 1)
NarrowLimits == {1, 2}
=============================================================================
