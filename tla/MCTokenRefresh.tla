---------------------------- MODULE MCTokenRefresh ----------------------------
(* Instances of TokenRefresh for TLC: two callers in one process and one in  *)
(* the other; one caller in each where liveness is checked.                 *)
EXTENDS TokenRefresh, TLC

CONSTANTS pa, pb, c1, c2, d

TwoProcs == {pa, pb}
ThreeCallers == {c1, c2, d}
TwoCallers == {c1, d}
HomesOfThree == [c \in ThreeCallers |-> IF c = d THEN pb ELSE pa]
HomesOfTwo == [c \in TwoCallers |-> IF c = d THEN pb ELSE pa]
AllFaults == {"crash", "giveUp", "stall", "revoke"}
CrashOrGiveUp == {"crash", "giveUp"}
NoFaults == {}

\* The two callers of one process are alike.
Alike == Permutations({c1, c2})
=============================================================================
