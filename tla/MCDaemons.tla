------------------------------ MODULE MCDaemons ------------------------------
(* Instances of Daemons for TLC.                                            *)
EXTENDS Daemons, TLC

CONSTANTS h1, h2

TwoRequests == {h1, h2}
Serialized == {}
RestartRace == {"restartRace"}
StartRace == {"startRace"}
SlowOpen == {"slowOpen"}
LateStart == {"lateStart"}
RequestSymmetry == Permutations(TwoRequests)
=============================================================================
