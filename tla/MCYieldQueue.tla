---------------------------- MODULE MCYieldQueue ----------------------------
(* Instances of YieldQueue for TLC.                                         *)
EXTENDS YieldQueue

CONSTANTS j1, x1

OneJob == {j1}
OneExit == {x1}
NoExits == {}
NoJobs == {}

MainBehaviours == {"new", "clear", "dispose", "deadline", "noModel"}
=============================================================================
