------------------------------ MODULE MCWorkPool ------------------------------
(* Instances of WorkPool for TLC.                                           *)
EXTENDS WorkPool

\* The least bounds that let items wait in every queue: more items than workers.
ThreeItems == 3
TwoWorkers == 2
OneWait == 1
=============================================================================
