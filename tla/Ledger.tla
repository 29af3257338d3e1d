-------------------------------- MODULE Ledger --------------------------------
(***************************************************************************)
(* What a producer of background completions is promised about an item it  *)
(* submits (YieldQueue.enqueueWithReceipt): the item is told to the model  *)
(* at most once, the receipt says truthfully whether it was, and only an   *)
(* item that was handed back untold may be submitted again.                *)
(***************************************************************************)
CONSTANT Items

VARIABLE fate

Init == fate = [i \in Items |-> "none"]

Submit(i) ==
    /\ fate[i] \in {"none", "returned"}
    /\ fate' = [fate EXCEPT ![i] = "pending"]

\* A producer whose session is gone gets its item back at once.
Refuse(i) ==
    /\ fate[i] = "none"
    /\ fate' = [fate EXCEPT ![i] = "returned"]

\* One batch: some items are told, others handed back.
Settle(told, returned) ==
    /\ \A i \in told \union returned : fate[i] = "pending"
    /\ fate' = [i \in Items |-> IF i \in told THEN "told"
                                ELSE IF i \in returned THEN "returned" ELSE fate[i]]

Next ==
    \/ \E i \in Items : Submit(i) \/ Refuse(i)
    \/ \E told, returned \in SUBSET Items : Settle(told, returned)

Spec == Init /\ [][Next]_fate
=============================================================================
