--------------------------- MODULE MCSpendLedger ----------------------------
(* SpendLedger on a small instance: one request at a time in each process. *)
EXTENDS SpendLedger, TLC

CONSTANTS p1, p2

MCSlots == {<<p1, 1>>, <<p2, 1>>}
MCLimit == [exceeded |-> Budget, warning |-> 1]
MCKeyAt == [d \in 0..MaxDay |-> d]   \* A daily budget.

Interchangeable == Permutations(Processes)
=============================================================================
