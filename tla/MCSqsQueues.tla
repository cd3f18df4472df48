----------------------------- MODULE MCSqsQueues -----------------------------
(* An instance of SqsQueues for TLC. *)
EXTENDS SqsQueues, TLC

CONSTANTS h1, h2, orders, k1, k2, k3

MCTwoHandlers == {h1, h2}
MCOneName == {orders}
MCThreeKeys == {k1, k2, k3}

MCSymmetry == Permutations({h1, h2}) \union Permutations({k1, k2, k3})
================================================================================
