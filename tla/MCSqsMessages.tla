---------------------------- MODULE MCSqsMessages ----------------------------
(* Instances of SqsMessages for TLC. *)
EXTENDS SqsMessages, TLC

CONSTANTS m1, m2, h1, h2

MCOneMessage == {m1}
MCTwoMessages == {m1, m2}
MCTwoHandlers == {h1, h2}

MCHandlerSymmetry == Permutations({h1, h2})

MCSkews == {-1, 0, 1}
================================================================================
