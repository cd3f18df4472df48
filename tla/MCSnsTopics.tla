----------------------------- MODULE MCSnsTopics -----------------------------
(* Instances of SnsTopics for TLC. *)
EXTENDS SnsTopics, TLC

CONSTANTS h1, h2, alerts, k1, k2

MCOneHandler == {h1}
MCTwoHandlers == {h1, h2}
MCOneName == {alerts}
MCTwoKeys == {k1, k2}

MCSymmetry ==
  Permutations({h1, h2})
    \union Permutations({k1, k2})
================================================================================
