----------------------------- MODULE MCSnsPublish -----------------------------
(* Instances of SnsPublish for TLC. *)
EXTENDS SnsPublish

CONSTANTS h1, orders, audit

MCOneHandler == {h1}
MCTwoNames == {orders, audit}

MCAllConfigs ==
  [policy : {"allows", "refuses"}, fits : BOOLEAN]
    \union {[policy |-> "invalid", fits |-> TRUE]}
================================================================================
