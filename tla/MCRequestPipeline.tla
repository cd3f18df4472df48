-------------------------- MODULE MCRequestPipeline --------------------------
(* An instance of RequestPipeline for TLC. *)
EXTENDS RequestPipeline, TLC

CONSTANTS ann, bob, p1, h1, c1

MCUserNames == {ann, bob}
MCPolicyNames == {p1}
MCHandlers == {h1}
MCClients == {c1}
UserSymmetry == Permutations(MCUserNames)
================================================================================
