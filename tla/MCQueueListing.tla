---------------------------- MODULE MCQueueListing ----------------------------
(* An instance of QueueListing for TLC. *)
EXTENDS QueueListing

CONSTANT h1

MCPrefixSets == {Names, {1, 3}}
================================================================================
