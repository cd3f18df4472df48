------------------------------- MODULE MCTraces -------------------------------
(* An instance of Traces for TLC. *)
EXTENDS Traces

CONSTANTS r1

MCOneRequest == {r1}

\* One subscription.
MCDeliveryOf == [evaluate |-> "deliver"]

\* By service and action; a status that is neither ok nor error does not filter.
MCQueries == {[service |-> "sns", action |-> "sns", status |-> "else"]}
================================================================================
