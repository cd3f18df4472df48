------------------------------ MODULE LeaseQueue ------------------------------
(***************************************************************************)
(* What an SQS queue promises its consumers, without clocks, rows or       *)
(* transactions.  A message is put once, may be leased any number of       *)
(* times but never while it is hidden (delayed, or under a lease that has  *)
(* not run out), and once removed it never comes back.  Only a message     *)
(* that was leased can have its lease moved.  SqsMessages is shown to      *)
(* implement this specification.                                           *)
(***************************************************************************)
EXTENDS Naturals

CONSTANT Messages

VARIABLES
  phase,     \* phase[m] : "new", "stored" or "gone"
  hidden,    \* the stored messages that no consumer can be given now
  lease      \* lease[m] : the number of leases of m granted so far

absVars == <<phase, hidden, lease>>

AbsTypeOK ==
  /\ phase \in [Messages -> {"new", "stored", "gone"}]
  /\ hidden \subseteq Messages
  /\ lease \in [Messages -> Nat]

Stored == {m \in Messages : phase[m] = "stored"}

AbsInit ==
  /\ phase = [m \in Messages |-> "new"]
  /\ hidden = {}
  /\ lease = [m \in Messages |-> 0]

\* A message enters the queue, hidden when it is delayed.
Put(m) ==
  /\ phase[m] = "new"
  /\ phase' = [phase EXCEPT ![m] = "stored"]
  /\ hidden' \in {hidden, hidden \union {m}}
  /\ UNCHANGED lease

\* Consumers get messages that are not hidden.  A lease may already have run
\* out when it is granted, so a leased message need not become hidden.
Lease(S) ==
  /\ S # {}
  /\ S \subseteq Stored \ hidden
  /\ lease' = [m \in Messages |-> IF m \in S THEN lease[m] + 1 ELSE lease[m]]
  /\ hidden \subseteq hidden'
  /\ hidden' \subseteq hidden \union S
  /\ UNCHANGED phase

\* A holder moves the moment the message reappears.
Renew(m) ==
  /\ phase[m] = "stored"
  /\ lease[m] > 0
  /\ hidden' \in {hidden \union {m}, hidden \ {m}}
  /\ UNCHANGED <<phase, lease>>

\* Delays and leases run out.
Reveal(S) ==
  /\ S \subseteq hidden
  /\ hidden' = hidden \ S
  /\ UNCHANGED <<phase, lease>>

\* Messages leave the queue: acknowledged, purged or removed by hand.
Remove(S) ==
  /\ S \subseteq Stored
  /\ phase' = [m \in Messages |-> IF m \in S THEN "gone" ELSE phase[m]]
  /\ hidden' = hidden \ S
  /\ UNCHANGED lease

AbsNext ==
  \/ \E m \in Messages : Put(m) \/ Renew(m)
  \/ \E S \in SUBSET Messages : Lease(S) \/ Reveal(S) \/ Remove(S)

AbsSpec == AbsInit /\ [][AbsNext]_absVars
================================================================================
