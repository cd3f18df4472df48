------------------------------ MODULE MCIamConsole ------------------------------
(* Instances of IamConsole for TLC. *)
EXTENDS IamConsole, TLC

CONSTANTS h1, h2, alice, bob, p1

MCOneHandler == {h1}
MCTwoHandlers == {h1, h2}
MCTwoUsers == {alice, bob}
MCOnePolicy == {p1}

MCSymmetry == Permutations({h1, h2}) \union Permutations({alice, bob})
================================================================================
