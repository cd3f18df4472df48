------------------------------ MODULE PolicyEval ------------------------------
(***************************************************************************)
(* The evaluation of one policy for one request: which statements match,   *)
(* and what they add up to.                                                *)
(*                                                                         *)
(* A pattern with wildcards is the set of the values it matches.  A policy *)
(* is the sequence of its statements; the state machine appends statements *)
(* one by one, so that every policy over Statements is reached.            *)
(***************************************************************************)
EXTENDS Naturals, SequencesExt

CONSTANTS
  Principals,     \* the callers
  Actions,        \* the actions they ask for
  Resources,      \* the resources they ask for
  Statements,     \* the statements policies are made of
  MaxStatements   \* bound: statements of a policy

\* The kinds of PolicyPrincipal; a principal element is a list of them.
Kinds == {"Any", "Account", "User", "Role", "AssumedRole", "Service"}

ASSUME PolicyAssumption ==
  /\ MaxStatements \in Nat
  /\ \A p \in Principals : p.kind \in Kinds
  /\ \A s \in Statements : \A pattern \in s.principal : pattern.kind \in Kinds

VARIABLE policy   \* the statements of the policy, in the order of the document

--------------------------------------------------------------------------------
Results == {"Allowed", "Denied", "NotApplicable"}

\* PolicyPrincipal: which fields each kind of principal, and of pattern, has.
Fields ==
  [Any |-> {}, Account |-> {"account"}, User |-> {"account", "name"},
   Role |-> {"account", "name"}, AssumedRole |-> {"account", "name", "session"},
   Service |-> {"name"}]

wildcard_match(pattern, value) == value \in pattern

\* None for Any and Service.
HasAccount(principal) == "account" \in Fields[principal.kind]

principal_matches_pattern(pattern, principal) ==
  \/ pattern.kind = "Any"
  \/ /\ pattern.kind = "Account"
     /\ HasAccount(principal)
     /\ wildcard_match(pattern.account, principal.account)
  \/ /\ pattern.kind = principal.kind
     /\ pattern.kind # "Account"
     /\ \A f \in Fields[pattern.kind] : wildcard_match(pattern[f], principal[f])

MatchesRequest(statement, action, resource) ==
  /\ \E pattern \in statement.action : wildcard_match(pattern, action)
  /\ \E pattern \in statement.resource : wildcard_match(pattern, resource)

MatchesResource(statement, principal, action, resource) ==
  /\ \E pattern \in statement.principal : principal_matches_pattern(pattern, principal)
  /\ MatchesRequest(statement, action, resource)

\* A statement with a Principal never applies in an identity policy.
MatchesIdentity(statement, action, resource) ==
  /\ statement.principal = {}
  /\ MatchesRequest(statement, action, resource)

\* Any other spelling of the effect is ignored.
evaluate_statement(statement, matches) ==
  CASE matches /\ statement.effect = "Allow" -> "Allowed"
    [] matches /\ statement.effect = "Deny" -> "Denied"
    [] OTHER -> "NotApplicable"

\* Mutant: the last statement that applies decides.
LastApplies(acc, result) == IF result = "NotApplicable" THEN acc ELSE result

\* The step of the fold, here and in combine_policy_results.
Combine(acc, result) ==
  IF acc = "Denied" \/ result = "Denied" THEN "Denied"
  ELSE IF acc = "Allowed" \/ result = "Allowed" THEN "Allowed"
  ELSE "NotApplicable"

combine_policy_results(results) == FoldLeft(Combine, "NotApplicable", results)

evaluate_resource_policy(principal, action, resource) ==
  combine_policy_results(
    [i \in DOMAIN policy |->
       evaluate_statement(policy[i], MatchesResource(policy[i], principal, action, resource))])

evaluate_identity_policy(action, resource) ==
  combine_policy_results(
    [i \in DOMAIN policy |->
       evaluate_statement(policy[i], MatchesIdentity(policy[i], action, resource))])

--------------------------------------------------------------------------------
Init == policy = <<>>

AddStatement ==
  /\ Len(policy) < MaxStatements
  /\ \E s \in Statements : policy' = Append(policy, s)

Next == AddStatement

Spec == Init /\ [][Next]_policy

--------------------------------------------------------------------------------
(* The reference. *)

TypeOK == policy \in Seq(Statements) /\ Len(policy) <= MaxStatements

\* Deny overrides: what a set of statements that apply adds up to.
Verdict(effects) ==
  IF "Deny" \in effects THEN "Denied"
  ELSE IF "Allow" \in effects THEN "Allowed"
  ELSE "NotApplicable"

EffectsOf(statements) == {s.effect : s \in statements}

\* The principals that a Principal element names.
Named(patterns) ==
  UNION {CASE pattern.kind = "Any" -> Principals
           [] pattern.kind = "Account" ->
                {p \in Principals : p.kind \notin {"Any", "Service"} /\ p.account \in pattern.account}
           [] pattern.kind = "Service" ->
                {p \in Principals : p.kind = "Service" /\ p.name \in pattern.name}
           [] pattern.kind = "AssumedRole" ->
                {p \in Principals : /\ p.kind = "AssumedRole"
                                    /\ p.account \in pattern.account
                                    /\ p.name \in pattern.name
                                    /\ p.session \in pattern.session}
           [] OTHER ->
                {p \in Principals : /\ p.kind = pattern.kind
                                    /\ p.account \in pattern.account
                                    /\ p.name \in pattern.name}
         : pattern \in patterns}

\* A resource policy says Denied when some statement that names the principal, the
\* action and the resource denies; Allowed when none does and some allows; and
\* otherwise nothing - in whatever order the statements stand.
ResourcePolicyIsDenyOverrides ==
  \A p \in Principals, a \in Actions, r \in Resources :
    evaluate_resource_policy(p, a, r) =
      Verdict(EffectsOf({s \in ToSet(policy) :
                /\ p \in Named(s.principal)
                /\ a \in UNION s.action
                /\ r \in UNION s.resource}))

\* So does an identity policy, in which only statements without a Principal count.
IdentityPolicyIsDenyOverrides ==
  \A a \in Actions, r \in Resources :
    evaluate_identity_policy(a, r) =
      Verdict(EffectsOf({s \in ToSet(policy) :
                s.principal = {} /\ a \in UNION s.action /\ r \in UNION s.resource}))
================================================================================
