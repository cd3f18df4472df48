----------------------------- MODULE InputsProofs -----------------------------
(***************************************************************************)
(* Proofs about the pure parts of the system, for inputs of any size.      *)
(***************************************************************************)
EXTENDS Inputs, Arranged, FiniteSetTheorems, SequenceTheorems, TLAPS

--------------------------------------------------------------------------------
(* Policies.  A fold is the unique function that takes each set of positions to *)
(* the result of the fold over it, so it suffices to know one such function.    *)

\* The recursive function of FoldLeft(Combine, "NotApplicable", results).
Folded(f, D, results) ==
  f = [s \in SUBSET D |-> IF s = {} THEN "NotApplicable"
                          ELSE Combine(f[s \ {Max(s)}], results[Max(s)])]

\* What a set of results adds up to.
Sum(found) ==
  IF "Denied" \in found THEN "Denied"
  ELSE IF "Allowed" \in found THEN "Allowed" ELSE "NotApplicable"

\* A set of numbers with an element has a smallest.
LEMMA SmallestNumber ==
  ASSUME NEW S \in SUBSET Nat, S # {}
  PROVE  \E x \in S : \A y \in S : x <= y
<1>1. PICK x \in S : \A y \in S : ~(<<y, x>> \in OpToRel(<, Nat))
  BY NatLessThanWellFounded, WFMin, Zenon
<1>2. \A y \in S : ~(y < x)
  BY <1>1 DEF OpToRel
<1>3. \A y \in S : y \in Nat /\ x \in Nat
  OBVIOUS
<1> QED
  BY <1>2, <1>3

\* Of some positions of a sequence there is a last.
LEMMA LargestNumber ==
  ASSUME NEW n \in Nat, NEW s \in SUBSET (1..n), s # {}
  PROVE  \E x \in s : \A y \in s : y <= x
<1> DEFINE T == {n - i : i \in s}
<1>1. T \in SUBSET Nat /\ T # {}
  <2>1. \A i \in s : n - i \in Nat
    OBVIOUS
  <2> QED
    BY <2>1
<1> HIDE DEF T
<1>2. PICK t \in T : \A u \in T : t <= u
  BY <1>1, SmallestNumber
<1>3. PICK x \in s : t = n - x
  BY <1>2 DEF T
<1>4. ASSUME NEW y \in s
      PROVE  y <= x
  <2>1. n - y \in T /\ x \in Int /\ y \in Int
    BY DEF T
  <2>2. n - x <= n - y
    BY <1>2, <1>3, <2>1
  <2> QED
    BY <2>1, <2>2
<1> QED
  BY <1>3, <1>4

\* The last of some positions is one of them.
LEMMA MaxOfPositions ==
  ASSUME NEW n \in Nat, NEW s \in SUBSET (1..n), s # {}
  PROVE  Max(s) \in s
<1>1. PICK x \in s : \A y \in s : y <= x
  BY LargestNumber
<1>2. \A y \in s : x >= y
  <2>1. \A y \in s : x \in Int /\ y \in Int
    OBVIOUS
  <2> QED
    BY <1>1, <2>1
<1> QED
  BY <1>2 DEF Max

\* combine_policy_results over a sequence is what its results add up to.
LEMMA CombineIsSum ==
  ASSUME NEW n \in Nat, NEW results \in [1..n -> Results]
  PROVE  combine_policy_results(results) = Sum({results[i] : i \in 1..n})
<1> DEFINE D == 1..n
           sum == [s \in SUBSET D |-> Sum({results[i] : i \in s})]
<1>1. ASSUME NEW s \in SUBSET D, s # {}
      PROVE  Sum({results[i] : i \in s}) =
               Combine(Sum({results[i] : i \in s \ {Max(s)}}), results[Max(s)])
  <2>1. PICK x \in s : x = Max(s)
    BY <1>1, MaxOfPositions
  <2>2. {results[i] : i \in s} = {results[i] : i \in s \ {x}} \union {results[x]}
    OBVIOUS
  <2>3. results[x] \in Results
    OBVIOUS
  <2>4. ASSUME NEW found, NEW r \in Results
        PROVE  Sum(found \union {r}) = Combine(Sum(found), r)
    BY DEF Sum, Combine, Results
  <2>5. PICK found : found = {results[i] : i \in s \ {x}}
    OBVIOUS
  <2>6. Sum(found \union {results[x]}) = Combine(Sum(found), results[x])
    BY <2>3, <2>4
  <2> QED
    BY <2>1, <2>2, <2>5, <2>6
<1>2. Folded(sum, D, results)
  <2>1. \A s \in SUBSET D : s \ {Max(s)} \in SUBSET D
    OBVIOUS
  <2>2. Sum({results[i] : i \in {}}) = "NotApplicable"
    BY DEF Sum
  <2> QED
    BY <1>1, <2>1, <2>2 DEF Folded
<1>3. ASSUME NEW f, Folded(f, D, results)
      PROVE  \A s \in SUBSET D : f[s] = sum[s]
  <2> DEFINE Wrong == {s \in SUBSET D : f[s] # sum[s]}
  <2> SUFFICES ASSUME Wrong # {}
               PROVE  FALSE
    OBVIOUS
  <2>1. \A s \in SUBSET D : IsFiniteSet(s) /\ Cardinality(s) \in Nat
    <3>1. IsFiniteSet(D)
      BY FS_Interval
    <3>2. \A s \in SUBSET D : IsFiniteSet(s)
      BY <3>1, FS_Subset
    <3> QED
      BY <3>2, FS_CardinalityType
  <2>2. PICK s \in Wrong : \A t \in Wrong : Cardinality(s) <= Cardinality(t)
    <3> DEFINE Sizes == {Cardinality(t) : t \in Wrong}
    <3>1. Sizes \in SUBSET Nat /\ Sizes # {}
      BY <2>1
    <3> HIDE DEF Sizes
    <3>2. PICK k \in Sizes : \A j \in Sizes : k <= j
      BY <3>1, SmallestNumber
    <3> QED
      BY <3>2 DEF Sizes
  <2>3. s \in SUBSET D /\ f[s] # sum[s]
    BY <2>2
  <2>4. CASE s = {}
    BY <1>2, <1>3, <2>3, <2>4 DEF Folded
  <2>5. CASE s # {}
    <3>1. PICK x \in s : x = Max(s)
      BY <2>3, <2>5, MaxOfPositions
    <3>2. PICK t \in SUBSET D : t = s \ {x}
      BY <2>3
    <3>3. Cardinality(t) = Cardinality(s) - 1 /\ Cardinality(s) \in Nat
      BY <2>1, <2>3, <3>1, <3>2, FS_RemoveElement
    <3>4. f[t] = sum[t]
      <4>1. ~(Cardinality(s) <= Cardinality(t))
        BY <3>3
      <4> QED
        BY <2>2, <4>1
    <3>5. f[s] = Combine(f[t], results[x]) /\ sum[s] = Combine(sum[t], results[x])
      BY <1>2, <1>3, <2>3, <2>5, <3>1, <3>2 DEF Folded
    <3> QED
      BY <2>3, <3>4, <3>5
  <2> QED
    BY <2>4, <2>5
<1>4. PICK f : f = CHOOSE g : Folded(g, D, results)
  OBVIOUS
<1>5. Folded(f, D, results)
  BY <1>2, <1>4
<1>6. combine_policy_results(results) = f[D]
  <2>1. DOMAIN results = D
    OBVIOUS
  <2>2. combine_policy_results(results) =
          (CHOOSE g : Folded(g, DOMAIN results, results))[DOMAIN results]
    BY DEF combine_policy_results, FoldLeft, MapThenFoldSet, Folded
  <2> QED
    BY <1>4, <2>1, <2>2
<1> QED
  BY <1>3, <1>5, <1>6

\* The statements of a document that are among those that apply, and what each of its
\* statements is evaluated to.
Applying(doc, applied) == {s \in ToSet(doc) : s \in applied}
ResultsOf(n, doc, applied) ==
  [i \in 1..n |-> evaluate_statement(doc[i], doc[i] \in applied)]

\* What the statements of a document that apply add up to, whatever set of statements
\* they are.
LEMMA AppliedSum ==
  ASSUME NEW n \in Nat, NEW doc \in [1..n -> Statements], NEW applied
  PROVE  combine_policy_results(ResultsOf(n, doc, applied)) =
           Verdict(EffectsOf(Applying(doc, applied)))
<1> DEFINE results == ResultsOf(n, doc, applied)
           found == {results[i] : i \in 1..n}
           effects == EffectsOf(Applying(doc, applied))
<1>1. \A i \in 1..n : /\ results[i] \in Results
                      /\ results[i] = "Denied" <=> doc[i] \in applied /\ doc[i].effect = "Deny"
                      /\ results[i] = "Allowed" <=> doc[i] \in applied /\ doc[i].effect = "Allow"
  BY DEF ResultsOf, evaluate_statement, Results
<1>2. combine_policy_results(results) = Sum(found)
  <2>1. results \in [1..n -> Results]
    BY <1>1 DEF ResultsOf
  <2> HIDE DEF results
  <2> QED
    BY <2>1, CombineIsSum
<1>3. ToSet(doc) = {doc[i] : i \in 1..n}
  BY DEF ToSet
<1>4. "Denied" \in found <=> "Deny" \in effects
  BY <1>1, <1>3 DEF EffectsOf, Applying
<1>5. "Allowed" \in found <=> "Allow" \in effects
  BY <1>1, <1>3 DEF EffectsOf, Applying
<1> HIDE DEF found, effects
<1>6. Sum(found) = Verdict(effects)
  BY <1>4, <1>5 DEF Sum, Verdict
<1> QED
  BY <1>2, <1>6 DEF effects

\* A Principal element names the principals that one of its patterns matches.
LEMMA NamedAreMatched ==
  ASSUME NEW s \in Statements, NEW p \in Principals
  PROVE  p \in Named(s.principal) <=>
           \E pattern \in s.principal : principal_matches_pattern(pattern, p)
<1>1. p.kind \in Kinds /\ \A pattern \in s.principal : pattern.kind \in Kinds
  BY PolicyAssumption
<1>2. ASSUME NEW pattern, pattern \in s.principal
      PROVE  principal_matches_pattern(pattern, p) <=> p \in Named({pattern})
  <2>1. pattern.kind \in Kinds
    BY <1>1, <1>2
  <2>2. HasAccount(p) <=> p.kind \notin {"Any", "Service"}
    BY <1>1 DEF HasAccount, Fields, Kinds
  <2>3. CASE pattern.kind = "Any"
    BY <2>3 DEF principal_matches_pattern, Named
  <2>4. CASE pattern.kind = "Account"
    BY <2>2, <2>4 DEF principal_matches_pattern, wildcard_match, Named
  <2>5. CASE pattern.kind \in {"User", "Role"}
    <3>1. Fields[pattern.kind] = {"account", "name"}
      BY <2>5 DEF Fields
    <3>2. Named({pattern}) = {q \in Principals : /\ q.kind = pattern.kind
                                                 /\ q.account \in pattern.account
                                                 /\ q.name \in pattern.name}
      BY <2>5 DEF Named
    <3> QED
      BY <2>5, <3>1, <3>2 DEF principal_matches_pattern, wildcard_match
  <2>6. CASE pattern.kind = "AssumedRole"
    <3>1. Fields[pattern.kind] = {"account", "name", "session"}
      BY <2>6 DEF Fields
    <3>2. Named({pattern}) = {q \in Principals : /\ q.kind = "AssumedRole"
                                                 /\ q.account \in pattern.account
                                                 /\ q.name \in pattern.name
                                                 /\ q.session \in pattern.session}
      BY <2>6 DEF Named
    <3> QED
      BY <2>6, <3>1, <3>2 DEF principal_matches_pattern, wildcard_match
  <2>7. CASE pattern.kind = "Service"
    <3>1. Fields[pattern.kind] = {"name"}
      BY <2>7 DEF Fields
    <3>2. Named({pattern}) = {q \in Principals : q.kind = "Service" /\ q.name \in pattern.name}
      BY <2>7 DEF Named
    <3> QED
      BY <2>7, <3>1, <3>2 DEF principal_matches_pattern, wildcard_match
  <2> QED
    BY <2>1, <2>3, <2>4, <2>5, <2>6, <2>7 DEF Kinds
<1>3. p \in Named(s.principal) <=> \E pattern \in s.principal : p \in Named({pattern})
  BY DEF Named
<1> QED
  BY <1>2, <1>3

\* Whatever the policy, the fold over its statements is deny overrides.
LEMMA PolicyVerdicts ==
  TypeOK => ResourcePolicyIsDenyOverrides /\ IdentityPolicyIsDenyOverrides
<1> SUFFICES ASSUME TypeOK
             PROVE  ResourcePolicyIsDenyOverrides /\ IdentityPolicyIsDenyOverrides
  OBVIOUS
<1>1. PICK n \in Nat : policy \in [1..n -> Statements]
  BY DEF TypeOK
<1>2. DOMAIN policy = 1..n /\ \A s \in ToSet(policy) : s \in Statements
  BY <1>1 DEF ToSet
<1>3. ASSUME NEW p \in Principals, NEW a \in Actions, NEW r \in Resources
      PROVE  evaluate_resource_policy(p, a, r) =
               Verdict(EffectsOf({s \in ToSet(policy) :
                         p \in Named(s.principal) /\ a \in UNION s.action /\ r \in UNION s.resource}))
  <2> DEFINE applied == {s \in Statements : MatchesResource(s, p, a, r)}
  <2>1. ASSUME NEW s \in Statements
        PROVE  s \in applied <=>
                 p \in Named(s.principal) /\ a \in UNION s.action /\ r \in UNION s.resource
    BY NamedAreMatched DEF MatchesResource, MatchesRequest, wildcard_match
  <2>2. ASSUME NEW s \in Statements
        PROVE  evaluate_statement(s, MatchesResource(s, p, a, r)) = evaluate_statement(s, s \in applied)
    <3>1. s \in applied <=> MatchesResource(s, p, a, r)
      OBVIOUS
    <3> HIDE DEF applied
    <3> QED
      BY <3>1 DEF evaluate_statement
  <2> HIDE DEF applied
  <2>3. [i \in DOMAIN policy |->
           evaluate_statement(policy[i], MatchesResource(policy[i], p, a, r))] =
        [i \in 1..n |-> evaluate_statement(policy[i], policy[i] \in applied)]
    BY <1>1, <1>2, <2>2
  <2>4. {s \in ToSet(policy) : s \in applied} =
        {s \in ToSet(policy) :
           p \in Named(s.principal) /\ a \in UNION s.action /\ r \in UNION s.resource}
    BY <1>2, <2>1
  <2>5. combine_policy_results(ResultsOf(n, policy, applied)) =
          Verdict(EffectsOf(Applying(policy, applied)))
    BY <1>1, AppliedSum
  <2> QED
    BY <2>3, <2>4, <2>5 DEF ResultsOf, Applying, evaluate_resource_policy
<1>4. ASSUME NEW a \in Actions, NEW r \in Resources
      PROVE  evaluate_identity_policy(a, r) =
               Verdict(EffectsOf({s \in ToSet(policy) :
                         s.principal = {} /\ a \in UNION s.action /\ r \in UNION s.resource}))
  <2> DEFINE applied == {s \in Statements : MatchesIdentity(s, a, r)}
  <2>1. ASSUME NEW s \in Statements
        PROVE  s \in applied <=>
                 s.principal = {} /\ a \in UNION s.action /\ r \in UNION s.resource
    BY DEF MatchesIdentity, MatchesRequest, wildcard_match
  <2>2. ASSUME NEW s \in Statements
        PROVE  evaluate_statement(s, MatchesIdentity(s, a, r)) = evaluate_statement(s, s \in applied)
    <3>1. s \in applied <=> MatchesIdentity(s, a, r)
      OBVIOUS
    <3> HIDE DEF applied
    <3> QED
      BY <3>1 DEF evaluate_statement
  <2> HIDE DEF applied
  <2>3. [i \in DOMAIN policy |->
           evaluate_statement(policy[i], MatchesIdentity(policy[i], a, r))] =
        [i \in 1..n |-> evaluate_statement(policy[i], policy[i] \in applied)]
    BY <1>1, <1>2, <2>2
  <2>4. {s \in ToSet(policy) : s \in applied} =
        {s \in ToSet(policy) : s.principal = {} /\ a \in UNION s.action /\ r \in UNION s.resource}
    BY <1>2, <2>1
  <2>5. combine_policy_results(ResultsOf(n, policy, applied)) =
          Verdict(EffectsOf(Applying(policy, applied)))
    BY <1>1, AppliedSum
  <2> QED
    BY <2>3, <2>4, <2>5 DEF ResultsOf, Applying, evaluate_identity_policy
<1> QED
  BY <1>3, <1>4 DEF ResourcePolicyIsDenyOverrides, IdentityPolicyIsDenyOverrides

\* The policy of a behavior is always a sequence of statements, within the bound.
LEMMA PolicyTyped == InputsSpec => []TypeOK
<1>1. InputsInit => TypeOK
  BY PolicyAssumption DEF InputsInit, Init, TypeOK
<1>2. TypeOK /\ [InputsNext]_<<policy, input>> => TypeOK'
  BY PolicyAssumption DEF TypeOK, InputsNext, Next, AddStatement
<1> QED
  BY <1>1, <1>2, PTL DEF InputsSpec

\* Policies of any length, over any statements, in any order: evaluate_resource_policy and
\* evaluate_identity_policy deny when a statement that applies denies, allow when one
\* allows and none denies, and are silent otherwise.
THEOREM PoliciesDenyOverrides == InputsSpec => []DenyOverrides
<1>1. TypeOK => DenyOverrides
  BY PolicyVerdicts DEF DenyOverrides
<1> QED
  BY <1>1, PolicyTyped, PTL

--------------------------------------------------------------------------------
(* Requests.  Authorization and handler read the same parameters. *)

RequestShaped(r) ==
  /\ r.target \in Seq([prefix : STRING, name : STRING]) /\ Len(r.target) <= 1
  /\ r.query \in Seq(STRING \X STRING) /\ r.body \in Seq(STRING \X STRING)

\* A field that the typed request has is the last of its name, too.
LEMMA TypedIsLast ==
  ASSUME NEW pairs \in Seq(STRING \X STRING), NEW field, NEW optional \in BOOLEAN
  PROVE  /\ Requests!TypedField(pairs, field, optional) \subseteq {Requests!First(pairs, field)}
         /\ Requests!TypedField(pairs, field, optional) \subseteq {Requests!Last(pairs, field)}
<1> DEFINE places == Requests!Places(pairs, field)
<1>1. places \in SUBSET Nat
  BY DEF Requests!Places
<1>2. ASSUME \A i, j \in places : i = j, places # {}
      PROVE  Requests!First(pairs, field) = Requests!Last(pairs, field)
  <2>1. PICK i \in Nat : places = {i}
    BY <1>1, <1>2
  <2> HIDE DEF places
  <2>2. (CHOOSE k \in places : \A j \in places : k <= j) = i
    BY <2>1
  <2>3. (CHOOSE k \in places : \A j \in places : j <= k) = i
    BY <2>1
  <2> QED
    BY <2>1, <2>2, <2>3 DEF Requests!First, Requests!Last, places
<1>3. ASSUME places = {}
      PROVE  Requests!First(pairs, field) = Requests!Last(pairs, field)
  BY <1>3 DEF Requests!First, Requests!Last
<1> QED
  BY <1>2, <1>3 DEF Requests!TypedField

\* The fields by which each service's actions name their resource.
LEMMA ResourceFields ==
  ASSUME NEW service \in {"sqs", "sns", "iam", "sts"},
         NEW action \in Requests!Registry[service]
  PROVE  /\ service = "sqs" =>
              Requests!ResourceField(service, action) =
                CASE action \in {"ListQueues", "CreateQueue"} -> "none"
                  [] action = "GetQueueUrl" -> "QueueName"
                  [] OTHER -> "QueueUrl"
         /\ service = "sns" =>
              Requests!ResourceField(service, action) \in {"none"} \union Requests!ArnParameters
         /\ service = "iam" =>
              Requests!ResourceField(service, action) \in {"PolicyName", "PolicyArn", "UserName"}
         /\ service = "sts" => Requests!ResourceField(service, action) = "none"
<1>1. CASE service = "sqs"
  <2>1. action \in Requests!Registry.sqs
    BY <1>1
  <2> QED
    BY <1>1, <2>1 DEF Requests!Registry, Requests!ResourceField
<1>2. CASE service = "sns"
  <2>1. action \in Requests!Registry.sns
    BY <1>2
  <2> QED
    BY <1>2, <2>1 DEF Requests!Registry, Requests!ResourceField, Requests!ArnParameters
<1>3. CASE service = "iam"
  <2>1. action \in Requests!Registry.iam
    BY <1>3
  <2> QED
    BY <1>3, <2>1 DEF Requests!Registry, Requests!ResourceField
<1>4. CASE service = "sts"
  <2>1. action \in Requests!Registry.sts
    BY <1>4
  <2> QED
    BY <1>4, <2>1 DEF Requests!Registry, Requests!ResourceField
<1> QED
  BY <1>1, <1>2, <1>3, <1>4

\* The name of an action is one of the registry, and the only one.
LEMMA OneActionName ==
  ASSUME NEW r, RequestShaped(r), Requests!can_handle(r)
  PROVE  /\ r.service \in {"sqs", "sns", "iam", "sts"}
         /\ Requests!ActionName(r) \subseteq Requests!Registry[r.service]
         /\ Requests!ActionName(r) = {} \/ \E a : Requests!ActionName(r) = {a}
<1>1. r.service \in {"sqs", "sns", "iam", "sts"}
  BY DEF Requests!can_handle, Requests!Registry
<1>2. CASE r.service = "sqs"
  <2>1. Requests!ActionName(r) =
          UNION {Requests!target_to_operation_name(r.target[i]) : i \in DOMAIN r.target}
    BY <1>2 DEF Requests!ActionName
  <2>2. DOMAIN r.target = {} \/ DOMAIN r.target = {1}
    BY DEF RequestShaped
  <2>3. ASSUME NEW t
        PROVE  /\ Requests!target_to_operation_name(t) \subseteq Requests!Registry["sqs"]
               /\ Requests!target_to_operation_name(t) \subseteq {t.name}
    BY DEF Requests!target_to_operation_name
  <2>4. CASE DOMAIN r.target = {}
    BY <1>1, <2>1, <2>4
  <2>5. CASE DOMAIN r.target = {1}
    <3>1. Requests!ActionName(r) = Requests!target_to_operation_name(r.target[1])
      BY <2>1, <2>5
    <3>2. /\ Requests!ActionName(r) \subseteq Requests!Registry["sqs"]
          /\ Requests!ActionName(r) \subseteq {r.target[1].name}
      BY <2>3, <3>1
    <3> QED
      BY <1>1, <1>2, <3>2
  <2> QED
    BY <2>2, <2>4, <2>5
<1>3. CASE r.service # "sqs"
  <2> DEFINE pairs == r.query \o r.body
             name == Requests!First(pairs, "Action")
  <2>1. Requests!ActionName(r) \subseteq Requests!Registry[r.service]
    BY <1>3 DEF Requests!ActionName
  <2>2. Requests!ActionName(r) \subseteq Requests!get_query_request_action_name(r)
    BY <1>3 DEF Requests!ActionName
  <2>3. Requests!get_query_request_action_name(r) \subseteq {name[i] : i \in DOMAIN name}
    BY DEF Requests!get_query_request_action_name, Requests!encoded_aws_query_request
  <2>4. DOMAIN name \subseteq {1}
    BY DEF Requests!First
  <2> HIDE DEF name
  <2>5. Requests!ActionName(r) \subseteq {name[1]}
    BY <2>2, <2>3, <2>4
  <2> QED
    BY <1>1, <2>1, <2>5
<1> QED
  BY <1>2, <1>3

\* A value that is there or not.
Maybe(t) == t = <<>> \/ \E x : t = <<x>>

\* Of three values, the first that is there.
LEMMA FirstOfThree ==
  ASSUME NEW t, NEW u, NEW v, Maybe(t), Maybe(u), Maybe(v)
  PROVE  LET all == t \o u \o v IN
         /\ all = <<>> <=> t = <<>> /\ u = <<>> /\ v = <<>>
         /\ t # <<>> => <<Head(all)>> = t
         /\ t = <<>> /\ u # <<>> => <<Head(all)>> = u
         /\ t = <<>> /\ u = <<>> /\ v # <<>> => <<Head(all)>> = v
<1> DEFINE all == t \o u \o v
<1>1. CASE t = <<>> /\ u = <<>> /\ v = <<>>
  BY <1>1
<1>2. ASSUME NEW x, v = <<x>>, t = <<>>, u = <<>>
      PROVE  all # <<>> /\ <<Head(all)>> = v
  BY <1>2
<1>3. ASSUME NEW x, u = <<x>>, t = <<>>
      PROVE  all # <<>> /\ <<Head(all)>> = u
  <2>1. CASE v = <<>>
    BY <1>3, <2>1
  <2>2. ASSUME NEW y, v = <<y>>
        PROVE  all # <<>> /\ <<Head(all)>> = u
    BY <1>3, <2>2
  <2> QED
    BY <2>1, <2>2 DEF Maybe
<1>4. ASSUME NEW x, t = <<x>>
      PROVE  all # <<>> /\ <<Head(all)>> = t
  <2>1. CASE u = <<>> /\ v = <<>>
    BY <1>4, <2>1
  <2>2. ASSUME NEW y, v = <<y>>, u = <<>>
        PROVE  all # <<>> /\ <<Head(all)>> = t
    BY <1>4, <2>2
  <2>3. ASSUME NEW y, u = <<y>>, v = <<>>
        PROVE  all # <<>> /\ <<Head(all)>> = t
    BY <1>4, <2>3
  <2>4. ASSUME NEW y, NEW z, u = <<y>>, v = <<z>>
        PROVE  all # <<>> /\ <<Head(all)>> = t
    BY <1>4, <2>4
  <2> QED
    BY <2>1, <2>2, <2>3, <2>4 DEF Maybe
<1> QED
  BY <1>1, <1>2, <1>3, <1>4 DEF Maybe

\* The resource that the policies were asked about is the one in the typed request, unless
\* an SNS request names another in an ARN parameter that is read before.
LEMMA SameResource ==
  ASSUME NEW r, RequestShaped(r)
  PROVE  Requests!HandledAsAuthorized(r)
<1> SUFFICES ASSUME Requests!can_handle(r), NEW action \in Requests!ActionName(r),
                    NEW handled \in Requests!parse_payload(r, action),
                    NEW misled \in BOOLEAN,
                    misled <=>
                      /\ r.service = "sns"
                      /\ \E ps \in Requests!Pairs(r) :
                           LET before == Requests!ArnsBefore(ps, Requests!ResourceField("sns", action))
                           IN  before # <<>> /\ <<Head(before)>> # handled
             PROVE  handled = Requests!AuthorizedResource(action, r) <=> ~misled
  BY DEF Requests!HandledAsAuthorized
<1>1. r.service \in {"sqs", "sns", "iam", "sts"} /\ action \in Requests!Registry[r.service]
  BY OneActionName
<1> DEFINE field == Requests!ResourceField(r.service, action)
           pairs == r.query \o r.body
           optional == Requests!OptionalUser(action)
<1>2. pairs \in Seq(STRING \X STRING) /\ r.body \in Seq(STRING \X STRING) /\ optional \in BOOLEAN
  BY DEF RequestShaped, Requests!OptionalUser
<1>3. Requests!parse_payload(r, action) =
        IF field = "none" THEN {<<>> : ps \in Requests!Pairs(r)}
        ELSE UNION {Requests!TypedField(ps, field, optional) : ps \in Requests!Pairs(r)}
  BY DEF Requests!parse_payload
<1> HIDE DEF field, optional, pairs
<1>4. field = "none" => Requests!parse_payload(r, action) \subseteq {<<>>}
  BY <1>3
<1>5. CASE r.service = "sqs"
  <2>1. Requests!Pairs(r) \subseteq {r.body}
    BY <1>5 DEF Requests!Pairs
  <2>2. Requests!AuthorizedResource(action, r) = Requests!get_relevant_queue_for_action(action, r)
    BY <1>5 DEF Requests!AuthorizedResource
  <2>3. field = CASE action \in {"ListQueues", "CreateQueue"} -> "none"
                  [] action = "GetQueueUrl" -> "QueueName"
                  [] OTHER -> "QueueUrl"
    BY <1>1, <1>5, ResourceFields DEF field
  <2>4. field # "none" => Requests!parse_payload(r, action) \subseteq
                        Requests!TypedField(r.body, field, optional)
    BY <1>3, <2>1
  <2>5. CASE action \in {"ListQueues", "CreateQueue"}
    BY <1>4, <1>5, <2>2, <2>3, <2>5 DEF Requests!get_relevant_queue_for_action
  <2>6. CASE action = "GetQueueUrl"
    <3>1. field = "QueueName" /\ Requests!AuthorizedResource(action, r) = Requests!First(r.body, field)
      BY <2>2, <2>3, <2>6 DEF Requests!get_relevant_queue_for_action
    <3> QED
      BY <1>2, <1>5, <2>4, <3>1, TypedIsLast
  <2>7. CASE action \notin {"ListQueues", "CreateQueue", "GetQueueUrl"}
    <3>1. field = "QueueUrl" /\ Requests!AuthorizedResource(action, r) = Requests!Last(r.body, field)
      BY <2>2, <2>3, <2>7 DEF Requests!get_relevant_queue_for_action,
         Requests!get_queue_url_from_request
    <3> QED
      BY <1>2, <1>5, <2>4, <3>1, TypedIsLast
  <2> QED
    BY <2>5, <2>6, <2>7
<1>6. ASSUME r.service # "sqs"
      PROVE  /\ Requests!Pairs(r) = {} \/ Requests!Pairs(r) = {pairs}
             /\ Requests!Pairs(r) = Requests!encoded_aws_query_request(r)
             /\ field # "none" => Requests!parse_payload(r, action) \subseteq {Requests!First(pairs, field)}
  <2>1. /\ Requests!Pairs(r) = {} \/ Requests!Pairs(r) = {pairs}
        /\ Requests!Pairs(r) = Requests!encoded_aws_query_request(r)
    BY <1>6 DEF Requests!Pairs, Requests!encoded_aws_query_request, pairs
  <2>2. field # "none" => Requests!parse_payload(r, action) \subseteq
                        Requests!TypedField(pairs, field, optional)
    BY <1>3, <2>1
  <2> QED
    BY <1>2, <2>1, <2>2, TypedIsLast
<1>7. CASE r.service = "sns"
  <2>1. Requests!Pairs(r) = {pairs}
    BY <1>3, <1>6, <1>7
  <2>2. field \in {"none", "TopicArn", "ResourceArn", "SubscriptionArn"}
    BY <1>1, <1>7, ResourceFields DEF field, Requests!ArnParameters
  <2>3. ~optional
    <3>1. action \in Requests!Registry.sns
      BY <1>1, <1>7
    <3> QED
      BY <3>1 DEF Requests!Registry, Requests!OptionalUser, Requests!SelfActions, optional
  <2>4. field # "none" => handled = Requests!First(pairs, field) /\ handled # <<>>
    <3> HAVE field # "none"
    <3>1. handled \in Requests!TypedField(pairs, field, optional)
      BY <1>3, <2>1
    <3>2. Requests!Places(pairs, field) # {}
      BY <2>3, <3>1 DEF Requests!TypedField
    <3>3. Requests!First(pairs, field) # <<>>
      BY <3>2 DEF Requests!First
    <3> QED
      BY <1>6, <1>7, <3>3
  <2>5. PICK t, u, v : /\ t = Requests!First(pairs, "TopicArn")
                       /\ u = Requests!First(pairs, "ResourceArn")
                       /\ v = Requests!First(pairs, "SubscriptionArn")
    OBVIOUS
  <2>6. Maybe(t) /\ Maybe(u) /\ Maybe(v)
    BY <2>5 DEF Requests!First, Maybe
  <2>6a. Maybe(<<>>)
    BY DEF Maybe
  <2>7. PICK arns : arns = t \o u \o v
    OBVIOUS
  <2>8. Requests!AuthorizedResource(action, r) = IF arns = <<>> THEN <<>> ELSE <<Head(arns)>>
    <3>1. Requests!AuthorizedResource(action, r) = Requests!extract_topic_arn_from_request(r)
      BY <1>7 DEF Requests!AuthorizedResource
    <3>2. PICK p : p = CHOOSE q \in Requests!encoded_aws_query_request(r) : TRUE
      OBVIOUS
    <3>3. p = pairs
      <4>1. Requests!encoded_aws_query_request(r) = {pairs}
        BY <1>6, <1>7, <2>1
      <4> QED
        BY <3>2, <4>1
    <3>4. Requests!extract_topic_arn_from_request(r) =
            LET all == Requests!First(p, "TopicArn") \o Requests!First(p, "ResourceArn")
                         \o Requests!First(p, "SubscriptionArn")
            IN  IF all = <<>> THEN <<>> ELSE <<Head(all)>>
      BY <3>2 DEF Requests!extract_topic_arn_from_request
    <3> QED
      BY <2>5, <2>7, <3>1, <3>3, <3>4
  <2>9. PICK before : before = Requests!ArnsBefore(pairs, field)
    OBVIOUS
  <2>10. before = (IF field # "TopicArn" THEN t ELSE <<>>)
                    \o (IF field \in {"SubscriptionArn", "none"} THEN u ELSE <<>>)
                    \o (IF field = "none" THEN v ELSE <<>>)
    BY <2>5, <2>9 DEF Requests!ArnsBefore
  <2>11. misled <=> before # <<>> /\ <<Head(before)>> # handled
    BY <1>7, <2>1, <2>9 DEF field
  <2>12. /\ arns = <<>> <=> t = <<>> /\ u = <<>> /\ v = <<>>
         /\ t # <<>> => <<Head(arns)>> = t
         /\ t = <<>> /\ u # <<>> => <<Head(arns)>> = u
         /\ t = <<>> /\ u = <<>> /\ v # <<>> => <<Head(arns)>> = v
    <3>1. LET all == t \o u \o v IN
          /\ all = <<>> <=> t = <<>> /\ u = <<>> /\ v = <<>>
          /\ t # <<>> => <<Head(all)>> = t
          /\ t = <<>> /\ u # <<>> => <<Head(all)>> = u
          /\ t = <<>> /\ u = <<>> /\ v # <<>> => <<Head(all)>> = v
      BY <2>6, FirstOfThree, SMT
    <3> QED
      BY <2>7, <3>1, Zenon
  <2>13. CASE field = "TopicArn"
    <3>1. before = <<>> \o <<>> \o <<>>
      BY <2>10, <2>13
    <3>2. before = <<>>
      BY <2>6, <2>6a, <3>1, FirstOfThree
    <3> QED
      BY <2>4, <2>5, <2>8, <2>11, <2>12, <2>13, <3>2
  <2>14. CASE field = "ResourceArn"
    <3>1. before = t \o <<>> \o <<>>
      BY <2>10, <2>14
    <3>2. (before = <<>> <=> t = <<>>) /\ (t # <<>> => <<Head(before)>> = t)
      BY <2>6, <2>6a, <3>1, FirstOfThree
    <3> QED
      BY <2>4, <2>5, <2>8, <2>11, <2>12, <2>14, <3>2
  <2>15. CASE field = "SubscriptionArn"
    <3>1. before = t \o u \o <<>>
      BY <2>10, <2>15
    <3>2. /\ before = <<>> <=> t = <<>> /\ u = <<>>
          /\ t # <<>> => <<Head(before)>> = t
          /\ t = <<>> /\ u # <<>> => <<Head(before)>> = u
      BY <2>6, <2>6a, <3>1, FirstOfThree
    <3> QED
      BY <2>4, <2>5, <2>8, <2>11, <2>12, <2>15, <3>2
  <2>16. CASE field = "none"
    <3>1. before = arns
      BY <2>7, <2>10, <2>16
    <3>2. handled = <<>>
      BY <1>4, <2>16
    <3>3. arns # <<>> => <<Head(arns)>> # <<>>
      OBVIOUS
    <3> QED
      BY <2>8, <2>11, <3>1, <3>2, <3>3
  <2> QED
    BY <2>2, <2>13, <2>14, <2>15, <2>16
<1>8. CASE r.service = "iam"
  <2>1. field # "none"
    BY <1>1, <1>8, ResourceFields DEF field
  <2>2. Requests!AuthorizedResource(action, r) = Requests!First(pairs, field)
    BY <1>8 DEF Requests!AuthorizedResource, field, pairs
  <2> QED
    BY <1>6, <1>8, <2>1, <2>2
<1>9. CASE r.service = "sts"
  <2>1. field = "none"
    BY <1>1, <1>9, ResourceFields DEF field
  <2> QED
    BY <1>4, <1>9, <2>1 DEF Requests!AuthorizedResource
<1> QED
  BY <1>1, <1>5, <1>7, <1>8, <1>9

--------------------------------------------------------------------------------
(* Answers: who is to blame. *)

WorldShaped(w) ==
  /\ w.key \in {"ok", "missing"} \union Requests!StoreErrors
  /\ w.principal \in {"ok", "missing"} \union Requests!StoreErrors
  /\ w.mode \in {"enforce", "audit", "off"}

\* An error of a service blames the server exactly when it is an InternalError.
LEMMA ErrorBlames ==
  ASSUME NEW service, NEW error
  PROVE  LET answer == Requests!ErrorAnswer(service, error)
         IN  /\ answer.status = 500 <=> error = "InternalError"
             /\ answer.fault = "Server" <=> error = "InternalError"
             /\ answer.fault = "Sender" <=> error # "InternalError"
             /\ answer.status = 501 =>
                  service \in {"iam", "sts"} /\ error = "UnsupportedOperation"
             /\ answer.status \notin {200, 403} /\ answer.failed = {}
BY DEF Requests!ErrorAnswer, Requests!StatusCode, Requests!fault, Requests!ServerErrors

\* The other answers blame nobody.
LEMMA PlainAnswers ==
  /\ Requests!Forbidden.status = 403 /\ Requests!Forbidden.fault = "none"
  /\ Requests!Forbidden.failed = {}
  /\ \A f : /\ Requests!Success(f).status = 200 /\ Requests!Success(f).fault = "none"
            /\ Requests!Success(f).failed = f
  /\ \A e \in DOMAIN Requests!ApiStatus :
       /\ Requests!ApiAnswer(e).status = Requests!ApiStatus[e]
       /\ Requests!ApiAnswer(e).fault = "none" /\ Requests!ApiAnswer(e).failed = {}
BY DEF Requests!Forbidden, Requests!Success, Requests!ApiAnswer

\* The statuses of the errors that a service answers with.
LEMMA ApiStatuses ==
  /\ DOMAIN Requests!ApiStatus =
       {"NotFound", "InternalServerError", "BadRequest", "NotAuthorized", "NotAuthenticated"}
  /\ Requests!ApiStatus["NotFound"] = 404 /\ Requests!ApiStatus["InternalServerError"] = 500
  /\ Requests!ApiStatus["NotAuthenticated"] = 401
BY DEF Requests!ApiStatus

\* A StoreError is an InternalError when the storage failed, and for STS always.
LEMMA StoreErrorBlames ==
  ASSUME NEW service, NEW receipt \in BOOLEAN, NEW error \in Requests!StoreErrors
  PROVE  /\ Requests!map_store_error(service, receipt, error) = "InternalError" <=>
              error = "StorageFailure" \/ service = "sts"
         /\ Requests!map_store_error(service, receipt, error) # "UnsupportedOperation"
BY DEF Requests!map_store_error, Requests!StoreErrors

\* The authorization fails with an InternalError when the load was reached and failed.
LEMMA AuthorizationBlames ==
  ASSUME NEW action, NEW r, NEW w, NEW refused,
         r.service = "sns" => action \notin Requests!SelfActions,
         refused = Requests!AuthorizationError(action, r, w)
  PROVE  /\ refused = {} \/ \E e : refused = {e} /\ e # "UnsupportedOperation"
         /\ refused = {"InternalError"} <=>
              /\ Requests!parse_payload(r, action) # {}
              /\ Requests!Loads(action, r) /\ w.load = "StorageFailure"
<1>1. PICK parsed : parsed = Requests!parse_payload(r, action)
  OBVIOUS
<1>2. PICK loads \in BOOLEAN : loads <=> Requests!Loads(action, r)
  <2>1. Requests!Loads(action, r) \in BOOLEAN
    BY DEF Requests!Loads
  <2> QED
    BY <2>1
<1>3. loads /\ action \in Requests!SelfActions => parsed # {<<>>}
  BY <1>1, <1>2 DEF Requests!Loads
<1>4. ASSUME r.service \in {"sqs", "iam"}
      PROVE  Requests!map_store_error(r.service, FALSE, "NotFound") \notin
               {"InternalError", "UnsupportedOperation"}
  BY <1>4, StoreErrorBlames DEF Requests!StoreErrors
<1>5. refused =
        CASE parsed = {} -> {"BadRequest"}
          [] parsed = {<<>>} /\ action \in Requests!SelfActions /\ r.caller # "user" -> {"BadRequest"}
          [] parsed # {} /\ loads /\ w.load = "StorageFailure" -> {"InternalError"}
          [] /\ parsed # {} /\ loads /\ w.load = "NotFound"
             /\ r.service \in {"sqs", "iam"} /\ action # "GetQueueUrl" ->
               {Requests!map_store_error(r.service, FALSE, "NotFound")}
          [] OTHER -> {}
  BY <1>1, <1>2 DEF Requests!AuthorizationError
<1> QED
  BY <1>1, <1>2, <1>3, <1>4, <1>5

\* A failed read of the policies, in enforce mode, denies; only that mode denies.
LEMMA PermittedFacts ==
  ASSUME NEW w
  PROVE  /\ Requests!Permitted(w) \in BOOLEAN
         /\ ~Requests!Permitted(w) => w.mode = "enforce"
         /\ w.mode = "enforce"
              /\ (w.inline \in Requests!StoreErrors \/ w.managed \in Requests!StoreErrors) =>
              ~Requests!Permitted(w)
<1> DEFINE result(read) == IF read \in Requests!StoreErrors THEN "Denied" ELSE read
           results == {result(w.inline), result(w.managed), w.resource}
<1>1. Requests!Permitted(w) =
        (w.mode = "enforce" => "Denied" \notin results /\ "Allowed" \in results)
  BY DEF Requests!Permitted
<1>2. w.inline \in Requests!StoreErrors \/ w.managed \in Requests!StoreErrors =>
        "Denied" \in results
  OBVIOUS
<1> HIDE DEF results
<1> QED
  BY <1>1, <1>2

\* What the answer to a batch says of its entries.
LEMMA EntriesReported ==
  ASSUME NEW action, NEW parts, NEW failed, failed = Requests!FailedEntries(action, parts)
  PROVE  /\ action \in Requests!BatchActions =>
              /\ {e.entry : e \in failed} = Requests!Failures(parts)
              /\ \A e \in failed :
                   e.sender_fault <=> /\ action # "SendMessageBatch"
                                      /\ parts[e.entry] # "StorageFailure"
         /\ action \notin Requests!BatchActions => failed = {}
<1>1. CASE action \notin Requests!BatchActions
  BY <1>1 DEF Requests!FailedEntries
<1>2. CASE action \in Requests!BatchActions
  <2> DEFINE Entry(i) ==
               [entry |-> i, code |-> Requests!EntryError(action, parts[i]),
                sender_fault |-> Requests!sender_fault(Requests!EntryError(action, parts[i]))]
  <2>1. failed = {Entry(i) : i \in Requests!Failures(parts)}
    BY <1>2 DEF Requests!FailedEntries
  <2>2. ASSUME NEW i \in Requests!Failures(parts)
        PROVE  /\ Entry(i).entry = i
               /\ Entry(i).sender_fault <=>
                    action # "SendMessageBatch" /\ parts[i] # "StorageFailure"
    <3>1. parts[i] \in Requests!StoreErrors
      BY DEF Requests!Failures
    <3>2. Requests!map_store_error("sqs", TRUE, parts[i]) = "InternalError" <=>
            parts[i] = "StorageFailure"
      BY <3>1 DEF Requests!map_store_error, Requests!StoreErrors
    <3>3. Requests!EntryError(action, parts[i]) = "InternalError" <=>
            action = "SendMessageBatch" \/ parts[i] = "StorageFailure"
      BY <3>2 DEF Requests!EntryError
    <3> QED
      BY <3>3 DEF Requests!sender_fault, Requests!fault, Requests!ServerErrors
  <2> HIDE DEF Entry
  <2> QED
    BY <1>2, <2>1, <2>2
<1> QED
  BY <1>1, <1>2

\* What the router answers to a request whose action has a name: 403 when it was denied,
\* 200 with the failed entries, or an error without entries.
LEMMA RouteDecides ==
  ASSUME NEW r, RequestShaped(r), NEW w, NEW answer, answer = Requests!route_traced(r, w)
  PROVE  /\ answer.status = 403 => ~Requests!Permitted(w)
         /\ Requests!can_handle(r) => \A action \in Requests!ActionName(r) :
              /\ Requests!AuthorizationError(action, r, w) = {} /\ ~Requests!Permitted(w) =>
                   answer.status = 403 /\ answer.fault = "none"
              /\ answer.status = 200 => answer.failed = Requests!FailedEntries(action, w.parts)
              /\ answer.status # 200 => answer.failed = {}
<1>1. CASE ~Requests!can_handle(r)
  <2>1. answer = Requests!ApiAnswer("NotFound")
    BY <1>1 DEF Requests!route_traced
  <2> QED
    BY <1>1, <2>1, PlainAnswers, ApiStatuses
<1>2. CASE Requests!can_handle(r) /\ Requests!ActionName(r) = {}
  <2>1. answer = Requests!ErrorAnswer(r.service, Requests!NameError(r))
    BY <1>2 DEF Requests!route_traced
  <2> QED
    BY <1>2, <2>1, ErrorBlames
<1>3. ASSUME Requests!can_handle(r), NEW action, Requests!ActionName(r) = {action}
      PROVE  /\ answer.status = 403 => ~Requests!Permitted(w)
             /\ Requests!AuthorizationError(action, r, w) = {} /\ ~Requests!Permitted(w) =>
                  answer.status = 403 /\ answer.fault = "none"
             /\ answer.status = 200 => answer.failed = Requests!FailedEntries(action, w.parts)
             /\ answer.status # 200 => answer.failed = {}
  <2>1. (CHOOSE a \in Requests!ActionName(r) : TRUE) = action
    BY <1>3
  <2>2. PICK refused : refused = Requests!AuthorizationError(action, r, w)
    OBVIOUS
  <2>3. PICK permitted \in BOOLEAN : permitted <=> Requests!Permitted(w)
    BY PermittedFacts
  <2>4. PICK error : error = Requests!map_store_error(r.service,
                               action \in {"DeleteMessage", "ChangeMessageVisibility"}, w.write)
    OBVIOUS
  <2>5. answer =
          CASE refused # {} -> Requests!ErrorAnswer(r.service, CHOOSE e \in refused : TRUE)
            [] refused = {} /\ ~permitted -> Requests!Forbidden
            [] refused = {} /\ permitted /\ w.write \in Requests!StoreErrors ->
                 Requests!ErrorAnswer(r.service, error)
            [] OTHER -> Requests!Success(Requests!FailedEntries(action, w.parts))
    BY <1>3, <2>1, <2>2, <2>3, <2>4 DEF Requests!route_traced
  <2>6. \A e : LET a == Requests!ErrorAnswer(r.service, e)
               IN  a.status \notin {200, 403} /\ a.failed = {}
    BY ErrorBlames
  <2>7. CASE refused # {}
    BY <2>2, <2>5, <2>6, <2>7
  <2>8. CASE refused = {} /\ ~permitted
    BY <2>3, <2>5, <2>8, PlainAnswers
  <2>9. CASE refused = {} /\ permitted /\ w.write \in Requests!StoreErrors
    BY <2>2, <2>3, <2>5, <2>6, <2>9
  <2>10. CASE refused = {} /\ permitted /\ w.write \notin Requests!StoreErrors
    BY <2>2, <2>3, <2>5, <2>10, PlainAnswers
  <2> QED
    BY <2>7, <2>8, <2>9, <2>10
<1>4. Requests!can_handle(r) =>
        Requests!ActionName(r) = {} \/ \E action : Requests!ActionName(r) = {action}
  BY OneActionName
<1> QED
  BY <1>1, <1>2, <1>3, <1>4

\* The router answers 500 exactly when a store call of the one action was reached and
\* failed; 501 only when there is no action of that name.
LEMMA RouteBlames ==
  ASSUME NEW r, RequestShaped(r), NEW w, WorldShaped(w), NEW answer,
         answer = Requests!route_traced(r, w),
         NEW failed \in BOOLEAN,
         failed <=>
           /\ Requests!can_handle(r)
           /\ \E action \in Requests!ActionName(r) :
                \/ /\ Requests!parse_payload(r, action) # {}
                   /\ Requests!Loads(action, r) /\ w.load = "StorageFailure"
                \/ /\ Requests!AuthorizationError(action, r, w) = {} /\ Requests!Permitted(w)
                   /\ w.write \in (IF r.service = "sts" THEN Requests!StoreErrors
                                                        ELSE {"StorageFailure"})
  PROVE  /\ answer.status = 500 <=> failed
         /\ answer.fault = "Server" <=> failed
         /\ answer.status = 501 =>
              /\ r.service \in {"iam", "sts"} /\ Requests!ActionName(r) = {}
              /\ answer.fault = "Sender"
<1>0. ASSUME Requests!can_handle(r), NEW action \in Requests!ActionName(r), r.service = "sns"
      PROVE  action \notin Requests!SelfActions
  <2>1. action \in Requests!Registry.sns
    BY <1>0, OneActionName
  <2> QED
    BY <2>1 DEF Requests!Registry, Requests!SelfActions
<1>1. CASE ~Requests!can_handle(r)
  <2>1. answer = Requests!ApiAnswer("NotFound")
    BY <1>1 DEF Requests!route_traced
  <2>2. answer.status = 404 /\ answer.fault = "none"
    BY <2>1, PlainAnswers, ApiStatuses
  <2>3. ~failed
    BY <1>1
  <2> QED
    BY <2>2, <2>3
<1>2. CASE Requests!can_handle(r) /\ Requests!ActionName(r) = {}
  <2>1. answer = Requests!ErrorAnswer(r.service, Requests!NameError(r))
    BY <1>2 DEF Requests!route_traced
  <2>2. Requests!NameError(r) # "InternalError"
    BY DEF Requests!NameError
  <2> QED
    BY <1>2, <2>1, <2>2, ErrorBlames
<1>3. ASSUME Requests!can_handle(r), NEW action, Requests!ActionName(r) = {action}
      PROVE  /\ answer.status = 500 <=> failed
             /\ answer.fault = "Server" <=> failed
             /\ answer.status # 501
  <2>0. PICK permitted \in BOOLEAN : permitted <=> Requests!Permitted(w)
    BY PermittedFacts
  <2>1. (CHOOSE a \in Requests!ActionName(r) : TRUE) = action
    BY <1>3
  <2>2. PICK refused : refused = Requests!AuthorizationError(action, r, w)
    OBVIOUS
  <2>3. PICK receipt \in BOOLEAN :
          receipt <=> action \in {"DeleteMessage", "ChangeMessageVisibility"}
    OBVIOUS
  <2>4. answer =
          CASE refused # {} -> Requests!ErrorAnswer(r.service, CHOOSE e \in refused : TRUE)
            [] refused = {} /\ ~permitted -> Requests!Forbidden
            [] refused = {} /\ permitted /\ w.write \in Requests!StoreErrors ->
                 Requests!ErrorAnswer(r.service, Requests!map_store_error(r.service,
                   action \in {"DeleteMessage", "ChangeMessageVisibility"}, w.write))
            [] OTHER -> Requests!Success(Requests!FailedEntries(action, w.parts))
    BY <1>3, <2>0, <2>1, <2>2 DEF Requests!route_traced
  <2>5. failed <=> \/ refused = {"InternalError"}
                   \/ /\ refused = {} /\ permitted
                      /\ w.write \in (IF r.service = "sts" THEN Requests!StoreErrors
                                                           ELSE {"StorageFailure"})
    BY <1>3, <2>0, <2>2, <1>0, AuthorizationBlames
  <2>6. CASE refused # {}
    <3>1. PICK e : refused = {e} /\ e # "UnsupportedOperation"
      BY <1>0, <1>3, <2>2, <2>6, AuthorizationBlames
    <3>2. (CHOOSE x \in refused : TRUE) = e
      BY <3>1
    <3>3. answer = Requests!ErrorAnswer(r.service, e)
      BY <2>4, <2>6, <3>2
    <3>4. failed <=> e = "InternalError"
      BY <2>5, <3>1
    <3> QED
      BY <3>1, <3>3, <3>4, ErrorBlames
  <2>7. CASE refused = {} /\ permitted /\ w.write \in Requests!StoreErrors
    <3>1. PICK e : e = Requests!map_store_error(r.service, receipt, w.write)
      OBVIOUS
    <3>2. answer = Requests!ErrorAnswer(r.service, e)
      BY <2>3, <2>4, <2>7, <3>1
    <3>3. e # "UnsupportedOperation" /\ (e = "InternalError" <=> failed)
      BY <2>5, <2>7, <3>1, StoreErrorBlames
    <3> QED
      BY <3>2, <3>3, ErrorBlames
  <2>8. CASE refused = {} /\ ~(permitted /\ w.write \in Requests!StoreErrors)
    <3>1. answer \in {Requests!Forbidden, Requests!Success(Requests!FailedEntries(action, w.parts))}
      BY <2>4, <2>8
    <3>2. answer.status \in {200, 403} /\ answer.fault = "none"
      BY <3>1, PlainAnswers
    <3>3. ~failed
      BY <2>5, <2>8 DEF Requests!StoreErrors
    <3> QED
      BY <3>2, <3>3
  <2> QED
    BY <2>6, <2>7, <2>8
<1>4. Requests!can_handle(r) =>
        Requests!ActionName(r) = {} \/ \E action : Requests!ActionName(r) = {action}
  BY OneActionName
<1>5. ASSUME Requests!can_handle(r), NEW action, Requests!ActionName(r) = {action}
      PROVE  /\ answer.status = 500 <=> failed
             /\ answer.fault = "Server" <=> failed
             /\ answer.status = 501 =>
                  /\ r.service \in {"iam", "sts"} /\ Requests!ActionName(r) = {}
                  /\ answer.fault = "Sender"
  BY <1>3, <1>5
<1> QED
  BY <1>1, <1>2, <1>4, <1>5

\* Every answer, of authentication and router.
LEMMA AnswerBlames ==
  ASSUME NEW r, RequestShaped(r), NEW w, WorldShaped(w)
  PROVE  Requests!BlamesTheRightSide(r, w)
<1> DEFINE Reached(action) ==
             \/ /\ Requests!parse_payload(r, action) # {}
                /\ Requests!Loads(action, r) /\ w.load = "StorageFailure"
             \/ /\ Requests!AuthorizationError(action, r, w) = {} /\ Requests!Permitted(w)
                /\ w.write \in (IF r.service = "sts" THEN Requests!StoreErrors
                                                     ELSE {"StorageFailure"})
           Routed == /\ Requests!can_handle(r)
                     /\ \E action \in Requests!ActionName(r) : Reached(action)
           Known == w.key = "ok" /\ w.principal = "ok"
           Unsure == \/ w.key \in Requests!StoreErrors
                     \/ w.key = "ok" /\ w.principal \in Requests!StoreErrors
<1>1. PICK answer : answer = Requests!Answer(r, w)
  OBVIOUS
<1>2. PICK auth : auth = Requests!AuthAnswer(w)
  OBVIOUS
<1>3. PICK routed \in BOOLEAN : routed <=> Routed
  <2>1. Routed \in BOOLEAN
    OBVIOUS
  <2> QED
    BY <2>1
<1>4. /\ Known => auth = {} /\ ~Unsure
      /\ ~Known /\ Unsure => auth = {Requests!ApiAnswer("InternalServerError")}
      /\ ~Known /\ ~Unsure => auth = {Requests!ApiAnswer("NotAuthenticated")}
  BY <1>2 DEF Requests!AuthAnswer, Requests!StoreErrors, WorldShaped
<1> HIDE DEF Routed, Known, Unsure
<1>5. /\ answer.status = 500 <=> Unsure \/ (Known /\ routed)
      /\ answer.fault = "Server" <=> Known /\ routed
      /\ answer.status = 501 =>
           /\ r.service \in {"iam", "sts"} /\ Requests!ActionName(r) = {}
           /\ answer.fault = "Sender"
  <2>1. CASE Known
    <3>1. answer = Requests!route_traced(r, w)
      BY <1>1, <1>2, <1>4, <2>1 DEF Requests!Answer
    <3>2. /\ answer.status = 500 <=> routed
          /\ answer.fault = "Server" <=> routed
          /\ answer.status = 501 =>
               /\ r.service \in {"iam", "sts"} /\ Requests!ActionName(r) = {}
               /\ answer.fault = "Sender"
      BY <1>3, <3>1, RouteBlames DEF Routed
    <3> QED
      BY <1>4, <2>1, <3>2
  <2>2. CASE ~Known
    <3>1. PICK e \in {"InternalServerError", "NotAuthenticated"} :
            auth = {Requests!ApiAnswer(e)} /\ (e = "InternalServerError" <=> Unsure)
      BY <1>4, <2>2
    <3>2. answer = Requests!ApiAnswer(e)
      BY <1>1, <1>2, <3>1 DEF Requests!Answer
    <3>3. answer.fault = "none" /\ (answer.status = 500 <=> Unsure) /\ answer.status # 501
      BY <3>1, <3>2, PlainAnswers, ApiStatuses
    <3> QED
      BY <2>2, <3>3
  <2> QED
    BY <2>1, <2>2
<1>6. answer.status = 403 => w.mode = "enforce"
  <2>1. CASE Known
    <3>1. answer = Requests!route_traced(r, w)
      BY <1>1, <1>2, <1>4, <2>1 DEF Requests!Answer
    <3> QED
      BY <3>1, RouteDecides, PermittedFacts
  <2>2. CASE ~Known
    <3>1. PICK e \in {"InternalServerError", "NotAuthenticated"} : auth = {Requests!ApiAnswer(e)}
      BY <1>4, <2>2
    <3>2. answer = Requests!ApiAnswer(e)
      BY <1>1, <1>2, <3>1 DEF Requests!Answer
    <3> QED
      BY <3>2, PlainAnswers, ApiStatuses
  <2> QED
    BY <2>1, <2>2
<1>8. ASSUME Known, Requests!can_handle(r), NEW action \in Requests!ActionName(r)
      PROVE  /\ Requests!AuthorizationError(action, r, w) = {} /\ w.mode = "enforce"
                  /\ (w.inline \in Requests!StoreErrors \/ w.managed \in Requests!StoreErrors) =>
                  answer.status = 403 /\ answer.fault = "none"
             /\ answer.status = 200 /\ action \in Requests!BatchActions =>
                  /\ {e.entry : e \in answer.failed} = Requests!Failures(w.parts)
                  /\ \A e \in answer.failed :
                       e.sender_fault <=> /\ action # "SendMessageBatch"
                                          /\ w.parts[e.entry] # "StorageFailure"
             /\ answer.status # 200 \/ action \notin Requests!BatchActions => answer.failed = {}
  <2>1. answer = Requests!route_traced(r, w)
    BY <1>1, <1>2, <1>4, <1>8 DEF Requests!Answer
  <2>2. /\ Requests!AuthorizationError(action, r, w) = {} /\ ~Requests!Permitted(w) =>
             answer.status = 403 /\ answer.fault = "none"
        /\ answer.status = 200 => answer.failed = Requests!FailedEntries(action, w.parts)
        /\ answer.status # 200 => answer.failed = {}
    BY <1>8, <2>1, RouteDecides
  <2>3. Requests!AuthorizationError(action, r, w) = {} /\ w.mode = "enforce"
          /\ (w.inline \in Requests!StoreErrors \/ w.managed \in Requests!StoreErrors) =>
          answer.status = 403 /\ answer.fault = "none"
    BY <2>2, PermittedFacts
  <2>4. PICK failed : failed = Requests!FailedEntries(action, w.parts)
    OBVIOUS
  <2>5. /\ action \in Requests!BatchActions =>
             /\ {e.entry : e \in failed} = Requests!Failures(w.parts)
             /\ \A e \in failed :
                  e.sender_fault <=> /\ action # "SendMessageBatch"
                                     /\ w.parts[e.entry] # "StorageFailure"
        /\ action \notin Requests!BatchActions => failed = {}
    BY <2>4, EntriesReported
  <2> QED
    BY <2>2, <2>3, <2>4, <2>5
<1>7. Known /\ routed <=>
        /\ Known /\ Requests!can_handle(r) /\ Requests!ActionName(r) # {}
        /\ \E action \in Requests!ActionName(r) : Reached(action)
  BY <1>3 DEF Routed
<1> QED
  BY <1>1, <1>4, <1>5, <1>6, <1>7, <1>8 DEF Requests!BlamesTheRightSide, Known, Unsure

\* The input of a behavior is there from the start and never changes.
LEMMA InputKept ==
  InputsSpec => [](input.kind = "request" => input \in RequestInputs)
<1>1. InputsInit => (input.kind = "request" => input \in RequestInputs)
  BY KindAssumption DEF InputsInit, NoInput
<1>2. ASSUME input.kind = "request" => input \in RequestInputs,
             [InputsNext]_<<policy, input>>
      PROVE  (input.kind = "request" => input \in RequestInputs)'
  BY <1>2 DEF InputsNext
<1> QED
  BY <1>1, <1>2, PTL DEF InputsSpec

\* For requests with any parameters, in any order and number: the queue, topic, user or
\* policy that was authorized is the one the handler finds in its typed request, except
\* exactly for SNS requests in which an ARN parameter that is read before the action's own
\* names another.  Whatever the store calls do: 500 is answered exactly when one of the
\* authentication, the load or the handler failed, 403 when a read of the policies failed
\* in enforce mode, and a batch lists exactly its failed entries, a Publish nothing.
THEOREM RequestsHandledAndBlamed == InputsSpec => []HandledAndBlamed
<1>1. (input.kind = "request" => input \in RequestInputs) => HandledAndBlamed
  <2> SUFFICES ASSUME input \in RequestInputs
               PROVE  /\ Requests!HandledAsAuthorized(input.request)
                      /\ Requests!BlamesTheRightSide(input.request, input.world)
    BY DEF HandledAndBlamed
  <2>1. RequestShaped(input.request) /\ WorldShaped(input.world)
    BY RequestAssumption DEF RequestShaped, WorldShaped
  <2> QED
    BY <2>1, SameResource, AnswerBlames
<1> QED
  BY <1>1, InputKept, PTL

--------------------------------------------------------------------------------
(* The attributes of a queue, and its URL. *)

\* What a column of a queue may hold: a value that is converted to itself, or no key.
Column(a, v) ==
  \/ a = "KmsMasterKeyId" /\ v = Queues!Null
  \/ v # Queues!Null /\ Queues!ParsedAttribute(a, v, Queues!CreateBounds) = {v}

\* CreateQueue converts a text to a value that is converted to itself.
LEMMA ConvertedStays ==
  ASSUME NEW a \in Queues!CreateQueueAttributes, NEW raw \in Queues!Texts,
         NEW v \in Queues!ParsedAttribute(a, raw, Queues!CreateBounds)
  PROVE  /\ Column(a, v)
         /\ Queues!ParsedAttribute(a, raw, Queues!CreateBounds) = {v}
<1> USE DEF Column
<1>n. /\ raw # Queues!Null
      /\ \A n : Queues!Number(n) # Queues!Null
      /\ \A w : Queues!Word(w) # Queues!Null
  BY DEF Queues!Texts, Queues!Null, Queues!Number, Queues!Word, Queues!EmptyText
<1>g. \/ a \in DOMAIN Queues!CreateBounds
      \/ a \in Queues!BooleanAttributes
      \/ a \in Queues!JsonAttributes
      \/ a \in DOMAIN Queues!Allowed
      \/ a = "KmsMasterKeyId"
  BY DEF Queues!CreateQueueAttributes
<1>1. CASE a \in DOMAIN Queues!CreateBounds
  <2> DEFINE Parsed(r) == Queues!parse_i64_attribute(r, Queues!CreateBounds[a])
  <2>1. \A r : Queues!ParsedAttribute(a, r, Queues!CreateBounds) = Parsed(r)
    BY <1>1 DEF Queues!ParsedAttribute, Queues!CreateBounds, Queues!BooleanAttributes,
                Queues!JsonAttributes, Queues!Allowed
  <2>2. v = Queues!Number(raw.n) /\ Parsed(raw) = {v}
    BY <2>1 DEF Queues!parse_i64_attribute
  <2>3. v.as = raw.as /\ v.n = raw.n
    BY <2>1, <2>2 DEF Queues!parse_i64_attribute, Queues!Number
  <2>4. Parsed(v) = {v}
    BY <2>1, <2>2, <2>3 DEF Queues!parse_i64_attribute
  <2> QED
    BY <2>1, <2>2, <2>4, <1>n
<1>2. CASE a \in Queues!BooleanAttributes
  <2>1. \A r : Queues!ParsedAttribute(a, r, Queues!CreateBounds) = Queues!parse_bool_attribute(r)
    BY <1>2 DEF Queues!ParsedAttribute, Queues!CreateBounds, Queues!BooleanAttributes,
                Queues!JsonAttributes, Queues!Allowed
  <2>2. v = Queues!Lowercase(raw) /\ v \in Queues!Booleans
    BY <2>1 DEF Queues!parse_bool_attribute
  <2>3. Queues!Lowercase(v) = v /\ v # Queues!Null
    BY <2>2, <1>n DEF Queues!Lowercase, Queues!Booleans, Queues!Word
  <2> QED
    BY <2>1, <2>2, <2>3 DEF Queues!parse_bool_attribute
<1>3. CASE a \in Queues!JsonAttributes
  <2>1. \A r : Queues!ParsedAttribute(a, r, Queues!CreateBounds)
                 = Queues!parse_json_string_attribute(a, r)
    BY <1>3 DEF Queues!ParsedAttribute, Queues!CreateBounds, Queues!BooleanAttributes,
                Queues!JsonAttributes, Queues!Allowed
  <2> QED
    BY <2>1, <1>n DEF Queues!parse_json_string_attribute
<1>4. CASE a \in DOMAIN Queues!Allowed
  <2>1. \A r : Queues!ParsedAttribute(a, r, Queues!CreateBounds)
                 = Queues!parse_allowed_string_attribute(a, r)
    BY <1>4 DEF Queues!ParsedAttribute, Queues!CreateBounds, Queues!BooleanAttributes,
                Queues!JsonAttributes, Queues!Allowed
  <2> QED
    BY <2>1, <1>n DEF Queues!parse_allowed_string_attribute
<1>5. CASE a = "KmsMasterKeyId"
  <2>1. \A r : Queues!ParsedAttribute(a, r, Queues!CreateBounds) = {r}
    BY <1>5 DEF Queues!ParsedAttribute, Queues!CreateBounds, Queues!BooleanAttributes,
                Queues!JsonAttributes, Queues!Allowed
  <2> QED
    BY <2>1, <1>n
<1> QED
  BY <1>g, <1>1, <1>2, <1>3, <1>4, <1>5

\* The defaults are texts that CreateQueue would convert to themselves, but for the key.
LEMMA DefaultsStay ==
  ASSUME NEW a \in Queues!CreateQueueAttributes
  PROVE  Column(a, Queues!Default[a])
<1>n. /\ \A n : Queues!Number(n) # Queues!Null
      /\ \A w : Queues!Word(w) # Queues!Null
      /\ \A d : Queues!Json(d) # Queues!Null
  BY DEF Queues!Null, Queues!Number, Queues!Word, Queues!Json
<1>1. CASE a = "KmsMasterKeyId"
  BY <1>1 DEF Column, Queues!Default
<1>2. CASE a \in DOMAIN Queues!CreateBounds
  <2>1. PICK n \in Int : /\ Queues!Default[a] = Queues!Number(n)
                         /\ Queues!CreateBounds[a][1] <= n /\ n <= Queues!CreateBounds[a][2]
    BY <1>2 DEF Queues!Default, Queues!CreateBounds
  <2>2. Queues!ParsedAttribute(a, Queues!Default[a], Queues!CreateBounds) = {Queues!Default[a]}
    BY <1>2, <2>1 DEF Queues!ParsedAttribute, Queues!parse_i64_attribute, Queues!CreateBounds,
      Queues!Number, Queues!BooleanAttributes, Queues!JsonAttributes, Queues!Allowed
  <2> QED
    BY <2>1, <2>2, <1>n DEF Column
<1>3. CASE a \in Queues!BooleanAttributes
  <2>1. Queues!Default[a] = Queues!Word("false")
    BY <1>3 DEF Queues!Default, Queues!BooleanAttributes
  <2>2. Queues!ParsedAttribute(a, Queues!Default[a], Queues!CreateBounds)
          = Queues!parse_bool_attribute(Queues!Default[a])
    BY <1>3 DEF Queues!ParsedAttribute, Queues!CreateBounds, Queues!BooleanAttributes,
                Queues!JsonAttributes, Queues!Allowed
  <2>3. Queues!Lowercase(Queues!Word("false")) = Queues!Word("false")
    BY DEF Queues!Lowercase, Queues!Word
  <2> QED
    BY <2>1, <2>2, <2>3, <1>n DEF Column, Queues!parse_bool_attribute, Queues!Booleans
<1>4. CASE a \in Queues!JsonAttributes
  <2>1. Queues!Default[a] = Queues!EmptyDocument
    BY <1>4 DEF Queues!Default, Queues!JsonAttributes
  <2>2. Queues!ParsedAttribute(a, Queues!Default[a], Queues!CreateBounds)
          = Queues!parse_json_string_attribute(a, Queues!Default[a])
    BY <1>4 DEF Queues!ParsedAttribute, Queues!CreateBounds, Queues!BooleanAttributes,
                Queues!JsonAttributes, Queues!Allowed
  <2>3. Queues!IsJson(Queues!EmptyDocument)
    BY DEF Queues!IsJson, Queues!EmptyDocument, Queues!Json
  <2> QED
    BY <2>1, <2>2, <2>3, <1>n DEF Column, Queues!parse_json_string_attribute,
                                  Queues!EmptyDocument
<1>5. CASE a \in DOMAIN Queues!Allowed
  <2>1. Queues!Default[a] \in Queues!Allowed[a] /\ Queues!Default[a] # Queues!Null
    BY <1>5 DEF Queues!Default, Queues!Allowed, Queues!Word, Queues!Null
  <2>2. Queues!ParsedAttribute(a, Queues!Default[a], Queues!CreateBounds)
          = Queues!parse_allowed_string_attribute(a, Queues!Default[a])
    BY <1>5 DEF Queues!ParsedAttribute, Queues!CreateBounds, Queues!BooleanAttributes,
                Queues!JsonAttributes, Queues!Allowed
  <2> QED
    BY <2>1, <2>2 DEF Column, Queues!parse_allowed_string_attribute
<1> QED
  BY <1>1, <1>2, <1>3, <1>4, <1>5 DEF Queues!CreateQueueAttributes

\* What SetQueueAttributes stores is what CreateQueue would store, or no key.
LEMMA UpdatedStays ==
  ASSUME NEW update, \A x \in DOMAIN update : update[x] \in Queues!Texts,
         Queues!Accepted(update, Queues!SetQueueAttributeNames, Queues!UpdateBounds),
         NEW a \in DOMAIN update
  PROVE  Column(a, Queues!parse_queue_attribute_update(update)[a])
<1>1. Queues!UpdateBounds = Queues!CreateBounds
  BY DEF Queues!UpdateBounds, Queues!CreateBounds
<1>2. a \in Queues!CreateQueueAttributes
  BY DEF Queues!Accepted, Queues!SetQueueAttributeNames
<1>3. PICK v : v \in Queues!ParsedAttribute(a, update[a], Queues!CreateBounds)
  BY <1>1 DEF Queues!Accepted
<1>4. Column(a, v) /\ Queues!ParsedAttribute(a, update[a], Queues!CreateBounds) = {v}
  BY <1>2, <1>3, ConvertedStays
<1>5. Queues!TheOnly({v}) = v
  BY DEF Queues!TheOnly
<1>6. \/ a = "KmsMasterKeyId" /\ Queues!parse_queue_attribute_update(update)[a] = Queues!Null
      \/ Queues!parse_queue_attribute_update(update)[a] = v
  BY <1>1, <1>4, <1>5 DEF Queues!parse_queue_attribute_update
<1> QED
  BY <1>4, <1>6 DEF Column

\* What is computed is not what a queue is created with.
LEMMA ComputedApart ==
  /\ Queues!CreateQueueAttributes \intersect Queues!ComputedAttributes = {}
  /\ "QueueArn" \in Queues!ComputedAttributes
  BY DEF Queues!CreateQueueAttributes, Queues!ComputedAttributes, Queues!CreateBounds,
         Queues!Allowed, Queues!BooleanAttributes, Queues!JsonAttributes

\* Which attributes are shown, and what of them.
LEMMA ShownAre ==
  ASSUME NEW queue, NEW computed, NEW requested
  PROVE  LET shown == Queues!collect_queue_attributes(queue, computed, requested)
         IN  /\ \A a : a \in DOMAIN shown <=>
                  /\ a \in Queues!CreateQueueAttributes \union Queues!ComputedAttributes
                  /\ a \in requested \/ "All" \in requested
                  /\ a \in Queues!ComputedAttributes \/ queue[a] # Queues!Null
             /\ \A a \in DOMAIN shown :
                  /\ a \in Queues!ComputedAttributes => shown[a] = computed[a]
                  /\ a \notin Queues!ComputedAttributes => shown[a] = queue[a]
  BY DEF Queues!collect_queue_attributes

\* What RecreatedFromShown says of an answer, and of what of it can be set.
ShowsRight(queue, shown, settable, requested) ==
  /\ Queues!Accepted(settable, Queues!CreateQueueAttributes, Queues!CreateBounds)
  /\ Queues!Accepted(shown, Queues!CreateQueueAttributes, Queues!CreateBounds)
       <=> DOMAIN shown \intersect Queues!ComputedAttributes = {}
  /\ "All" \in requested =>
       /\ Queues!AnswerToConflict({queue}, Queues!from_attribute_map(settable)) = "QueueUrl"
       /\ ~Queues!Accepted(shown, Queues!CreateQueueAttributes, Queues!CreateBounds)
  /\ \A a \in DOMAIN settable \intersect Queues!SetQueueAttributeNames :
       Queues!queue_attributes(queue)[a] = settable[a]

\* A queue whose columns are converted to themselves can be created anew from what is
\* shown of it and is not computed.
LEMMA ShownIsAccepted ==
  ASSUME NEW queue, \A a \in Queues!CreateQueueAttributes : Column(a, queue[a]),
         NEW computed, NEW requested, NEW shown, NEW settable,
         shown = Queues!collect_queue_attributes(queue, computed, requested),
         settable = [a \in DOMAIN shown \ Queues!ComputedAttributes |-> shown[a]]
  PROVE  ShowsRight(queue, shown, settable, requested)
<1>1. /\ \A a : a \in DOMAIN shown <=>
             /\ a \in Queues!CreateQueueAttributes \union Queues!ComputedAttributes
             /\ a \in requested \/ "All" \in requested
             /\ a \in Queues!ComputedAttributes \/ queue[a] # Queues!Null
      /\ \A a \in DOMAIN shown : a \notin Queues!ComputedAttributes => shown[a] = queue[a]
  BY ShownAre
<1>2. /\ \A a : a \in DOMAIN settable <=>
             /\ a \in Queues!CreateQueueAttributes
             /\ a \in requested \/ "All" \in requested
             /\ queue[a] # Queues!Null
      /\ \A a \in DOMAIN settable : settable[a] = queue[a] /\ settable[a] = shown[a]
  BY <1>1, ComputedApart
<1>3. \A a \in DOMAIN settable :
        Queues!ParsedAttribute(a, settable[a], Queues!CreateBounds) = {queue[a]}
  BY <1>2 DEF Column
<1>4. \A v : Queues!TheOnly({v}) = v
  BY DEF Queues!TheOnly
<1>5. Queues!Accepted(settable, Queues!CreateQueueAttributes, Queues!CreateBounds)
  BY <1>2, <1>3 DEF Queues!Accepted
<1>6. Queues!Accepted(shown, Queues!CreateQueueAttributes, Queues!CreateBounds)
        <=> DOMAIN shown \intersect Queues!ComputedAttributes = {}
  <2>1. CASE DOMAIN shown \intersect Queues!ComputedAttributes = {}
    <3>1. DOMAIN shown = DOMAIN settable
      BY <2>1
    <3>2. \A a \in DOMAIN shown : shown[a] = settable[a]
      BY <1>2, <3>1
    <3> QED
      BY <1>5, <2>1, <3>1, <3>2 DEF Queues!Accepted
  <2>2. CASE DOMAIN shown \intersect Queues!ComputedAttributes # {}
    BY <2>2, ComputedApart DEF Queues!Accepted
  <2> QED
    BY <2>1, <2>2
<1>7. ASSUME "All" \in requested
      PROVE  /\ Queues!AnswerToConflict({queue}, Queues!from_attribute_map(settable)) = "QueueUrl"
             /\ ~Queues!Accepted(shown, Queues!CreateQueueAttributes, Queues!CreateBounds)
  <2>1. ASSUME NEW a \in Queues!CreateQueueAttributes
        PROVE  queue[a] = Queues!from_attribute_map(settable)[a]
    <3>1. CASE a \in DOMAIN settable
      BY <3>1, <1>3, <1>4 DEF Queues!from_attribute_map
    <3>2. CASE a \notin DOMAIN settable
      <4>1. queue[a] = Queues!Null /\ a = "KmsMasterKeyId"
        BY <1>2, <1>7, <3>2 DEF Column
      <4>2. Queues!Default[a] = Queues!Null
        BY <4>1 DEF Queues!Default
      <4> QED
        BY <3>2, <4>1, <4>2 DEF Queues!from_attribute_map
    <3> QED
      BY <3>1, <3>2
  <2>2. Queues!queue_configuration_matches(queue, Queues!from_attribute_map(settable))
    BY <2>1 DEF Queues!queue_configuration_matches
  <2>3. "QueueArn" \in DOMAIN shown \intersect Queues!ComputedAttributes
    BY <1>1, <1>7, ComputedApart
  <2> QED
    BY <1>6, <2>2, <2>3 DEF Queues!AnswerToConflict
<1>8. \A a \in DOMAIN settable \intersect Queues!SetQueueAttributeNames :
        Queues!queue_attributes(queue)[a] = settable[a]
  BY <1>2 DEF Queues!queue_attributes
<1> QED
  BY <1>5, <1>6, <1>7, <1>8 DEF ShowsRight

\* Whatever texts a queue was created with and updated with, its columns hold values that
\* are converted to themselves.
LEMMA QueueColumns ==
  ASSUME NEW create, \A a \in DOMAIN create : create[a] \in Queues!Texts,
         NEW update, \A a \in DOMAIN update : update[a] \in Queues!Texts,
         Queues!Accepted(create, Queues!CreateQueueAttributes, Queues!CreateBounds)
  PROVE  \A a \in Queues!CreateQueueAttributes : Column(a, Queues!QueueAfter(create, update)[a])
<1> DEFINE made == Queues!from_attribute_map(create)
           written == Queues!parse_queue_attribute_update(update)
<1>1. ASSUME NEW a \in Queues!CreateQueueAttributes
      PROVE  Column(a, made[a])
  <2>1. CASE a \in DOMAIN create
    <3>1. PICK v : v \in Queues!ParsedAttribute(a, create[a], Queues!CreateBounds)
      BY <2>1 DEF Queues!Accepted
    <3>2. Column(a, v) /\ Queues!ParsedAttribute(a, create[a], Queues!CreateBounds) = {v}
      BY <2>1, <3>1, ConvertedStays
    <3>3. Queues!TheOnly({v}) = v
      BY DEF Queues!TheOnly
    <3> QED
      BY <2>1, <3>2, <3>3 DEF Queues!from_attribute_map
  <2>2. CASE a \notin DOMAIN create
    BY <2>2, DefaultsStay DEF Queues!from_attribute_map
  <2> QED
    BY <2>1, <2>2
<1>2. ASSUME Queues!Accepted(update, Queues!SetQueueAttributeNames, Queues!UpdateBounds),
             NEW a \in Queues!CreateQueueAttributes
      PROVE  Column(a, Queues!Updated(made, written)[a])
  <2>1. DOMAIN written = DOMAIN update
    BY DEF Queues!parse_queue_attribute_update
  <2>2. CASE a \in DOMAIN update
    <3>1. Column(a, written[a])
      BY <1>2, <2>2, UpdatedStays
    <3> QED
      BY <2>1, <2>2, <3>1 DEF Queues!Updated
  <2>3. CASE a \notin DOMAIN update
    BY <2>1, <2>3, <1>1 DEF Queues!Updated
  <2> QED
    BY <2>2, <2>3
<1> QED
  BY <1>1, <1>2 DEF Queues!QueueAfter

\* Whatever texts a queue was created with and updated with, it can be created anew from
\* what is shown of it and is not computed.
LEMMA Recreated ==
  ASSUME NEW create, \A a \in DOMAIN create : create[a] \in Queues!Texts,
         NEW update, \A a \in DOMAIN update : update[a] \in Queues!Texts,
         NEW computed, NEW requested
  PROVE  Queues!RecreatedFromShown(create, update, computed, requested)
<1> SUFFICES ASSUME Queues!Accepted(create, Queues!CreateQueueAttributes, Queues!CreateBounds)
             PROVE  Queues!RecreatedFromShown(create, update, computed, requested)
  BY DEF Queues!RecreatedFromShown
<1>1. \A a \in Queues!CreateQueueAttributes : Column(a, Queues!QueueAfter(create, update)[a])
  BY QueueColumns
<1>2. PICK queue : /\ queue = Queues!QueueAfter(create, update)
                   /\ \A a \in Queues!CreateQueueAttributes : Column(a, queue[a])
  BY <1>1
<1>3. PICK shown : shown = Queues!collect_queue_attributes(queue, computed, requested)
  OBVIOUS
<1>4. PICK settable : settable = [a \in DOMAIN shown \ Queues!ComputedAttributes |-> shown[a]]
  OBVIOUS
<1>5. ShowsRight(queue, shown, settable, requested)
  BY <1>2, <1>3, <1>4, ShownIsAccepted
<1> QED
  BY <1>2, <1>3, <1>4, <1>5, Zenon DEF ShowsRight, Queues!RecreatedFromShown

\* Two queues show the same exactly when they have the same columns.
LEMMA SameShown ==
  ASSUME NEW q, NEW w, NEW computed
  PROVE  Queues!queue_configuration_matches(q, w) <=>
           Queues!collect_queue_attributes(q, computed, {"All"})
             = Queues!collect_queue_attributes(w, computed, {"All"})
<1> DEFINE s == Queues!collect_queue_attributes(q, computed, {"All"})
           t == Queues!collect_queue_attributes(w, computed, {"All"})
<1>1. /\ \A a \in Queues!CreateQueueAttributes :
           /\ a \in DOMAIN s <=> q[a] # Queues!Null
           /\ a \in DOMAIN t <=> w[a] # Queues!Null
           /\ a \in DOMAIN s => s[a] = q[a]
           /\ a \in DOMAIN t => t[a] = w[a]
  BY ComputedApart, ShownAre
<1>2. ASSUME s = t, NEW a \in Queues!CreateQueueAttributes
      PROVE  q[a] = w[a]
  <2> HIDE DEF s, t
  <2> QED
    BY <1>1, <1>2
<1>3. ASSUME \A a \in Queues!CreateQueueAttributes : q[a] = w[a]
      PROVE  s = t
  <2> DEFINE D(x) == {a \in Queues!CreateQueueAttributes \union Queues!ComputedAttributes :
                        /\ a \in {"All"} \/ "All" \in {"All"}
                        /\ a \in Queues!ComputedAttributes \/ x[a] # Queues!Null}
  <2>1. D(q) = D(w)
    BY <1>3
  <2>2. \A a \in D(q) : (IF a \in Queues!ComputedAttributes THEN computed[a] ELSE q[a])
                          = (IF a \in Queues!ComputedAttributes THEN computed[a] ELSE w[a])
    BY <1>3
  <2> QED
    BY <2>1, <2>2 DEF Queues!collect_queue_attributes
<1> QED
  BY <1>2, <1>3 DEF Queues!queue_configuration_matches

\* A CreateQueue that finds its name in use is answered by what its second read finds.
LEMMA ConflictAnswered ==
  ASSUME NEW create, NEW update, NEW again, NEW computed, NEW there \in BOOLEAN
  PROVE  Queues!ConflictTold(create, update, again, computed, there)
<1> DEFINE queue == Queues!QueueAfter(create, update)
           wanted == Queues!from_attribute_map(again)
           found == IF there THEN {queue} ELSE {}
           answer == Queues!AnswerToConflict(found, wanted)
<1>1. there => (answer = "QueueUrl" <=> Queues!queue_configuration_matches(queue, wanted))
  BY DEF Queues!AnswerToConflict
<1>2. /\ ~there => answer = "InternalError"
      /\ there => answer \in {"QueueUrl", "QueueAlreadyExists"}
  BY DEF Queues!AnswerToConflict
<1>3. Queues!queue_configuration_matches(queue, wanted) <=>
        Queues!collect_queue_attributes(queue, computed, {"All"})
          = Queues!collect_queue_attributes(wanted, computed, {"All"})
  BY SameShown
<1> HIDE DEF answer
<1>4. /\ answer = "QueueUrl" <=>
           there /\ Queues!collect_queue_attributes(queue, computed, {"All"})
                      = Queues!collect_queue_attributes(wanted, computed, {"All"})
      /\ answer = "InternalError" <=> ~there
  BY <1>1, <1>2, <1>3
<1> QED
  BY <1>4 DEF Queues!ConflictTold, answer

\* The name of a queue is one that GetQueueUrl accepts, and its URL leads back to it.
LEMMA FoundAgain ==
  ASSUME NEW name, NEW type, NEW host, NEW region, NEW account
  PROVE  Queues!FoundByItsUrl(name, type, host, region, account)
<1>1. Queues!validate_queue_name(name, type = "fifo") \/ Queues!ConsoleValidQueueName(name, type)
        => Queues!ValidForGetQueueUrl(name)
  BY DEF Queues!validate_queue_name, Queues!ConsoleValidQueueName, Queues!ValidForGetQueueUrl
<1>2. host.region \in {Queues!NoRegion, region} =>
        Queues!parse_queue_url(Queues!queue_url(host, account, name), region)
          = [account_id |-> account, name |-> name, region |-> region]
  BY DEF Queues!parse_queue_url, Queues!queue_url
<1> QED
  BY <1>1, <1>2 DEF Queues!FoundByItsUrl

\* For queues made and changed with any attributes, whatever their texts: a queue can be
\* created anew from what is shown of it and is not computed, a CreateQueue of a name in
\* use is answered by what it finds there, and a queue is found by its name and its URL.
THEOREM QueuesFoundAsMade == InputsSpec => []QueueFoundAsMade
<1>1. (input.kind = "queue" => input \in QueueInputs) => QueueFoundAsMade
  BY QueueAssumption, Recreated, ConflictAnswered, FoundAgain DEF QueueFoundAsMade
<1>2. InputsInit => (input.kind = "queue" => input \in QueueInputs)
  BY KindAssumption DEF InputsInit, NoInput
<1>3. ASSUME input.kind = "queue" => input \in QueueInputs,
             [InputsNext]_<<policy, input>>
      PROVE  (input.kind = "queue" => input \in QueueInputs)'
  <2>1. input' = input
    BY <1>3, Zenon DEF InputsNext
  <2> QED
    BY <1>3, <2>1
<1> QED
  BY <1>1, <1>2, <1>3, PTL DEF InputsSpec

--------------------------------------------------------------------------------
(* Topics and subscriptions: their attributes, ARNs and tags. *)

\* The attributes that a form's entries come to are texts of those entries.
LEMMA EntriesAreTexts ==
  ASSUME NEW K, NEW V, NEW entries \in Seq([key : Seq(K), value : Seq(V)]),
         NEW attributes \in Sns!SnsEntries(entries)
  PROVE  /\ \A a \in DOMAIN attributes : a \in K /\ attributes[a] \in V
         /\ IsFiniteSet(DOMAIN attributes)
<1> DEFINE complete == {i \in DOMAIN entries : entries[i].key # <<>> /\ entries[i].value # <<>>}
           keys == {entries[i].key[1] : i \in complete}
<1>1. PICK p \in [keys -> complete] : attributes = [k \in keys |-> entries[p[k]].value[1]]
  BY DEF Sns!SnsEntries
<1>2. \A i \in complete : entries[i].key[1] \in K /\ entries[i].value[1] \in V
  <2> SUFFICES ASSUME NEW i \in complete
               PROVE  entries[i].key[1] \in K /\ entries[i].value[1] \in V
    OBVIOUS
  <2>1. entries[i] \in [key : Seq(K), value : Seq(V)]
    <3> DEFINE E == [key : Seq(K), value : Seq(V)]
    <3>1. entries \in Seq(E) /\ i \in DOMAIN entries
      OBVIOUS
    <3> HIDE DEF E
    <3>2. entries[i] \in E
      BY <3>1, ElementOfSeq
    <3> QED
      BY <3>2 DEF E
  <2>2. Len(entries[i].key) >= 1 /\ Len(entries[i].value) >= 1
    BY <2>1
  <2> QED
    BY <2>1, <2>2
<1>3. IsFiniteSet(complete)
  <2>1. IsFiniteSet(1..Len(entries))
    BY FS_Interval
  <2> QED
    BY <2>1, FS_Subset
<1>4. IsFiniteSet(keys)
  <2> DEFINE f == [i \in complete |-> entries[i].key[1]]
  <2>1. f \in Surjection(complete, keys)
    BY DEF Surjection
  <2> QED
    BY <1>3, <2>1, FS_Surjection
<1> HIDE DEF keys, complete
<1> QED
  BY <1>1, <1>2, <1>4 DEF keys

\* Texts are no nulls.
LEMMA TextsAreThere == \A t \in Sns!Texts : t # Sns!Null
BY DEF Sns!Texts, Sns!Null, Sns!EmptyText

\* The columns of topics are the attributes that are accepted and stored.
LEMMA TopicColumnsStored ==
  /\ Sns!VALID_TOPIC_ATTRIBUTES \ Sns!FeedbackAttributes = Sns!TopicColumns
  /\ Sns!TopicColumns \subseteq Sns!VALID_TOPIC_ATTRIBUTES
  /\ "Policy" \in Sns!TopicColumns /\ "FifoTopic" \in Sns!TopicColumns
BY DEF Sns!VALID_TOPIC_ATTRIBUTES, Sns!FeedbackAttributes, Sns!TopicColumns

\* A row that has every attribute that was given, and no other but the policy.
TopicRow(row, given) ==
  /\ DOMAIN row = Sns!TopicColumns
  /\ \A c \in Sns!TopicColumns :
       row[c] = IF c \in DOMAIN given THEN given[c]
                ELSE IF c = "Policy" THEN Sns!EmptyDocument ELSE Sns!Null

\* What is shown of such a row is what was given.
LEMMA ShownOfRow ==
  ASSUME NEW row, NEW given, TopicRow(row, given),
         \A a \in DOMAIN given : given[a] \in Sns!Texts,
         DOMAIN given \subseteq Sns!VALID_TOPIC_ATTRIBUTES,
         \A a \in DOMAIN given : Sns!validate_json_attribute(a, given[a])
  PROVE  LET shown == Sns!handle_get_topic_attributes(row)
         IN  /\ \A a \in DOMAIN given \ Sns!FeedbackAttributes :
                  a \in DOMAIN shown /\ (shown[a] = given[a] \/ shown[a] = Sns!DefaultPolicy)
             /\ \A a \in DOMAIN shown : a # "Policy" => a \in DOMAIN given /\ shown[a] = given[a]
             /\ DOMAIN shown \subseteq Sns!TopicColumns
             /\ \A a \in DOMAIN shown : Sns!validate_json_attribute(a, shown[a])
<1> DEFINE shown == Sns!handle_get_topic_attributes(row)
<1>1. /\ DOMAIN shown = {c \in Sns!TopicColumns : row[c] # Sns!Null}
      /\ \A a \in DOMAIN shown :
           shown[a] = IF a = "Policy" THEN Sns!topic_policy_attribute_value(row[a]) ELSE row[a]
  BY DEF Sns!handle_get_topic_attributes
<1> HIDE DEF shown
<1>2. \A t : Sns!topic_policy_attribute_value(t) = t
             \/ Sns!topic_policy_attribute_value(t) = Sns!DefaultPolicy
  BY DEF Sns!topic_policy_attribute_value
<1>3. \A a \in DOMAIN given \ Sns!FeedbackAttributes : a \in DOMAIN shown /\ row[a] = given[a]
  BY <1>1, TopicColumnsStored, TextsAreThere DEF TopicRow
<1>4. \A a \in DOMAIN given \ Sns!FeedbackAttributes :
        a \in DOMAIN shown /\ (shown[a] = given[a] \/ shown[a] = Sns!DefaultPolicy)
  BY <1>1, <1>2, <1>3
<1>5. \A a \in DOMAIN shown : a # "Policy" => a \in DOMAIN given /\ shown[a] = given[a]
  BY <1>1 DEF TopicRow
<1>6. Sns!IsJson(Sns!DefaultPolicy) /\ Sns!IsJson(Sns!EmptyDocument)
  BY DEF Sns!IsJson, Sns!DefaultPolicy, Sns!EmptyDocument, Sns!Json
<1>7. ASSUME NEW a \in DOMAIN shown
      PROVE  Sns!validate_json_attribute(a, shown[a])
  <2>1. CASE a # "Policy"
    BY <2>1, <1>5
  <2>2. CASE a = "Policy"
    <3>1. row[a] = Sns!EmptyDocument \/ (a \in DOMAIN given /\ row[a] = given[a])
      BY <2>2, TopicColumnsStored DEF TopicRow
    <3>2. Sns!validate_json_attribute(a, row[a])
      BY <3>1, <1>6 DEF Sns!validate_json_attribute
    <3>3. shown[a] = row[a] \/ shown[a] = Sns!DefaultPolicy
      BY <1>1, <1>2
    <3> QED
      BY <3>2, <3>3, <1>6 DEF Sns!validate_json_attribute
  <2> QED
    BY <2>1, <2>2
<1> QED
  BY <1>1, <1>4, <1>5, <1>7 DEF shown

\* CreateTopic, and a SetTopicAttributes after it.
LEMMA TopicsShown ==
  ASSUME NEW entries \in Seq([key : Seq(STRING), value : Seq(Sns!Texts)]),
         NEW name, NEW set, NEW value \in Sns!Texts
  PROVE  Sns!TopicShownAsSet(name, entries, set, value)
<1> SUFFICES ASSUME NEW attributes \in Sns!SnsAttributes(entries),
                    Sns!CreateTopicAccepts(name, attributes)
             PROVE  LET accepted == Sns!SetTopicAttributesAccepts(set, value)
                        made == Sns!NewTopic(attributes)
                        topic == IF accepted
                                   THEN Sns!UpdatedRow(made,
                                          Sns!from_attribute_name_and_value(Sns!TopicColumns, set, value))
                                   ELSE made
                        shown == Sns!handle_get_topic_attributes(topic)
                        given == IF accepted THEN Sns!With(attributes, set, value) ELSE attributes
                    IN  /\ \A a \in DOMAIN given \ Sns!FeedbackAttributes :
                             a \in DOMAIN shown
                             /\ (shown[a] = given[a] \/ shown[a] = Sns!DefaultPolicy)
                        /\ DOMAIN shown \subseteq DOMAIN given \union {"Policy"}
                        /\ Sns!CreateTopicAccepts(name, shown) \/ (accepted /\ set = "FifoTopic")
  BY DEF Sns!TopicShownAsSet
<1> DEFINE accepted == Sns!SetTopicAttributesAccepts(set, value)
           made == Sns!NewTopic(attributes)
           update == Sns!from_attribute_name_and_value(Sns!TopicColumns, set, value)
           topic == IF accepted THEN Sns!UpdatedRow(made, update) ELSE made
           shown == Sns!handle_get_topic_attributes(topic)
           given == IF accepted THEN Sns!With(attributes, set, value) ELSE attributes
<1>1. \A a \in DOMAIN attributes : attributes[a] \in Sns!Texts
  BY EntriesAreTexts DEF Sns!SnsAttributes
<1>2. TopicRow(made, attributes)
  BY DEF TopicRow, Sns!NewTopic
<1>3. /\ DOMAIN Sns!With(attributes, set, value) = DOMAIN attributes \union {set}
      /\ \A a \in DOMAIN attributes \union {set} :
           Sns!With(attributes, set, value)[a] = IF a = set THEN value ELSE attributes[a]
  BY DEF Sns!With
<1>4. ASSUME accepted
      PROVE  TopicRow(Sns!UpdatedRow(made, update), Sns!With(attributes, set, value))
  <2>1. /\ DOMAIN update = Sns!TopicColumns \intersect {set}
        /\ \A c \in DOMAIN update : update[c] = value
    BY DEF Sns!from_attribute_name_and_value
  <2>2. /\ DOMAIN Sns!UpdatedRow(made, update) = Sns!TopicColumns
        /\ \A c \in Sns!TopicColumns :
             Sns!UpdatedRow(made, update)[c] = IF c \in DOMAIN update THEN update[c] ELSE made[c]
    BY <1>2 DEF TopicRow, Sns!UpdatedRow
  <2> HIDE DEF update, made
  <2> QED
    BY <2>1, <2>2, <1>2, <1>3 DEF TopicRow
<1>5. /\ TopicRow(topic, given)
      /\ \A a \in DOMAIN given : given[a] \in Sns!Texts
      /\ DOMAIN given \subseteq Sns!VALID_TOPIC_ATTRIBUTES
      /\ \A a \in DOMAIN given : Sns!validate_json_attribute(a, given[a])
  <2>1. CASE accepted
    BY <2>1, <1>1, <1>3, <1>4 DEF Sns!SetTopicAttributesAccepts, Sns!CreateTopicAccepts
  <2>2. CASE ~accepted
    BY <2>2, <1>1, <1>2 DEF Sns!CreateTopicAccepts
  <2> QED
    BY <2>1, <2>2
<1>6. \/ accepted /\ set = "FifoTopic"
      \/ /\ "FifoTopic" \in DOMAIN given <=> "FifoTopic" \in DOMAIN attributes
         /\ "FifoTopic" \in DOMAIN given => given["FifoTopic"] = attributes["FifoTopic"]
  BY <1>3
<1> HIDE DEF accepted, topic, given
<1>7. /\ \A a \in DOMAIN given \ Sns!FeedbackAttributes :
           a \in DOMAIN shown /\ (shown[a] = given[a] \/ shown[a] = Sns!DefaultPolicy)
      /\ \A a \in DOMAIN shown : a # "Policy" => a \in DOMAIN given /\ shown[a] = given[a]
      /\ DOMAIN shown \subseteq Sns!TopicColumns
      /\ \A a \in DOMAIN shown : Sns!validate_json_attribute(a, shown[a])
  BY <1>5, ShownOfRow
<1> HIDE DEF shown
<1>8. "FifoTopic" \in DOMAIN given => "FifoTopic" \in DOMAIN shown
  <2>1. "FifoTopic" \notin Sns!FeedbackAttributes
    BY DEF Sns!FeedbackAttributes
  <2> QED
    BY <2>1, <1>7
<1>9. Sns!CreateTopicAccepts(name, shown) \/ (accepted /\ set = "FifoTopic")
  <2> SUFFICES ASSUME ~(accepted /\ set = "FifoTopic")
               PROVE  Sns!CreateTopicAccepts(name, shown)
    OBVIOUS
  <2>1. /\ "FifoTopic" \in DOMAIN shown <=> "FifoTopic" \in DOMAIN attributes
        /\ "FifoTopic" \in DOMAIN shown => shown["FifoTopic"] = attributes["FifoTopic"]
    BY <1>6, <1>7, <1>8
  <2>2. Sns!validate_topic_name(name, shown)
    BY <2>1 DEF Sns!CreateTopicAccepts, Sns!validate_topic_name
  <2> QED
    BY <2>2, <1>7, TopicColumnsStored DEF Sns!CreateTopicAccepts
<1> QED
  BY <1>7, <1>9 DEF accepted, given, topic, shown

\* The columns of a subscription are the attributes that are accepted.
LEMMA SubscriptionColumnsStored ==
  /\ Sns!SubscriptionColumns = Sns!VALID_SUBSCRIPTION_ATTRIBUTES
  /\ "RawMessageDelivery" \in Sns!SubscriptionColumns
BY DEF Sns!SubscriptionColumns, Sns!VALID_SUBSCRIPTION_ATTRIBUTES

\* A row that has the attributes that were given and no other.
SubscriptionRow(row, given) ==
  /\ DOMAIN row = Sns!SubscriptionColumns
  /\ \A c \in Sns!SubscriptionColumns : row[c] = IF c \in DOMAIN given THEN given[c] ELSE Sns!Null

\* Raw delivery goes by the text true alone; the texts True and TRUE are shown as they came.
LEMMA RawSpellings ==
  ASSUME NEW row, NEW given, SubscriptionRow(row, given),
         \A a \in DOMAIN given : given[a] \in Sns!Texts,
         DOMAIN given \subseteq Sns!SubscriptionColumns
  PROVE  LET shown == Sns!handle_get_subscription_attributes(row)
         IN  /\ \A a \in DOMAIN given : a \in DOMAIN shown /\ shown[a] = given[a]
             /\ DOMAIN shown \subseteq DOMAIN given \union {"RawMessageDelivery"}
             /\ Sns!raw_delivery(row) # Sns!IsTrueIgnoringCase(shown["RawMessageDelivery"])
                  <=> shown["RawMessageDelivery"] \in {Sns!Word("True"), Sns!Word("TRUE")}
<1> DEFINE shown == Sns!handle_get_subscription_attributes(row)
<1>1. /\ DOMAIN shown = {c \in Sns!SubscriptionColumns : row[c] # Sns!Null}
                          \union {"RawMessageDelivery"}
      /\ \A a \in DOMAIN shown :
           shown[a] = IF row[a] = Sns!Null THEN Sns!Word("false") ELSE row[a]
  BY DEF Sns!handle_get_subscription_attributes
<1> HIDE DEF shown
<1>2. \A a \in DOMAIN given : a \in DOMAIN shown /\ shown[a] = given[a]
  BY <1>1, TextsAreThere DEF SubscriptionRow
<1>3. DOMAIN shown \subseteq DOMAIN given \union {"RawMessageDelivery"}
  BY <1>1 DEF SubscriptionRow
<1>4. /\ Sns!Word("true") # Sns!Word("True") /\ Sns!Word("true") # Sns!Word("TRUE")
      /\ Sns!Word("true") # Sns!Word("false") /\ Sns!Word("True") # Sns!Word("false")
      /\ Sns!Word("TRUE") # Sns!Word("false") /\ Sns!Word("true") # Sns!Null
  BY DEF Sns!Word, Sns!Null
<1>5. Sns!raw_delivery(row) <=> shown["RawMessageDelivery"] = Sns!Word("true")
  BY <1>1, <1>4 DEF Sns!raw_delivery
<1>6. (~(Sns!raw_delivery(row) <=> Sns!IsTrueIgnoringCase(shown["RawMessageDelivery"])))
        <=> shown["RawMessageDelivery"] \in {Sns!Word("True"), Sns!Word("TRUE")}
  BY <1>4, <1>5 DEF Sns!IsTrueIgnoringCase
<1>7. Sns!raw_delivery(row) \in BOOLEAN
      /\ Sns!IsTrueIgnoringCase(shown["RawMessageDelivery"]) \in BOOLEAN
  BY DEF Sns!raw_delivery, Sns!IsTrueIgnoringCase
<1> QED
  BY <1>2, <1>3, <1>6, <1>7 DEF shown

\* Subscribe, and a SetSubscriptionAttributes after it; and the console's check box and
\* button.
LEMMA SubscriptionsShown ==
  ASSUME NEW attributes, \A a \in DOMAIN attributes : attributes[a] \in Sns!Texts,
         NEW set, NEW value \in Sns!Texts, NEW checked \in BOOLEAN
  PROVE  Sns!SubscriptionShownAsSet(attributes, set, value, checked)
<1> DEFINE accepted == Sns!SetSubscriptionAttributesAccepts(set, value)
           made == Sns!NewSubscription(attributes)
           update == Sns!from_attribute_name_and_value(Sns!SubscriptionColumns, set, value)
           sub == IF accepted THEN Sns!UpdatedRow(made, update) ELSE made
           shown == Sns!handle_get_subscription_attributes(sub)
           given == IF accepted THEN Sns!With(attributes, set, value) ELSE attributes
           Shown == /\ \A a \in DOMAIN given : a \in DOMAIN shown /\ shown[a] = given[a]
                    /\ DOMAIN shown \subseteq DOMAIN given \union {"RawMessageDelivery"}
                    /\ Sns!raw_delivery(sub) # Sns!IsTrueIgnoringCase(shown["RawMessageDelivery"])
                         <=> shown["RawMessageDelivery"] \in {Sns!Word("True"), Sns!Word("TRUE")}
           box == Sns!ConsoleSubscription(checked)
           button == Sns!update_subscription_raw_message_delivery(box, value)
<1>1. ASSUME Sns!SubscribeAccepts("sqs", attributes)
      PROVE  Shown
  <2>1. SubscriptionRow(made, attributes)
    BY DEF SubscriptionRow, Sns!NewSubscription
  <2>2. /\ DOMAIN Sns!With(attributes, set, value) = DOMAIN attributes \union {set}
        /\ \A a \in DOMAIN attributes \union {set} :
             Sns!With(attributes, set, value)[a] = IF a = set THEN value ELSE attributes[a]
    BY DEF Sns!With
  <2>3. ASSUME accepted
        PROVE  /\ set \in Sns!SubscriptionColumns
               /\ SubscriptionRow(Sns!UpdatedRow(made, update), Sns!With(attributes, set, value))
    <3>1. set \in Sns!SubscriptionColumns
      BY <2>3, SubscriptionColumnsStored
         DEF Sns!SetSubscriptionAttributesAccepts, Sns!SubscribeAccepts
    <3>2. /\ DOMAIN update = Sns!SubscriptionColumns \intersect {set}
          /\ \A c \in DOMAIN update : update[c] = value
      BY DEF Sns!from_attribute_name_and_value
    <3>3. /\ DOMAIN Sns!UpdatedRow(made, update) = Sns!SubscriptionColumns
          /\ \A c \in Sns!SubscriptionColumns :
               Sns!UpdatedRow(made, update)[c] = IF c \in DOMAIN update THEN update[c] ELSE made[c]
      BY <2>1 DEF SubscriptionRow, Sns!UpdatedRow
    <3> HIDE DEF update, made
    <3> QED
      BY <3>1, <3>2, <3>3, <2>1, <2>2 DEF SubscriptionRow
  <2>4. /\ SubscriptionRow(sub, given)
        /\ \A a \in DOMAIN given : given[a] \in Sns!Texts
        /\ DOMAIN given \subseteq Sns!SubscriptionColumns
    <3>1. CASE accepted
      BY <1>1, <3>1, <2>2, <2>3, SubscriptionColumnsStored DEF Sns!SubscribeAccepts
    <3>2. CASE ~accepted
      BY <1>1, <3>2, <2>1, SubscriptionColumnsStored DEF Sns!SubscribeAccepts
    <3> QED
      BY <3>1, <3>2
  <2> HIDE DEF sub, given
  <2> QED
    BY <2>4, RawSpellings
<1>2. Sns!raw_delivery(button)
        = Sns!IsTrueIgnoringCase(Sns!handle_get_subscription_attributes(button)["RawMessageDelivery"])
  <2>1. DOMAIN box = Sns!SubscriptionColumns
    BY DEF Sns!ConsoleSubscription, Sns!NewSubscription
  <2>2. \/ button["RawMessageDelivery"] = Sns!Word("true")
        \/ button["RawMessageDelivery"] = Sns!Word("false")
    BY <2>1, SubscriptionColumnsStored
       DEF Sns!update_subscription_raw_message_delivery, Sns!UpdatedRow
  <2> HIDE DEF button
  <2>3. /\ Sns!Word("true") # Sns!Word("false") /\ Sns!Word("false") # Sns!Null
        /\ Sns!Word("true") # Sns!Null /\ Sns!Word("false") # Sns!Word("True")
        /\ Sns!Word("false") # Sns!Word("TRUE")
    BY DEF Sns!Word, Sns!Null
  <2>4. Sns!handle_get_subscription_attributes(button)["RawMessageDelivery"]
          = button["RawMessageDelivery"]
    BY <2>2, <2>3 DEF Sns!handle_get_subscription_attributes
  <2>5. Sns!raw_delivery(button) <=> Sns!IsTrueIgnoringCase(button["RawMessageDelivery"])
    BY <2>2, <2>3 DEF Sns!raw_delivery, Sns!IsTrueIgnoringCase
  <2>6. Sns!raw_delivery(button) \in BOOLEAN
        /\ Sns!IsTrueIgnoringCase(button["RawMessageDelivery"]) \in BOOLEAN
    BY DEF Sns!raw_delivery, Sns!IsTrueIgnoringCase
  <2> QED
    BY <2>4, <2>5, <2>6
<1> QED
  BY <1>1, <1>2 DEF Sns!SubscriptionShownAsSet

\* Where the elements of three sequences are in their concatenation.
LEMMA ThreeParts ==
  ASSUME NEW S, NEW u \in Seq(S), NEW v \in Seq(S), NEW w \in Seq(S)
  PROVE  /\ u \o v \o w \in Seq(S)
         /\ Len(u \o v \o w) = Len(u) + Len(v) + Len(w)
         /\ \A i \in 1..Len(u) : (u \o v \o w)[i] = u[i]
         /\ \A i \in 1..Len(v) : (u \o v \o w)[Len(u) + i] = v[i]
         /\ \A i \in 1..Len(w) : (u \o v \o w)[Len(u) + Len(v) + i] = w[i]
<1>1. /\ u \o v \in Seq(S) /\ Len(u \o v) = Len(u) + Len(v)
      /\ \A i \in 1..Len(u) + Len(v) : (u \o v)[i] = IF i <= Len(u) THEN u[i] ELSE v[i - Len(u)]
  BY ConcatProperties
<1> DEFINE x == u \o v
           m == Len(u)
           n == Len(v)
           k == Len(w)
<1>2. x \in Seq(S) /\ Len(x) = m + n /\ m \in Nat /\ n \in Nat /\ k \in Nat
  BY <1>1
<1>3. \A i \in 1..m + n : x[i] = IF i <= m THEN u[i] ELSE v[i - m]
  BY <1>1
<1> HIDE DEF x
<1>4. /\ x \o w \in Seq(S) /\ Len(x \o w) = Len(x) + Len(w)
      /\ \A i \in 1..Len(x) + Len(w) : (x \o w)[i] = IF i <= Len(x) THEN x[i] ELSE w[i - Len(x)]
  <2>1. x \in Seq(S) /\ w \in Seq(S)
    BY <1>2
  <2> QED
    BY ONLY <2>1, ConcatProperties
<1> DEFINE y == x \o w
<1>5. y \in Seq(S) /\ Len(y) = m + n + k
  BY <1>2, <1>4
<1>6. \A i \in 1..m + n + k : y[i] = IF i <= m + n THEN x[i] ELSE w[i - (m + n)]
  BY <1>2, <1>4
<1> HIDE DEF y, m, n, k
<1>7. ASSUME NEW i \in 1..m
      PROVE  y[i] = u[i]
  BY <1>2, <1>3, <1>6
<1>8. ASSUME NEW i \in 1..n
      PROVE  y[m + i] = v[i]
  <2>1. m + i \in 1..m + n /\ m + i \in 1..m + n + k /\ ~(m + i <= m) /\ (m + i) - m = i
    BY <1>2
  <2> QED
    BY <2>1, <1>2, <1>3, <1>6
<1>9. ASSUME NEW i \in 1..k
      PROVE  y[m + n + i] = w[i]
  <2>1. /\ m + n + i \in 1..m + n + k /\ ~(m + n + i <= m + n)
        /\ (m + n + i) - (m + n) = i
    BY <1>2
  <2> QED
    BY <2>1, <1>6
<1> QED
  BY <1>5, <1>7, <1>8, <1>9 DEF x, y, m, n, k

\* Tuples are sequences.
LEMMA ShortTuples ==
  ASSUME NEW S, NEW p \in S, NEW q \in S, NEW r \in S
  PROVE  /\ <<p>> \in Seq(S) /\ Len(<<p>>) = 1 /\ <<p>>[1] = p
         /\ <<p, q>> \in Seq(S) /\ Len(<<p, q>>) = 2 /\ <<p, q>>[1] = p /\ <<p, q>>[2] = q
         /\ <<p, q, r>> \in Seq(S) /\ Len(<<p, q, r>>) = 3
         /\ <<p, q, r>>[1] = p /\ <<p, q, r>>[2] = q /\ <<p, q, r>>[3] = r
OBVIOUS

\* The first three elements of a sequence.
LEMMA FirstThree ==
  ASSUME NEW S, NEW s \in Seq(S), Len(s) >= 3
  PROVE  SubSeq(s, 1, 3) = <<s[1], s[2], s[3]>>
<1> DEFINE u == SubSeq(s, 1, 3)
           v == <<s[1], s[2], s[3]>>
<1>1. s[1] \in S /\ s[2] \in S /\ s[3] \in S /\ \A i \in 1..3 : s[i] \in S
  OBVIOUS
<1>2. v \in Seq(S) /\ Len(v) = 3 /\ v[1] = s[1] /\ v[2] = s[2] /\ v[3] = s[3]
  BY ONLY <1>1, ShortTuples
<1>3. u \in Seq(S) /\ Len(u) = 3 /\ \A i \in 1..3 : u[i] = s[1 + i - 1]
  BY <1>1, SubSeqProperties
<1> HIDE DEF u, v
<1>4. \A i \in 1..Len(u) : u[i] = v[i]
  <2>1. 1..3 = {1, 2, 3}
    OBVIOUS
  <2>2. u[1] = s[1] /\ u[2] = s[2] /\ u[3] = s[3]
    BY <1>3
  <2> QED
    BY <1>2, <1>3, <2>1, <2>2
<1>5. u = v
  BY ONLY <1>2, <1>3, <1>4, SeqEqual
<1> QED
  BY <1>5 DEF u, v

\* A sequence over a set is one over a larger set.
LEMMA LargerSet ==
  ASSUME NEW S, NEW T, S \subseteq T, NEW s \in Seq(S)
  PROVE  s \in Seq(T)
OBVIOUS

\* Topics as they come: region and account of one part or more, and a name.
SnsTopicIds ==
  [region : Seq(STRING) \ {<<>>}, account : Seq(STRING) \ {<<>>}, name : STRING \ {Sns!NoPart}]

\* Texts, among them those that are in every ARN.
Parts == STRING \union {"arn", "aws", "sns"}

\* The parts of an ARN, by their positions.
LEMMA ArnParts ==
  ASSUME NEW topic \in SnsTopicIds
  PROVE  LET arn == Sns!topic_arn(topic)
             r == Len(topic.region)
             a == Len(topic.account)
         IN  /\ arn \in Seq(Parts) /\ r \in Nat \ {0} /\ a \in Nat \ {0} /\ Len(arn) = 4 + r + a
             /\ arn[1] = "arn" /\ arn[2] = "aws" /\ arn[3] = "sns"
             /\ \A i \in 1..r : arn[3 + i] = topic.region[i]
             /\ \A i \in 1..a : arn[3 + r + i] = topic.account[i]
             /\ arn[4 + r + a] = topic.name
<1> DEFINE r == Len(topic.region)
           a == Len(topic.account)
           h == <<"arn", "aws", "sns">>
           t == <<topic.name>>
           x == h \o topic.region \o topic.account
           arn == x \o t
<1>1. /\ topic.region \in Seq(Parts) /\ topic.account \in Seq(Parts)
      /\ topic.region # <<>> /\ topic.account # <<>> /\ topic.name \in Parts
  <2>1. STRING \subseteq Parts
    BY DEF Parts
  <2>2. /\ topic.region \in Seq(STRING) /\ topic.account \in Seq(STRING)
        /\ topic.region # <<>> /\ topic.account # <<>> /\ topic.name \in STRING
    BY DEF SnsTopicIds
  <2> QED
    BY <2>1, <2>2, LargerSet
<1>2. r \in Nat \ {0} /\ a \in Nat \ {0}
  BY <1>1
<1>3. h \in Seq(Parts) /\ Len(h) = 3 /\ h[1] = "arn" /\ h[2] = "aws" /\ h[3] = "sns"
  <2>1. "arn" \in Parts /\ "aws" \in Parts /\ "sns" \in Parts
    BY DEF Parts
  <2> QED
    BY ONLY <2>1, ShortTuples
<1>3a. t \in Seq(Parts) /\ Len(t) = 1 /\ t[1] = topic.name
  BY ONLY <1>1, ShortTuples
<1>4. Sns!topic_arn(topic) = arn
  BY DEF Sns!topic_arn
<1> HIDE DEF h, t, x, arn
<1>6. /\ x \in Seq(Parts) /\ Len(x) = Len(h) + r + a
      /\ \A i \in 1..Len(h) : x[i] = h[i]
      /\ \A i \in 1..r : x[Len(h) + i] = topic.region[i]
      /\ \A i \in 1..a : x[Len(h) + r + i] = topic.account[i]
  <2> DEFINE u == topic.region
             v == topic.account
  <2>1. h \in Seq(Parts) /\ u \in Seq(Parts) /\ v \in Seq(Parts)
    BY <1>1, <1>3
  <2> HIDE DEF u, v
  <2>2. /\ h \o u \o v \in Seq(Parts) /\ Len(h \o u \o v) = Len(h) + Len(u) + Len(v)
        /\ \A i \in 1..Len(h) : (h \o u \o v)[i] = h[i]
        /\ \A i \in 1..Len(u) : (h \o u \o v)[Len(h) + i] = u[i]
        /\ \A i \in 1..Len(v) : (h \o u \o v)[Len(h) + Len(u) + i] = v[i]
    BY ONLY <2>1, ThreeParts
  <2> QED
    BY <2>2 DEF x, u, v
<1>7. /\ arn \in Seq(Parts) /\ Len(arn) = Len(x) + Len(t)
      /\ \A i \in 1..Len(x) + Len(t) : arn[i] = IF i <= Len(x) THEN x[i] ELSE t[i - Len(x)]
  <2>1. x \in Seq(Parts) /\ t \in Seq(Parts)
    BY <1>6, <1>3a
  <2> QED
    BY ONLY <2>1, ConcatProperties DEF arn
<1> HIDE DEF r, a
<1>8. /\ Len(arn) = 4 + r + a
      /\ \A i \in 1..3 + r + a : arn[i] = x[i]
      /\ arn[4 + r + a] = t[1]
  <2>1. Len(x) = 3 + r + a
    BY <1>2, <1>3, <1>6
  <2>2. Len(arn) = 4 + r + a /\ \A i \in 1..3 + r + a : arn[i] = x[i]
    BY <1>2, <1>3a, <1>7, <2>1
  <2>3. (4 + r + a) - (3 + r + a) = 1 /\ 4 + r + a \in 1..4 + r + a /\ ~(4 + r + a <= 3 + r + a)
    BY <1>2
  <2>4. arn[4 + r + a] = t[(4 + r + a) - (3 + r + a)]
    BY <1>2, <1>3a, <1>7, <2>1, <2>3
  <2> QED
    BY <2>2, <2>3, <2>4
<1>9. /\ x[1] = "arn" /\ x[2] = "aws" /\ x[3] = "sns"
      /\ \A i \in 1..r : x[3 + i] = topic.region[i]
      /\ \A i \in 1..a : x[3 + r + i] = topic.account[i]
  BY <1>3, <1>6
<1>10. /\ arn[1] = "arn" /\ arn[2] = "aws" /\ arn[3] = "sns"
       /\ \A i \in 1..r : arn[3 + i] = topic.region[i]
       /\ \A i \in 1..a : arn[3 + r + i] = topic.account[i]
  <2>1. /\ 1 \in 1..3 + r + a /\ 2 \in 1..3 + r + a /\ 3 \in 1..3 + r + a
        /\ \A i \in 1..r : 3 + i \in 1..3 + r + a
        /\ \A i \in 1..a : 3 + r + i \in 1..3 + r + a
    BY <1>2
  <2> QED
    BY <2>1, <1>8, <1>9
<1> QED
  BY <1>2, <1>3a, <1>4, <1>7, <1>8, <1>10 DEF r, a

\* A topic is found by its ARN if it has no colon in it.
LEMMA TopicsFound ==
  ASSUME NEW topic \in SnsTopicIds, NEW others \in SUBSET SnsTopicIds,
         NEW uuid \in STRING \ {Sns!NoPart}
  PROVE  Sns!TopicFoundByItsArn(topic, others, uuid)
<1> DEFINE arn == Sns!topic_arn(topic)
           sub == Sns!subscription_arn(topic, uuid)
           r == Len(topic.region)
           a == Len(topic.account)
           plain == r = 1 /\ a = 1
           full == plain /\ topic.region[1] # Sns!NoPart /\ topic.account[1] # Sns!NoPart
           Of(parts) == [region |-> <<parts[4]>>, account |-> <<parts[5]>>, name |-> parts[6]]
<1>1. /\ arn \in Seq(Parts) /\ r \in Nat \ {0} /\ a \in Nat \ {0} /\ Len(arn) = 4 + r + a
      /\ arn[1] = "arn" /\ arn[2] = "aws" /\ arn[3] = "sns"
      /\ \A i \in 1..r : arn[3 + i] = topic.region[i]
      /\ \A i \in 1..a : arn[3 + r + i] = topic.account[i]
      /\ arn[4 + r + a] = topic.name
  BY ArnParts
<1>2. /\ topic.region \in Seq(STRING) /\ topic.account \in Seq(STRING)
      /\ topic.name # Sns!NoPart
      /\ topic = [region |-> topic.region, account |-> topic.account, name |-> topic.name]
  BY DEF SnsTopicIds
<1> HIDE DEF arn, r, a
<1>3. Len(arn) = 6 <=> plain
  BY <1>1
<1>4. ASSUME plain
      PROVE  /\ arn[4] = topic.region[1] /\ arn[5] = topic.account[1] /\ arn[6] = topic.name
             /\ topic = Of(arn)
  <2>1. arn[4] = topic.region[1] /\ arn[5] = topic.account[1] /\ arn[6] = topic.name
    BY <1>1, <1>4
  <2>2. topic.region = <<arn[4]>> /\ topic.account = <<arn[5]>>
    BY <1>2, <1>4, <2>1 DEF r, a
  <2> QED
    BY <1>2, <2>1, <2>2
<1>5. SubSeq(arn, 1, 3) = <<"arn", "aws", "sns">>
  <2>1. arn \in Seq(Parts) /\ Len(arn) >= 3
    BY <1>1
  <2>2. SubSeq(arn, 1, 3) = <<arn[1], arn[2], arn[3]>>
    BY ONLY <2>1, FirstThree
  <2> QED
    BY <1>1, <2>2
<1>6. (Len(arn) = 6 /\ SubSeq(arn, 1, 3) = <<"arn", "aws", "sns">>
        /\ \A i \in 4..6 : arn[i] # Sns!NoPart) <=> full
  <2>1. 4..6 = {4, 5, 6}
    OBVIOUS
  <2> QED
    BY <2>1, <1>2, <1>3, <1>4, <1>5
<1>7. Sns!parse_sns_topic_arn(arn) = IF full THEN {topic} ELSE {}
  <2>1. CASE full
    <3>1. Sns!parse_sns_topic_arn(arn) = {Of(arn)}
      BY <2>1, <1>6 DEF Sns!parse_sns_topic_arn
    <3> QED
      BY <3>1, <2>1, <1>4
  <2>2. CASE ~full
    BY <2>2, <1>6 DEF Sns!parse_sns_topic_arn
  <2> QED
    BY <2>1, <2>2
<1>8. Sns!validate_topic_arn(arn) <=> full
  BY <1>7 DEF Sns!validate_topic_arn
<1>9. Sns!get_topic_by_arn({topic} \union others, arn) = IF plain THEN {topic} ELSE {}
  <2>1. CASE plain
    <3>1. topic = Of(arn) /\ Len(arn) = 6
      BY <2>1, <1>3, <1>4
    <3> QED
      BY <2>1, <3>1 DEF Sns!get_topic_by_arn
  <2>2. CASE ~plain
    BY <2>2, <1>3 DEF Sns!get_topic_by_arn
  <2> QED
    BY <2>1, <2>2
<1>10. /\ sub \in Seq(Parts) /\ Len(sub) = 5 + r + a
       /\ \A i \in 1..4 + r + a : sub[i] = arn[i]
       /\ sub[5 + r + a] = uuid
  <2> DEFINE u == <<uuid>>
  <2>1. u \in Seq(Parts) /\ Len(u) = 1 /\ u[1] = uuid
    <3>1. uuid \in Parts
      BY DEF Parts
    <3> QED
      BY ONLY <3>1, ShortTuples
  <2>2. sub = arn \o u
    BY DEF Sns!subscription_arn, arn
  <2> HIDE DEF u, sub
  <2>3. /\ arn \o u \in Seq(Parts) /\ Len(arn \o u) = Len(arn) + Len(u)
        /\ \A i \in 1..Len(arn) + Len(u) : (arn \o u)[i] = IF i <= Len(arn) THEN arn[i]
                                                           ELSE u[i - Len(arn)]
    <3>1. arn \in Seq(Parts) /\ u \in Seq(Parts)
      BY <1>1, <2>1
    <3> QED
      BY ONLY <3>1, ConcatProperties
  <2>4. (5 + r + a) - (4 + r + a) = 1
    BY <1>1
  <2>5. sub[5 + r + a] = u[(5 + r + a) - (4 + r + a)]
    BY <1>1, <2>1, <2>2, <2>3
  <2> QED
    BY <1>1, <2>1, <2>2, <2>3, <2>4, <2>5
<1> HIDE DEF sub
<1>11. Len(sub) = 7 <=> plain
  BY <1>1, <1>10
<1>12. SubSeq(sub, 1, 3) = <<"arn", "aws", "sns">>
  <2>1. sub[1] = "arn" /\ sub[2] = "aws" /\ sub[3] = "sns" /\ Len(sub) >= 3
    BY <1>1, <1>10
  <2>2. SubSeq(sub, 1, 3) = <<sub[1], sub[2], sub[3]>>
    BY <2>1, <1>10, FirstThree
  <2> QED
    BY <2>1, <2>2
<1>13. plain => ((\A i \in 4..7 : sub[i] # Sns!NoPart) <=> full)
  <2> SUFFICES ASSUME plain
               PROVE  (\A i \in 4..7 : sub[i] # Sns!NoPart) <=> full
    OBVIOUS
  <2>1. sub[4] = arn[4] /\ sub[5] = arn[5] /\ sub[6] = arn[6] /\ sub[7] = uuid
    BY <1>1, <1>10
  <2>2. 4..7 = {4, 5, 6, 7}
    OBVIOUS
  <2> QED
    BY <2>1, <2>2, <1>2, <1>4
<1>14. Sns!validate_subscription_arn(sub) <=> full
  BY <1>11, <1>12, <1>13 DEF Sns!validate_subscription_arn
<1>15. full => Sns!parse_sns_topic_arn(sub) = {}
  BY <1>11 DEF Sns!parse_sns_topic_arn
<1>16. ASSUME NEW other \in others, plain, Sns!topic_arn(other) = arn
       PROVE  other = topic
  <2>1. /\ Len(other.region) \in Nat \ {0} /\ Len(other.account) \in Nat \ {0}
        /\ Len(arn) = 4 + Len(other.region) + Len(other.account)
        /\ \A i \in 1..Len(other.region) : arn[3 + i] = other.region[i]
        /\ \A i \in 1..Len(other.account) : arn[3 + Len(other.region) + i] = other.account[i]
        /\ arn[4 + Len(other.region) + Len(other.account)] = other.name
    BY <1>16, ArnParts
  <2>2. Len(other.region) = 1 /\ Len(other.account) = 1
    <3>1. \A m, n \in Nat \ {0} : 4 + m + n = 6 => m = 1 /\ n = 1
      OBVIOUS
    <3>2. PICK m, n \in Nat \ {0} : m = Len(other.region) /\ n = Len(other.account)
      BY <2>1
    <3>3. 4 + m + n = 6
      BY <3>2, <2>1, <1>3, <1>16
    <3> QED
      BY <3>1, <3>2, <3>3
  <2>3. other.region[1] = arn[4] /\ other.account[1] = arn[5] /\ other.name = arn[6]
    BY <2>1, <2>2
  <2>4. /\ other.region \in Seq(STRING) /\ other.account \in Seq(STRING)
        /\ other = [region |-> other.region, account |-> other.account, name |-> other.name]
    BY DEF SnsTopicIds
  <2>5. other.region = <<arn[4]>> /\ other.account = <<arn[5]>>
    BY <2>2, <2>3, <2>4
  <2> QED
    BY <1>4, <1>16, <2>3, <2>4, <2>5
<1> QED
  BY <1>7, <1>8, <1>9, <1>14, <1>15, <1>16 DEF Sns!TopicFoundByItsArn, arn, sub, r, a

\* The cardinality of FiniteSets, as the SNS module sees it.
LEMMA SnsCardinality == \A S : Sns!Cardinality(S) = Cardinality(S)
BY DEF Cardinality, Sns!Cardinality

\* Keys and values of tags, and what a form has of them.
TagKeys == [length : Nat, reserved : BOOLEAN, control : BOOLEAN]
TagValues == [length : Nat, control : BOOLEAN]
TagEntries == Seq([key : Seq(TagKeys), value : Seq(TagValues)])

\* Tags that are accepted are taken off by their keys.
LEMMA TagsTakenOff ==
  ASSUME NEW entries \in TagEntries,
         NEW name, name.fifo \in BOOLEAN
  PROVE  Sns!TagsComeOff(entries, name)
<1>1. ASSUME NEW tags \in Sns!SnsTags(entries), Sns!validate_tags(tags, FALSE),
             NEW keys \in [1..Cardinality(DOMAIN tags) -> DOMAIN tags]
      PROVE  Sns!validate_tag_keys(Sns!SnsTagKeys(keys), FALSE)
  <2> DEFINE n == Cardinality(DOMAIN tags)
  <2>1. IsFiniteSet(DOMAIN tags)
    BY EntriesAreTexts DEF Sns!SnsTags, TagEntries
  <2>2. n \in Nat
    BY <2>1, FS_CardinalityType
  <2>3. n # 0
    BY <2>1, FS_EmptySet, <1>1 DEF Sns!validate_tags
  <2>4. n <= MaxTags /\ \A k \in DOMAIN tags : Sns!validate_tag_key(k)
    BY <1>1, SnsCardinality DEF Sns!validate_tags
  <2> HIDE DEF n
  <2>5. keys \in [1..n -> DOMAIN tags]
    BY <1>1 DEF n
  <2>6. keys \in Seq(DOMAIN tags) /\ Len(keys) = n /\ DOMAIN keys = 1..n
    BY <2>2, <2>5
  <2>7. keys # <<>>
    BY <2>2, <2>3, <2>6
  <2>8. \A i \in DOMAIN keys : Sns!validate_tag_key(keys[i])
    BY <2>4, <2>5
  <2> QED
    BY <2>4, <2>6, <2>7, <2>8 DEF Sns!validate_tag_keys, Sns!SnsTagKeys
<1>2. ASSUME NEW tags \in Sns!SnsTags(entries), NEW key \in DOMAIN tags,
             Sns!ConsoleValidTag(key, tags[key])
      PROVE  /\ Sns!validate_tags([k \in {key} |-> tags[key]], FALSE)
             /\ Sns!validate_tag_keys(Sns!SnsTagKeys(<<key>>), FALSE)
  <2> DEFINE one == [k \in {key} |-> tags[key]]
  <2>1. DOMAIN one = {key} /\ one[key] = tags[key]
    OBVIOUS
  <2>2. Cardinality({key}) = 1
    BY FS_Singleton
  <2>3. 1 <= MaxTags
    BY InputsAssumption
  <2>4. Sns!validate_tag_key(key) /\ tags[key].length <= 256
    BY <1>2 DEF Sns!ConsoleValidTag
  <2> HIDE DEF one
  <2>5. Sns!validate_tags(one, FALSE)
    BY <2>1, <2>2, <2>3, <2>4, SnsCardinality DEF Sns!validate_tags
  <2>6. <<key>> # <<>> /\ Len(<<key>>) = 1 /\ DOMAIN <<key>> = {1} /\ <<key>>[1] = key
    OBVIOUS
  <2>7. Sns!validate_tag_keys(<<key>>, FALSE)
    BY <2>3, <2>4, <2>6 DEF Sns!validate_tag_keys
  <2> QED
    BY <2>5, <2>7 DEF one, Sns!SnsTagKeys
<1>3. ASSUME Sns!ConsoleValidTopicName(name)
      PROVE  Sns!CreateTopicAccepts(name, <<>>)
  <2>1. DOMAIN <<>> = {}
    OBVIOUS
  <2>2. name.fifo = FALSE /\ name.length \in 1..256 /\ name.allowed
    BY <1>3 DEF Sns!ConsoleValidTopicName
  <2>3. Sns!validate_topic_name(name, <<>>)
    BY <2>1, <2>2 DEF Sns!validate_topic_name
  <2> QED
    BY <2>1, <2>3 DEF Sns!CreateTopicAccepts
<1> QED
  BY <1>1, <1>2, <1>3, SnsCardinality DEF Sns!TagsComeOff

--------------------------------------------------------------------------------
(* Paths and ARNs of users and policies. *)

\* Segments, among them the empty one and those that are in every ARN.
Segments == STRING \union {Iam!Nil, "user", "policy"}

\* In p, the first and the last segment that is not empty are at lo and hi.
Around(p, lo, hi) ==
  /\ lo \in 1..Len(p) /\ hi \in 1..Len(p)
  /\ p[lo] # Iam!Nil /\ p[hi] # Iam!Nil
  /\ \A i \in 1..Len(p) : i < lo \/ hi < i => p[i] = Iam!Nil

\* What is left without the slashes around it is from the first to the last segment.
LEMMA TrimIs ==
  ASSUME NEW p \in Seq(Segments), NEW lo, NEW hi, Around(p, lo, hi)
  PROVE  lo <= hi /\ Iam!TrimSlashes(p) = SubSeq(p, lo, hi)
<1> DEFINE texts == {i \in DOMAIN p : p[i] # Iam!Nil}
<1>1. lo \in texts /\ hi \in texts /\ texts \subseteq Int
  BY DEF Around
<1>2. \A j \in texts : lo <= j /\ j <= hi
  BY DEF Around
<1> HIDE DEF texts
<1>3. lo = CHOOSE i \in texts : \A j \in texts : i <= j
  <2>1. \A i \in texts : (\A j \in texts : i <= j) => i = lo
    BY <1>1, <1>2
  <2> QED
    BY <1>1, <1>2, <2>1
<1>4. hi = CHOOSE i \in texts : \A j \in texts : j <= i
  <2>1. \A i \in texts : (\A j \in texts : j <= i) => i = hi
    BY <1>1, <1>2
  <2> QED
    BY <1>1, <1>2, <2>1
<1>5. Iam!TrimSlashes(p) = SubSeq(p, CHOOSE i \in texts : \A j \in texts : i <= j,
                                     CHOOSE i \in texts : \A j \in texts : j <= i)
  BY <1>1 DEF texts, Iam!TrimSlashes
<1> QED
  BY <1>1, <1>2, <1>3, <1>4, <1>5

\* A path is slashes alone, or it has a first and a last segment that is not empty.
LEMMA TrimCases ==
  ASSUME NEW p \in Seq(Segments)
  PROVE  \/ (\A i \in 1..Len(p) : p[i] = Iam!Nil) /\ Iam!TrimSlashes(p) = Iam!Blank
         \/ \E lo, hi \in 1..Len(p) : Around(p, lo, hi)
<1> DEFINE texts == {i \in DOMAIN p : p[i] # Iam!Nil}
<1>1. CASE texts = {}
  <2>1. \A i \in 1..Len(p) : p[i] = Iam!Nil
    BY <1>1
  <2>2. Iam!TrimSlashes(p) = Iam!Blank
    BY <1>1 DEF Iam!TrimSlashes
  <2> QED
    BY <2>1, <2>2
<1>2. CASE texts # {}
  <2>1. texts \subseteq 1..Len(p) /\ Len(p) \in Nat
    OBVIOUS
  <2>2. PICK lo \in texts : \A j \in texts : lo <= j
    <3>1. texts \in SUBSET Nat
      BY <2>1
    <3> HIDE DEF texts
    <3> QED
      BY <3>1, <1>2, SmallestNumber
  <2>3. PICK hi \in texts : \A j \in texts : j <= hi
    <3> HIDE DEF texts
    <3> QED
      BY <2>1, <1>2, LargestNumber
  <2>4. \A i \in 1..Len(p) : i < lo \/ hi < i => i \notin texts
    <3>1. lo \in Int /\ hi \in Int
      BY <2>1
    <3> HIDE DEF texts
    <3> QED
      BY <3>1, <2>1, <2>2, <2>3
  <2>5. Around(p, lo, hi)
    BY <2>1, <2>4 DEF Around
  <2> QED
    BY <2>1, <2>5
<1> QED
  BY <1>1, <1>2

\* A path in slashes.
Enclosed(t) == <<Iam!Nil>> \o t \o <<Iam!Nil>>

\* Where its segments are.
LEMMA EnclosedIs ==
  ASSUME NEW t \in Seq(Segments)
  PROVE  /\ Enclosed(t) \in Seq(Segments) /\ Len(Enclosed(t)) = Len(t) + 2
         /\ Enclosed(t)[1] = Iam!Nil /\ Enclosed(t)[Len(t) + 2] = Iam!Nil
         /\ \A i \in 1..Len(t) : Enclosed(t)[1 + i] = t[i]
         /\ SubSeq(Enclosed(t), 2, Len(t) + 1) = t
<1> DEFINE u == <<Iam!Nil>>
           e == u \o t \o u
<1>1. Iam!Nil \in Segments
  BY DEF Segments
<1>2. u \in Seq(Segments) /\ Len(u) = 1 /\ u[1] = Iam!Nil
  BY ONLY <1>1, ShortTuples
<1>3. Enclosed(t) = e
  BY DEF Enclosed
<1> HIDE DEF u
<1>4. /\ e \in Seq(Segments) /\ Len(e) = Len(u) + Len(t) + Len(u)
      /\ \A i \in 1..Len(u) : e[i] = u[i]
      /\ \A i \in 1..Len(t) : e[Len(u) + i] = t[i]
      /\ \A i \in 1..Len(u) : e[Len(u) + Len(t) + i] = u[i]
  <2>1. u \in Seq(Segments) /\ t \in Seq(Segments)
    BY <1>2
  <2> QED
    BY ONLY <2>1, ThreeParts
<1> HIDE DEF e
<1> DEFINE n == Len(t)
<1>5. n \in Nat
  OBVIOUS
<1> HIDE DEF n
<1>6. /\ Len(e) = n + 2 /\ e[1] = Iam!Nil /\ \A i \in 1..n : e[1 + i] = t[i]
  BY <1>2, <1>4, <1>5 DEF n
<1>7. e[n + 2] = Iam!Nil
  <2>1. e[1 + n + 1] = u[1]
    BY <1>2, <1>4 DEF n
  <2>2. 1 + n + 1 = n + 2
    BY <1>5
  <2> QED
    BY <1>2, <2>1, <2>2
<1>8. SubSeq(e, 2, n + 1) = t
  <2> DEFINE s == SubSeq(e, 2, n + 1)
  <2>1. \A i \in 2..n + 1 : e[i] \in Segments
    BY <1>4, <1>5, <1>6
  <2>2. /\ s \in Seq(Segments)
        /\ Len(s) = IF 2 <= n + 1 THEN (n + 1) - 2 + 1 ELSE 0
        /\ \A i \in 1..(n + 1) - 2 + 1 : s[i] = e[2 + i - 1]
    <3>1. 2 \in Int /\ n + 1 \in Int
      BY <1>5
    <3> QED
      BY ONLY <2>1, <3>1, SubSeqProperties
  <2> HIDE DEF s
  <2>3. Len(s) = n /\ \A i \in 1..n : s[i] = e[1 + i]
    <3>1. (n + 1) - 2 + 1 = n /\ (~(2 <= n + 1) => n = 0) /\ \A i \in 1..n : 2 + i - 1 = 1 + i
      BY <1>5
    <3> QED
      BY <2>2, <3>1
  <2>4. \A i \in 1..Len(s) : s[i] = t[i]
    BY <2>3, <1>6
  <2>5. s \in Seq(Segments) /\ t \in Seq(Segments) /\ Len(s) = Len(t)
    BY <2>2, <2>3 DEF n
  <2>6. s = t
    BY ONLY <2>4, <2>5, SeqEqual
  <2> QED
    BY <2>6 DEF s
<1> QED
  BY <1>3, <1>4, <1>6, <1>7, <1>8 DEF n

\* Enclosing a path that begins and ends with a segment, and trimming it.
LEMMA TrimEnclosed ==
  ASSUME NEW t \in Seq(Segments), Len(t) >= 1, t[1] # Iam!Nil, t[Len(t)] # Iam!Nil
  PROVE  Iam!TrimSlashes(Enclosed(t)) = t
<1> DEFINE e == Enclosed(t)
           n == Len(t)
<1>1. /\ e \in Seq(Segments) /\ Len(e) = n + 2 /\ e[1] = Iam!Nil /\ e[n + 2] = Iam!Nil
      /\ \A i \in 1..n : e[1 + i] = t[i]
      /\ SubSeq(e, 2, n + 1) = t
  BY EnclosedIs
<1>2. n \in Nat /\ n >= 1 /\ t[1] # Iam!Nil /\ t[n] # Iam!Nil
  OBVIOUS
<1> HIDE DEF e, n
<1>3. Around(e, 2, n + 1)
  <2>1. e[1 + 1] = t[1] /\ e[1 + n] = t[n]
    BY <1>1, <1>2
  <2>2. e[2] # Iam!Nil /\ e[n + 1] # Iam!Nil
    <3>1. 1 + 1 = 2 /\ 1 + n = n + 1
      BY <1>2
    <3> QED
      BY <2>1, <1>2, <3>1
  <2>3. \A i \in 1..n + 2 : i < 2 \/ n + 1 < i => i = 1 \/ i = n + 2
    BY <1>2
  <2>4. 2 \in 1..n + 2 /\ n + 1 \in 1..n + 2
    BY <1>2
  <2> QED
    BY <1>1, <2>2, <2>3, <2>4 DEF Around
<1>4. Iam!TrimSlashes(e) = SubSeq(e, 2, n + 1)
  BY <1>1, <1>3, TrimIs
<1> QED
  BY <1>1, <1>4 DEF e

\* The paths "" and "/", and "//" that is left of more slashes.
LEMMA SlashPaths ==
  /\ Iam!Blank \in Seq(Segments) /\ Len(Iam!Blank) = 1 /\ Iam!Blank[1] = Iam!Nil
  /\ Iam!Slash \in Seq(Segments) /\ Len(Iam!Slash) = 2
  /\ Iam!Slash[1] = Iam!Nil /\ Iam!Slash[2] = Iam!Nil
<1>1. Iam!Nil \in Segments
  BY DEF Segments
<1> QED
  BY ONLY <1>1, ShortTuples DEF Iam!Blank, Iam!Slash

\* The paths that are kept as "/".
IsRoot(p) == p \in {Iam!Blank, Iam!Slash}

\* A path of empty segments alone that is not kept as "/" has three of them or more.
LEMMA RootOrNot ==
  ASSUME NEW p \in Seq(Segments), p # <<>>
  PROVE  /\ (\E i \in 1..Len(p) : p[i] # Iam!Nil) => ~IsRoot(p)
         /\ ~IsRoot(p) /\ (\A i \in 1..Len(p) : p[i] = Iam!Nil) => Len(p) >= 3
         /\ Len(p) >= 3 => ~IsRoot(p)
<1>0. /\ Len(p) = 1 \/ Len(p) = 2 \/ Len(p) >= 3
      /\ Len(p) >= 3 => Len(p) # 1 /\ Len(p) # 2
  <2>1. PICK n \in Nat : n = Len(p)
    OBVIOUS
  <2>2. n # 0
    BY <2>1, EmptySeq
  <2>3. (n = 1 \/ n = 2 \/ n >= 3) /\ (n >= 3 => n # 1 /\ n # 2)
    BY ONLY <2>2, n \in Nat
  <2> QED
    BY <2>1, <2>3
<1>1. ASSUME Len(p) = 1, p[1] = Iam!Nil
      PROVE  p = Iam!Blank
  <2>1. Len(p) = Len(Iam!Blank) /\ \A i \in 1..Len(p) : p[i] = Iam!Blank[i]
    BY <1>1, SlashPaths
  <2>2. p \in Seq(Segments) /\ Iam!Blank \in Seq(Segments)
    BY SlashPaths
  <2> QED
    BY ONLY <2>1, <2>2, SeqEqual
<1>2. ASSUME Len(p) = 2, p[1] = Iam!Nil, p[2] = Iam!Nil
      PROVE  p = Iam!Slash
  <2>1. Len(p) = Len(Iam!Slash) /\ \A i \in 1..Len(p) : p[i] = Iam!Slash[i]
    <3>1. 1..2 = {1, 2}
      OBVIOUS
    <3> QED
      BY <1>2, <3>1, SlashPaths
  <2>2. p \in Seq(Segments) /\ Iam!Slash \in Seq(Segments)
    BY SlashPaths
  <2> QED
    BY ONLY <2>1, <2>2, SeqEqual
<1>3. (\E i \in 1..Len(p) : p[i] # Iam!Nil) => ~IsRoot(p)
  <2>1. 1..1 = {1} /\ 1..2 = {1, 2}
    OBVIOUS
  <2> QED
    BY <2>1, SlashPaths DEF IsRoot
<1>4. ~IsRoot(p) /\ (\A i \in 1..Len(p) : p[i] = Iam!Nil) => Len(p) >= 3
  <2> SUFFICES ASSUME ~IsRoot(p), \A i \in 1..Len(p) : p[i] = Iam!Nil, ~(Len(p) >= 3)
               PROVE  FALSE
    OBVIOUS
  <2>1. Len(p) = 1 \/ Len(p) = 2
    BY <1>0
  <2>2. p[1] = Iam!Nil /\ (Len(p) = 2 => p[2] = Iam!Nil)
    <3>1. 1 \in 1..1 /\ 1 \in 1..2 /\ 2 \in 1..2
      OBVIOUS
    <3> QED
      BY <2>1, <3>1
  <2> QED
    BY <2>1, <2>2, <1>1, <1>2 DEF IsRoot
<1>5. Len(p) >= 3 => ~IsRoot(p)
  <2>1. IsRoot(p) => Len(p) = 1 \/ Len(p) = 2
    BY SlashPaths DEF IsRoot
  <2> QED
    BY <1>0, <2>1
<1> QED
  BY <1>3, <1>4, <1>5

\* What normalize_user_path and normalize_path make of a path.
LEMMA NormalCases ==
  ASSUME NEW p \in Seq(Segments), p # <<>>
  PROVE  LET t == Iam!TrimSlashes(p)
         IN  /\ Iam!normalize_user_path(p) = IF IsRoot(p) THEN Iam!Slash ELSE Enclosed(t)
             /\ Iam!normalize_path(p) = Iam!normalize_user_path(p)
             /\ t \in Seq(Segments) /\ Len(t) >= 1
             /\ \/ t = Iam!Blank /\ \A i \in 1..Len(p) : p[i] = Iam!Nil
                \/ t[1] # Iam!Nil /\ t[Len(t)] # Iam!Nil /\ ~IsRoot(p)
<1> DEFINE t == Iam!TrimSlashes(p)
<1>1. /\ Iam!normalize_user_path(p) = IF IsRoot(p) THEN Iam!Slash ELSE Enclosed(t)
      /\ Iam!normalize_path(p) = Iam!normalize_user_path(p)
  BY DEF Iam!normalize_user_path, Iam!normalize_path, IsRoot, Enclosed
<1> HIDE DEF t
<1>2. CASE (\A i \in 1..Len(p) : p[i] = Iam!Nil) /\ t = Iam!Blank
  BY <1>1, <1>2, SlashPaths DEF t
<1>3. CASE \E lo, hi \in 1..Len(p) : Around(p, lo, hi)
  <2>1. PICK lo, hi \in 1..Len(p) : Around(p, lo, hi)
    BY <1>3
  <2>2. lo <= hi /\ t = SubSeq(p, lo, hi)
    BY <2>1, TrimIs DEF t
  <2>3. lo \in Int /\ hi \in Int /\ \A i \in lo..hi : p[i] \in Segments
    <3>1. \A i \in 1..Len(p) : p[i] \in Segments
      OBVIOUS
    <3>2. \A i \in lo..hi : i \in 1..Len(p)
      OBVIOUS
    <3> QED
      BY <3>1, <3>2
  <2>4. /\ t \in Seq(Segments) /\ Len(t) = IF lo <= hi THEN hi - lo + 1 ELSE 0
        /\ \A i \in 1..hi - lo + 1 : t[i] = p[lo + i - 1]
    BY ONLY <2>2, <2>3, SubSeqProperties
  <2>5. Len(t) = hi - lo + 1 /\ Len(t) >= 1
    BY <2>2, <2>3, <2>4
  <2>6. lo + 1 - 1 = lo /\ lo + (hi - lo + 1) - 1 = hi /\ 1 \in 1..hi - lo + 1
        /\ hi - lo + 1 \in 1..hi - lo + 1
    BY <2>2, <2>3
  <2>7. t[1] = p[lo] /\ t[Len(t)] = p[hi]
    BY <2>4, <2>5, <2>6
  <2>8. p[lo] # Iam!Nil /\ p[hi] # Iam!Nil
    BY <2>1 DEF Around
  <2>9. ~IsRoot(p)
    BY <2>8, RootOrNot
  <2> QED
    BY <1>1, <2>4, <2>5, <2>7, <2>8, <2>9 DEF t
<1> QED
  BY <1>2, <1>3, TrimCases DEF t

\* A normal path begins and ends with a slash, and is "/" or the enclosed rest.
LEMMA NormalShape ==
  ASSUME NEW p \in Seq(Segments), p # <<>>
  PROVE  LET q == Iam!normalize_user_path(p)
         IN  /\ q \in Seq(Segments) /\ Len(q) > 1 /\ q[1] = Iam!Nil /\ q[Len(q)] = Iam!Nil
             /\ SubSeq(q, 2, Len(q) - 1) = IF IsRoot(p) THEN <<>> ELSE Iam!TrimSlashes(p)
<1> DEFINE q == Iam!normalize_user_path(p)
           t == Iam!TrimSlashes(p)
<1>1. /\ q = IF IsRoot(p) THEN Iam!Slash ELSE Enclosed(t)
      /\ t \in Seq(Segments) /\ Len(t) >= 1
  BY NormalCases
<1> HIDE DEF q, t
<1>2. CASE IsRoot(p)
  <2>1. q = Iam!Slash /\ Len(q) = 2
    BY <1>1, <1>2, SlashPaths
  <2>2. SubSeq(q, 2, 1) = <<>>
    <3>1. 2 \in Int /\ 1 \in Int /\ 1 < 2
      OBVIOUS
    <3> QED
      BY ONLY <3>1, SubSeqEmpty
  <2>3. Len(q) - 1 = 1
    BY <2>1
  <2> QED
    BY <1>2, <2>1, <2>2, <2>3, SlashPaths DEF q
<1>3. CASE ~IsRoot(p)
  <2>1. q = Enclosed(t)
    BY <1>1, <1>3
  <2>2. /\ q \in Seq(Segments) /\ Len(q) = Len(t) + 2 /\ q[1] = Iam!Nil /\ q[Len(t) + 2] = Iam!Nil
        /\ SubSeq(q, 2, Len(t) + 1) = t
    BY <1>1, <2>1, EnclosedIs
  <2>3. Len(q) > 1 /\ Len(q) - 1 = Len(t) + 1
    BY <1>1, <2>2
  <2> QED
    BY <1>3, <2>2, <2>3 DEF q, t
<1> QED
  BY <1>2, <1>3

\* A normal path stays as it is.
LEMMA NormalTwice ==
  ASSUME NEW p \in Seq(Segments), p # <<>>
  PROVE  Iam!normalize_user_path(Iam!normalize_user_path(p)) = Iam!normalize_user_path(p)
<1> DEFINE q == Iam!normalize_user_path(p)
           t == Iam!TrimSlashes(p)
<1>1. /\ q = IF IsRoot(p) THEN Iam!Slash ELSE Enclosed(t)
      /\ t \in Seq(Segments) /\ Len(t) >= 1
      /\ \/ t = Iam!Blank
         \/ t[1] # Iam!Nil /\ t[Len(t)] # Iam!Nil
  BY NormalCases
<1>2. q \in Seq(Segments) /\ q # <<>> /\ Len(q) > 1
  <2>1. q \in Seq(Segments) /\ Len(q) > 1
    BY NormalShape
  <2> QED
    BY <2>1
<1> HIDE DEF q, t
<1>3. Iam!normalize_user_path(q)
        = IF IsRoot(q) THEN Iam!Slash ELSE Enclosed(Iam!TrimSlashes(q))
  BY <1>2, NormalCases
<1>4. CASE IsRoot(p)
  BY <1>1, <1>3, <1>4 DEF q, IsRoot
<1>5. CASE ~IsRoot(p)
  <2>1. q = Enclosed(t) /\ Len(q) = Len(t) + 2
    BY <1>1, <1>5, EnclosedIs
  <2>2. ~IsRoot(q)
    <3>1. Len(q) >= 3
      BY <2>1, <1>1
    <3> QED
      BY <3>1, <1>2, RootOrNot
  <2>3. CASE t = Iam!Blank
    <3>1. \A i \in 1..Len(q) : q[i] = Iam!Nil
      <4>1. /\ Len(q) = 3 /\ q[1] = Iam!Nil /\ q[Len(t) + 2] = Iam!Nil
            /\ q[1 + 1] = t[1] /\ t[1] = Iam!Nil /\ Len(t) = 1
        <5>1. /\ q[1] = Iam!Nil /\ q[Len(t) + 2] = Iam!Nil
              /\ \A i \in 1..Len(t) : q[1 + i] = t[i]
          <6>1. t \in Seq(Segments)
            BY <1>1
          <6>2. /\ Enclosed(t)[1] = Iam!Nil /\ Enclosed(t)[Len(t) + 2] = Iam!Nil
                /\ \A i \in 1..Len(t) : Enclosed(t)[1 + i] = t[i]
            BY ONLY <6>1, EnclosedIs
          <6> QED
            BY <2>1, <6>2
        <5>2. Len(t) = 1 /\ t[1] = Iam!Nil
          BY <2>3, SlashPaths
        <5> QED
          BY <2>1, <5>1, <5>2
      <4>2. 1..3 = {1, 2, 3} /\ 1 + 1 = 2 /\ 1 + 2 = 3
        OBVIOUS
      <4> QED
        BY <4>1, <4>2
    <3>2. Iam!TrimSlashes(q) = Iam!Blank
      <4>1. ~\E lo, hi \in 1..Len(q) : Around(q, lo, hi)
        BY <3>1 DEF Around
      <4> QED
        BY <1>2, <4>1, TrimCases
    <3> QED
      BY <1>3, <2>1, <2>2, <2>3, <3>2 DEF q
  <2>4. CASE t[1] # Iam!Nil /\ t[Len(t)] # Iam!Nil
    <3>1. Iam!TrimSlashes(q) = t
      BY <1>1, <2>1, <2>4, TrimEnclosed
    <3> QED
      BY <1>3, <2>1, <2>2, <3>1 DEF q
  <2> QED
    BY <1>1, <2>3, <2>4
<1> QED
  BY <1>4, <1>5

\* Where the elements of three sequences are in their concatenation r.
Apart(r, u, v, w) ==
  /\ Len(r) = Len(u) + Len(v) + Len(w)
  /\ \A i \in 1..Len(u) : r[i] = u[i]
  /\ \A i \in 1..Len(v) : r[Len(u) + i] = v[i]
  /\ \A i \in 1..Len(w) : r[Len(u) + Len(v) + i] = w[i]

\* ThreeParts in one word.
LEMMA ThreeApart ==
  ASSUME NEW u \in Seq(Segments), NEW v \in Seq(Segments), NEW w \in Seq(Segments)
  PROVE  u \o v \o w \in Seq(Segments) /\ Apart(u \o v \o w, u, v, w)
  BY ThreeParts DEF Apart

\* Nothing but slashes.
OnlySlashes(s) == \A i \in 1..Len(s) : s[i] = Iam!Nil

\* Slashes before and after a path do not change what is left without them.
LEMMA TrimPadded ==
  ASSUME NEW a \in Seq(Segments), NEW p \in Seq(Segments), NEW b \in Seq(Segments),
         OnlySlashes(a), OnlySlashes(b),
         NEW lo \in 1..Len(p), NEW hi \in 1..Len(p), Around(p, lo, hi)
  PROVE  /\ a \o p \o b \in Seq(Segments)
         /\ Around(a \o p \o b, Len(a) + lo, Len(a) + hi)
         /\ Iam!TrimSlashes(a \o p \o b) = Iam!TrimSlashes(p)
<1> DEFINE r == a \o p \o b
           k == Len(a)
           n == Len(p)
           m == Len(b)
<1>1. /\ r \in Seq(Segments) /\ Len(r) = k + n + m
      /\ \A i \in 1..k : r[i] = a[i]
      /\ \A i \in 1..n : r[k + i] = p[i]
      /\ \A i \in 1..m : r[k + n + i] = b[i]
  <2>1. r \in Seq(Segments) /\ Apart(r, a, p, b)
    BY ThreeApart
  <2> HIDE DEF r
  <2> QED
    BY <2>1 DEF Apart
<1>2. k \in Nat /\ n \in Nat /\ m \in Nat /\ lo \in 1..n /\ hi \in 1..n
  OBVIOUS
<1>3. lo <= hi /\ Iam!TrimSlashes(p) = SubSeq(p, lo, hi)
  BY TrimIs
<1>4. /\ p[lo] # Iam!Nil /\ p[hi] # Iam!Nil
      /\ \A i \in 1..n : i < lo \/ hi < i => p[i] = Iam!Nil
  BY DEF Around
<1>5. (\A i \in 1..k : a[i] = Iam!Nil) /\ (\A i \in 1..m : b[i] = Iam!Nil)
  BY DEF OnlySlashes
<1> HIDE DEF r, k, n, m
<1>6. Around(r, k + lo, k + hi)
  <2>1. k + lo \in 1..Len(r) /\ k + hi \in 1..Len(r)
    BY <1>1, <1>2
  <2>2. r[k + lo] # Iam!Nil /\ r[k + hi] # Iam!Nil
    BY <1>1, <1>2, <1>4
  <2>3. ASSUME NEW i \in 1..Len(r), i < k + lo \/ k + hi < i
        PROVE  r[i] = Iam!Nil
    <3>1. CASE i <= k
      <4>1. i \in 1..k
        BY <3>1, <1>1, <1>2
      <4> QED
        BY <4>1, <1>1, <1>5
    <3>2. CASE k < i /\ i <= k + n
      <4>1. i - k \in 1..n /\ k + (i - k) = i /\ (i - k < lo \/ hi < i - k)
        BY <2>3, <3>2, <1>1, <1>2
      <4>2. r[k + (i - k)] = p[i - k]
        BY <4>1, <1>1
      <4> QED
        BY <4>1, <4>2, <1>4
    <3>3. CASE k + n < i
      <4>1. i - (k + n) \in 1..m /\ k + n + (i - (k + n)) = i
        BY <3>3, <1>1, <1>2
      <4>2. r[k + n + (i - (k + n))] = b[i - (k + n)]
        BY <4>1, <1>1
      <4> QED
        BY <4>1, <4>2, <1>5
    <3>4. i <= k \/ (k < i /\ i <= k + n) \/ k + n < i
      BY <1>1, <1>2
    <3> QED
      BY <3>1, <3>2, <3>3, <3>4
  <2> QED
    BY <2>1, <2>2, <2>3 DEF Around
<1>7. Iam!TrimSlashes(r) = SubSeq(r, k + lo, k + hi)
  BY <1>1, <1>6, TrimIs
<1>8. SubSeq(r, k + lo, k + hi) = SubSeq(p, lo, hi)
  <2> DEFINE u == SubSeq(r, k + lo, k + hi)
             v == SubSeq(p, lo, hi)
             w == hi - lo + 1
  <2>1. \A i \in lo..hi : p[i] \in Segments
    <3>1. \A i \in 1..n : p[i] \in Segments
      BY DEF n
    <3> QED
      BY <1>2, <3>1
  <2>2. \A i \in k + lo..k + hi : r[i] \in Segments
    BY <1>1, <1>2
  <2>3. /\ k + lo \in Int /\ k + hi \in Int /\ lo \in Int /\ hi \in Int /\ k + lo <= k + hi
        /\ (k + hi) - (k + lo) + 1 = w /\ w \in Nat
    BY <1>2, <1>3
  <2>4. /\ u \in Seq(Segments)
        /\ Len(u) = IF k + lo <= k + hi THEN (k + hi) - (k + lo) + 1 ELSE 0
        /\ \A i \in 1..(k + hi) - (k + lo) + 1 : u[i] = r[(k + lo) + i - 1]
    BY ONLY <2>2, <2>3, SubSeqProperties
  <2>5. /\ v \in Seq(Segments)
        /\ Len(v) = IF lo <= hi THEN hi - lo + 1 ELSE 0
        /\ \A i \in 1..hi - lo + 1 : v[i] = p[lo + i - 1]
    BY ONLY <2>1, <2>3, SubSeqProperties
  <2> HIDE DEF u, v
  <2>6. Len(u) = w /\ Len(v) = w
    BY <2>3, <2>4, <2>5, <1>3
  <2>7. ASSUME NEW i \in 1..w
        PROVE  u[i] = v[i]
    <3>1. (k + lo) + i - 1 = k + (lo + i - 1) /\ lo + i - 1 \in 1..n
      BY <1>2, <1>3
    <3>2. u[i] = r[k + (lo + i - 1)] /\ v[i] = p[lo + i - 1]
      BY <2>3, <2>4, <2>5, <3>1
    <3> QED
      BY <3>1, <3>2, <1>1
  <2>8. u \in Seq(Segments) /\ v \in Seq(Segments) /\ Len(u) = Len(v)
        /\ \A i \in 1..Len(u) : u[i] = v[i]
    BY <2>4, <2>5, <2>6, <2>7
  <2>9. u = v
    BY ONLY <2>8, SeqEqual
  <2> QED
    BY <2>9 DEF u, v
<1> QED
  BY <1>1, <1>3, <1>6, <1>7, <1>8 DEF r, k

\* CreatePolicy only adds slashes that are missing: its path has the same normal form,
\* and a path that begins and ends with a slash is kept.
LEMMA PolicyPaths ==
  ASSUME NEW p \in Seq(Segments), p # <<>>
  PROVE  LET r == Iam!normalize_policy_path(p)
         IN  /\ r \in Seq(Segments) /\ r # <<>>
             /\ Iam!normalize_user_path(r) = Iam!normalize_user_path(p)
             /\ Len(p) > 1 /\ p[1] = Iam!Nil /\ p[Len(p)] = Iam!Nil => r = p
<1> DEFINE r == Iam!normalize_policy_path(p)
           a == IF p[1] = Iam!Nil THEN <<>> ELSE <<Iam!Nil>>
           b == IF p[Len(p)] = Iam!Nil THEN <<>> ELSE <<Iam!Nil>>
<1>0. Len(p) \in Nat \ {0}
  BY EmptySeq
<1>1. CASE p = Iam!Blank
  <2>1. r = Iam!Slash
    BY <1>1 DEF Iam!normalize_policy_path
  <2>2. Iam!Slash \in Seq(Segments) /\ Iam!Slash # <<>> /\ IsRoot(p) /\ IsRoot(Iam!Slash)
    BY <1>1, SlashPaths, EmptySeq DEF IsRoot
  <2>3. Iam!normalize_user_path(p) = Iam!Slash /\ Iam!normalize_user_path(Iam!Slash) = Iam!Slash
    BY <2>2, NormalCases
  <2>4. Len(p) = 1
    BY <1>1, SlashPaths
  <2> QED
    BY <2>1, <2>2, <2>3, <2>4
<1>2. CASE p # Iam!Blank
  <2>1. r = a \o p \o b
    BY <1>2 DEF Iam!normalize_policy_path
  <2>2. a \in Seq(Segments) /\ b \in Seq(Segments) /\ OnlySlashes(a) /\ OnlySlashes(b)
    <3>1. <<Iam!Nil>> \in Seq(Segments) /\ \A i \in 1..Len(<<Iam!Nil>>) : <<Iam!Nil>>[i] = Iam!Nil
      BY SlashPaths DEF Iam!Blank
    <3>2. <<>> \in Seq(Segments) /\ Len(<<>>) = 0
      BY EmptySeq
    <3>3. OnlySlashes(<<>>) /\ OnlySlashes(<<Iam!Nil>>)
      BY <3>1, <3>2 DEF OnlySlashes
    <3> QED
      BY <3>1, <3>2, <3>3
  <2>3. ASSUME p[1] = Iam!Nil, p[Len(p)] = Iam!Nil
        PROVE  r = p
    <3>1. r = <<>> \o p \o <<>>
      BY <2>1, <2>3
    <3>2. <<>> \o p = p /\ p \o <<>> = p
      BY ConcatEmptySeq
    <3> QED
      BY <3>1, <3>2
  <2>4. CASE \A i \in 1..Len(p) : p[i] = Iam!Nil
    <3>1. p[1] = Iam!Nil /\ p[Len(p)] = Iam!Nil
      BY <1>0, <2>4
    <3> QED
      BY <2>3, <3>1
  <2>5. CASE \E lo, hi \in 1..Len(p) : Around(p, lo, hi)
    <3>1. PICK lo, hi \in 1..Len(p) : Around(p, lo, hi)
      BY <2>5
    <3> HIDE DEF a, b
    <3>2. /\ r \in Seq(Segments)
          /\ Around(r, Len(a) + lo, Len(a) + hi)
          /\ Iam!TrimSlashes(r) = Iam!TrimSlashes(p)
      BY <2>1, <2>2, <3>1, TrimPadded
    <3> HIDE DEF r
    <3>3. (\E i \in 1..Len(p) : p[i] # Iam!Nil) /\ (\E i \in 1..Len(r) : r[i] # Iam!Nil)
      BY <3>1, <3>2 DEF Around
    <3>4. r # <<>>
      <4>1. Len(r) # 0
        BY <3>2, <3>3
      <4> QED
        BY <4>1, EmptySeq
    <3>5. ~IsRoot(p) /\ ~IsRoot(r)
      BY <3>2, <3>3, <3>4, RootOrNot
    <3>6. Iam!normalize_user_path(r) = Enclosed(Iam!TrimSlashes(r))
      BY <3>2, <3>4, <3>5, NormalCases
    <3>7. Iam!normalize_user_path(p) = Enclosed(Iam!TrimSlashes(p))
      BY <3>5, NormalCases
    <3> QED
      BY <2>3, <3>2, <3>4, <3>6, <3>7 DEF r
  <2> QED
    BY <2>4, <2>5, TrimCases
<1> QED
  BY <1>1, <1>2

\* What is between the slashes of a path.
Middle(p) == IF IsRoot(p) THEN <<>> ELSE Iam!TrimSlashes(p)

\* A resource r is its kind, the middle of a path, a name, one after the other.
Laid(r, kind, m, name) ==
  /\ r \in Seq(Segments) /\ Len(r) = 1 + Len(m) + Len(name) /\ r[1] = kind
  /\ \A i \in 1..Len(m) : r[1 + i] = m[i]
  /\ \A i \in 1..Len(name) : r[1 + Len(m) + i] = name[i]

\* The resource of an ARN: the kind, what is between the slashes of the path, the name.
LEMMA ResourceIs ==
  ASSUME NEW kind \in Segments, NEW p \in Seq(Segments), p # <<>>, NEW name \in Seq(Segments)
  PROVE  /\ Middle(p) \in Seq(Segments)
         /\ Iam!Resource(kind, Iam!normalize_user_path(p), name) = <<kind>> \o Middle(p) \o name
         /\ Laid(Iam!Resource(kind, Iam!normalize_user_path(p), name), kind, Middle(p), name)
<1>1. Middle(p) \in Seq(Segments)
  BY NormalCases, EmptySeq DEF Middle
<1>2. Iam!Resource(kind, Iam!normalize_user_path(p), name) = <<kind>> \o Middle(p) \o name
  BY NormalShape DEF Iam!Resource, Middle
<1>3. ASSUME NEW m \in Seq(Segments)
      PROVE  Laid(<<kind>> \o m \o name, kind, m, name)
  <2> DEFINE k == <<kind>>
             r == k \o m \o name
  <2>1. k \in Seq(Segments) /\ Len(k) = 1 /\ k[1] = kind
    BY ShortTuples
  <2> HIDE DEF k
  <2>2. r \in Seq(Segments) /\ Apart(r, k, m, name)
    BY <2>1, ThreeApart
  <2> HIDE DEF r
  <2>3. Laid(r, kind, m, name)
    BY <2>1, <2>2 DEF Laid, Apart
  <2> QED
    BY <2>3 DEF r, k
<1> QED
  BY <1>1, <1>2, <1>3

\* parse_policy_arn takes the resource of an ARN apart where it was put together, if the
\* name is one segment.
LEMMA MiddleIs ==
  ASSUME NEW m \in Seq(Segments), NEW r \in Seq(Segments), Len(r) = 2 + Len(m),
         \A i \in 1..Len(m) : r[1 + i] = m[i]
  PROVE  SubSeq(r, 2, Len(r) - 1) = m
<1> DEFINE n == Len(m)
           s == SubSeq(r, 2, Len(r) - 1)
<1>1. n \in Nat /\ Len(r) = 2 + n /\ \A i \in 1..n : r[1 + i] = m[i]
  OBVIOUS
<1> HIDE DEF n
<1>2. Len(r) - 1 = n + 1
  BY <1>1
<1>3. \A i \in 2..n + 1 : r[i] \in Segments
  BY <1>1
<1>4. /\ s \in Seq(Segments)
      /\ Len(s) = IF 2 <= n + 1 THEN (n + 1) - 2 + 1 ELSE 0
      /\ \A i \in 1..(n + 1) - 2 + 1 : s[i] = r[2 + i - 1]
  <2>1. 2 \in Int /\ n + 1 \in Int
    BY <1>1
  <2> QED
    BY ONLY <2>1, <1>2, <1>3, SubSeqProperties
<1> HIDE DEF s
<1>5. Len(s) = n /\ \A i \in 1..n : s[i] = r[1 + i]
  <2>1. (n + 1) - 2 + 1 = n /\ (~(2 <= n + 1) => n = 0) /\ \A i \in 1..n : 2 + i - 1 = 1 + i
    BY <1>1
  <2> QED
    BY <1>4, <2>1
<1>6. s \in Seq(Segments) /\ m \in Seq(Segments) /\ Len(s) = Len(m)
      /\ \A i \in 1..Len(s) : s[i] = m[i]
  BY <1>1, <1>4, <1>5 DEF n
<1>7. s = m
  BY ONLY <1>6, SeqEqual
<1> QED
  BY <1>7 DEF s

\* A policy whose path begins and ends with a slash: its ARN, and what it leads to.
LEMMA PolicyArnLeadsBack ==
  ASSUME NEW account, NEW name \in Seq(Segments), name # <<>>, name # Iam!Blank,
         NEW P \in Seq(Segments), Len(P) > 1, P[1] = Iam!Nil, P[Len(P)] = Iam!Nil,
         NEW path \in Seq(Segments), path # <<>>,
         Iam!normalize_user_path(path) = Iam!normalize_user_path(P)
  PROVE  LET policy1 == [account |-> account, name |-> name, path |-> P]
             arn == Iam!PolicyXmlArn(policy1)
             plain == /\ Len(policy1.name) = 1
                      /\ policy1.path = Iam!normalize_user_path(policy1.path)
                      /\ \A i \in DOMAIN arn.resource : arn.resource[i] \notin ColonSegments
         IN  /\ Iam!managed_policy_arn(policy1) = arn
             /\ Iam!policy_arn(account, Iam!normalize_user_path(path), name) = arn
             /\ (Iam!get_managed_policy({policy1}, arn) = {policy1}) <=> plain
<1> DEFINE row == [account |-> account, name |-> name, path |-> P]
           N == Iam!normalize_user_path(P)
           R == Iam!Resource("policy", N, name)
           n == Len(R)
           m == Middle(P)
           whole == [region |-> Iam!Nil, account |-> account, resource |-> R]
           clear == \A i \in DOMAIN R : R[i] \notin ColonSegments
           inner == IF n = 2 THEN Iam!Slash ELSE Enclosed(SubSeq(R, 2, n - 1))
           found == [account |-> account, name |-> <<R[n]>>, path |-> inner]
<1>0. P # <<>>
  BY EmptySeq
<1>1. Iam!normalize_policy_path(P) = P
  BY <1>0, PolicyPaths
<1>2. Iam!PolicyXmlArn(row) = whole
  BY <1>1 DEF Iam!PolicyXmlArn, Iam!policy_arn
<1>3. "policy" \in Segments
  BY DEF Segments
<1>4. /\ m \in Seq(Segments) /\ R = <<"policy">> \o m \o name
      /\ R \in Seq(Segments) /\ n = 1 + Len(m) + Len(name) /\ R[1] = "policy"
      /\ \A i \in 1..Len(m) : R[1 + i] = m[i]
      /\ \A i \in 1..Len(name) : R[1 + Len(m) + i] = name[i]
  <2>1. m \in Seq(Segments) /\ R = <<"policy">> \o m \o name /\ Laid(R, "policy", m, name)
    BY <1>0, <1>3, ResourceIs
  <2> HIDE DEF R, m
  <2> QED
    BY <2>1 DEF Laid
<1>5. Iam!managed_policy_arn(row) = whole
  <2>1. IsRoot(P) <=> P = Iam!Slash
    BY SlashPaths DEF IsRoot
  <2> QED
    BY <2>1, <1>4 DEF Iam!managed_policy_arn, Middle
<1>6. Iam!policy_arn(account, Iam!normalize_user_path(path), name) = whole
  BY NormalTwice DEF Iam!policy_arn
<1>7. /\ N = IF IsRoot(P) THEN Iam!Slash ELSE Enclosed(Iam!TrimSlashes(P))
      /\ Len(m) \in Nat /\ (Len(m) = 0 <=> IsRoot(P))
  <2>1. /\ N = IF IsRoot(P) THEN Iam!Slash ELSE Enclosed(Iam!TrimSlashes(P))
        /\ Iam!TrimSlashes(P) \in Seq(Segments) /\ Len(Iam!TrimSlashes(P)) >= 1
    BY <1>0, NormalCases
  <2>2. Len(m) \in Nat
    BY <1>4
  <2>3. IsRoot(P) => Len(m) = 0
    BY EmptySeq DEF Middle
  <2>4. ~IsRoot(P) => Len(m) >= 1
    BY <2>1 DEF Middle
  <2> QED
    BY <2>1, <2>2, <2>3, <2>4
<1>8. Len(name) \in Nat \ {0}
  BY EmptySeq
<1> HIDE DEF N, R, m
<1>9. n \in Nat /\ n >= 2 /\ R[n] = name[Len(name)]
  <2>1. n \in Nat /\ n >= 2
    BY <1>4, <1>7, <1>8
  <2>2. Len(name) \in 1..Len(name)
    BY <1>8
  <2> QED
    BY <1>4, <2>1, <2>2
<1> HIDE DEF n
<1>10. Iam!parse_policy_arn(whole) = IF R[n] = Iam!Nil \/ ~clear THEN {} ELSE {found}
  <2>1. ~(n < 2) /\ R[1] = "policy"
    BY <1>4, <1>9
  <2> QED
    BY <2>1 DEF Iam!parse_policy_arn, Enclosed, n
<1>11. ASSUME Len(name) = 1
       PROVE  R[n] # Iam!Nil /\ <<R[n]>> = name /\ inner = N
  <2>1. R[n] = name[1]
    BY <1>9, <1>11
  <2>2. <<name[1]>> = name
    <3>1. name[1] \in Segments
      BY <1>11
    <3>2. <<name[1]>> \in Seq(Segments) /\ Len(<<name[1]>>) = 1 /\ <<name[1]>>[1] = name[1]
      BY <3>1, ShortTuples
    <3>3. \A i \in 1..Len(name) : name[i] = <<name[1]>>[i]
      BY <1>11, <3>2
    <3> QED
      BY <1>11, <3>2, <3>3, SeqEqual
  <2>3. name[1] # Iam!Nil
    BY <2>2 DEF Iam!Blank
  <2>4. n = 2 + Len(m)
    BY <1>4, <1>7, <1>11
  <2>5. SubSeq(R, 2, Len(R) - 1) = m
    <3>1. Len(R) = 2 + Len(m)
      BY <2>4 DEF n
    <3> QED
      BY <1>4, <3>1, MiddleIs
  <2>6. SubSeq(R, 2, n - 1) = m
    BY <2>5 DEF n
  <2>7. n = 2 <=> IsRoot(P)
    BY <1>7, <2>4
  <2>8. inner = N
    BY <1>7, <2>6, <2>7 DEF m, Middle
  <2> QED
    BY <2>1, <2>2, <2>3, <2>8
<1>12. row = found <=> name = <<R[n]>> /\ P = inner
  <2> HIDE DEF inner
  <2> QED
    OBVIOUS
<1>13. Iam!get_managed_policy({row}, whole) = {row}
         <=> R[n] # Iam!Nil /\ clear /\ row = found
  <2> HIDE DEF row, found, whole, clear
  <2> QED
    BY <1>10 DEF Iam!get_managed_policy
<1>14. name = <<R[n]>> => Len(name) = 1
  OBVIOUS
<1>15. R[n] # Iam!Nil /\ clear /\ row = found <=> Len(name) = 1 /\ P = N /\ clear
  <2> HIDE DEF row, found, clear, inner
  <2> QED
    BY <1>11, <1>12, <1>14
<1>16. row.name = name /\ row.path = P /\ whole.resource = R
  OBVIOUS
<1> QED
  <2> HIDE DEF whole
  <2> QED
    BY <1>2, <1>5, <1>6, <1>13, <1>15, <1>16 DEF N

\* Policies of CreatePolicy and of the console.
LEMMA PoliciesFound ==
  ASSUME NEW account, NEW name \in Seq(STRING) \ {<<>>}, NEW path \in Seq(STRING) \ {<<>>}
  PROVE  Iam!PolicyFoundByItsArn(account, name, path)
<1> DEFINE Leads(policy1) ==
             LET arn == Iam!PolicyXmlArn(policy1)
                 plain == /\ Len(policy1.name) = 1
                          /\ policy1.path = Iam!normalize_user_path(policy1.path)
                          /\ \A i \in DOMAIN arn.resource : arn.resource[i] \notin ColonSegments
             IN  /\ Iam!managed_policy_arn(policy1) = arn
                 /\ Iam!policy_arn(account, Iam!normalize_user_path(path), name) = arn
                 /\ (Iam!get_managed_policy({policy1}, arn) = {policy1}) <=> plain
           Row(P) == [account |-> account, name |-> name, path |-> P]
<1>1. name \in Seq(Segments) /\ path \in Seq(Segments) /\ name # <<>> /\ path # <<>>
  <2>1. STRING \subseteq Segments
    BY DEF Segments
  <2> QED
    BY <2>1, LargerSet
<1>2. ASSUME NEW P \in Seq(Segments), Len(P) > 1, P[1] = Iam!Nil, P[Len(P)] = Iam!Nil,
             Iam!normalize_user_path(path) = Iam!normalize_user_path(P), name # Iam!Blank
      PROVE  Leads(Row(P))
  BY <1>1, <1>2, PolicyArnLeadsBack
<1> HIDE DEF Leads
<1>3. ASSUME NEW policy1 \in Iam!CreatePolicyRow(account, name, path)
      PROVE  Leads(policy1)
  <2> DEFINE P == Iam!normalize_policy_path(path)
  <2>1. policy1 = Row(P) /\ Iam!validate_iam_name(name) /\ Iam!validate_iam_path(P)
    BY <1>3 DEF Iam!CreatePolicyRow
  <2>2. P \in Seq(Segments) /\ Iam!normalize_user_path(path) = Iam!normalize_user_path(P)
    BY <1>1, PolicyPaths
  <2> HIDE DEF P
  <2>3. Len(P) > 1 /\ P[1] = Iam!Nil /\ P[Len(P)] = Iam!Nil
    BY <2>1 DEF Iam!validate_iam_path
  <2>4. name # Iam!Blank
    BY <2>1 DEF Iam!validate_iam_name, Iam!Blank
  <2> QED
    BY <1>2, <2>1, <2>2, <2>3, <2>4
<1>4. ASSUME NEW policy1 \in Iam!ConsolePolicyRow(account, name, path)
      PROVE  Leads(policy1)
  <2> DEFINE P == Iam!normalize_user_path(path)
  <2>1. policy1 = Row(P) /\ name # Iam!Blank
    BY <1>1, <1>4, NormalCases DEF Iam!ConsolePolicyRow
  <2>2. P \in Seq(Segments) /\ Len(P) > 1 /\ P[1] = Iam!Nil /\ P[Len(P)] = Iam!Nil
    BY <1>1, NormalShape
  <2>3. Iam!normalize_user_path(P) = P
    BY <1>1, NormalTwice
  <2> QED
    BY <1>2, <2>1, <2>2, <2>3
<1> QED
  BY <1>3, <1>4 DEF Iam!PolicyFoundByItsArn, Leads

--------------------------------------------------------------------------------
(* Whom a request is about. *)

\* The user that is authorized for is the user that is worked on.
LEMMA TargetsAuthorized ==
  ASSUME NEW principals, NEW caller, NEW user_name, NEW path,
         NEW action \in Iam!SelfActions \union Iam!NamedActions \union {"GetUser"}
  PROVE  Iam!AuthorizedIsTarget(action, principals, caller, user_name, path)
<1> DEFINE target == Iam!TargetOf(action, principals, caller, user_name)
           authorized == Iam!resolve_authorization(action, principals, caller, user_name)
<1>1. CASE action = "GetUser"
  <2>1. target # {} => authorized = target
    BY <1>1 DEF Iam!TargetOf, Iam!resolve_authorization, Iam!SelfActions, Iam!NamedActions
  <2> QED
    BY <2>1 DEF Iam!AuthorizedIsTarget, Iam!CreateUserRow
<1>2. CASE action \in Iam!SelfActions
  <2>1. action # "GetUser" /\ action \notin Iam!NamedActions /\ action # "GetUserPolicy"
    BY <1>2 DEF Iam!SelfActions, Iam!NamedActions
  <2>2. target = IF user_name # <<>> /\ ~Iam!validate_iam_name(user_name[1]) THEN {}
                 ELSE Iam!requested_or_signing_user(principals, caller, user_name)
    BY <1>2, <2>1 DEF Iam!TargetOf
  <2>3. authorized = IF user_name # <<>> /\ user_name[1] # Iam!Blank
                       THEN Iam!UserNamed(principals, caller.account, user_name[1])
                       ELSE IF caller.kind = "user" THEN {caller} ELSE {}
    BY <1>2, <2>1 DEF Iam!resolve_authorization
  <2> QED
    BY <2>2, <2>3 DEF Iam!requested_or_signing_user, Iam!AuthorizedIsTarget, Iam!CreateUserRow
<1>3. CASE action \in Iam!NamedActions
  <2>1. action # "GetUser" /\ action \notin Iam!SelfActions
    BY <1>3 DEF Iam!SelfActions, Iam!NamedActions
  <2> QED
    BY <1>3, <2>1 DEF Iam!TargetOf, Iam!resolve_authorization, Iam!AuthorizedIsTarget, Iam!CreateUserRow
<1> QED
  BY <1>1, <1>2, <1>3

\* What GetCallerIdentity tells.
LEMMA CallersTold ==
  ASSUME NEW principals, NEW caller \in principals,
         \A p \in principals : p.name \in Seq(STRING) /\ p.path \in Seq(STRING) \ {<<>>},
         \A p, q \in principals :
           p.account = q.account /\ p.kind = q.kind /\ p.name = q.name => p = q
  PROVE  Iam!CallerIsTold(principals, caller)
<1> DEFINE told == Iam!handle_get_caller_identity(principals, caller)
           users == Iam!UserNamed(principals, caller.account, caller.name)
<1>1. told = {Iam!user_arn(caller.account, u.path, u.name) : u \in users}
  BY DEF Iam!handle_get_caller_identity
<1>2. CASE caller.kind = "user"
  <2>1. users = {caller}
    BY <1>2 DEF Iam!UserNamed
  <2>2. Iam!optional_target_user(principals, caller, <<>>) = {caller}
    BY <2>1 DEF Iam!optional_target_user
  <2> QED
    BY <1>1, <1>2, <2>1, <2>2 DEF Iam!CallerIsTold
<1>3. CASE caller.kind # "user"
  <2>1. ASSUME NEW u \in users
        PROVE  Iam!user_arn(caller.account, u.path, u.name).resource[1] = "user"
    <3> DEFINE path == u.path
               name == u.name
               p == Iam!normalize_user_path(path)
    <3>1. u \in principals
      BY <2>1 DEF Iam!UserNamed
    <3>2. STRING \subseteq Segments /\ "user" \in Segments
      BY DEF Segments
    <3>3. path \in Seq(STRING) \ {<<>>} /\ name \in Seq(STRING)
      BY <3>1
    <3> HIDE DEF path, name
    <3>4. path \in Seq(Segments) /\ name \in Seq(Segments) /\ path # <<>>
      BY <3>2, <3>3, LargerSet
    <3>5. Laid(Iam!Resource("user", p, name), "user", Middle(path), name)
      BY <3>2, <3>4, ResourceIs
    <3>6. Iam!Resource("user", p, name)[1] = "user"
      BY <3>5 DEF Laid
    <3> QED
      BY <3>6 DEF Iam!user_arn, path, name
  <2> QED
    BY <1>1, <1>3, <2>1 DEF Iam!CallerIsTold
<1> QED
  BY <1>2, <1>3

\* An input that is about a name is one of its kind.
NamesKept ==
  /\ input.kind = "topic" => input \in TopicInputs
  /\ input.kind = "subscription" => input \in SubscriptionInputs
  /\ input.kind = "topic_arn" => input \in TopicArnInputs
  /\ input.kind = "tag" => input \in TagInputs
  /\ input.kind = "policy_arn" => input \in PolicyArnInputs
  /\ input.kind = "target" => input \in TargetInputs

\* For attributes, tags, paths and names of any length, any topics beside the one that is
\* asked for and any table of principals: an ARN of SNS or IAM leads back to what it was
\* made of where its parts allow it, attributes are shown as they were set, tags come off
\* again, and the user a request is authorized for is the one its handler works on.
THEOREM NamesLeadBackAlways == InputsSpec => []NamesLeadBack
<1>1. NamesKept => NamesLeadBack
  <2> SUFFICES ASSUME NamesKept PROVE NamesLeadBack
    OBVIOUS
  <2>1. input.kind = "topic" =>
          Sns!TopicShownAsSet(input.name, input.entries, input.set, input.value)
    BY SnsAssumption, TopicsShown DEF NamesKept
  <2>2. input.kind = "subscription" =>
          Sns!SubscriptionShownAsSet(input.attributes, input.set, input.value, input.checked)
    BY SnsAssumption, SubscriptionsShown DEF NamesKept
  <2>3. input.kind = "topic_arn" => Sns!TopicFoundByItsArn(input.topic, input.others, input.uuid)
    BY SnsAssumption, TopicsFound DEF NamesKept, SnsTopicIds
  <2>4. input.kind = "tag" => Sns!TagsComeOff(input.entries, input.name)
    <3>1. input.kind = "tag" => input.entries \in TagEntries /\ input.name.fifo \in BOOLEAN
      BY SnsAssumption DEF NamesKept, TagEntries, TagKeys, TagValues
    <3> QED
      BY <3>1, TagsTakenOff
  <2>5. input.kind = "policy_arn" => Iam!PolicyFoundByItsArn(input.account, input.name, input.path)
    BY IamAssumption, PoliciesFound DEF NamesKept
  <2>6. input.kind = "target" =>
          /\ Iam!AuthorizedIsTarget(input.action, input.principals, input.caller, input.user_name,
                                    input.path)
          /\ Iam!CallerIsTold(input.principals, input.caller)
    BY IamAssumption, TargetsAuthorized, CallersTold DEF NamesKept
  <2> QED
    BY <2>1, <2>2, <2>3, <2>4, <2>5, <2>6 DEF NamesLeadBack
<1>2. InputsInit => NamesKept
  BY KindAssumption DEF InputsInit, NoInput, NamesKept
<1>3. ASSUME NamesKept, [InputsNext]_<<policy, input>>
      PROVE  NamesKept'
  BY <1>3 DEF InputsNext, NamesKept
<1> QED
  BY <1>1, <1>2, <1>3, PTL DEF InputsSpec

--------------------------------------------------------------------------------
(* Arranged sequences: where an element goes is found by counting what comes before it. *)

\* What makes a relation an order of I, in which nothing is left undecided.
Orders(order, I) ==
  /\ \A i \in I : <<i, i>> \notin order
  /\ \A i, j \in I : i # j => <<i, j>> \in order \/ <<j, i>> \in order
  /\ \A i, j, k \in I : <<i, j>> \in order /\ <<j, k>> \in order => <<i, k>> \in order

\* What comes earlier has less before it.
LEMMA AheadGrows ==
  ASSUME NEW I, IsFiniteSet(I), NEW order, Orders(order, I), NEW i \in I, NEW j \in I,
         <<i, j>> \in order
  PROVE  /\ Cardinality(Ahead(I, order, i)) \in Nat /\ Cardinality(Ahead(I, order, j)) \in Nat
         /\ Cardinality(Ahead(I, order, i)) < Cardinality(Ahead(I, order, j))
<1>1. Ahead(I, order, i) \in SUBSET Ahead(I, order, j)
  BY DEF Ahead, Orders
<1>2. Ahead(I, order, i) # Ahead(I, order, j)
  BY DEF Ahead, Orders
<1>3. Ahead(I, order, i) \in SUBSET I /\ Ahead(I, order, j) \in SUBSET I
  BY DEF Ahead
<1>4. IsFiniteSet(Ahead(I, order, i)) /\ IsFiniteSet(Ahead(I, order, j))
  BY <1>3, FS_Subset
<1>5. Cardinality(Ahead(I, order, i)) \in Nat /\ Cardinality(Ahead(I, order, j)) \in Nat
  BY <1>4, FS_CardinalityType
<1>6. /\ Cardinality(Ahead(I, order, i)) <= Cardinality(Ahead(I, order, j))
      /\ Cardinality(Ahead(I, order, i)) # Cardinality(Ahead(I, order, j))
  BY ONLY <1>1, <1>2, <1>4, FS_Subset
<1> QED
  BY <1>5, <1>6

\* There is one element of I with k - 1 before it, for every k up to the size of I.
LEMMA PlaceExists ==
  ASSUME NEW I, IsFiniteSet(I), NEW order, Orders(order, I)
  PROVE  /\ \A i \in I : Cardinality(Ahead(I, order, i)) \in 0..(Cardinality(I) - 1)
         /\ \A k \in 1..Cardinality(I) : \E i \in I : Cardinality(Ahead(I, order, i)) = k - 1
<1> DEFINE n == Cardinality(I)
           rank == [i \in I |-> Cardinality(Ahead(I, order, i))]
<1>1. n \in Nat
  BY FS_CardinalityType
<1>2. ASSUME NEW i \in I
      PROVE  rank[i] \in 0..(n - 1)
  <2>1. Ahead(I, order, i) \in SUBSET (I \ {i})
    BY DEF Ahead, Orders
  <2>2. IsFiniteSet(I \ {i}) /\ Cardinality(I \ {i}) = n - 1
    BY FS_RemoveElement
  <2>3. IsFiniteSet(Ahead(I, order, i)) /\ Cardinality(Ahead(I, order, i)) <= n - 1
    BY <2>1, <2>2, FS_Subset
  <2>4. Cardinality(Ahead(I, order, i)) \in Nat
    BY <2>3, FS_CardinalityType
  <2> QED
    BY <1>1, <2>3, <2>4
<1>3. ASSUME NEW i \in I, NEW j \in I, rank[i] = rank[j]
      PROVE  i = j
  <2> SUFFICES ASSUME i # j PROVE FALSE
    OBVIOUS
  <2>1. <<i, j>> \in order \/ <<j, i>> \in order
    BY DEF Orders
  <2>2. CASE <<i, j>> \in order
    BY <1>3, <2>2, AheadGrows
  <2>3. CASE <<j, i>> \in order
    BY <1>3, <2>3, AheadGrows
  <2> QED
    BY <2>1, <2>2, <2>3
<1>4. rank \in [I -> 0..(n - 1)]
  BY <1>2
<1>5. rank \in Injection(I, 0..(n - 1))
  BY <1>3, <1>4 DEF Injection, IsInjective
<1>6. IsFiniteSet(0..(n - 1)) /\ Cardinality(0..(n - 1)) = n
  BY <1>1, FS_Interval
<1>7. rank \in Surjection(I, 0..(n - 1))
  BY <1>5, <1>6, FS_Injection
<1>8. ASSUME NEW k \in 1..n
      PROVE  \E i \in I : rank[i] = k - 1
  <2>1. k - 1 \in 0..(n - 1)
    BY <1>1
  <2> QED
    BY <1>7, <2>1 DEF Surjection
<1> QED
  BY <1>2, <1>8

\* The k-th of I has k - 1 before it, every element of I has its place, and the earlier
\* place goes to the element that comes before.
LEMMA Placed ==
  ASSUME NEW I, IsFiniteSet(I), NEW order, Orders(order, I)
  PROVE  /\ \A k \in 1..Cardinality(I) : Place(I, order, k) \in I
         /\ \A i \in I : \E k \in 1..Cardinality(I) :
              k = Cardinality(Ahead(I, order, i)) + 1 /\ Place(I, order, k) = i
         /\ \A j, k \in 1..Cardinality(I) :
              j < k => <<Place(I, order, j), Place(I, order, k)>> \in order
         /\ \A j, k \in 1..Cardinality(I) : Place(I, order, j) = Place(I, order, k) => j = k
<1>1. Cardinality(I) \in Nat
  BY FS_CardinalityType
<1>2. ASSUME NEW k \in 1..Cardinality(I)
      PROVE  /\ Place(I, order, k) \in I
             /\ Cardinality(Ahead(I, order, Place(I, order, k))) = k - 1
  BY PlaceExists DEF Place
<1>3. ASSUME NEW i \in I, NEW j \in I, i # j
      PROVE  Cardinality(Ahead(I, order, i)) # Cardinality(Ahead(I, order, j))
  <2>1. <<i, j>> \in order \/ <<j, i>> \in order
    BY <1>3 DEF Orders
  <2>2. CASE <<i, j>> \in order
    BY <2>2, AheadGrows
  <2>3. CASE <<j, i>> \in order
    BY <2>3, AheadGrows
  <2> QED
    BY <2>1, <2>2, <2>3
<1>4. ASSUME NEW i \in I
      PROVE  \E k \in 1..Cardinality(I) :
               k = Cardinality(Ahead(I, order, i)) + 1 /\ Place(I, order, k) = i
  <2>1. PICK r \in 0..(Cardinality(I) - 1) : r = Cardinality(Ahead(I, order, i))
    BY PlaceExists
  <2>2. r + 1 \in 1..Cardinality(I) /\ (r + 1) - 1 = r
    BY <1>1
  <2>3. Place(I, order, r + 1) \in I /\ Cardinality(Ahead(I, order, Place(I, order, r + 1))) = r
    BY <1>2, <2>2
  <2>4. Place(I, order, r + 1) = i
    BY <1>3, <2>1, <2>3
  <2> QED
    BY <2>1, <2>2, <2>4
<1>5. ASSUME NEW j \in 1..Cardinality(I), NEW k \in 1..Cardinality(I), j < k
      PROVE  <<Place(I, order, j), Place(I, order, k)>> \in order
  <2> DEFINE a == Place(I, order, j)
             b == Place(I, order, k)
  <2>1. /\ a \in I /\ b \in I
        /\ Cardinality(Ahead(I, order, a)) = j - 1 /\ Cardinality(Ahead(I, order, b)) = k - 1
    BY <1>2
  <2>2. j - 1 < k - 1
    BY <1>1, <1>5
  <2> HIDE DEF a, b
  <2>3. a # b
    BY <1>1, <2>1, <2>2
  <2>4. ~(<<b, a>> \in order)
    <3> SUFFICES ASSUME <<b, a>> \in order PROVE FALSE
      OBVIOUS
    <3>1. Cardinality(Ahead(I, order, b)) < Cardinality(Ahead(I, order, a))
      BY <2>1, AheadGrows
    <3> QED
      BY <1>1, <2>1, <2>2, <3>1
  <2>5. <<a, b>> \in order
    BY <2>1, <2>3, <2>4 DEF Orders
  <2> QED
    BY <2>5 DEF a, b
<1>6. ASSUME NEW j \in 1..Cardinality(I), NEW k \in 1..Cardinality(I),
             Place(I, order, j) = Place(I, order, k)
      PROVE  j = k
  <2>1. j - 1 = k - 1
    BY <1>2, <1>6
  <2> QED
    BY <1>1, <2>1
<1> QED
  BY <1>2, <1>4, <1>5, <1>6

\* A set of numbers is in order.
LEMMA UpwardOrders ==
  ASSUME NEW I \in SUBSET Int
  PROVE  Orders(Upward(I), I)
<1>1. \A i, j \in I : <<i, j>> \in Upward(I) <=> i < j
  BY DEF Upward
<1>2. \A i, j \in I : i \in Int /\ j \in Int
  OBVIOUS
<1> QED
  BY <1>1, <1>2 DEF Orders

\* The k-th of the numbers 1..n is k.
LEMMA FirstPlaces ==
  ASSUME NEW n \in Nat
  PROVE  \A k \in 1..n : Place(1..n, Upward(1..n), k) = k
<1>1. IsFiniteSet(1..n) /\ Cardinality(1..n) = n
  BY FS_Interval
<1>2. Orders(Upward(1..n), 1..n)
  BY UpwardOrders
<1>3. ASSUME NEW k \in 1..n
      PROVE  Place(1..n, Upward(1..n), k) = k
  <2>1. Ahead(1..n, Upward(1..n), k) = 1..(k - 1)
    BY DEF Ahead, Upward
  <2>2. Cardinality(1..(k - 1)) = k - 1
    BY FS_Interval
  <2>3. PICK j \in 1..n : j = (k - 1) + 1 /\ Place(1..n, Upward(1..n), j) = k
    BY <1>1, <1>2, <2>1, <2>2, Placed
  <2>4. j = k
    BY <2>3
  <2> QED
    BY <2>3, <2>4
<1> QED
  BY <1>3

\* An arranged sequence has the elements of the sequence at its places.
LEMMA ArrangedType ==
  ASSUME NEW S, NEW s \in Seq(S), NEW I \in SUBSET (DOMAIN s), NEW order, Orders(order, I)
  PROVE  /\ IsFiniteSet(I) /\ Cardinality(I) \in Nat
         /\ Arrange(s, I, order) \in Seq(S)
         /\ Len(Arrange(s, I, order)) = Cardinality(I)
         /\ \A k \in 1..Cardinality(I) :
              /\ Place(I, order, k) \in I
              /\ Arrange(s, I, order)[k] = s[Place(I, order, k)]
<1>1. IsFiniteSet(DOMAIN s)
  <2>1. DOMAIN s = 1..Len(s) /\ Len(s) \in Nat
    OBVIOUS
  <2> QED
    BY <2>1, FS_Interval
<1>2. IsFiniteSet(I)
  BY <1>1, FS_Subset
<1>3. Cardinality(I) \in Nat
  BY <1>2, FS_CardinalityType
<1>4. \A k \in 1..Cardinality(I) : Place(I, order, k) \in I
  BY <1>2, Placed
<1>5. PICK n \in Nat : n = Cardinality(I)
  BY <1>3
<1>6. Arrange(s, I, order) = [k \in 1..n |-> s[Place(I, order, k)]]
  BY <1>5 DEF Arrange
<1>7. ASSUME NEW k \in 1..n
      PROVE  s[Place(I, order, k)] \in S
  <2>1. Place(I, order, k) \in DOMAIN s
    BY <1>4, <1>5
  <2> QED
    BY <2>1
<1>8. Arrange(s, I, order) \in [1..n -> S]
  BY <1>6, <1>7
<1>9. Arrange(s, I, order) \in Seq(S) /\ Len(Arrange(s, I, order)) = n
  BY <1>8
<1> QED
  BY <1>2, <1>3, <1>4, <1>5, <1>6, <1>9

\* Every element of t is one of s at the places I, and each of those is there once.
OnceEach(t, s, I) ==
  /\ \A k \in DOMAIN t : \E i \in I : t[k] = s[i]
  /\ \A i \in I : \E k \in DOMAIN t :
       t[k] = s[i] /\ \A j \in DOMAIN t : j # k => \E h \in I : h # i /\ t[j] = s[h]

\* What is left of a sequence when some of its places are dropped.
LEMMA KeptType ==
  ASSUME NEW S, NEW s \in Seq(S), NEW I \in SUBSET (DOMAIN s)
  PROVE  /\ Kept(s, I) \in Seq(S) /\ Len(Kept(s, I)) = Cardinality(I)
         /\ OnceEach(Kept(s, I), s, I)
<1>1. I \in SUBSET Int
  <2>1. DOMAIN s = 1..Len(s)
    OBVIOUS
  <2> QED
    BY <2>1
<1>2. Orders(Upward(I), I)
  BY <1>1, UpwardOrders
<1>3. PICK t : t = Kept(s, I)
  OBVIOUS
<1>4. t = Arrange(s, I, Upward(I))
  BY <1>3 DEF Kept
<1>5. /\ IsFiniteSet(I) /\ Cardinality(I) \in Nat
      /\ t \in Seq(S) /\ Len(t) = Cardinality(I)
      /\ \A k \in 1..Cardinality(I) :
           Place(I, Upward(I), k) \in I /\ t[k] = s[Place(I, Upward(I), k)]
  BY <1>2, <1>4, ArrangedType
<1>6. DOMAIN t = 1..Cardinality(I)
  BY <1>5
<1>7. \A k \in DOMAIN t : \E i \in I : t[k] = s[i]
  BY <1>5, <1>6
<1>8. ASSUME NEW i \in I
      PROVE  \E k \in DOMAIN t :
               /\ t[k] = s[i]
               /\ \A j \in DOMAIN t : j # k => \E h \in I : h # i /\ t[j] = s[h]
  <2>1. PICK k \in DOMAIN t : Place(I, Upward(I), k) = i
    BY <1>2, <1>5, <1>6, Placed
  <2>2. ASSUME NEW j \in DOMAIN t, j # k
        PROVE  \E h \in I : h # i /\ t[j] = s[h]
    <3>1. Place(I, Upward(I), j) # i
      BY <1>2, <1>5, <1>6, <2>1, <2>2, Placed
    <3> QED
      BY <1>5, <1>6, <3>1
  <2> QED
    BY <1>5, <1>6, <2>1, <2>2
<1>9. OnceEach(t, s, I)
  BY <1>7, <1>8 DEF OnceEach
<1> QED
  BY <1>3, <1>5, <1>9

\* A sequence that keeps all its places stays as it is.
LEMMA KeptAll ==
  ASSUME NEW S, NEW s \in Seq(S)
  PROVE  Kept(s, DOMAIN s) = s
<1>1. PICK n \in Nat : n = Len(s) /\ DOMAIN s = 1..n
  OBVIOUS
<1>2. Cardinality(1..n) = n
  BY FS_Interval
<1>3. Kept(s, DOMAIN s) = [k \in 1..n |-> s[Place(1..n, Upward(1..n), k)]]
  BY <1>1, <1>2 DEF Kept, Arrange
<1>4. Kept(s, DOMAIN s) = [k \in 1..n |-> s[k]]
  BY <1>3, FirstPlaces
<1> QED
  BY <1>1, <1>4

\* What less must be, so that a sort by it puts every element somewhere.
WeakOrder(less, I) ==
  /\ \A i \in I : <<i, i>> \notin less
  /\ \A i, j, k \in I : <<i, j>> \in less /\ <<j, k>> \in less => <<i, k>> \in less
  /\ \A i, j, k \in I : <<i, k>> \in less => <<i, j>> \in less \/ <<j, k>> \in less

\* The order of a stable sort leaves nothing undecided.
LEMMA StableOrders ==
  ASSUME NEW I \in SUBSET Int, NEW less, WeakOrder(less, I)
  PROVE  Orders(Stable(I, less), I)
<1>1. \A i, j \in I : <<i, j>> \in Stable(I, less) <=>
                        <<i, j>> \in less \/ (<<j, i>> \notin less /\ i < j)
  BY DEF Stable
<1>2. /\ \A i \in I : ~(i < i)
      /\ \A i, j \in I : i # j => i < j \/ j < i
      /\ \A i, j, k \in I : i < j /\ j < k => i < k
  <2>1. \A i \in I : i \in Int
    OBVIOUS
  <2> QED
    BY <2>1
<1>3. \A i \in I : <<i, i>> \notin Stable(I, less)
  BY <1>1, <1>2, Zenon DEF WeakOrder
<1>4. \A i, j \in I : i # j => <<i, j>> \in Stable(I, less) \/ <<j, i>> \in Stable(I, less)
  BY <1>1, <1>2, Zenon
<1>5. ASSUME NEW i \in I, NEW j \in I, NEW k \in I,
             <<i, j>> \in Stable(I, less), <<j, k>> \in Stable(I, less)
      PROVE  <<i, k>> \in Stable(I, less)
  <2>1. i < j /\ j < k => i < k
    BY <1>2
  <2> QED
    BY <1>1, <1>5, <2>1 DEF WeakOrder
<1> QED
  BY <1>3, <1>4, <1>5 DEF Orders

\* A sorted sequence has the elements of the sequence, and none comes after a greater one.
LEMMA SortedType ==
  ASSUME NEW S, NEW s \in Seq(S), NEW less, WeakOrder(less, DOMAIN s)
  PROVE  /\ Sorted(s, less) \in Seq(S) /\ Len(Sorted(s, less)) = Len(s)
         /\ \E f \in [DOMAIN s -> DOMAIN s] :
              /\ \A k \in DOMAIN s : Sorted(s, less)[k] = s[f[k]]
              /\ \A i \in DOMAIN s : \E k \in DOMAIN s : f[k] = i
              /\ \A j, k \in DOMAIN s : f[j] = f[k] => j = k
              /\ \A j, k \in DOMAIN s : j < k => <<f[k], f[j]>> \notin less
<1> DEFINE I == DOMAIN s
           order == Stable(I, less)
           f == [k \in I |-> Place(I, order, k)]
<1>1. PICK n \in Nat : n = Len(s) /\ I = 1..n
  OBVIOUS
<1>2. Cardinality(1..n) = n /\ IsFiniteSet(1..n) /\ 1..n \in SUBSET Int
  BY FS_Interval
<1> HIDE DEF I
<1>3. Orders(order, I)
  BY <1>1, <1>2, StableOrders DEF I
<1> HIDE DEF order
<1>4. Sorted(s, less) = Arrange(s, I, order)
  BY DEF Sorted, I, order
<1>5. /\ Arrange(s, I, order) \in Seq(S) /\ Len(Arrange(s, I, order)) = n
      /\ \A k \in I : Place(I, order, k) \in I /\ Arrange(s, I, order)[k] = s[Place(I, order, k)]
  <2>1. I \in SUBSET (DOMAIN s)
    BY DEF I
  <2> QED
    BY <1>1, <1>2, <1>3, <2>1, ArrangedType
<1>6. /\ \A i \in I : \E k \in I : Place(I, order, k) = i
      /\ \A j, k \in I : Place(I, order, j) = Place(I, order, k) => j = k
      /\ \A j, k \in I : j < k => <<Place(I, order, j), Place(I, order, k)>> \in order
  <2>1. IsFiniteSet(I) /\ Cardinality(I) = n
    BY <1>1, <1>2
  <2>2. /\ \A i \in I : \E k \in 1..Cardinality(I) :
             k = Cardinality(Ahead(I, order, i)) + 1 /\ Place(I, order, k) = i
        /\ \A j, k \in 1..Cardinality(I) :
             j < k => <<Place(I, order, j), Place(I, order, k)>> \in order
        /\ \A j, k \in 1..Cardinality(I) : Place(I, order, j) = Place(I, order, k) => j = k
    BY <1>3, <2>1, Placed
  <2>3. \A k : k \in 1..Cardinality(I) <=> k \in I
    BY <1>1, <2>1
  <2> QED
    BY <2>2, <2>3, Zenon
<1>7. \A i, j \in I : <<i, j>> \in order => <<j, i>> \notin less
  <2>1. \A i, j \in I : <<i, j>> \in order => <<i, j>> \in less \/ <<j, i>> \notin less
    BY DEF order, Stable
  <2> QED
    BY <2>1 DEF WeakOrder, I
<1>8. f \in [I -> I] /\ \A k \in I : f[k] = Place(I, order, k)
  BY <1>5
<1> HIDE DEF f
<1>9. /\ \A k \in I : Sorted(s, less)[k] = s[f[k]]
      /\ \A i \in I : \E k \in I : f[k] = i
      /\ \A j, k \in I : f[j] = f[k] => j = k
      /\ \A j, k \in I : j < k => <<f[k], f[j]>> \notin less
  <2>1. \A k \in I : Sorted(s, less)[k] = s[f[k]]
    BY <1>4, <1>5, <1>8
  <2>2. \A i \in I : \E k \in I : f[k] = i
    BY <1>6, <1>8
  <2>3. \A j, k \in I : f[j] = f[k] => j = k
    BY <1>6, <1>8
  <2>4. ASSUME NEW j \in I, NEW k \in I, j < k
        PROVE  <<f[k], f[j]>> \notin less
    <3>1. f[j] \in I /\ f[k] \in I /\ <<f[j], f[k]>> \in order
      BY <1>6, <1>8, <2>4
    <3> QED
      BY <1>7, <3>1
  <2> QED
    BY <2>1, <2>2, <2>3, <2>4
<1> QED
  BY <1>1, <1>4, <1>5, <1>8, <1>9 DEF I

--------------------------------------------------------------------------------
(* Messages: the digest of the attributes, filters and batches. *)

\* The operators of Arranged are the same in module MessageFormats.
LEMMA MessagesArranged ==
  /\ \A I, order, i : Messages!Ahead(I, order, i) = Ahead(I, order, i)
  /\ \A I : Messages!Cardinality(I) = Cardinality(I)
  /\ \A I, order, k : Messages!Place(I, order, k) = Place(I, order, k)
  /\ \A s, I, order : Messages!Arrange(s, I, order) = Arrange(s, I, order)
  /\ \A I : Messages!Upward(I) = Upward(I)
  /\ \A s, I : Messages!Kept(s, I) = Kept(s, I)
  /\ \A I, less : Messages!Stable(I, less) = Stable(I, less)
  /\ \A s, less : Messages!Sorted(s, less) = Sorted(s, less)
<1>1. \A I, order, i : Messages!Ahead(I, order, i) = Ahead(I, order, i)
  BY DEF Messages!Ahead, Ahead
<1>2. \A I : Messages!Cardinality(I) = Cardinality(I)
  BY DEF Messages!Cardinality, Cardinality
<1>3. \A I, order, k : Messages!Place(I, order, k) = Place(I, order, k)
  BY DEF Messages!Place, Place, Messages!Ahead, Ahead, Messages!Cardinality, Cardinality
<1>4. \A s, I, order : Messages!Arrange(s, I, order) = Arrange(s, I, order)
  BY <1>2, <1>3 DEF Messages!Arrange, Arrange
<1>5. \A I : Messages!Upward(I) = Upward(I)
  BY DEF Messages!Upward, Upward
<1>6. \A s, I : Messages!Kept(s, I) = Kept(s, I)
  BY <1>4, <1>5 DEF Messages!Kept, Kept
<1>7. \A I, less : Messages!Stable(I, less) = Stable(I, less)
  BY DEF Messages!Stable, Stable
<1>8. \A s, less : Messages!Sorted(s, less) = Sorted(s, less)
  BY <1>4, <1>7 DEF Messages!Sorted, Sorted
<1> QED
  BY <1>1, <1>2, <1>3, <1>4, <1>5, <1>6, <1>7, <1>8

\* Attributes as they come: a name with its rank, and a value.
MessageAttribute ==
  [name : [rank : Nat, length : Nat, badDots : BOOLEAN, reserved : BOOLEAN, allowed : BOOLEAN],
   value : [data_type : STRING, string_value : STRING, binary_value : STRING]]

\* The order by name.
RankLess(a) ==
  {p \in (DOMAIN a) \X (DOMAIN a) : a[p[1]].name.rank < a[p[2]].name.rank}

\* No name is there twice.
DistinctRanks(a) == \A j, k \in DOMAIN a : a[j].name.rank = a[k].name.rank => j = k
\* The names are in order.
Ascending(a) == \A j, k \in DOMAIN a : j < k => a[j].name.rank < a[k].name.rank

\* The order by name is one that a sequence can be sorted by.
LEMMA RankIsOrder ==
  ASSUME NEW a \in Seq(MessageAttribute)
  PROVE  /\ \A i \in DOMAIN a : a[i].name.rank \in Nat
         /\ \A i, j \in DOMAIN a : <<i, j>> \in RankLess(a) <=> a[i].name.rank < a[j].name.rank
         /\ WeakOrder(RankLess(a), DOMAIN a)
         /\ Messages!ByRank(a) = Sorted(a, RankLess(a))
<1>1. \A i \in DOMAIN a : a[i] \in MessageAttribute
  OBVIOUS
<1>2. \A i \in DOMAIN a : a[i].name.rank \in Nat
  BY <1>1 DEF MessageAttribute
<1>3. PICK I : I = DOMAIN a
  OBVIOUS
<1>4. PICK r : r = [i \in I |-> a[i].name.rank]
  OBVIOUS
<1>5. \A i, j \in I : <<i, j>> \in RankLess(a) <=> r[i] < r[j]
  BY <1>3, <1>4 DEF RankLess
<1>6. \A i \in I : r[i] \in Nat
  BY <1>2, <1>3, <1>4
<1>7. WeakOrder(RankLess(a), I)
  BY <1>5, <1>6, SMTT(30) DEF WeakOrder
<1>8. Messages!ByRank(a) = Sorted(a, RankLess(a))
  BY MessagesArranged DEF Messages!ByRank, RankLess
<1> QED
  BY <1>2, <1>3, <1>4, <1>5, <1>7, <1>8

\* Sorted by name, a list of attributes has the same ones, in the order of their names.
LEMMA ByRankSorts ==
  ASSUME NEW a \in Seq(MessageAttribute)
  PROVE  /\ Messages!ByRank(a) \in Seq(MessageAttribute)
         /\ \A k \in DOMAIN Messages!ByRank(a) : \E i \in DOMAIN a : Messages!ByRank(a)[k] = a[i]
         /\ \A i \in DOMAIN a : \E k \in DOMAIN Messages!ByRank(a) : Messages!ByRank(a)[k] = a[i]
         /\ DistinctRanks(a) => Ascending(Messages!ByRank(a))
<1>1. PICK b : b = Messages!ByRank(a)
  OBVIOUS
<1>2. b = Sorted(a, RankLess(a)) /\ WeakOrder(RankLess(a), DOMAIN a)
  BY <1>1, RankIsOrder
<1>3. /\ b \in Seq(MessageAttribute) /\ Len(b) = Len(a)
      /\ \E f \in [DOMAIN a -> DOMAIN a] :
           /\ \A k \in DOMAIN a : b[k] = a[f[k]]
           /\ \A i \in DOMAIN a : \E k \in DOMAIN a : f[k] = i
           /\ \A j, k \in DOMAIN a : f[j] = f[k] => j = k
           /\ \A j, k \in DOMAIN a : j < k => <<f[k], f[j]>> \notin RankLess(a)
  <2>1. PICK less : less = RankLess(a)
    OBVIOUS
  <2>2. b = Sorted(a, less) /\ WeakOrder(less, DOMAIN a)
    BY <1>2, <2>1
  <2>3. /\ Sorted(a, less) \in Seq(MessageAttribute) /\ Len(Sorted(a, less)) = Len(a)
        /\ \E f \in [DOMAIN a -> DOMAIN a] :
             /\ \A k \in DOMAIN a : Sorted(a, less)[k] = a[f[k]]
             /\ \A i \in DOMAIN a : \E k \in DOMAIN a : f[k] = i
             /\ \A j, k \in DOMAIN a : f[j] = f[k] => j = k
             /\ \A j, k \in DOMAIN a : j < k => <<f[k], f[j]>> \notin less
    BY ONLY a \in Seq(MessageAttribute), <2>2, SortedType
  <2> QED
    BY <2>1, <2>2, <2>3
<1>4. DOMAIN b = DOMAIN a
  BY <1>3
<1>5. PICK f \in [DOMAIN a -> DOMAIN a] :
           /\ \A k \in DOMAIN a : b[k] = a[f[k]]
           /\ \A i \in DOMAIN a : \E k \in DOMAIN a : f[k] = i
           /\ \A j, k \in DOMAIN a : f[j] = f[k] => j = k
           /\ \A j, k \in DOMAIN a : j < k => <<f[k], f[j]>> \notin RankLess(a)
  BY <1>3
<1>6. \A k \in DOMAIN b : \E i \in DOMAIN a : b[k] = a[i]
  BY <1>4, <1>5
<1>7. \A i \in DOMAIN a : \E k \in DOMAIN b : b[k] = a[i]
  BY <1>4, <1>5
<1>8. ASSUME DistinctRanks(a), NEW j \in DOMAIN b, NEW k \in DOMAIN b, j < k
      PROVE  b[j].name.rank < b[k].name.rank
  <2>1. PICK x \in DOMAIN a, y \in DOMAIN a : x = f[j] /\ y = f[k]
    BY <1>4, <1>5
  <2>2. x # y
    <3>1. j # k
      <4>1. PICK n \in Nat : DOMAIN b = 1..n
        BY ONLY <1>3
      <4>2. j \in Int /\ k \in Int
        BY <4>1
      <4> QED
        BY <1>8, <4>2
    <3> QED
      BY <1>4, <1>5, <2>1, <3>1
  <2>3. <<y, x>> \notin RankLess(a)
    BY <1>4, <1>5, <1>8, <2>1
  <2>4. /\ a[x].name.rank \in Nat /\ a[y].name.rank \in Nat
        /\ ~(a[y].name.rank < a[x].name.rank)
    BY <2>3, RankIsOrder
  <2>5. a[x].name.rank # a[y].name.rank
    BY <1>8, <2>2 DEF DistinctRanks
  <2>6. a[x].name.rank < a[y].name.rank
    BY <2>4, <2>5
  <2>7. b[j] = a[x] /\ b[k] = a[y]
    BY <1>4, <1>5, <2>1
  <2> QED
    BY <2>6, <2>7
<1> QED
  BY <1>1, <1>3, <1>6, <1>7, <1>8 DEF Ascending

\* Sorting what is in order changes nothing.
LEMMA ByRankAgain ==
  ASSUME NEW b \in Seq(MessageAttribute), Ascending(b)
  PROVE  Messages!ByRank(b) = b
<1>1. PICK I \in SUBSET Int : I = DOMAIN b
  OBVIOUS
<1>2. \A i, j \in I : i < j => b[i].name.rank < b[j].name.rank
  BY <1>1 DEF Ascending
<1>3. \A i \in I : b[i].name.rank \in Nat
  BY <1>1, RankIsOrder
<1>4. \A i, j \in I : b[i].name.rank < b[j].name.rank <=> i < j
  <2> SUFFICES ASSUME NEW i \in I, NEW j \in I
               PROVE  b[i].name.rank < b[j].name.rank <=> i < j
    OBVIOUS
  <2>1. i \in Int /\ j \in Int /\ b[i].name.rank \in Nat /\ b[j].name.rank \in Nat
    BY <1>3
  <2>2. j < i => b[j].name.rank < b[i].name.rank
    BY <1>2
  <2>3. i < j => b[i].name.rank < b[j].name.rank
    BY <1>2
  <2> QED
    BY <2>1, <2>2, <2>3
<1>5. \A i, j \in I : <<i, j>> \in RankLess(b) <=> i < j
  BY <1>1, <1>4, RankIsOrder
<1>6. \A i, j \in I : ~(i < j /\ j < i)
  <2>1. \A i \in I : i \in Int
    OBVIOUS
  <2> QED
    BY <2>1
<1>7. Stable(I, RankLess(b)) = Upward(I)
  <2>1. \A p \in I \X I : p \in Stable(I, RankLess(b)) <=> p \in Upward(I)
    <3> TAKE p \in I \X I
    <3>0. PICK i \in I, j \in I : p = <<i, j>>
      <4>1. p[1] \in I /\ p[2] \in I /\ p = <<p[1], p[2]>>
        OBVIOUS
      <4> QED
        BY <4>1
    <3>1. <<i, j>> \in Stable(I, RankLess(b)) <=>
            <<i, j>> \in RankLess(b) \/ (<<j, i>> \notin RankLess(b) /\ i < j)
      BY DEF Stable
    <3>2. <<i, j>> \in Upward(I) <=> i < j
      BY DEF Upward
    <3> QED
      BY <1>5, <3>0, <3>1, <3>2
  <2>2. Stable(I, RankLess(b)) \subseteq I \X I /\ Upward(I) \subseteq I \X I
    BY DEF Stable, Upward
  <2> QED
    BY <2>1, <2>2
<1>8. Sorted(b, RankLess(b)) = Kept(b, DOMAIN b)
  BY <1>1, <1>7 DEF Sorted, Kept
<1>9. Kept(b, DOMAIN b) = b
  BY KeptAll
<1> QED
  BY <1>8, <1>9, RankIsOrder

\* A value a digest can be taken of.
Digestible(v) ==
  LET text == IF v.data_type \in Messages!BinaryTypes THEN v.binary_value ELSE v.string_value
  IN  text # Messages!None /\ (v.data_type \in Messages!BinaryTypes => text # Messages!NotBase64)

\* There is a digest of attributes when there is one of each, and one at most.
LEMMA DigestExists ==
  ASSUME NEW a \in Seq(MessageAttribute)
  PROVE  /\ Messages!calculate_message_attributes_md5(a) # {} <=>
              \A i \in DOMAIN a : Digestible(a[i].value)
         /\ \A d \in Messages!calculate_message_attributes_md5(a) :
              Messages!calculate_message_attributes_md5(a) = {d}
<1>1. PICK b : b = Messages!ByRank(a)
  OBVIOUS
<1>2. (\A i \in DOMAIN b : Digestible(b[i].value)) <=> (\A i \in DOMAIN a : Digestible(a[i].value))
  BY <1>1, ByRankSorts
<1>3. PICK d : Messages!calculate_message_attributes_md5(a) =
                 IF \A i \in DOMAIN b : Digestible(b[i].value) THEN {d} ELSE {}
  BY <1>1 DEF Messages!calculate_message_attributes_md5, Digestible
<1> QED
  BY <1>2, <1>3

\* The digest is of the attributes in order.
LEMMA DigestOfSorted ==
  ASSUME NEW a \in Seq(MessageAttribute), NEW b, b = Messages!ByRank(a), Messages!ByRank(b) = b
  PROVE  Messages!calculate_message_attributes_md5(b) = Messages!calculate_message_attributes_md5(a)
BY DEF Messages!calculate_message_attributes_md5

\* Of attributes that have a digest, those that are asked for have one.
LEMMA FilteredHasDigest ==
  ASSUME NEW a \in Seq(MessageAttribute), NEW requested,
         Messages!calculate_message_attributes_md5(a) # {}
  PROVE  Messages!calculate_message_attributes_md5(Messages!filter_message_attributes(a, requested)) # {}
<1>1. PICK I \in SUBSET (DOMAIN a) :
        I = {i \in DOMAIN a : Messages!include_requested_message_attribute(a[i].name, requested)}
  OBVIOUS
<1>2. Messages!filter_message_attributes(a, requested) = Kept(a, I)
  BY <1>1, MessagesArranged DEF Messages!filter_message_attributes
<1>3. /\ Kept(a, I) \in Seq(MessageAttribute)
      /\ \A k \in DOMAIN Kept(a, I) : \E i \in I : Kept(a, I)[k] = a[i]
  BY KeptType DEF OnceEach
<1>4. \A i \in DOMAIN a : Digestible(a[i].value)
  BY DigestExists
<1>5. \A k \in DOMAIN Kept(a, I) : Digestible(Kept(a, I)[k].value)
  BY <1>3, <1>4
<1> QED
  BY <1>2, <1>3, <1>5, DigestExists

\* SendMessage and ReceiveMessage.
LEMMA MessageReceived ==
  ASSUME NEW message, NEW queue, NEW requested,
         message.attributes \in Seq(MessageAttribute), DistinctRanks(message.attributes)
  PROVE  Messages!AcceptedIsReceivable(message, queue, requested)
<1> DEFINE a == message.attributes
           b == Messages!ByRank(a)
           row == Messages!StoredBySend(message)
           all == Messages!AllNames(a)
<1> SUFFICES ASSUME Messages!SendAccepted(message, queue)
             PROVE  /\ Messages!ReceivedMessage(row, requested) # {}
                    /\ \A answer \in Messages!ReceivedMessage(row, all) :
                         /\ {answer.md5} = Messages!calculate_message_attributes_md5(a)
                         /\ answer.trace = Messages!extract_aws_trace_header(message.trace)
  BY DEF Messages!AcceptedIsReceivable
<1>1. Messages!calculate_message_attributes_md5(a) # {}
  BY DEF Messages!SendAccepted, Messages!DigestsAtSend
<1> HIDE DEF a
<1>2. a \in Seq(MessageAttribute) /\ DistinctRanks(a)
  BY DEF a
<1>3. /\ row.attributes.api = TRUE /\ row.attributes.attributes = b
      /\ row.trace = Messages!extract_aws_trace_header(message.trace)
  BY DEF Messages!StoredBySend, Messages!serialize_message_attributes, a
<1>4. /\ b \in Seq(MessageAttribute) /\ Ascending(b)
      /\ \A k \in DOMAIN b : \E i \in DOMAIN a : b[k] = a[i]
  BY <1>2, ByRankSorts
<1>5. Messages!ByRank(b) = b
  BY <1>4, ByRankAgain
<1>6. Messages!calculate_message_attributes_md5(b) = Messages!calculate_message_attributes_md5(a)
  BY <1>2, <1>5, DigestOfSorted
<1> HIDE DEF b, row
<1>7. ASSUME NEW r
      PROVE  Messages!ReceivedMessage(row, r) =
               {[body |-> row.body, trace |-> row.trace,
                 attributes |-> Messages!filter_message_attributes(b, r), md5 |-> d] :
                  d \in Messages!calculate_message_attributes_md5(Messages!filter_message_attributes(b, r))}
  <2>1. Messages!parse_message_attributes(row) = {b}
    BY <1>3 DEF Messages!parse_message_attributes
  <2>2. (CHOOSE x \in {b} : TRUE) = b
    OBVIOUS
  <2> QED
    BY <2>1, <2>2 DEF Messages!ReceivedMessage
<1>8. Messages!ReceivedMessage(row, requested) # {}
  <2>1. Messages!calculate_message_attributes_md5(Messages!filter_message_attributes(b, requested)) # {}
    BY <1>1, <1>4, <1>6, FilteredHasDigest
  <2>2. PICK d : d \in Messages!calculate_message_attributes_md5(
                       Messages!filter_message_attributes(b, requested))
    BY <2>1
  <2>3. [body |-> row.body, trace |-> row.trace,
         attributes |-> Messages!filter_message_attributes(b, requested), md5 |-> d]
          \in Messages!ReceivedMessage(row, requested)
    BY <1>7, <2>2, Zenon
  <2> QED
    BY <2>3
<1>9. Messages!filter_message_attributes(b, all) = b
  <2>1. \A k \in DOMAIN b : Messages!include_requested_message_attribute(b[k].name, all)
    BY <1>4 DEF Messages!include_requested_message_attribute, Messages!AllNames
  <2>2. Messages!filter_message_attributes(b, all) = Kept(b, DOMAIN b)
    BY <2>1, MessagesArranged DEF Messages!filter_message_attributes
  <2> QED
    BY <1>4, <2>2, KeptAll
<1>10. ASSUME NEW answer \in Messages!ReceivedMessage(row, all)
       PROVE  /\ {answer.md5} = Messages!calculate_message_attributes_md5(a)
              /\ answer.trace = Messages!extract_aws_trace_header(message.trace)
  <2>1. PICK d \in Messages!calculate_message_attributes_md5(b) :
          answer = [body |-> row.body, trace |-> row.trace, attributes |-> b, md5 |-> d]
    BY <1>7, <1>9
  <2>2. answer.md5 = d /\ answer.trace = row.trace
    BY <2>1
  <2>3. Messages!calculate_message_attributes_md5(b) = {d}
    BY <1>4, <2>1, DigestExists
  <2> QED
    BY <1>3, <1>6, <2>2, <2>3
<1> QED
  BY <1>8, <1>10

\* A receive of two messages, one of them the console's.
LEMMA ConsoleMessageReceived ==
  ASSUME NEW message, NEW form, NEW queue, NEW requested,
         message.attributes \in Seq(MessageAttribute), DistinctRanks(message.attributes)
  PROVE  Messages!OnlyConsoleMessagesFail(message, form, queue, requested)
<1> DEFINE sent == Messages!StoredBySend(message)
           row == Messages!StoredByConsole(form)
           shown == Messages!ConsoleMessageAttributes(row)
<1> SUFFICES ASSUME Messages!SendAccepted(message, queue),
                    Messages!ReceiveFails(<<sent, row>>, requested),
                    ~shown.has_unparsed
             PROVE  ~Messages!DigestsAtSend(Messages!filter_message_attributes(shown.attributes, requested))
  BY DEF Messages!OnlyConsoleMessagesFail
<1>1. Messages!ReceivedMessage(sent, requested) # {}
  BY MessageReceived DEF Messages!AcceptedIsReceivable
<1> HIDE DEF sent, row
<1>2. Messages!ReceivedMessage(row, requested) = {}
  <2>1. PICK i \in DOMAIN <<sent, row>> : Messages!ReceivedMessage(<<sent, row>>[i], requested) = {}
    BY DEF Messages!ReceiveFails
  <2> QED
    BY <1>1, <2>1
<1>3. row.attributes.api /\ shown.attributes = row.attributes.attributes
  BY DEF Messages!ConsoleMessageAttributes
<1>4. Messages!parse_message_attributes(row) = {row.attributes.attributes}
  BY <1>3 DEF Messages!parse_message_attributes
<1> DEFINE c == row.attributes.attributes
<1>5. (CHOOSE x \in {c} : TRUE) = c
  OBVIOUS
<1> HIDE DEF c
<1>6. Messages!calculate_message_attributes_md5(Messages!filter_message_attributes(c, requested)) = {}
  BY <1>2, <1>4, <1>5 DEF Messages!ReceivedMessage, c
<1> QED
  BY <1>3, <1>6 DEF Messages!DigestsAtSend, c

\* The ID of an entry of a batch.
EntryId == [id : Nat, length : Nat, allowed : BOOLEAN]

\* The batches.
LEMMA BatchAnswered ==
  ASSUME NEW ids \in Seq(EntryId), NEW succeeds
  PROVE  Messages!BatchAnswersOnce(ids, succeeds)
<1> DEFINE good == {i \in DOMAIN ids : ids[i] \in succeeds}
           bad == {i \in DOMAIN ids : ids[i] \notin succeeds}
           s == Kept(ids, good)
           t == Kept(ids, bad)
<1> SUFFICES ASSUME Messages!BatchAccepted(ids), NEW i \in DOMAIN ids
             PROVE  \E k \in DOMAIN (s \o t) :
                      /\ (s \o t)[k] = ids[i]
                      /\ \A j \in DOMAIN (s \o t) : (s \o t)[j] = ids[i] => j = k
  <2>1. Messages!BatchAnswer(ids, succeeds) = [successful |-> s, failed |-> t]
    BY MessagesArranged DEF Messages!BatchAnswer
  <2> HIDE DEF s, t
  <2>2. /\ Messages!BatchAnswer(ids, succeeds).successful = s
        /\ Messages!BatchAnswer(ids, succeeds).failed = t
    BY <2>1
  <2> QED
    BY <2>2, ZenonT(30) DEF Messages!BatchAnswersOnce
<1>1. \A j, k \in DOMAIN ids : ids[j] = ids[k] => j = k
  BY DEF Messages!BatchAccepted, Messages!validate_batch_request
<1>2. good \in SUBSET (DOMAIN ids) /\ bad \in SUBSET (DOMAIN ids) /\ good \intersect bad = {}
      /\ (i \in good \/ i \in bad)
  OBVIOUS
<1> HIDE DEF good, bad
<1>3. s \in Seq(EntryId) /\ OnceEach(s, ids, good)
  BY <1>2, KeptType
<1>4. t \in Seq(EntryId) /\ OnceEach(t, ids, bad)
  BY <1>2, KeptType
<1> HIDE DEF s, t
<1>5. PICK m \in Nat, n \in Nat : m = Len(s) /\ n = Len(t) /\ DOMAIN s = 1..m /\ DOMAIN t = 1..n
  BY <1>3, <1>4
<1>6. /\ DOMAIN (s \o t) = 1..(m + n)
      /\ \A k \in 1..m : k \in 1..(m + n) /\ (s \o t)[k] = s[k]
      /\ \A k \in 1..n : m + k \in 1..(m + n) /\ (s \o t)[m + k] = t[k]
      /\ \A k \in 1..(m + n) : k \in 1..m \/ \E h \in 1..n : k = m + h
  <2>1. Len(s \o t) = m + n /\ DOMAIN (s \o t) = 1..(m + n)
    BY <1>3, <1>4, <1>5
  <2>2. \A k \in 1..m : k \in 1..(m + n) /\ (s \o t)[k] = s[k]
    BY <1>3, <1>4, <1>5
  <2>3. \A k \in 1..n : m + k \in 1..(m + n) /\ (s \o t)[m + k] = t[k]
    BY <1>3, <1>4, <1>5
  <2>4. ASSUME NEW k \in 1..(m + n), ~(k \in 1..m)
        PROVE  \E h \in 1..n : k = m + h
    <3>1. k - m \in 1..n /\ k = m + (k - m)
      BY <2>4
    <3> QED
      BY <3>1
  <2> QED
    BY <2>1, <2>2, <2>3, <2>4
<1> DEFINE u == s \o t
<1> HIDE DEF u
<1>7. /\ DOMAIN u = 1..(m + n)
      /\ \A k \in 1..m : k \in DOMAIN u /\ u[k] = s[k]
      /\ \A k \in 1..n : m + k \in DOMAIN u /\ u[m + k] = t[k]
      /\ \A k \in DOMAIN u : k \in 1..m \/ \E h \in 1..n : k = m + h
  BY <1>6 DEF u
<1>8. CASE i \in good
  <2>1. PICK k \in 1..m : s[k] = ids[i] /\ \A j \in 1..m : j # k => \E g \in good : g # i /\ s[j] = ids[g]
    <3>1. \E k \in DOMAIN s :
            s[k] = ids[i] /\ \A j \in DOMAIN s : j # k => \E g \in good : g # i /\ s[j] = ids[g]
      BY <1>3, <1>8 DEF OnceEach
    <3> QED
      BY <1>5, <3>1
  <2>2. \A j \in 1..m : s[j] = ids[i] => j = k
    BY <1>1, <1>2, <2>1
  <2>3. \A j \in 1..n : t[j] # ids[i]
    BY <1>1, <1>2, <1>4, <1>5, <1>8 DEF OnceEach
  <2>4. ASSUME NEW j \in DOMAIN u, u[j] = ids[i]
        PROVE  j = k
    <3>1. CASE j \in 1..m
      BY <1>7, <2>2, <2>4, <3>1
    <3>2. ASSUME NEW h \in 1..n, j = m + h
          PROVE  FALSE
      BY <1>7, <2>3, <2>4, <3>2
    <3> QED
      BY <1>7, <3>1, <3>2
  <2>5. k \in DOMAIN u /\ u[k] = ids[i]
    BY <1>7, <2>1
  <2> QED
    BY <2>4, <2>5 DEF u
<1>9. CASE i \in bad
  <2>1. PICK k \in 1..n : t[k] = ids[i] /\ \A j \in 1..n : j # k => \E g \in bad : g # i /\ t[j] = ids[g]
    <3>1. \E k \in DOMAIN t :
            t[k] = ids[i] /\ \A j \in DOMAIN t : j # k => \E g \in bad : g # i /\ t[j] = ids[g]
      BY ONLY <1>4, <1>9 DEF OnceEach
    <3>2. DOMAIN t = 1..n
      BY <1>5
    <3> QED
      BY ONLY <3>1, <3>2
  <2>2. \A j \in 1..n : t[j] = ids[i] => j = k
    BY <1>1, <1>2, <2>1
  <2>3. \A j \in 1..m : s[j] # ids[i]
    BY <1>1, <1>2, <1>3, <1>5, <1>9 DEF OnceEach
  <2>4. ASSUME NEW j \in DOMAIN u, u[j] = ids[i]
        PROVE  j = m + k
    <3>1. CASE j \in 1..m
      BY <1>7, <2>3, <2>4, <3>1
    <3>2. ASSUME NEW h \in 1..n, j = m + h
          PROVE  h = k
      BY <1>7, <2>2, <2>4, <3>2
    <3> QED
      BY <1>7, <3>1, <3>2
  <2>5. m + k \in DOMAIN u /\ u[m + k] = ids[i]
    BY <1>7, <2>1
  <2> QED
    BY <2>4, <2>5 DEF u
<1> QED
  BY <1>2, <1>8, <1>9

\* The kinds of inputs that messages and batches are of.
MessagesKept ==
  /\ input.kind = "message" => input \in MessageInputs
  /\ input.kind = "batch" => input \in BatchInputs

\* For every message, form, queue, filter and batch: what send_message accepts is received
\* with the digest that was answered, whatever the filter on its attributes; a receive
\* fails only on what the console stored without that check; every entry of a batch is
\* answered once.
THEOREM MessagesReceivableAlways == InputsSpec => []MessagesReceivable
<1>1. MessagesKept => MessagesReceivable
  <2> SUFFICES ASSUME MessagesKept PROVE MessagesReceivable
    OBVIOUS
  <2>1. input.kind = "message" =>
          /\ Messages!AcceptedIsReceivable(input.message, input.queue, input.requested)
          /\ Messages!OnlyConsoleMessagesFail(input.message, input.form, input.queue, input.requested)
    <3> HAVE input.kind = "message"
    <3>1. input.message.attributes \in Seq(MessageAttribute) /\ DistinctRanks(input.message.attributes)
      BY MessageAssumption DEF MessagesKept, MessageAttribute, DistinctRanks
    <3> QED
      BY <3>1, MessageReceived, ConsoleMessageReceived
  <2>2. input.kind = "batch" => Messages!BatchAnswersOnce(input.ids, input.succeeds)
    <3> HAVE input.kind = "batch"
    <3>1. input.ids \in Seq(EntryId)
      BY MessageAssumption DEF MessagesKept, EntryId
    <3> QED
      BY <3>1, BatchAnswered
  <2> QED
    BY <2>1, <2>2 DEF MessagesReceivable
<1>2. InputsInit => MessagesKept
  BY KindAssumption DEF InputsInit, NoInput, MessagesKept
<1>3. ASSUME MessagesKept, [InputsNext]_<<policy, input>>
      PROVE  MessagesKept'
  BY <1>3 DEF InputsNext, MessagesKept
<1> QED
  BY <1>1, <1>2, <1>3, PTL DEF InputsSpec

--------------------------------------------------------------------------------
(* Answers made of several SELECTs. *)

\* The operators of Arranged are the same in module Reads.
LEMMA AnswersArranged ==
  /\ \A I : Answers!Cardinality(I) = Cardinality(I)
  /\ \A I : Answers!InOrder(I) = InOrder(I)
<1>1. \A I : Answers!Cardinality(I) = Cardinality(I)
  BY DEF Answers!Cardinality, Cardinality
<1>2. \A I, order, k : Answers!Place(I, order, k) = Place(I, order, k)
  BY DEF Answers!Place, Place, Answers!Ahead, Ahead, Answers!Cardinality, Cardinality
<1>3. \A I : Answers!Upward(I) = Upward(I)
  BY DEF Answers!Upward, Upward
<1>4. \A I : Answers!InOrder(I) = InOrder(I)
  BY <1>1, <1>2, <1>3 DEF Answers!InOrder, InOrder
<1> QED
  BY <1>1, <1>4

\* More pages have more rows.
LEMMA MorePages ==
  ASSUME NEW P \in Nat
  PROVE  /\ \A a \in Nat : a * P \in Nat
         /\ 0 * P = 0
         /\ \A a \in Nat \ {0} : (a - 1) * P + P = a * P
         /\ \A a, b \in Nat : a <= b => a * P <= b * P
<1>1. ASSUME NEW a \in Nat, NEW b \in Nat, a <= b
      PROVE  a * P <= b * P
  <2>1. PICK d \in Nat : b = a + d
    <3>1. b - a \in Nat /\ b = a + (b - a)
      BY <1>1
    <3> QED
      BY <3>1
  <2>2. b * P = a * P + d * P
    BY <2>1
  <2>3. d * P \in Nat /\ a * P \in Nat
    OBVIOUS
  <2> QED
    BY <2>2, <2>3
<1>2. \A a \in Nat : a * P \in Nat
  OBVIOUS
<1>3. \A a \in Nat \ {0} : (a - 1) * P + P = a * P
  OBVIOUS
<1> QED
  BY <1>1, <1>2, <1>3

\* The token of the k-th call is k pages.
LEMMA TokenIsPages ==
  \A k \in Nat : Answers!Token[k] = k * PageSize
<1> DEFINE P == PageSize
           Counts(f) == f = [k \in Nat |-> IF k = 0 THEN 0 ELSE f[k - 1] + P]
           pages == [k \in Nat |-> k * P]
<1>1. P \in Nat
  BY InputsAssumption
<1>2. Counts(pages)
  <2>1. \A k \in Nat : k * P = IF k = 0 THEN 0 ELSE pages[k - 1] + P
    <3>1. ASSUME NEW k \in Nat, k # 0
          PROVE  pages[k - 1] = (k - 1) * P
      BY <3>1
    <3> HIDE DEF pages
    <3>2. 0 * P = 0
      BY <1>1, MorePages
    <3>3. \A k \in Nat \ {0} : (k - 1) * P + P = k * P
      BY <1>1, MorePages
    <3> QED
      BY <3>1, <3>2, <3>3
  <2> QED
    BY <2>1
<1>3. Counts(Answers!Token)
  <2>1. Answers!Token = CHOOSE f : f = [k \in Nat |-> IF k = 0 THEN 0 ELSE Answers!next_offset(f[k - 1])]
    BY DEF Answers!Token
  <2>2. \A f : [k \in Nat |-> IF k = 0 THEN 0 ELSE Answers!next_offset(f[k - 1])]
               = [k \in Nat |-> IF k = 0 THEN 0 ELSE f[k - 1] + P]
    BY DEF Answers!next_offset
  <2>3. Answers!Token = CHOOSE f : Counts(f)
    BY <2>1, <2>2
  <2> HIDE DEF Counts
  <2> QED
    BY <1>2, <2>3
<1> HIDE DEF pages
<1>4. ASSUME NEW f, Counts(f)
      PROVE  \A k \in Nat : f[k] = k * P
  <2> DEFINE Wrong == {k \in Nat : f[k] # k * P}
  <2> SUFFICES ASSUME Wrong # {}
               PROVE  FALSE
    OBVIOUS
  <2>1. PICK k \in Wrong : \A j \in Wrong : k <= j
    <3>1. Wrong \in SUBSET Nat
      OBVIOUS
    <3> HIDE DEF Wrong
    <3> QED
      BY <3>1, SmallestNumber
  <2>2. k \in Nat /\ f[k] # k * P
    BY <2>1
  <2>3. CASE k = 0
    BY <1>1, <1>4, <2>2, <2>3, MorePages
  <2>4. CASE k # 0
    <3>1. k - 1 \in Nat /\ ~(k <= k - 1)
      BY <2>2, <2>4
    <3>2. f[k - 1] = (k - 1) * P
      BY <2>1, <3>1
    <3>3. f[k] = f[k - 1] + P
      BY <1>4, <2>2, <2>4
    <3>4. (k - 1) * P + P = k * P
      BY <1>1, <2>2, <2>4, MorePages
    <3> QED
      BY <2>2, <3>2, <3>3, <3>4
  <2> QED
    BY <2>3, <2>4
<1> QED
  BY <1>3, <1>4

\* The rows before r.
Below(I, r) == {x \in I : x < r}

\* In the list of a set, r comes after those before it.
LEMMA InOrderType ==
  ASSUME NEW I \in SUBSET Nat, IsFiniteSet(I)
  PROVE  /\ Cardinality(I) \in Nat
         /\ DOMAIN InOrder(I) = 1..Cardinality(I) /\ Len(InOrder(I)) = Cardinality(I)
         /\ \A k \in 1..Cardinality(I) : InOrder(I)[k] \in I
         /\ \A r \in I : /\ Cardinality(Below(I, r)) \in Nat /\ Cardinality(Below(I, r)) < Cardinality(I)
                         /\ \A k \in 1..Cardinality(I) :
                              InOrder(I)[k] = r <=> k = Cardinality(Below(I, r)) + 1
<1>1. PICK n \in Nat : n = Cardinality(I)
  BY FS_CardinalityType
<1>2. Orders(Upward(I), I)
  <2>1. I \in SUBSET Int
    OBVIOUS
  <2> QED
    BY <2>1, UpwardOrders
<1>3. PICK s : s = InOrder(I)
  OBVIOUS
<1>4. s = [k \in 1..n |-> Place(I, Upward(I), k)]
  BY <1>1, <1>3 DEF InOrder
<1>5. \A k \in 1..n : s[k] \in I
  BY <1>1, <1>2, <1>4, Placed
<1>6. s \in Seq(I) /\ Len(s) = n
  <2>1. s \in [1..n -> I]
    BY <1>4, <1>5
  <2> QED
    BY <2>1
<1>7. ASSUME NEW r \in I
      PROVE  /\ Cardinality(Below(I, r)) \in Nat /\ Cardinality(Below(I, r)) < n
             /\ \A k \in 1..n : s[k] = r <=> k = Cardinality(Below(I, r)) + 1
  <2>1. Below(I, r) = Ahead(I, Upward(I), r)
    BY DEF Below, Ahead, Upward
  <2>2. PICK k \in 1..n : k = Cardinality(Below(I, r)) + 1 /\ Place(I, Upward(I), k) = r
    BY <1>1, <1>2, <2>1, Placed
  <2>3. IsFiniteSet(Below(I, r))
    BY FS_Subset DEF Below
  <2>4. Cardinality(Below(I, r)) \in Nat
    BY <2>3, FS_CardinalityType
  <2>5. Cardinality(Below(I, r)) < n
    BY <2>2, <2>4
  <2>6. ASSUME NEW j \in 1..n, s[j] = r
        PROVE  j = k
    <3>1. Place(I, Upward(I), j) = Place(I, Upward(I), k)
      BY <1>4, <2>2, <2>6
    <3> QED
      BY <1>1, <1>2, <3>1, Placed
  <2>7. s[k] = r
    BY <1>4, <2>2
  <2> QED
    BY <2>2, <2>4, <2>5, <2>6, <2>7
<1> QED
  BY <1>1, <1>3, <1>4, <1>5, <1>6, <1>7

\* If the rows before r only become more, the calls up to the last page have it.
LEMMA PageFound ==
  ASSUME NEW n \in Nat, NEW P \in Nat \ {0}, NEW before \in [1..n -> Nat], NEW size \in [1..n -> Nat],
         \A k \in 1..n : before[k] < size[k],
         \A j, k \in 1..n : j < k => before[j] <= before[k],
         NEW last \in 1..n, ~(last * P < size[last])
  PROVE  \E k \in 1..n : \E i \in 1..P :
           (\A j \in 1..(k - 1) : j * P < size[j]) /\ (k - 1) * P + i = before[k] + 1
<1> DEFINE Ends == {j \in 1..n : ~(j * P < size[j])}
           Reached == {k \in 1..n : before[k] < k * P}
<1>0. \A a \in Nat : a * P \in Nat
  BY MorePages
<1>1. PICK end \in Ends : \A j \in Ends : end <= j
  <2>1. last \in Ends
    OBVIOUS
  <2>2. \A j \in Ends : j \in 1..n
    OBVIOUS
  <2> HIDE DEF Ends
  <2>3. Ends \in SUBSET Nat
    BY <2>2
  <2> QED
    BY <2>1, <2>3, SmallestNumber
<1>2. end \in Reached
  <2>1. end \in 1..n /\ before[end] < size[end] /\ ~(end * P < size[end])
    BY <1>1
  <2>2. before[end] \in Nat /\ size[end] \in Nat /\ end * P \in Nat
    BY <1>0, <2>1
  <2> QED
    BY <2>1, <2>2
<1>3. PICK k \in Reached : \A j \in Reached : k <= j
  <2>1. \A j \in Reached : j \in 1..n
    OBVIOUS
  <2> HIDE DEF Reached
  <2>2. Reached \in SUBSET Nat
    BY <2>1
  <2> QED
    BY <1>2, <2>2, SmallestNumber
<1>4. k \in 1..n /\ before[k] < k * P /\ k <= end /\ end \in 1..n
  BY <1>1, <1>2, <1>3
<1>5. \A j \in 1..(k - 1) : j * P < size[j]
  <2> SUFFICES ASSUME NEW j \in 1..(k - 1), ~(j * P < size[j])
               PROVE  FALSE
    OBVIOUS
  <2>1. j \in 1..n /\ ~(end <= j)
    BY <1>4
  <2> QED
    BY <1>1, <2>1
<1>6. (k - 1) * P <= before[k]
  <2>1. CASE k = 1
    BY <1>4, <2>1, MorePages
  <2>2. CASE k # 1
    <3>1. k - 1 \in 1..n /\ k - 1 < k /\ ~(k <= k - 1)
      BY <1>4, <2>2
    <3>2. ~(before[k - 1] < (k - 1) * P)
      BY <1>3, <3>1
    <3>3. before[k - 1] <= before[k]
      BY <1>4, <3>1
    <3>4. PICK u \in Nat : u = (k - 1) * P
      <4>1. k - 1 \in Nat
        BY <1>4
      <4> QED
        BY <1>0, <4>1
    <3>5. PICK c \in Nat, d \in Nat : c = before[k] /\ d = before[k - 1]
      BY <1>4, <3>1
    <3>6. ~(d < u) /\ d <= c
      BY <3>2, <3>3, <3>4, <3>5
    <3>7. u <= c
      BY ONLY <3>6, u \in Nat, c \in Nat, d \in Nat
    <3> QED
      BY <3>4, <3>5, <3>7
  <2> QED
    BY <2>1, <2>2
<1>7. PICK i : i = before[k] + 1 - (k - 1) * P
  OBVIOUS
<1>8. i \in 1..P /\ (k - 1) * P + i = before[k] + 1
  <2>1. PICK u \in Nat : u = (k - 1) * P
    BY <1>0, <1>4
  <2>2. PICK v \in Nat : v = k * P
    BY <1>0, <1>4
  <2>3. PICK c \in Nat : c = before[k]
    BY <1>4
  <2>4. u + P = v
    BY <1>4, <2>1, <2>2, MorePages
  <2>5. u <= c /\ c < v /\ i = c + 1 - u
    BY <1>4, <1>6, <1>7, <2>1, <2>2, <2>3
  <2>6. i \in 1..P /\ u + i = c + 1
    BY ONLY <2>4, <2>5, u \in Nat, v \in Nat, c \in Nat, P \in Nat
  <2> QED
    BY <2>1, <2>3, <2>6
<1> QED
  BY <1>4, <1>5, <1>8

\* The rows before r only become fewer.
Falling(before, n) == \A j, k \in 1..n : j < k => before[k] <= before[j]
\* r is the i-th of the k-th page.
OnPage(before, P, k, i) == (k - 1) * P + i = before[k] + 1

\* If the rows before it only become fewer, a row is on the page of one call at most.
LEMMA PageOnce ==
  ASSUME NEW n \in Nat, NEW P \in Nat \ {0}, NEW before \in [1..n -> Nat], Falling(before, n),
         NEW j \in 1..n, NEW k \in 1..n, NEW h \in 1..P, NEW i \in 1..P,
         OnPage(before, P, j, h), OnPage(before, P, k, i)
  PROVE  j = k /\ h = i
<1>0. /\ \A a, b \in 1..n : a < b => before[b] <= before[a]
      /\ (j - 1) * P + h = before[j] + 1 /\ (k - 1) * P + i = before[k] + 1
  BY DEF Falling, OnPage
<1>1. ASSUME NEW a \in 1..n, NEW b \in 1..n, NEW x \in 1..P, NEW y \in 1..P, a < b,
             (a - 1) * P + x = before[a] + 1, (b - 1) * P + y = before[b] + 1
      PROVE  FALSE
  <2>1. a * P <= (b - 1) * P
    <3>1. a <= b - 1 /\ b - 1 \in Nat
      BY <1>1
    <3> QED
      BY <3>1, MorePages
  <2>2. PICK u \in Nat : u = (a - 1) * P
    BY MorePages
  <2>3. PICK v \in Nat : v = a * P
    BY MorePages
  <2>4. PICK w \in Nat : w = (b - 1) * P
    BY MorePages
  <2>5. PICK c \in Nat, d \in Nat : c = before[a] /\ d = before[b]
    OBVIOUS
  <2>6. u + P = v
    BY <2>2, <2>3, MorePages
  <2>7. v <= w /\ d <= c /\ u + x = c + 1 /\ w + y = d + 1
    BY <1>0, <1>1, <2>1, <2>2, <2>3, <2>4, <2>5
  <2> QED
    BY ONLY <2>6, <2>7, u \in Nat, v \in Nat, w \in Nat, c \in Nat, d \in Nat, P \in Nat,
       x \in 1..P, y \in 1..P
<1>2. j = k
  <2>1. ~(j < k)
    BY <1>0, <1>1
  <2>2. ~(k < j)
    BY <1>0, <1>1
  <2> QED
    BY <2>1, <2>2
<1>3. (k - 1) * P \in Nat
  BY MorePages
<1> QED
  BY <1>0, <1>2, <1>3

\* The pages of a list.
LEMMA PagesRight ==
  ASSUME NEW n \in Nat \ {0}, NEW at, DOMAIN at = 1..n,
         \A k \in 1..n : at[k] \in SUBSET Nat /\ IsFiniteSet(at[k])
  PROVE  Answers!PagesExplained(at)
<1> DEFINE P == PageSize
           rows == [k \in DOMAIN at |-> Answers!InOrder(at[k])]
           More(k) == Answers!Token[k] < Len(rows[k])
           Made(k) == \A j \in 1..(k - 1) : More(j)
           answer == Answers!ListPages(at)
           size == [k \in 1..n |-> Cardinality(at[k])]
<1>0. P \in Nat \ {0}
  BY InputsAssumption
<1>1. \A k \in 1..n : rows[k] = InOrder(at[k])
  BY AnswersArranged
<1>2. \A k \in 1..n : Len(rows[k]) = size[k] /\ size[k] \in Nat
  BY <1>1, InOrderType
<1>3. size \in [1..n -> Nat]
  BY <1>2
<1> HIDE DEF size
<1>4. \A k \in 1..n : More(k) <=> k * P < size[k]
  BY <1>2, TokenIsPages
<1>5. /\ DOMAIN answer.pages = 1..n
      /\ answer.more <=> \A k \in 1..n : More(k)
      /\ \A k \in 1..n : answer.pages[k] =
                          IF Made(k) THEN Answers!PageAt(rows[k], Answers!Token[k - 1]) ELSE <<>>
  <2>1. answer = [pages |-> [k \in DOMAIN at |->
                               IF Made(k) THEN Answers!PageAt(rows[k], Answers!Token[k - 1]) ELSE <<>>],
                  more |-> \A k \in DOMAIN at : More(k)]
    BY DEF Answers!ListPages
  <2> HIDE DEF answer, Made, More, rows
  <2> QED
    BY <2>1
<1> HIDE DEF answer
<1>6. ASSUME NEW r, \A k \in 1..n : r \in at[k]
      PROVE  LET before == [k \in 1..n |-> Cardinality(Below(at[k], r))]
             IN  /\ before \in [1..n -> Nat]
                 /\ \A k \in 1..n : before[k] < size[k]
                 /\ \A k \in 1..n : \A i \in 1..P :
                      (i \in DOMAIN answer.pages[k] /\ answer.pages[k][i] = r) <=>
                        Made(k) /\ (k - 1) * P + i = before[k] + 1
  <2> DEFINE before == [k \in 1..n |-> Cardinality(Below(at[k], r))]
  <2>1. \A k \in 1..n : /\ before[k] \in Nat /\ before[k] < size[k]
                        /\ \A j \in 1..size[k] : rows[k][j] = r <=> j = before[k] + 1
    BY <1>1, <1>6, InOrderType DEF size
  <2>2. before \in [1..n -> Nat]
    BY <2>1
  <2> HIDE DEF before
  <2>3. ASSUME NEW k \in 1..n, NEW i \in 1..P
        PROVE  (i \in DOMAIN answer.pages[k] /\ answer.pages[k][i] = r) <=>
                 Made(k) /\ (k - 1) * P + i = before[k] + 1
    <3>1. PICK t \in Nat : t = (k - 1) * P /\ Answers!Token[k - 1] = t
      <4>1. k - 1 \in Nat
        OBVIOUS
      <4> QED
        BY <1>0, <4>1, TokenIsPages, MorePages
    <3>2. CASE ~Made(k)
      <4>1. answer.pages[k] = <<>>
        BY <1>5, <3>2
      <4>2. ~(i \in DOMAIN answer.pages[k])
        BY <4>1
      <4> QED
        BY <3>2, <4>2
    <3>3. CASE Made(k)
      <4>1. answer.pages[k] = Answers!PageAt(rows[k], t)
        BY <1>5, <3>1, <3>3
      <4> HIDE DEF rows
      <4>2. /\ DOMAIN answer.pages[k] = {j \in 1..P : t + j <= size[k]}
            /\ \A j \in DOMAIN answer.pages[k] : answer.pages[k][j] = rows[k][t + j]
        BY <1>2, <4>1 DEF Answers!PageAt
      <4>3. i \in DOMAIN answer.pages[k] <=> t + i <= size[k]
        BY <4>2
      <4>4. t + i <= size[k] => (rows[k][t + i] = r <=> t + i = before[k] + 1)
        <5>1. t + i <= size[k] => t + i \in 1..size[k]
          BY <1>2
        <5> QED
          BY <2>1, <5>1
      <4>5. t + i = before[k] + 1 => t + i <= size[k]
        BY <1>2, <2>1
      <4> HIDE DEF Made
      <4> QED
        BY <3>1, <3>3, <4>2, <4>3, <4>4, <4>5
    <3> QED
      BY <3>2, <3>3
  <2> QED
    BY <2>1, <2>2, <2>3 DEF before
<1> DEFINE Went(r) == \E j, k \in DOMAIN at : j < k /\ \E x \in at[j] \ at[k] : x < r
           Came(r) == \E j, k \in DOMAIN at : j < k /\ \E x \in at[k] \ at[j] : x < r
           Seen(r, k, i) == i \in DOMAIN answer.pages[k] /\ answer.pages[k][i] = r
<1>7. ASSUME NEW r, \A k \in 1..n : r \in at[k]
      PROVE  /\ \/ \E k \in DOMAIN at : \E i \in 1..P : Seen(r, k, i)
                \/ answer.more \/ Went(r)
             /\ \A j, k \in DOMAIN at : \A h, i \in 1..P :
                  Seen(r, j, h) /\ Seen(r, k, i) => (j = k /\ h = i) \/ Came(r)
  <2> DEFINE before == [k \in 1..n |-> Cardinality(Below(at[k], r))]
  <2>1. /\ before \in [1..n -> Nat]
        /\ \A k \in 1..n : before[k] < size[k]
        /\ \A k \in 1..n : \A i \in 1..P : Seen(r, k, i) <=> Made(k) /\ (k - 1) * P + i = before[k] + 1
    BY <1>6, <1>7
  <2>2. ASSUME NEW j \in 1..n, NEW k \in 1..n, \A x \in at[j] \ at[k] : ~(x < r)
        PROVE  before[j] <= before[k]
    <3>1. Below(at[j], r) \in SUBSET Below(at[k], r)
      BY <2>2 DEF Below
    <3>2. IsFiniteSet(Below(at[k], r))
      <4>1. Below(at[k], r) \in SUBSET at[k] /\ IsFiniteSet(at[k])
        BY DEF Below
      <4> QED
        BY <4>1, FS_Subset
    <3> QED
      BY <3>1, <3>2, FS_Subset
  <2> HIDE DEF before, Seen, Made, More
  <2>3. ASSUME ~answer.more, ~Went(r)
        PROVE  \E k \in DOMAIN at : \E i \in 1..P : Seen(r, k, i)
    <3>1. PICK last \in 1..n : ~(last * P < size[last])
      BY <1>4, <1>5, <2>3
    <3>2. \A j, k \in 1..n : j < k => before[j] <= before[k]
      BY <2>2, <2>3
    <3>3. PICK k \in 1..n : \E i \in 1..P :
            (\A j \in 1..(k - 1) : j * P < size[j]) /\ (k - 1) * P + i = before[k] + 1
      BY <1>0, <1>3, <2>1, <3>1, <3>2, PageFound
    <3>4. PICK i \in 1..P :
            (\A j \in 1..(k - 1) : j * P < size[j]) /\ (k - 1) * P + i = before[k] + 1
      BY <3>3
    <3>5. Made(k)
      <4>1. \A j \in 1..(k - 1) : j \in 1..n
        OBVIOUS
      <4> QED
        BY <1>4, <3>4, <4>1 DEF Made
    <3> QED
      BY <2>1, <3>4, <3>5
  <2>4. ASSUME NEW j \in 1..n, NEW k \in 1..n, NEW h \in 1..P, NEW i \in 1..P,
               Seen(r, j, h), Seen(r, k, i), ~Came(r)
        PROVE  j = k /\ h = i
    <3>1. Falling(before, n)
      BY <2>2, <2>4 DEF Falling
    <3>2. OnPage(before, P, j, h) /\ OnPage(before, P, k, i)
      BY <2>1, <2>4 DEF OnPage
    <3>3. before \in [1..n -> Nat] /\ n \in Nat
      BY <2>1
    <3> HIDE DEF P
    <3> QED
      BY ONLY <1>0, <3>1, <3>2, <3>3, j \in 1..n, k \in 1..n, h \in 1..P, i \in 1..P, PageOnce
  <2> QED
    BY <2>3, <2>4
<1> HIDE DEF Made, More
<1> QED
  BY <1>7 DEF Answers!PagesExplained, Answers!handle_list_topics, answer

\* What was there all the time is among what was there once, and that among what was ever there.
LEMMA BracketedAt ==
  ASSUME NEW n \in Nat, NEW sets, DOMAIN sets = 1..n, \A k \in 1..n : IsFiniteSet(sets[k]),
         NEW k \in 1..n, NEW once, IsFiniteSet(once), once \subseteq UNION {sets[j] : j \in 1..n},
         {x \in sets[1] : \A j \in 1..n : x \in sets[j]} \subseteq once
  PROVE  Answers!Bracketed(Cardinality(once), sets)
<1> DEFINE S == {sets[j] : j \in 1..n}
           always == {x \in sets[1] : \A j \in 1..n : x \in sets[j]}
           f == [j \in 1..n |-> sets[j]]
<1>1. IsFiniteSet(S)
  <2>1. f \in Surjection(1..n, S)
    BY DEF Surjection
  <2> HIDE DEF f, S
  <2>2. IsFiniteSet(1..n)
    BY FS_Interval
  <2> QED
    BY <2>1, <2>2, FS_Surjection
<1>2. IsFiniteSet(UNION S)
  <2>1. \A T \in S : IsFiniteSet(T)
    OBVIOUS
  <2> HIDE DEF S
  <2> QED
    BY <1>1, <2>1, FS_UNION
<1>3. Cardinality(once) <= Cardinality(UNION S)
  <2>1. once \in SUBSET UNION S
    OBVIOUS
  <2> HIDE DEF S
  <2> QED
    BY <1>2, <2>1, FS_Subset
<1>4. Cardinality(always) <= Cardinality(once)
  <2>1. always \in SUBSET once
    OBVIOUS
  <2> HIDE DEF always
  <2> QED
    BY <2>1, FS_Subset
<1>5. Answers!Ever(sets) = Cardinality(UNION S) /\ Answers!Always(sets) = Cardinality(always)
  BY AnswersArranged DEF Answers!Ever, Answers!Always
<1> QED
  BY <1>3, <1>4, <1>5 DEF Answers!Bracketed

\* Those numbers are natural.
LEMMA EverType ==
  ASSUME NEW n \in Nat \ {0}, NEW sets, DOMAIN sets = 1..n, \A k \in 1..n : IsFiniteSet(sets[k])
  PROVE  Answers!Always(sets) \in Nat /\ Answers!Ever(sets) \in Nat
<1> DEFINE S == {sets[j] : j \in 1..n}
           f == [j \in 1..n |-> sets[j]]
<1>1. IsFiniteSet(S)
  <2>1. f \in Surjection(1..n, S)
    BY DEF Surjection
  <2> HIDE DEF f, S
  <2>2. IsFiniteSet(1..n)
    BY FS_Interval
  <2> QED
    BY <2>1, <2>2, FS_Surjection
<1>2. IsFiniteSet(UNION S)
  <2>1. \A T \in S : IsFiniteSet(T)
    OBVIOUS
  <2> HIDE DEF S
  <2> QED
    BY <1>1, <2>1, FS_UNION
<1>3. IsFiniteSet({x \in sets[1] : \A j \in 1..n : x \in sets[j]})
  BY FS_Subset
<1> QED
  BY <1>2, <1>3, FS_CardinalityType, AnswersArranged DEF Answers!Ever, Answers!Always

\* One of the sets is such a one.
LEMMA BracketedBySets ==
  ASSUME NEW n \in Nat, NEW sets, DOMAIN sets = 1..n, \A j \in 1..n : IsFiniteSet(sets[j]),
         NEW k \in 1..n
  PROVE  Answers!Bracketed(Cardinality(sets[k]), sets)
<1>1. sets[k] \subseteq UNION {sets[j] : j \in 1..n}
  OBVIOUS
<1>2. {x \in sets[1] : \A j \in 1..n : x \in sets[j]} \subseteq sets[k]
  OBVIOUS
<1> QED
  BY <1>1, <1>2, BracketedAt

\* Two sets differ in size by what is only in the one and what is only in the other.
LEMMA Differences ==
  ASSUME NEW S, NEW T, IsFiniteSet(S), IsFiniteSet(T)
  PROVE  /\ Cardinality(S) \in Nat /\ Cardinality(T) \in Nat
         /\ Cardinality(S \ T) \in Nat /\ Cardinality(T \ S) \in Nat
         /\ Cardinality(T) = Cardinality(S) + Cardinality(T \ S) - Cardinality(S \ T)
         /\ T \subseteq S => Cardinality(S) = Cardinality(T) + Cardinality(S \ T)
<1>1. IsFiniteSet(S \ T) /\ Cardinality(S \ T) = Cardinality(S) - Cardinality(S \cap T)
  BY FS_Difference
<1>2. IsFiniteSet(T \ S) /\ Cardinality(T \ S) = Cardinality(T) - Cardinality(T \cap S)
  BY FS_Difference
<1>3. S \cap T = T \cap S /\ IsFiniteSet(S \cap T)
  BY FS_Intersection
<1>4. /\ Cardinality(S) \in Nat /\ Cardinality(T) \in Nat /\ Cardinality(S \cap T) \in Nat
      /\ Cardinality(S \ T) \in Nat /\ Cardinality(T \ S) \in Nat
  BY <1>1, <1>2, <1>3, FS_CardinalityType
<1>5. T \subseteq S => S \cap T = T
  OBVIOUS
<1> DEFINE s == Cardinality(S)
           t == Cardinality(T)
           a == Cardinality(S \ T)
           b == Cardinality(T \ S)
           c == Cardinality(S \cap T)
<1>6. s \in Nat /\ t \in Nat /\ a \in Nat /\ b \in Nat /\ c \in Nat /\ a = s - c /\ b = t - c
      /\ (T \subseteq S => c = t)
  BY <1>1, <1>2, <1>3, <1>4, <1>5
<1> HIDE DEF s, t, a, b, c
<1>7. t = s + b - a /\ (T \subseteq S => s = t + a)
  BY <1>6
<1> QED
  BY <1>6, <1>7 DEF s, t, a, b, c

\* The rows of a queue.
MessageRow == [due : BOOLEAN, live : BOOLEAN, leased : BOOLEAN]

\* The badge of a message.
LEMMA SummaryIs ==
  ASSUME NEW row \in MessageRow
  PROVE  /\ Answers!message_summary(row) = "Visible" <=> row.live /\ row.due
         /\ Answers!message_summary(row) = "In flight" <=> row.live /\ ~row.due /\ row.leased
         /\ Answers!message_summary(row) = "Delayed" <=> row.live /\ ~row.due /\ ~row.leased
<1>1. row.live \in BOOLEAN /\ row.due \in BOOLEAN /\ row.leased \in BOOLEAN
  BY DEF MessageRow
<1>2. CASE ~row.live
  BY <1>1, <1>2 DEF Answers!message_summary
<1>3. CASE row.live /\ row.due
  BY <1>1, <1>3 DEF Answers!message_summary
<1>4. CASE row.live /\ ~row.due /\ row.leased
  BY <1>1, <1>4 DEF Answers!message_summary
<1>5. CASE row.live /\ ~row.due /\ ~row.leased
  BY <1>1, <1>5 DEF Answers!message_summary
<1> QED
  BY <1>2, <1>3, <1>4, <1>5

\* What a queue's rows say of its messages.
LEMMA RowsSplit ==
  ASSUME NEW I, IsFiniteSet(I), NEW rows \in [I -> MessageRow]
  PROVE  /\ IsFiniteSet(Answers!LiveRows(rows)) /\ IsFiniteSet(Answers!VisibleRows(rows))
         /\ IsFiniteSet(Answers!DelayedRows(rows))
         /\ Answers!VisibleRows(rows) \subseteq Answers!LiveRows(rows)
         /\ Answers!LiveRows(rows) \subseteq I
<1>1. /\ Answers!LiveRows(rows) \in SUBSET I /\ Answers!VisibleRows(rows) \in SUBSET I
      /\ Answers!DelayedRows(rows) \in SUBSET I
      /\ Answers!VisibleRows(rows) \subseteq Answers!LiveRows(rows)
  BY DEF Answers!LiveRows, Answers!VisibleRows, Answers!DelayedRows
<1> QED
  BY <1>1, FS_Subset

\* The messages of the list that have one of some badges.
WithBadge(rows, limit, kinds) ==
  {x \in {[of |-> m, status |-> Answers!message_summary(rows[m])] :
            m \in Answers!list_messages(rows, limit)} : x.status \in kinds}
\* The rows that have one of some badges.
OfKind(I, rows, kinds) == {m \in I : Answers!message_summary(rows[m]) \in kinds}
\* There are no more of them in the list than in the table, and as many when all fit in.
AsMany(I, rows, limit, kinds) ==
  LET badges == Cardinality(WithBadge(rows, limit, kinds))
      these == Cardinality(OfKind(I, rows, kinds))
  IN  badges <= these /\ (Cardinality(I) <= limit => badges = these)

\* The badges in the console's list are of messages it was true of, and all of them are
\* there if the limit allows it.
LEMMA BadgesCounted ==
  ASSUME NEW I \in SUBSET Nat, IsFiniteSet(I), NEW rows \in [I -> MessageRow], NEW limit \in Nat,
         NEW kinds
  PROVE  AsMany(I, rows, limit, kinds)
<1> DEFINE listed == {[of |-> m, status |-> Answers!message_summary(rows[m])] :
                        m \in Answers!list_messages(rows, limit)}
           Status(m) == Answers!message_summary(rows[m])
           these == {m \in I : Status(m) \in kinds}
           B == {x \in listed : x.status \in kinds}
           f == [x \in B |-> x.of]
<1>1. IsFiniteSet(these) /\ Cardinality(these) \in Nat
  <2>1. these \in SUBSET I
    OBVIOUS
  <2> HIDE DEF these
  <2>2. IsFiniteSet(these)
    BY <2>1, FS_Subset
  <2> QED
    BY <2>2, FS_CardinalityType
<1>2. Answers!list_messages(rows, limit) = {m \in I : Cardinality(Below(I, m)) < limit}
  BY AnswersArranged DEF Answers!list_messages, Below
<1>3. listed = {[of |-> m, status |-> Status(m)] : m \in {m \in I : Cardinality(Below(I, m)) < limit}}
  BY <1>2
<1> HIDE DEF Status, listed
<1>4. ASSUME NEW x \in B
      PROVE  /\ x.of \in these /\ x = [of |-> x.of, status |-> Status(x.of)]
  BY <1>3
<1>5. f \in Injection(B, these)
  <2>1. f \in [B -> these]
    BY <1>4
  <2>2. \A x, y \in B : f[x] = f[y] => x = y
    BY <1>4
  <2> QED
    BY <2>1, <2>2 DEF Injection, IsInjective
<1>6. ASSUME Cardinality(I) <= limit
      PROVE  f \in Surjection(B, these)
  <2>1. ASSUME NEW m \in these
        PROVE  \E x \in B : f[x] = m
    <3>1. Cardinality(Below(I, m)) < limit
      <4>1. Cardinality(Below(I, m)) \in Nat /\ Cardinality(Below(I, m)) < Cardinality(I)
            /\ Cardinality(I) \in Nat
        BY InOrderType
      <4> QED
        BY <1>6, <4>1
    <3>2. [of |-> m, status |-> Status(m)] \in B
      BY <1>3, <3>1
    <3> QED
      BY <3>2
  <2>2. f \in [B -> these]
    BY <1>4
  <2> QED
    BY <2>1, <2>2 DEF Surjection
<1> HIDE DEF these, B, f
<1>7. /\ Cardinality(B) <= Cardinality(these)
      /\ Cardinality(B) = Cardinality(these) <=> f \in Surjection(B, these)
  BY <1>1, <1>5, FS_Injection
<1>8. Cardinality(B) <= Cardinality(these) /\ (Cardinality(I) <= limit => Cardinality(B) = Cardinality(these))
  BY <1>6, <1>7
<1> QED
  BY <1>8 DEF these, B, listed, Status, AsMany, WithBadge, OfKind

\* The counts of a queue, each in a statement of its own, and its page in the console.
LEMMA CountsRight ==
  ASSUME NEW at, DOMAIN at = 1..4, NEW limit \in Int,
         \A k \in 1..4 : /\ DOMAIN at[k] \in SUBSET Nat /\ IsFiniteSet(DOMAIN at[k])
                         /\ at[k] \in [DOMAIN at[k] -> MessageRow]
  PROVE  Answers!CountsExplained(at, limit)
<1> DEFINE counts == Answers!collect_message_counts(at)
           page == Answers!queue_detail(at, limit)
           live == [k \in DOMAIN at |-> Answers!LiveRows(at[k])]
           visible == [k \in DOMAIN at |-> Answers!VisibleRows(at[k])]
           delayed == [k \in DOMAIN at |-> Answers!DelayedRows(at[k])]
           hidden == [k \in DOMAIN at |-> live[k] \ visible[k]]
           Badges(kinds) == Cardinality({x \in page.messages : x.status \in kinds})
           Agree(badges, count) ==
             badges <= count /\ (Cardinality(DOMAIN at[1]) <= Answers!clamp(limit) => badges = count)
           V == page.summary.visible_message_count
           D == page.summary.delayed_message_count
           L == counts.ApproximateNumberOfMessages
           N == counts.ApproximateNumberOfMessagesNotVisible
           X == counts.ApproximateNumberOfMessagesDelayed
<1>1. /\ L = Cardinality(live[1])
      /\ N = Cardinality(live[3]) - Cardinality(visible[2])
      /\ X = Cardinality(delayed[4])
  BY AnswersArranged DEF Answers!collect_message_counts, Answers!get_message_count,
     Answers!get_visible_message_count, Answers!get_messages_delayed_count
<1>2. V = Cardinality(visible[2]) /\ D = Cardinality(delayed[3])
  BY AnswersArranged DEF Answers!queue_detail, Answers!queue_summary, Answers!get_message_count,
     Answers!get_visible_message_count, Answers!get_messages_delayed_count
<1>3. page.messages = {[of |-> m, status |-> Answers!message_summary(at[4][m])] :
                         m \in Answers!list_messages(at[4], Answers!clamp(limit))}
  BY DEF Answers!queue_detail
<1>4. \A k \in 1..4 : /\ IsFiniteSet(live[k]) /\ IsFiniteSet(visible[k]) /\ IsFiniteSet(delayed[k])
                      /\ visible[k] \subseteq live[k]
                      /\ hidden[k] = live[k] \ visible[k]
  BY RowsSplit
<1>5. \A k \in 1..4 : IsFiniteSet(hidden[k])
  BY <1>4, FS_Difference
<1>6. DOMAIN live = 1..4 /\ DOMAIN visible = 1..4 /\ DOMAIN delayed = 1..4 /\ DOMAIN hidden = 1..4
  OBVIOUS
<1> HIDE DEF counts, page, live, visible, delayed, hidden
<1>n. PICK n \in Nat \ {0} : n = 4
  OBVIOUS
<1>m. 1 \in 1..n /\ 2 \in 1..n /\ 3 \in 1..n /\ 4 \in 1..n
  BY <1>n
<1>7. /\ Answers!Bracketed(V, visible) /\ Answers!Bracketed(L, live) /\ Answers!Bracketed(X, delayed)
      /\ Answers!Bracketed(Cardinality(hidden[3]), hidden)
  <2>1. /\ DOMAIN live = 1..n /\ DOMAIN visible = 1..n /\ DOMAIN delayed = 1..n /\ DOMAIN hidden = 1..n
        /\ \A k \in 1..n : IsFiniteSet(live[k])
        /\ \A k \in 1..n : IsFiniteSet(visible[k])
        /\ \A k \in 1..n : IsFiniteSet(delayed[k])
        /\ \A k \in 1..n : IsFiniteSet(hidden[k])
    BY <1>4, <1>5, <1>6, <1>n
  <2>2. Answers!Bracketed(Cardinality(visible[2]), visible)
    BY <1>m, <2>1, BracketedBySets
  <2>3. Answers!Bracketed(Cardinality(live[1]), live)
    BY <1>m, <2>1, BracketedBySets
  <2>4. Answers!Bracketed(Cardinality(delayed[4]), delayed)
    BY <1>m, <2>1, BracketedBySets
  <2>5. Answers!Bracketed(Cardinality(hidden[3]), hidden)
    BY <1>m, <2>1, BracketedBySets
  <2> QED
    BY <1>1, <1>2, <2>2, <2>3, <2>4, <2>5
<1>8. N \in (Answers!Always(hidden) - Cardinality(visible[2] \ visible[3]))
              .. (Answers!Ever(hidden) + Cardinality(visible[3] \ visible[2]))
  <2>1. PICK always \in Nat, ever \in Nat : always = Answers!Always(hidden) /\ ever = Answers!Ever(hidden)
    <3>1. DOMAIN hidden = 1..n /\ \A k \in 1..n : IsFiniteSet(hidden[k])
      BY <1>5, <1>6, <1>n
    <3>2. Answers!Always(hidden) \in Nat /\ Answers!Ever(hidden) \in Nat
      BY <3>1, EverType
    <3> QED
      BY <3>2
  <2>2. PICK h \in Nat, v3 \in Nat, l3 \in Nat :
          /\ h = Cardinality(hidden[3]) /\ v3 = Cardinality(visible[3]) /\ l3 = Cardinality(live[3])
          /\ l3 = v3 + h
    <3>1. /\ IsFiniteSet(live[3]) /\ IsFiniteSet(visible[3]) /\ visible[3] \subseteq live[3]
          /\ hidden[3] = live[3] \ visible[3]
      BY <1>4
    <3>2. /\ Cardinality(live[3]) \in Nat /\ Cardinality(visible[3]) \in Nat
          /\ Cardinality(live[3] \ visible[3]) \in Nat
          /\ Cardinality(live[3]) = Cardinality(visible[3]) + Cardinality(live[3] \ visible[3])
      BY <3>1, Differences
    <3> QED
      BY <3>1, <3>2
  <2>3. PICK v2 \in Nat, went \in Nat, came \in Nat :
          /\ v2 = Cardinality(visible[2]) /\ went = Cardinality(visible[2] \ visible[3])
          /\ came = Cardinality(visible[3] \ visible[2]) /\ v3 = v2 + came - went
    <3>1. IsFiniteSet(visible[2]) /\ IsFiniteSet(visible[3])
      BY <1>4
    <3>2. /\ Cardinality(visible[2]) \in Nat
          /\ Cardinality(visible[2] \ visible[3]) \in Nat /\ Cardinality(visible[3] \ visible[2]) \in Nat
          /\ Cardinality(visible[3]) = Cardinality(visible[2]) + Cardinality(visible[3] \ visible[2])
                                        - Cardinality(visible[2] \ visible[3])
      BY <3>1, Differences
    <3> QED
      BY <2>2, <3>2
  <2>4. always <= h /\ h <= ever
    BY <1>7, <2>1, <2>2 DEF Answers!Bracketed
  <2>5. l3 - v2 \in (always - went)..(ever + came)
    BY <2>2, <2>3, <2>4
  <2> QED
    BY <1>1, <2>1, <2>2, <2>3, <2>5
<1>9. ASSUME \A k \in DOMAIN at : at[k] = at[1]
      PROVE  /\ V + N = L
             /\ Agree(Badges({"Visible"}), V)
             /\ Agree(Badges({"Delayed"}), D)
             /\ Agree(Badges({"In flight", "Delayed"}), N)
  <2>0. PICK I \in SUBSET Nat : I = DOMAIN at[1] /\ IsFiniteSet(I)
    OBVIOUS
  <2>1. PICK rows \in [I -> MessageRow] : rows = at[1]
    BY <2>0
  <2>2. /\ \A k \in 1..4 : at[k] = rows
        /\ live[1] = Answers!LiveRows(rows) /\ live[3] = Answers!LiveRows(rows)
        /\ visible[2] = Answers!VisibleRows(rows) /\ delayed[3] = Answers!DelayedRows(rows)
        /\ visible[3] = Answers!VisibleRows(rows)
    BY <1>9, <2>1 DEF live, visible, delayed
  <2>3. PICK l \in Nat, v \in Nat, h \in Nat :
          l = L /\ v = V /\ h = Cardinality(hidden[3]) /\ N = l - v /\ l = v + h
    <3>1. /\ IsFiniteSet(live[3]) /\ IsFiniteSet(visible[3]) /\ visible[3] \subseteq live[3]
          /\ hidden[3] = live[3] \ visible[3]
      BY <1>4
    <3>2. /\ Cardinality(live[3]) \in Nat /\ Cardinality(visible[3]) \in Nat
          /\ Cardinality(live[3] \ visible[3]) \in Nat
          /\ Cardinality(live[3]) = Cardinality(visible[3]) + Cardinality(live[3] \ visible[3])
      BY <3>1, Differences
    <3>3. live[1] = live[3] /\ visible[2] = visible[3]
      BY <2>2
    <3> QED
      BY <1>1, <1>2, <3>1, <3>2, <3>3
  <2>4. Answers!clamp(limit) \in Nat
    BY DEF Answers!clamp
  <2>5. \A m \in I : rows[m] \in MessageRow
    BY <2>1
  <2>r. DOMAIN rows = I
    BY <2>1
  <2>6. {m \in I : Answers!message_summary(rows[m]) \in {"Visible"}} = visible[2]
    <3>1. visible[2] = {m \in I : rows[m].live /\ rows[m].due}
      BY <2>2, <2>r DEF Answers!VisibleRows, Answers!LiveRows
    <3> QED
      BY <2>5, <3>1, SummaryIs
  <2>7. {m \in I : Answers!message_summary(rows[m]) \in {"Delayed"}} = delayed[3]
    <3>1. delayed[3] = {m \in I : rows[m].live /\ ~rows[m].due /\ ~rows[m].leased}
      BY <2>2, <2>r DEF Answers!DelayedRows, Answers!LiveRows
    <3> QED
      BY <2>5, <3>1, SummaryIs
  <2>8. {m \in I : Answers!message_summary(rows[m]) \in {"In flight", "Delayed"}} = hidden[3]
    <3>1. visible[3] = {m \in I : rows[m].live /\ rows[m].due}
      BY <2>2, <2>r DEF Answers!VisibleRows, Answers!LiveRows
    <3>2. live[3] = {m \in I : rows[m].live}
      BY <2>2, <2>r DEF Answers!LiveRows
    <3>3. hidden[3] = {m \in I : rows[m].live /\ ~rows[m].due}
      BY <1>4, <3>1, <3>2
    <3> QED
      BY <2>5, <3>3, SummaryIs
  <2>9. Cardinality(hidden[3]) = N
    BY <2>3
  <2>10. ASSUME NEW kinds
         PROVE  Agree(Badges(kinds), Cardinality({m \in I : Answers!message_summary(rows[m]) \in kinds}))
    <3> DEFINE lim == Answers!clamp(limit)
    <3>1. page.messages = {[of |-> m, status |-> Answers!message_summary(rows[m])] :
                             m \in Answers!list_messages(rows, lim)}
      BY <1>3, <2>2
    <3>2. lim \in Nat /\ IsFiniteSet(I)
      BY <2>0, <2>4
    <3> HIDE DEF lim
    <3>3. AsMany(I, rows, lim, kinds)
      BY <3>2, BadgesCounted
    <3>4. Badges(kinds) = Cardinality(WithBadge(rows, lim, kinds))
      BY <3>1 DEF WithBadge
    <3> QED
      BY <2>0, <3>3, <3>4 DEF lim, AsMany, OfKind
  <2>11. Agree(Badges({"Visible"}), V)
    BY <1>2, <2>6, <2>10
  <2>12. Agree(Badges({"Delayed"}), D)
    BY <1>2, <2>7, <2>10
  <2>13. Agree(Badges({"In flight", "Delayed"}), N)
    <3> DEFINE These == {m \in I : Answers!message_summary(rows[m]) \in {"In flight", "Delayed"}}
    <3>1. Agree(Badges({"In flight", "Delayed"}), Cardinality(These))
      BY <2>10
    <3>2. Cardinality(These) = N
      BY <2>8, <2>9
    <3> HIDE DEF These, N, Agree, Badges
    <3> QED
      BY <3>1, <3>2
  <2>14. V + N = L
    <3> HIDE DEF V, N, L
    <3> QED
      BY <2>3
  <2> QED
    BY <2>11, <2>12, <2>13, <2>14
<1> HIDE DEF V, D, L, N, X, Agree
<1> QED
  BY <1>7, <1>8, <1>9, AnswersArranged
  DEF Answers!CountsExplained, counts, page, live, visible, delayed, hidden, V, D, L, N, X, Agree

\* Each element of the whole belongs to one summary, which counts it.
Shares(summaries, part, whole) ==
  /\ part \in [summaries -> SUBSET whole]
  /\ \A s \in summaries : s.count = Cardinality(part[s])
  /\ \A x \in whole : \E s \in summaries : x \in part[s]
  /\ \A s, u \in summaries : \A x \in whole : x \in part[s] /\ x \in part[u] => s = u

\* The counts of parts that make up a whole, and do not overlap, add up to its size.
LEMMA TotalOfParts ==
  ASSUME NEW summaries, NEW whole, IsFiniteSet(whole), NEW part, Shares(summaries, part, whole)
  PROVE  Answers!Total(summaries) = Cardinality(whole)
<1> DEFINE U == UNION {{s} \X (1..s.count) : s \in summaries}
           N(s) == 1..Cardinality(part[s])
           g == [s \in summaries |-> CHOOSE b : b \in Bijection(N(s), part[s])]
           f == [p \in U |-> g[p[1]][p[2]]]
<1>1. ASSUME NEW s \in summaries
      PROVE  g[s] \in Bijection(N(s), part[s])
  <2>1. IsFiniteSet(part[s])
    <3>1. part[s] \in SUBSET whole
      BY DEF Shares
    <3> QED
      BY <3>1, FS_Subset
  <2>2. ExistsBijection(N(s), part[s])
    BY <2>1, FS_CardinalityType
  <2>3. \E b : b \in Bijection(N(s), part[s])
    BY <2>2 DEF ExistsBijection
  <2>4. g[s] = CHOOSE b : b \in Bijection(N(s), part[s])
    OBVIOUS
  <2> HIDE DEF g, N
  <2> QED
    BY <2>3, <2>4
<1> HIDE DEF g
<1>2. ASSUME NEW s \in summaries
      PROVE  /\ \A i \in N(s) : g[s][i] \in part[s] /\ g[s][i] \in whole
             /\ \A i, j \in N(s) : g[s][i] = g[s][j] => i = j
             /\ \A x \in part[s] : \E i \in N(s) : g[s][i] = x
  <2>1. part[s] \in SUBSET whole
    BY DEF Shares
  <2> HIDE DEF N
  <2>2. /\ \A i \in N(s) : g[s][i] \in part[s]
        /\ \A i, j \in N(s) : g[s][i] = g[s][j] => i = j
        /\ \A x \in part[s] : \E i \in N(s) : g[s][i] = x
    BY <1>1 DEF Bijection, Injection, Surjection, IsInjective
  <2> QED
    BY <2>1, <2>2
<1>3. \A s \in summaries : s.count = Cardinality(part[s])
  BY DEF Shares
<1>4. ASSUME NEW p \in U
      PROVE  p[1] \in summaries /\ p[2] \in N(p[1]) /\ p = <<p[1], p[2]>>
  BY <1>3
<1>5. ASSUME NEW s \in summaries, NEW i \in N(s)
      PROVE  <<s, i>> \in U
  BY <1>3
<1> HIDE DEF U, N
<1>6. f \in [U -> whole]
  BY <1>2, <1>4
<1>7. ASSUME NEW p \in U, NEW q \in U, f[p] = f[q]
      PROVE  p = q
  <2>1. /\ f[p] = g[p[1]][p[2]] /\ f[q] = g[q[1]][q[2]]
        /\ f[p] \in whole /\ f[p] \in part[p[1]] /\ f[q] \in part[q[1]]
    BY <1>2, <1>4
  <2> HIDE DEF f
  <2>2. p[1] = q[1]
    BY <1>4, <1>7, <2>1 DEF Shares
  <2>3. p[2] = q[2]
    <3>1. PICK s \in summaries : s = p[1]
      BY <1>4
    <3>2. PICK i \in N(s), j \in N(s) : i = p[2] /\ j = q[2]
      BY <1>4, <2>2, <3>1
    <3>3. g[s][i] = g[s][j]
      BY <1>7, <2>1, <2>2, <3>1, <3>2
    <3> QED
      BY <1>2, <3>2, <3>3
  <2> QED
    BY <1>4, <2>2, <2>3
<1>8. ASSUME NEW x \in whole
      PROVE  \E p \in U : f[p] = x
  <2>1. PICK s \in summaries : x \in part[s]
    BY DEF Shares
  <2>2. PICK i \in N(s) : g[s][i] = x
    BY <1>2, <2>1
  <2>3. <<s, i>> \in U /\ f[<<s, i>>] = x
    BY <1>5, <2>2
  <2> QED
    BY <2>3
<1> HIDE DEF f
<1>9. f \in Injection(U, whole) /\ f \in Surjection(U, whole)
  BY <1>6, <1>7, <1>8 DEF Injection, Surjection, IsInjective
<1>10. Cardinality(U) = Cardinality(whole)
  BY <1>9, FS_Injection
<1> QED
  BY <1>10, AnswersArranged DEF Answers!Total, U

\* What an overview finds: owners that are listed, and what they own of what there is.
Overview(at, n, policies) ==
  /\ n \in Nat \ {0} /\ DOMAIN at = 1..n /\ IsFiniteSet(policies)
  /\ \A k \in 1..n : /\ at[k].owners \in SUBSET Nat /\ IsFiniteSet(at[k].owners)
                     /\ at[k].owned \in SUBSET (at[k].owners \X policies)
  /\ 1 + Cardinality(at[1].owners) <= n

\* The owners are asked one after the other, each in one of the statements.
LEMMA OwnersAsked ==
  ASSUME NEW at, NEW n, NEW policies, Overview(at, n, policies)
  PROVE  LET owners == Answers!InOrder(at[1].owners) IN
           /\ \A i \in DOMAIN owners : owners[i] \in at[1].owners /\ 1 + i \in 1..n
           /\ \A o \in at[1].owners : \E i \in DOMAIN owners : owners[i] = o
           /\ \A i, j \in DOMAIN owners : owners[i] = owners[j] => i = j
<1> DEFINE I == at[1].owners
           owners == Answers!InOrder(I)
<1>1. I \in SUBSET Nat /\ IsFiniteSet(I) /\ n \in Nat /\ 1 + Cardinality(I) <= n
  BY DEF Overview
<1>2. owners = InOrder(I)
  BY AnswersArranged
<1> HIDE DEF owners, I
<1>3. PICK m \in Nat : m = Cardinality(I)
  BY <1>1, InOrderType
<1>4. /\ DOMAIN owners = 1..m
      /\ \A k \in 1..m : owners[k] \in I
      /\ \A r \in I : /\ Cardinality(Below(I, r)) \in Nat /\ Cardinality(Below(I, r)) < m
                      /\ \A k \in 1..m : owners[k] = r <=> k = Cardinality(Below(I, r)) + 1
  BY <1>1, <1>2, <1>3, InOrderType
<1>5. \A i \in DOMAIN owners : owners[i] \in I /\ 1 + i \in 1..n
  BY <1>1, <1>3, <1>4
<1>6. ASSUME NEW o \in I
      PROVE  \E i \in DOMAIN owners : owners[i] = o
  <2>1. PICK c \in Nat : c = Cardinality(Below(I, o)) /\ c < m
    BY <1>4
  <2>2. c + 1 \in 1..m
    BY <2>1
  <2> QED
    BY <1>4, <2>1, <2>2
<1>7. \A i, j \in DOMAIN owners : owners[i] = owners[j] => i = j
  BY <1>4
<1> QED
  BY <1>5, <1>6, <1>7 DEF owners, I

\* What there is is finite.
LEMMA OwnedFinite ==
  ASSUME NEW at, NEW n, NEW policies, Overview(at, n, policies), NEW k \in 1..n
  PROVE  /\ IsFiniteSet(at[k].owned)
         /\ \A owner : IsFiniteSet(Answers!OwnedBy(at[k], owner))
         /\ \A x \in at[k].owned : x[1] \in at[k].owners /\ x[2] \in policies
<1>1. /\ IsFiniteSet(at[k].owners) /\ IsFiniteSet(policies)
      /\ at[k].owned \in SUBSET (at[k].owners \X policies)
  BY DEF Overview
<1>2. IsFiniteSet(at[k].owners \X policies)
  BY <1>1, FS_Product
<1>3. IsFiniteSet(at[k].owned)
  BY <1>1, <1>2, FS_Subset
<1>4. ASSUME NEW owner
      PROVE  IsFiniteSet(Answers!OwnedBy(at[k], owner))
  <2>1. Answers!OwnedBy(at[k], owner) \in SUBSET at[k].owned
    BY DEF Answers!OwnedBy
  <2> QED
    BY <1>3, <2>1, FS_Subset
<1>5. \A x \in at[k].owned : x[1] \in at[k].owners /\ x[2] \in policies
  BY <1>1
<1> QED
  BY <1>3, <1>4, <1>5

\* The attachments that the console met, principal by principal.
Met(at) ==
  LET owners == Answers!InOrder(at[1].owners)
  IN  UNION {Answers!OwnedBy(at[1 + i], owners[i]) : i \in DOMAIN owners}

\* They were there at some time, and what was there all the time was met.
LEMMA MetBracketed ==
  ASSUME NEW at, NEW n, NEW policies, Overview(at, n, policies)
  PROVE  /\ \A x \in Met(at) : \E k \in 1..n : x \in at[k].owned
         /\ \A x \in at[1].owned : (\A k \in 1..n : x \in at[k].owned) => x \in Met(at)
<1> DEFINE owners == Answers!InOrder(at[1].owners)
<1>1. /\ \A i \in DOMAIN owners : owners[i] \in at[1].owners /\ 1 + i \in 1..n
      /\ \A o \in at[1].owners : \E i \in DOMAIN owners : owners[i] = o
  BY OwnersAsked
<1> HIDE DEF owners
<1>2. Met(at) = UNION {Answers!OwnedBy(at[1 + i], owners[i]) : i \in DOMAIN owners}
  BY DEF Met, owners
<1>3. ASSUME NEW x \in Met(at)
      PROVE  \E k \in 1..n : x \in at[k].owned
  <2>1. PICK i \in DOMAIN owners : x \in Answers!OwnedBy(at[1 + i], owners[i])
    BY <1>2
  <2>2. x \in at[1 + i].owned
    BY <2>1 DEF Answers!OwnedBy
  <2> QED
    BY <1>1, <2>2
<1>4. ASSUME NEW x \in at[1].owned, \A k \in 1..n : x \in at[k].owned
      PROVE  x \in Met(at)
  <2>1. 1 \in 1..n
    BY DEF Overview
  <2>2. x[1] \in at[1].owners
    BY <2>1, OwnedFinite
  <2>3. PICK i \in DOMAIN owners : owners[i] = x[1]
    BY <1>1, <2>2
  <2>4. x \in Answers!OwnedBy(at[1 + i], owners[i])
    BY <1>1, <1>4, <2>3 DEF Answers!OwnedBy
  <2> QED
    BY <1>2, <2>4
<1> QED
  BY <1>3, <1>4

\* What was met is finite.
LEMMA MetFinite ==
  ASSUME NEW at, NEW n, NEW policies, Overview(at, n, policies)
  PROVE  IsFiniteSet(Met(at)) /\ \A p : IsFiniteSet({x \in Met(at) : x[2] = p})
<1> DEFINE f == [k \in 1..n |-> at[k].owned]
           S == {at[k].owned : k \in 1..n}
<1>1. n \in Nat
  BY DEF Overview
<1>2. IsFiniteSet(S)
  <2>1. f \in Surjection(1..n, S)
    BY DEF Surjection
  <2> HIDE DEF f, S
  <2>2. IsFiniteSet(1..n)
    BY <1>1, FS_Interval
  <2> QED
    BY <2>1, <2>2, FS_Surjection
<1>3. IsFiniteSet(UNION S)
  <2>1. \A T \in S : IsFiniteSet(T)
    BY OwnedFinite
  <2> HIDE DEF S
  <2> QED
    BY <1>2, <2>1, FS_UNION
<1>4. Met(at) \in SUBSET UNION S
  BY MetBracketed
<1> HIDE DEF S
<1>5. IsFiniteSet(Met(at))
  BY <1>3, <1>4, FS_Subset
<1>6. ASSUME NEW p
      PROVE  IsFiniteSet({x \in Met(at) : x[2] = p})
  <2>1. {x \in Met(at) : x[2] = p} \in SUBSET Met(at)
    OBVIOUS
  <2> QED
    BY <1>5, <2>1, FS_Subset
<1> QED
  BY <1>5, <1>6

\* The console's summaries of principals (or topics) and of managed policies.
LEMMA SummariesAre ==
  ASSUME NEW at, NEW n, NEW policies, Overview(at, n, policies)
  PROVE  LET owners == Answers!InOrder(at[1].owners) IN
         /\ Answers!load_principal_summaries(at) =
              {[owner |-> owners[i], count |-> Cardinality(Answers!OwnedBy(at[1 + i], owners[i]))] :
                 i \in DOMAIN owners}
         /\ Answers!load_managed_policy_summaries(at, policies) =
              {[policy |-> p, count |-> Cardinality({x \in Met(at) : x[2] = p})] : p \in policies}
<1> DEFINE counts == Answers!managed_policy_attachment_counts(at)
           C(p) == Cardinality({x \in Met(at) : x[2] = p})
           D(p) == IF p \in DOMAIN counts THEN counts[p] ELSE 0
<1>1. counts = [p \in {x[2] : x \in Met(at)} |-> C(p)]
  BY AnswersArranged DEF Answers!managed_policy_attachment_counts, Met
<1> HIDE DEF counts
<1>2. ASSUME NEW p
      PROVE  D(p) = C(p)
  <2>1. CASE p \in {x[2] : x \in Met(at)}
    BY <1>1, <2>1
  <2>2. CASE p \notin {x[2] : x \in Met(at)}
    <3>1. {x \in Met(at) : x[2] = p} = {}
      BY <2>2
    <3>2. C(p) = 0
      BY <3>1, FS_EmptySet
    <3> HIDE DEF C
    <3> QED
      BY <1>1, <2>2, <3>2
  <2> QED
    BY <2>1, <2>2
<1>3. Answers!load_managed_policy_summaries(at, policies) =
        {[policy |-> p, count |-> D(p)] : p \in policies}
  BY DEF Answers!load_managed_policy_summaries, counts
<1>4. Answers!load_managed_policy_summaries(at, policies) = {[policy |-> p, count |-> C(p)] : p \in policies}
  <2> HIDE DEF C, D
  <2> QED
    BY <1>2, <1>3
<1>5. Answers!load_principal_summaries(at) =
        LET owners == Answers!InOrder(at[1].owners) IN
          {[owner |-> owners[i], count |-> Cardinality(Answers!OwnedBy(at[1 + i], owners[i]))] :
                 i \in DOMAIN owners}
  BY AnswersArranged DEF Answers!load_principal_summaries, Answers!load_summaries
<1> QED
  BY <1>4, <1>5

\* The overview pages.
LEMMA OverviewRight ==
  ASSUME NEW at, NEW n, NEW policies, Overview(at, n, policies)
  PROVE  Answers!OverviewExplained(at, policies)
<1> DEFINE owners == Answers!InOrder(at[1].owners)
           Of(owner) == [k \in DOMAIN at |-> Answers!OwnedBy(at[k], owner)]
           With(p) == [k \in DOMAIN at |-> {x \in at[k].owned : x[2] = p}]
           principals == Answers!load_principal_summaries(at)
           managed == Answers!load_managed_policy_summaries(at, policies)
<1>0. n \in Nat \ {0} /\ DOMAIN at = 1..n
  BY DEF Overview
<1>1. /\ \A i \in DOMAIN owners : owners[i] \in at[1].owners /\ 1 + i \in 1..n
      /\ \A o \in at[1].owners : \E i \in DOMAIN owners : owners[i] = o
      /\ \A i, j \in DOMAIN owners : owners[i] = owners[j] => i = j
  BY OwnersAsked
<1>2. /\ principals = {[owner |-> owners[i], count |-> Cardinality(Answers!OwnedBy(at[1 + i], owners[i]))] :
                         i \in DOMAIN owners}
      /\ managed = {[policy |-> p, count |-> Cardinality({x \in Met(at) : x[2] = p})] : p \in policies}
  BY SummariesAre
<1> HIDE DEF owners, principals, managed
<1>3. ASSUME NEW s \in principals
      PROVE  \E i \in DOMAIN owners : s.owner = owners[i]
                                      /\ s.count = Cardinality(Answers!OwnedBy(at[1 + i], owners[i]))
  <2>1. PICK i \in DOMAIN owners :
          s = [owner |-> owners[i], count |-> Cardinality(Answers!OwnedBy(at[1 + i], owners[i]))]
    BY <1>2
  <2>2. s.owner = owners[i] /\ s.count = Cardinality(Answers!OwnedBy(at[1 + i], owners[i]))
    BY <2>1
  <2> QED
    BY <2>2
<1>4. ASSUME NEW s \in managed
      PROVE  s.policy \in policies /\ s.count = Cardinality({x \in Met(at) : x[2] = s.policy})
  <2>1. PICK p \in policies : s = [policy |-> p, count |-> Cardinality({x \in Met(at) : x[2] = p})]
    BY <1>2
  <2>2. s.policy = p /\ s.count = Cardinality({x \in Met(at) : x[2] = p})
    BY <2>1
  <2> QED
    BY <2>2
<1>5. ASSUME NEW s \in principals
      PROVE  Answers!Bracketed(s.count, Of(s.owner))
  <2>1. PICK i \in DOMAIN owners : s.owner = owners[i]
                                   /\ s.count = Cardinality(Answers!OwnedBy(at[1 + i], owners[i]))
    BY <1>3
  <2>2. PICK sets : sets = Of(s.owner)
    OBVIOUS
  <2>3. DOMAIN sets = 1..n /\ \A k \in 1..n : IsFiniteSet(sets[k])
    BY <1>0, <2>2, OwnedFinite
  <2>4. PICK k \in 1..n : k = 1 + i
    BY <1>1
  <2>5. s.count = Cardinality(sets[k])
    BY <1>0, <2>1, <2>2, <2>4
  <2>6. Answers!Bracketed(Cardinality(sets[k]), sets)
    BY <1>0, <2>3, BracketedBySets
  <2> QED
    BY <2>2, <2>5, <2>6
<1>6. ASSUME NEW s \in managed
      PROVE  Answers!Bracketed(s.count, With(s.policy))
  <2>1. PICK p : p = s.policy
    OBVIOUS
  <2>2. PICK once : once = {x \in Met(at) : x[2] = p}
    OBVIOUS
  <2>3. PICK sets : sets = With(p)
    OBVIOUS
  <2>4. DOMAIN sets = 1..n /\ \A k \in 1..n : IsFiniteSet(sets[k])
    <3>1. DOMAIN sets = 1..n /\ \A k \in 1..n : sets[k] = {x \in at[k].owned : x[2] = p}
      BY <1>0, <2>3
    <3>2. \A k \in 1..n : IsFiniteSet({x \in at[k].owned : x[2] = p})
      <4> SUFFICES ASSUME NEW k \in 1..n
                   PROVE  IsFiniteSet({x \in at[k].owned : x[2] = p})
        OBVIOUS
      <4>1. IsFiniteSet(at[k].owned)
        BY OwnedFinite
      <4>2. {x \in at[k].owned : x[2] = p} \in SUBSET at[k].owned
        OBVIOUS
      <4> QED
        BY <4>1, <4>2, FS_Subset
    <3> QED
      BY <3>1, <3>2, Zenon
  <2>5. IsFiniteSet(once)
    BY <2>2, MetFinite
  <2>6. once \subseteq UNION {sets[j] : j \in 1..n}
    BY <1>0, <2>2, <2>3, MetBracketed
  <2>7. {x \in sets[1] : \A j \in 1..n : x \in sets[j]} \subseteq once
    BY <1>0, <2>2, <2>3, MetBracketed
  <2>8. 1 \in 1..n
    BY <1>0
  <2>9. Answers!Bracketed(Cardinality(once), sets)
    BY <1>0, <2>4, <2>5, <2>6, <2>7, <2>8, BracketedAt
  <2> QED
    BY <1>4, <2>1, <2>2, <2>3, <2>9
<1>7. ASSUME \A k \in DOMAIN at : at[k] = at[1]
      PROVE  /\ Answers!dashboard_stats(at).attached_count = Answers!Total(managed)
             /\ \A t \in at[1].owners :
                  Answers!topic_detail(at, t).summary = Answers!Cardinality(Answers!topic_detail(at, t).subscriptions)
  <2> DEFINE whole == at[1].owned
             byOwner == [s \in principals |-> Answers!OwnedBy(at[1], s.owner)]
             byPolicy == [s \in managed |-> {x \in whole : x[2] = s.policy}]
  <2>0. 1 \in 1..n
    BY <1>0
  <2>1. /\ IsFiniteSet(whole)
        /\ \A x \in whole : x[1] \in at[1].owners /\ x[2] \in policies
    BY <2>0, OwnedFinite
  <2>2. \A k \in 1..n : at[k] = at[1]
    BY <1>0, <1>7
  <2>3. Met(at) = whole
    BY <2>2, MetBracketed
  <2> HIDE DEF whole
  <2>4. Shares(principals, byOwner, whole)
    <3>1. byOwner \in [principals -> SUBSET whole]
      BY DEF Answers!OwnedBy, whole
    <3>2. ASSUME NEW s \in principals
          PROVE  s.count = Cardinality(byOwner[s])
      <4>1. PICK i \in DOMAIN owners : s.owner = owners[i]
                                       /\ s.count = Cardinality(Answers!OwnedBy(at[1 + i], owners[i]))
        BY <1>3
      <4>2. at[1 + i] = at[1]
        BY <1>1, <2>2
      <4> QED
        BY <4>1, <4>2
    <3>3. ASSUME NEW x \in whole
          PROVE  \E s \in principals : x \in byOwner[s]
      <4>1. PICK i \in DOMAIN owners : owners[i] = x[1]
        BY <1>1, <2>1
      <4>2. PICK s \in principals : s.owner = owners[i]
        <5>1. PICK s : s = [owner |-> owners[i], count |-> Cardinality(Answers!OwnedBy(at[1 + i], owners[i]))]
          OBVIOUS
        <5>2. s \in principals
          BY <1>2, <5>1
        <5> QED
          BY <5>1, <5>2
      <4>3. x \in Answers!OwnedBy(at[1], s.owner)
        BY <4>1, <4>2 DEF Answers!OwnedBy, whole
      <4> QED
        BY <4>2, <4>3
    <3>4. ASSUME NEW s \in principals, NEW u \in principals, NEW x \in whole,
                 x \in byOwner[s], x \in byOwner[u]
          PROVE  s = u
      <4>1. x[1] = s.owner /\ x[1] = u.owner
        BY <3>4 DEF Answers!OwnedBy
      <4>2. PICK i \in DOMAIN owners :
              s = [owner |-> owners[i], count |-> Cardinality(Answers!OwnedBy(at[1 + i], owners[i]))]
        BY <1>2
      <4>3. PICK j \in DOMAIN owners :
              u = [owner |-> owners[j], count |-> Cardinality(Answers!OwnedBy(at[1 + j], owners[j]))]
        BY <1>2
      <4>4. owners[i] = owners[j]
        BY <4>1, <4>2, <4>3
      <4>5. i = j
        BY <1>1, <4>4
      <4> QED
        BY <4>2, <4>3, <4>5
    <3> HIDE DEF byOwner
    <3> QED
      BY <3>1, <3>2, <3>3, <3>4 DEF Shares
  <2>5. Shares(managed, byPolicy, whole)
    <3>1. byPolicy \in [managed -> SUBSET whole]
      OBVIOUS
    <3>2. ASSUME NEW s \in managed
          PROVE  s.count = Cardinality(byPolicy[s])
      BY <1>4, <2>3
    <3>3. ASSUME NEW x \in whole
          PROVE  \E s \in managed : x \in byPolicy[s]
      <4>1. PICK s \in managed : s.policy = x[2]
        <5>1. PICK p \in policies : p = x[2]
          BY <2>1
        <5>2. PICK s : s = [policy |-> p, count |-> Cardinality({y \in Met(at) : y[2] = p})]
          OBVIOUS
        <5>3. s \in managed
          BY <1>2, <5>2
        <5> QED
          BY <5>1, <5>2, <5>3
      <4> QED
        BY <4>1
    <3>4. ASSUME NEW s \in managed, NEW u \in managed, NEW x \in whole,
                 x \in byPolicy[s], x \in byPolicy[u]
          PROVE  s = u
      <4>1. x[2] = s.policy /\ x[2] = u.policy
        BY <3>4
      <4>2. PICK p \in policies : s = [policy |-> p, count |-> Cardinality({y \in Met(at) : y[2] = p})]
        BY <1>2
      <4>3. PICK q \in policies : u = [policy |-> q, count |-> Cardinality({y \in Met(at) : y[2] = q})]
        BY <1>2
      <4>4. p = q
        BY <4>1, <4>2, <4>3
      <4> QED
        BY <4>2, <4>3, <4>4
    <3> HIDE DEF byPolicy
    <3> QED
      BY <3>1, <3>2, <3>3, <3>4 DEF Shares
  <2>6. Answers!Total(principals) = Cardinality(whole) /\ Answers!Total(managed) = Cardinality(whole)
    BY <2>1, <2>4, <2>5, TotalOfParts
  <2>7. Answers!dashboard_stats(at).attached_count = Answers!Total(principals)
    BY DEF Answers!dashboard_stats, principals
  <2>8. ASSUME NEW t \in at[1].owners
        PROVE  Answers!topic_detail(at, t).summary = Answers!Cardinality(Answers!topic_detail(at, t).subscriptions)
    <3>1. at[2] = at[1]
      <4>1. PICK i \in DOMAIN owners : owners[i] = t /\ 1 + i \in 1..n
        BY <1>1
      <4>2. PICK m \in Nat : m = Cardinality(at[1].owners) /\ 1 + m <= n /\ DOMAIN owners = 1..m
        BY AnswersArranged, InOrderType DEF Overview, owners
      <4>3. 2 \in 1..n
        BY <1>0, <4>1, <4>2
      <4> QED
        BY <2>2, <4>3
    <3> QED
      BY <3>1 DEF Answers!topic_detail
  <2> QED
    BY <2>6, <2>7, <2>8
<1> QED
  BY <1>5, <1>6, <1>7 DEF Answers!OverviewExplained, principals, managed

\* The kinds of inputs that answers are made of.
ReadsKept ==
  /\ input.kind = "counts" => input \in CountInputs
  /\ input.kind = "pages" => input \in PageInputs
  /\ input.kind = "overview" => input \in OverviewInputs

\* For every number of rows, of calls and of summaries: a count, a walk over the pages of a
\* list and an overview of the console differ from what was in the tables only by what
\* changed between their SELECTs.
THEOREM ReadsExplainedAlways == InputsSpec => []ReadsExplained
<1>1. ReadsKept => ReadsExplained
  <2> SUFFICES ASSUME ReadsKept PROVE ReadsExplained
    OBVIOUS
  <2>1. input.kind = "counts" => Answers!CountsExplained(input.at, input.limit)
    BY ReadsAssumption, CountsRight DEF ReadsKept, MessageRow
  <2>2. input.kind = "pages" => Answers!PagesExplained(input.at)
    BY ReadsAssumption, PagesRight DEF ReadsKept
  <2>3. input.kind = "overview" => Answers!OverviewExplained(input.at, input.policies)
    <3> HAVE input.kind = "overview"
    <3>1. input \in OverviewInputs
      BY DEF ReadsKept
    <3>2. Overview(input.at, Len(input.at), input.policies)
      BY ReadsAssumption, <3>1 DEF Overview
    <3> QED
      BY ONLY <3>2, OverviewRight
  <2> QED
    BY <2>1, <2>2, <2>3 DEF ReadsExplained
<1>2. InputsInit => ReadsKept
  BY KindAssumption DEF InputsInit, NoInput, ReadsKept
<1>3. ASSUME ReadsKept, [InputsNext]_<<policy, input>>
      PROVE  ReadsKept'
  BY <1>3 DEF InputsNext, ReadsKept
<1> QED
  BY <1>1, <1>2, <1>3, PTL DEF InputsSpec

--------------------------------------------------------------------------------
(* Signatures: what the canonical request tells apart. *)

\* Sorted is the same in module Signing.
LEMMA SignaturesArranged ==
  \A s, less : Signatures!Sorted(s, less) = Sorted(s, less)
<1>1. \A I, order, k : Signatures!Place(I, order, k) = Place(I, order, k)
  BY DEF Signatures!Place, Place, Signatures!Ahead, Ahead, Signatures!Cardinality, Cardinality
<1>2. \A I : Signatures!Cardinality(I) = Cardinality(I)
  BY DEF Signatures!Cardinality, Cardinality
<1>3. \A s, I, order : Signatures!Arrange(s, I, order) = Arrange(s, I, order)
  BY <1>1, <1>2 DEF Signatures!Arrange, Arrange
<1>4. \A I, less : Signatures!Stable(I, less) = Stable(I, less)
  BY DEF Signatures!Stable, Stable
<1> QED
  BY <1>3, <1>4 DEF Signatures!Sorted, Sorted

\* f shows that two sequences have the same elements.
Pairing(f, query, other) ==
  /\ f \in [DOMAIN query -> DOMAIN other]
  /\ \A i, j \in DOMAIN query : f[i] = f[j] => i = j
  /\ \A k \in DOMAIN other : \E i \in DOMAIN query : f[i] = k
  /\ \A i \in DOMAIN query : query[i] = other[f[i]]

\* What has the same elements has a pairing.
LEMMA SameIsPairing ==
  ASSUME NEW query, NEW other
  PROVE  Signatures!SameParameters(query, other) <=> \E f : Pairing(f, query, other)
<1>1. ASSUME Signatures!SameParameters(query, other) PROVE \E f : Pairing(f, query, other)
  BY <1>1 DEF Signatures!SameParameters, Pairing
<1>2. ASSUME NEW f, Pairing(f, query, other) PROVE Signatures!SameParameters(query, other)
  BY <1>2, Zenon DEF Signatures!SameParameters, Pairing
<1> QED
  BY <1>1, <1>2

\* The pairing of one with the other pairs the other with the one.
LEMMA PairedBack ==
  ASSUME NEW query, NEW other, NEW f, Pairing(f, query, other)
  PROVE  \E g : Pairing(g, other, query)
<1> DEFINE I == DOMAIN query
           K == DOMAIN other
           g == [k \in K |-> CHOOSE i \in I : f[i] = k]
<1>1. \A k \in K : g[k] \in I /\ f[g[k]] = k
  BY DEF Pairing
<1>2. g \in [K -> I]
  BY <1>1
<1>3. DOMAIN g = K
  OBVIOUS
<1> HIDE DEF g
<1>4. \A i, j \in K : g[i] = g[j] => i = j
  BY <1>1, Zenon
<1>5. ASSUME NEW i \in I PROVE \E k \in K : g[k] = i
  <2>1. f[i] \in K
    BY DEF Pairing
  <2>2. g[f[i]] = i
    BY <1>1, <2>1 DEF Pairing
  <2> QED
    BY <2>1, <2>2
<1>6. \A k \in K : other[k] = query[g[k]]
  BY <1>1 DEF Pairing
<1>7. Pairing(g, other, query)
  BY <1>2, <1>4, <1>5, <1>6 DEF Pairing
<1> QED
  BY <1>7

\* A pairing of the first with the second and one of the second with the third pair the
\* first with the third.
LEMMA PairedOn ==
  ASSUME NEW a, NEW b, NEW c, NEW f, Pairing(f, a, b), NEW g, Pairing(g, b, c)
  PROVE  \E h : Pairing(h, a, c)
<1> DEFINE h == [i \in DOMAIN a |-> g[f[i]]]
<1>1. \A i \in DOMAIN a : f[i] \in DOMAIN b /\ h[i] = g[f[i]] /\ h[i] \in DOMAIN c
  BY DEF Pairing
<1>2. h \in [DOMAIN a -> DOMAIN c]
  BY <1>1
<1> HIDE DEF h
<1>3. \A i, j \in DOMAIN a : h[i] = h[j] => i = j
  <2>1. ASSUME NEW i \in DOMAIN a, NEW j \in DOMAIN a, h[i] = h[j] PROVE i = j
    <3>1. g[f[i]] = g[f[j]] /\ f[i] \in DOMAIN b /\ f[j] \in DOMAIN b
      BY <1>1, <2>1
    <3>2. f[i] = f[j]
      BY <3>1 DEF Pairing
    <3> QED
      BY <3>2 DEF Pairing
  <2> QED
    BY <2>1
<1>4. ASSUME NEW k \in DOMAIN c PROVE \E i \in DOMAIN a : h[i] = k
  <2>1. PICK j \in DOMAIN b : g[j] = k
    BY DEF Pairing
  <2>2. PICK i \in DOMAIN a : f[i] = j
    BY DEF Pairing
  <2> QED
    BY <1>1, <2>1, <2>2
<1>5. \A i \in DOMAIN a : a[i] = c[h[i]]
  BY <1>1 DEF Pairing
<1>6. Pairing(h, a, c)
  BY <1>2, <1>3, <1>4, <1>5 DEF Pairing
<1> QED
  BY <1>6

\* A text, encoded some times or not at all.
Encoded == [chars : Nat, special : BOOLEAN, coded : Nat]

\* The order of parameters.
Precedes(x, y) ==
  \/ x[1].chars < y[1].chars
  \/ x[1].chars = y[1].chars /\ x[2].chars < y[2].chars

\* Parameters can be sorted in it.
LEMMA PrecedesOrders ==
  ASSUME NEW x \in Encoded \X Encoded, NEW y \in Encoded \X Encoded, NEW z \in Encoded \X Encoded
  PROVE  /\ ~Precedes(x, x)
         /\ Precedes(x, y) /\ Precedes(y, z) => Precedes(x, z)
         /\ Precedes(x, z) => Precedes(x, y) \/ Precedes(y, z)
         /\ ~Precedes(x, y) /\ ~Precedes(y, x) =>
              x[1].chars = y[1].chars /\ x[2].chars = y[2].chars
<1>1. /\ x[1].chars \in Nat /\ x[2].chars \in Nat /\ y[1].chars \in Nat /\ y[2].chars \in Nat
      /\ z[1].chars \in Nat /\ z[2].chars \in Nat
  BY DEF Encoded
<1> QED
  BY <1>1 DEF Precedes

\* A sequence of parameters in order.
Rising(a) == \A j, k \in DOMAIN a : j < k => ~Precedes(a[k], a[j])

\* Of two sequences in order with the same elements none has a smaller k-th element: the k
\* elements up to it would have to be among the k - 1 smaller ones of the other.
LEMMA NoneSmaller ==
  ASSUME NEW n \in Nat, NEW a \in [1..n -> Encoded \X Encoded], NEW b \in [1..n -> Encoded \X Encoded],
         Rising(a), Rising(b), NEW g, Pairing(g, a, b), NEW k \in 1..n
  PROVE  ~Precedes(a[k], b[k])
<1> SUFFICES ASSUME Precedes(a[k], b[k]) PROVE FALSE
  OBVIOUS
<1>1. ASSUME NEW i \in 1..k PROVE g[i] \in 1..(k - 1)
  <2>1. i \in 1..n /\ g[i] \in 1..n /\ a[i] = b[g[i]]
    <3>1. i \in 1..n
      OBVIOUS
    <3>2. DOMAIN a = 1..n /\ DOMAIN b = 1..n
      OBVIOUS
    <3> QED
      BY <3>1, <3>2, Zenon DEF Pairing
  <2>2. ~Precedes(a[k], a[i])
    <3>1. CASE i = k
      BY <3>1, PrecedesOrders
    <3>2. CASE i # k
      <4>1. i < k
        BY <3>2
      <4> QED
        BY <2>1, <4>1 DEF Rising
    <3> QED
      BY <3>1, <3>2
  <2>3. a[k] \in Encoded \X Encoded /\ a[i] \in Encoded \X Encoded /\ b[k] \in Encoded \X Encoded
    BY <2>1
  <2>4. Precedes(a[i], b[k])
    BY <2>2, <2>3, PrecedesOrders
  <2>5. ~Precedes(b[k], b[k])
    BY <2>3, PrecedesOrders
  <2>6. ~(k < g[i])
    BY <2>1, <2>4 DEF Rising
  <2>7. g[i] # k
    BY <2>1, <2>4, <2>5
  <2> QED
    BY <2>1, <2>6, <2>7
<1> DEFINE h == [i \in 1..k |-> g[i]]
<1>2. h \in [1..k -> 1..(k - 1)]
  BY <1>1
<1>3. /\ IsFiniteSet(1..k) /\ Cardinality(1..k) = k
      /\ IsFiniteSet(1..(k - 1)) /\ Cardinality(1..(k - 1)) = k - 1
  <2>1. PICK m \in Nat : m = k - 1
    OBVIOUS
  <2>2. IsFiniteSet(1..m) /\ Cardinality(1..m) = m
    BY ONLY m \in Nat, FS_Interval
  <2>3. k \in Nat
    OBVIOUS
  <2>4. IsFiniteSet(1..k) /\ Cardinality(1..k) = k
    BY ONLY <2>3, FS_Interval
  <2> QED
    BY <2>1, <2>2, <2>4
<1>4. Cardinality(1..(k - 1)) < Cardinality(1..k)
  BY <1>3
<1> HIDE DEF h
<1>5. \E x, y \in 1..k : x # y /\ h[x] = h[y]
  BY ONLY <1>2, <1>3, <1>4, FS_PigeonHole
<1>6. PICK x \in 1..k, y \in 1..k : x # y /\ h[x] = h[y]
  BY <1>5
<1>7. g[x] = g[y] /\ x \in 1..n /\ y \in 1..n
  BY <1>6 DEF h
<1> QED
  BY <1>6, <1>7 DEF Pairing

\* So two such sequences are equal, if characters tell texts apart.
LEMMA RisingAreEqual ==
  ASSUME NEW n \in Nat, NEW a \in [1..n -> Encoded \X Encoded], NEW b \in [1..n -> Encoded \X Encoded],
         Rising(a), Rising(b), NEW g, Pairing(g, a, b),
         \A j, k \in 1..n : \A x \in {1, 2} : a[j][x].chars = b[k][x].chars => a[j][x] = b[k][x]
  PROVE  a = b
<1>1. PICK h : Pairing(h, b, a)
  BY PairedBack
<1>2. ASSUME NEW k \in 1..n PROVE a[k] = b[k]
  <2>1. ~Precedes(a[k], b[k])
    BY ONLY n \in Nat, a \in [1..n -> Encoded \X Encoded], b \in [1..n -> Encoded \X Encoded],
            Rising(a), Rising(b), Pairing(g, a, b), k \in 1..n, NoneSmaller
  <2>2. ~Precedes(b[k], a[k])
    BY ONLY n \in Nat, a \in [1..n -> Encoded \X Encoded], b \in [1..n -> Encoded \X Encoded],
            Rising(a), Rising(b), Pairing(h, b, a), k \in 1..n, NoneSmaller, <1>1
  <2>3. a[k] \in Encoded \X Encoded /\ b[k] \in Encoded \X Encoded
    OBVIOUS
  <2>4. a[k][1].chars = b[k][1].chars /\ a[k][2].chars = b[k][2].chars
    BY <2>1, <2>2, <2>3, PrecedesOrders
  <2>5. a[k][1] = b[k][1] /\ a[k][2] = b[k][2]
    BY <2>4
  <2> QED
    BY <2>3, <2>5
<1> QED
  BY <1>2

\* What encoding does to a text.
LEMMA EncodedIs ==
  ASSUME NEW t \in Encoded
  PROVE  /\ Signatures!aws_uri_encode(t) \in Encoded
         /\ Signatures!aws_uri_encode(t).chars = t.chars
         /\ Signatures!aws_uri_encode(t).special = t.special
         /\ t.special => Signatures!aws_uri_encode(t).coded = t.coded + 1
         /\ ~t.special => Signatures!aws_uri_encode(t) = t
  BY DEF Encoded, Signatures!aws_uri_encode

\* A text is what its fields are.
LEMMA TextFields ==
  ASSUME NEW t \in Encoded, NEW u \in Encoded, t.chars = u.chars, t.special = u.special,
         t.coded = u.coded
  PROVE  t = u
  BY DEF Encoded

\* A text that was not encoded before.
Plain == [chars : Nat, special : BOOLEAN, coded : {0}]

\* The path, encoded on the wire and once more for the signature, is still told apart.
LEMMA PathsApart ==
  ASSUME NEW t \in Plain, NEW u \in Plain,
         Signatures!aws_uri_encode(Signatures!aws_uri_encode(t)) =
           Signatures!aws_uri_encode(Signatures!aws_uri_encode(u))
  PROVE  t = u
<1> DEFINE E(x) == Signatures!aws_uri_encode(x)
<1>1. t \in Encoded /\ u \in Encoded /\ t.coded = 0 /\ u.coded = 0
  BY DEF Plain, Encoded
<1>2. E(t) \in Encoded /\ E(u) \in Encoded
  BY <1>1, EncodedIs
<1>3. E(E(t)).chars = t.chars /\ E(E(t)).special = t.special
  BY <1>1, <1>2, EncodedIs
<1>4. E(E(u)).chars = u.chars /\ E(E(u)).special = u.special
  BY <1>1, <1>2, EncodedIs
<1> QED
  BY <1>1, <1>3, <1>4, TextFields

\* A parameter that the server encoded twice and the client once needed no encoding.
LEMMA OnceIsTwice ==
  ASSUME NEW t \in Plain, NEW u \in Plain,
         Signatures!aws_uri_encode(t) =
           Signatures!aws_uri_encode(Signatures!aws_uri_encode(u))
  PROVE  ~t.special /\ t = u
<1> DEFINE E(x) == Signatures!aws_uri_encode(x)
<1>1. t \in Encoded /\ u \in Encoded /\ t.coded = 0 /\ u.coded = 0
  BY DEF Plain, Encoded
<1>2. E(t) \in Encoded /\ E(u) \in Encoded /\ E(u).special = u.special
  BY <1>1, EncodedIs
<1>3. E(t).special = t.special /\ E(E(u)).special = u.special
  BY <1>1, <1>2, EncodedIs
<1>4. t.special = u.special
  BY <1>3
<1>5. ~t.special
  <2> SUFFICES ASSUME t.special PROVE FALSE
    OBVIOUS
  <2>1. E(t).coded = 1
    BY <1>1, EncodedIs
  <2>2. E(u).coded = 1
    BY <1>1, <1>4, EncodedIs
  <2>3. E(E(u)).coded = 2
    BY <1>2, <1>4, <2>2, EncodedIs
  <2> QED
    BY <2>1, <2>3
<1>6. E(t) = t /\ E(u) = u /\ E(E(u)) = u
  BY <1>1, <1>4, <1>5, EncodedIs
<1> QED
  BY <1>5, <1>6

\* The parameters, each encoded once.
Coded(query) ==
  [i \in DOMAIN query |-> <<Signatures!aws_uri_encode(query[i][1]), Signatures!aws_uri_encode(query[i][2])>>]

\* The canonical query has the encoded parameters, in order.
LEMMA CanonicalIs ==
  ASSUME NEW query \in Seq(Encoded \X Encoded)
  PROVE  LET canonical == Signatures!canonical_query_string(query) IN
           /\ Coded(query) \in Seq(Encoded \X Encoded)
           /\ canonical \in Seq(Encoded \X Encoded) /\ Len(canonical) = Len(query)
           /\ \E f : Pairing(f, canonical, Coded(query))
           /\ Rising(canonical)
<1> DEFINE c == Coded(query)
           I == DOMAIN query
           less == {p \in I \X I : Precedes(c[p[1]], c[p[2]])}
           canonical == Sorted(c, less)
<1>1. PICK n \in Nat : n = Len(query) /\ I = 1..n
  OBVIOUS
<1>2. ASSUME NEW i \in I PROVE c[i] \in Encoded \X Encoded
  <2>1. query[i] \in Encoded \X Encoded
    OBVIOUS
  <2>2. query[i][1] \in Encoded /\ query[i][2] \in Encoded
    BY <2>1
  <2> QED
    BY <2>2, EncodedIs DEF Coded
<1>3. DOMAIN c = I /\ c = [i \in I |-> c[i]]
  BY DEF Coded
<1>4. Signatures!canonical_query_string(query) = canonical
  BY SignaturesArranged DEF Signatures!canonical_query_string, Precedes, Coded
<1> HIDE DEF c
<1>5. c \in Seq(Encoded \X Encoded) /\ Len(c) = n
  BY <1>1, <1>2, <1>3
<1>6. \A i, j \in I : <<i, j>> \in less <=> Precedes(c[i], c[j])
  OBVIOUS
<1> HIDE DEF less
<1>7. WeakOrder(less, DOMAIN c)
  <2>1. \A i \in I : <<i, i>> \notin less
    BY <1>2, <1>6, PrecedesOrders
  <2>2. ASSUME NEW i \in I, NEW j \in I, NEW k \in I
        PROVE  /\ <<i, j>> \in less /\ <<j, k>> \in less => <<i, k>> \in less
               /\ <<i, k>> \in less => <<i, j>> \in less \/ <<j, k>> \in less
    <3>1. c[i] \in Encoded \X Encoded /\ c[j] \in Encoded \X Encoded /\ c[k] \in Encoded \X Encoded
      BY <1>2
    <3> QED
      BY <1>6, <3>1, PrecedesOrders
  <2> QED
    BY <1>3, <2>1, <2>2 DEF WeakOrder
<1>8. /\ canonical \in Seq(Encoded \X Encoded) /\ Len(canonical) = Len(c)
      /\ \E f \in [DOMAIN c -> DOMAIN c] :
           /\ \A k \in DOMAIN c : canonical[k] = c[f[k]]
           /\ \A i \in DOMAIN c : \E k \in DOMAIN c : f[k] = i
           /\ \A j, k \in DOMAIN c : f[j] = f[k] => j = k
           /\ \A j, k \in DOMAIN c : j < k => <<f[k], f[j]>> \notin less
  BY ONLY <1>5, <1>7, SortedType
<1>9. PICK f \in [DOMAIN c -> DOMAIN c] :
           /\ \A k \in DOMAIN c : canonical[k] = c[f[k]]
           /\ \A i \in DOMAIN c : \E k \in DOMAIN c : f[k] = i
           /\ \A j, k \in DOMAIN c : f[j] = f[k] => j = k
           /\ \A j, k \in DOMAIN c : j < k => <<f[k], f[j]>> \notin less
  BY <1>8
<1> HIDE DEF canonical
<1>10. DOMAIN canonical = I /\ DOMAIN c = I
  BY <1>1, <1>3, <1>5, <1>8
<1>11. Pairing(f, canonical, c)
  BY <1>9, <1>10, Zenon DEF Pairing
<1>12. Rising(canonical)
  <2>1. ASSUME NEW j \in I, NEW k \in I, j < k PROVE ~Precedes(canonical[k], canonical[j])
    <3>1. f[j] \in I /\ f[k] \in I /\ canonical[k] = c[f[k]] /\ canonical[j] = c[f[j]]
      BY <1>9, <1>10
    <3>2. <<f[k], f[j]>> \notin less
      BY <1>9, <1>10, <2>1
    <3> QED
      BY <1>6, <3>1, <3>2
  <2> QED
    BY <1>10, <2>1 DEF Rising
<1> QED
  BY <1>1, <1>4, <1>5, <1>8, <1>11, <1>12 DEF c

\* Characters tell the texts of parameters apart.
TextsApart(query, other) ==
  \A j \in DOMAIN query, k \in DOMAIN other : \A x \in {1, 2} :
    query[j][x].chars = other[k][x].chars => query[j][x] = other[k][x]

\* The canonical query of the client is the one of the server exactly when they have the
\* same parameters and none needs encoding.
LEMMA QueriesAgree ==
  ASSUME NEW q \in Seq(Plain \X Plain), NEW u \in Seq(Plain \X Plain), TextsApart(q, u)
  PROVE  Signatures!canonical_query_string(q) = Signatures!canonical_query_string(Coded(u)) <=>
           Signatures!SameParameters(q, u) /\ ~Signatures!NeedsEncoding(q)
<1> DEFINE C(x) == Signatures!canonical_query_string(x)
           E(x) == Signatures!aws_uri_encode(x)
<1>1. Plain \subseteq Encoded
  BY DEF Plain, Encoded
<1>2. /\ \A i \in DOMAIN q : q[i] \in Plain \X Plain
      /\ \A i \in DOMAIN u : u[i] \in Plain \X Plain
  OBVIOUS
<1>3. q \in Seq(Encoded \X Encoded) /\ u \in Seq(Encoded \X Encoded)
  <2>1. Plain \X Plain \subseteq Encoded \X Encoded
    BY <1>1
  <2> QED
    BY <2>1, LargerSet
<1>4. /\ Coded(q) \in Seq(Encoded \X Encoded) /\ Coded(u) \in Seq(Encoded \X Encoded)
      /\ C(q) \in Seq(Encoded \X Encoded) /\ Len(C(q)) = Len(q) /\ Rising(C(q))
      /\ \E f : Pairing(f, C(q), Coded(q))
  BY <1>3, CanonicalIs
<1>5. \E f : Pairing(f, C(Coded(u)), Coded(Coded(u)))
  BY <1>4, CanonicalIs
<1>6. ASSUME C(q) = C(Coded(u))
      PROVE  Signatures!SameParameters(q, u) /\ ~Signatures!NeedsEncoding(q)
  <2>1. \E f : Pairing(f, Coded(q), C(q))
    BY <1>4, PairedBack
  <2>2. \E f : Pairing(f, Coded(q), Coded(Coded(u)))
    BY <1>5, <1>6, <2>1, PairedOn
  <2>3. PICK f : Pairing(f, Coded(q), Coded(Coded(u)))
    BY <2>2
  <2>4. DOMAIN Coded(q) = DOMAIN q /\ DOMAIN Coded(Coded(u)) = DOMAIN u /\ DOMAIN Coded(u) = DOMAIN u
    BY DEF Coded
  <2>5. ASSUME NEW i \in DOMAIN q
        PROVE  f[i] \in DOMAIN u /\ q[i] = u[f[i]] /\ ~q[i][1].special /\ ~q[i][2].special
    <3>1. f[i] \in DOMAIN u /\ Coded(q)[i] = Coded(Coded(u))[f[i]]
      BY <2>3, <2>4 DEF Pairing
    <3>2. Coded(q)[i] = <<E(q[i][1]), E(q[i][2])>>
      BY DEF Coded
    <3>3. Coded(Coded(u))[f[i]] = <<E(E(u[f[i]][1])), E(E(u[f[i]][2]))>>
      BY <3>1 DEF Coded
    <3>4. E(q[i][1]) = E(E(u[f[i]][1])) /\ E(q[i][2]) = E(E(u[f[i]][2]))
      <4>1. \A w, x, y, z : <<w, x>> = <<y, z>> => w = y /\ x = z
        OBVIOUS
      <4>2. <<E(q[i][1]), E(q[i][2])>> = <<E(E(u[f[i]][1])), E(E(u[f[i]][2]))>>
        BY ONLY <3>1, <3>2, <3>3
      <4> QED
        BY ONLY <4>1, <4>2
    <3>5. q[i] \in Plain \X Plain /\ u[f[i]] \in Plain \X Plain
      BY <1>2, <3>1
    <3>6. /\ q[i][1] \in Plain /\ q[i][2] \in Plain /\ q[i] = <<q[i][1], q[i][2]>>
          /\ u[f[i]][1] \in Plain /\ u[f[i]][2] \in Plain /\ u[f[i]] = <<u[f[i]][1], u[f[i]][2]>>
      BY <3>5
    <3>7. ~q[i][1].special /\ q[i][1] = u[f[i]][1]
      BY ONLY <3>4, <3>6, OnceIsTwice
    <3>8. ~q[i][2].special /\ q[i][2] = u[f[i]][2]
      BY ONLY <3>4, <3>6, OnceIsTwice
    <3> QED
      BY <3>1, <3>6, <3>7, <3>8
  <2>6. Pairing(f, q, u)
    BY <2>3, <2>4, <2>5 DEF Pairing
  <2> QED
    BY <2>5, <2>6, SameIsPairing DEF Signatures!NeedsEncoding
<1>7. ASSUME Signatures!SameParameters(q, u), ~Signatures!NeedsEncoding(q)
      PROVE  C(q) = C(Coded(u))
  <2>1. PICK f : Pairing(f, q, u)
    BY <1>7, SameIsPairing
  <2>2. \A i \in DOMAIN q : ~q[i][1].special /\ ~q[i][2].special
    BY <1>7 DEF Signatures!NeedsEncoding
  <2>3. ASSUME NEW k \in DOMAIN u PROVE ~u[k][1].special /\ ~u[k][2].special
    <3>1. PICK i \in DOMAIN q : f[i] = k
      BY <2>1 DEF Pairing
    <3> QED
      BY <2>1, <2>2, <3>1 DEF Pairing
  <2>4. Coded(q) = q
    <3>1. ASSUME NEW i \in DOMAIN q PROVE <<E(q[i][1]), E(q[i][2])>> = q[i]
      <4>1. q[i] = <<q[i][1], q[i][2]>> /\ q[i][1] \in Plain /\ q[i][2] \in Plain
        BY <1>2
      <4>2. q[i][1] \in Encoded /\ q[i][2] \in Encoded
        BY <1>1, <4>1
      <4>3. E(q[i][1]) = q[i][1] /\ E(q[i][2]) = q[i][2]
        BY <2>2, <4>2, EncodedIs
      <4> QED
        BY <4>1, <4>3
    <3> QED
      BY <3>1 DEF Coded
  <2>5. Coded(u) = u
    <3>1. ASSUME NEW i \in DOMAIN u PROVE <<E(u[i][1]), E(u[i][2])>> = u[i]
      <4>1. u[i] = <<u[i][1], u[i][2]>> /\ u[i][1] \in Plain /\ u[i][2] \in Plain
        BY <1>2
      <4>2. u[i][1] \in Encoded /\ u[i][2] \in Encoded
        BY <1>1, <4>1
      <4>3. E(u[i][1]) = u[i][1] /\ E(u[i][2]) = u[i][2]
        BY <2>3, <4>2, EncodedIs
      <4> QED
        BY <4>1, <4>3
    <3> QED
      BY <3>1 DEF Coded
  <2>6. /\ C(u) \in Seq(Encoded \X Encoded) /\ Len(C(u)) = Len(u) /\ Rising(C(u))
        /\ \E g : Pairing(g, C(u), u)
    BY <1>3, <2>5, CanonicalIs
  <2>7. PICK g : Pairing(g, C(q), q)
    BY <1>4, <2>4
  <2>8. PICK h : Pairing(h, C(u), u)
    BY <2>6
  <2>9. \E e : Pairing(e, C(q), u)
    BY <2>1, <2>7, PairedOn
  <2>10. \E e : Pairing(e, u, C(u))
    BY <2>8, PairedBack
  <2>11. \E e : Pairing(e, C(q), C(u))
    BY <2>9, <2>10, PairedOn
  <2>12. PICK e : Pairing(e, C(q), C(u))
    BY <2>11
  <2>13. PICK n \in Nat : n = Len(q) /\ DOMAIN q = 1..n /\ DOMAIN C(q) = 1..n
    BY <1>4
  <2>14. C(q) \in [1..n -> Encoded \X Encoded]
    BY <1>4, <2>13
  <2>15. DOMAIN C(u) = 1..n
    <3>1. PICK m \in Nat : DOMAIN C(u) = 1..m
      BY <2>6
    <3>2. e \in [1..n -> 1..m] /\ (\A i, j \in 1..n : e[i] = e[j] => i = j)
          /\ \A k \in 1..m : \E i \in 1..n : e[i] = k
      BY <2>12, <2>13, <3>1 DEF Pairing
    <3>3. /\ IsFiniteSet(1..n) /\ Cardinality(1..n) = n
          /\ IsFiniteSet(1..m) /\ Cardinality(1..m) = m
      BY ONLY n \in Nat, m \in Nat, FS_Interval
    <3>4. e \in Surjection(1..n, 1..m) /\ e \in Injection(1..n, 1..m)
      BY ONLY <3>2 DEF Injection, IsInjective, Surjection
    <3>5. Cardinality(1..m) = Cardinality(1..n)
      BY ONLY <3>3, <3>4, FS_Surjection
    <3> QED
      BY <3>1, <3>3, <3>5
  <2>16. C(u) \in [1..n -> Encoded \X Encoded]
    BY <2>6, <2>15
  <2>17. ASSUME NEW j \in 1..n, NEW k \in 1..n, NEW x \in {1, 2},
                C(q)[j][x].chars = C(u)[k][x].chars
         PROVE  C(q)[j][x] = C(u)[k][x]
    <3>1. g[j] \in DOMAIN q /\ C(q)[j] = q[g[j]]
      BY <2>7, <2>13 DEF Pairing
    <3>2. h[k] \in DOMAIN u /\ C(u)[k] = u[h[k]]
      BY <2>8, <2>15 DEF Pairing
    <3>3. q[g[j]][x].chars = u[h[k]][x].chars
      BY <2>17, <3>1, <3>2
    <3>4. q[g[j]][x] = u[h[k]][x]
      BY <3>1, <3>2, <3>3 DEF TextsApart
    <3> QED
      BY <3>1, <3>2, <3>4
  <2> HIDE DEF C
  <2>18. C(q) = C(u)
    BY ONLY n \in Nat, <2>14, <2>16, <1>4, <2>6, <2>12, <2>17, RisingAreEqual
  <2> QED
    BY <2>5, <2>18
<1> QED
  BY <1>6, <1>7

\* The pairs of the Authorization header are read as they were written.
LEMMA HeaderRead ==
  ASSUME NEW scope, NEW names, NEW signature, scope.terminator = "aws4_request", names # <<>>
  PROVE  Signatures!extract_sigv4_params(
           [algorithm |-> "AWS4-HMAC-SHA256",
            pairs |-> << <<"Credential", scope>>, <<"SignedHeaders", names>>, <<"Signature", signature>> >>])
         = {[scope |-> scope, signed_headers |-> names, signature |-> signature]}
<1> DEFINE pairs == << <<"Credential", scope>>, <<"SignedHeaders", names>>, <<"Signature", signature>> >>
           Latest(key) == CHOOSE i \in DOMAIN pairs :
                          pairs[i][1] = key /\ \A j \in DOMAIN pairs : pairs[j][1] = key => j <= i
<1>1. /\ DOMAIN pairs = {1, 2, 3}
      /\ pairs[1][1] = "Credential" /\ pairs[2][1] = "SignedHeaders" /\ pairs[3][1] = "Signature"
      /\ pairs[1][2] = scope /\ pairs[2][2] = names /\ pairs[3][2] = signature
  OBVIOUS
<1> HIDE DEF pairs
<1>2. Latest("Credential") = 1 /\ Latest("SignedHeaders") = 2 /\ Latest("Signature") = 3
  BY <1>1
<1>3. /\ Signatures!LastOf(pairs, "Credential") = scope
      /\ Signatures!LastOf(pairs, "SignedHeaders") = names
      /\ Signatures!LastOf(pairs, "Signature") = signature
  BY <1>1, <1>2 DEF Signatures!LastOf
<1>4. {"Credential", "SignedHeaders", "Signature"} \subseteq Signatures!KeysOf(pairs)
  BY <1>1 DEF Signatures!KeysOf
<1>5. PICK header : header = [algorithm |-> "AWS4-HMAC-SHA256", pairs |-> pairs]
  OBVIOUS
<1>6. header.algorithm = "AWS4-HMAC-SHA256" /\ header.pairs = pairs
  BY <1>5
<1>7. Signatures!extract_sigv4_params(header) =
        {[scope |-> scope, signed_headers |-> names, signature |-> signature]}
  BY <1>3, <1>4, <1>6 DEF Signatures!extract_sigv4_params
<1> QED
  BY <1>5, <1>7 DEF pairs

\* What the server computes of a request, given the parameters of its header.
LEMMA HashIs ==
  ASSUME NEW request, NEW params, NEW secret, NEW sig
  PROVE  LET names == Signatures!canonicalize_signed_headers(params.signed_headers) IN
         sig \in Signatures!hash_request(request, params, secret) <=>
           /\ "x-amz-date" \in DOMAIN request.headers
           /\ request.headers["x-amz-date"].chars = params.scope.date
           /\ names \subseteq DOMAIN request.headers
           /\ sig = <<Signatures!derive_signing_key(secret, params.scope),
                      [method |-> request.method, uri |-> Signatures!canonical_uri(request.path),
                       query |-> Signatures!canonical_query_string(request.query),
                       headers |-> [h \in names |-> Signatures!normalize_header_value(request.headers[h])],
                       body |-> request.body]>>
  BY DEF Signatures!hash_request, Signatures!create_canonical_request, Signatures!extract_signed_headers

\* Two canonical requests are equal when their parts are.
LEMMA CanonicalParts ==
  ASSUME NEW key, NEW m, NEW p, NEW q, NEW h, NEW b, NEW n, NEW u, NEW v, NEW g, NEW c
  PROVE  <<key, [method |-> m, uri |-> p, query |-> q, headers |-> h, body |-> b]>> =
           <<key, [method |-> n, uri |-> u, query |-> v, headers |-> g, body |-> c]>>
         <=> m = n /\ p = u /\ q = v /\ h = g /\ b = c
<1> DEFINE x == [method |-> m, uri |-> p, query |-> q, headers |-> h, body |-> b]
           y == [method |-> n, uri |-> u, query |-> v, headers |-> g, body |-> c]
<1>1. x = y => m = n /\ p = u /\ q = v /\ h = g /\ b = c
  <2>1. /\ x.method = m /\ x.uri = p /\ x.query = q /\ x.headers = h /\ x.body = b
        /\ y.method = n /\ y.uri = u /\ y.query = v /\ y.headers = g /\ y.body = c
    OBVIOUS
  <2> HIDE DEF x, y
  <2> QED
    BY <2>1
<1>2. m = n /\ p = u /\ q = v /\ h = g /\ b = c => x = y
  OBVIOUS
<1> HIDE DEF x, y
<1>3. <<key, x>> = <<key, y>> <=> x = y
  OBVIOUS
<1> QED
  BY <1>1, <1>2, <1>3 DEF x, y

\* A header value.
HeaderValue == [chars : Nat, spare : BOOLEAN]

\* A request as a client makes it.
ClientRequest(q) ==
  /\ q.path \in Plain /\ q.query \in Seq(Plain \X Plain)
  /\ \A h \in DOMAIN q.headers : q.headers[h] \in HeaderValue

\* The signature of a client speaks for its request, and for no other.
LEMMA SpeaksForOne ==
  ASSUME NEW r, NEW s, NEW names, NEW scope, NEW secrets,
         ClientRequest(r), ClientRequest(s), TextsApart(r.query, s.query),
         \A k \in DOMAIN names : names[k] \in DOMAIN r.headers,
         \E k \in DOMAIN names : names[k] = "x-amz-date",
         names # <<>>, r.headers["x-amz-date"].chars = scope.date,
         scope.terminator = "aws4_request", scope.key \in DOMAIN secrets
  PROVE  Signatures!SignatureSpeaksForRequest(r, s, names, scope, secrets)
<1> DEFINE E(x) == Signatures!aws_uri_encode(x)
           C(x) == Signatures!canonical_query_string(x)
           V(x) == Signatures!normalize_header_value(x)
           secret == secrets[scope.key]
           key == Signatures!derive_signing_key(secret, scope)
           N == {names[i] : i \in DOMAIN names}
           sig == Signatures!ClientSignature(r, names, scope, secret)
           header == [algorithm |-> "AWS4-HMAC-SHA256",
                      pairs |-> << <<"Credential", scope>>, <<"SignedHeaders", names>>,
                                   <<"Signature", sig>> >>]
           wire == Signatures!OnTheWire(s, header)
           params == [scope |-> scope, signed_headers |-> names, signature |-> sig]
<1>1. sig = <<key, [method |-> r.method, uri |-> E(E(r.path)), query |-> C(r.query),
                    headers |-> [h \in N |-> V(r.headers[h])], body |-> r.body]>>
  BY DEF Signatures!ClientSignature
<1>2. /\ wire.method = s.method /\ wire.path = E(s.path) /\ wire.query = Coded(s.query)
      /\ wire.headers = s.headers /\ wire.body = s.body /\ wire.authorization = header
  BY DEF Signatures!OnTheWire, Coded
<1>3. params.scope = scope /\ params.signed_headers = names /\ params.signature = sig
  OBVIOUS
<1> HIDE DEF sig, wire
<1>4. Signatures!extract_sigv4_params(header) = {params}
  BY HeaderRead
<1> HIDE DEF params, header
<1>5. Signatures!Authentic(wire, secrets) <=> sig \in Signatures!hash_request(wire, params, secret)
  BY <1>2, <1>3, <1>4 DEF Signatures!Authentic
<1>6. Signatures!canonicalize_signed_headers(params.signed_headers) = N
  BY <1>3 DEF Signatures!canonicalize_signed_headers
<1>7. sig \in Signatures!hash_request(wire, params, secret) <=>
        /\ "x-amz-date" \in DOMAIN s.headers /\ s.headers["x-amz-date"].chars = scope.date
        /\ N \subseteq DOMAIN s.headers
        /\ sig = <<key, [method |-> s.method, uri |-> E(E(s.path)), query |-> C(Coded(s.query)),
                         headers |-> [h \in N |-> V(s.headers[h])], body |-> s.body]>>
  <2> HIDE DEF N, secret
  <2> QED
    BY <1>2, <1>3, <1>6, HashIs DEF Signatures!canonical_uri
<1> DEFINE HR == [h \in N |-> V(r.headers[h])]
           HS == [h \in N |-> V(s.headers[h])]
<1>8. sig \in Signatures!hash_request(wire, params, secret) <=>
        /\ "x-amz-date" \in DOMAIN s.headers /\ s.headers["x-amz-date"].chars = scope.date
        /\ N \subseteq DOMAIN s.headers
        /\ r.method = s.method /\ E(E(r.path)) = E(E(s.path)) /\ C(r.query) = C(Coded(s.query))
        /\ HR = HS /\ r.body = s.body
  <2> HIDE DEF N, HR, HS, E, C, V, key, secret
  <2>1. sig = <<key, [method |-> s.method, uri |-> E(E(s.path)), query |-> C(Coded(s.query)),
                      headers |-> HS, body |-> s.body]>> <=>
          /\ r.method = s.method /\ E(E(r.path)) = E(E(s.path)) /\ C(r.query) = C(Coded(s.query))
          /\ HR = HS /\ r.body = s.body
    BY <1>1, CanonicalParts DEF HR
  <2> QED
    BY <1>7, <2>1 DEF HS
<1>9. E(E(r.path)) = E(E(s.path)) <=> r.path = s.path
  BY PathsApart DEF ClientRequest
<1>10. C(r.query) = C(Coded(s.query)) <=>
         Signatures!SameParameters(r.query, s.query) /\ ~Signatures!NeedsEncoding(r.query)
  BY QueriesAgree DEF ClientRequest
<1>11. HR = HS <=> \A h \in N : V(r.headers[h]) = V(s.headers[h])
  <2>1. /\ \A h \in N : HR[h] = V(r.headers[h]) /\ HS[h] = V(s.headers[h])
        /\ DOMAIN HR = N /\ DOMAIN HS = N
        /\ HR = [h \in N |-> HR[h]] /\ HS = [h \in N |-> HS[h]]
    OBVIOUS
  <2> HIDE DEF HR, HS, N, V
  <2>2. HR = HS => \A h \in N : V(r.headers[h]) = V(s.headers[h])
    BY <2>1, Zenon
  <2>3. (\A h \in N : V(r.headers[h]) = V(s.headers[h])) => HR = HS
    BY <2>1
  <2> QED
    BY <2>2, <2>3
<1>12. N \subseteq DOMAIN s.headers /\ (\A h \in N : V(r.headers[h]) = V(s.headers[h])) =>
         "x-amz-date" \in DOMAIN s.headers /\ s.headers["x-amz-date"].chars = scope.date
  <2> SUFFICES ASSUME N \subseteq DOMAIN s.headers, \A h \in N : V(r.headers[h]) = V(s.headers[h])
               PROVE  "x-amz-date" \in DOMAIN s.headers /\ s.headers["x-amz-date"].chars = scope.date
    OBVIOUS
  <2>1. "x-amz-date" \in N
    OBVIOUS
  <2>2. "x-amz-date" \in DOMAIN s.headers /\ "x-amz-date" \in DOMAIN r.headers
    BY <2>1
  <2>3. s.headers["x-amz-date"] \in HeaderValue /\ r.headers["x-amz-date"] \in HeaderValue
    BY <2>2 DEF ClientRequest
  <2>4. \A v \in HeaderValue : V(v).chars = v.chars
    BY DEF HeaderValue, Signatures!normalize_header_value
  <2>5. V(r.headers["x-amz-date"]) = V(s.headers["x-amz-date"])
    BY <2>1
  <2> QED
    BY <2>2, <2>3, <2>4, <2>5
<1>13. (N \subseteq DOMAIN s.headers /\ \A h \in N : V(r.headers[h]) = V(s.headers[h])) <=>
         \A i \in DOMAIN names : names[i] \in DOMAIN s.headers
                                /\ V(r.headers[names[i]]) = V(s.headers[names[i]])
  <2> HIDE DEF V
  <2> QED
    OBVIOUS
<1> HIDE DEF N, HR, HS, E, C, V
<1>14. sig \in Signatures!hash_request(wire, params, secret) <=>
         /\ r.method = s.method /\ r.path = s.path /\ r.body = s.body
         /\ Signatures!SameParameters(r.query, s.query) /\ ~Signatures!NeedsEncoding(r.query)
         /\ N \subseteq DOMAIN s.headers /\ \A h \in N : V(r.headers[h]) = V(s.headers[h])
  BY <1>8, <1>9, <1>10, <1>11, <1>12
<1>15. sig \in Signatures!hash_request(wire, params, secret) <=>
         Signatures!SameRequest(r, s, names) /\ ~Signatures!NeedsEncoding(r.query)
  BY <1>13, <1>14 DEF Signatures!SameRequest, V
<1> QED
  BY <1>5, <1>15 DEF Signatures!SignatureSpeaksForRequest, wire, header, sig, secret

\* For every request, method, path, parameters, headers, body and key: a request is
\* accepted with the Authorization header a client made for another exactly when it is the
\* same request, and no parameter of it needs percent-encoding.
THEOREM SignatureSpeaksAlways == InputsSpec => []SignatureSpeaks
<1> DEFINE Kind == input.kind = "signed" => input \in SignedInputs
<1>1. Kind => SignatureSpeaks
  <2> SUFFICES ASSUME input \in SignedInputs
               PROVE  Signatures!SignatureSpeaksForRequest(input.r, input.s, input.names, input.scope,
                                                           input.secrets)
    BY ZenonT(30) DEF SignatureSpeaks
  <2>1. ClientRequest(input.r) /\ ClientRequest(input.s)
    <3>1. input.r \in {input.r, input.s} /\ input.s \in {input.r, input.s}
      OBVIOUS
    <3> QED
      BY <3>1, SignedAssumption DEF ClientRequest, Plain, HeaderValue
  <2>2. TextsApart(input.r.query, input.s.query)
    <3>1. /\ input.r.query \in {input.r.query, input.s.query}
          /\ input.s.query \in {input.r.query, input.s.query}
      OBVIOUS
    <3> DEFINE q == input.r.query
               u == input.s.query
    <3>2. \A j \in DOMAIN q, k \in DOMAIN u : \A x, y \in {1, 2} :
            q[j][x].chars = u[k][y].chars => q[j][x] = u[k][y]
      BY <3>1, SignedAssumption, Zenon
    <3> HIDE DEF q, u
    <3>3. TextsApart(q, u)
      BY ONLY <3>2, SMTT(30) DEF TextsApart
    <3> QED
      BY <3>3 DEF q, u
  <2>3. /\ \A k \in DOMAIN input.names : input.names[k] \in DOMAIN input.r.headers
        /\ \E k \in DOMAIN input.names : input.names[k] = "x-amz-date"
        /\ input.names # <<>> /\ input.r.headers["x-amz-date"].chars = input.scope.date
        /\ input.scope.terminator = "aws4_request" /\ input.scope.key \in DOMAIN input.secrets
    BY SignedAssumption
  <2> QED
    BY <2>1, <2>2, <2>3, SpeaksForOne
<1>2. InputsInit => Kind
  BY KindAssumption DEF InputsInit, NoInput
<1>3. ASSUME Kind, [InputsNext]_<<policy, input>>
      PROVE  Kind'
  BY <1>3 DEF InputsNext
<1> QED
  BY <1>1, <1>2, <1>3, PTL DEF InputsSpec

--------------------------------------------------------------------------------
(* Forms of the console: what the redirect of a refusal carries. *)

\* Kept is the same in module ConsoleForms.
LEMMA ConsoleArranged ==
  \A s, I : Console!Kept(s, I) = Kept(s, I)
<1>1. \A I, order, k : Console!Place(I, order, k) = Place(I, order, k)
  BY DEF Console!Place, Place, Console!Ahead, Ahead, Console!Cardinality, Cardinality
<1>2. \A I : Console!Cardinality(I) = Cardinality(I)
  BY DEF Console!Cardinality, Cardinality
<1>3. \A s, I, order : Console!Arrange(s, I, order) = Arrange(s, I, order)
  BY <1>1, <1>2 DEF Console!Arrange, Arrange
<1>4. \A I : Console!Upward(I) = Upward(I)
  BY DEF Console!Upward, Upward
<1> QED
  BY <1>3, <1>4 DEF Console!Kept, Kept

\* No parameter is there twice.
OneName(s) == \A i, j \in DOMAIN s : s[i][1] = s[j][1] => i = j

\* The parameters of s that are not empty.
Filled(s) == Kept(s, {i \in DOMAIN s : s[i][2] # Console!Empty})

\* They are the ones of s, and still no parameter is there twice.
LEMMA FilledIs ==
  ASSUME NEW S, NEW s \in Seq(S), OneName(s)
  PROVE  /\ Filled(s) \in Seq(S) /\ OneName(Filled(s))
         /\ \A k \in DOMAIN Filled(s) : \E i \in DOMAIN s :
              s[i][2] # Console!Empty /\ Filled(s)[k] = s[i]
         /\ \A i \in DOMAIN s : s[i][2] # Console!Empty =>
              \E k \in DOMAIN Filled(s) : Filled(s)[k] = s[i]
<1> DEFINE I == {i \in DOMAIN s : s[i][2] # Console!Empty}
           t == Filled(s)
<1>1. I \in SUBSET (DOMAIN s)
  OBVIOUS
<1>2. \A i \in I : i \in DOMAIN s /\ s[i][2] # Console!Empty
  OBVIOUS
<1>3. \A i \in DOMAIN s : s[i][2] # Console!Empty => i \in I
  OBVIOUS
<1>4. t = Kept(s, I)
  BY DEF Filled
<1> HIDE DEF I, t
<1>5. t \in Seq(S) /\ OnceEach(t, s, I)
  BY <1>1, <1>4, KeptType
<1>6. ASSUME NEW k \in DOMAIN t, NEW j \in DOMAIN t, t[k][1] = t[j][1], k # j
      PROVE  FALSE
  <2>1. PICK i \in I : t[k] = s[i]
    BY <1>5 DEF OnceEach
  <2>2. PICK e \in DOMAIN t : t[e] = s[i] /\ \A l \in DOMAIN t : l # e => \E h \in I : h # i /\ t[l] = s[h]
    BY <1>5 DEF OnceEach
  <2>3. PICK l \in DOMAIN t : l # e /\ t[l][1] = s[i][1]
    BY <1>6, <2>1
  <2>4. PICK h \in I : h # i /\ t[l] = s[h]
    BY <2>2, <2>3
  <2>5. i \in DOMAIN s /\ h \in DOMAIN s /\ s[h][1] = s[i][1]
    BY <1>2, <2>3, <2>4
  <2> QED
    BY <2>4, <2>5 DEF OneName
<1>7. OneName(t)
  BY <1>6 DEF OneName
<1>8. \A k \in DOMAIN t : \E i \in I : t[k] = s[i]
  BY <1>5 DEF OnceEach
<1>9. \A i \in I : \E k \in DOMAIN t : t[k] = s[i]
  BY <1>5, Zenon DEF OnceEach
<1> QED
  BY <1>2, <1>3, <1>5, <1>7, <1>8, <1>9 DEF t

\* The map has the parameters of s, and no others.
HoldsPairs(m, s) ==
  /\ \A n \in DOMAIN m : \E i \in DOMAIN s : s[i][1] = n
  /\ \A i \in DOMAIN s : s[i][1] \in DOMAIN m /\ m[s[i][1]] = s[i][2]

\* An address in which no parameter is there twice is understood.
LEMMA Understood ==
  ASSUME NEW url, OneName(url.params)
  PROVE  \E m : Console!QueryParams(url) = {m} /\ HoldsPairs(m, url.params)
<1> DEFINE s == url.params
           names == {s[i][1] : i \in DOMAIN s}
           m == [n \in names |-> s[CHOOSE i \in DOMAIN s : s[i][1] = n][2]]
<1>1. Console!QueryParams(url) = {m}
  BY DEF Console!QueryParams, OneName
<1>2. ASSUME NEW i \in DOMAIN s PROVE s[i][1] \in DOMAIN m /\ m[s[i][1]] = s[i][2]
  <2>1. s[i][1] \in names
    OBVIOUS
  <2>2. (CHOOSE j \in DOMAIN s : s[j][1] = s[i][1]) = i
    BY DEF OneName
  <2> QED
    BY <2>1, <2>2
<1>3. \A n \in DOMAIN m : \E i \in DOMAIN s : s[i][1] = n
  OBVIOUS
<1>4. HoldsPairs(m, s)
  BY <1>2, <1>3 DEF HoldsPairs
<1> QED
  BY <1>1, <1>4

\* A redirect: the parameters of the page, and what is appended to them.
Appended(m, base, added) ==
  /\ \A n \in DOMAIN m : \/ \E i \in DOMAIN base : base[i][1] = n
                         \/ \E i \in DOMAIN added : added[i][1] = n /\ added[i][2] # Console!Empty
  /\ \A i \in DOMAIN base : base[i][1] \in DOMAIN m /\ m[base[i][1]] = base[i][2]
  /\ \A i \in DOMAIN added : added[i][2] # Console!Empty =>
       added[i][1] \in DOMAIN m /\ m[added[i][1]] = added[i][2]

\* The address of a redirect is understood.
LEMMA Redirected ==
  ASSUME NEW S, NEW url, url.params \in Seq(S), NEW added \in Seq(S),
         OneName(url.params), OneName(added),
         \A i \in DOMAIN url.params, j \in DOMAIN added : url.params[i][1] # added[j][1]
  PROVE  \E m : /\ Console!QueryParams(Console!append_query_params(url, added)) = {m}
                /\ Appended(m, url.params, added)
<1> DEFINE base == url.params
           t == Filled(added)
           all == base \o t
           to == Console!append_query_params(url, added)
<1>1. to.params = all
  BY ConsoleArranged DEF Console!append_query_params, Filled
<1>2. /\ t \in Seq(S) /\ OneName(t)
      /\ \A k \in DOMAIN t : \E i \in DOMAIN added : added[i][2] # Console!Empty /\ t[k] = added[i]
      /\ \A i \in DOMAIN added : added[i][2] # Console!Empty => \E k \in DOMAIN t : t[k] = added[i]
  BY FilledIs
<1> HIDE DEF t, to, base
<1>3. /\ base \in Seq(S) /\ OneName(base)
      /\ \A i \in DOMAIN base, j \in DOMAIN added : base[i][1] # added[j][1]
  BY DEF base
<1>4. PICK n \in Nat, l \in Nat : n = Len(base) /\ l = Len(t) /\ DOMAIN base = 1..n /\ DOMAIN t = 1..l
  BY <1>2, <1>3
<1>5. /\ DOMAIN all = 1..(n + l)
      /\ \A i \in 1..n : all[i] = base[i]
      /\ \A i \in 1..l : n + i \in 1..(n + l) /\ all[n + i] = t[i]
  BY <1>2, <1>3, <1>4
<1>6. \A i \in 1..(n + l) : i \in 1..n \/ \E k \in 1..l : i = n + k
  <2>1. ASSUME NEW i \in 1..(n + l), i \notin 1..n PROVE \E k \in 1..l : i = n + k
    <3>1. i - n \in 1..l /\ i = n + (i - n)
      BY <2>1
    <3> QED
      BY <3>1
  <2> QED
    BY <2>1
<1>7. ASSUME NEW i \in 1..n, NEW k \in 1..l PROVE base[i][1] # t[k][1]
  <2>1. PICK j \in DOMAIN added : t[k] = added[j]
    BY <1>2, <1>4
  <2>2. base[i][1] # added[j][1]
    BY <1>3, <1>4
  <2> QED
    BY <2>1, <2>2
<1> HIDE DEF all
<1>8. OneName(all)
  <2> SUFFICES ASSUME NEW i \in 1..(n + l), NEW j \in 1..(n + l), all[i][1] = all[j][1]
               PROVE  i = j
    BY <1>5 DEF OneName
  <2>1. CASE i \in 1..n /\ j \in 1..n
    <3>1. base[i][1] = base[j][1]
      BY <1>5, <2>1
    <3> QED
      BY <1>3, <1>4, <2>1, <3>1 DEF OneName
  <2>2. CASE i \in 1..n /\ j \notin 1..n
    <3>1. PICK k \in 1..l : j = n + k
      BY <1>6, <2>2
    <3>2. all[i] = base[i] /\ all[j] = t[k]
      BY <1>5, <2>2, <3>1
    <3>3. base[i][1] # t[k][1]
      BY <1>7, <2>2
    <3> QED
      BY <3>2, <3>3
  <2>3. CASE i \notin 1..n /\ j \in 1..n
    <3>1. PICK k \in 1..l : i = n + k
      BY <1>6, <2>3
    <3>2. all[j] = base[j] /\ all[i] = t[k]
      BY <1>5, <2>3, <3>1
    <3>3. base[j][1] # t[k][1]
      BY <1>7, <2>3
    <3> QED
      BY <3>2, <3>3
  <2>4. CASE i \notin 1..n /\ j \notin 1..n
    <3>1. PICK k \in 1..l : i = n + k
      BY <1>6, <2>4
    <3>2. PICK h \in 1..l : j = n + h
      BY <1>6, <2>4
    <3>3. t[k][1] = t[h][1]
      BY <1>5, <3>1, <3>2
    <3>4. k = h
      BY <1>2, <1>4, <3>3 DEF OneName
    <3> QED
      BY <3>1, <3>2, <3>4
  <2> QED
    BY <2>1, <2>2, <2>3, <2>4
<1>9. PICK m : Console!QueryParams(to) = {m} /\ HoldsPairs(m, all)
  BY <1>1, <1>8, Understood
<1>10. ASSUME NEW x \in DOMAIN m
       PROVE  \/ \E i \in DOMAIN base : base[i][1] = x
              \/ \E i \in DOMAIN added : added[i][1] = x /\ added[i][2] # Console!Empty
  <2>1. PICK i \in 1..(n + l) : all[i][1] = x
    BY <1>5, <1>9 DEF HoldsPairs
  <2>2. CASE i \in 1..n
    BY <1>4, <1>5, <2>1, <2>2
  <2>3. CASE i \notin 1..n
    <3>1. PICK k \in 1..l : i = n + k
      BY <1>6, <2>3
    <3>2. t[k][1] = x
      BY <1>5, <2>1, <3>1
    <3> QED
      BY <1>2, <1>4, <3>2
  <2> QED
    BY <2>2, <2>3
<1>11. ASSUME NEW i \in DOMAIN base PROVE base[i][1] \in DOMAIN m /\ m[base[i][1]] = base[i][2]
  <2>1. i \in 1..(n + l) /\ all[i] = base[i]
    BY <1>4, <1>5
  <2> QED
    BY <1>5, <1>9, <2>1 DEF HoldsPairs
<1>12. ASSUME NEW i \in DOMAIN added, added[i][2] # Console!Empty
       PROVE  added[i][1] \in DOMAIN m /\ m[added[i][1]] = added[i][2]
  <2>1. PICK k \in 1..l : t[k] = added[i]
    BY <1>2, <1>4, <1>12
  <2>2. n + k \in 1..(n + l) /\ all[n + k] = added[i]
    BY <1>5, <2>1
  <2> QED
    BY <1>5, <1>9, <2>2 DEF HoldsPairs
<1>13. Appended(m, base, added)
  BY <1>10, <1>11, <1>12 DEF Appended
<1> QED
  BY <1>9, <1>13 DEF to, base

\* The parameters of pages that no form uses.
PageParams == {"region", "account_id", "prefix", "message_limit", "tags_open", "policy_open"}

\* What the forms have in common: a message and fields with names of their own.
FormShape(f) ==
  /\ \E n \in Nat : DOMAIN f.fields = 1..n
  /\ \A i, j \in DOMAIN f.fields : f.fields[i].param = f.fields[j].param => i = j
  /\ \A i \in DOMAIN f.fields : f.fields[i].param \notin PageParams \union {"feedback", f.error}
  /\ f.error \notin PageParams \union {"feedback", "feedback_kind"}
  /\ \E S : f.before \in Seq(S)
  /\ OneName(f.before)
  /\ \A i \in DOMAIN f.before : f.before[i][1] \in PageParams

\* Each form has that shape.
LEMMA FormsHaveShape ==
  ASSUME NEW form \in DOMAIN Console!Forms
  PROVE  FormShape(Console!Forms[form])
<1>1. DOMAIN Console!Forms =
        {"create_queue", "create_topic", "create_subscription", "publish_message", "tag_queue",
         "tag_topic", "create_principal", "put_inline_policy", "create_managed_policy",
         "update_managed_policy", "send_message", "create_access_key"}
  BY DEF Console!Forms
<1> DEFINE f == Console!Forms[form]
           OwnNames ==
             /\ \E n \in Nat : DOMAIN f.fields = 1..n
             /\ \A i, j \in DOMAIN f.fields : f.fields[i].param = f.fields[j].param => i = j
             /\ \A i \in DOMAIN f.fields :
                  f.fields[i].param \notin PageParams \union {"feedback", f.error}
             /\ f.error \notin PageParams \union {"feedback", "feedback_kind"}
           Before ==
             /\ \E S : f.before \in Seq(S)
             /\ OneName(f.before)
             /\ \A i \in DOMAIN f.before : f.before[i][1] \in PageParams
<1>2. f.before = <<>> => Before
  BY DEF OneName
<1> HIDE DEF OwnNames
<1> SUFFICES OwnNames /\ Before
  BY DEF FormShape, OwnNames
<1>3. CASE form = "create_queue"
  <2>0. f = Console!CreateQueueForm
    BY <1>3 DEF Console!Forms
  <2> HIDE DEF f
  <2>1. /\ DOMAIN f.fields = 1..4 /\ f.error = "create_error"
        /\ f.fields[1].param = "create_queue_name"
        /\ f.fields[2].param = "create_queue_type"
        /\ f.fields[3].param = "create_region"
        /\ f.fields[4].param = "create_account_id"
    BY <2>0 DEF Console!CreateQueueForm, Console!Field
  <2>2. f.before = <<>>
    BY <2>0 DEF Console!CreateQueueForm
  <2>3. Before
    BY <1>2, <2>2
  <2> HIDE DEF f, Before
  <2>4. DOMAIN f.fields = {1, 2, 3, 4}
    BY <2>1
  <2> QED
    BY <2>1, <2>3, <2>4 DEF OwnNames, PageParams
<1>4. CASE form = "create_topic"
  <2>0. f = Console!CreateTopicForm
    BY <1>4 DEF Console!Forms
  <2> HIDE DEF f
  <2>1. /\ DOMAIN f.fields = 1..4 /\ f.error = "create_error"
        /\ f.fields[1].param = "create_topic_name"
        /\ f.fields[2].param = "create_region"
        /\ f.fields[3].param = "create_account_id"
        /\ f.fields[4].param = "create_display_name"
    BY <2>0 DEF Console!CreateTopicForm, Console!Field
  <2>2. f.before = <<>>
    BY <2>0 DEF Console!CreateTopicForm
  <2>3. Before
    BY <1>2, <2>2
  <2> HIDE DEF f, Before
  <2>4. DOMAIN f.fields = {1, 2, 3, 4}
    BY <2>1
  <2> QED
    BY <2>1, <2>3, <2>4 DEF OwnNames, PageParams
<1>5. CASE form = "create_subscription"
  <2>0. f = Console!CreateSubscriptionForm
    BY <1>5 DEF Console!Forms
  <2> HIDE DEF f
  <2>1. /\ DOMAIN f.fields = 1..3 /\ f.error = "subscription_error"
        /\ f.fields[1].param = "subscription_protocol"
        /\ f.fields[2].param = "subscription_endpoint"
        /\ f.fields[3].param = "subscription_raw_message_delivery"
    BY <2>0 DEF Console!CreateSubscriptionForm, Console!Field
  <2>2. f.before = <<>>
    BY <2>0 DEF Console!CreateSubscriptionForm
  <2>3. Before
    BY <1>2, <2>2
  <2> HIDE DEF f, Before
  <2>4. DOMAIN f.fields = {1, 2, 3}
    BY <2>1
  <2> QED
    BY <2>1, <2>3, <2>4 DEF OwnNames, PageParams
<1>6. CASE form = "publish_message"
  <2>0. f = Console!PublishMessageForm
    BY <1>6 DEF Console!Forms
  <2> HIDE DEF f
  <2>1. /\ DOMAIN f.fields = 1..2 /\ f.error = "publish_error"
        /\ f.fields[1].param = "publish_message"
        /\ f.fields[2].param = "publish_subject"
    BY <2>0 DEF Console!PublishMessageForm, Console!Field
  <2>2. f.before = <<>>
    BY <2>0 DEF Console!PublishMessageForm
  <2>3. Before
    BY <1>2, <2>2
  <2> HIDE DEF f, Before
  <2>4. DOMAIN f.fields = {1, 2}
    BY <2>1
  <2> QED
    BY <2>1, <2>3, <2>4 DEF OwnNames, PageParams
<1>7. CASE form = "tag_queue"
  <2>0. f = Console!TagQueueForm
    BY <1>7 DEF Console!Forms
  <2> HIDE DEF f
  <2>1. /\ DOMAIN f.fields = 1..2 /\ f.error = "tag_error"
        /\ f.fields[1].param = "tag_key"
        /\ f.fields[2].param = "tag_value"
    BY <2>0 DEF Console!TagQueueForm, Console!Field
  <2>2. f.before = << <<"message_limit", Console!Typed("50")>>, <<"tags_open", Console!Typed("1")>> >>
    BY <2>0 DEF Console!TagQueueForm
  <2>3. Before
    <3>1. f.before \in Seq({f.before[1], f.before[2]}) /\ DOMAIN f.before = 1..2
      BY <2>2
    <3>2. f.before[1][1] = "message_limit" /\ f.before[2][1] = "tags_open"
      BY <2>2
    <3> HIDE DEF f
    <3> QED
      BY <3>1, <3>2 DEF OneName, PageParams
  <2> HIDE DEF f, Before
  <2>4. DOMAIN f.fields = {1, 2}
    BY <2>1
  <2> QED
    BY <2>1, <2>3, <2>4 DEF OwnNames, PageParams
<1>8. CASE form = "tag_topic"
  <2>0. f = Console!TagTopicForm
    BY <1>8 DEF Console!Forms
  <2> HIDE DEF f
  <2>1. /\ DOMAIN f.fields = 1..2 /\ f.error = "tag_error"
        /\ f.fields[1].param = "tag_key"
        /\ f.fields[2].param = "tag_value"
    BY <2>0 DEF Console!TagTopicForm, Console!Field
  <2>2. f.before = << <<"tags_open", Console!Typed("1")>> >>
    BY <2>0 DEF Console!TagTopicForm
  <2>3. Before
    <3>1. f.before \in Seq({f.before[1]}) /\ DOMAIN f.before = 1..1
      BY <2>2
    <3>2. f.before[1][1] = "tags_open"
      BY <2>2
    <3> HIDE DEF f
    <3> QED
      BY <3>1, <3>2 DEF OneName, PageParams
  <2> HIDE DEF f, Before
  <2>4. DOMAIN f.fields = {1, 2}
    BY <2>1
  <2> QED
    BY <2>1, <2>3, <2>4 DEF OwnNames, PageParams
<1>9. CASE form = "create_principal"
  <2>0. f = Console!CreatePrincipalForm
    BY <1>9 DEF Console!Forms
  <2> HIDE DEF f
  <2>1. /\ DOMAIN f.fields = 1..4 /\ f.error = "create_error"
        /\ f.fields[1].param = "create_account_id"
        /\ f.fields[2].param = "create_kind"
        /\ f.fields[3].param = "create_name"
        /\ f.fields[4].param = "create_path"
    BY <2>0 DEF Console!CreatePrincipalForm, Console!Field
  <2>2. f.before = <<>>
    BY <2>0 DEF Console!CreatePrincipalForm
  <2>3. Before
    BY <1>2, <2>2
  <2> HIDE DEF f, Before
  <2>4. DOMAIN f.fields = {1, 2, 3, 4}
    BY <2>1
  <2> QED
    BY <2>1, <2>3, <2>4 DEF OwnNames, PageParams
<1>10. CASE form = "put_inline_policy"
  <2>0. f = Console!PutInlinePolicyForm
    BY <1>10 DEF Console!Forms
  <2> HIDE DEF f
  <2>1. /\ DOMAIN f.fields = 1..2 /\ f.error = "policy_error"
        /\ f.fields[1].param = "policy_name"
        /\ f.fields[2].param = "policy_document"
    BY <2>0 DEF Console!PutInlinePolicyForm, Console!Field
  <2>2. f.before = << <<"policy_open", Console!Typed("1")>> >>
    BY <2>0 DEF Console!PutInlinePolicyForm
  <2>3. Before
    <3>1. f.before \in Seq({f.before[1]}) /\ DOMAIN f.before = 1..1
      BY <2>2
    <3>2. f.before[1][1] = "policy_open"
      BY <2>2
    <3> HIDE DEF f
    <3> QED
      BY <3>1, <3>2 DEF OneName, PageParams
  <2> HIDE DEF f, Before
  <2>4. DOMAIN f.fields = {1, 2}
    BY <2>1
  <2> QED
    BY <2>1, <2>3, <2>4 DEF OwnNames, PageParams
<1>11. CASE form = "create_managed_policy"
  <2>0. f = Console!CreateManagedPolicyForm
    BY <1>11 DEF Console!Forms
  <2> HIDE DEF f
  <2>1. /\ DOMAIN f.fields = 1..4 /\ f.error = "policy_error"
        /\ f.fields[1].param = "policy_account_id"
        /\ f.fields[2].param = "policy_name"
        /\ f.fields[3].param = "policy_path"
        /\ f.fields[4].param = "policy_document"
    BY <2>0 DEF Console!CreateManagedPolicyForm, Console!Field
  <2>2. f.before = <<>>
    BY <2>0 DEF Console!CreateManagedPolicyForm
  <2>3. Before
    BY <1>2, <2>2
  <2> HIDE DEF f, Before
  <2>4. DOMAIN f.fields = {1, 2, 3, 4}
    BY <2>1
  <2> QED
    BY <2>1, <2>3, <2>4 DEF OwnNames, PageParams
<1>12. CASE form = "update_managed_policy"
  <2>0. f = Console!UpdateManagedPolicyForm
    BY <1>12 DEF Console!Forms
  <2> HIDE DEF f
  <2>1. /\ DOMAIN f.fields = 1..1 /\ f.error = "policy_error"
        /\ f.fields[1].param = "policy_document"
    BY <2>0 DEF Console!UpdateManagedPolicyForm, Console!Field
  <2>2. f.before = << <<"policy_open", Console!Typed("1")>> >>
    BY <2>0 DEF Console!UpdateManagedPolicyForm
  <2>3. Before
    <3>1. f.before \in Seq({f.before[1]}) /\ DOMAIN f.before = 1..1
      BY <2>2
    <3>2. f.before[1][1] = "policy_open"
      BY <2>2
    <3> HIDE DEF f
    <3> QED
      BY <3>1, <3>2 DEF OneName, PageParams
  <2> HIDE DEF f, Before
  <2>4. DOMAIN f.fields = {1}
    BY <2>1
  <2> QED
    BY <2>1, <2>3, <2>4 DEF OwnNames, PageParams
<1>13. CASE form = "send_message"
  <2>0. f = Console!SendMessageForm
    BY <1>13 DEF Console!Forms
  <2> HIDE DEF f
  <2>1. /\ DOMAIN f.fields = 1..2 /\ f.error = "send_error"
        /\ f.fields[1].param = "message_body"
        /\ f.fields[2].param = "message_attributes_json"
    BY <2>0 DEF Console!SendMessageForm, Console!Field
  <2>2. f.before = << <<"message_limit", Console!Typed("50")>> >>
    BY <2>0 DEF Console!SendMessageForm
  <2>3. Before
    <3>1. f.before \in Seq({f.before[1]}) /\ DOMAIN f.before = 1..1
      BY <2>2
    <3>2. f.before[1][1] = "message_limit"
      BY <2>2
    <3> HIDE DEF f
    <3> QED
      BY <3>1, <3>2 DEF OneName, PageParams
  <2> HIDE DEF f, Before
  <2>4. DOMAIN f.fields = {1, 2}
    BY <2>1
  <2> QED
    BY <2>1, <2>3, <2>4 DEF OwnNames, PageParams
<1>14. CASE form = "create_access_key"
  <2>0. f = Console!CreateAccessKeyForm
    BY <1>14 DEF Console!Forms
  <2> HIDE DEF f
  <2>1. /\ DOMAIN f.fields = 1..2 /\ f.error = "access_key_error"
        /\ f.fields[1].param = "key_id"
        /\ f.fields[2].param = "secret_key"
    BY <2>0 DEF Console!CreateAccessKeyForm, Console!Field
  <2>2. f.before = <<>>
    BY <2>0 DEF Console!CreateAccessKeyForm
  <2>3. Before
    BY <1>2, <2>2
  <2> HIDE DEF f, Before
  <2>4. DOMAIN f.fields = {1, 2}
    BY <2>1
  <2> QED
    BY <2>1, <2>3, <2>4 DEF OwnNames, PageParams
<1> QED
  BY <1>1, <1>3, <1>4, <1>5, <1>6, <1>7, <1>8, <1>9, <1>10, <1>11, <1>12, <1>13, <1>14

\* The other forms carry every field.
LEMMA HowTyped ==
  ASSUME NEW form \in DOMAIN Console!Forms \ Console!Forgetful,
         NEW i \in DOMAIN Console!Forms[form].fields
  PROVE  Console!Forms[form].fields[i].how \in {"trimmed", "checkbox", "as_typed"}
<1>1. form \in {"create_queue", "create_topic", "create_subscription", "publish_message",
               "tag_queue", "tag_topic", "create_principal", "put_inline_policy",
               "create_managed_policy", "update_managed_policy"}
  BY DEF Console!Forms, Console!Forgetful
<1> DEFINE f == Console!Forms[form]
           All == \A k \in DOMAIN f.fields : f.fields[k].how \in {"trimmed", "checkbox", "as_typed"}
<1> SUFFICES All
  OBVIOUS
<1>2. CASE form = "create_queue"
  <2>1. f = Console!CreateQueueForm
    BY <1>2 DEF Console!Forms
  <2> HIDE DEF f
  <2> QED
    BY <2>1 DEF Console!CreateQueueForm, Console!Field
<1>3. CASE form = "create_topic"
  <2>1. f = Console!CreateTopicForm
    BY <1>3 DEF Console!Forms
  <2> HIDE DEF f
  <2> QED
    BY <2>1 DEF Console!CreateTopicForm, Console!Field
<1>4. CASE form = "create_subscription"
  <2>1. f = Console!CreateSubscriptionForm
    BY <1>4 DEF Console!Forms
  <2> HIDE DEF f
  <2> QED
    BY <2>1 DEF Console!CreateSubscriptionForm, Console!Field
<1>5. CASE form = "publish_message"
  <2>1. f = Console!PublishMessageForm
    BY <1>5 DEF Console!Forms
  <2> HIDE DEF f
  <2> QED
    BY <2>1 DEF Console!PublishMessageForm, Console!Field
<1>6. CASE form = "tag_queue"
  <2>1. f = Console!TagQueueForm
    BY <1>6 DEF Console!Forms
  <2> HIDE DEF f
  <2> QED
    BY <2>1 DEF Console!TagQueueForm, Console!Field
<1>7. CASE form = "tag_topic"
  <2>1. f = Console!TagTopicForm
    BY <1>7 DEF Console!Forms
  <2> HIDE DEF f
  <2> QED
    BY <2>1 DEF Console!TagTopicForm, Console!Field
<1>8. CASE form = "create_principal"
  <2>1. f = Console!CreatePrincipalForm
    BY <1>8 DEF Console!Forms
  <2> HIDE DEF f
  <2> QED
    BY <2>1 DEF Console!CreatePrincipalForm, Console!Field
<1>9. CASE form = "put_inline_policy"
  <2>1. f = Console!PutInlinePolicyForm
    BY <1>9 DEF Console!Forms
  <2> HIDE DEF f
  <2> QED
    BY <2>1 DEF Console!PutInlinePolicyForm, Console!Field
<1>10. CASE form = "create_managed_policy"
  <2>1. f = Console!CreateManagedPolicyForm
    BY <1>10 DEF Console!Forms
  <2> HIDE DEF f
  <2> QED
    BY <2>1 DEF Console!CreateManagedPolicyForm, Console!Field
<1>11. CASE form = "update_managed_policy"
  <2>1. f = Console!UpdateManagedPolicyForm
    BY <1>11 DEF Console!Forms
  <2> HIDE DEF f
  <2> QED
    BY <2>1 DEF Console!UpdateManagedPolicyForm, Console!Field
<1> QED
  BY <1>1, <1>2, <1>3, <1>4, <1>5, <1>6, <1>7, <1>8, <1>9, <1>10, <1>11

\* How the fields of a form are carried: left out in the forgetful ones, and nowhere else.
LEMMA FieldsCarried ==
  ASSUME NEW form \in DOMAIN Console!Forms, NEW i \in DOMAIN Console!Forms[form].fields,
         NEW text
  PROVE  Console!CarriedText(Console!Forms[form].fields[i].how, text) =
           LET how == Console!Forms[form].fields[i].how
           IN  CASE form \in Console!Forgetful -> Console!Empty
                 [] form \notin Console!Forgetful /\ how = "checkbox" ->
                      IF Console!trim(text) = Console!On THEN Console!On ELSE Console!Empty
                 [] form \notin Console!Forgetful /\ how = "as_typed" -> text
                 [] OTHER -> Console!trim(text)
<1> DEFINE f == Console!Forms[form]
           how == f.fields[i].how
<1>1. CASE form \in Console!Forgetful
  <2>1. CASE form = "send_message"
    <3>0. f = Console!SendMessageForm
      BY <2>1 DEF Console!Forms
    <3> HIDE DEF f
    <3>1. /\ DOMAIN f.fields = 1..2
          /\ f.fields[1].how = "left_out" /\ f.fields[2].how = "left_out"
      BY <3>0 DEF Console!SendMessageForm, Console!Field
    <3>2. how = "left_out"
      BY <3>1 DEF f
    <3> QED
      BY <1>1, <3>2 DEF Console!CarriedText, f
  <2>2. CASE form = "create_access_key"
    <3>0. f = Console!CreateAccessKeyForm
      BY <2>2 DEF Console!Forms
    <3> HIDE DEF f
    <3>1. /\ DOMAIN f.fields = 1..2
          /\ f.fields[1].how = "left_out" /\ f.fields[2].how = "left_out"
      BY <3>0 DEF Console!CreateAccessKeyForm, Console!Field
    <3>2. how = "left_out"
      BY <3>1 DEF f
    <3> QED
      BY <1>1, <3>2 DEF Console!CarriedText, f
  <2> QED
    BY <1>1, <2>1, <2>2 DEF Console!Forgetful
<1>2. CASE form \notin Console!Forgetful
  <2>1. how \in {"trimmed", "checkbox", "as_typed"}
    BY <1>2, HowTyped
  <2> HIDE DEF f, how
  <2> QED
    BY <1>2, <2>1 DEF Console!CarriedText, f, how
<1> QED
  BY <1>1, <1>2

\* The parameters of a page's own address.
ScopePairs(scope) ==
  << <<"region", scope.region>>, <<"account_id", scope.account_id>>, <<"prefix", scope.prefix>> >>

\* Where a scoped form returns to: its parameters are those of the scope that are not empty.
LEMMA ScopedAddress ==
  ASSUME NEW path, NEW params
  PROVE  LET scope == Console!ScopeOf(params)
             url == Console!scoped_page_path(path, params)
         IN  /\ url.path = path
             /\ \E S : url.params \in Seq(S)
             /\ OneName(url.params)
             /\ \A k \in DOMAIN url.params : \E i \in 1..3 : url.params[k] = ScopePairs(scope)[i]
             /\ \A i \in 1..3 : ScopePairs(scope)[i][2] # Console!Empty =>
                  \E k \in DOMAIN url.params : url.params[k] = ScopePairs(scope)[i]
             /\ \A k \in DOMAIN url.params : url.params[k][2] # Console!Empty
<1> DEFINE scope == Console!ScopeOf(params)
           url == Console!scoped_page_path(path, params)
           s == ScopePairs(scope)
           S == {s[1], s[2], s[3]}
<1>1. url.path = path /\ url.params = <<>> \o Filled(s)
  BY ConsoleArranged DEF Console!scoped_page_path, Console!append_query_params, Filled, ScopePairs
<1>2. s \in Seq(S) /\ DOMAIN s = 1..3 /\ DOMAIN s = {1, 2, 3}
  BY DEF ScopePairs
<1>3. s[1][1] = "region" /\ s[2][1] = "account_id" /\ s[3][1] = "prefix"
  BY DEF ScopePairs
<1> HIDE DEF s, S, url
<1>4. OneName(s)
  BY <1>2, <1>3 DEF OneName
<1>5. /\ Filled(s) \in Seq(S) /\ OneName(Filled(s))
      /\ \A k \in DOMAIN Filled(s) : \E i \in DOMAIN s :
           s[i][2] # Console!Empty /\ Filled(s)[k] = s[i]
      /\ \A i \in DOMAIN s : s[i][2] # Console!Empty =>
           \E k \in DOMAIN Filled(s) : Filled(s)[k] = s[i]
  BY ONLY <1>2, <1>4, FilledIs
<1>6. url.params = Filled(s)
  BY <1>1, <1>5
<1> QED
  BY <1>1, <1>2, <1>5, <1>6 DEF s, url

\* What was typed, as the redirect carries it.
Carried(form, typed) ==
  [i \in DOMAIN Console!Forms[form].fields |->
     Console!CarriedText(Console!Forms[form].fields[i].how, typed[i])]

\* The message and the fields, as they are appended to the address.
AppendedPairs(form, typed) ==
  << <<Console!Forms[form].error, Console!Typed("refused")>> >> \o
    [i \in DOMAIN Console!Forms[form].fields |->
       <<Console!Forms[form].fields[i].param, Carried(form, typed)[i]>>]

\* They are the message, then a parameter per field.
LEMMA AppendedPairsAre ==
  ASSUME NEW form \in DOMAIN Console!Forms, NEW typed
  PROVE  LET fields == Console!Forms[form].fields
             added == AppendedPairs(form, typed)
         IN  \E n \in Nat :
               /\ DOMAIN fields = 1..n /\ DOMAIN added = 1..(n + 1)
               /\ \E S : added \in Seq(S)
               /\ added[1] = <<Console!Forms[form].error, Console!Typed("refused")>>
               /\ \A i \in 1..n : added[i + 1] = <<fields[i].param, Carried(form, typed)[i]>>
               /\ OneName(added)
<1> DEFINE fields == Console!Forms[form].fields
           added == AppendedPairs(form, typed)
           error == Console!Forms[form].error
           head == << <<error, Console!Typed("refused")>> >>
           rest == [i \in DOMAIN fields |-> <<fields[i].param, Carried(form, typed)[i]>>]
           S == {head[1]} \union {rest[i] : i \in DOMAIN fields}
<1>1. FormShape(Console!Forms[form])
  BY FormsHaveShape
<1>2. PICK n \in Nat : DOMAIN fields = 1..n
  BY <1>1 DEF FormShape
<1>3. added = head \o rest
  BY DEF AppendedPairs
<1>4. /\ head[1] = <<error, Console!Typed("refused")>> /\ Len(head) = 1 /\ DOMAIN head = 1..1
      /\ DOMAIN rest = 1..n /\ \A i \in 1..n : rest[i] = <<fields[i].param, Carried(form, typed)[i]>>
  BY <1>2
<1>5. head \in Seq(S)
  OBVIOUS
<1>6. rest \in Seq(S) /\ Len(rest) = n
  BY <1>2
<1> HIDE DEF head, rest, S, added, fields, error
<1>7. /\ added \in Seq(S) /\ DOMAIN added = 1..(n + 1)
      /\ added[1] = head[1] /\ \A i \in 1..n : i + 1 \in 1..(n + 1) /\ added[i + 1] = rest[i]
  <2> DEFINE one == Len(head)
  <2>0. one = 1
    BY <1>4
  <2> HIDE DEF one
  <2>1. added \in Seq(S) /\ Len(added) = 1 + n
    <3>1. added \in Seq(S)
      BY <1>3, <1>5, <1>6, ConcatProperties
    <3>2. Len(added) = one + n
      BY <1>3, <1>5, <1>6, ConcatProperties DEF one
    <3> QED
      BY <2>0, <3>1, <3>2
  <2>2. \A i \in 1..(1 + n) : added[i] = IF i <= 1 THEN head[i] ELSE rest[i - 1]
    <3>1. \A i \in 1..(one + n) : added[i] = IF i <= one THEN head[i] ELSE rest[i - one]
      BY ONLY <1>3, <1>5, <1>6 DEF one
    <3> QED
      BY <2>0, <3>1
  <2>3. \A i \in 1..n : i + 1 \in 1..(1 + n) /\ ~(i + 1 <= 1) /\ (i + 1) - 1 = i
    OBVIOUS
  <2>4. 1 \in 1..(1 + n) /\ 1 <= 1 /\ n + 1 = 1 + n
    OBVIOUS
  <2>5. DOMAIN added = 1..(n + 1)
    BY <2>1, <2>4
  <2>6. added[1] = head[1]
    BY <2>2, <2>4
  <2>7. ASSUME NEW i \in 1..n PROVE i + 1 \in 1..(n + 1) /\ added[i + 1] = rest[i]
    BY <2>2, <2>3, <2>4
  <2> QED
    BY <2>1, <2>5, <2>6, <2>7
<1>8. /\ added[1] = <<error, Console!Typed("refused")>>
      /\ \A i \in 1..n : added[i + 1] = <<fields[i].param, Carried(form, typed)[i]>>
  BY <1>4, <1>7
<1>9. /\ \A i, j \in 1..n : fields[i].param = fields[j].param => i = j
      /\ \A i \in 1..n : fields[i].param # error
  BY <1>1, <1>2 DEF FormShape, fields, error
<1>10. /\ added[1][1] = error
       /\ \A i \in 1..n : added[i + 1][1] = fields[i].param
  BY <1>8
<1>11. \A i \in 1..(n + 1) : i = 1 \/ \E k \in 1..n : i = k + 1
  <2>1. ASSUME NEW i \in 1..(n + 1), i # 1 PROVE \E k \in 1..n : i = k + 1
    <3>1. i - 1 \in 1..n /\ i = (i - 1) + 1
      BY <2>1
    <3> QED
      BY <3>1
  <2> QED
    BY <2>1
<1>12. OneName(added)
  <2> SUFFICES ASSUME NEW i \in 1..(n + 1), NEW j \in 1..(n + 1), added[i][1] = added[j][1]
               PROVE  i = j
    BY <1>7 DEF OneName
  <2>1. CASE i = 1 /\ j = 1
    BY <2>1
  <2>2. CASE i = 1 /\ j # 1
    <3>1. PICK k \in 1..n : j = k + 1
      BY <1>11, <2>2
    <3> QED
      BY <1>9, <1>10, <2>2, <3>1
  <2>3. CASE i # 1 /\ j = 1
    <3>1. PICK k \in 1..n : i = k + 1
      BY <1>11, <2>3
    <3> QED
      BY <1>9, <1>10, <2>3, <3>1
  <2>4. CASE i # 1 /\ j # 1
    <3>1. PICK k \in 1..n : i = k + 1
      BY <1>11, <2>4
    <3>2. PICK h \in 1..n : j = h + 1
      BY <1>11, <2>4
    <3>3. fields[k].param = fields[h].param
      BY <1>10, <3>1, <3>2
    <3> QED
      BY <1>9, <3>1, <3>2, <3>3
  <2> QED
    BY <2>1, <2>2, <2>3, <2>4
<1> QED
  BY <1>2, <1>7, <1>8, <1>12 DEF added, fields, error

\* What a page says of the redirect that led to it.
Answering(m, form, typed) ==
  LET fields == Console!Forms[form].fields IN
    /\ Console!ValueOr(m, Console!Forms[form].error, Console!Empty) = Console!Typed("refused")
    /\ Console!ValueOr(m, "feedback", Console!Empty) = Console!Empty
    /\ \A i \in DOMAIN fields :
         Console!ValueOr(m, fields[i].param, Console!Empty) = Carried(form, typed)[i]

\* A redirect to a page with the parameters base gives back the message, the fields and base.
LEMMA RefusalAnswered ==
  ASSUME NEW form \in DOMAIN Console!Forms, NEW typed, NEW url, NEW T, url.params \in Seq(T),
         OneName(url.params), \A i \in DOMAIN url.params : url.params[i][1] \in PageParams
  PROVE  \E m : /\ Console!QueryParams(Console!append_query_params(url, AppendedPairs(form, typed))) = {m}
                /\ Answering(m, form, typed)
                /\ \A i \in DOMAIN url.params :
                     url.params[i][1] \in DOMAIN m /\ m[url.params[i][1]] = url.params[i][2]
                /\ \A n \in PageParams : n \in DOMAIN m =>
                     \E i \in DOMAIN url.params : url.params[i][1] = n
<1> DEFINE fields == Console!Forms[form].fields
           added == AppendedPairs(form, typed)
           error == Console!Forms[form].error
           base == url.params
<1>1. FormShape(Console!Forms[form])
  BY FormsHaveShape
<1>2. PICK n \in Nat :
        /\ DOMAIN fields = 1..n /\ DOMAIN added = 1..(n + 1)
        /\ \E S : added \in Seq(S)
        /\ added[1] = <<error, Console!Typed("refused")>>
        /\ \A i \in 1..n : added[i + 1] = <<fields[i].param, Carried(form, typed)[i]>>
        /\ OneName(added)
  BY AppendedPairsAre
<1>3. PICK S : added \in Seq(S)
  BY <1>2
<1>4. added \in Seq(S \union T) /\ base \in Seq(S \union T)
  BY <1>3, LargerSet
<1> HIDE DEF added, fields, error
<1>5. /\ error \notin PageParams \union {"feedback"}
      /\ \A i \in 1..n : fields[i].param \notin PageParams \union {"feedback", error}
  BY <1>1, <1>2 DEF FormShape, fields, error
<1>6. /\ added[1][1] = error /\ added[1][2] = Console!Typed("refused")
      /\ \A i \in 1..n : /\ added[i + 1][1] = fields[i].param
                          /\ added[i + 1][2] = Carried(form, typed)[i]
  BY <1>2
<1>7. \A i \in 1..(n + 1) : i = 1 \/ \E k \in 1..n : i = k + 1
  <2>1. ASSUME NEW i \in 1..(n + 1), i # 1 PROVE \E k \in 1..n : i = k + 1
    <3>1. i - 1 \in 1..n /\ i = (i - 1) + 1
      BY <2>1
    <3> QED
      BY <3>1
  <2> QED
    BY <2>1
<1>8. ASSUME NEW j \in 1..(n + 1) PROVE added[j][1] \notin PageParams \union {"feedback"}
  <2>1. CASE j = 1
    BY <1>5, <1>6, <2>1
  <2>2. CASE j # 1
    <3>1. PICK k \in 1..n : j = k + 1
      BY <1>7, <2>2
    <3>2. added[j][1] = fields[k].param
      BY <1>6, <3>1
    <3> QED
      BY <1>5, <3>2
  <2> QED
    BY <2>1, <2>2
<1>9. \A i \in DOMAIN base, j \in DOMAIN added : base[i][1] # added[j][1]
  BY <1>2, <1>8
<1>10. PICK m : /\ Console!QueryParams(Console!append_query_params(url, added)) = {m}
                /\ Appended(m, base, added)
  BY <1>2, <1>4, <1>9, Redirected
<1>11. ASSUME NEW x \in DOMAIN m
       PROVE  \/ \E i \in DOMAIN base : base[i][1] = x
              \/ \E i \in 1..(n + 1) : added[i][1] = x /\ added[i][2] # Console!Empty
  BY <1>2, <1>10 DEF Appended
<1>12. ASSUME NEW i \in 1..(n + 1)
       PROVE  Console!ValueOr(m, added[i][1], Console!Empty) = added[i][2]
  <2>1. CASE added[i][2] # Console!Empty
    BY <1>2, <1>10, <2>1 DEF Appended, Console!ValueOr
  <2>2. CASE added[i][2] = Console!Empty
    <3>1. added[i][1] \notin DOMAIN m
      <4> SUFFICES ASSUME added[i][1] \in DOMAIN m PROVE FALSE
        OBVIOUS
      <4>1. ~\E k \in DOMAIN base : base[k][1] = added[i][1]
        BY <1>2, <1>9
      <4>2. PICK j \in 1..(n + 1) : added[j][1] = added[i][1] /\ added[j][2] # Console!Empty
        BY <1>11, <4>1
      <4>3. j = i
        BY <1>2, <4>2 DEF OneName
      <4> QED
        BY <2>2, <4>2, <4>3
    <3> QED
      BY <2>2, <3>1 DEF Console!ValueOr
  <2> QED
    BY <2>1, <2>2
<1>13. Console!ValueOr(m, error, Console!Empty) = Console!Typed("refused")
  <2>1. 1 \in 1..(n + 1)
    OBVIOUS
  <2> QED
    BY <1>6, <1>12, <2>1
<1>14. "feedback" \notin DOMAIN m
  <2> SUFFICES ASSUME "feedback" \in DOMAIN m PROVE FALSE
    OBVIOUS
  <2>1. CASE \E i \in DOMAIN base : base[i][1] = "feedback"
    BY <2>1 DEF PageParams
  <2>2. CASE \E i \in 1..(n + 1) : added[i][1] = "feedback"
    BY <1>8, <2>2
  <2> QED
    BY <1>11, <2>1, <2>2
<1>15. ASSUME NEW i \in DOMAIN fields
       PROVE  Console!ValueOr(m, fields[i].param, Console!Empty) = Carried(form, typed)[i]
  <2>1. i \in 1..n /\ i + 1 \in 1..(n + 1)
    BY <1>2
  <2> QED
    BY <1>6, <1>12, <2>1
<1>16. Answering(m, form, typed)
  BY <1>13, <1>14, <1>15 DEF Answering, Console!ValueOr, fields, error
<1>17. ASSUME NEW x \in PageParams, x \in DOMAIN m PROVE \E i \in DOMAIN base : base[i][1] = x
  BY <1>8, <1>11, <1>17
<1> QED
  BY <1>10, <1>16, <1>17 DEF Appended, added

\* What a page hands to the form is its own address.
MadeOf(form, page, params) ==
  /\ page.scope = Console!ScopeOf(params)
  /\ page.return_to = Console!scoped_page_path(page.path, params)
  /\ form \in Console!Scoped => page.path \in Console!OwnPaths(form)

\* A page that the form is on.
FormPage(form, page) == \E params : MadeOf(form, page, params)

\* The page of an address.
LEMMA PageIs ==
  ASSUME NEW form, NEW url, NEW m, Console!QueryParams(url) = {m}
  PROVE  \E page :
           /\ Console!PageOf(form, url) = {page}
           /\ page.path = url.path /\ page.scope = Console!ScopeOf(m)
           /\ page.return_to = Console!scoped_page_path(url.path, m)
           /\ page.error = Console!ValueOr(m, Console!Forms[form].error, Console!Empty)
           /\ page.fields = [i \in DOMAIN Console!Forms[form].fields |->
                              Console!ShownField(Console!Forms[form].fields[i], m)]
           /\ page.feedback = Console!ValueOr(m, "feedback", Console!Empty)
<1> DEFINE page ==
      [path |-> url.path, scope |-> Console!ScopeOf(m),
       return_to |-> Console!scoped_page_path(url.path, m),
       error |-> Console!ValueOr(m, Console!Forms[form].error, Console!Empty),
       fields |-> [i \in DOMAIN Console!Forms[form].fields |->
                     Console!ShownField(Console!Forms[form].fields[i], m)],
       feedback |-> Console!ValueOr(m, "feedback", Console!Empty)]
<1>1. Console!PageOf(form, url) = {page}
  BY DEF Console!PageOf
<1>2. /\ page.path = url.path /\ page.scope = Console!ScopeOf(m)
      /\ page.return_to = Console!scoped_page_path(url.path, m)
      /\ page.error = Console!ValueOr(m, Console!Forms[form].error, Console!Empty)
      /\ page.fields = [i \in DOMAIN Console!Forms[form].fields |->
                         Console!ShownField(Console!Forms[form].fields[i], m)]
      /\ page.feedback = Console!ValueOr(m, "feedback", Console!Empty)
  OBVIOUS
<1> HIDE DEF page
<1> QED
  BY <1>1, <1>2, Zenon

\* The redirect of a refused form, to an address that has the parameters of a page.
LeadsTo(url, form, page, params, typed) ==
  /\ Console!ErrorRedirect(form, typed, <<page.return_to>>) =
       Console!append_query_params(url, AppendedPairs(form, typed))
  /\ \E S : url.params \in Seq(S)
  /\ OneName(url.params) /\ \A i \in DOMAIN url.params : url.params[i][1] \in PageParams
  /\ form \in Console!Scoped => url = Console!scoped_page_path(page.path, params)

\* Every refused form has one.
LEMMA RefusalBase ==
  ASSUME NEW form \in DOMAIN Console!Forms, NEW page, NEW params, NEW typed,
         MadeOf(form, page, params)
  PROVE  \E url : LeadsTo(url, form, page, params, typed)
<1> DEFINE back == page.return_to
           base == IF form \in Console!Scoped THEN Console!safe_return_to(form, <<back>>)
                   ELSE [path |-> Console!Forms[form].page, params |-> Console!Forms[form].before]
<1>1. Console!ErrorRedirect(form, typed, <<back>>) =
        Console!append_query_params(base, AppendedPairs(form, typed))
  <2>1. [i \in DOMAIN Console!Forms[form].fields |->
           <<Console!Forms[form].fields[i].param,
             Console!CarriedText(Console!Forms[form].fields[i].how, typed[i])>>] =
        [i \in DOMAIN Console!Forms[form].fields |->
           <<Console!Forms[form].fields[i].param, Carried(form, typed)[i]>>]
    BY DEF Carried
  <2> QED
    BY <2>1 DEF Console!ErrorRedirect, AppendedPairs
<1>2. CASE form \in Console!Scoped
  <2>1. back.path = page.path
    BY ScopedAddress DEF MadeOf
  <2>2. base = back
    BY <1>2, <2>1 DEF Console!safe_return_to, MadeOf
  <2>3. /\ \E S : back.params \in Seq(S)
        /\ OneName(back.params)
        /\ \A k \in DOMAIN back.params : \E i \in 1..3 : back.params[k] = ScopePairs(page.scope)[i]
    BY ScopedAddress DEF MadeOf
  <2>4. \A i \in 1..3 : ScopePairs(page.scope)[i][1] \in PageParams
    <3>1. /\ ScopePairs(page.scope)[1][1] = "region" /\ ScopePairs(page.scope)[2][1] = "account_id"
          /\ ScopePairs(page.scope)[3][1] = "prefix"
      BY DEF ScopePairs
    <3> QED
      BY <3>1 DEF PageParams
  <2>5. \A k \in DOMAIN back.params : back.params[k][1] \in PageParams
    BY <2>3, <2>4
  <2> HIDE DEF base, back
  <2>6. LeadsTo(base, form, page, params, typed)
    BY <1>1, <1>2, <2>2, <2>3, <2>5 DEF back, LeadsTo, MadeOf
  <2> QED
    BY <2>6
<1>3. CASE form \notin Console!Scoped
  <2>1. base.params = Console!Forms[form].before
    BY <1>3
  <2>2. FormShape(Console!Forms[form])
    BY FormsHaveShape
  <2> HIDE DEF base
  <2>3. LeadsTo(base, form, page, params, typed)
    BY <1>1, <1>3, <2>1, <2>2 DEF FormShape, LeadsTo
  <2> QED
    BY <2>3
<1> QED
  BY <1>2, <1>3

\* The scope that an address carries is the scope of the page at it.
LEMMA ScopeKept ==
  ASSUME NEW path, NEW params, NEW m,
         Console!ScopeOf(params).region # Console!Empty,
         Console!ScopeOf(params).account_id # Console!Empty,
         LET url == Console!scoped_page_path(path, params) IN
           /\ \A i \in DOMAIN url.params :
                url.params[i][1] \in DOMAIN m /\ m[url.params[i][1]] = url.params[i][2]
           /\ \A n \in PageParams : n \in DOMAIN m => \E i \in DOMAIN url.params : url.params[i][1] = n
  PROVE  Console!ScopeOf(m) = Console!ScopeOf(params)
<1> DEFINE scope == Console!ScopeOf(params)
           url == Console!scoped_page_path(path, params)
           s == ScopePairs(scope)
           p == url.params
<1>1. /\ \A k \in DOMAIN p : \E i \in 1..3 : p[k] = s[i]
      /\ \A i \in 1..3 : s[i][2] # Console!Empty => \E k \in DOMAIN p : p[k] = s[i]
      /\ \A k \in DOMAIN p : p[k][2] # Console!Empty
  BY ScopedAddress
<1>2. /\ s[1][1] = "region" /\ s[1][2] = scope.region
      /\ s[2][1] = "account_id" /\ s[2][2] = scope.account_id
      /\ s[3][1] = "prefix" /\ s[3][2] = scope.prefix
  BY DEF ScopePairs
<1>3. scope = [region |-> scope.region, account_id |-> scope.account_id, prefix |-> scope.prefix]
  BY DEF Console!ScopeOf
<1>4. \A k \in DOMAIN p : p[k][1] \in DOMAIN m /\ m[p[k][1]] = p[k][2]
  OBVIOUS
<1>5. \A n \in PageParams : n \in DOMAIN m => \E i \in DOMAIN p : p[i][1] = n
  OBVIOUS
<1> HIDE DEF scope, url, s, p
<1>6. ASSUME NEW i \in 1..3, s[i][2] # Console!Empty
      PROVE  s[i][1] \in DOMAIN m /\ m[s[i][1]] = s[i][2]
  BY <1>1, <1>4, <1>6
<1>7. "region" \in DOMAIN m /\ m["region"] = scope.region
  BY <1>2, <1>6 DEF scope
<1>8. "account_id" \in DOMAIN m /\ m["account_id"] = scope.account_id
  BY <1>2, <1>6 DEF scope
<1>9. CASE scope.prefix # Console!Empty
  <2>1. "prefix" \in DOMAIN m /\ m["prefix"] = scope.prefix
    BY <1>2, <1>6, <1>9
  <2> QED
    BY <1>3, <1>7, <1>8, <2>1 DEF Console!ScopeOf, Console!ValueOr, scope
<1>10. CASE scope.prefix = Console!Empty
  <2>1. "prefix" \notin DOMAIN m
    <3> SUFFICES ASSUME "prefix" \in DOMAIN m PROVE FALSE
      OBVIOUS
    <3>1. PICK k \in DOMAIN p : p[k][1] = "prefix"
      BY <1>5 DEF PageParams
    <3>2. PICK i \in 1..3 : p[k] = s[i]
      BY <1>1
    <3>3. i \in {1, 2, 3} /\ s[i][1] = "prefix" /\ s[i][2] # Console!Empty
      BY <1>1, <3>1, <3>2
    <3>4. i = 3
      BY <1>2, <3>3
    <3> QED
      BY <1>2, <1>10, <3>3, <3>4
  <2> QED
    BY <1>3, <1>7, <1>8, <1>10, <2>1 DEF Console!ScopeOf, Console!ValueOr, scope
<1> QED
  BY <1>9, <1>10

\* A refused form comes back: the message, the page it was on, and what was typed.
ReturnedAs(form, page, typed, after) ==
  /\ FormPage(form, after)
  /\ after.error # Console!Empty /\ after.feedback = Console!Empty
  /\ form \in Console!Scoped /\ page.scope.region # Console!Empty
       /\ page.scope.account_id # Console!Empty => after.scope = page.scope
  /\ after.fields = Console!ComesBack(form, after, typed)

\* The two defaults that stand for the page's own region and account are not the same.
LEMMA DefaultsApart == Console!PageRegion # Console!PageAccount
<1>1. Console!PageRegion.core = "region" /\ Console!PageAccount.core = "account_id"
  BY DEF Console!PageRegion, Console!PageAccount
<1> QED
  BY <1>1

\* The page after a refusal.
LEMMA RefusedReturns ==
  ASSUME NEW form \in DOMAIN Console!Forms, NEW page, FormPage(form, page), NEW typed,
         DOMAIN typed = DOMAIN Console!Forms[form].fields
  PROVE  \E after : /\ Console!PageOf(form, Console!ErrorRedirect(form, typed, <<page.return_to>>)) = {after}
                    /\ ReturnedAs(form, page, typed, after)
<1> DEFINE fields == Console!Forms[form].fields
           to == Console!ErrorRedirect(form, typed, <<page.return_to>>)
<1>1. PICK params : MadeOf(form, page, params)
  BY DEF FormPage
<1>2. PICK url : LeadsTo(url, form, page, params, typed)
  BY <1>1, RefusalBase
<1>3. /\ to = Console!append_query_params(url, AppendedPairs(form, typed))
      /\ \E S : url.params \in Seq(S)
      /\ OneName(url.params) /\ \A i \in DOMAIN url.params : url.params[i][1] \in PageParams
      /\ form \in Console!Scoped => url = Console!scoped_page_path(page.path, params)
  BY <1>2 DEF LeadsTo
<1> HIDE DEF to, fields
<1>4. PICK m :
        /\ Console!QueryParams(to) = {m}
        /\ Answering(m, form, typed)
        /\ \A i \in DOMAIN url.params :
             url.params[i][1] \in DOMAIN m /\ m[url.params[i][1]] = url.params[i][2]
        /\ \A n \in PageParams : n \in DOMAIN m => \E i \in DOMAIN url.params : url.params[i][1] = n
  BY <1>3, RefusalAnswered
<1>5. PICK after :
        /\ Console!PageOf(form, to) = {after}
        /\ after.path = to.path /\ after.scope = Console!ScopeOf(m)
        /\ after.return_to = Console!scoped_page_path(to.path, m)
        /\ after.error = Console!ValueOr(m, Console!Forms[form].error, Console!Empty)
        /\ after.fields = [i \in DOMAIN fields |-> Console!ShownField(fields[i], m)]
        /\ after.feedback = Console!ValueOr(m, "feedback", Console!Empty)
  BY <1>4, PageIs DEF fields
<1>6. to.path = url.path
  BY <1>3 DEF Console!append_query_params
<1>7. form \in Console!Scoped => to.path \in Console!OwnPaths(form)
  BY <1>1, <1>3, <1>6, ScopedAddress DEF MadeOf
<1>8. FormPage(form, after)
  BY <1>5, <1>7 DEF FormPage, MadeOf
<1>9. after.error # Console!Empty /\ after.feedback = Console!Empty
  BY <1>4, <1>5 DEF Answering, Console!Empty, Console!Typed, Console!NoText
<1>10. ASSUME form \in Console!Scoped, page.scope.region # Console!Empty,
             page.scope.account_id # Console!Empty
      PROVE  after.scope = page.scope
  <2>1. url = Console!scoped_page_path(page.path, params)
    BY <1>3, <1>10
  <2> QED
    BY <1>1, <1>4, <1>5, <1>10, <2>1, ScopeKept DEF MadeOf
<1>11. ASSUME NEW i \in DOMAIN fields
       PROVE  Console!ShownField(fields[i], m) = Console!ComesBack(form, after, typed)[i]
  <2>1. /\ Console!ValueOr(m, fields[i].param, Console!Empty) = Carried(form, typed)[i]
        /\ Carried(form, typed)[i] =
             CASE form \in Console!Forgetful -> Console!Empty
               [] form \notin Console!Forgetful /\ fields[i].how = "checkbox" ->
                    IF Console!trim(typed[i]) = Console!On THEN Console!On ELSE Console!Empty
               [] form \notin Console!Forgetful /\ fields[i].how = "as_typed" -> typed[i]
               [] OTHER -> Console!trim(typed[i])
    <3>1. Console!ValueOr(m, fields[i].param, Console!Empty) = Carried(form, typed)[i]
      BY <1>4 DEF Answering, fields
    <3>2. i \in DOMAIN Console!Forms[form].fields
      BY DEF fields
    <3>3. Carried(form, typed)[i] = Console!CarriedText(fields[i].how, typed[i])
      BY <3>2 DEF Carried, fields
    <3>4. PICK text : text = typed[i]
      OBVIOUS
    <3>5. Console!CarriedText(fields[i].how, text) =
            CASE form \in Console!Forgetful -> Console!Empty
              [] form \notin Console!Forgetful /\ fields[i].how = "checkbox" ->
                   IF Console!trim(text) = Console!On THEN Console!On ELSE Console!Empty
              [] form \notin Console!Forgetful /\ fields[i].how = "as_typed" -> text
              [] OTHER -> Console!trim(text)
      BY <3>2, FieldsCarried DEF fields
    <3> QED
      BY <3>1, <3>3, <3>4, <3>5
  <2>2. i \in DOMAIN typed
    BY DEF fields
  <2> DEFINE text == Carried(form, typed)[i]
             kept == /\ text # Console!Empty
                     /\ fields[i].param \in DOMAIN Console!FixedValues =>
                          text.core \in Console!FixedValues[fields[i].param]
             default == CASE fields[i].default = Console!PageRegion -> after.scope.region
                          [] fields[i].default = Console!PageAccount -> after.scope.account_id
                          [] OTHER -> fields[i].default
  <2>3. Console!ShownField(fields[i], m) = IF ~kept THEN default ELSE text
    BY <1>5, <2>1 DEF Console!ShownField
  <2>4. Console!PageRegion # Console!PageAccount
    BY DefaultsApart
  <2>5. Console!ComesBack(form, after, typed)[i] =
          CASE kept -> text
            [] ~kept /\ fields[i].default = Console!PageRegion -> after.scope.region
            [] ~kept /\ fields[i].default = Console!PageAccount -> after.scope.account_id
            [] OTHER -> fields[i].default
    BY <2>1, <2>2 DEF Console!ComesBack, fields
  <2> HIDE DEF text, kept
  <2> QED
    BY <2>3, <2>4, <2>5
<1>12. after.fields = Console!ComesBack(form, after, typed)
  <2>1. Console!ComesBack(form, after, typed) =
          [i \in DOMAIN fields |-> Console!ComesBack(form, after, typed)[i]]
    BY DEF Console!ComesBack, fields
  <2> QED
    BY <1>5, <1>11, <2>1
<1> QED
  BY <1>5, <1>8, <1>9, <1>10, <1>12 DEF ReturnedAs, to

\* The page after a form is done has no message of a refusal.
LEMMA DoneReturns ==
  ASSUME NEW form \in DOMAIN Console!Forms
  PROVE  \E after : /\ Console!PageOf(form, Console!feedback_redirect(form)) = {after}
                    /\ after.error = Console!Empty
<1> DEFINE before == Console!Forms[form].before
           error == Console!Forms[form].error
           url == [path |-> Console!DonePage(form),
                   params |-> IF form = "update_managed_policy" THEN <<>> ELSE before]
           added == << <<"feedback_kind", Console!Typed("success")>>, <<"feedback", Console!Typed("done")>> >>
           A == {added[1], added[2]}
<1>1. Console!feedback_redirect(form) = Console!append_query_params(url, added)
  BY DEF Console!feedback_redirect
<1>2. FormShape(Console!Forms[form])
  BY FormsHaveShape
<1>3. url.params = <<>> \/ url.params = before
  OBVIOUS
<1>4. added \in Seq(A) /\ DOMAIN added = {1, 2} /\ added[1][1] = "feedback_kind" /\ added[2][1] = "feedback"
  OBVIOUS
<1> HIDE DEF added, url, A
<1>5. PICK B : url.params \in Seq(B)
  <2>1. PICK C : before \in Seq(C)
    BY <1>2 DEF FormShape
  <2>2. <<>> \in Seq(C)
    OBVIOUS
  <2> QED
    BY <1>3, <2>1, <2>2
<1>6. OneName(url.params) /\ \A i \in DOMAIN url.params : url.params[i][1] \in PageParams
  BY <1>2, <1>3 DEF FormShape, OneName
<1>7. added \in Seq(A \union B) /\ url.params \in Seq(A \union B)
  BY <1>4, <1>5, LargerSet
<1>8. OneName(added)
  BY <1>4 DEF OneName
<1>9. \A i \in DOMAIN url.params, j \in DOMAIN added : url.params[i][1] # added[j][1]
  BY <1>4, <1>6 DEF PageParams
<1>10. PICK m : /\ Console!QueryParams(Console!append_query_params(url, added)) = {m}
                /\ Appended(m, url.params, added)
  BY <1>6, <1>7, <1>8, <1>9, Redirected
<1>11. error \notin DOMAIN m
  <2> SUFFICES ASSUME error \in DOMAIN m PROVE FALSE
    OBVIOUS
  <2>1. \/ \E i \in DOMAIN url.params : url.params[i][1] = error
        \/ \E i \in DOMAIN added : added[i][1] = error
    BY <1>10 DEF Appended
  <2>2. error \notin PageParams \union {"feedback", "feedback_kind"}
    BY <1>2 DEF FormShape
  <2> HIDE DEF error
  <2> QED
    BY <1>4, <1>6, <2>1, <2>2
<1>12. PICK after : /\ Console!PageOf(form, Console!feedback_redirect(form)) = {after}
                    /\ after.error = Console!ValueOr(m, error, Console!Empty)
  <2> DEFINE to == Console!feedback_redirect(form)
  <2>1. Console!QueryParams(to) = {m}
    BY <1>1, <1>10
  <2> HIDE DEF error, to
  <2>2. PICK page :
          /\ Console!PageOf(form, to) = {page}
          /\ page.path = to.path /\ page.scope = Console!ScopeOf(m)
          /\ page.return_to = Console!scoped_page_path(to.path, m)
          /\ page.error = Console!ValueOr(m, Console!Forms[form].error, Console!Empty)
          /\ page.fields = [i \in DOMAIN Console!Forms[form].fields |->
                             Console!ShownField(Console!Forms[form].fields[i], m)]
          /\ page.feedback = Console!ValueOr(m, "feedback", Console!Empty)
    BY <2>1, PageIs
  <2> QED
    BY <2>2 DEF error, to
<1> QED
  BY <1>11, <1>12 DEF Console!ValueOr

\* What a form leads to, refused or done.
LEMMA Submitted ==
  ASSUME NEW form \in DOMAIN Console!Forms, NEW page, FormPage(form, page), NEW typed,
         DOMAIN typed = DOMAIN Console!Forms[form].fields, NEW conflict
  PROVE  LET next == Console!Submit(form, page, typed, conflict)
         IN  IF Console!Refused(form, typed, conflict)
               THEN \E after : next = {after} /\ ReturnedAs(form, page, typed, after)
               ELSE \E after : next = {after} /\ after.error = Console!Empty
<1>1. CASE Console!Refused(form, typed, conflict)
  <2>1. Console!Submit(form, page, typed, conflict) =
          Console!PageOf(form, Console!ErrorRedirect(form, typed, <<page.return_to>>))
    BY <1>1 DEF Console!Submit
  <2> QED
    BY <1>1, <2>1, RefusedReturns
<1>2. CASE ~Console!Refused(form, typed, conflict)
  <2>1. Console!Submit(form, page, typed, conflict) =
          Console!PageOf(form, Console!feedback_redirect(form))
    BY <1>2 DEF Console!Submit
  <2> QED
    BY <1>2, <2>1, DoneReturns
<1> QED
  BY <1>1, <1>2

\* Two times in a row a form comes back as it should.
LEMMA FormsReturn ==
  ASSUME NEW form \in DOMAIN Console!Forms, NEW url, NEW first, NEW second, NEW conflict,
         DOMAIN first = DOMAIN Console!Forms[form].fields,
         DOMAIN second = DOMAIN Console!Forms[form].fields,
         form \in Console!Scoped => url.path \in Console!OwnPaths(form)
  PROVE  Console!FormsComeBack(form, url, first, second, conflict)
<1> DEFINE Whole(scope) == scope.region # Console!Empty /\ scope.account_id # Console!Empty
           Good(before, typed, after) ==
             IF Console!Refused(form, typed, conflict)
               THEN /\ after # {}
                    /\ \A page \in after :
                         /\ page.error # Console!Empty /\ page.feedback = Console!Empty
                         /\ form \in Console!Scoped /\ Whole(before.scope) => page.scope = before.scope
                         /\ page.fields = Console!ComesBack(form, page, typed)
               ELSE after # {} /\ \A page \in after : page.error = Console!Empty
<1>1. ASSUME NEW page, FormPage(form, page), NEW typed,
             DOMAIN typed = DOMAIN Console!Forms[form].fields
      PROVE  /\ Good(page, typed, Console!Submit(form, page, typed, conflict))
             /\ Console!Refused(form, typed, conflict) =>
                  \A after \in Console!Submit(form, page, typed, conflict) : FormPage(form, after)
  <2>1. CASE Console!Refused(form, typed, conflict)
    <3>1. PICK after : /\ Console!Submit(form, page, typed, conflict) = {after}
                       /\ ReturnedAs(form, page, typed, after)
      BY <1>1, <2>1, Submitted
    <3> QED
      BY <2>1, <3>1 DEF ReturnedAs
  <2>2. CASE ~Console!Refused(form, typed, conflict)
    <3>1. PICK after : /\ Console!Submit(form, page, typed, conflict) = {after}
                       /\ after.error = Console!Empty
      BY <1>1, <2>2, Submitted
    <3> QED
      BY <2>2, <3>1
  <2> QED
    BY <2>1, <2>2
<1> HIDE DEF Good
<1>2. ASSUME NEW start \in Console!PageOf(form, url)
      PROVE  FormPage(form, start)
  <2>1. PICK m \in Console!QueryParams(url) :
          start = [path |-> url.path, scope |-> Console!ScopeOf(m),
                   return_to |-> Console!scoped_page_path(url.path, m),
                   error |-> Console!ValueOr(m, Console!Forms[form].error, Console!Empty),
                   fields |-> [i \in DOMAIN Console!Forms[form].fields |->
                                 Console!ShownField(Console!Forms[form].fields[i], m)],
                   feedback |-> Console!ValueOr(m, "feedback", Console!Empty)]
    BY <1>2 DEF Console!PageOf
  <2>2. start.path = url.path /\ start.scope = Console!ScopeOf(m)
        /\ start.return_to = Console!scoped_page_path(url.path, m)
    BY <2>1
  <2>3. MadeOf(form, start, m)
    BY <2>2 DEF MadeOf
  <2> QED
    BY <2>3 DEF FormPage
<1>3. ASSUME NEW start \in Console!PageOf(form, url)
      PROVE  LET next == Console!Submit(form, start, first, conflict)
             IN  /\ Good(start, first, next)
                 /\ Console!Refused(form, first, conflict) =>
                      \A page \in next : Good(page, second, Console!Submit(form, page, second, conflict))
  BY <1>1, <1>2, <1>3
<1> QED
  BY <1>3 DEF Console!FormsComeBack, Good

\* For every form of the console that is typed into, every page it is on, and whatever is
\* typed: a refused form comes back with its message, on its page, with what was typed, and
\* so again when it is refused again; the forms that send a message and that make an access
\* key come back empty instead; one that is done has no message left.
THEOREM RefusedFormsComeBackAlways == InputsSpec => []RefusedFormsComeBack
<1> DEFINE Kind == input.kind = "form" => input \in FormInputs
<1>1. Kind => RefusedFormsComeBack
  BY FormAssumption, FormsReturn DEF RefusedFormsComeBack
<1>2. InputsInit => Kind
  BY KindAssumption DEF InputsInit, NoInput
<1>3. ASSUME Kind, [InputsNext]_<<policy, input>>
      PROVE  Kind'
  BY <1>3 DEF InputsNext
<1> QED
  BY <1>1, <1>2, <1>3, PTL DEF InputsSpec
================================================================================
