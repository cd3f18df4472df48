------------------------- MODULE RequestPipelineProofs -------------------------
(***************************************************************************)
(* DenyStands and AllowGrounded for every set of clients, users, policies  *)
(* and documents, and whatever IAM changes between a request's steps: the  *)
(* proof never looks into IamNext.                                         *)
(***************************************************************************)
EXTENDS RequestPipeline, TLAPS

\* A request record has the fields the decision reads and writes.
HasFields(r) ==
  {"user", "service", "inlineResult", "resourceResult", "acting", "denying", "allowing"}
    \subseteq DOMAIN r

\* A source that denied all along denies now; one that allows now allowed once.
NotesCurrent(c) ==
  /\ \A s \in req[c].denying : Denies(Tables, s, req[c])
  /\ \A s \in Sources : Allows(Tables, s, req[c]) => s \in req[c].allowing

\* What was read from a source agrees with the notes about it.
ReadAgrees(r, source, result) ==
  /\ source \in r.denying => result = "Denied"
  /\ result = "Allowed" => r.allowing # {}

RequestInv(c) ==
  /\ phase[c] # "idle" => HasFields(req[c]) /\ req[c].denying \subseteq Sources
  /\ Undecided(c) => NotesCurrent(c)
  /\ phase[c] \in {"read_inline", "read_managed"} =>
       ReadAgrees(req[c], "resource", req[c].resourceResult)
  /\ phase[c] = "read_managed" => ReadAgrees(req[c], "inline", req[c].inlineResult)
  /\ Mode = "enforce" /\ phase[c] = "perform" =>
       req[c].denying = {} /\ req[c].allowing # {}

\* The inductive invariant.
DecisionInv ==
  /\ DOMAIN phase = Clients
  /\ DOMAIN req = Clients
  /\ \A c \in Clients : RequestInv(c)

--------------------------------------------------------------------------------
\* EvaluateDocuments: a document that denies or does not parse decides, and only a
\* document that allows makes it Allowed.
LEMMA EvaluationOfDocuments ==
  ASSUME NEW docs
  PROVE  /\ "deny" \in docs \/ "invalid" \in docs => EvaluateDocuments(docs) = "Denied"
         /\ EvaluateDocuments(docs) = "Allowed" => "allow" \in docs
  <1>1. Effect("deny") = "Denied"
    BY DEF Effect
  <1>2. ASSUME NEW d, Effect(d) = "Allowed" PROVE d = "allow"
    BY <1>2 DEF Effect
  <1>3. "deny" \in docs => "Denied" \in {Effect(d) : d \in docs}
    BY <1>1
  <1>4. "Allowed" \in {Effect(d) : d \in docs} => "allow" \in docs
    BY <1>2
  <1> QED
    BY <1>3, <1>4 DEF EvaluateDocuments, combine_policy_results

\* What the three reads return agrees with what the tables say.
LEMMA ReadsAgree ==
  ASSUME NEW r
  PROVE  /\ Denies(Tables, "inline", r) =>
              evaluate_principal_inline_policies(r.user) = "Denied"
         /\ evaluate_principal_inline_policies(r.user) = "Allowed" =>
              Allows(Tables, "inline", r)
         /\ Denies(Tables, "managed", r) => evaluate_managed_policies(r.user) = "Denied"
         /\ evaluate_managed_policies(r.user) = "Allowed" => Allows(Tables, "managed", r)
         /\ Denies(Tables, "resource", r) => ResourceResult(r.service) = "Denied"
         /\ ResourceResult(r.service) = "Allowed" => Allows(Tables, "resource", r)
  <1> DEFINE I == {inline[x].doc : x \in {y \in DOMAIN inline : y[1] = r.user}}
             M == {policies[x[2]].doc : x \in {y \in DOMAIN attached : y[1] = r.user}}
  <1>1. DocumentsOf(Tables, "inline", r) = I
    BY DEF DocumentsOf, Tables
  <1>2. DocumentsOf(Tables, "managed", r) = M
    BY DEF DocumentsOf, Tables
  <1>3. DocumentsOf(Tables, "resource", r) = IF r.service = "iam" THEN {} ELSE {resource}
    BY DEF DocumentsOf, Tables
  <1>4. /\ evaluate_principal_inline_policies(r.user) = EvaluateDocuments(I)
        /\ evaluate_managed_policies(r.user) = EvaluateDocuments(M)
    BY DEF evaluate_principal_inline_policies, evaluate_managed_policies
  <1> HIDE DEF I, M
  <1>5. /\ "deny" \in I \/ "invalid" \in I => EvaluateDocuments(I) = "Denied"
        /\ EvaluateDocuments(I) = "Allowed" => "allow" \in I
    BY EvaluationOfDocuments
  <1>6. /\ "deny" \in M \/ "invalid" \in M => EvaluateDocuments(M) = "Denied"
        /\ EvaluateDocuments(M) = "Allowed" => "allow" \in M
    BY EvaluationOfDocuments
  <1>7. /\ Denies(Tables, "resource", r) => ResourceResult(r.service) = "Denied"
        /\ ResourceResult(r.service) = "Allowed" => Allows(Tables, "resource", r)
    BY <1>3 DEF Denies, Allows, ResourceResult, Effect
  <1> QED
    BY <1>1, <1>2, <1>4, <1>5, <1>6, <1>7 DEF Denies, Allows

\* What a request notes of tables t is true of them.
LEMMA NotedIsCurrent ==
  ASSUME NEW t, NEW r, HasFields(r), r.denying \subseteq Sources
  PROVE  LET n == Noted(t, r) IN
         /\ HasFields(n) /\ n.denying \subseteq Sources
         /\ \A s \in n.denying : Denies(t, s, n)
         /\ \A s \in Sources : Allows(t, s, n) => s \in n.allowing
         /\ n.denying \subseteq r.denying
         /\ r.allowing \subseteq n.allowing
         /\ n.inlineResult = r.inlineResult
         /\ n.resourceResult = r.resourceResult
  <1> DEFINE n == Noted(t, r)
             D == {s \in r.denying : Denies(t, s, r)}
             A == r.allowing \union {s \in Sources : Allows(t, s, r)}
  <1>1. n = [r EXCEPT !.denying = D, !.allowing = A]
    BY DEF Noted
  <1> HIDE DEF n, D, A
  <1>2. /\ DOMAIN n = DOMAIN r
        /\ n.user = r.user /\ n.service = r.service
        /\ n.inlineResult = r.inlineResult /\ n.resourceResult = r.resourceResult
        /\ n.denying = D /\ n.allowing = A
    BY <1>1 DEF HasFields
  <1>3. \A s : DocumentsOf(t, s, n) = DocumentsOf(t, s, r)
    BY <1>2 DEF DocumentsOf
  <1>4. \A s : Denies(t, s, n) = Denies(t, s, r) /\ Allows(t, s, n) = Allows(t, s, r)
    BY <1>3 DEF Denies, Allows
  <1>5. HasFields(n)
    BY <1>2 DEF HasFields
  <1> QED
    BY <1>2, <1>4, <1>5 DEF n, D, A

--------------------------------------------------------------------------------
\* Init establishes the invariant.
LEMMA InitDecisionInv == Init => DecisionInv
  BY DEF Init, DecisionInv, RequestInv, Undecided

\* A change of IAM's tables or of the resource's policy keeps the invariant: the
\* requests that are not decided note it.
LEMMA ChangeKeepsDecisionInv ==
  ASSUME DecisionInv, NoteChange, UNCHANGED phase
  PROVE  DecisionInv'
  <1>1. DOMAIN phase' = Clients /\ DOMAIN req' = Clients
    BY DEF DecisionInv, NoteChange
  <1>2. ASSUME NEW c \in Clients PROVE RequestInv(c)'
    <2>1. RequestInv(c) /\ phase'[c] = phase[c] /\ Undecided(c)' = Undecided(c)
      BY DEF DecisionInv, Undecided
    <2>2. CASE Undecided(c)
      <3>1. req'[c] = Noted(Tables', req[c])
        BY <2>2 DEF NoteChange
      <3>2. HasFields(req[c]) /\ req[c].denying \subseteq Sources
        BY <2>1, <2>2 DEF RequestInv, Undecided
      <3> DEFINE n == Noted(Tables', req[c])
      <3>3. /\ HasFields(n) /\ n.denying \subseteq Sources
            /\ \A s \in n.denying : Denies(Tables', s, n)
            /\ \A s \in Sources : Allows(Tables', s, n) => s \in n.allowing
            /\ n.denying \subseteq req[c].denying
            /\ req[c].allowing \subseteq n.allowing
            /\ n.inlineResult = req[c].inlineResult
            /\ n.resourceResult = req[c].resourceResult
        BY <3>2, NotedIsCurrent
      <3> HIDE DEF n
      <3>4. req'[c] = n
        BY <3>1 DEF n
      <3>5. NotesCurrent(c)'
        BY <3>3, <3>4 DEF NotesCurrent
      <3>6. /\ phase[c] # "idle" => HasFields(req[c])' /\ req'[c].denying \subseteq Sources
            /\ phase[c] # "perform"
        BY <2>2, <3>3, <3>4 DEF Undecided, HasFields
      <3>7. ASSUME NEW source, NEW result, ReadAgrees(req[c], source, result)
            PROVE  ReadAgrees(n, source, result)
        BY <3>3, <3>7 DEF ReadAgrees
      <3>8. /\ phase[c] \in {"read_inline", "read_managed"} =>
                 ReadAgrees(n, "resource", n.resourceResult)
            /\ phase[c] = "read_managed" => ReadAgrees(n, "inline", n.inlineResult)
        BY <2>1, <3>3, <3>7 DEF RequestInv
      <3> QED
        BY <2>1, <3>4, <3>5, <3>6, <3>8 DEF RequestInv, ReadAgrees, HasFields
    <2>3. CASE ~Undecided(c)
      <3>1. req'[c] = req[c]
        BY <2>3 DEF NoteChange
      <3> QED
        BY <2>1, <2>3, <3>1 DEF RequestInv, ReadAgrees, HasFields, Undecided
    <2> QED
      BY <2>2, <2>3
  <1> QED
    BY <1>1, <1>2 DEF DecisionInv

\* A step of request c leaves the other requests, and what their notes are about, alone.
LEMMA StepKeepsOthers ==
  ASSUME DecisionInv, NEW c \in Clients, NEW next, NEW r, Advance(c, next, r)
  PROVE  /\ DOMAIN phase' = Clients /\ DOMAIN req' = Clients
         /\ phase'[c] = next /\ req'[c] = r
         /\ Tables' = Tables
         /\ \A d \in Clients : d # c => RequestInv(d)'
  <1>1. /\ DOMAIN phase' = Clients /\ DOMAIN req' = Clients
        /\ phase'[c] = next /\ req'[c] = r
        /\ \A d \in Clients : d # c => phase'[d] = phase[d] /\ req'[d] = req[d]
    BY DEF DecisionInv, Advance
  <1>2. Tables' = Tables
    BY DEF Advance, iamVars, Tables
  <1>3. ASSUME NEW d \in Clients, d # c PROVE RequestInv(d)'
    <2>1. RequestInv(d) /\ phase'[d] = phase[d] /\ req'[d] = req[d]
      BY <1>1, <1>3 DEF DecisionInv
    <2>2. NotesCurrent(d) => NotesCurrent(d)'
      BY <1>2, <2>1 DEF NotesCurrent
    <2> QED
      BY <2>1, <2>2 DEF RequestInv, ReadAgrees, HasFields, Undecided
  <1> QED
    BY <1>1, <1>2, <1>3

\* An answer keeps the invariant.
LEMMA AnswerKeepsDecisionInv ==
  ASSUME DecisionInv, NEW c \in Clients, Answer(c)
  PROVE  DecisionInv'
  <1>1. Advance(c, "idle", NoLocals)
    BY DEF Answer
  <1>2. /\ DOMAIN phase' = Clients /\ DOMAIN req' = Clients
        /\ phase'[c] = "idle"
        /\ \A d \in Clients : d # c => RequestInv(d)'
    BY <1>1, StepKeepsOthers
  <1>3. RequestInv(c)'
    BY <1>2 DEF RequestInv, Undecided
  <1> QED
    BY <1>2, <1>3 DEF DecisionInv

\* So does a step of c before the decision, if its new record keeps the notes and what
\* it has read agrees with them.
LEMMA ReadKeepsDecisionInv ==
  ASSUME DecisionInv, NEW c \in Clients, NEW next, NEW r, Advance(c, next, r),
         next \notin {"idle", "perform"},
         HasFields(r), r.denying \subseteq Sources,
         \A s \in r.denying : Denies(Tables, s, r),
         \A s \in Sources : Allows(Tables, s, r) => s \in r.allowing,
         next \in {"read_inline", "read_managed"} =>
           ReadAgrees(r, "resource", r.resourceResult),
         next = "read_managed" => ReadAgrees(r, "inline", r.inlineResult)
  PROVE  DecisionInv'
  <1>1. /\ DOMAIN phase' = Clients /\ DOMAIN req' = Clients
        /\ phase'[c] = next /\ req'[c] = r
        /\ Tables' = Tables
        /\ \A d \in Clients : d # c => RequestInv(d)'
    BY StepKeepsOthers
  <1>2. NotesCurrent(c)'
    BY <1>1 DEF NotesCurrent
  <1>3. RequestInv(c)'
    BY <1>1, <1>2 DEF RequestInv, Undecided, HasFields, ReadAgrees
  <1> QED
    BY <1>1, <1>3 DEF DecisionInv

\* Setting a field that no source depends on keeps a request's notes.
LEMMA SetFieldKeepsNotes ==
  ASSUME NEW c \in Clients, HasFields(req[c]), req[c].denying \subseteq Sources,
         NotesCurrent(c), NEW r, DOMAIN r = DOMAIN req[c],
         r.user = req[c].user, r.service = req[c].service,
         r.denying = req[c].denying, r.allowing = req[c].allowing
  PROVE  /\ HasFields(r) /\ r.denying \subseteq Sources
         /\ \A s \in r.denying : Denies(Tables, s, r)
         /\ \A s \in Sources : Allows(Tables, s, r) => s \in r.allowing
  <1>1. \A s : DocumentsOf(Tables, s, r) = DocumentsOf(Tables, s, req[c])
    BY DEF DocumentsOf
  <1> QED
    BY <1>1 DEF NotesCurrent, Denies, Allows, HasFields

\* authenticate_request decides nothing.
LEMMA AuthenticateKeepsDecisionInv ==
  ASSUME DecisionInv, NEW c \in Clients, authenticate_request(c)
  PROVE  DecisionInv'
  <1>1. PICK k \in KeyIds, service \in Services :
          Advance(c, "resolve_identity", Noted(Tables,
            [user |-> keys[k].user, service |-> service,
             inlineResult |-> "NotApplicable", resourceResult |-> "NotApplicable",
             owner |-> users[keys[k].user].born, acting |-> 0,
             denying |-> Sources, allowing |-> {}]))
    BY DEF authenticate_request
  <1> DEFINE r == [user |-> keys[k].user, service |-> service,
                   inlineResult |-> "NotApplicable", resourceResult |-> "NotApplicable",
                   owner |-> users[keys[k].user].born, acting |-> 0,
                   denying |-> Sources, allowing |-> {}]
             n == Noted(Tables, r)
  <1>2. HasFields(r) /\ r.denying \subseteq Sources
    BY DEF HasFields
  <1>3. Advance(c, "resolve_identity", n)
    BY <1>1
  <1> HIDE DEF r
  <1>4. /\ HasFields(n) /\ n.denying \subseteq Sources
        /\ \A s \in n.denying : Denies(Tables, s, n)
        /\ \A s \in Sources : Allows(Tables, s, n) => s \in n.allowing
    BY <1>2, NotedIsCurrent
  <1> HIDE DEF n
  <1> QED
    BY <1>3, <1>4, ReadKeepsDecisionInv

\* resolve_identity decides nothing.
LEMMA ResolveIdentityKeepsDecisionInv ==
  ASSUME DecisionInv, NEW c \in Clients, resolve_identity(c)
  PROVE  DecisionInv'
  <1> DEFINE r == [req[c] EXCEPT !.acting = users[req[c].user].born]
  <1>1. /\ HasFields(req[c]) /\ req[c].denying \subseteq Sources
        /\ NotesCurrent(c)
    BY DEF DecisionInv, RequestInv, Undecided, resolve_identity
  <1>2. /\ DOMAIN r = DOMAIN req[c]
        /\ r.user = req[c].user /\ r.service = req[c].service
        /\ r.denying = req[c].denying /\ r.allowing = req[c].allowing
    BY <1>1 DEF HasFields
  <1>3. CASE Advance(c, "resolve_authorization", r)
    <2> HIDE DEF r
    <2>1. /\ HasFields(r) /\ r.denying \subseteq Sources
          /\ \A s \in r.denying : Denies(Tables, s, r)
          /\ \A s \in Sources : Allows(Tables, s, r) => s \in r.allowing
      BY <1>1, <1>2, SetFieldKeepsNotes
    <2> QED
      BY <1>3, <2>1, ReadKeepsDecisionInv
  <1>4. CASE Answer(c)
    BY <1>4, AnswerKeepsDecisionInv
  <1> QED
    BY <1>3, <1>4 DEF resolve_identity

\* resolve_authorization reads the resource policy in agreement with the notes.
LEMMA ResolveAuthorizationKeepsDecisionInv ==
  ASSUME DecisionInv, NEW c \in Clients, resolve_authorization(c)
  PROVE  DecisionInv'
  <1> DEFINE r == [req[c] EXCEPT !.resourceResult = ResourceResult(req[c].service)]
  <1>1. /\ HasFields(req[c]) /\ req[c].denying \subseteq Sources
        /\ NotesCurrent(c)
    BY DEF DecisionInv, RequestInv, Undecided, resolve_authorization
  <1>2. /\ DOMAIN r = DOMAIN req[c]
        /\ r.user = req[c].user /\ r.service = req[c].service
        /\ r.denying = req[c].denying /\ r.allowing = req[c].allowing
        /\ r.resourceResult = ResourceResult(req[c].service)
    BY <1>1 DEF HasFields
  <1>3. CASE Advance(c, "read_inline", r)
    <2> HIDE DEF r
    <2>1. /\ HasFields(r) /\ r.denying \subseteq Sources
          /\ \A s \in r.denying : Denies(Tables, s, r)
          /\ \A s \in Sources : Allows(Tables, s, r) => s \in r.allowing
      BY <1>1, <1>2, SetFieldKeepsNotes
    <2>2. /\ Denies(Tables, "resource", r) => ResourceResult(r.service) = "Denied"
          /\ ResourceResult(r.service) = "Allowed" => Allows(Tables, "resource", r)
      BY ReadsAgree
    <2>3. ReadAgrees(r, "resource", r.resourceResult)
      BY <1>2, <2>1, <2>2 DEF ReadAgrees, Sources
    <2> QED
      BY <1>3, <2>1, <2>3, ReadKeepsDecisionInv
  <1>4. CASE Answer(c)
    BY <1>4, AnswerKeepsDecisionInv
  <1> QED
    BY <1>3, <1>4 DEF resolve_authorization

\* The SELECT of the inline policies agrees with the notes.
LEMMA ReadInlineKeepsDecisionInv ==
  ASSUME DecisionInv, NEW c \in Clients, ReadInline(c)
  PROVE  DecisionInv'
  <1>1. PICK result :
          /\ result = evaluate_principal_inline_policies(req[c].user) \/ result = "Denied"
          /\ Advance(c, "read_managed", [req[c] EXCEPT !.inlineResult = result])
    BY DEF ReadInline
  <1> DEFINE r == [req[c] EXCEPT !.inlineResult = result]
  <1>2. /\ HasFields(req[c]) /\ req[c].denying \subseteq Sources
        /\ NotesCurrent(c)
        /\ ReadAgrees(req[c], "resource", req[c].resourceResult)
    BY DEF DecisionInv, RequestInv, Undecided, ReadInline
  <1>3. /\ DOMAIN r = DOMAIN req[c]
        /\ r.user = req[c].user /\ r.service = req[c].service
        /\ r.denying = req[c].denying /\ r.allowing = req[c].allowing
        /\ r.resourceResult = req[c].resourceResult /\ r.inlineResult = result
    BY <1>2 DEF HasFields
  <1>4. Advance(c, "read_managed", r)
    BY <1>1
  <1> HIDE DEF r
  <1>5. /\ HasFields(r) /\ r.denying \subseteq Sources
        /\ \A s \in r.denying : Denies(Tables, s, r)
        /\ \A s \in Sources : Allows(Tables, s, r) => s \in r.allowing
    BY <1>2, <1>3, SetFieldKeepsNotes
  <1>6. /\ Denies(Tables, "inline", r) =>
             evaluate_principal_inline_policies(r.user) = "Denied"
        /\ evaluate_principal_inline_policies(r.user) = "Allowed" => Allows(Tables, "inline", r)
    BY ReadsAgree
  <1>7. ReadAgrees(r, "inline", r.inlineResult)
    BY <1>1, <1>3, <1>5, <1>6 DEF ReadAgrees, Sources
  <1>8. ReadAgrees(r, "resource", r.resourceResult)
    BY <1>2, <1>3 DEF ReadAgrees
  <1> QED
    BY <1>4, <1>5, <1>7, <1>8, ReadKeepsDecisionInv

\* The decision: in enforce mode Allowed means that one of the three results is Allowed
\* and none Denied, and the results agree with the notes.
LEMMA ReadManagedKeepsDecisionInv ==
  ASSUME DecisionInv, NEW c \in Clients, ReadManaged(c)
  PROVE  DecisionInv'
  <1>1. PICK result :
          /\ result = evaluate_managed_policies(req[c].user) \/ result = "Denied"
          /\ \/ /\ Permits(combine_policy_results(
                             {req[c].inlineResult, result, req[c].resourceResult}))
                /\ Advance(c, "perform", req[c])
             \/ Answer(c)
    BY DEF ReadManaged
  <1>2. CASE Answer(c)
    BY <1>2, AnswerKeepsDecisionInv
  <1>3. CASE /\ Permits(combine_policy_results(
                           {req[c].inlineResult, result, req[c].resourceResult}))
             /\ Advance(c, "perform", req[c])
    <2>1. /\ HasFields(req[c]) /\ req[c].denying \subseteq Sources
          /\ NotesCurrent(c)
          /\ ReadAgrees(req[c], "resource", req[c].resourceResult)
          /\ ReadAgrees(req[c], "inline", req[c].inlineResult)
      BY DEF DecisionInv, RequestInv, Undecided, ReadManaged
    <2>2. /\ Denies(Tables, "managed", req[c]) =>
               evaluate_managed_policies(req[c].user) = "Denied"
          /\ evaluate_managed_policies(req[c].user) = "Allowed" =>
               Allows(Tables, "managed", req[c])
      BY ReadsAgree
    <2>3. ReadAgrees(req[c], "managed", result)
      BY <1>1, <2>1, <2>2 DEF ReadAgrees, NotesCurrent, Sources
    <2>4. Mode = "enforce" =>
            /\ "Allowed" \in {req[c].inlineResult, result, req[c].resourceResult}
            /\ "Denied" \notin {req[c].inlineResult, result, req[c].resourceResult}
      BY <1>3 DEF Permits, combine_policy_results
    <2>5. Mode = "enforce" => req[c].denying = {} /\ req[c].allowing # {}
      BY <2>1, <2>3, <2>4 DEF ReadAgrees, Sources
    <2>6. /\ DOMAIN phase' = Clients /\ DOMAIN req' = Clients
          /\ phase'[c] = "perform" /\ req'[c] = req[c]
          /\ \A d \in Clients : d # c => RequestInv(d)'
      BY <1>3, StepKeepsOthers
    <2>7. RequestInv(c)'
      BY <2>1, <2>5, <2>6 DEF RequestInv, Undecided, HasFields
    <2> QED
      BY <2>6, <2>7 DEF DecisionInv
  <1> QED
    BY <1>1, <1>2, <1>3

\* Every step keeps the invariant.
LEMMA NextKeepsDecisionInv == DecisionInv /\ [Next]_vars => DecisionInv'
  <1> SUFFICES ASSUME DecisionInv, [Next]_vars PROVE DecisionInv'
    OBVIOUS
  <1>1. CASE IamChange
    BY <1>1, ChangeKeepsDecisionInv DEF IamChange
  <1>2. CASE ResourceChange
    BY <1>2, ChangeKeepsDecisionInv DEF ResourceChange
  <1>3. ASSUME NEW c \in Clients, route_traced(c) PROVE DecisionInv'
    <2>1. CASE authenticate_request(c)
      BY <2>1, AuthenticateKeepsDecisionInv
    <2>2. CASE resolve_identity(c)
      BY <2>2, ResolveIdentityKeepsDecisionInv
    <2>3. CASE resolve_authorization(c)
      BY <2>3, ResolveAuthorizationKeepsDecisionInv
    <2>4. CASE ReadInline(c)
      BY <2>4, ReadInlineKeepsDecisionInv
    <2>5. CASE ReadManaged(c)
      BY <2>5, ReadManagedKeepsDecisionInv
    <2>6. CASE handle_request(c) \/ Fail(c)
      BY <2>6, AnswerKeepsDecisionInv DEF handle_request, Fail
    <2> QED
      BY <1>3, <2>1, <2>2, <2>3, <2>4, <2>5, <2>6 DEF route_traced
  <1>4. CASE UNCHANGED vars
    <2>1. phase' = phase /\ req' = req /\ Tables' = Tables
      BY <1>4 DEF vars, Tables
    <2>2. \A c \in Clients : RequestInv(c) => RequestInv(c)'
      BY <2>1 DEF RequestInv, NotesCurrent, ReadAgrees, HasFields, Undecided
    <2> QED
      BY <2>1, <2>2 DEF DecisionInv
  <1> QED
    BY <1>1, <1>2, <1>3, <1>4 DEF Next

\* In enforce mode a source that denies from authentication to the decision stops the
\* request, whatever changes meanwhile, for all instances; so does an identity policy
\* that does not parse, and not a resource policy that does not.
THEOREM DenyStandsHolds == Spec => []DenyStands
  <1>1. DecisionInv => DenyStands
    BY DEF DecisionInv, RequestInv, DenyStands
  <1> QED
    BY <1>1, InitDecisionInv, NextKeepsDecisionInv, PTL DEF Spec

\* In enforce mode what is performed was allowed by some source at some time of the
\* request, for all instances.
THEOREM AllowGroundedHolds == Spec => []AllowGrounded
  <1>1. DecisionInv => AllowGrounded
    BY DEF DecisionInv, RequestInv, AllowGrounded
  <1> QED
    BY <1>1, InitDecisionInv, NextKeepsDecisionInv, PTL DEF Spec
================================================================================
