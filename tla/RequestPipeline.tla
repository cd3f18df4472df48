---------------------------- MODULE RequestPipeline ----------------------------
(***************************************************************************)
(* The way of a signed request to its handler: authenticate the key,       *)
(* resolve the principal, resolve what is asked for and the resource's own *)
(* policy, read the user's inline and then managed policies, decide, and   *)
(* perform.  Every step reads by a statement of its own, and IAM changes   *)
(* (the steps of IamStore) fall between any two of them.                   *)
(*                                                                         *)
(* Abstractions.  The signature is right.  One resource; a policy document *)
(* is what PolicyEval makes of it for the request asked: an effect, or     *)
(* "invalid".  Validation and handling are one step: the other modules     *)
(* are about them.                                                         *)
(***************************************************************************)
EXTENDS IamStore

CONSTANTS
  Clients,   \* requests under way at once
  Services,  \* the services asked, of "sqs", "sns", "iam"
  Mode       \* HIRAETH_AUTH_MODE: "enforce", "audit" or "off"

ASSUME PipelineAssumption ==
  /\ Docs \subseteq {"allow", "deny", "silent", "invalid"}
  /\ Services \subseteq {"sqs", "sns", "iam"}
  /\ Mode \in {"enforce", "audit", "off"}

VARIABLES
  resource,  \* the policy of the resource, "none", or "gone" when there is no resource
  phase,     \* phase[c] : the step request c takes next
  req        \* req[c] : what request c knows, and its history

vars == <<users, keys, inline, policies, attached, madeUsers, madePolicies, madeKeys, pc, loc,
          resource, phase, req>>

--------------------------------------------------------------------------------
Results == {"Allowed", "Denied", "NotApplicable"}
Sources == {"inline", "managed", "resource"}
Phases == {"idle", "resolve_identity", "resolve_authorization", "read_inline", "read_managed",
           "perform"}

\* user: principal_id.  The rest of the first line: results so far.  History: the users
\* that owned the key, and that the identity was resolved to; the sources that denied in
\* every state of the request so far, and those that allowed in some.
Requests ==
  [user : Nat, service : Services, inlineResult : Results, resourceResult : Results,
   owner : Nat, acting : Nat, denying : SUBSET Sources, allowing : SUBSET Sources]

PipelineTypeOK ==
  /\ resource \in Docs \union {"none", "gone"}
  /\ phase \in [Clients -> Phases]
  /\ DOMAIN req = Clients
  /\ \A c \in Clients : phase[c] # "idle" => req[c] \in Requests

--------------------------------------------------------------------------------
(* What the policies say. *)

\* What one document says of the request, when it is a policy.
Effect(doc) ==
  CASE doc = "allow" -> "Allowed" [] doc = "deny" -> "Denied" [] OTHER -> "NotApplicable"

\* The fold of PolicyEval.
combine_policy_results(results) ==
  IF "Denied" \in results THEN "Denied"
  ELSE IF "Allowed" \in results THEN "Allowed" ELSE "NotApplicable"

\* Mutant: a document that does not parse is passed over.
EvaluateParsable(docs) == combine_policy_results({Effect(d) : d \in docs})

\* One document that does not parse fails the evaluation, and authorize takes that as
\* Denied.
EvaluateDocuments(docs) ==
  IF "invalid" \in docs THEN "Denied"
  ELSE combine_policy_results({Effect(d) : d \in docs})

\* get_inline_policies_for_principal.
evaluate_principal_inline_policies(user) ==
  EvaluateDocuments({inline[x].doc : x \in {y \in DOMAIN inline : y[1] = user}})

\* The join of attachments and policies.
evaluate_managed_policies(user) ==
  EvaluateDocuments({policies[x[2]].doc : x \in {y \in DOMAIN attached : y[1] = user}})

\* A resource policy that does not parse counts as none, where an identity policy that
\* does not parse denies.  "iam" stands for requests
\* without a resource policy, SQS's CreateQueue and ListQueues too.
ResourceResult(service) == IF service = "iam" THEN "NotApplicable" ELSE Effect(resource)

\* Mutant: what no policy speaks of is allowed.
AllowByDefault(result) == Mode = "enforce" => result # "Denied"

Permits(result) == Mode = "enforce" => result = "Allowed"

--------------------------------------------------------------------------------
(* History: requests that are not decided yet note what the policies say. *)

\* The tables the decision reads.
Tables == [inline |-> inline, attached |-> attached, policies |-> policies, resource |-> resource]

\* The documents of one source, in tables t, for request r.
DocumentsOf(t, source, r) ==
  CASE source = "inline" -> {t.inline[x].doc : x \in {y \in DOMAIN t.inline : y[1] = r.user}}
    [] source = "managed" ->
         {t.policies[x[2]].doc : x \in {y \in DOMAIN t.attached : y[1] = r.user}}
    [] source = "resource" -> IF r.service = "iam" THEN {} ELSE {t.resource}

\* A deny, or an identity policy that does not parse.  Not a resource policy that does
\* not parse: resolve_authorization counts it as none, so that it can deny nothing.
Denies(t, source, r) ==
  \/ "deny" \in DocumentsOf(t, source, r)
  \/ source # "resource" /\ "invalid" \in DocumentsOf(t, source, r)

Allows(t, source, r) == "allow" \in DocumentsOf(t, source, r)

Undecided(c) == phase[c] \notin {"idle", "perform"}

Noted(t, r) ==
  [r EXCEPT !.denying = {s \in @ : Denies(t, s, r)},
            !.allowing = @ \union {s \in Sources : Allows(t, s, r)}]

NoteChange ==
  req' = [c \in Clients |-> IF Undecided(c) THEN Noted(Tables', req[c]) ELSE req[c]]

--------------------------------------------------------------------------------
(* Changes around the requests. *)

\* A statement of IamStore.
IamChange ==
  /\ IamNext
  /\ UNCHANGED <<resource, phase>>
  /\ NoteChange

\* SetQueueAttributes, SetTopicAttributes, and the deletion and creation of the resource.
ResourceChange ==
  /\ resource' \in Docs \union {"none", "gone"}
  /\ UNCHANGED <<iamVars, phase>>
  /\ NoteChange

--------------------------------------------------------------------------------
(* The steps of a request. *)

Advance(c, next, r) ==
  /\ phase' = [phase EXCEPT ![c] = next]
  /\ req' = [req EXCEPT ![c] = r]
  /\ UNCHANGED <<iamVars, resource>>

\* The request is answered, here with an error or a refusal.
Answer(c) == Advance(c, "idle", NoLocals)

\* get_secret_key: an unknown key is refused at once.
authenticate_request(c) ==
  /\ phase[c] = "idle"
  /\ \E k \in KeyIds, service \in Services :
       LET r == [user |-> keys[k].user, service |-> service,
                 inlineResult |-> "NotApplicable", resourceResult |-> "NotApplicable",
                 owner |-> users[keys[k].user].born, acting |-> 0,
                 denying |-> Sources, allowing |-> {}]
       IN  Advance(c, "resolve_identity", Noted(Tables, r))

\* get_principal by the key's principal_id.
resolve_identity(c) ==
  /\ phase[c] = "resolve_identity"
  /\ \/ /\ req[c].user \in UserIds
        /\ Advance(c, "resolve_authorization",
                   [req[c] EXCEPT !.acting = users[req[c].user].born])
     \/ /\ req[c].user \notin UserIds
        /\ Answer(c)

\* The resource and its policy; only SQS refuses a resource that is not there.
resolve_authorization(c) ==
  /\ phase[c] = "resolve_authorization"
  /\ \/ /\ req[c].service = "sqs" => resource # "gone"
        /\ Advance(c, "read_inline",
                   [req[c] EXCEPT !.resourceResult = ResourceResult(req[c].service)])
     \/ /\ req[c].service = "sqs" /\ resource = "gone"
        /\ Answer(c)

\* get_inline_policies_for_principal; a failed read counts as Denied.
ReadInline(c) ==
  /\ phase[c] = "read_inline"
  /\ \E result \in {evaluate_principal_inline_policies(req[c].user)}
                   \union (IF Faults THEN {"Denied"} ELSE {}) :
       Advance(c, "read_managed", [req[c] EXCEPT !.inlineResult = result])

\* get_managed_policies_attached_to_principal, and the decision.
ReadManaged(c) ==
  /\ phase[c] = "read_managed"
  /\ \E result \in {evaluate_managed_policies(req[c].user)}
                   \union (IF Faults THEN {"Denied"} ELSE {}) :
       LET decision == combine_policy_results(
                         {req[c].inlineResult, result, req[c].resourceResult})
       IN  \/ Permits(decision) /\ Advance(c, "perform", req[c])
           \/ ~Permits(decision) /\ Answer(c)

\* validate_request and handle_request.
handle_request(c) == phase[c] = "perform" /\ Answer(c)

\* A statement fails, the client goes away, or the process stops.
Fail(c) == Faults /\ phase[c] # "idle" /\ Answer(c)

--------------------------------------------------------------------------------
Init ==
  /\ IamInit
  /\ resource = "none"
  /\ phase = [c \in Clients |-> "idle"]
  /\ req = [c \in Clients |-> NoLocals]

route_traced(c) ==
  \/ authenticate_request(c) \/ resolve_identity(c) \/ resolve_authorization(c)
  \/ ReadInline(c) \/ ReadManaged(c) \/ handle_request(c) \/ Fail(c)

Next == IamChange \/ ResourceChange \/ \E c \in Clients : route_traced(c)

Spec == Init /\ [][Next]_vars

--------------------------------------------------------------------------------
(* Properties. *)

\* In enforce mode no request is performed while one source of policies (the user's
\* inline ones, the attached managed ones, or the resource's own) denied it from
\* authentication to the decision, nor while one of the user's own two sources held a
\* document that does not parse all that time.  A resource policy that does not parse
\* does not stop a request: it denies nothing, even where it was meant to.
DenyStands ==
  Mode = "enforce" => \A c \in Clients : phase[c] = "perform" => req[c].denying = {}

\* In enforce mode a request is performed only if some source allowed it at some time
\* between authentication and the decision.
AllowGrounded ==
  Mode = "enforce" => \A c \in Clients : phase[c] = "perform" => req[c].allowing # {}

\* A request is performed as the user that owned the key it was signed with.
ActsAsKeyOwner ==
  \A c \in Clients : phase[c] = "perform" => req[c].acting = req[c].owner
================================================================================
