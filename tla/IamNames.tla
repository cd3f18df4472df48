------------------------------- MODULE IamNames -------------------------------
(***************************************************************************)
(* Paths, names and ARNs of users and managed policies, and whom a request *)
(* that names a user, or none, is about: for the authorization and for the *)
(* handler.                                                                *)
(*                                                                         *)
(* A path or a name is the sequence of its segments between slashes: "/"   *)
(* is two empty segments, "/a/" is an empty one, "a" and an empty one, "x" *)
(* is <<"x">>.  Blanks around a text are trimmed first and left out.       *)
(***************************************************************************)
EXTENDS Naturals, Sequences

CONSTANT ColonSegments      \* the segments that have a colon in them

Nil == "nothing"      \* the empty segment
Slash == <<Nil, Nil>>
Blank == <<Nil>>

--------------------------------------------------------------------------------
(* Paths. *)

\* trim_matches('/'); of slashes alone nothing is left.
TrimSlashes(path) ==
  LET texts == {i \in DOMAIN path : path[i] # Nil}
  IN  IF texts = {} THEN Blank
      ELSE SubSeq(path, CHOOSE i \in texts : \A j \in texts : i <= j,
                        CHOOSE i \in texts : \A j \in texts : j <= i)

normalize_user_path(path) ==
  IF path \in {Blank, Slash} THEN Slash ELSE <<Nil>> \o TrimSlashes(path) \o <<Nil>>

\* The console's own.
normalize_path(path) ==
  IF path \in {Blank, Slash} THEN Slash ELSE <<Nil>> \o TrimSlashes(path) \o <<Nil>>

\* Policies (here and in list_attached_user_policies.rs): slashes are added, not removed.
normalize_policy_path(path) ==
  IF path = Blank THEN Slash
  ELSE (IF path[1] = Nil THEN <<>> ELSE <<Nil>>) \o path
         \o (IF path[Len(path)] = Nil THEN <<>> ELSE <<Nil>>)

\* Begins and ends with a slash.
validate_iam_path(path) == Len(path) > 1 /\ path[1] = Nil /\ path[Len(path)] = Nil

\* One segment, and no colon.
validate_iam_name(name) == Len(name) = 1 /\ name[1] \notin {Nil} \union ColonSegments

--------------------------------------------------------------------------------
(* ARNs. *)

\* The text kind + path + name: the path begins and ends with a slash.
Resource(kind, path, name) == <<kind>> \o SubSeq(path, 2, Len(path) - 1) \o name

user_arn(account, path, name) ==
  [region |-> Nil, account |-> account, resource |-> Resource("user", normalize_user_path(path), name)]

policy_arn(account, path, name) ==
  [region |-> Nil, account |-> account, resource |-> Resource("policy", normalize_user_path(path), name)]

\* The console's: policy/ + the trimmed path + / unless the path is "/".
managed_policy_arn(policy) ==
  [region |-> Nil, account |-> policy.account,
   resource |-> <<"policy">> \o (IF policy.path = Slash THEN <<>> ELSE TrimSlashes(policy.path))
                  \o policy.name]

\* The ARN of a policy that is shown: IamPolicyXml.
PolicyXmlArn(policy) == policy_arn(policy.account, normalize_policy_path(policy.path), policy.name)

\* Mutant: only the last segment of the path is read.
ParseLastSegment(arn) ==
  LET r == arn.resource
      n == Len(r)
  IN  IF n < 2 \/ r[1] # "policy" \/ r[n] = Nil \/ \E i \in DOMAIN r : r[i] \in ColonSegments
        THEN {}
        ELSE {[account |-> arn.account, name |-> <<r[n]>>,
               path |-> IF n = 2 THEN Slash ELSE <<Nil, r[n - 1], Nil>>]}

\* A colon makes it too many parts.
parse_policy_arn(arn) ==
  LET r == arn.resource
      n == Len(r)
  IN  IF n < 2 \/ r[1] # "policy" \/ r[n] = Nil \/ \E i \in DOMAIN r : r[i] \in ColonSegments
        THEN {}
        ELSE {[account |-> arn.account, name |-> <<r[n]>>,
               path |-> IF n = 2 THEN Slash ELSE <<Nil>> \o SubSeq(r, 2, n - 1) \o <<Nil>>]}

\* GetPolicy, GetPolicyVersion, DeletePolicy, and Attach/DetachUserPolicy, which also
\* want their own account.
get_managed_policy(policies, arn) == policies \intersect parse_policy_arn(arn)

--------------------------------------------------------------------------------
(* Creation: the row, or {} for an error. *)

CreateUserRow(account, name, path) ==
  IF validate_iam_name(name) /\ validate_iam_path(path)
    THEN {[account |-> account, kind |-> "user", name |-> name, path |-> normalize_user_path(path)]}
    ELSE {}

CreatePolicyRow(account, name, path) ==
  IF validate_iam_name(name) /\ validate_iam_path(normalize_policy_path(path))
    THEN {[account |-> account, name |-> name, path |-> normalize_policy_path(path)]}
    ELSE {}

\* The console takes any name that is not empty.
ConsolePolicyRow(account, name, path) ==
  IF name = Blank THEN {}
  ELSE {[account |-> account, name |-> name, path |-> normalize_path(path)]}

--------------------------------------------------------------------------------
(* Whom a request is about.  UserName is <<>> when the request has none; the caller is   *)
(* a principal; the answer is {} for an error.                                           *)

UserNamed(principals, account, name) ==
  {p \in principals : p.account = account /\ p.kind = "user" /\ p.name = name}

optional_target_user(principals, caller, user_name) ==
  UserNamed(principals, caller.account, IF user_name = <<>> THEN caller.name ELSE user_name[1])

requested_or_signing_user(principals, caller, user_name) ==
  CASE user_name # <<>> -> IF user_name[1] = Blank THEN {}
                           ELSE UserNamed(principals, caller.account, user_name[1])
    [] user_name = <<>> /\ caller.kind = "user" -> {caller}
    [] OTHER -> {}

existing_user_by_name(principals, caller, user_name) ==
  IF user_name = <<>> THEN {} ELSE UserNamed(principals, caller.account, user_name[1])

SelfActions == {"CreateAccessKey", "ListAccessKeys", "ListAttachedUserPolicies"}
NamedActions == {"DeleteUser", "PutUserPolicy", "GetUserPolicy", "AttachUserPolicy",
                 "DetachUserPolicy"}

\* The user whose ARN the policies are asked about.
resolve_authorization(action, principals, caller, user_name) ==
  CASE action = "GetUser" -> optional_target_user(principals, caller, user_name)
    [] action \in SelfActions ->
         IF user_name # <<>> /\ user_name[1] # Blank
           THEN UserNamed(principals, caller.account, user_name[1])
           ELSE IF caller.kind = "user" THEN {caller} ELSE {}
    [] action \in NamedActions -> existing_user_by_name(principals, caller, user_name)

\* The user that the handler then reads or changes.  All but GetUserPolicy check the name.
TargetOf(action, principals, caller, user_name) ==
  IF action # "GetUserPolicy" /\ user_name # <<>> /\ ~validate_iam_name(user_name[1]) THEN {}
  ELSE CASE action = "GetUser" -> optional_target_user(principals, caller, user_name)
         [] action \in SelfActions -> requested_or_signing_user(principals, caller, user_name)
         [] action \in NamedActions -> existing_user_by_name(principals, caller, user_name)

\* STS: whoever calls, a user of that name is answered.
handle_get_caller_identity(principals, caller) ==
  {user_arn(caller.account, u.path, u.name) : u \in UserNamed(principals, caller.account, caller.name)}

--------------------------------------------------------------------------------
(* Properties. *)

\* The ARN a policy is created and shown under, by the API, in the list of attached
\* policies and in the console, is one and the same, and the one its creation was
\* authorized for; it leads back to the policy exactly if there is no colon in it, the
\* name has no slash (the console's may) and the path no slashes to spare at its ends
\* (CreatePolicy keeps those).
PolicyFoundByItsArn(account, name, path) ==
  \A policy \in CreatePolicyRow(account, name, path) \union ConsolePolicyRow(account, name, path) :
    LET arn == PolicyXmlArn(policy)
        plain == /\ Len(policy.name) = 1
                 /\ policy.path = normalize_user_path(policy.path)
                 /\ \A i \in DOMAIN arn.resource : arn.resource[i] \notin ColonSegments
    IN  /\ managed_policy_arn(policy) = arn
        /\ policy_arn(account, normalize_user_path(path), name) = arn
        /\ (get_managed_policy({policy}, arn) = {policy}) <=> plain

\* The user a request is authorized for is the user its handler works on, or the handler
\* refuses, whether the request names a user, leaves the name blank, or names none and is
\* signed by a user or by a role of the same name as a user; and the new user of
\* CreateUser has the ARN that was authorized.
AuthorizedIsTarget(action, principals, caller, user_name, path) ==
  /\ LET target == TargetOf(action, principals, caller, user_name)
     IN  target # {} => resolve_authorization(action, principals, caller, user_name) = target
  /\ \A user \in CreateUserRow(caller.account, caller.name, path) :
       user_arn(user.account, user.path, user.name)
         = user_arn(caller.account, normalize_user_path(path), caller.name)

\* GetCallerIdentity tells every user its own ARN, the one GetUser tells; a role is told
\* that of a user, or an error, but never its own.
CallerIsTold(principals, caller) ==
  LET told == handle_get_caller_identity(principals, caller)
  IN  IF caller.kind = "user"
        THEN told = {user_arn(u.account, u.path, u.name) : u \in optional_target_user(principals, caller, <<>>)}
             /\ told = {user_arn(caller.account, caller.path, caller.name)}
        ELSE \A arn \in told : arn.resource[1] = "user"
================================================================================
