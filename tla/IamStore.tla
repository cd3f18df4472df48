------------------------------- MODULE IamStore -------------------------------
(***************************************************************************)
(* IAM users, access keys, inline policies, managed policies and their     *)
(* attachments: the five tables and the handlers that change them.         *)
(*                                                                         *)
(* Ids of users and managed policies are INTEGER PRIMARY KEYs without      *)
(* AUTOINCREMENT and come back after a deletion.  Keys, inline policies    *)
(* and attachments refer to them by foreign keys that cascade.  A handler  *)
(* finds the user, and the policy, by name, and writes by id afterwards.   *)
(*                                                                         *)
(* Abstractions.  One account, one path, users only.  A policy document is *)
(* what it says of the one request that matters: an effect, or "invalid"   *)
(* when it is a JSON object but no policy.  Secrets are left out.  The     *)
(* user the migrations seed is one of those CreateUser may create.         *)
(***************************************************************************)
EXTENDS Naturals, FiniteSets

CONSTANTS
  Handlers,     \* request handlers running at once
  UserNames,    \* names of users
  PolicyNames,  \* names of policies
  Docs,         \* policy documents
  MaxUsers,     \* bound: users ever created
  MaxPolicies,  \* bound: managed policies ever created
  MaxKeys,      \* bound: access keys ever created
  Faults,       \* may statements fail and the process stop?
  Operations    \* the operations clients call in this instance

ASSUME IamAssumption ==
  /\ MaxUsers \in Nat
  /\ MaxPolicies \in Nat
  /\ MaxKeys \in Nat
  /\ Faults \in BOOLEAN

VARIABLES
  users,        \* iam_principals: a function from the ids in use to rows
  keys,         \* iam_access_keys: a function from the key ids in use to rows
  inline,       \* iam_principal_inline_policies: <<user id, name>> to rows
  policies,     \* iam_managed_policies: a function from the ids in use to rows
  attached,     \* iam_user_policy_attachments: <<user id, policy id>> to rows
  madeUsers,    \* users created so far
  madePolicies, \* managed policies created so far
  madeKeys,     \* access keys created so far
  pc,           \* pc[h] : the statement handler h runs next
  loc           \* loc[h] : the local variables of handler h

iamVars == <<users, keys, inline, policies, attached, madeUsers, madePolicies, madeKeys, pc, loc>>

--------------------------------------------------------------------------------
\* born is history: it tells apart the users, or policies, that had the same id.
UserRow == [name : UserNames, born : Nat]
PolicyRow == [name : PolicyNames, doc : Docs, born : Nat]

\* madeFor is history: the user the handler that made the row had found.
KeyRow == [user : Nat, madeFor : Nat]
InlineRow == [doc : Docs, madeFor : Nat]

\* Likewise, with the policy.
AttachmentRow == [madeFor : Nat, policy : Nat]

UserIds == DOMAIN users
PolicyIds == DOMAIN policies
KeyIds == DOMAIN keys

\* user and born: the user the handler found; likewise the policy.
Locals == [user : Nat, born : Nat, policyName : PolicyNames, doc : Docs,
           policy : Nat, policyBorn : Nat]
NoLocals == [idle |-> TRUE]

Statements == {"insert_key", "put_inline", "attach_load", "detach_load", "attach", "detach"}

TypeOK ==
  /\ users \in [UserIds -> UserRow]
  /\ UserIds \subseteq 1..madeUsers
  /\ policies \in [PolicyIds -> PolicyRow]
  /\ PolicyIds \subseteq 1..madePolicies
  /\ keys \in [KeyIds -> KeyRow]
  /\ KeyIds \subseteq 1..madeKeys
  /\ inline \in [DOMAIN inline -> InlineRow]
  /\ DOMAIN inline \subseteq Nat \X PolicyNames
  /\ attached \in [DOMAIN attached -> AttachmentRow]
  /\ DOMAIN attached \subseteq Nat \X Nat
  /\ madeUsers \in Nat /\ madePolicies \in Nat /\ madeKeys \in Nat
  /\ pc \in [Handlers -> {"idle"} \union Statements]
  /\ DOMAIN loc = Handlers
  /\ \A h \in Handlers : pc[h] # "idle" => loc[h] \in Locals

--------------------------------------------------------------------------------
(* The store. *)

\* INTEGER PRIMARY KEY without AUTOINCREMENT: one more than the largest id in use.
NewId(ids, bound) ==
  CHOOSE id \in 1..(bound + 1) : (\A i \in ids : i < id) /\ (id = 1 \/ id - 1 \in ids)

NewUserId == NewId(UserIds, MaxUsers)
NewPolicyId == NewId(PolicyIds, MaxPolicies)

get_principal_by_identity(name) == {id \in UserIds : users[id].name = name}
get_managed_policy(name) == {id \in PolicyIds : policies[id].name = name}

\* UNIQUE(account_id, kind, name) and UNIQUE(account_id, policy_name, policy_path).
UserExists(name) == get_principal_by_identity(name) # {}
PolicyExists(name) == get_managed_policy(name) # {}

\* f with the row at x set to row: INSERT or ON CONFLICT DO UPDATE.
Upsert(f, x, row) == [y \in DOMAIN f \union {x} |-> IF y = x THEN row ELSE f[y]]

\* f without the rows in gone.
Without(f, gone) == [y \in DOMAIN f \ gone |-> f[y]]

\* Mutant: access keys do not cascade.
DeleteUserKeepingKeys(ids) ==
  /\ users' = Without(users, ids)
  /\ inline' = Without(inline, {x \in DOMAIN inline : x[1] \in ids})
  /\ attached' = Without(attached, {x \in DOMAIN attached : x[1] \in ids})
  /\ UNCHANGED keys

\* DELETE FROM iam_principals; keys, inline policies and attachments cascade.
delete_users(ids) ==
  /\ users' = Without(users, ids)
  /\ keys' = Without(keys, {k \in KeyIds : keys[k].user \in ids})
  /\ inline' = Without(inline, {x \in DOMAIN inline : x[1] \in ids})
  /\ attached' = Without(attached, {x \in DOMAIN attached : x[1] \in ids})

\* DELETE FROM iam_managed_policies; attachments cascade.
delete_managed_policies(ids) ==
  /\ policies' = Without(policies, ids)
  /\ attached' = Without(attached, {x \in DOMAIN attached : x[2] \in ids})

--------------------------------------------------------------------------------
(* The handlers.  An early error answer changes nothing and is a guard. *)

Goto(h, statement, locals) ==
  /\ pc' = [pc EXCEPT ![h] = statement]
  /\ loc' = [loc EXCEPT ![h] = locals]

Finish(h) == Goto(h, "idle", NoLocals)

Calls(h, operation) == operation \in Operations /\ pc[h] = "idle"

CreateUser ==
  /\ "create_user" \in Operations
  /\ madeUsers < MaxUsers
  /\ \E name \in UserNames :
       /\ ~UserExists(name)
       /\ users' = Upsert(users, NewUserId, [name |-> name, born |-> madeUsers + 1])
  /\ madeUsers' = madeUsers + 1
  /\ UNCHANGED <<keys, inline, policies, attached, madePolicies, madeKeys, pc, loc>>

\* DeleteUser by name; the console deletes by id.
DeleteUser ==
  /\ "delete_user" \in Operations
  /\ \E id \in UserIds : delete_users({id})
  /\ UNCHANGED <<policies, madeUsers, madePolicies, madeKeys, pc, loc>>

CreatePolicy ==
  /\ "create_policy" \in Operations
  /\ madePolicies < MaxPolicies
  /\ \E name \in PolicyNames, doc \in Docs :
       /\ ~PolicyExists(name)
       /\ policies' = Upsert(policies, NewPolicyId,
                             [name |-> name, doc |-> doc, born |-> madePolicies + 1])
  /\ madePolicies' = madePolicies + 1
  /\ UNCHANGED <<users, keys, inline, attached, madeUsers, madeKeys, pc, loc>>

DeletePolicy ==
  /\ "delete_policy" \in Operations
  /\ \E id \in PolicyIds : delete_managed_policies({id})
  /\ UNCHANGED <<users, keys, inline, madeUsers, madePolicies, madeKeys, pc, loc>>

\* The console's update of a managed policy's document.
UpdateManagedPolicy ==
  /\ "update_policy" \in Operations
  /\ \E id \in PolicyIds, doc \in Docs : policies' = [policies EXCEPT ![id].doc = doc]
  /\ UNCHANGED <<users, keys, inline, attached, madeUsers, madePolicies, madeKeys, pc, loc>>

\* The console's deletions of an access key and of an inline policy.
DeleteAccessKey ==
  /\ "delete_key" \in Operations
  /\ \E k \in KeyIds : keys' = Without(keys, {k})
  /\ UNCHANGED <<users, inline, policies, attached, madeUsers, madePolicies, madeKeys, pc, loc>>

DeleteInlinePolicy ==
  /\ "delete_inline" \in Operations
  /\ \E x \in DOMAIN inline : inline' = Without(inline, {x})
  /\ UNCHANGED <<users, keys, policies, attached, madeUsers, madePolicies, madeKeys, pc, loc>>

\* These requests find the user by name first; CreateAccessKey without UserName takes the
\* signing user, found earlier still.
FindUser(h, operation, statement) ==
  /\ Calls(h, operation)
  /\ \E id \in UserIds, name \in PolicyNames, doc \in Docs :
       Goto(h, statement,
            [user |-> id, born |-> users[id].born, policyName |-> name, doc |-> doc,
             policy |-> 0, policyBorn |-> 0])
  /\ UNCHANGED <<users, keys, inline, policies, attached, madeUsers, madePolicies, madeKeys>>

CreateAccessKey(h) == FindUser(h, "create_key", "insert_key")
PutUserPolicy(h) == FindUser(h, "put_inline", "put_inline")
AttachUserPolicy(h) == FindUser(h, "attach", "attach_load")
DetachUserPolicy(h) == FindUser(h, "detach", "detach_load")

\* INSERT by user id, refused by the foreign key when the user is gone.
InsertKey(h) ==
  /\ pc[h] = "insert_key"
  /\ \/ /\ loc[h].user \in UserIds
        /\ madeKeys < MaxKeys
        /\ keys' = Upsert(keys, madeKeys + 1,
                          [user |-> loc[h].user, madeFor |-> loc[h].born])
        /\ madeKeys' = madeKeys + 1
     \/ /\ loc[h].user \notin UserIds \/ madeKeys = MaxKeys
        /\ UNCHANGED <<keys, madeKeys>>
  /\ Finish(h)
  /\ UNCHANGED <<users, inline, policies, attached, madeUsers, madePolicies>>

\* Mutant: ON CONFLICT(policy_name): the row of another user is overwritten.
PutInlinePolicyByName(h) ==
  /\ pc[h] = "put_inline"
  /\ \/ /\ loc[h].user \in UserIds
        /\ \E x \in {y \in DOMAIN inline : y[2] = loc[h].policyName}
                      \union {<<loc[h].user, loc[h].policyName>>} :
             inline' = Upsert(inline, x, [doc |-> loc[h].doc, madeFor |-> loc[h].born])
     \/ /\ loc[h].user \notin UserIds
        /\ UNCHANGED inline
  /\ Finish(h)
  /\ UNCHANGED <<users, keys, policies, attached, madeUsers, madePolicies, madeKeys>>

PutInlinePolicy(h) ==
  /\ pc[h] = "put_inline"
  /\ \/ /\ loc[h].user \in UserIds
        /\ inline' = Upsert(inline, <<loc[h].user, loc[h].policyName>>,
                            [doc |-> loc[h].doc, madeFor |-> loc[h].born])
     \/ /\ loc[h].user \notin UserIds
        /\ UNCHANGED inline
  /\ Finish(h)
  /\ UNCHANGED <<users, keys, policies, attached, madeUsers, madePolicies, madeKeys>>

\* Then the managed policy by ARN.
FindPolicy(h) ==
  /\ pc[h] \in {"attach_load", "detach_load"}
  /\ \/ \E id \in get_managed_policy(loc[h].policyName) :
          Goto(h, IF pc[h] = "attach_load" THEN "attach" ELSE "detach",
               [loc[h] EXCEPT !.policy = id, !.policyBorn = policies[id].born])
     \/ ~PolicyExists(loc[h].policyName) /\ Finish(h)
  /\ UNCHANGED <<users, keys, inline, policies, attached, madeUsers, madePolicies, madeKeys>>

\* Both foreign keys and UNIQUE(user_id, policy_id).
MayAttach(h) ==
  /\ loc[h].user \in UserIds
  /\ loc[h].policy \in PolicyIds
  /\ <<loc[h].user, loc[h].policy>> \notin DOMAIN attached

Attach(h) ==
  /\ pc[h] = "attach"
  /\ \/ /\ MayAttach(h)
        /\ attached' = Upsert(attached, <<loc[h].user, loc[h].policy>>,
                              [madeFor |-> loc[h].born, policy |-> loc[h].policyBorn])
     \/ /\ ~MayAttach(h)
        /\ UNCHANGED attached
  /\ Finish(h)
  /\ UNCHANGED <<users, keys, inline, policies, madeUsers, madePolicies, madeKeys>>

Detach(h) ==
  /\ pc[h] = "detach"
  /\ attached' = Without(attached, {<<loc[h].user, loc[h].policy>>})
  /\ Finish(h)
  /\ UNCHANGED <<users, keys, inline, policies, madeUsers, madePolicies, madeKeys>>

\* A statement fails (the database stays busy): the request ends with an error.
Busy(h) ==
  /\ Faults
  /\ pc[h] # "idle"
  /\ Finish(h)
  /\ UNCHANGED <<users, keys, inline, policies, attached, madeUsers, madePolicies, madeKeys>>

\* The process stops and starts again.
Restart ==
  /\ Faults
  /\ pc' = [h \in Handlers |-> "idle"]
  /\ loc' = [h \in Handlers |-> NoLocals]
  /\ UNCHANGED <<users, keys, inline, policies, attached, madeUsers, madePolicies, madeKeys>>

--------------------------------------------------------------------------------
IamInit ==
  /\ users = [i \in {} |-> NoLocals]
  /\ keys = [i \in {} |-> NoLocals]
  /\ inline = [i \in {} |-> NoLocals]
  /\ policies = [i \in {} |-> NoLocals]
  /\ attached = [i \in {} |-> NoLocals]
  /\ madeUsers = 0
  /\ madePolicies = 0
  /\ madeKeys = 0
  /\ pc = [h \in Handlers |-> "idle"]
  /\ loc = [h \in Handlers |-> NoLocals]

Handle(h) ==
  \/ CreateAccessKey(h) \/ PutUserPolicy(h) \/ AttachUserPolicy(h) \/ DetachUserPolicy(h)
  \/ InsertKey(h) \/ PutInlinePolicy(h) \/ FindPolicy(h)
  \/ Attach(h) \/ Detach(h) \/ Busy(h)

IamNext ==
  \/ CreateUser \/ DeleteUser \/ CreatePolicy \/ DeletePolicy \/ UpdateManagedPolicy
  \/ DeleteAccessKey \/ DeleteInlinePolicy \/ Restart
  \/ \E h \in Handlers : Handle(h)

IamSpec == IamInit /\ [][IamNext]_iamVars

--------------------------------------------------------------------------------
(* Properties. *)

\* Keys, inline policies and attachments belong to users and policies that exist,
\* whatever was deleted while a handler was about to write; so a user that gets a used
\* id starts with none of its predecessor's.
NoOrphans ==
  /\ \A k \in KeyIds : keys[k].user \in UserIds
  /\ \A x \in DOMAIN inline : x[1] \in UserIds
  /\ \A x \in DOMAIN attached : x[1] \in UserIds /\ x[2] \in PolicyIds

\* A key, inline policy or attachment belongs to the user, and the policy, its handler
\* had found by name, unless that user or policy has been deleted: the reuse of an id
\* is the only way a grant can reach someone it was not made for.
GrantsWhereMeant ==
  LET liveUsers == {users[id].born : id \in UserIds}
      livePolicies == {policies[id].born : id \in PolicyIds}
  IN  /\ \A k \in KeyIds :
           keys[k].madeFor \in liveUsers => users[keys[k].user].born = keys[k].madeFor
      /\ \A x \in DOMAIN inline :
           inline[x].madeFor \in liveUsers => users[x[1]].born = inline[x].madeFor
      /\ \A x \in DOMAIN attached :
           /\ attached[x].madeFor \in liveUsers => users[x[1]].born = attached[x].madeFor
           /\ attached[x].policy \in livePolicies => policies[x[2]].born = attached[x].policy
================================================================================
