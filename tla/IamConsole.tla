------------------------------ MODULE IamConsole ------------------------------
(***************************************************************************)
(* The reads of IAM, by requests and by the console's pages, and the forms *)
(* of those pages.                                                         *)
(*                                                                         *)
(* A read finds a user by name or by the id in the page's address, and     *)
(* then collects rows by id in statements of their own; the steps of       *)
(* IamStore fall in between.  One read is under way, or one page on the    *)
(* screen, at a time.  The number of attachments a page shows next to a    *)
(* policy, the dates and the masked secrets are left out.                  *)
(***************************************************************************)
EXTENDS IamStore

CONSTANT Reads    \* the reads of this instance

VARIABLE reading  \* the read under way, or the page on the screen

consoleVars == <<iamVars, reading>>

--------------------------------------------------------------------------------
NoRead == [kind |-> "none"]

LiveUsers == {users[id].born : id \in UserIds}
LivePolicies == {policies[id].born : id \in PolicyIds}

UserReads == {"list_keys", "get_inline", "list_attached", "principal"}

\* The statements of each read after the one that finds the user, in order.
Following ==
  [list_keys |-> [find |-> "keys", keys |-> "done"],
   get_inline |-> [find |-> "inline", inline |-> "done"],
   list_attached |-> [find |-> "attached", attached |-> "done"],
   principal |-> [find |-> "keys", keys |-> "inline", inline |-> "attached",
                  attached |-> "options", options |-> "done"]]

\* id is the user read and shown its born; owners are those whose rows were collected;
\* the attached and offered policies of the page are ids with their borns.  since is history: the policies there
\* were when the read began.
UserRead == [kind : UserReads, step : {"keys", "inline", "attached", "options", "done"},
             id : Nat, shown : Nat, since : SUBSET Nat, owners : SUBSET Nat,
             attached : SUBSET (Nat \X Nat), offered : SUBSET (Nat \X Nat)]

\* The policy page: left are the users, by id and born, still to be asked about.
PolicyRead == [kind : {"policy"}, step : {"principals", "ask", "done"}, id : Nat, shown : Nat,
               since : SUBSET Nat, left : SUBSET (Nat \X Nat),
               attached : SUBSET (Nat \X Nat), offered : SUBSET (Nat \X Nat)]

ReadsTypeOK ==
  /\ TypeOK
  /\ reading \in {NoRead} \union UserRead \union PolicyRead

--------------------------------------------------------------------------------
(* The reads. *)

\* get_principal_by_identity, get_principal, or the signing user found earlier.
FindTarget(kind) ==
  /\ kind \in Reads
  /\ reading = NoRead
  /\ \E id \in UserIds :
       reading' = [kind |-> kind, step |-> Following[kind].find, id |-> id,
                   shown |-> users[id].born, since |-> LivePolicies, owners |-> {},
                   attached |-> {}, offered |-> {}]
  /\ UNCHANGED iamVars

ListAccessKeys == FindTarget("list_keys")
GetUserPolicy == FindTarget("get_inline")
ListAttachedUserPolicies == FindTarget("list_attached")
principal_detail == FindTarget("principal")

\* Mutant: the inline policies are looked up by their name alone.
InlineByName(id) == {users[x[1]].born : x \in DOMAIN inline}

\* Whose rows the statements return: the users that have the id by now.
KeysOf(id) == {users[keys[k].user].born : k \in {k \in KeyIds : keys[k].user = id}}
InlineOf(id) == {users[x[1]].born : x \in {x \in DOMAIN inline : x[1] = id}}
\* get_managed_policies_attached_to_principal, as the ids and the borns of the policies.
AttachedTo(id) == {x[2] : x \in {x \in DOMAIN attached : x[1] = id}}
PoliciesOf(id) == {<<p, policies[p].born>> : p \in AttachedTo(id)}

OwnersOf(step, id) ==
  CASE step = "keys" -> KeysOf(id)
    [] step = "inline" -> InlineOf(id)
    [] step = "attached" /\ AttachedTo(id) # {} -> {users[id].born}
    [] OTHER -> {}

\* Mutant: what is attached is asked anew.
UnattachedNow(seen) == {<<p, policies[p].born>> : p \in PolicyIds \ AttachedTo(reading.id)}

\* list_managed_policies without the ids that were attached.
attach_options(seen) ==
  {<<p, policies[p].born>> : p \in PolicyIds \ {q[1] : q \in seen}}

\* A statement of a read.
ReadStatement ==
  /\ reading.kind \in UserReads
  /\ reading.step # "done"
  /\ reading' =
       [reading EXCEPT
          !.step = Following[reading.kind][@],
          !.owners = @ \union OwnersOf(reading.step, reading.id),
          !.attached = IF reading.step = "attached" THEN PoliciesOf(reading.id) ELSE @,
          !.offered = IF reading.step = "options" THEN attach_options(reading.attached) ELSE @]
  /\ UNCHANGED iamVars

\* The policy page: the policy by its id, all principals, and for each of them whether
\* the policy is among those attached to it.
managed_policy_detail ==
  /\ "policy" \in Reads
  /\ reading = NoRead
  /\ \E id \in PolicyIds :
       reading' = [kind |-> "policy", step |-> "principals", id |-> id,
                   shown |-> policies[id].born, since |-> LiveUsers, left |-> {},
                   attached |-> {}, offered |-> {}]
  /\ UNCHANGED iamVars

ListPrincipals ==
  /\ reading.kind = "policy" /\ reading.step = "principals"
  /\ reading' = [reading EXCEPT !.step = IF UserIds = {} THEN "done" ELSE "ask",
                                !.left = {<<u, users[u].born>> : u \in UserIds}]
  /\ UNCHANGED iamVars

\* load_attached_principals_for_policy, one principal: those without it are offered.
AskPrincipal ==
  /\ reading.kind = "policy" /\ reading.step = "ask"
  /\ \E u \in reading.left :
       LET has == reading.id \in AttachedTo(u[1])
       IN  reading' = [reading EXCEPT
                         !.left = @ \ {u},
                         !.step = IF reading.left = {u} THEN "done" ELSE @,
                         !.attached = IF has THEN @ \union {u} ELSE @,
                         !.offered = IF has THEN @ ELSE @ \union {u}]
  /\ UNCHANGED iamVars

\* The answer is sent, or the user leaves the page.
EndRead ==
  /\ reading # NoRead
  /\ reading' = NoRead
  /\ UNCHANGED iamVars

--------------------------------------------------------------------------------
(* The forms of the pages.  A handler loads what the form names by id, only to   *)
(* answer NotFound, and writes by id.  The user means what is on the screen.     *)

OnScreen(kind) == reading.kind = kind /\ reading.step = "done"

ConsoleGrant(h, operation, statement, user, policy) ==
  /\ Calls(h, operation)
  /\ user[1] \in UserIds
  /\ \E name \in PolicyNames, doc \in Docs :
       Goto(h, statement,
            [user |-> user[1], born |-> user[2], policyName |-> name, doc |-> doc,
             policy |-> policy[1], policyBorn |-> policy[2]])
  /\ UNCHANGED <<users, keys, inline, policies, attached, madeUsers, madePolicies, madeKeys,
                 reading>>

ConsoleCreateAccessKey(h) ==
  /\ OnScreen("principal")
  /\ ConsoleGrant(h, "create_key", "insert_key", <<reading.id, reading.shown>>, <<0, 0>>)

ConsolePutInlinePolicy(h) ==
  /\ OnScreen("principal")
  /\ ConsoleGrant(h, "put_inline", "put_inline", <<reading.id, reading.shown>>, <<0, 0>>)

\* The policy comes from the options, or from the table of those attached.
attach_policy_to_principal(h) ==
  /\ OnScreen("principal")
  /\ \E p \in reading.offered :
       /\ p[1] \in PolicyIds
       /\ ConsoleGrant(h, "attach", "attach", <<reading.id, reading.shown>>, p)

detach_policy_from_principal(h) ==
  /\ OnScreen("principal")
  /\ \E p \in reading.attached :
       /\ p[1] \in PolicyIds
       /\ ConsoleGrant(h, "detach", "detach", <<reading.id, reading.shown>>, p)

attach_policy(h) ==
  /\ OnScreen("policy")
  /\ reading.id \in PolicyIds
  /\ \E u \in reading.offered :
       ConsoleGrant(h, "attach", "attach", u, <<reading.id, reading.shown>>)

detach_policy(h) ==
  /\ OnScreen("policy")
  /\ reading.id \in PolicyIds
  /\ \E u \in reading.attached :
       ConsoleGrant(h, "detach", "detach", u, <<reading.id, reading.shown>>)

--------------------------------------------------------------------------------
ConsoleInit == IamInit /\ reading = NoRead

\* The console's creations and deletions are those of IamStore.
ConsoleNext ==
  \/ IamNext /\ UNCHANGED reading
  \/ ListAccessKeys \/ GetUserPolicy \/ ListAttachedUserPolicies \/ principal_detail
  \/ ReadStatement \/ managed_policy_detail \/ ListPrincipals \/ AskPrincipal \/ EndRead
  \/ \E h \in Handlers :
       \/ ConsoleCreateAccessKey(h) \/ ConsolePutInlinePolicy(h)
       \/ attach_policy_to_principal(h) \/ detach_policy_from_principal(h)
       \/ attach_policy(h) \/ detach_policy(h)

ConsoleSpec == ConsoleInit /\ [][ConsoleNext]_consoleVars

--------------------------------------------------------------------------------
(* Properties. *)

\* The rows a read collected, statement by statement, are all of the user it found,
\* as long as that user exists: a listing or a page mixes two users only if the id
\* changed hands while it was read.  And the tables keep their types.
ReadsOfOneUser ==
  /\ ReadsTypeOK
  /\ reading.kind \in UserReads /\ reading.shown \in LiveUsers =>
       reading.owners \subseteq {reading.shown}

\* A policy that existed all the time a principal's page was read is either listed as
\* attached or offered for attachment, never both and never neither, although the two
\* come from different statements; and so is a principal on a policy's page.
AttachedOrOffered ==
  /\ OnScreen("principal") =>
       \A p \in PolicyIds :
         policies[p].born \in reading.since =>
           LET row == <<p, policies[p].born>>
           IN  (row \in reading.attached) # (row \in reading.offered)
  /\ OnScreen("policy") =>
       \A u \in UserIds :
         users[u].born \in reading.since =>
           LET row == <<u, users[u].born>>
           IN  (row \in reading.attached) # (row \in reading.offered)
================================================================================
