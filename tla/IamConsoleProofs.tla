--------------------------- MODULE IamConsoleProofs ---------------------------
(***************************************************************************)
(* Proofs about IamStore and IamConsole, for every set of handlers, names, *)
(* policies and documents, and every value of the bounds.                  *)
(***************************************************************************)
EXTENDS IamConsole, WellFoundedInduction, TLAPS

--------------------------------------------------------------------------------
(* Ids. *)

\* A bounded set of ids has a next one.
LEMMA NextIdExists ==
  ASSUME NEW n \in Nat, NEW ids \in SUBSET (1..n)
  PROVE  \E id \in 1..(n + 1) : (\A i \in ids : i < id) /\ (id = 1 \/ id - 1 \in ids)
<1> DEFINE Bounds == {m \in Nat : \A i \in ids : i <= m}
<1>1. n \in Bounds /\ Bounds \subseteq Nat
  OBVIOUS
<1>2. IsWellFoundedOn(OpToRel(<, Nat), Nat)
  BY NatLessThanWellFounded, Zenon
<1>3. PICK m \in Bounds : \A k \in Bounds : ~(<<k, m>> \in OpToRel(<, Nat))
  <2> HIDE DEF Bounds
  <2> QED
    BY <1>1, <1>2, WFMin, Zenon
<1>4. \A k \in Bounds : ~(k < m)
  BY <1>1, <1>3 DEF OpToRel
<1>5. m <= n
  BY <1>1, <1>4
<1>6. m = 0 \/ m \in ids
  <2> SUFFICES ASSUME m # 0, m \notin ids
               PROVE  FALSE
    OBVIOUS
  <2>1. m - 1 \in Nat /\ m - 1 < m
    BY <1>1
  <2>2. \A i \in ids : i <= m - 1
    OBVIOUS
  <2> QED
    BY <1>4, <2>1, <2>2
<1> QED
  BY <1>5, <1>6

\* The id of a new row is not in use, and is at most one more than the rows ever made.
LEMMA NewIdFresh ==
  ASSUME NEW bound \in Nat, NEW made \in Nat, made <= bound, NEW ids \in SUBSET (1..made)
  PROVE  NewId(ids, bound) \in (1..(made + 1)) \ ids
<1> DEFINE Fits(id) == (\A i \in ids : i < id) /\ (id = 1 \/ id - 1 \in ids)
<1>1. \E id \in 1..(bound + 1) : Fits(id)
  BY NextIdExists
<1>2. NewId(ids, bound) \in 1..(bound + 1) /\ Fits(NewId(ids, bound))
  BY <1>1 DEF NewId
<1> QED
  BY <1>2

--------------------------------------------------------------------------------
(* What a reference by id means. *)

\* Whoever refers to the user born by this id finds that user under the id as long as
\* the user is there; likewise a policy.
UserMeant(id, born) ==
  /\ born <= madeUsers
  /\ \A i \in UserIds : users[i].born = born => id = i

PolicyMeant(id, born) ==
  /\ born <= madePolicies
  /\ \A i \in PolicyIds : policies[i].born = born => id = i

\* No two users are the same one, and none is yet to be created; likewise policies.
BornOnce ==
  /\ \A i \in UserIds : 0 < users[i].born /\ users[i].born <= madeUsers
  /\ \A i, j \in UserIds : users[i].born = users[j].born => i = j
  /\ \A i \in PolicyIds : 0 < policies[i].born /\ policies[i].born <= madePolicies
  /\ \A i, j \in PolicyIds : policies[i].born = policies[j].born => i = j

\* What a step may do to iam_principals ...
UserCreated ==
  \E id \in 1..(madeUsers + 1), row \in UserRow :
    /\ id \notin UserIds
    /\ row.born = madeUsers + 1
    /\ users' = Upsert(users, id, row)
    /\ madeUsers' = madeUsers + 1
    /\ UNCHANGED <<keys, inline, attached>>

UserDeleted == (\E id \in UserIds : delete_users({id})) /\ UNCHANGED madeUsers

\* ... and to iam_managed_policies.
PolicyCreated ==
  \E id \in 1..(madePolicies + 1), row \in PolicyRow :
    /\ id \notin PolicyIds
    /\ row.born = madePolicies + 1
    /\ policies' = Upsert(policies, id, row)
    /\ madePolicies' = madePolicies + 1
    /\ UNCHANGED attached

PolicyDeleted ==
  (\E id \in PolicyIds : delete_managed_policies({id})) /\ UNCHANGED madePolicies

PolicyUpdated ==
  /\ \E id \in PolicyIds, doc \in Docs : policies' = [policies EXCEPT ![id].doc = doc]
  /\ UNCHANGED <<attached, madePolicies>>

\* The steps of a handler leave both tables alone.
HandlerActions(h) ==
  \/ Handle(h) \/ ConsoleCreateAccessKey(h) \/ ConsolePutInlinePolicy(h)
  \/ attach_policy_to_principal(h) \/ detach_policy_from_principal(h)
  \/ attach_policy(h) \/ detach_policy(h)

\* These write keys, inline policies and attachments only.
LEMMA HandlersKeepTables ==
  ASSUME NEW h \in Handlers, HandlerActions(h)
  PROVE  UNCHANGED <<users, policies, madeUsers, madePolicies>>
BY DEF HandlerActions, Handle, CreateAccessKey, PutUserPolicy, AttachUserPolicy,
   DetachUserPolicy, FindUser, InsertKey, PutInlinePolicy, FindPolicy, Attach, Detach, Busy,
   ConsoleCreateAccessKey, ConsolePutInlinePolicy, attach_policy_to_principal,
   detach_policy_from_principal, attach_policy, detach_policy, ConsoleGrant

ReadActions ==
  \/ ListAccessKeys \/ GetUserPolicy \/ ListAttachedUserPolicies \/ principal_detail
  \/ ReadStatement \/ managed_policy_detail \/ ListPrincipals \/ AskPrincipal \/ EndRead

\* A read changes no table.
LEMMA ReadsKeepTables == ReadActions => UNCHANGED iamVars
BY DEF ReadActions, ListAccessKeys, GetUserPolicy, ListAttachedUserPolicies,
   principal_detail, FindTarget, ReadStatement, managed_policy_detail, ListPrincipals,
   AskPrincipal, EndRead

\* Every step is one of these.
LEMMA StepKinds ==
  ASSUME [ConsoleNext]_consoleVars
  PROVE  \/ (CreateUser \/ DeleteUser \/ CreatePolicy \/ DeletePolicy \/ UpdateManagedPolicy
             \/ DeleteAccessKey \/ DeleteInlinePolicy \/ Restart) /\ UNCHANGED reading
         \/ \E h \in Handlers : HandlerActions(h) /\ UNCHANGED reading
         \/ ReadActions
         \/ UNCHANGED iamVars /\ UNCHANGED reading
<1>1. ASSUME NEW h \in Handlers,
             \/ ConsoleCreateAccessKey(h) \/ ConsolePutInlinePolicy(h)
             \/ attach_policy_to_principal(h) \/ detach_policy_from_principal(h)
             \/ attach_policy(h) \/ detach_policy(h)
      PROVE  HandlerActions(h) /\ UNCHANGED reading
  BY <1>1 DEF HandlerActions, ConsoleCreateAccessKey, ConsolePutInlinePolicy,
     attach_policy_to_principal, detach_policy_from_principal, attach_policy,
     detach_policy, ConsoleGrant
<1>2. ASSUME IamNext, UNCHANGED reading
      PROVE  \/ (CreateUser \/ DeleteUser \/ CreatePolicy \/ DeletePolicy
                 \/ UpdateManagedPolicy \/ DeleteAccessKey \/ DeleteInlinePolicy
                 \/ Restart) /\ UNCHANGED reading
             \/ \E h \in Handlers : HandlerActions(h) /\ UNCHANGED reading
  BY <1>2 DEF IamNext, HandlerActions
<1> QED
  BY <1>1, <1>2 DEF ConsoleNext, consoleVars, ReadActions

\* What a step does to the table of users.
LEMMA UserStep ==
  ASSUME TypeOK, [ConsoleNext]_consoleVars
  PROVE  UNCHANGED <<users, madeUsers>> \/ UserCreated \/ UserDeleted
<1>1. CASE CreateUser
  <2>1. PICK name \in UserNames :
          users' = Upsert(users, NewUserId, [name |-> name, born |-> madeUsers + 1])
    BY <1>1 DEF CreateUser
  <2>2. NewUserId \in (1..(madeUsers + 1)) \ UserIds
    BY <1>1, NewIdFresh, IamAssumption DEF CreateUser, NewUserId, TypeOK
  <2>3. [name |-> name, born |-> madeUsers + 1] \in UserRow
    BY DEF TypeOK, UserRow
  <2> QED
    BY <1>1, <2>1, <2>2, <2>3 DEF CreateUser, UserCreated
<1>2. CASE DeleteUser
  BY <1>2 DEF DeleteUser, UserDeleted
<1> QED
  BY <1>1, <1>2, StepKinds, HandlersKeepTables, ReadsKeepTables DEF CreatePolicy,
     DeletePolicy, delete_managed_policies, UpdateManagedPolicy, DeleteAccessKey,
     DeleteInlinePolicy, Restart, iamVars

\* What a step does to the table of managed policies.
LEMMA PolicyStep ==
  ASSUME TypeOK, [ConsoleNext]_consoleVars
  PROVE  \/ UNCHANGED <<policies, madePolicies>>
         \/ PolicyCreated \/ PolicyDeleted \/ PolicyUpdated
<1>1. CASE CreatePolicy
  <2>1. PICK name \in PolicyNames, doc \in Docs :
          policies' = Upsert(policies, NewPolicyId,
                             [name |-> name, doc |-> doc, born |-> madePolicies + 1])
    BY <1>1 DEF CreatePolicy
  <2>2. NewPolicyId \in (1..(madePolicies + 1)) \ PolicyIds
    BY <1>1, NewIdFresh, IamAssumption DEF CreatePolicy, NewPolicyId, TypeOK
  <2>3. [name |-> name, doc |-> doc, born |-> madePolicies + 1] \in PolicyRow
    BY DEF TypeOK, PolicyRow
  <2> QED
    BY <1>1, <2>1, <2>2, <2>3 DEF CreatePolicy, PolicyCreated
<1>2. CASE DeletePolicy
  BY <1>2 DEF DeletePolicy, PolicyDeleted
<1>3. CASE UpdateManagedPolicy
  BY <1>3 DEF UpdateManagedPolicy, PolicyUpdated
<1> QED
  BY <1>1, <1>2, <1>3, StepKinds, HandlersKeepTables, ReadsKeepTables DEF CreateUser,
     DeleteUser, delete_users, DeleteAccessKey, DeleteInlinePolicy, Restart, iamVars

\* What a step does to the tables of users and policies, for those who refer to them: the
\* rows that stay keep their borns, and a new row has a later one than any before.
UsersLater ==
  /\ madeUsers' \in Nat /\ madeUsers <= madeUsers'
  /\ \A i \in UserIds' : \/ i \in UserIds /\ users'[i].born = users[i].born
                         \/ i \notin UserIds /\ users'[i].born = madeUsers + 1
                              /\ madeUsers' = madeUsers + 1 /\ UserIds' = UserIds \union {i}

PoliciesLater ==
  /\ madePolicies' \in Nat /\ madePolicies <= madePolicies'
  /\ \A i \in PolicyIds' : \/ i \in PolicyIds /\ policies'[i].born = policies[i].born
                           \/ i \notin PolicyIds /\ policies'[i].born = madePolicies + 1
                                /\ madePolicies' = madePolicies + 1
                                /\ PolicyIds' = PolicyIds \union {i}

\* Rows after a step are those before it or new ones, and ids stay among those counted.
LEMMA LaterStep ==
  ASSUME TypeOK, [ConsoleNext]_consoleVars
  PROVE  /\ UsersLater /\ PoliciesLater
         /\ users' \in [UserIds' -> UserRow] /\ UserIds' \subseteq 1..madeUsers'
         /\ policies' \in [PolicyIds' -> PolicyRow] /\ PolicyIds' \subseteq 1..madePolicies'
<1>1. UsersLater /\ users' \in [UserIds' -> UserRow] /\ UserIds' \subseteq 1..madeUsers'
  <2>1. CASE UNCHANGED <<users, madeUsers>>
    BY <2>1 DEF UsersLater, UserIds, TypeOK
  <2>2. CASE UserCreated
    <3>1. PICK id \in 1..(madeUsers + 1), row \in UserRow :
            /\ id \notin UserIds /\ row.born = madeUsers + 1
            /\ users' = Upsert(users, id, row) /\ madeUsers' = madeUsers + 1
      BY <2>2 DEF UserCreated
    <3>2. UserIds' = UserIds \union {id}
      BY <3>1 DEF Upsert, UserIds
    <3>3. users' \in [UserIds' -> UserRow] /\ UserIds' \subseteq 1..madeUsers'
      BY <3>1, <3>2 DEF Upsert, UserIds, TypeOK
    <3>4. \A i \in UserIds : i # id /\ users'[i] = users[i]
      BY <3>1 DEF Upsert, UserIds
    <3>5. users'[id] = row
      BY <3>1 DEF Upsert, UserIds
    <3> QED
      <4>1. madeUsers' \in Nat /\ madeUsers <= madeUsers'
        BY <3>1 DEF TypeOK
      <4>2. ASSUME NEW i \in UserIds'
            PROVE  \/ i \in UserIds /\ users'[i].born = users[i].born
                   \/ i \notin UserIds /\ users'[i].born = madeUsers + 1
                        /\ madeUsers' = madeUsers + 1 /\ UserIds' = UserIds \union {i}
        <5>1. CASE i = id
          BY <3>1, <3>2, <3>5, <5>1
        <5>2. CASE i # id
          BY <3>2, <3>4, <5>2
        <5> QED
          BY <5>1, <5>2
      <4> QED
        BY <3>3, <4>1, <4>2 DEF UsersLater
  <2>3. CASE UserDeleted
    <3>1. PICK id \in UserIds : users' = Without(users, {id}) /\ madeUsers' = madeUsers
      BY <2>3 DEF UserDeleted, delete_users
    <3>2. UserIds' = UserIds \ {id} /\ \A i \in UserIds' : users'[i] = users[i]
      BY <3>1 DEF Without, UserIds
    <3>3. users' \in [UserIds' -> UserRow]
      BY <3>1 DEF Without, UserIds, TypeOK
    <3> QED
      <4>1. /\ madeUsers' \in Nat /\ madeUsers <= madeUsers'
            /\ UserIds' \subseteq UserIds /\ UserIds' \subseteq 1..madeUsers'
        BY <3>1, <3>2 DEF TypeOK
      <4> QED
        BY <3>2, <3>3, <4>1 DEF UsersLater
  <2> QED
    BY <2>1, <2>2, <2>3, UserStep
<1>2. /\ PoliciesLater
      /\ policies' \in [PolicyIds' -> PolicyRow] /\ PolicyIds' \subseteq 1..madePolicies'
  <2>1. CASE UNCHANGED <<policies, madePolicies>>
    BY <2>1 DEF PoliciesLater, PolicyIds, TypeOK
  <2>2. CASE PolicyCreated
    <3>1. PICK id \in 1..(madePolicies + 1), row \in PolicyRow :
            /\ id \notin PolicyIds /\ row.born = madePolicies + 1
            /\ policies' = Upsert(policies, id, row) /\ madePolicies' = madePolicies + 1
      BY <2>2 DEF PolicyCreated
    <3>2. PolicyIds' = PolicyIds \union {id}
      BY <3>1 DEF Upsert, PolicyIds
    <3>3. policies' \in [PolicyIds' -> PolicyRow] /\ PolicyIds' \subseteq 1..madePolicies'
      BY <3>1, <3>2 DEF Upsert, PolicyIds, TypeOK
    <3>4. \A i \in PolicyIds : i # id /\ policies'[i] = policies[i]
      BY <3>1 DEF Upsert, PolicyIds
    <3>5. policies'[id] = row
      BY <3>1 DEF Upsert, PolicyIds
    <3> QED
      <4>1. madePolicies' \in Nat /\ madePolicies <= madePolicies'
        BY <3>1 DEF TypeOK
      <4>2. ASSUME NEW i \in PolicyIds'
            PROVE  \/ i \in PolicyIds /\ policies'[i].born = policies[i].born
                   \/ i \notin PolicyIds /\ policies'[i].born = madePolicies + 1
                        /\ madePolicies' = madePolicies + 1
                        /\ PolicyIds' = PolicyIds \union {i}
        <5>1. CASE i = id
          BY <3>1, <3>2, <3>5, <5>1
        <5>2. CASE i # id
          BY <3>2, <3>4, <5>2
        <5> QED
          BY <5>1, <5>2
      <4> QED
        BY <3>3, <4>1, <4>2 DEF PoliciesLater
  <2>3. CASE PolicyDeleted
    <3>1. PICK id \in PolicyIds :
            policies' = Without(policies, {id}) /\ madePolicies' = madePolicies
      BY <2>3 DEF PolicyDeleted, delete_managed_policies
    <3>2. PolicyIds' = PolicyIds \ {id} /\ \A i \in PolicyIds' : policies'[i] = policies[i]
      BY <3>1 DEF Without, PolicyIds
    <3>3. policies' \in [PolicyIds' -> PolicyRow]
      BY <3>1 DEF Without, PolicyIds, TypeOK
    <3> QED
      <4>1. /\ madePolicies' \in Nat /\ madePolicies <= madePolicies'
            /\ PolicyIds' \subseteq PolicyIds /\ PolicyIds' \subseteq 1..madePolicies'
        BY <3>1, <3>2 DEF TypeOK
      <4> QED
        BY <3>2, <3>3, <4>1 DEF PoliciesLater
  <2>4. CASE PolicyUpdated
    <3>1. PICK id \in PolicyIds, doc \in Docs : policies' = [policies EXCEPT ![id].doc = doc]
      BY <2>4 DEF PolicyUpdated
    <3>2. /\ PolicyIds' = PolicyIds /\ policies' \in [PolicyIds -> PolicyRow]
          /\ \A i \in PolicyIds : policies'[i].born = policies[i].born
      BY <3>1 DEF PolicyIds, PolicyRow, TypeOK
    <3> QED
      BY <2>4, <3>2 DEF PoliciesLater, PolicyUpdated, TypeOK
  <2> QED
    BY <2>1, <2>2, <2>3, <2>4, PolicyStep
<1> QED
  BY <1>1, <1>2

\* So what a reference means does not change.
LEMMA MeantStep ==
  ASSUME TypeOK, [ConsoleNext]_consoleVars, NEW id, NEW born \in Nat
  PROVE  /\ UserMeant(id, born) => UserMeant(id, born)'
         /\ PolicyMeant(id, born) => PolicyMeant(id, born)'
BY LaterStep DEF UserMeant, PolicyMeant, UsersLater, PoliciesLater, TypeOK

\* No two rows are ever born with the same number.
LEMMA BornOnceStep ==
  ASSUME TypeOK, BornOnce, [ConsoleNext]_consoleVars
  PROVE  BornOnce'
<1>1. UsersLater /\ PoliciesLater /\ madeUsers \in Nat /\ madePolicies \in Nat
  BY LaterStep DEF TypeOK
<1>2. /\ \A i \in UserIds : users[i].born \in Nat
      /\ \A i \in PolicyIds : policies[i].born \in Nat
  BY DEF TypeOK, UserRow, PolicyRow
<1>3. ASSUME NEW i \in UserIds'
      PROVE  /\ 0 < users'[i].born /\ users'[i].born <= madeUsers'
             /\ \A j \in UserIds' : users'[i].born = users'[j].born => i = j
  BY <1>1, <1>2 DEF BornOnce, UsersLater
<1>4. ASSUME NEW i \in PolicyIds'
      PROVE  /\ 0 < policies'[i].born /\ policies'[i].born <= madePolicies'
             /\ \A j \in PolicyIds' : policies'[i].born = policies'[j].born => i = j
  BY <1>1, <1>2 DEF BornOnce, PoliciesLater
<1> QED
  BY <1>3, <1>4 DEF BornOnce

\* A row in the table is the one a reference by its id means; 0 stands for no policy.
LEMMA FoundMeant ==
  ASSUME TypeOK, BornOnce
  PROVE  /\ \A id \in UserIds : UserMeant(id, users[id].born)
         /\ \A id \in PolicyIds : PolicyMeant(id, policies[id].born)
         /\ PolicyMeant(0, 0)
BY DEF BornOnce, UserMeant, PolicyMeant, TypeOK

--------------------------------------------------------------------------------
(* The handlers. *)

\* The user and the policy a handler holds are the ones it means.
HandlersRight ==
  \A h \in Handlers : pc[h] # "idle" =>
    /\ UserMeant(loc[h].user, loc[h].born)
    /\ PolicyMeant(loc[h].policy, loc[h].policyBorn)

\* So are those on the page on the screen.
ReadRight ==
  /\ reading \in UserRead =>
       /\ UserMeant(reading.id, reading.shown)
       /\ \A p \in reading.attached \union reading.offered : PolicyMeant(p[1], p[2])
  /\ reading \in PolicyRead =>
       /\ PolicyMeant(reading.id, reading.shown)
       /\ \A u \in reading.left \union reading.attached \union reading.offered :
            UserMeant(u[1], u[2])

HandlerTables == pc' \in [Handlers -> {"idle"} \union Statements] /\ DOMAIN loc' = Handlers

\* The locals after a step, in terms of the tables before it.
LocalsMeant(h) ==
  pc'[h] # "idle" =>
    /\ loc'[h] \in Locals
    /\ UserMeant(loc'[h].user, loc'[h].born)
    /\ PolicyMeant(loc'[h].policy, loc'[h].policyBorn)

HandlersMeant == HandlerTables /\ \A h \in Handlers : LocalsMeant(h)

\* A jump of handler h leaves the other handlers where they are.
LEMMA GotoStep ==
  ASSUME TypeOK, HandlersRight, NEW h \in Handlers, NEW s \in {"idle"} \union Statements, NEW l,
         Goto(h, s, l),
         s = "idle" \/ /\ l \in Locals /\ UserMeant(l.user, l.born)
                       /\ PolicyMeant(l.policy, l.policyBorn)
  PROVE  HandlersMeant
<1>1. HandlerTables /\ pc'[h] = s /\ loc'[h] = l
  BY DEF TypeOK, Goto, HandlerTables
<1>2. \A g \in Handlers \ {h} : pc'[g] = pc[g] /\ loc'[g] = loc[g]
  BY DEF TypeOK, Goto
<1>3. LocalsMeant(h)
  BY <1>1 DEF LocalsMeant
<1>4. \A g \in Handlers \ {h} : LocalsMeant(g)
  BY <1>2 DEF LocalsMeant, TypeOK, HandlersRight
<1> QED
  BY <1>1, <1>3, <1>4 DEF HandlersMeant

\* An answered request means nobody.
LEMMA FinishStep ==
  ASSUME TypeOK, HandlersRight, NEW h \in Handlers, Finish(h)
  PROVE  HandlersMeant
BY GotoStep DEF Finish

\* The locals of a handler are a record with these fields.
LEMMA GrantLocals ==
  ASSUME NEW user \in Nat, NEW born \in Nat, NEW name \in PolicyNames, NEW doc \in Docs,
         NEW policy \in Nat, NEW policyBorn \in Nat
  PROVE  LET l == [user |-> user, born |-> born, policyName |-> name, doc |-> doc,
                   policy |-> policy, policyBorn |-> policyBorn]
         IN  /\ l \in Locals
             /\ l.user = user /\ l.born = born
             /\ l.policy = policy /\ l.policyBorn = policyBorn
BY DEF Locals

\* A form of the console that names what it means.
LEMMA ConsoleGrantStep ==
  ASSUME TypeOK, HandlersRight, NEW h \in Handlers, NEW operation, NEW s \in Statements,
         NEW user \in Nat \X Nat, NEW policy \in Nat \X Nat,
         ConsoleGrant(h, operation, s, user, policy),
         UserMeant(user[1], user[2]), PolicyMeant(policy[1], policy[2])
  PROVE  HandlersMeant
<1>1. PICK name \in PolicyNames, doc \in Docs :
        Goto(h, s, [user |-> user[1], born |-> user[2], policyName |-> name, doc |-> doc,
                    policy |-> policy[1], policyBorn |-> policy[2]])
  BY DEF ConsoleGrant
<1> DEFINE l == [user |-> user[1], born |-> user[2], policyName |-> name, doc |-> doc,
                 policy |-> policy[1], policyBorn |-> policy[2]]
<1>2. /\ l \in Locals /\ l.user = user[1] /\ l.born = user[2]
      /\ l.policy = policy[1] /\ l.policyBorn = policy[2]
  BY GrantLocals
<1>3. Goto(h, s, l)
  BY <1>1
<1> HIDE DEF l
<1> QED
  BY <1>2, <1>3, GotoStep

\* Every handler holds what it means after every step.
LEMMA HandlerStep ==
  ASSUME ReadsTypeOK, BornOnce, HandlersRight, ReadRight, [ConsoleNext]_consoleVars
  PROVE  HandlersMeant
<1> USE DEF ReadsTypeOK
<1>0. UNCHANGED <<pc, loc>> => HandlersMeant
  BY DEF HandlersMeant, HandlerTables, LocalsMeant, TypeOK, HandlersRight
<1>a. Statements = {"insert_key", "put_inline", "attach_load", "detach_load", "attach", "detach"}
  BY DEF Statements
<1>1. ASSUME NEW h \in Handlers, NEW operation, NEW s \in Statements,
             FindUser(h, operation, s)
      PROVE  HandlersMeant
  <2>1. PICK id \in UserIds, name \in PolicyNames, doc \in Docs :
          Goto(h, s, [user |-> id, born |-> users[id].born, policyName |-> name,
                      doc |-> doc, policy |-> 0, policyBorn |-> 0])
    BY <1>1 DEF FindUser
  <2> DEFINE l == [user |-> id, born |-> users[id].born, policyName |-> name,
                   doc |-> doc, policy |-> 0, policyBorn |-> 0]
  <2>2. id \in Nat /\ users[id].born \in Nat
    BY DEF TypeOK, UserRow
  <2>3. /\ l \in Locals /\ l.user = id /\ l.born = users[id].born
        /\ l.policy = 0 /\ l.policyBorn = 0
    BY <2>2, GrantLocals
  <2>4. Goto(h, s, l)
    BY <2>1
  <2> HIDE DEF l
  <2> QED
    BY <2>3, <2>4, GotoStep, FoundMeant
<1>2. ASSUME NEW h \in Handlers, FindPolicy(h)
      PROVE  HandlersMeant
  <2>1. loc[h] \in Locals /\ pc[h] # "idle"
    BY <1>2 DEF FindPolicy, TypeOK
  <2>2. ASSUME NEW id \in PolicyIds, NEW s \in {"attach", "detach"},
               Goto(h, s, [loc[h] EXCEPT !.policy = id, !.policyBorn = policies[id].born])
        PROVE  HandlersMeant
    <3> DEFINE old == loc[h]
               born == policies[id].born
               l == [old EXCEPT !.policy = id, !.policyBorn = born]
    <3>1. id \in Nat /\ born \in Nat /\ old \in Locals
      BY <2>1 DEF TypeOK, PolicyRow
    <3>2. /\ l \in Locals /\ l.user = old.user /\ l.born = old.born
          /\ l.policy = id /\ l.policyBorn = born
      <4> HIDE DEF old, born
      <4> DEFINE mid == [old EXCEPT !.policy = id]
      <4>1. mid \in Locals /\ mid.user = old.user /\ mid.born = old.born /\ mid.policy = id
        BY <3>1 DEF Locals
      <4>2. l = [mid EXCEPT !.policyBorn = born]
        OBVIOUS
      <4> HIDE DEF mid, l
      <4> QED
        BY <3>1, <4>1, <4>2 DEF Locals
    <3>3. Goto(h, s, l)
      BY <2>2
    <3> HIDE DEF l
    <3> QED
      <4>1. UserMeant(l.user, l.born) /\ PolicyMeant(l.policy, l.policyBorn)
        BY <2>1, <3>2, FoundMeant DEF HandlersRight
      <4>2. s \in Statements
        BY <1>a
      <4> QED
        BY <3>2, <3>3, <4>1, <4>2, GotoStep
  <2>3. \/ Finish(h)
        \/ \E id \in PolicyIds, s \in {"attach", "detach"} :
             Goto(h, s, [loc[h] EXCEPT !.policy = id, !.policyBorn = policies[id].born])
    BY <1>2 DEF FindPolicy, get_managed_policy
  <2> QED
    BY <2>2, <2>3, FinishStep
<1>3. ASSUME NEW h \in Handlers, Handle(h)
      PROVE  HandlersMeant
  BY <1>a, <1>1, <1>2, <1>3, FinishStep DEF Handle, CreateAccessKey, PutUserPolicy,
     AttachUserPolicy, DetachUserPolicy, InsertKey, PutInlinePolicy, Attach, Detach, Busy
<1>4. ASSUME NEW h \in Handlers,
             \/ ConsoleCreateAccessKey(h) \/ ConsolePutInlinePolicy(h)
             \/ attach_policy_to_principal(h) \/ detach_policy_from_principal(h)
      PROVE  HandlersMeant
  <2>1. reading \in UserRead
    BY <1>4 DEF ConsoleCreateAccessKey, ConsolePutInlinePolicy, attach_policy_to_principal,
       detach_policy_from_principal, OnScreen, NoRead, PolicyRead
  <2>2. /\ <<reading.id, reading.shown>> \in Nat \X Nat
        /\ UserMeant(reading.id, reading.shown)
    BY <2>1 DEF UserRead, ReadRight
  <2>3. \A p \in reading.attached \union reading.offered :
          p \in Nat \X Nat /\ PolicyMeant(p[1], p[2])
    BY <2>1 DEF UserRead, ReadRight
  <2>4. <<0, 0>> \in Nat \X Nat /\ PolicyMeant(<<0, 0>>[1], <<0, 0>>[2])
    BY FoundMeant
  <2>5. ASSUME NEW operation, NEW s \in Statements, NEW p \in Nat \X Nat,
               PolicyMeant(p[1], p[2]),
               ConsoleGrant(h, operation, s, <<reading.id, reading.shown>>, p)
        PROVE  HandlersMeant
    <3> DEFINE u == <<reading.id, reading.shown>>
    <3>1. u \in Nat \X Nat /\ UserMeant(u[1], u[2]) /\ ConsoleGrant(h, operation, s, u, p)
      BY <2>2, <2>5
    <3> HIDE DEF u
    <3> QED
      BY <2>5, <3>1, ConsoleGrantStep
  <2>6. CASE ConsoleCreateAccessKey(h) \/ ConsolePutInlinePolicy(h)
    BY <1>a, <2>4, <2>5, <2>6 DEF ConsoleCreateAccessKey, ConsolePutInlinePolicy
  <2>7. CASE attach_policy_to_principal(h) \/ detach_policy_from_principal(h)
    BY <1>a, <2>3, <2>5, <2>7 DEF attach_policy_to_principal, detach_policy_from_principal
  <2> QED
    BY <1>4, <2>6, <2>7
<1>5. ASSUME NEW h \in Handlers, attach_policy(h) \/ detach_policy(h)
      PROVE  HandlersMeant
  <2>1. reading \in PolicyRead
    BY <1>5 DEF attach_policy, detach_policy, OnScreen, NoRead, UserRead, UserReads
  <2>2. /\ <<reading.id, reading.shown>> \in Nat \X Nat
        /\ PolicyMeant(reading.id, reading.shown)
    BY <2>1 DEF PolicyRead, ReadRight
  <2>3. \A u \in reading.attached \union reading.offered :
          u \in Nat \X Nat /\ UserMeant(u[1], u[2])
    BY <2>1 DEF PolicyRead, ReadRight
  <2>4. ASSUME NEW operation, NEW s \in Statements,
               NEW u \in reading.attached \union reading.offered,
               ConsoleGrant(h, operation, s, u, <<reading.id, reading.shown>>)
        PROVE  HandlersMeant
    <3> DEFINE p == <<reading.id, reading.shown>>
    <3>1. p \in Nat \X Nat /\ PolicyMeant(p[1], p[2]) /\ ConsoleGrant(h, operation, s, u, p)
      BY <2>2, <2>4
    <3> HIDE DEF p
    <3> QED
      BY <2>3, <3>1, ConsoleGrantStep
  <2> QED
    BY <1>a, <1>5, <2>4 DEF attach_policy, detach_policy
<1>6. CASE Restart
  BY <1>6 DEF Restart, HandlersMeant, HandlerTables, LocalsMeant
<1> QED
  BY <1>0, <1>3, <1>4, <1>5, <1>6, StepKinds, ReadsKeepTables DEF HandlerActions,
     CreateUser, DeleteUser, CreatePolicy, DeletePolicy, UpdateManagedPolicy,
     DeleteAccessKey, DeleteInlinePolicy, iamVars

--------------------------------------------------------------------------------
(* The rows that refer to users and policies. *)

\* Every key, inline policy and attachment refers to what its handler meant.
RowsRight ==
  /\ \A k \in KeyIds : UserMeant(keys[k].user, keys[k].madeFor)
  /\ \A x \in DOMAIN inline : UserMeant(x[1], inline[x].madeFor)
  /\ \A x \in DOMAIN attached :
       UserMeant(x[1], attached[x].madeFor) /\ PolicyMeant(x[2], attached[x].policy)

\* The rows after a step, in terms of the users and policies before it.
KeysMeant ==
  /\ madeKeys' \in Nat
  /\ keys' \in [KeyIds' -> KeyRow] /\ KeyIds' \subseteq 1..madeKeys'
  /\ \A k \in KeyIds' : /\ UserMeant(keys'[k].user, keys'[k].madeFor)
                        /\ keys'[k].user \in UserIds'

InlineMeant ==
  /\ inline' \in [DOMAIN inline' -> InlineRow] /\ DOMAIN inline' \subseteq Nat \X PolicyNames
  /\ \A x \in DOMAIN inline' : UserMeant(x[1], inline'[x].madeFor) /\ x[1] \in UserIds'

AttachedMeant ==
  /\ attached' \in [DOMAIN attached' -> AttachmentRow] /\ DOMAIN attached' \subseteq Nat \X Nat
  /\ \A x \in DOMAIN attached' :
       /\ UserMeant(x[1], attached'[x].madeFor) /\ x[1] \in UserIds'
       /\ PolicyMeant(x[2], attached'[x].policy) /\ x[2] \in PolicyIds'

\* Keys, inline policies and attachments after a step are of the users and policies meant.
LEMMA RowsStep ==
  ASSUME TypeOK, HandlersRight, RowsRight, NoOrphans, [ConsoleNext]_consoleVars
  PROVE  KeysMeant /\ InlineMeant /\ AttachedMeant
<1> USE IamAssumption
<1>0. /\ keys \in [DOMAIN keys -> KeyRow] /\ KeyIds = DOMAIN keys /\ madeKeys \in Nat
      /\ inline \in [DOMAIN inline -> InlineRow]
      /\ attached \in [DOMAIN attached -> AttachmentRow]
  BY DEF TypeOK, KeyIds
<1>a. ASSUME UNCHANGED <<keys, madeKeys>>, UserIds \subseteq UserIds'
      PROVE  KeysMeant
  BY <1>a DEF KeysMeant, TypeOK, RowsRight, NoOrphans, KeyIds
<1>b. ASSUME UNCHANGED inline, UserIds \subseteq UserIds'
      PROVE  InlineMeant
  BY <1>b DEF InlineMeant, TypeOK, RowsRight, NoOrphans
<1>c. ASSUME UNCHANGED attached, UserIds \subseteq UserIds', PolicyIds \subseteq PolicyIds'
      PROVE  AttachedMeant
  BY <1>c DEF AttachedMeant, TypeOK, RowsRight, NoOrphans
<1>d. UNCHANGED users => UserIds \subseteq UserIds'
  BY DEF UserIds
<1>e. UNCHANGED policies => PolicyIds \subseteq PolicyIds'
  BY DEF PolicyIds
<1>1. CASE CreateUser
  <2>1. UserIds \subseteq UserIds'
    BY <1>1 DEF CreateUser, Upsert, UserIds
  <2> QED
    BY <1>1, <1>a, <1>b, <1>c, <1>e, <2>1 DEF CreateUser
<1>2. CASE DeleteUser
  <2>1. PICK id \in UserIds : delete_users({id})
    BY <1>2 DEF DeleteUser
  <2>2. UserIds' = UserIds \ {id} /\ PolicyIds' = PolicyIds
    BY <1>2, <2>1 DEF DeleteUser, delete_users, Without, UserIds, PolicyIds
  <2>3. KeysMeant
    <3> DEFINE gone == {k \in KeyIds : keys[k].user \in {id}}
    <3>1. keys' = Without(keys, gone) /\ madeKeys' = madeKeys
      BY <1>2, <2>1 DEF DeleteUser, delete_users
    <3> HIDE DEF gone
    <3>2. /\ KeyIds' = KeyIds \ gone /\ keys' \in [KeyIds' -> KeyRow]
          /\ \A k \in KeyIds' : keys'[k] = keys[k]
      BY <1>0, <3>1 DEF Without, KeyIds
    <3> QED
      BY <1>0, <2>2, <3>1, <3>2 DEF gone, KeysMeant, RowsRight, NoOrphans, TypeOK
  <2>4. InlineMeant
    <3> DEFINE gone == {x \in DOMAIN inline : x[1] \in {id}}
    <3>1. inline' = Without(inline, gone)
      BY <2>1 DEF delete_users
    <3> HIDE DEF gone
    <3>2. /\ DOMAIN inline' = DOMAIN inline \ gone /\ inline' \in [DOMAIN inline' -> InlineRow]
          /\ \A x \in DOMAIN inline' : inline'[x] = inline[x]
      BY <1>0, <3>1 DEF Without
    <3> QED
      BY <2>2, <3>2 DEF gone, InlineMeant, RowsRight, NoOrphans, TypeOK
  <2>5. AttachedMeant
    <3> DEFINE gone == {x \in DOMAIN attached : x[1] \in {id}}
    <3>1. attached' = Without(attached, gone)
      BY <2>1 DEF delete_users
    <3> HIDE DEF gone
    <3>2. /\ DOMAIN attached' = DOMAIN attached \ gone
          /\ attached' \in [DOMAIN attached' -> AttachmentRow]
          /\ \A x \in DOMAIN attached' : attached'[x] = attached[x]
      BY <1>0, <3>1 DEF Without
    <3> QED
      BY <2>2, <3>2 DEF gone, AttachedMeant, RowsRight, NoOrphans, TypeOK
  <2> QED
    BY <2>3, <2>4, <2>5
<1>3. CASE CreatePolicy
  <2>1. PolicyIds \subseteq PolicyIds'
    BY <1>3 DEF CreatePolicy, Upsert, PolicyIds
  <2> QED
    BY <1>3, <1>a, <1>b, <1>c, <1>d, <2>1 DEF CreatePolicy
<1>4. CASE DeletePolicy
  <2>1. PICK id \in PolicyIds : delete_managed_policies({id})
    BY <1>4 DEF DeletePolicy
  <2>2. PolicyIds' = PolicyIds \ {id} /\ UserIds' = UserIds
    BY <1>4, <2>1 DEF DeletePolicy, delete_managed_policies, Without, UserIds, PolicyIds
  <2> DEFINE gone == {x \in DOMAIN attached : x[2] \in {id}}
  <2>3. attached' = Without(attached, gone)
    BY <2>1 DEF delete_managed_policies
  <2> HIDE DEF gone
  <2>4. /\ DOMAIN attached' = DOMAIN attached \ gone
        /\ attached' \in [DOMAIN attached' -> AttachmentRow]
        /\ \A x \in DOMAIN attached' : attached'[x] = attached[x]
    BY <1>0, <2>3 DEF Without
  <2>5. AttachedMeant
    BY <2>2, <2>4 DEF gone, AttachedMeant, RowsRight, NoOrphans, TypeOK
  <2> QED
    BY <1>4, <1>a, <1>b, <1>d, <2>5 DEF DeletePolicy
<1>5. CASE UpdateManagedPolicy
  <2>1. PolicyIds \subseteq PolicyIds'
    BY <1>5 DEF UpdateManagedPolicy, PolicyIds, TypeOK
  <2> QED
    BY <1>5, <1>a, <1>b, <1>c, <1>d, <2>1 DEF UpdateManagedPolicy
<1>6. CASE DeleteAccessKey
  <2>1. PICK k \in KeyIds : keys' = Without(keys, {k})
    BY <1>6 DEF DeleteAccessKey
  <2>2. /\ KeyIds' = KeyIds \ {k} /\ keys' \in [KeyIds' -> KeyRow]
        /\ \A x \in KeyIds' : keys'[x] = keys[x]
    BY <1>0, <2>1 DEF Without, KeyIds
  <2>3. KeysMeant
    BY <1>0, <1>6, <1>d, <2>2 DEF KeysMeant, RowsRight, NoOrphans, TypeOK, DeleteAccessKey
  <2> QED
    BY <1>6, <1>b, <1>c, <1>d, <1>e, <2>3 DEF DeleteAccessKey
<1>7. CASE DeleteInlinePolicy
  <2>1. PICK y \in DOMAIN inline : inline' = Without(inline, {y})
    BY <1>7 DEF DeleteInlinePolicy
  <2>2. /\ DOMAIN inline' = DOMAIN inline \ {y} /\ inline' \in [DOMAIN inline' -> InlineRow]
        /\ \A x \in DOMAIN inline' : inline'[x] = inline[x]
    BY <1>0, <2>1 DEF Without
  <2>3. InlineMeant
    BY <1>7, <1>d, <2>2 DEF InlineMeant, RowsRight, NoOrphans, TypeOK, DeleteInlinePolicy
  <2> QED
    BY <1>7, <1>a, <1>c, <1>d, <1>e, <2>3 DEF DeleteInlinePolicy
<1>8. ASSUME NEW h \in Handlers, InsertKey(h)
      PROVE  KeysMeant /\ InlineMeant /\ AttachedMeant
  <2>0. loc[h] \in Locals /\ UserMeant(loc[h].user, loc[h].born) /\ UserIds' = UserIds
    BY <1>8 DEF InsertKey, TypeOK, HandlersRight, UserIds
  <2>1. KeysMeant
    <3>1. CASE UNCHANGED <<keys, madeKeys>>
      BY <1>a, <2>0, <3>1
    <3>2. CASE ~UNCHANGED <<keys, madeKeys>>
      <4> DEFINE row == [user |-> loc[h].user, madeFor |-> loc[h].born]
      <4>1. /\ loc[h].user \in UserIds
            /\ keys' = Upsert(keys, madeKeys + 1, row) /\ madeKeys' = madeKeys + 1
        BY <1>8, <3>2 DEF InsertKey
      <4>2. row \in KeyRow /\ row.user = loc[h].user /\ row.madeFor = loc[h].born
        BY <2>0 DEF KeyRow, Locals
      <4> HIDE DEF row
      <4>3. /\ KeyIds' = KeyIds \union {madeKeys + 1} /\ keys' \in [KeyIds' -> KeyRow]
            /\ keys'[madeKeys + 1] = row
            /\ \A k \in KeyIds : k # madeKeys + 1 => keys'[k] = keys[k]
        BY <1>0, <4>1, <4>2 DEF Upsert, KeyIds
      <4>4. KeyIds' \subseteq 1..madeKeys' /\ madeKeys' \in Nat
        BY <4>1, <4>3 DEF TypeOK
      <4> QED
        BY <2>0, <4>1, <4>2, <4>3, <4>4 DEF KeysMeant, RowsRight, NoOrphans
    <3> QED
      BY <3>1, <3>2
  <2> QED
    BY <1>8, <1>b, <1>c, <1>d, <1>e, <2>1 DEF InsertKey
<1>9. ASSUME NEW h \in Handlers, PutInlinePolicy(h)
      PROVE  KeysMeant /\ InlineMeant /\ AttachedMeant
  <2>0. loc[h] \in Locals /\ UserMeant(loc[h].user, loc[h].born) /\ UserIds' = UserIds
    BY <1>9 DEF PutInlinePolicy, TypeOK, HandlersRight, UserIds
  <2>1. InlineMeant
    <3>1. CASE UNCHANGED inline
      BY <1>b, <2>0, <3>1
    <3>2. CASE ~UNCHANGED inline
      <4> DEFINE row == [doc |-> loc[h].doc, madeFor |-> loc[h].born]
                 x == <<loc[h].user, loc[h].policyName>>
      <4>1. loc[h].user \in UserIds /\ inline' = Upsert(inline, x, row)
        BY <1>9, <3>2 DEF PutInlinePolicy
      <4>2. /\ row \in InlineRow /\ row.madeFor = loc[h].born
            /\ x \in Nat \X PolicyNames /\ x[1] = loc[h].user
        BY <2>0 DEF InlineRow, Locals
      <4> HIDE DEF row, x
      <4>3. /\ DOMAIN inline' = DOMAIN inline \union {x}
            /\ inline' \in [DOMAIN inline' -> InlineRow] /\ inline'[x] = row
            /\ \A y \in DOMAIN inline : y # x => inline'[y] = inline[y]
        BY <1>0, <4>1, <4>2 DEF Upsert
      <4> QED
        BY <2>0, <4>1, <4>2, <4>3 DEF InlineMeant, RowsRight, NoOrphans, TypeOK
    <3> QED
      BY <3>1, <3>2
  <2> QED
    BY <1>9, <1>a, <1>c, <1>d, <1>e, <2>1 DEF PutInlinePolicy
<1>10. ASSUME NEW h \in Handlers, Attach(h) \/ Detach(h)
       PROVE  KeysMeant /\ InlineMeant /\ AttachedMeant
  <2>0. /\ loc[h] \in Locals /\ UserMeant(loc[h].user, loc[h].born)
        /\ PolicyMeant(loc[h].policy, loc[h].policyBorn)
        /\ UserIds' = UserIds /\ PolicyIds' = PolicyIds
    BY <1>10 DEF Attach, Detach, TypeOK, HandlersRight, UserIds, PolicyIds
  <2>1. ASSUME UNCHANGED attached
        PROVE  AttachedMeant
    BY <1>c, <2>0, <2>1
  <2>2. ASSUME Attach(h), ~UNCHANGED attached
        PROVE  AttachedMeant
    <3> DEFINE row == [madeFor |-> loc[h].born, policy |-> loc[h].policyBorn]
               x == <<loc[h].user, loc[h].policy>>
    <3>1. /\ loc[h].user \in UserIds /\ loc[h].policy \in PolicyIds
          /\ attached' = Upsert(attached, x, row)
      BY <2>2 DEF Attach, MayAttach
    <3>2. /\ row \in AttachmentRow /\ row.madeFor = loc[h].born
          /\ row.policy = loc[h].policyBorn
          /\ x \in Nat \X Nat /\ x[1] = loc[h].user /\ x[2] = loc[h].policy
      BY <2>0 DEF AttachmentRow, Locals
    <3> HIDE DEF row, x
    <3>3. /\ DOMAIN attached' = DOMAIN attached \union {x}
          /\ attached' \in [DOMAIN attached' -> AttachmentRow] /\ attached'[x] = row
          /\ \A y \in DOMAIN attached : y # x => attached'[y] = attached[y]
      BY <1>0, <3>1, <3>2 DEF Upsert
    <3> QED
      BY <2>0, <3>1, <3>2, <3>3 DEF AttachedMeant, RowsRight, NoOrphans, TypeOK
  <2>3. ASSUME Detach(h)
        PROVE  AttachedMeant
    <3> DEFINE gone == {<<loc[h].user, loc[h].policy>>}
    <3>1. attached' = Without(attached, gone)
      BY <2>3 DEF Detach
    <3> HIDE DEF gone
    <3>2. /\ DOMAIN attached' = DOMAIN attached \ gone
          /\ attached' \in [DOMAIN attached' -> AttachmentRow]
          /\ \A x \in DOMAIN attached' : attached'[x] = attached[x]
      BY <1>0, <3>1 DEF Without
    <3> QED
      BY <2>0, <3>2 DEF AttachedMeant, RowsRight, NoOrphans, TypeOK
  <2>4. AttachedMeant
    BY <1>10, <2>1, <2>2, <2>3
  <2> QED
    BY <1>10, <1>a, <1>b, <1>d, <2>4 DEF Attach, Detach
<1>11. ASSUME UNCHANGED <<users, keys, inline, policies, attached, madeKeys>>
       PROVE  KeysMeant /\ InlineMeant /\ AttachedMeant
  BY <1>11, <1>a, <1>b, <1>c, <1>d, <1>e
<1>12. ASSUME NEW h \in Handlers, HandlerActions(h), ~InsertKey(h), ~PutInlinePolicy(h),
              ~Attach(h), ~Detach(h)
       PROVE  UNCHANGED <<users, keys, inline, policies, attached, madeKeys>>
  BY <1>12 DEF HandlerActions, Handle, CreateAccessKey, PutUserPolicy, AttachUserPolicy,
     DetachUserPolicy, FindUser, FindPolicy, Busy, ConsoleCreateAccessKey,
     ConsolePutInlinePolicy, attach_policy_to_principal, detach_policy_from_principal,
     attach_policy, detach_policy, ConsoleGrant
<1>13. CASE Restart \/ ReadActions \/ UNCHANGED iamVars
  BY <1>11, <1>13, ReadsKeepTables DEF Restart, iamVars
<1> QED
  BY <1>1, <1>2, <1>3, <1>4, <1>5, <1>6, <1>7, <1>8, <1>9, <1>10, <1>11, <1>12, <1>13,
     StepKinds

--------------------------------------------------------------------------------
(* The reads. *)

\* A read of a user goes through its own statements only.
StepsRight(r) ==
  /\ r.kind = "list_keys" => r.step \in {"keys", "done"}
  /\ r.kind = "get_inline" => r.step \in {"inline", "done"}
  /\ r.kind = "list_attached" => r.step \in {"attached", "done"}

\* An attached policy that has been there since the read began is the one listed.
ListedSince(r) ==
  \A q \in r.attached : \A p \in PolicyIds :
    q[1] = p /\ policies[p].born \in r.since => q[2] = policies[p].born

\* Exactly one of three.
OneOf(a, b, c) == (a /\ ~b /\ ~c) \/ (~a /\ b /\ ~c) \/ (~a /\ ~b /\ c)

UserReadInv(r) ==
  /\ StepsRight(r)
  /\ r.since \subseteq 1..madePolicies
  /\ r.shown \in LiveUsers => r.owners \subseteq {r.shown}
  /\ ListedSince(r)
  /\ r.kind = "principal" /\ r.step = "done" =>
       \A p \in PolicyIds : policies[p].born \in r.since =>
         (<<p, policies[p].born>> \in r.attached) # (<<p, policies[p].born>> \in r.offered)

PolicyReadInv(r) ==
  /\ r.since \subseteq 1..madeUsers
  /\ r.step = "principals" => r.left = {} /\ r.attached = {} /\ r.offered = {}
  /\ r.step = "done" => r.left = {}
  /\ r.step # "principals" =>
       \A u \in UserIds : users[u].born \in r.since =>
         OneOf(<<u, users[u].born>> \in r.left, <<u, users[u].born>> \in r.attached,
               <<u, users[u].born>> \in r.offered)

ReadInv ==
  /\ reading \in UserRead => UserReadInv(reading)
  /\ reading \in PolicyRead => PolicyReadInv(reading)

\* The three kinds of read differ.
LEMMA ReadKinds ==
  /\ NoRead \notin UserRead /\ NoRead \notin PolicyRead
  /\ \A r \in UserRead : r.kind \in UserReads /\ r \notin PolicyRead
  /\ \A r \in PolicyRead : r.kind = "policy"
BY DEF NoRead, UserRead, PolicyRead, UserReads

\* What a read holds stays true while the tables change.
LEMMA ReadKept ==
  ASSUME ReadsTypeOK, ReadRight, ReadInv, [ConsoleNext]_consoleVars, UNCHANGED reading
  PROVE  ReadInv'
<1>0. /\ UsersLater /\ PoliciesLater /\ madeUsers \in Nat /\ madePolicies \in Nat
  BY LaterStep DEF ReadsTypeOK, TypeOK
<1>1. ASSUME reading \in UserRead
      PROVE  UserReadInv(reading)'
  <2>0. UserReadInv(reading) /\ UserMeant(reading.id, reading.shown) /\ reading.shown \in Nat
    BY <1>1 DEF ReadInv, ReadRight, UserRead
  <2>1. reading.since \subseteq 1..madePolicies'
    BY <1>0, <2>0 DEF UserReadInv, PoliciesLater
  <2>2. \A p \in PolicyIds' : policies'[p].born \in reading.since =>
          p \in PolicyIds /\ policies'[p].born = policies[p].born
    BY <1>0, <2>0 DEF UserReadInv, PoliciesLater
  <2>3. reading.shown \in LiveUsers' => reading.shown \in LiveUsers
    BY <1>0, <2>0 DEF UsersLater, UserMeant, LiveUsers
  <2>4. ListedSince(reading)'
    BY <2>0, <2>2 DEF UserReadInv, ListedSince
  <2>5. StepsRight(reading)'
    BY <2>0 DEF UserReadInv, StepsRight
  <2>6. ASSUME reading.kind = "principal", reading.step = "done", NEW p \in PolicyIds',
               policies'[p].born \in reading.since
        PROVE  (<<p, policies'[p].born>> \in reading.attached)
                 # (<<p, policies'[p].born>> \in reading.offered)
    BY <2>0, <2>2, <2>6 DEF UserReadInv
  <2> QED
    BY <2>0, <2>1, <2>3, <2>4, <2>5, <2>6 DEF UserReadInv
<1>2. ASSUME reading \in PolicyRead
      PROVE  PolicyReadInv(reading)'
  <2>0. PolicyReadInv(reading)
    BY <1>2 DEF ReadInv
  <2>1. reading.since \subseteq 1..madeUsers'
    BY <1>0, <2>0 DEF PolicyReadInv, UsersLater
  <2>2. \A u \in UserIds' : users'[u].born \in reading.since =>
          u \in UserIds /\ users'[u].born = users[u].born
    BY <1>0, <2>0 DEF PolicyReadInv, UsersLater
  <2>3. ASSUME reading.step # "principals", NEW u \in UserIds',
               users'[u].born \in reading.since
        PROVE  OneOf(<<u, users'[u].born>> \in reading.left,
                     <<u, users'[u].born>> \in reading.attached,
                     <<u, users'[u].born>> \in reading.offered)
    BY <2>0, <2>2, <2>3 DEF PolicyReadInv
  <2> QED
    BY <2>0, <2>1, <2>3 DEF PolicyReadInv
<1> QED
  BY <1>1, <1>2 DEF ReadInv

\* A read that is as it should be.
GoodUserRead(r) ==
  /\ r \in UserRead
  /\ UserMeant(r.id, r.shown)
  /\ \A p \in r.attached \union r.offered : PolicyMeant(p[1], p[2])
  /\ UserReadInv(r)

GoodPolicyRead(r) ==
  /\ r \in PolicyRead
  /\ PolicyMeant(r.id, r.shown)
  /\ \A u \in r.left \union r.attached \union r.offered : UserMeant(u[1], u[2])
  /\ PolicyReadInv(r)

GoodRead(r) == r = NoRead \/ GoodUserRead(r) \/ GoodPolicyRead(r)

\* A new read of a user.
LEMMA FindTargetStep ==
  ASSUME TypeOK, BornOnce, NEW kind \in UserReads, FindTarget(kind)
  PROVE  GoodRead(reading')
<1>1. PICK id \in UserIds :
        reading' = [kind |-> kind, step |-> Following[kind].find, id |-> id,
                    shown |-> users[id].born, since |-> LivePolicies, owners |-> {},
                    attached |-> {}, offered |-> {}]
  BY DEF FindTarget
<1> DEFINE r == reading'
           step == Following[kind].find
<1>2. /\ step \in {"keys", "inline", "attached"}
      /\ kind = "list_keys" => step = "keys"
      /\ kind = "get_inline" => step = "inline"
      /\ kind = "list_attached" => step = "attached"
  BY DEF Following, UserReads
<1>3. /\ id \in Nat /\ users[id].born \in Nat
      /\ LivePolicies \subseteq 1..madePolicies
  BY DEF TypeOK, UserRow, PolicyRow, LivePolicies, BornOnce
<1> HIDE DEF step
<1>4. /\ r.kind = kind /\ r.step = step /\ r.id = id /\ r.shown = users[id].born
      /\ r.since = LivePolicies /\ r.owners = {} /\ r.attached = {} /\ r.offered = {}
  BY <1>1 DEF step
<1>5. r \in UserRead
  BY <1>1, <1>2, <1>3 DEF UserRead, step
<1> HIDE DEF r
<1>6. UserMeant(r.id, r.shown)
  BY <1>4, FoundMeant
<1>7. UserReadInv(r)
  BY <1>2, <1>3, <1>4 DEF UserReadInv, StepsRight, ListedSince
<1> QED
  BY <1>4, <1>5, <1>6, <1>7 DEF GoodRead, GoodUserRead, r

\* A new read of a policy.
LEMMA PolicyDetailStep ==
  ASSUME TypeOK, BornOnce, managed_policy_detail
  PROVE  GoodRead(reading')
<1>1. PICK id \in PolicyIds :
        reading' = [kind |-> "policy", step |-> "principals", id |-> id,
                    shown |-> policies[id].born, since |-> LiveUsers, left |-> {},
                    attached |-> {}, offered |-> {}]
  BY DEF managed_policy_detail
<1> DEFINE r == reading'
<1>2. /\ id \in Nat /\ policies[id].born \in Nat
      /\ LiveUsers \subseteq 1..madeUsers
  BY DEF TypeOK, UserRow, PolicyRow, LiveUsers, BornOnce
<1>3. /\ r.step = "principals" /\ r.id = id /\ r.shown = policies[id].born
      /\ r.since = LiveUsers /\ r.left = {} /\ r.attached = {} /\ r.offered = {}
  BY <1>1
<1>4. r \in PolicyRead
  BY <1>1, <1>2 DEF PolicyRead
<1> HIDE DEF r
<1>5. PolicyMeant(r.id, r.shown)
  BY <1>3, FoundMeant
<1>6. PolicyReadInv(r)
  BY <1>2, <1>3 DEF PolicyReadInv
<1> QED
  BY <1>3, <1>4, <1>5, <1>6 DEF GoodRead, GoodPolicyRead, r

\* The rows that a statement by the user's id returns are that user's.
LEMMA OwnersFound ==
  ASSUME TypeOK, NoOrphans, NEW id, NEW step
  PROVE  OwnersOf(step, id) \subseteq {users[i].born : i \in UserIds \intersect {id}}
<1>1. KeysOf(id) \subseteq {users[i].born : i \in UserIds \intersect {id}}
  BY DEF KeysOf, NoOrphans
<1>2. InlineOf(id) \subseteq {users[i].born : i \in UserIds \intersect {id}}
  BY DEF InlineOf, NoOrphans
<1>3. AttachedTo(id) # {} => {users[id].born} \subseteq {users[i].born : i \in UserIds \intersect {id}}
  BY DEF AttachedTo, NoOrphans
<1> QED
  BY <1>1, <1>2, <1>3 DEF OwnersOf

\* The next statement of a read of a user.
LEMMA ReadStatementStep ==
  ASSUME TypeOK, BornOnce, NoOrphans, GoodRead(reading), ReadStatement
  PROVE  GoodRead(reading')
<1> DEFINE r == reading
           new == reading'
           step == Following[r.kind][r.step]
           owners == r.owners \union OwnersOf(r.step, r.id)
           listed == IF r.step = "attached" THEN PoliciesOf(r.id) ELSE r.attached
           offered == IF r.step = "options" THEN attach_options(r.attached) ELSE r.offered
<1>1. GoodUserRead(r) /\ r.kind \in UserReads /\ r.step # "done"
  BY ReadKinds DEF ReadStatement, GoodRead, GoodPolicyRead, NoRead, UserReads
<1>2. new = [r EXCEPT !.step = step, !.owners = owners, !.attached = listed,
                      !.offered = offered]
  BY DEF ReadStatement
<1>3. /\ step \in {"keys", "inline", "attached", "options", "done"}
      /\ r.kind = "principal" => (step = "done" <=> r.step = "options")
      /\ r.kind # "principal" => step = "done"
  BY <1>1 DEF Following, UserReads, GoodUserRead, UserReadInv, StepsRight, UserRead
<1>4. owners \subseteq Nat /\ (r.shown \in LiveUsers => owners \subseteq {r.shown})
  <2>1. OwnersOf(r.step, r.id) \subseteq {users[i].born : i \in UserIds \intersect {r.id}}
    BY OwnersFound
  <2>2. r.owners \subseteq Nat
    BY <1>1 DEF GoodUserRead, UserRead
  <2>3. \A i \in UserIds : users[i].born \in Nat
    BY DEF TypeOK, UserRow
  <2> QED
    BY <1>1, <2>1, <2>2, <2>3 DEF GoodUserRead, UserReadInv, UserMeant, LiveUsers
<1>5. \A p \in AttachedTo(r.id) : p \in PolicyIds
  BY DEF AttachedTo, NoOrphans
<1>6. \A p \in PolicyIds : <<p, policies[p].born>> \in Nat \X Nat
                             /\ PolicyMeant(p, policies[p].born)
  BY FoundMeant DEF TypeOK, PolicyRow
<1>7. /\ listed \subseteq Nat \X Nat /\ offered \subseteq Nat \X Nat
      /\ \A p \in listed \union offered : PolicyMeant(p[1], p[2])
  BY <1>1, <1>5, <1>6 DEF PoliciesOf, attach_options, GoodUserRead, UserRead
<1>8. /\ new \in UserRead /\ new.kind = r.kind /\ new.id = r.id /\ new.shown = r.shown
      /\ new.since = r.since /\ new.step = step /\ new.owners = owners
      /\ new.attached = listed /\ new.offered = offered
  <2>0. r \in UserRead
    BY <1>1 DEF GoodUserRead
  <2> HIDE DEF r, step, owners, listed, offered
  <2> DEFINE r1 == [r EXCEPT !.step = step]
             r2 == [r1 EXCEPT !.owners = owners]
             r3 == [r2 EXCEPT !.attached = listed]
             r4 == [r3 EXCEPT !.offered = offered]
  <2>1. /\ r1 \in UserRead /\ r1.kind = r.kind /\ r1.id = r.id /\ r1.shown = r.shown
        /\ r1.since = r.since /\ r1.step = step
    BY <1>3, <2>0 DEF UserRead
  <2>2. new = r4
    BY <1>2
  <2> HIDE DEF r1
  <2>3. /\ r2 \in UserRead /\ r2.kind = r.kind /\ r2.id = r.id /\ r2.shown = r.shown
        /\ r2.since = r.since /\ r2.step = step /\ r2.owners = owners
    BY <1>4, <2>1 DEF UserRead
  <2> HIDE DEF r2
  <2>4. /\ r3 \in UserRead /\ r3.kind = r.kind /\ r3.id = r.id /\ r3.shown = r.shown
        /\ r3.since = r.since /\ r3.step = step /\ r3.owners = owners /\ r3.attached = listed
    BY <1>7, <2>3 DEF UserRead
  <2> HIDE DEF r3
  <2>5. /\ r4 \in UserRead /\ r4.kind = r.kind /\ r4.id = r.id /\ r4.shown = r.shown
        /\ r4.since = r.since /\ r4.step = step /\ r4.owners = owners /\ r4.attached = listed
        /\ r4.offered = offered
    BY <1>7, <2>4 DEF UserRead
  <2> HIDE DEF r4
  <2> QED
    BY <2>2, <2>5
<1> HIDE DEF new
<1>9. ListedSince(new)
  <2>1. CASE r.step = "attached"
    BY <1>5, <1>8, <2>1 DEF ListedSince, PoliciesOf
  <2>2. CASE r.step # "attached"
    BY <1>1, <1>8, <2>2 DEF ListedSince, GoodUserRead, UserReadInv
  <2> QED
    BY <2>1, <2>2
<1>10. ASSUME new.kind = "principal", new.step = "done", NEW p \in PolicyIds,
              policies[p].born \in new.since
       PROVE  (<<p, policies[p].born>> \in new.attached)
                # (<<p, policies[p].born>> \in new.offered)
  <2>1. r.step = "options"
    BY <1>3, <1>8, <1>10
  <2>2. listed = r.attached /\ offered = attach_options(r.attached)
    BY <2>1
  <2>3. \A q \in listed : q[1] = p => q = <<p, policies[p].born>>
    <3>1. \A q \in listed : q \in Nat \X Nat
      BY <1>7
    <3>2. \A q \in listed : q[1] = p => q[2] = policies[p].born
      BY <1>8, <1>9, <1>10 DEF ListedSince
    <3> QED
      BY <3>1, <3>2
  <2> DEFINE row == <<p, policies[p].born>>
  <2>4. row[1] = p
    OBVIOUS
  <2>5. row \in offered <=> p \notin {q[1] : q \in listed}
    BY <2>2, <2>4 DEF attach_options
  <2> HIDE DEF row, listed, offered
  <2>6. (row \in listed) # (row \in offered)
    <3>1. CASE row \in listed
      BY <2>4, <2>5, <3>1
    <3>2. CASE row \notin listed
      BY <2>3, <2>5, <3>2 DEF row
    <3> QED
      BY <3>1, <3>2
  <2> QED
    BY <1>8, <2>6 DEF row
<1>11. StepsRight(new)
  BY <1>3, <1>8 DEF StepsRight
<1>12. UserReadInv(new)
  BY <1>1, <1>4, <1>8, <1>9, <1>10, <1>11 DEF UserReadInv, GoodUserRead
<1> QED
  BY <1>1, <1>7, <1>8, <1>12 DEF GoodRead, GoodUserRead, new

\* The users of the policy page.
LEMMA ListPrincipalsStep ==
  ASSUME TypeOK, BornOnce, GoodRead(reading), ListPrincipals
  PROVE  GoodRead(reading')
<1> DEFINE r == reading
           new == reading'
           step == IF UserIds = {} THEN "done" ELSE "ask"
           left == {<<u, users[u].born>> : u \in UserIds}
<1>1. GoodPolicyRead(r) /\ r.step = "principals"
  BY ReadKinds DEF ListPrincipals, GoodRead, GoodUserRead, NoRead, UserReads
<1>2. new = [r EXCEPT !.step = step, !.left = left]
  BY DEF ListPrincipals
<1>3. /\ left \subseteq Nat \X Nat
      /\ \A u \in left : UserMeant(u[1], u[2])
      /\ step = "done" => left = {}
      /\ step \in {"ask", "done"}
  BY FoundMeant DEF TypeOK, UserRow
<1>4. /\ new \in PolicyRead /\ new.id = r.id /\ new.shown = r.shown /\ new.since = r.since
      /\ new.step = step /\ new.left = left
      /\ new.attached = r.attached /\ new.offered = r.offered
  <2>0. r \in PolicyRead
    BY <1>1 DEF GoodPolicyRead
  <2> HIDE DEF r, step, left
  <2> DEFINE r1 == [r EXCEPT !.step = step]
             r2 == [r1 EXCEPT !.left = left]
  <2>1. /\ r1 \in PolicyRead /\ r1.id = r.id /\ r1.shown = r.shown /\ r1.since = r.since
        /\ r1.step = step /\ r1.attached = r.attached /\ r1.offered = r.offered
    BY <1>3, <2>0 DEF PolicyRead
  <2>2. new = r2
    BY <1>2
  <2> HIDE DEF r1
  <2>3. /\ r2 \in PolicyRead /\ r2.id = r.id /\ r2.shown = r.shown /\ r2.since = r.since
        /\ r2.step = step /\ r2.left = left
        /\ r2.attached = r.attached /\ r2.offered = r.offered
    BY <1>3, <2>1 DEF PolicyRead
  <2> HIDE DEF r2
  <2> QED
    BY <2>2, <2>3
<1>5. r.attached = {} /\ r.offered = {}
  BY <1>1 DEF GoodPolicyRead, PolicyReadInv
<1>6. \A u \in UserIds : <<u, users[u].born>> \in left
  OBVIOUS
<1> HIDE DEF new, step, left
<1>7. PolicyReadInv(new)
  BY <1>1, <1>3, <1>4, <1>5, <1>6 DEF PolicyReadInv, GoodPolicyRead, OneOf
<1> QED
  BY <1>1, <1>3, <1>4, <1>5, <1>7 DEF GoodRead, GoodPolicyRead, new

\* One of them is asked about.
LEMMA AskPrincipalStep ==
  ASSUME TypeOK, BornOnce, GoodRead(reading), AskPrincipal
  PROVE  GoodRead(reading')
<1> DEFINE r == reading
           new == reading'
<1>1. GoodPolicyRead(r) /\ r.step = "ask"
  <2>1. r.step = "ask" /\ r.kind = "policy"
    BY DEF AskPrincipal
  <2>2. r # NoRead /\ ~GoodUserRead(r)
    <3>1. NoRead.kind # "policy"
      BY DEF NoRead
    <3>2. "policy" \notin UserReads
      BY DEF UserReads
    <3>3. GoodUserRead(r) => r.kind \in UserReads
      <4>1. GoodUserRead(r) => r \in UserRead
        BY Zenon DEF GoodUserRead
      <4> QED
        BY ONLY <4>1, ReadKinds, Zenon
    <3> QED
      BY <2>1, <3>1, <3>2, <3>3
  <2> QED
    BY <2>1, <2>2 DEF GoodRead
<1>2. PICK u \in r.left :
        reading' = [reading EXCEPT
                      !.left = @ \ {u},
                      !.step = IF reading.left = {u} THEN "done" ELSE @,
                      !.attached = IF reading.id \in AttachedTo(u[1]) THEN @ \union {u} ELSE @,
                      !.offered = IF reading.id \in AttachedTo(u[1]) THEN @ ELSE @ \union {u}]
  BY Zenon DEF AskPrincipal
<1> DEFINE has == r.id \in AttachedTo(u[1])
           left == r.left \ {u}
           step == IF r.left = {u} THEN "done" ELSE "ask"
           listed == IF has THEN r.attached \union {u} ELSE r.attached
           offered == IF has THEN r.offered ELSE r.offered \union {u}
<1>3. new = [r EXCEPT !.left = left, !.step = step, !.attached = listed, !.offered = offered]
  BY <1>1, <1>2
<1>4. /\ left \subseteq Nat \X Nat /\ listed \subseteq Nat \X Nat /\ offered \subseteq Nat \X Nat
      /\ step \in {"ask", "done"} /\ (step = "done" => left = {})
      /\ \A x \in left \union listed \union offered : UserMeant(x[1], x[2])
  BY <1>1 DEF GoodPolicyRead, PolicyRead
<1>5. \A x : OneOf(x \in r.left, x \in r.attached, x \in r.offered) =>
               OneOf(x \in left, x \in listed, x \in offered)
  BY DEF OneOf
<1>6. /\ new \in PolicyRead /\ new.id = r.id /\ new.shown = r.shown /\ new.since = r.since
      /\ new.step = step /\ new.left = left /\ new.attached = listed /\ new.offered = offered
  <2>0. r \in PolicyRead
    BY <1>1 DEF GoodPolicyRead
  <2> HIDE DEF r, step, left, listed, offered
  <2> DEFINE r1 == [r EXCEPT !.left = left]
             r2 == [r1 EXCEPT !.step = step]
             r3 == [r2 EXCEPT !.attached = listed]
             r4 == [r3 EXCEPT !.offered = offered]
  <2>1. /\ r1 \in PolicyRead /\ r1.id = r.id /\ r1.shown = r.shown /\ r1.since = r.since
        /\ r1.left = left
    BY <1>4, <2>0 DEF PolicyRead
  <2>2. new = r4
    BY <1>3
  <2> HIDE DEF r1
  <2>3. /\ r2 \in PolicyRead /\ r2.id = r.id /\ r2.shown = r.shown /\ r2.since = r.since
        /\ r2.left = left /\ r2.step = step
    BY <1>4, <2>1 DEF PolicyRead
  <2> HIDE DEF r2
  <2>4. /\ r3 \in PolicyRead /\ r3.id = r.id /\ r3.shown = r.shown /\ r3.since = r.since
        /\ r3.left = left /\ r3.step = step /\ r3.attached = listed
    BY <1>4, <2>3 DEF PolicyRead
  <2> HIDE DEF r3
  <2>5. /\ r4 \in PolicyRead /\ r4.id = r.id /\ r4.shown = r.shown /\ r4.since = r.since
        /\ r4.left = left /\ r4.step = step /\ r4.attached = listed /\ r4.offered = offered
    BY <1>4, <2>4 DEF PolicyRead
  <2> HIDE DEF r4
  <2> QED
    BY <2>2, <2>5
<1> HIDE DEF new, step, left, listed, offered
<1>7. PolicyReadInv(new)
  BY <1>1, <1>4, <1>5, <1>6 DEF PolicyReadInv, GoodPolicyRead
<1> QED
  BY <1>1, <1>4, <1>6, <1>7 DEF GoodRead, GoodPolicyRead, new

\* The read under way stays as it should be, in terms of the tables, which no read changes.
LEMMA ReadStep ==
  ASSUME TypeOK, BornOnce, NoOrphans, GoodRead(reading), ReadActions
  PROVE  GoodRead(reading')
<1>1. /\ "list_keys" \in UserReads /\ "get_inline" \in UserReads
      /\ "list_attached" \in UserReads /\ "principal" \in UserReads
  BY DEF UserReads
<1>2. EndRead => GoodRead(reading')
  BY DEF EndRead, GoodRead
<1> QED
  BY <1>1, <1>2, FindTargetStep, PolicyDetailStep, ReadStatementStep, ListPrincipalsStep,
     AskPrincipalStep DEF ReadActions, ListAccessKeys, GetUserPolicy,
     ListAttachedUserPolicies, principal_detail

\* A good read, taken apart.
LEMMA GoodReadParts ==
  GoodRead(reading) <=>
    /\ reading \in {NoRead} \union UserRead \union PolicyRead
    /\ ReadRight
    /\ ReadInv
<1>1. CASE reading \in UserRead
  BY <1>1, ReadKinds DEF GoodRead, GoodUserRead, GoodPolicyRead, ReadRight, ReadInv
<1>2. CASE reading \in PolicyRead
  BY <1>2, ReadKinds DEF GoodRead, GoodUserRead, GoodPolicyRead, ReadRight, ReadInv
<1>3. CASE reading \notin UserRead /\ reading \notin PolicyRead
  BY <1>3 DEF GoodRead, GoodUserRead, GoodPolicyRead, ReadRight, ReadInv
<1> QED
  BY <1>1, <1>2, <1>3

--------------------------------------------------------------------------------
(* The inductive invariant. *)

IInv ==
  /\ TypeOK
  /\ BornOnce
  /\ NoOrphans
  /\ HandlersRight
  /\ RowsRight
  /\ GoodRead(reading)

\* The inductive invariant holds initially.
LEMMA InvariantInit == ConsoleInit => IInv
<1> SUFFICES ASSUME ConsoleInit
             PROVE  IInv
  OBVIOUS
<1> USE DEF ConsoleInit, IamInit
<1>1. UserIds = {} /\ PolicyIds = {} /\ KeyIds = {} /\ DOMAIN inline = {} /\ DOMAIN attached = {}
  BY DEF UserIds, PolicyIds, KeyIds
<1>2. TypeOK
  BY <1>1 DEF TypeOK
<1>3. BornOnce /\ NoOrphans /\ RowsRight
  BY <1>1 DEF BornOnce, NoOrphans, RowsRight
<1>4. HandlersRight /\ GoodRead(reading)
  BY DEF HandlersRight, GoodRead
<1> QED
  BY <1>2, <1>3, <1>4 DEF IInv

\* Every step keeps the inductive invariant.
LEMMA InvariantStep == IInv /\ [ConsoleNext]_consoleVars => IInv'
<1> SUFFICES ASSUME IInv, [ConsoleNext]_consoleVars
             PROVE  IInv'
  OBVIOUS
<1>0. /\ TypeOK /\ BornOnce /\ NoOrphans /\ HandlersRight /\ RowsRight /\ GoodRead(reading)
      /\ ReadsTypeOK /\ ReadRight /\ ReadInv
  BY GoodReadParts DEF IInv, ReadsTypeOK
<1>1. HandlersMeant
  BY <1>0, HandlerStep
<1>2. KeysMeant /\ InlineMeant /\ AttachedMeant
  BY <1>0, RowsStep
<1>3. TypeOK'
  <2>1. /\ (users \in [UserIds -> UserRow])' /\ (UserIds \subseteq 1..madeUsers)'
        /\ (policies \in [PolicyIds -> PolicyRow])' /\ (PolicyIds \subseteq 1..madePolicies)'
        /\ (madeUsers \in Nat /\ madePolicies \in Nat)'
    BY <1>0, LaterStep DEF UsersLater, PoliciesLater
  <2>2. /\ (keys \in [KeyIds -> KeyRow])' /\ (KeyIds \subseteq 1..madeKeys)'
        /\ (madeKeys \in Nat)'
        /\ (inline \in [DOMAIN inline -> InlineRow])'
        /\ (DOMAIN inline \subseteq Nat \X PolicyNames)'
        /\ (attached \in [DOMAIN attached -> AttachmentRow])'
        /\ (DOMAIN attached \subseteq Nat \X Nat)'
    BY <1>2 DEF KeysMeant, InlineMeant, AttachedMeant
  <2>3. /\ (pc \in [Handlers -> {"idle"} \union Statements])' /\ (DOMAIN loc = Handlers)'
        /\ \A h \in Handlers : pc'[h] # "idle" => loc'[h] \in Locals
    BY <1>1 DEF HandlersMeant, HandlerTables, LocalsMeant
  <2> QED
    BY <2>1, <2>2, <2>3 DEF TypeOK
<1>4. BornOnce'
  BY <1>0, BornOnceStep
<1>5. NoOrphans'
  BY <1>2 DEF KeysMeant, InlineMeant, AttachedMeant, NoOrphans
<1>6. HandlersRight'
  <2> SUFFICES ASSUME NEW h \in Handlers, pc'[h] # "idle"
               PROVE  /\ UserMeant(loc[h].user, loc[h].born)'
                      /\ PolicyMeant(loc[h].policy, loc[h].policyBorn)'
    BY DEF HandlersRight
  <2>1. /\ loc'[h].born \in Nat /\ loc'[h].policyBorn \in Nat
        /\ UserMeant(loc'[h].user, loc'[h].born)
        /\ PolicyMeant(loc'[h].policy, loc'[h].policyBorn)
    BY <1>1 DEF HandlersMeant, LocalsMeant, Locals
  <2> QED
    BY <1>0, <2>1, MeantStep
<1>7. RowsRight'
  <2>1. ASSUME NEW k \in KeyIds'
        PROVE  UserMeant(keys[k].user, keys[k].madeFor)'
    <3>1. keys'[k].madeFor \in Nat /\ UserMeant(keys'[k].user, keys'[k].madeFor)
      BY <1>2 DEF KeysMeant, KeyRow
    <3> QED
      BY <1>0, <3>1, MeantStep
  <2>2. ASSUME NEW x \in DOMAIN inline'
        PROVE  UserMeant(x[1], inline[x].madeFor)'
    <3>1. inline'[x].madeFor \in Nat /\ UserMeant(x[1], inline'[x].madeFor)
      BY <1>2 DEF InlineMeant, InlineRow
    <3> QED
      BY <1>0, <3>1, MeantStep
  <2>3. ASSUME NEW x \in DOMAIN attached'
        PROVE  (UserMeant(x[1], attached[x].madeFor) /\ PolicyMeant(x[2], attached[x].policy))'
    <3>1. /\ attached'[x].madeFor \in Nat /\ UserMeant(x[1], attached'[x].madeFor)
          /\ attached'[x].policy \in Nat /\ PolicyMeant(x[2], attached'[x].policy)
      BY <1>2 DEF AttachedMeant, AttachmentRow
    <3> QED
      BY <1>0, <3>1, MeantStep
  <2> QED
    BY <2>1, <2>2, <2>3 DEF RowsRight
<1>8. ASSUME UNCHANGED reading
      PROVE  GoodRead(reading)'
  <2>1. ReadInv'
    BY <1>0, <1>8, ReadKept
  <2>2. ASSUME GoodUserRead(reading)
        PROVE  GoodUserRead(reading)'
    <3>1. /\ reading.shown \in Nat
          /\ \A p \in reading.attached \union reading.offered : p[2] \in Nat
      BY <2>2 DEF GoodUserRead, UserRead
    <3>2. /\ UserMeant(reading.id, reading.shown)'
          /\ \A p \in reading.attached \union reading.offered : PolicyMeant(p[1], p[2])'
      BY <1>0, <1>8, <2>2, <3>1, MeantStep DEF GoodUserRead
    <3> QED
      BY <1>8, <2>1, <2>2, <3>2 DEF GoodUserRead, ReadInv
  <2>3. ASSUME GoodPolicyRead(reading)
        PROVE  GoodPolicyRead(reading)'
    <3>1. /\ reading.shown \in Nat
          /\ \A u \in reading.left \union reading.attached \union reading.offered : u[2] \in Nat
      BY <2>3 DEF GoodPolicyRead, PolicyRead
    <3>2. /\ PolicyMeant(reading.id, reading.shown)'
          /\ \A u \in reading.left \union reading.attached \union reading.offered :
               UserMeant(u[1], u[2])'
      BY <1>0, <1>8, <2>3, <3>1, MeantStep DEF GoodPolicyRead
    <3> QED
      BY <1>8, <2>1, <2>3, <3>2 DEF GoodPolicyRead, ReadInv
  <2> QED
    BY <1>0, <1>8, <2>2, <2>3 DEF GoodRead
<1>9. ASSUME ReadActions
      PROVE  GoodRead(reading)'
  <2>1. GoodRead(reading')
    BY <1>0, <1>9, ReadStep
  <2>2. UNCHANGED <<users, policies, madeUsers, madePolicies>>
    BY <1>9, ReadsKeepTables DEF iamVars
  <2> QED
    BY <2>1, <2>2 DEF GoodRead, GoodUserRead, GoodPolicyRead, UserMeant, PolicyMeant,
       UserReadInv, PolicyReadInv, StepsRight, ListedSince, LiveUsers, UserIds, PolicyIds
<1>10. GoodRead(reading)'
  BY <1>8, <1>9, StepKinds
<1> QED
  BY <1>3, <1>4, <1>5, <1>6, <1>7, <1>10 DEF IInv

\* The inductive invariant holds always.
LEMMA Invariant == ConsoleSpec => []IInv
BY InvariantInit, InvariantStep, PTL DEF ConsoleSpec

\* Keys, inline policies and attachments never outlive their user or policy, whatever is
\* deleted between the statement of a handler that finds them and the one that writes.
THEOREM NothingOrphaned == ConsoleSpec => []NoOrphans
<1>1. IInv => NoOrphans
  BY DEF IInv
<1> QED
  BY <1>1, Invariant, PTL

\* A key, an inline policy or an attachment made for a user and a policy that are still
\* there belongs to them: only the reuse of the id of a deleted one can misdirect it.
THEOREM GrantsReachTheMeant == ConsoleSpec => []GrantsWhereMeant
<1>1. ASSUME IInv
      PROVE  GrantsWhereMeant
  <2>1. RowsRight /\ TypeOK
    BY <1>1 DEF IInv
  <2>2. ASSUME NEW id, NEW born, UserMeant(id, born), born \in {users[i].born : i \in UserIds}
        PROVE  users[id].born = born
    BY <2>2 DEF UserMeant
  <2>3. ASSUME NEW id, NEW born, PolicyMeant(id, born),
               born \in {policies[i].born : i \in PolicyIds}
        PROVE  policies[id].born = born
    BY <2>3 DEF PolicyMeant
  <2> QED
    BY <2>1, <2>2, <2>3 DEF GrantsWhereMeant, RowsRight
<1> QED
  BY <1>1, Invariant, PTL

\* What a listing or a page of the console collects in several statements is all of the
\* user it found, as long as that user is there.
THEOREM ReadsCollectOneUser == ConsoleSpec => []ReadsOfOneUser
<1>1. ASSUME IInv
      PROVE  ReadsOfOneUser
  <2>1. ReadsTypeOK
    BY <1>1, GoodReadParts DEF IInv, ReadsTypeOK
  <2>2. ASSUME reading.kind \in UserReads
        PROVE  UserReadInv(reading)
    BY <1>1, <2>2, ReadKinds DEF IInv, GoodRead, GoodUserRead, GoodPolicyRead, UserReads, NoRead
  <2> QED
    BY <2>1, <2>2 DEF ReadsOfOneUser, UserReadInv
<1> QED
  BY <1>1, Invariant, PTL

\* On the page of a principal every policy, and on the page of a policy every principal,
\* that was there throughout is either attached or offered, although the two lists come
\* from statements with other requests in between.
THEOREM EachAttachedOrOffered == ConsoleSpec => []AttachedOrOffered
<1>1. ASSUME IInv
      PROVE  AttachedOrOffered
  <2>1. ASSUME OnScreen("principal")
        PROVE  UserReadInv(reading) /\ reading.kind = "principal" /\ reading.step = "done"
    BY <1>1, <2>1, ReadKinds DEF IInv, GoodRead, GoodUserRead, GoodPolicyRead, OnScreen, NoRead
  <2>2. ASSUME OnScreen("policy")
        PROVE  PolicyReadInv(reading) /\ reading.step = "done"
    BY <1>1, <2>2, ReadKinds
       DEF IInv, GoodRead, GoodUserRead, GoodPolicyRead, OnScreen, NoRead, UserReads
  <2>3. OnScreen("policy") => \A u \in UserIds : users[u].born \in reading.since =>
          (<<u, users[u].born>> \in reading.attached) # (<<u, users[u].born>> \in reading.offered)
    BY <2>2 DEF PolicyReadInv, OneOf
  <2> QED
    BY <2>1, <2>3 DEF AttachedOrOffered, UserReadInv
<1> QED
  BY <1>1, Invariant, PTL
================================================================================
