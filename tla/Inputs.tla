-------------------------------- MODULE Inputs --------------------------------
(***************************************************************************)
(* The pure parts of the system, each for every input of a bounded set: a  *)
(* behavior takes one input, or it takes none and builds a policy          *)
(* statement by statement (module PolicyEval).  An input is a record of    *)
(* its kind and the arguments of that kind's property.                     *)
(***************************************************************************)
EXTENDS Integers, FiniteSets, PolicyEval

CONSTANTS
  PageSize,          \* rows of a page of an SNS list
  MaxAttributes,     \* message attributes of a message
  MaxEntries,        \* entries of a batch
  MaxTags,           \* tags of a topic
  ColonSegments,     \* the segments of names and paths that have a colon in them
  QueueInputs,       \* of each kind, the inputs
  UrlInputs,
  MessageInputs,
  BatchInputs,
  SignedInputs,
  CountInputs,
  PageInputs,
  OverviewInputs,
  TopicInputs,
  SubscriptionInputs,
  TopicArnInputs,
  TagInputs,
  PolicyArnInputs,
  TargetInputs,
  RequestInputs,
  FormInputs

ASSUME InputsAssumption ==
  MaxAttributes \in Nat /\ MaxTags \in Nat \ {0} /\ MaxEntries \in Nat \ {0} /\ PageSize \in Nat \ {0}

Queues == INSTANCE QueueAttributes
Messages == INSTANCE MessageFormats
Signatures == INSTANCE Signing
Answers == INSTANCE Reads
Sns == INSTANCE SnsFormats
Iam == INSTANCE IamNames
Requests == INSTANCE Services
Console == INSTANCE ConsoleForms

\* Each kind of input has its own set.
ASSUME KindAssumption ==
  /\ \A i \in QueueInputs : i.kind = "queue"
  /\ \A i \in UrlInputs : i.kind = "url"
  /\ \A i \in MessageInputs : i.kind = "message"
  /\ \A i \in BatchInputs : i.kind = "batch"
  /\ \A i \in SignedInputs : i.kind = "signed"
  /\ \A i \in CountInputs : i.kind = "counts"
  /\ \A i \in PageInputs : i.kind = "pages"
  /\ \A i \in OverviewInputs : i.kind = "overview"
  /\ \A i \in TopicInputs : i.kind = "topic"
  /\ \A i \in SubscriptionInputs : i.kind = "subscription"
  /\ \A i \in TopicArnInputs : i.kind = "topic_arn"
  /\ \A i \in TagInputs : i.kind = "tag"
  /\ \A i \in PolicyArnInputs : i.kind = "policy_arn"
  /\ \A i \in TargetInputs : i.kind = "target"
  /\ \A i \in RequestInputs : i.kind = "request"
  /\ \A i \in FormInputs : i.kind = "form"

\* Attributes of queues come as texts.
ASSUME QueueAssumption ==
  \A i \in QueueInputs :
    /\ \A a \in DOMAIN i.create : i.create[a] \in Queues!Texts
    /\ \A a \in DOMAIN i.update : i.update[a] \in Queues!Texts
    /\ i.there \in BOOLEAN

\* Topics and subscriptions come with their attributes as texts, each entry of a form with
\* or without its key and its value; region and account of a topic have a part at least,
\* its name is not empty, and the keys and values of tags have a length.
ASSUME SnsAssumption ==
  /\ \A i \in TopicInputs :
       /\ i.entries \in Seq([key : Seq(STRING), value : Seq(Sns!Texts)])
       /\ i.value \in Sns!Texts
  /\ \A i \in SubscriptionInputs :
       /\ \A a \in DOMAIN i.attributes : i.attributes[a] \in Sns!Texts
       /\ i.value \in Sns!Texts
       /\ i.checked \in BOOLEAN
  /\ \A i \in TopicArnInputs :
       /\ i.uuid \in STRING \ {Sns!NoPart}
       /\ \A t \in {i.topic} \union i.others :
            t \in [region : Seq(STRING) \ {<<>>}, account : Seq(STRING) \ {<<>>},
                   name : STRING \ {Sns!NoPart}]
  /\ \A i \in TagInputs :
       /\ i.name.fifo \in BOOLEAN
       /\ i.entries \in Seq([key : Seq([length : Nat, reserved : BOOLEAN, control : BOOLEAN]),
                             value : Seq([length : Nat, control : BOOLEAN])])

\* Paths and names have a segment at least; a request about a user is signed by a principal
\* of the table, where account, kind and name are a key.
ASSUME IamAssumption ==
  /\ \A i \in PolicyArnInputs :
       i.path \in Seq(STRING) \ {<<>>} /\ i.name \in Seq(STRING) \ {<<>>}
  /\ \A i \in TargetInputs :
       /\ i.action \in Iam!SelfActions \union Iam!NamedActions \union {"GetUser"}
       /\ i.caller \in i.principals
       /\ \A p \in i.principals : p.name \in Seq(STRING) /\ p.path \in Seq(STRING) \ {<<>>}
       /\ \A p, q \in i.principals :
            p.account = q.account /\ p.kind = q.kind /\ p.name = q.name => p = q

\* A request has a header x-amz-target or none, its parameters are pairs of texts, its
\* store calls end well, find nothing or end in a StoreError, and a policy that was read
\* allows, denies or does not apply.
ASSUME RequestAssumption ==
  \A i \in RequestInputs :
    /\ i.request.target \in Seq([prefix : STRING, name : STRING])
    /\ Len(i.request.target) <= 1
    /\ i.request.query \in Seq(STRING \X STRING) /\ i.request.body \in Seq(STRING \X STRING)
    /\ i.world.key \in {"ok", "missing"} \union Requests!StoreErrors
    /\ i.world.principal \in {"ok", "missing"} \union Requests!StoreErrors
    /\ i.world.inline \in Requests!PolicyEvalResult \union Requests!StoreErrors
    /\ i.world.managed \in Requests!PolicyEvalResult \union Requests!StoreErrors
    /\ i.world.resource \in Requests!PolicyEvalResult
    /\ i.world.mode \in {"enforce", "audit", "off"}

\* The attributes of a message are a map: no name is there twice, and a name is its rank.
ASSUME MessageAssumption ==
  /\ \A i \in MessageInputs :
       LET attributes == i.message.attributes IN
         /\ attributes \in Seq([name : [rank : Nat, length : Nat, badDots : BOOLEAN,
                                        reserved : BOOLEAN, allowed : BOOLEAN],
                                value : [data_type : STRING, string_value : STRING,
                                         binary_value : STRING]])
         /\ \A j, k \in DOMAIN attributes :
              attributes[j].name.rank = attributes[k].name.rank => j = k
  /\ \A i \in BatchInputs : i.ids \in Seq([id : Nat, length : Nat, allowed : BOOLEAN])

\* A text is its characters; the client signs its headers, the date among them, with the
\* date of the scope and a key that the server knows.
ASSUME SignedAssumption ==
  \A i \in SignedInputs :
    /\ \A q \in {i.r, i.s} :
         /\ q.path \in [chars : Nat, special : BOOLEAN, coded : {0}]
         /\ q.query \in Seq([chars : Nat, special : BOOLEAN, coded : {0}]
                            \X [chars : Nat, special : BOOLEAN, coded : {0}])
         /\ \A h \in DOMAIN q.headers : q.headers[h] \in [chars : Nat, spare : BOOLEAN]
    /\ \A q, u \in {i.r.query, i.s.query} : \A j \in DOMAIN q, k \in DOMAIN u : \A x, y \in {1, 2} :
         q[j][x].chars = u[k][y].chars => q[j][x] = u[k][y]
    /\ \A k \in DOMAIN i.names : i.names[k] \in DOMAIN i.r.headers
    /\ \E k \in DOMAIN i.names : i.names[k] = "x-amz-date"
    /\ i.names # <<>>
    /\ i.r.headers["x-amz-date"].chars = i.scope.date
    /\ i.scope.terminator = "aws4_request"
    /\ i.scope.key \in DOMAIN i.secrets

\* Messages of a queue and rows of a list are numbers, by their place in the order of the
\* SELECT; what is owned has an owner (a foreign key; a subscription without its topic is
\* never asked for), who has a statement to be asked in.
ASSUME ReadsAssumption ==
  /\ \A i \in CountInputs :
       /\ DOMAIN i.at = 1..4 /\ i.limit \in Int
       /\ \A k \in 1..4 :
            /\ DOMAIN i.at[k] \in SUBSET Nat /\ IsFiniteSet(DOMAIN i.at[k])
            /\ i.at[k] \in [DOMAIN i.at[k] -> [due : BOOLEAN, live : BOOLEAN, leased : BOOLEAN]]
  /\ \A i \in PageInputs :
       /\ DOMAIN i.at = 1..Len(i.at) /\ Len(i.at) \in Nat \ {0}
       /\ \A k \in DOMAIN i.at : i.at[k] \in SUBSET Nat /\ IsFiniteSet(i.at[k])
  /\ \A i \in OverviewInputs :
       /\ DOMAIN i.at = 1..Len(i.at) /\ IsFiniteSet(i.policies)
       /\ Len(i.at) \in Nat \ {0} /\ 1 + Cardinality(i.at[1].owners) <= Len(i.at)
       /\ \A k \in DOMAIN i.at :
            /\ i.at[k].owners \in SUBSET Nat /\ IsFiniteSet(i.at[k].owners)
            /\ i.at[k].owned \in SUBSET (i.at[k].owners \X i.policies)

\* A form is filled in field by field; one that returns to its page is on a page of its
\* service.
ASSUME FormAssumption ==
  \A i \in FormInputs :
    /\ i.form \in DOMAIN Console!Forms
    /\ DOMAIN i.first = DOMAIN Console!Forms[i.form].fields
    /\ DOMAIN i.second = DOMAIN Console!Forms[i.form].fields
    /\ i.form \in Console!Scoped => i.url.path \in Console!OwnPaths(i.form)

VARIABLE input

NoInput == [kind |-> "none"]

InputsInit ==
  /\ Init
  /\ \/ input = NoInput
     \/ input \in QueueInputs \/ input \in UrlInputs
     \/ input \in MessageInputs \/ input \in BatchInputs
     \/ input \in SignedInputs
     \/ input \in CountInputs \/ input \in PageInputs \/ input \in OverviewInputs
     \/ input \in TopicInputs \/ input \in SubscriptionInputs \/ input \in TopicArnInputs
     \/ input \in TagInputs
     \/ input \in PolicyArnInputs \/ input \in TargetInputs
     \/ input \in RequestInputs
     \/ input \in FormInputs

InputsNext == input.kind = "none" /\ Next /\ UNCHANGED input

InputsSpec == InputsInit /\ [][InputsNext]_<<policy, input>>

--------------------------------------------------------------------------------
(* Properties. *)

\* Policies: whatever the order of its statements, a policy denies if one that applies
\* denies, allows if one that applies allows and none denies, and else says nothing; in an
\* identity policy statements with a Principal do not count.
DenyOverrides ==
  input.kind = "none" => ResourcePolicyIsDenyOverrides /\ IdentityPolicyIsDenyOverrides

\* CreateQueue, SetQueueAttributes, GetQueueAttributes and the URL of a queue: a queue can
\* be created anew from the settable attributes that are shown of it, and not with the
\* computed ones; a CreateQueue that finds the name in use is answered by what its second
\* read finds; and a queue is found by its name and its URL.
QueueFoundAsMade ==
  /\ input.kind = "queue" =>
       /\ Queues!RecreatedFromShown(input.create, input.update, input.computed, input.requested)
       /\ Queues!ConflictTold(input.create, input.update, input.again, input.computed, input.there)
  /\ input.kind = "url" =>
       Queues!FoundByItsUrl(input.name, input.type, input.host, input.region, input.account)

\* SendMessage, the console's form, ReceiveMessage and the batches: what was accepted can
\* be received with the digest its sender was given, a receive fails only on what the
\* console wrote, and every entry of a batch is answered once.
MessagesReceivable ==
  /\ input.kind = "message" =>
       /\ Messages!AcceptedIsReceivable(input.message, input.queue, input.requested)
       /\ Messages!OnlyConsoleMessagesFail(input.message, input.form, input.queue, input.requested)
  /\ input.kind = "batch" => Messages!BatchAnswersOnce(input.ids, input.succeeds)

\* SigV4: a request is accepted with the signature of another exactly when they are the
\* same request and no parameter of its query needs percent-encoding.  A request whose
\* query does is always refused, however rightly it is signed.
SignatureSpeaks ==
  input.kind = "signed" =>
    Signatures!SignatureSpeaksForRequest(input.r, input.s, input.names, input.scope, input.secrets)

\* Answers made of several SELECTs: a count, a page of a list and the console's overviews
\* differ from what was in the tables only by what changed between the SELECTs.
ReadsExplained ==
  /\ input.kind = "counts" => Answers!CountsExplained(input.at, input.limit)
  /\ input.kind = "pages" => Answers!PagesExplained(input.at)
  /\ input.kind = "overview" => Answers!OverviewExplained(input.at, input.policies)

\* Topics, subscriptions, users and policies: an ARN leads back to what it was made of,
\* attributes are shown as they were set, tags come off again, and a request is authorized for the user that
\* it is then about.
NamesLeadBack ==
  /\ input.kind = "topic" =>
       Sns!TopicShownAsSet(input.name, input.entries, input.set, input.value)
  /\ input.kind = "subscription" =>
       Sns!SubscriptionShownAsSet(input.attributes, input.set, input.value, input.checked)
  /\ input.kind = "topic_arn" => Sns!TopicFoundByItsArn(input.topic, input.others, input.uuid)
  /\ input.kind = "tag" => Sns!TagsComeOff(input.entries, input.name)
  /\ input.kind = "policy_arn" => Iam!PolicyFoundByItsArn(input.account, input.name, input.path)
  /\ input.kind = "target" =>
       /\ Iam!AuthorizedIsTarget(input.action, input.principals, input.caller, input.user_name, input.path)
       /\ Iam!CallerIsTold(input.principals, input.caller)

\* A request from the router to its answer: the resource that was authorized is the one
\* that is handled, but for SNS requests whose ARN parameters name several; the answer
\* blames the server exactly for storage that failed, but for reads of policies, which are
\* answered like a denial, and for parts of a batch or of a Publish, under a 200.
HandledAndBlamed ==
  input.kind = "request" =>
    /\ Requests!HandledAsAuthorized(input.request)
    /\ Requests!BlamesTheRightSide(input.request, input.world)

\* A console form that is refused comes back with its message and what was typed, again and
\* again; the forms that send a message and that make an access key come back empty.
RefusedFormsComeBack ==
  input.kind = "form" =>
    Console!FormsComeBack(input.form, input.url, input.first, input.second, input.conflict)
================================================================================
