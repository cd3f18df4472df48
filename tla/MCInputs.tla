------------------------------- MODULE MCInputs -------------------------------
(* The bounded inputs of module Inputs for TLC. *)
EXTENDS Inputs, TLC, FiniteSets

UpTo(n, S) == UNION {[1..k -> S] : k \in 0..n}

--------------------------------------------------------------------------------
(* Policies: two accounts, users of one name in both, a role and its session, a service; *)
(* patterns with and without wildcards.                                                  *)

MCPrincipals ==
  {[kind |-> "User", account |-> 1, name |-> "ann"],
   [kind |-> "User", account |-> 2, name |-> "ann"],
   [kind |-> "Role", account |-> 1, name |-> "ops"],
   [kind |-> "AssumedRole", account |-> 1, name |-> "ops", session |-> "s"],
   [kind |-> "Service", name |-> "sns"]}

MCActions == {"send", "receive"}
MCResources == {"orders", "audit"}

MCPrincipalElements ==
  {{}, {[kind |-> "Any"]},
   {[kind |-> "Account", account |-> {1}]},
   {[kind |-> "User", account |-> {1}, name |-> {"ann"}], [kind |-> "Service", name |-> {"sns"}]},
   {[kind |-> "Role", account |-> {1, 2}, name |-> {"ops"}]},
   {[kind |-> "AssumedRole", account |-> {1}, name |-> {"ops"}, session |-> {"s"}]}}

MCStatements ==
  {[effect |-> e, principal |-> p, action |-> a, resource |-> {MCResources}] :
     e \in {"Allow", "Deny", "allow"}, p \in MCPrincipalElements,
     a \in {{{"send"}}, {MCActions}}}
  \union
  {[effect |-> e, principal |-> p, action |-> {{"send"}, {"receive"}}, resource |-> {{"orders"}}] :
     e \in {"Allow", "Deny"}, p \in {{}, {[kind |-> "Any"]}}}

--------------------------------------------------------------------------------
(* Queues: every attribute with texts in and out of its bounds, at their edges, and      *)
(* spelled oddly.                                                                        *)

Texts(a) ==
  IF a \in DOMAIN Queues!CreateBounds
    THEN LET lo == Queues!CreateBounds[a][1]
             hi == Queues!CreateBounds[a][2]
         IN  {Queues!Number(lo), Queues!OddNumber(hi), Queues!Number(lo - 1), Queues!Number(hi + 1),
              Queues!Word("x")}
    ELSE {Queues!Word("true"), Queues!Word("TRUE"), Queues!Word("x"), Queues!EmptyText,
          Queues!Word("queue"), Queues!Word("perMessageGroupId"), Queues!EmptyDocument,
          Queues!Json(" {} "), Queues!Json("policy"), Queues!Number(7)}

AttributeMaps == UNION {{[x \in {a} |-> t] : t \in Texts(a)} : a \in Queues!CreateQueueAttributes}

NoAttributes == [x \in {} |-> Queues!EmptyText]
Computed == [x \in Queues!ComputedAttributes |-> Queues!Number(7)]

RacingMaps ==
  {NoAttributes} \union
  {m \in AttributeMaps : DOMAIN m \subseteq {"DelaySeconds", "ContentBasedDeduplication", "KmsMasterKeyId"}}

\* A queue is created, changed, shown and created again; or two CreateQueue race.
MCQueueInputs ==
  {[kind |-> "queue", create |-> c, update |-> u, again |-> c, there |-> TRUE,
    computed |-> Computed, requested |-> {"All"}] : c \in AttributeMaps, u \in AttributeMaps}
  \union
  {[kind |-> "queue", create |-> c, update |-> NoAttributes, again |-> a, there |-> t,
    computed |-> Computed, requested |-> r] :
     c \in RacingMaps, a \in RacingMaps, t \in BOOLEAN,
     r \in {{"DelaySeconds", "Policy", "Other"}, {"DelaySeconds", "QueueArn"}}}

MCNames == [length : {0, 1, 80, 81}, allowed : BOOLEAN, fifo : BOOLEAN]

MCUrlInputs ==
  [kind : {"url"}, name : MCNames, type : {"standard", "fifo", "other"},
   host : [region : {"none", "r", "q"}], region : {"r"}, account : {"1"}]

--------------------------------------------------------------------------------
(* Messages with up to two attributes of three names, and with one more than is allowed. *)

AttributeNames ==
  {[rank |-> i, length |-> 1, badDots |-> FALSE, reserved |-> FALSE, allowed |-> i < 3] : i \in 1..3}

AttributeValues ==
  {[data_type |-> "String", string_value |-> "v", binary_value |-> "none"],
   [data_type |-> "String.id", string_value |-> "none", binary_value |-> "b"],
   [data_type |-> "Binary", string_value |-> "v", binary_value |-> "b"],
   [data_type |-> "Binary", string_value |-> "v", binary_value |-> "%"],
   [data_type |-> "Other", string_value |-> "v", binary_value |-> "none"]}

AttributeLists ==
  {s \in UpTo(2, [name : AttributeNames, value : AttributeValues]) :
     \A i, j \in DOMAIN s : s[i].name = s[j].name => i = j}
  \union
  {[i \in 1..3 |-> [name |-> [n EXCEPT !.rank = i], value |-> v]] :
     n \in {m \in AttributeNames : m.allowed}, v \in AttributeValues}

MCBody == [length |-> 3, allowed |-> TRUE]

FormObjects ==
  {[api |-> FALSE, attributes |-> <<>>]} \union
  {[api |-> TRUE, attributes |-> <<[name |-> n, value |-> v]>>] :
     n \in {m \in AttributeNames : m.rank = 2}, v \in AttributeValues}

FormTexts ==
  {[kind |-> "blank"], [kind |-> "not JSON"]} \union
  {[kind |-> "object", object |-> o] : o \in FormObjects}

\* The tails of messages: body, delay and trace header.
Tails ==
  {[body |-> MCBody, delay |-> <<>>, trace |-> <<>>],
   [body |-> MCBody, delay |-> <<901>>, trace |-> <<>>],
   [body |-> [length |-> 9, allowed |-> TRUE], delay |-> <<>>, trace |-> <<>>],
   [body |-> MCBody, delay |-> <<900>>,
    trace |-> <<[data_type |-> "String", string_value |-> "t"]>>],
   [body |-> MCBody, delay |-> <<>>,
    trace |-> <<[data_type |-> "Number", string_value |-> "t"]>>]}

MCMessage(attributes, tail) ==
  [body |-> tail.body, delay |-> tail.delay, trace |-> tail.trace, attributes |-> attributes]

MCMessageInputs ==
  {[kind |-> "message", message |-> MCMessage(a, t),
    form |-> [body |-> MCBody, delay |-> <<>>, trace |-> "none", attributes |-> f],
    queue |-> [maximum_message_size |-> 8, delay_seconds |-> 0], requested |-> r] :
     a \in AttributeLists, t \in Tails, f \in FormTexts, r \in {{}, {{1}}, {{1}, {2, 3}}}}

EntryIds ==
  {[id |-> 1, length |-> 1, allowed |-> TRUE], [id |-> 2, length |-> 80, allowed |-> TRUE],
   [id |-> 3, length |-> 81, allowed |-> TRUE]}

MCBatchInputs ==
  {[kind |-> "batch", ids |-> ids, succeeds |-> s] : ids \in UpTo(4, EntryIds), s \in SUBSET EntryIds}

--------------------------------------------------------------------------------
(* Signed requests that differ in method, path, parameters and their order, body and     *)
(* headers.                                                                              *)

Plain == Signatures!TextOf(1, FALSE)
Other == Signatures!TextOf(2, FALSE)
Special == Signatures!TextOf(3, TRUE)
HeaderValue(n, spare) == [chars |-> n, spare |-> spare]

MCHeaders ==
  {[h \in {"x-amz-date", "host"} |-> IF h = "host" THEN v ELSE HeaderValue(d, FALSE)] :
     v \in {HeaderValue(1, FALSE), HeaderValue(1, TRUE), HeaderValue(2, FALSE)}, d \in {7}}
  \union {[h \in {"x-amz-date", "host"} |-> HeaderValue(8, FALSE)],
          [h \in {"x-amz-date"} |-> HeaderValue(7, FALSE)]}

MCSigned ==
  [method : {"GET", "POST"}, path : {Plain, Special}, body : {1, 2}, headers : MCHeaders,
   query : {<<>>, << <<Plain, Other>> >>, << <<Plain, Other>>, <<Other, Plain>> >>,
            << <<Other, Plain>>, <<Plain, Other>> >>, << <<Special, Plain>> >>}]

MCSignedInputs ==
  {[kind |-> "signed", r |-> r, s |-> s, names |-> n,
    scope |-> [key |-> "AK", date |-> 7, region |-> "r", service |-> "sqs",
               terminator |-> "aws4_request"],
    secrets |-> [k \in {"AK"} |-> "secret"]] :
     r \in {q \in MCSigned : q.method = "GET" /\ q.body = 1 /\ DOMAIN q.headers # {"x-amz-date"}
                             /\ q.headers["x-amz-date"].chars = 7},
     s \in MCSigned,
     n \in {<<"host", "x-amz-date">>, <<"x-amz-date", "x-amz-date">>}}

--------------------------------------------------------------------------------
(* Reads: what is in the tables changes once, before any of the SELECTs; for pages and   *)
(* overviews, before each of them.                                                       *)

MessageRows == [due : BOOLEAN, live : BOOLEAN, leased : BOOLEAN]
Moments == UNION {[m -> MessageRows] : m \in SUBSET {1, 2}}

MCCountInputs ==
  {[kind |-> "counts", at |-> [k \in 1..4 |-> IF k < i THEN b ELSE a], limit |-> l] :
     b \in Moments, a \in Moments, i \in 2..4, l \in {-1, 501}}

\* Between two pages at most two of five rows come or go.
Changed(rows) ==
  {(rows \ c) \union (c \ rows) : c \in {c \in SUBSET (1..5) : Cardinality(c) <= 2}}

MCPageInputs ==
  UNION {UNION {{[kind |-> "pages", at |-> <<a, b, c>>] : c \in Changed(b)} : b \in Changed(a)} :
           a \in SUBSET (1..5)}

OverviewMoments ==
  UNION {{[owners |-> o, owned |-> r] : r \in SUBSET (o \X {1, 2})} : o \in SUBSET {1, 2}}

MCOverviewInputs ==
  {[kind |-> "overview", at |-> a, policies |-> {1, 2}] : a \in [1..3 -> OverviewMoments]}

--------------------------------------------------------------------------------
(* SNS. *)

SnsTexts ==
  {Sns!EmptyText, Sns!Word("true"), Sns!Word("TRUE"), Sns!Word("False"), Sns!Word("x"),
   Sns!EmptyDocument, Sns!Json(" {} "), Sns!Json("policy")}

SomeAttributes ==
  {"DisplayName", "Policy", "FifoTopic", "HTTPSuccessFeedbackRoleArn", "Unknown"}

\* One entry, with or without its key or value, or two of the same key.
Entries ==
  {<<[key |-> k, value |-> v]>> :
     k \in {<<>>} \union {<<a>> : a \in SomeAttributes}, v \in {<<>>} \union {<<t>> : t \in SnsTexts}}
  \union
  {<<[key |-> <<a>>, value |-> <<t>>], [key |-> <<a>>, value |-> <<u>>]>> :
     a \in {"Policy", "FifoTopic"}, t \in SnsTexts, u \in SnsTexts}

TopicNames ==
  {[length |-> 1, allowed |-> TRUE, fifo |-> FALSE], [length |-> 257, allowed |-> TRUE, fifo |-> FALSE],
   [length |-> 6, allowed |-> TRUE, fifo |-> TRUE]}

MCTopicInputs ==
  {[kind |-> "topic", name |-> n, entries |-> e, set |-> s, value |-> v] :
     n \in TopicNames, e \in Entries, s \in SomeAttributes, v \in SnsTexts}
  \union
  {[kind |-> "topic", name |-> [length |-> 1, allowed |-> TRUE, fifo |-> FALSE],
    entries |-> <<[key |-> <<a>>, value |-> <<t>>]>>, set |-> s, value |-> Sns!Json("policy")] :
     a \in Sns!VALID_TOPIC_ATTRIBUTES, t \in {Sns!Word("x"), Sns!EmptyDocument},
     s \in Sns!VALID_TOPIC_ATTRIBUTES}

SubscriptionMaps ==
  {<<>>} \union UNION {{[x \in {a} |-> t] : t \in SnsTexts} : a \in Sns!VALID_SUBSCRIPTION_ATTRIBUTES}

MCSubscriptionInputs ==
  {[kind |-> "subscription", attributes |-> m, set |-> s, value |-> v, checked |-> c] :
     m \in SubscriptionMaps, s \in Sns!VALID_SUBSCRIPTION_ATTRIBUTES \union {"Unknown"},
     v \in SnsTexts, c \in BOOLEAN}

MCTopics ==
  [region : {<<"r">>, <<"r", "1">>, <<Sns!NoPart>>}, account : {<<"1">>, <<"1", "2">>, <<Sns!NoPart>>},
   name : {"t", "2"}]

MCTopicArnInputs ==
  {[kind |-> "topic_arn", topic |-> t, others |-> {o, p}, uuid |-> "u"] :
     t \in MCTopics, o \in MCTopics, p \in MCTopics}

TagKeys == [length : {0, 1, 128, 129}, reserved : BOOLEAN, control : BOOLEAN]
TagValues == [length : {0, 256, 257}, control : BOOLEAN]
TagEntries == [key : {<<k>> : k \in TagKeys}, value : {<<>>} \union {<<v>> : v \in TagValues}]

\* One tag of any kind, or two with the same key or with two keys.
MCTagInputs ==
  {[kind |-> "tag", entries |-> <<e>>, name |-> n] : e \in TagEntries, n \in MCNames}
  \union
  {[kind |-> "tag", entries |-> <<e, f>>, name |-> [length |-> 1, allowed |-> TRUE, fifo |-> FALSE]] :
     e \in {x \in TagEntries : x.key[1].length = 1}, f \in {x \in TagEntries : x.key[1].length = 1}}

--------------------------------------------------------------------------------
(* IAM: paths of up to four segments, a user and a role of one name. *)

MCPolicyArnInputs ==
  {[kind |-> "policy_arn", account |-> 1, name |-> n, path |-> p] :
     n \in {<<"p">>, <<"a", "p">>, <<Iam!Nil>>, <<"a", Iam!Nil>>, <<"x:y">>},
     p \in UpTo(4, {Iam!Nil, "a", "x:y"}) \ {<<>>}}

MCUsers ==
  {[account |-> 1, kind |-> "user", name |-> <<"x">>, path |-> <<Iam!Nil, Iam!Nil>>],
   [account |-> 1, kind |-> "role", name |-> <<"x">>, path |-> <<Iam!Nil, Iam!Nil>>],
   [account |-> 1, kind |-> "user", name |-> <<"y">>, path |-> <<Iam!Nil, "a", Iam!Nil>>],
   [account |-> 2, kind |-> "user", name |-> <<"x">>, path |-> <<Iam!Nil, Iam!Nil>>]}

MCTargetInputs ==
  UNION {{[kind |-> "target", action |-> a, principals |-> us, caller |-> c, user_name |-> n,
           path |-> p] :
            a \in Iam!SelfActions \union Iam!NamedActions \union {"GetUser"}, c \in us,
            n \in {<<>>, << <<Iam!Nil>> >>, << <<"x">> >>, << <<"y">> >>, << <<"z">> >>, << <<"a", "x">> >>},
            p \in {<<Iam!Nil, Iam!Nil>>, <<Iam!Nil, "a", Iam!Nil>>, <<Iam!Nil, Iam!Nil, "a", Iam!Nil>>, <<"a">>}} :
         us \in SUBSET MCUsers}

--------------------------------------------------------------------------------
(* Requests: with parameters in the query string, in the body, in both and twice; then   *)
(* every action, with its stores failing in every way.                                   *)

WorldOk ==
  [key |-> "ok", principal |-> "ok", load |-> "ok", inline |-> "Allowed",
   managed |-> "NotApplicable", resource |-> "NotApplicable", mode |-> "enforce",
   write |-> "ok", parts |-> <<>>]

Request(service, target, query, body, content_type, json) ==
  [service |-> service, target |-> target, query |-> query, body |-> body,
   content_type |-> content_type, json |-> json, caller |-> "user"]

Target(action) == <<[prefix |-> "AmazonSQS.", name |-> action]>>

SqsParameters == {"QueueUrl", "QueueName"} \X {"a", "b"}
SnsParameters ==
  {<<"TopicArn", "a">>, <<"TopicArn", "b">>, <<"ResourceArn", "a">>, <<"SubscriptionArn", "a">>}
IamParameters == {<<"UserName", "a">>, <<"UserName", "b">>, <<"Action", "GetPolicy">>}

ManyParameters ==
  {Request("sqs", Target(a), <<>>, b, "none", j) :
     a \in {"SendMessage", "GetQueueUrl", "ListQueues", "Unknown"}, b \in UpTo(3, SqsParameters),
     j \in BOOLEAN}
  \union
  {Request("sns", <<>>, << <<"Action", a>> >> \o q, b, c, TRUE) :
     a \in {"Publish", "TagResource", "Unsubscribe", "ListTopics"}, q \in UpTo(2, SnsParameters),
     b \in UpTo(1, SnsParameters), c \in {"none", "json"}}
  \union
  {Request("iam", <<>>, q, << <<"Action", a>> >> \o b, "form", TRUE) :
     a \in {"GetUser", "DeleteUser", "GetPolicy", "AttachUserPolicy"}, q \in UpTo(2, IamParameters),
     b \in UpTo(2, IamParameters)}

\* Without parameters, and with the one that names what the action is about.
EveryAction ==
  UNION {UNION {{IF s = "sqs" THEN Request(s, Target(a), <<>>, b, "none", TRUE)
                              ELSE Request(s, <<>>, << <<"Action", a>> >>, b, "form", TRUE) :
                   b \in {<<>>, << <<Requests!ResourceField(s, a), "a">> >>}} :
                a \in Requests!Registry[s] \union {"Unknown"}} :
         s \in DOMAIN Requests!Registry}
  \union {Request("s3", <<>>, <<>>, <<>>, "none", TRUE), Request("sqs", <<>>, <<>>, <<>>, "none", TRUE)}

\* The handler and the load fail, policies deny; then the authentication fails; then the
\* reads of policies fail, in each mode; then parts of the request fail.
Worlds ==
  {[WorldOk EXCEPT !.load = l, !.write = w, !.resource = p] :
     l \in {"ok", "NotFound", "StorageFailure"}, w \in {"ok"} \union Requests!StoreErrors,
     p \in {"NotApplicable", "Denied"}}
  \union
  {[WorldOk EXCEPT !.key = k, !.principal = p, !.write = "StorageFailure"] :
     k \in {"ok", "missing", "StorageFailure"}, p \in {"ok", "missing", "StorageFailure"}}
  \union
  {[WorldOk EXCEPT !.inline = i, !.managed = m, !.resource = p, !.mode = mode] :
     i \in {"NotApplicable", "StorageFailure"}, m \in {"Allowed", "StorageFailure"},
     p \in {"NotApplicable", "Allowed"}, mode \in {"enforce", "audit", "off"}}
  \union
  {[WorldOk EXCEPT !.parts = p, !.mode = mode] :
     p \in {<<"StorageFailure">>, <<"NotFound", "ok">>, <<"ok", "StorageFailure", "Conflict">>},
     mode \in {"enforce", "off"}}

MCRequestInputs ==
  {[kind |-> "request", request |-> r, world |-> WorldOk] : r \in ManyParameters}
  \union
  {[kind |-> "request", request |-> r, world |-> w] :
     r \in EveryAction, w \in Worlds}
  \union
  {[kind |-> "request", request |-> [r EXCEPT !.caller = "role"], world |-> w] :
     r \in {r \in EveryAction : r.service \in {"iam", "sts"}},
     w \in {WorldOk, [WorldOk EXCEPT !.load = "StorageFailure"], [WorldOk EXCEPT !.write = "NotFound"]}}

--------------------------------------------------------------------------------
(* Forms: fields left empty, padded, and with one of the fixed values; pages with and    *)
(* without a scope, and with the messages of an earlier refusal.                         *)

Scopes ==
  {<<>>,
   << <<"region", Console!Typed("r")>>, <<"prefix", Console!Typed("p")>> >>,
   << <<"region", Console!Empty>>, <<"account_id", Console!Typed("a")>> >>,
   << <<"account_id", Console!Typed("a")>>, <<"create_error", Console!Typed("old")>>,
      <<"create_region", Console!Typed("s")>> >>}

FormUrls(form) ==
  IF form \in Console!Scoped
    THEN [path : Console!OwnPaths(form) \ {Console!DonePage(form)}, params : Scopes]
    ELSE {[path |-> Console!Forms[form].page, params |-> Console!Forms[form].before]}

Choice(form) ==
  Console!Typed(CASE form = "create_queue" -> "fifo" [] form = "create_subscription" -> "on" [] OTHER -> "role")

\* The second time every field is left blank, or none, or only the first.
SecondFills(fields) ==
  {[i \in fields |-> Console!Padded(Console!NoText)], [i \in fields |-> Console!Typed("y")],
   [i \in fields |-> IF i = 1 THEN Console!Empty ELSE Console!Padded("y")]}

MCFormInputs ==
  UNION {{[kind |-> "form", form |-> f, url |-> u, first |-> a, second |-> b, conflict |-> c] :
            u \in FormUrls(f),
            a \in [DOMAIN Console!Forms[f].fields -> {Console!Empty, Console!Padded("x"), Choice(f)}],
            b \in SecondFills(DOMAIN Console!Forms[f].fields), c \in BOOLEAN} :
         f \in DOMAIN Console!Forms}
================================================================================
