------------------------------- MODULE Services -------------------------------
(***************************************************************************)
(* One request on its way through the router: how its action and the       *)
(* resource it is about are read, for the authorization and again for the  *)
(* handler, and the status, code and fault of the answer.                  *)
(*                                                                         *)
(* A request has a query string and a body, each a sequence of name-value  *)
(* pairs; the body is a form or a JSON object.  What the stores and the    *)
(* policies say to the request is an input.                                *)
(***************************************************************************)
EXTENDS Naturals, Sequences

StoreErrors == {"NotFound", "Conflict", "StorageFailure"}

\* The registries.
Registry ==
  [sqs |-> {"CreateQueue", "DeleteQueue", "GetQueueAttributes", "GetQueueUrl", "ListQueueTags",
            "ListQueues", "PurgeQueue", "ReceiveMessage", "SendMessage", "SendMessageBatch",
            "SetQueueAttributes", "TagQueue", "UntagQueue", "ChangeMessageVisibility",
            "ChangeMessageVisibilityBatch", "DeleteMessage", "DeleteMessageBatch"},
   sns |-> {"CreateTopic", "DeleteTopic", "Subscribe", "Unsubscribe", "ListSubscriptions",
            "ListSubscriptionsByTopic", "ListTopics", "ListTagsForResource", "TagResource",
            "UntagResource", "GetSubscriptionAttributes", "SetSubscriptionAttributes",
            "SetTopicAttributes", "GetTopicAttributes", "Publish"},
   iam |-> {"CreateAccessKey", "CreateUser", "GetUser", "DeleteUser", "CreatePolicy",
            "PutUserPolicy", "AttachUserPolicy", "DetachUserPolicy", "DeletePolicy",
            "GetUserPolicy", "GetPolicy", "GetPolicyVersion", "ListAccessKeys",
            "ListAttachedUserPolicies"},
   sts |-> {"GetCallerIdentity"}]

--------------------------------------------------------------------------------
(* Parameters.  Each conversion yields the set of the one value, or {} for an error. *)

\* The query string, then the body, which must say it is a form or say nothing.
encoded_aws_query_request(request) ==
  IF request.body # <<>> /\ request.content_type \notin {"none", "form"} THEN {}
  ELSE {request.query \o request.body}

\* Where the parameters of a name stand.
Places(pairs, name) == {i \in DOMAIN pairs : pairs[i][1] = name}

\* AwsQueryParams::get: the first; none is <<>>.
First(pairs, name) ==
  LET places == Places(pairs, name)
  IN  IF places = {} THEN <<>>
      ELSE <<pairs[CHOOSE i \in places : \A j \in places : i <= j][2]>>

\* serde_json::Value: the last.
Last(pairs, name) ==
  LET places == Places(pairs, name)
  IN  IF places = {} THEN <<>>
      ELSE <<pairs[CHOOSE i \in places : \A j \in places : j <= i][2]>>

\* Mutant: a field that is there twice is not refused, the later one stands.
LastStands(pairs, field, optional) ==
  IF Last(pairs, field) = <<>> /\ ~optional THEN {} ELSE {Last(pairs, field)}

\* A field of the typed request: <<>> when it is left out, refused when it is there twice.
TypedField(pairs, field, optional) ==
  LET places == Places(pairs, field)
      once == \A i, j \in places : i = j
  IN  IF once /\ (optional \/ places # {}) THEN {First(pairs, field)} ELSE {}

get_query_request_action_name(request) ==
  UNION {{First(pairs, "Action")[i] : i \in DOMAIN First(pairs, "Action")} :
           pairs \in encoded_aws_query_request(request)}

\* SQS: the header x-amz-target, a prefix and a name.
target_to_operation_name(target) ==
  IF target.prefix = "AmazonSQS." THEN {target.name} \intersect Registry.sqs ELSE {}

--------------------------------------------------------------------------------
(* The resource. *)

\* The field of each action's request that names its queue, topic, user or policy;
\* "none" when there is none.
ResourceField(service, action) ==
  CASE action \in {"ListQueues", "CreateQueue", "CreateTopic", "ListTopics",
                   "ListSubscriptions", "GetCallerIdentity"} -> "none"
    [] action = "GetQueueUrl" -> "QueueName"
    [] service = "sqs" /\ action \notin {"ListQueues", "CreateQueue", "GetQueueUrl"} -> "QueueUrl"
    [] action \in {"ListTagsForResource", "TagResource", "UntagResource"} -> "ResourceArn"
    [] action \in {"Unsubscribe", "GetSubscriptionAttributes", "SetSubscriptionAttributes"} ->
         "SubscriptionArn"
    [] action \in {"DeleteTopic", "Subscribe", "ListSubscriptionsByTopic",
                   "SetTopicAttributes", "GetTopicAttributes", "Publish"} -> "TopicArn"
    [] action = "CreatePolicy" -> "PolicyName"
    [] action \in {"GetPolicy", "DeletePolicy", "GetPolicyVersion"} -> "PolicyArn"
    [] OTHER -> "UserName"

\* A request without UserName is about its caller.
SelfActions == {"CreateAccessKey", "ListAccessKeys", "ListAttachedUserPolicies"}
OptionalUser(action) == action \in SelfActions \union {"GetUser"}

\* An SQS body must be a JSON object.
Pairs(request) ==
  IF request.service # "sqs" THEN encoded_aws_query_request(request)
  ELSE IF request.json THEN {request.body} ELSE {}

\* parse_payload: what the handler finds in the field; {} when the request is refused.
parse_payload(request, action) ==
  LET field == ResourceField(request.service, action)
  IN  IF field = "none" THEN {<<>> : pairs \in Pairs(request)}
      ELSE UNION {TypedField(pairs, field, OptionalUser(action)) : pairs \in Pairs(request)}

get_queue_url_from_request(request) == Last(request.body, "QueueUrl")

\* GetQueueUrl parses its typed request here too; ListQueues and CreateQueue have none.
get_relevant_queue_for_action(action, request) ==
  CASE action \in {"ListQueues", "CreateQueue"} -> <<>>
    [] action = "GetQueueUrl" -> First(request.body, "QueueName")
    [] OTHER -> get_queue_url_from_request(request)

\* Of the three parameters, the first that is there.
extract_topic_arn_from_request(request) ==
  LET pairs == CHOOSE p \in encoded_aws_query_request(request) : TRUE
      arns == First(pairs, "TopicArn") \o First(pairs, "ResourceArn")
                \o First(pairs, "SubscriptionArn")
  IN  IF arns = <<>> THEN <<>> ELSE <<Head(arns)>>

\* What the policies are asked about; <<>> stands for all of the account's queues or
\* topics, or for the caller.
AuthorizedResource(action, request) ==
  CASE request.service = "sqs" -> get_relevant_queue_for_action(action, request)
    [] request.service = "sns" -> extract_topic_arn_from_request(request)
    [] request.service = "sts" -> <<>>
    [] request.service = "iam" ->
         First(request.query \o request.body, ResourceField("iam", action))

--------------------------------------------------------------------------------
(* Errors. *)

ServerErrors == {"InternalError"}

ApiStatus ==
  [NotFound |-> 404, InternalServerError |-> 500, BadRequest |-> 400, NotAuthorized |-> 403,
   NotAuthenticated |-> 401]

\* status_code of each service's error.
StatusCode(service, error) ==
  CASE error = "InternalError" -> 500
    [] service \in {"iam", "sts"} /\ error = "UnsupportedOperation" -> 501
    [] service = "iam" /\ error = "EntityAlreadyExists" -> 409
    [] service = "iam" /\ error = "NoSuchEntity" -> 404
    [] OTHER -> 400

fault(error) == IF error \in ServerErrors THEN "Server" ELSE "Sender"

\* aws_batch_error_details: SenderFault of a failed entry.
sender_fault(error) == fault(error) = "Sender"

\* map_store_error, map_receipt_handle_store_error, and From<StoreError> of the services.
map_store_error(service, receipt, error) ==
  CASE error = "StorageFailure" \/ service = "sts" -> "InternalError"
    [] service = "iam" /\ error = "Conflict" -> "EntityAlreadyExists"
    [] service = "iam" /\ error = "NotFound" -> "NoSuchEntity"
    [] service \in {"sqs", "sns"} /\ error = "Conflict" -> "BadRequest"
    [] service = "sqs" /\ error = "NotFound" -> IF receipt THEN "ReceiptHandleIsInvalid" ELSE "QueueNotFound"
    [] OTHER -> "TopicNotFound"

\* The entries of a batch are carried out one by one, and those that failed are listed.
BatchActions == {"SendMessageBatch", "DeleteMessageBatch", "ChangeMessageVisibilityBatch"}

EntryError(action, error) ==
  IF action = "SendMessageBatch" THEN "InternalError" ELSE map_store_error("sqs", TRUE, error)

Failures(parts) == {i \in DOMAIN parts : parts[i] \in StoreErrors}

\* The failed entries of the answer to a batch; Publish lists no delivery.
FailedEntries(action, parts) ==
  IF action \notin BatchActions THEN {}
  ELSE {[entry |-> i, code |-> EntryError(action, parts[i]),
         sender_fault |-> sender_fault(EntryError(action, parts[i]))] : i \in Failures(parts)}

ErrorAnswer(service, error) ==
  [status |-> StatusCode(service, error), code |-> error, fault |-> fault(error), failed |-> {}]

ApiAnswer(error) == [status |-> ApiStatus[error], code |-> error, fault |-> "none", failed |-> {}]

Success(failed) == [status |-> 200, code |-> "none", fault |-> "none", failed |-> failed]
Forbidden == [status |-> 403, code |-> "none", fault |-> "none", failed |-> {}]

--------------------------------------------------------------------------------
(* The way of a request.  world says what its store calls do: key and principal, in the *)
(* authentication; load, of the queue or topic for the authorization (a missing one is   *)
(* "NotFound"); inline and managed, the reads of the caller's policies, with what they    *)
(* say; write, the handler's; parts, of each entry of a batch or delivery of a Publish.   *)
(* resource is what the policy of the resource says, mode the mode of the authorization.  *)

\* AuthError and ResolveIdentityError.  A key that is not there is no store error.
AuthAnswer(world) ==
  CASE world.key = "missing" -> {ApiAnswer("NotAuthenticated")}
    [] world.key \in StoreErrors -> {ApiAnswer("InternalServerError")}
    [] world.key = "ok" /\ world.principal = "missing" -> {ApiAnswer("NotAuthenticated")}
    [] world.key = "ok" /\ world.principal \in StoreErrors -> {ApiAnswer("InternalServerError")}
    [] OTHER -> {}

can_handle(request) == request.service \in DOMAIN Registry

\* The name of the action, the same for authorization, validation and handler.
ActionName(request) ==
  IF request.service = "sqs"
    THEN UNION {target_to_operation_name(request.target[i]) : i \in DOMAIN request.target}
    ELSE get_query_request_action_name(request) \intersect Registry[request.service]

\* Why there is none: it is missing or cannot be read, or no action has that name.
NameError(request) ==
  LET missing == IF request.service = "sqs" THEN request.target = <<>>
                                            ELSE get_query_request_action_name(request) = {}
  IN  IF missing THEN "BadRequest" ELSE "UnsupportedOperation"

\* Whether the queue, the topic or the user is loaded for the authorization.
Loads(action, request) ==
  IF request.service = "sns" THEN extract_topic_arn_from_request(request) # <<>>
  ELSE /\ ResourceField(request.service, action) # "none"
       /\ action \notin {"CreateUser", "CreatePolicy", "GetPolicy", "DeletePolicy", "GetPolicyVersion"}
       /\ action \in SelfActions => parse_payload(request, action) # {<<>>}

\* resolve_authorization of a service and of its action: the payload is parsed, then what
\* it names is loaded.  An SNS topic that is not there has no policy, and GetQueueUrl asks
\* about any queue.
AuthorizationError(action, request, world) ==
  LET parsed == parse_payload(request, action)
  IN  CASE parsed = {} -> {"BadRequest"}
        [] parsed = {<<>>} /\ action \in SelfActions /\ request.caller # "user" -> {"BadRequest"}
        [] parsed # {} /\ Loads(action, request) /\ world.load = "StorageFailure" -> {"InternalError"}
        [] /\ parsed # {} /\ Loads(action, request) /\ world.load = "NotFound"
           /\ request.service \in {"sqs", "iam"} /\ action # "GetQueueUrl" ->
             {map_store_error(request.service, FALSE, "NotFound")}
        [] OTHER -> {}

\* A read of the policies that fails counts as a denial; a denial stands against any
\* number of allowances; audit and off let everything through.
PolicyEvalResult == {"Allowed", "Denied", "NotApplicable"}

Permitted(world) ==
  LET Result(read) == IF read \in StoreErrors THEN "Denied" ELSE read
      results == {Result(world.inline), Result(world.managed), world.resource}
  IN  world.mode = "enforce" => "Denied" \notin results /\ "Allowed" \in results

\* ServiceRouter::route_traced, after the authentication.
route_traced(request, world) ==
  LET service == request.service
      name == ActionName(request)
      action == CHOOSE a \in name : TRUE
  IN  CASE ~can_handle(request) -> ApiAnswer("NotFound")
        [] can_handle(request) /\ name = {} -> ErrorAnswer(service, NameError(request))
        [] OTHER ->
             LET refused == AuthorizationError(action, request, world)
             IN  CASE refused # {} -> ErrorAnswer(service, CHOOSE e \in refused : TRUE)
                   [] refused = {} /\ ~Permitted(world) -> Forbidden
                   [] refused = {} /\ Permitted(world) /\ world.write \in StoreErrors ->
                        ErrorAnswer(service, map_store_error(
                          service, action \in {"DeleteMessage", "ChangeMessageVisibility"}, world.write))
                   [] OTHER -> Success(FailedEntries(action, world.parts))

Answer(request, world) ==
  IF AuthAnswer(world) # {} THEN CHOOSE a \in AuthAnswer(world) : TRUE
  ELSE route_traced(request, world)

--------------------------------------------------------------------------------
(* Properties. *)

ArnParameters == {"TopicArn", "ResourceArn", "SubscriptionArn"}

\* The ARN parameters that an SNS request carries and that its authorization reads before
\* the handler's own, in that order.
ArnsBefore(pairs, field) ==
  (IF field # "TopicArn" THEN First(pairs, "TopicArn") ELSE <<>>)
    \o (IF field \in {"SubscriptionArn", "none"} THEN First(pairs, "ResourceArn") ELSE <<>>)
    \o (IF field = "none" THEN First(pairs, "SubscriptionArn") ELSE <<>>)

\* The queue, topic, user or policy the policies were asked about is the one the handler
\* then works on.  Authorization and handler read the request in two different ways (the
\* first parameter of a name or the last key of a JSON object; a typed request), and query
\* string and body may both carry it; that the typed request is refused when a field is
\* there twice makes them agree.  The exception is an SNS request with several ARN
\* parameters: extract_topic_arn_from_request does not know which of them is the action's
\* own, and the policies are asked about another resource than the one that is handled
\* exactly when a parameter that is read before the action's own names another.
HandledAsAuthorized(request) ==
  can_handle(request) =>
    \A action \in ActionName(request) : \A handled \in parse_payload(request, action) :
      LET misled ==
            /\ request.service = "sns"
            /\ \E pairs \in Pairs(request) :
                 LET before == ArnsBefore(pairs, ResourceField("sns", action))
                 IN  before # <<>> /\ <<Head(before)>> # handled
      IN  handled = AuthorizedResource(action, request) <=> ~misled

\* Who is blamed when storage fails.
\*  - 500, the server's fault, is answered exactly when a store call of the authentication,
\*    of the load for the authorization, or of the handler was reached and failed; 501,
\*    for an action IAM or STS do not have, is the sender's fault.  (STS takes every
\*    StoreError for a failure.)  No malformed, unknown or denied request looks like a
\*    failure of the server, which a client repeats.
\*  - The reads of the caller's policies are the exception: when one fails, the answer in
\*    enforce mode is the 403 of a denial, without a fault, and in the other modes the
\*    failure has no effect.  403 is answered in no other mode than enforce.
\*  - The parts of a request may fail under a 200.  A batch then lists exactly the entries
\*    that failed, as the server's fault when storage failed, and SendMessageBatch always;
\*    Publish says nothing of its deliveries.
BlamesTheRightSide(request, world) ==
  LET answer == Answer(request, world)
      authenticated == world.key = "ok" /\ world.principal = "ok"
      routed == authenticated /\ can_handle(request) /\ ActionName(request) # {}
      unread == world.inline \in StoreErrors \/ world.managed \in StoreErrors
      Decided(action) == AuthorizationError(action, request, world) = {}
      Reached(action) ==
        \/ /\ parse_payload(request, action) # {}
           /\ Loads(action, request) /\ world.load = "StorageFailure"
        \/ /\ AuthorizationError(action, request, world) = {} /\ Permitted(world)
           /\ world.write \in (IF request.service = "sts" THEN StoreErrors ELSE {"StorageFailure"})
      failed == \/ world.key \in StoreErrors
                \/ world.key = "ok" /\ world.principal \in StoreErrors
                \/ routed /\ \E action \in ActionName(request) : Reached(action)
  IN  /\ answer.status = 500 <=> failed
      /\ answer.fault = "Server" <=> failed /\ authenticated
      /\ answer.status = 501 =>
           request.service \in {"iam", "sts"} /\ ActionName(request) = {} /\ answer.fault = "Sender"
      /\ answer.status = 403 => world.mode = "enforce"
      /\ routed => \A action \in ActionName(request) :
           /\ Decided(action) /\ unread /\ world.mode = "enforce" =>
                answer.status = 403 /\ answer.fault = "none"
           /\ answer.status = 200 /\ action \in BatchActions =>
                /\ {e.entry : e \in answer.failed} = Failures(world.parts)
                /\ \A e \in answer.failed :
                     e.sender_fault <=> /\ action # "SendMessageBatch"
                                        /\ world.parts[e.entry] # "StorageFailure"
           /\ answer.status # 200 \/ action \notin BatchActions => answer.failed = {}
================================================================================
