--------------------------- MODULE QueueAttributes ---------------------------
(***************************************************************************)
(* The attributes of an SQS queue as text and as columns: what CreateQueue *)
(* and SetQueueAttributes accept, what they store, and what                *)
(* GetQueueAttributes and the console show of it.                          *)
(*                                                                         *)
(* A text is a number (spelled plainly or not: "7" or "+07"), a word, a    *)
(* JSON document, or empty.  Columns hold what texts were converted to.    *)
(***************************************************************************)
EXTENDS Naturals, Integers, FiniteSets

Number(n) == [as |-> "number", n |-> n, plain |-> TRUE]
OddNumber(n) == [as |-> "number", n |-> n, plain |-> FALSE]
Word(w) == [as |-> "word", word |-> w]
Json(d) == [as |-> "json", doc |-> d]
EmptyText == [as |-> "empty"]
Null == [as |-> "null"]

Texts ==
  [as : {"number"}, n : Int, plain : BOOLEAN] \union [as : {"word"}, word : STRING]
    \union [as : {"json"}, doc : STRING] \union {EmptyText}

EmptyDocument == Json("{}")
Booleans == {Word("true"), Word("false")}

\* The bounds of the numbers, as CreateQueue spells them.
CreateBounds ==
  [VisibilityTimeout |-> <<0, 43200>>, DelaySeconds |-> <<0, 900>>,
   MaximumMessageSize |-> <<1024, 1048576>>, MessageRetentionPeriod |-> <<60, 1209600>>,
   ReceiveMessageWaitTimeSeconds |-> <<0, 20>>,
   KmsDataKeyReusePeriodSeconds |-> <<60, 86400>>]

\* Mutant: SetQueueAttributes takes a longer delay than CreateQueue.
LongerDelay == [CreateBounds EXCEPT !.DelaySeconds = <<0, 901>>]

\* And again as SetQueueAttributes spells them.
UpdateBounds ==
  [VisibilityTimeout |-> <<0, 43200>>, DelaySeconds |-> <<0, 900>>,
   MaximumMessageSize |-> <<1024, 1048576>>, MessageRetentionPeriod |-> <<60, 1209600>>,
   ReceiveMessageWaitTimeSeconds |-> <<0, 20>>,
   KmsDataKeyReusePeriodSeconds |-> <<60, 86400>>]

Allowed ==
  [DeduplicationScope |-> {Word("queue"), Word("messageGroup")},
   FifoThroughputLimit |-> {Word("perQueue"), Word("perMessageGroupId")}]

BooleanAttributes == {"FifoQueue", "ContentBasedDeduplication", "SqsManagedSseEnabled"}
JsonAttributes == {"Policy", "RedrivePolicy", "RedriveAllowPolicy"}

CreateQueueAttributes ==
  DOMAIN CreateBounds \union DOMAIN Allowed \union BooleanAttributes \union JsonAttributes
    \union {"KmsMasterKeyId"}

\* A queue does not change its type.
SetQueueAttributeNames == CreateQueueAttributes \ {"FifoQueue"}

\* QueueAttributeValues::default
Default ==
  [VisibilityTimeout |-> Number(30), DelaySeconds |-> Number(0),
   MaximumMessageSize |-> Number(1048576), MessageRetentionPeriod |-> Number(345600),
   ReceiveMessageWaitTimeSeconds |-> Number(0), Policy |-> EmptyDocument,
   RedrivePolicy |-> EmptyDocument, FifoQueue |-> Word("false"),
   ContentBasedDeduplication |-> Word("false"), KmsMasterKeyId |-> Null,
   KmsDataKeyReusePeriodSeconds |-> Number(300), DeduplicationScope |-> Word("queue"),
   FifoThroughputLimit |-> Word("perQueue"), RedriveAllowPolicy |-> EmptyDocument,
   SqsManagedSseEnabled |-> Word("false")]

--------------------------------------------------------------------------------
(* The conversions.  Each yields the set of the one value, or {} for an error. *)

parse_i64_attribute(raw, bounds) ==
  IF raw.as = "number" /\ bounds[1] <= raw.n /\ raw.n <= bounds[2] THEN {Number(raw.n)} ELSE {}

\* to_ascii_lowercase
Lowercase(raw) ==
  CASE raw = Word("TRUE") -> Word("true") [] raw = Word("False") -> Word("false") [] OTHER -> raw

parse_bool_attribute(raw) == {Lowercase(raw)} \intersect Booleans

\* serde_json::from_str::<Value>: numbers and the words true and false are JSON too.
IsJson(raw) ==
  \/ raw.as = "json"
  \/ raw.as = "number" /\ raw.plain
  \/ raw \in Booleans

\* The text is checked, and stored as it came.
parse_json_string_attribute(name, raw) ==
  IF IsJson(raw) /\ (name = "Policy" => raw \in {EmptyDocument, Json(" {} "), Json("policy")})
    THEN {raw}
    ELSE {}

parse_allowed_string_attribute(name, raw) == {raw} \intersect Allowed[name]

ParsedAttribute(name, raw, bounds) ==
  CASE name \in DOMAIN bounds -> parse_i64_attribute(raw, bounds[name])
    [] name \in BooleanAttributes -> parse_bool_attribute(raw)
    [] name \in JsonAttributes -> parse_json_string_attribute(name, raw)
    [] name \in DOMAIN Allowed -> parse_allowed_string_attribute(name, raw)
    [] name = "KmsMasterKeyId" -> {raw}

TheOnly(S) == CHOOSE x \in S : TRUE

\* validate_supported_attributes, and every conversion succeeds.
Accepted(attributes, names, bounds) ==
  /\ DOMAIN attributes \subseteq names
  /\ \A a \in DOMAIN attributes : ParsedAttribute(a, attributes[a], bounds) # {}

\* CreateQueue: the columns of the new queue.
from_attribute_map(attributes) ==
  [a \in CreateQueueAttributes |->
     IF a \in DOMAIN attributes
       THEN TheOnly(ParsedAttribute(a, attributes[a], CreateBounds))
       ELSE Default[a]]

\* SetQueueAttributes: the columns it writes.  An empty KmsMasterKeyId clears the key.
parse_queue_attribute_update(attributes) ==
  [a \in DOMAIN attributes |->
     IF a = "KmsMasterKeyId" /\ attributes[a] = EmptyText
       THEN Null
       ELSE TheOnly(ParsedAttribute(a, attributes[a], UpdateBounds))]

\* UPDATE ... SET column = COALESCE(?, column)
Updated(queue, update) ==
  [a \in CreateQueueAttributes |-> IF a \in DOMAIN update THEN update[a] ELSE queue[a]]

\* What GetQueueAttributes computes: counts of messages (module Reads), dates and the ARN.
ComputedAttributes ==
  {"ApproximateNumberOfMessages", "ApproximateNumberOfMessagesNotVisible",
   "ApproximateNumberOfMessagesDelayed", "CreatedTimestamp", "LastModifiedTimestamp", "QueueArn"}

\* GetQueueAttributes: the attributes that were asked for, stored or computed; no key, no
\* text.
collect_queue_attributes(queue, computed, requested) ==
  [a \in {x \in CreateQueueAttributes \union ComputedAttributes :
            /\ x \in requested \/ "All" \in requested
            /\ x \in ComputedAttributes \/ queue[x] # Null} |->
     IF a \in ComputedAttributes THEN computed[a] ELSE queue[a]]

\* The attribute table of the console's queue page, where no key is an empty text.
queue_attributes(queue) ==
  [a \in SetQueueAttributeNames |-> IF queue[a] = Null THEN EmptyText ELSE queue[a]]

queue_configuration_matches(existing, requested) ==
  \A a \in CreateQueueAttributes : existing[a] = requested[a]

\* CreateQueue after a Conflict: found is what the second read finds under the name, the
\* queue that was in the way, another one made since, or none.
AnswerToConflict(found, requested) ==
  IF found = {} THEN "InternalError"
  ELSE IF \E existing \in found : queue_configuration_matches(existing, requested)
    THEN "QueueUrl"
    ELSE "QueueAlreadyExists"

\* A name is abstracted to its length, its characters and whether it ends in ".fifo".
validate_queue_name(name, fifo_queue) ==
  /\ name.length \in 1..80
  /\ name.allowed
  /\ name.fifo = fifo_queue

\* GetQueueUrl: the name must be one CreateQueue could have accepted.
ValidForGetQueueUrl(name) == validate_queue_name(name, name.fifo)

\* The console takes the type from a field of the form.
ConsoleValidQueueName(name, queue_type) ==
  /\ queue_type \in {"standard", "fifo"}
  /\ name.length \in 1..80
  /\ name.allowed
  /\ name.fifo = (queue_type = "fifo")

\* http://{host}/{account_id}/{queue_name}
queue_url(host, account, name) == [host |-> host, path |-> <<account, name>>]

\* A host that begins with "sqs." names the region after it (host.region, else NoRegion).
NoRegion == "none"

parse_queue_url(url, default_region) ==
  [account_id |-> url.path[1], name |-> url.path[2],
   region |-> IF url.host.region = NoRegion THEN default_region ELSE url.host.region]

--------------------------------------------------------------------------------
(* Properties. *)

\* The queue that CreateQueue and a SetQueueAttributes after it leave, if that is accepted.
QueueAfter(create, update) ==
  IF Accepted(update, SetQueueAttributeNames, UpdateBounds)
    THEN Updated(from_attribute_map(create), parse_queue_attribute_update(update))
    ELSE from_attribute_map(create)

\* Whatever CreateQueue and a SetQueueAttributes after it accept, the attributes that
\* GetQueueAttributes (and the console) then shows, without the computed ones, are accepted by
\* CreateQueue, and all of them describe the same queue: a client that creates a queue anew from
\* them gets its URL, not QueueAlreadyExists, however the texts were spelled at first.
\* An answer that has a computed attribute, and so every answer to "All", is refused by
\* CreateQueue as it stands (validate_supported_attributes).
RecreatedFromShown(create, update, computed, requested) ==
  Accepted(create, CreateQueueAttributes, CreateBounds) =>
    LET queue == QueueAfter(create, update)
        shown == collect_queue_attributes(queue, computed, requested)
        settable == [a \in DOMAIN shown \ ComputedAttributes |-> shown[a]]
    IN  /\ Accepted(settable, CreateQueueAttributes, CreateBounds)
        /\ Accepted(shown, CreateQueueAttributes, CreateBounds)
             <=> DOMAIN shown \intersect ComputedAttributes = {}
        /\ "All" \in requested =>
             /\ AnswerToConflict({queue}, from_attribute_map(settable)) = "QueueUrl"
             /\ ~Accepted(shown, CreateQueueAttributes, CreateBounds)
        /\ \A a \in DOMAIN settable \intersect SetQueueAttributeNames :
             queue_attributes(queue)[a] = settable[a]

\* Of two CreateQueue of one name the second, or a retry, finds the queue as others have
\* left it by its second read, or does not find it (there).  It is answered the URL
\* exactly when that queue shows what a queue made by its own request would show, and
\* an InternalError exactly when the queue is gone again.
ConflictTold(create, update, again, computed, there) ==
  /\ Accepted(create, CreateQueueAttributes, CreateBounds)
  /\ Accepted(again, CreateQueueAttributes, CreateBounds)
  => LET queue == QueueAfter(create, update)
         wanted == from_attribute_map(again)
         answer == AnswerToConflict(IF there THEN {queue} ELSE {}, wanted)
     IN  /\ answer = "QueueUrl" <=>
              there /\ collect_queue_attributes(queue, computed, {"All"})
                         = collect_queue_attributes(wanted, computed, {"All"})
         /\ answer = "InternalError" <=> ~there

\* A queue is found again by what its creation answered: its name is one GetQueueUrl
\* accepts, created by a request or by the console, and its URL leads to its name,
\* account and region, unless the host of the URL names another region than the one
\* the request was signed for.
FoundByItsUrl(name, type, host, region, account) ==
  /\ validate_queue_name(name, type = "fifo") \/ ConsoleValidQueueName(name, type)
       => ValidForGetQueueUrl(name)
  /\ host.region \in {NoRegion, region} =>
       parse_queue_url(queue_url(host, account, name), region)
         = [account_id |-> account, name |-> name, region |-> region]
================================================================================
