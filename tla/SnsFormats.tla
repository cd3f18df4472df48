------------------------------ MODULE SnsFormats ------------------------------
(***************************************************************************)
(* SNS requests as text: the attributes of topics and subscriptions from   *)
(* the form's entries to what is shown of them, the ARNs that lead back to *)
(* a topic, and the tags.  Texts are those of QueueAttributes; an ARN is   *)
(* the sequence of its parts between colons, and so are the region and the *)
(* account, which have one part unless there is a colon in them.           *)
(***************************************************************************)
EXTENDS QueueAttributes, Sequences

CONSTANT MaxTags     \* tags of a topic, 50 in the code

\* VALID_TOPIC_ATTRIBUTES.  The feedback attributes are accepted, and not stored.
FeedbackAttributes ==
  {"ApplicationSuccessFeedbackRoleArn", "ApplicationSuccessFeedbackSampleRate",
   "ApplicationFailureFeedbackRoleArn", "FirehoseSuccessFeedbackRoleArn",
   "FirehoseSuccessFeedbackSampleRate", "FirehoseFailureFeedbackRoleArn",
   "HTTPSuccessFeedbackRoleArn", "HTTPSuccessFeedbackSampleRate", "HTTPFailureFeedbackRoleArn",
   "LambdaSuccessFeedbackRoleArn", "LambdaSuccessFeedbackSampleRate",
   "LambdaFailureFeedbackRoleArn", "SQSSuccessFeedbackRoleArn",
   "SQSSuccessFeedbackSampleRate", "SQSFailureFeedbackRoleArn"}

VALID_TOPIC_ATTRIBUTES ==
  FeedbackAttributes \union
  {"ArchivePolicy", "ContentBasedDeduplication", "DataProtectionPolicy", "DeliveryPolicy",
   "DisplayName", "FifoTopic", "KmsMasterKeyId", "Policy", "SignatureVersion", "TracingConfig"}

VALID_SUBSCRIPTION_ATTRIBUTES ==
  {"DeliveryPolicy", "FilterPolicy", "FilterPolicyScope", "RawMessageDelivery",
   "RedrivePolicy", "SubscriptionRoleArn", "ReplayPolicy"}

--------------------------------------------------------------------------------
(* Attributes. *)

\* Attributes.entry.N.key and .value, or Tags.member.N.Key and .Value: each entry has a
\* key, a value or both; one without the other is dropped.  The entries pass through hash
\* maps, so of two with the same key either may be the one that stays.
SnsEntries(entries) ==
  LET complete == {i \in DOMAIN entries : entries[i].key # <<>> /\ entries[i].value # <<>>}
      keys == {entries[i].key[1] : i \in complete}
      chosen == {p \in [keys -> complete] : \A k \in keys : entries[p[k]].key[1] = k}
  IN  {[k \in keys |-> entries[p[k]].value[1]] : p \in chosen}

SnsAttributes(entries) == SnsEntries(entries)
SnsTags(entries) == SnsEntries(entries)

\* TagKeys.member.N, in the order of N (as text: the tenth comes before the second).
SnsTagKeys(members) == members

SnsJsonAttributes ==
  {"Policy", "DeliveryPolicy", "DataProtectionPolicy", "ArchivePolicy", "FilterPolicy",
   "RedrivePolicy", "ReplayPolicy"}

validate_json_attribute(name, value) == name \in SnsJsonAttributes => IsJson(value)

RawTexts == {Word(w) : w \in {"true", "false", "True", "False", "TRUE", "FALSE"}}

validate_raw_message_delivery(value) == value \in RawTexts

IsTrueIgnoringCase(value) == value \in {Word("true"), Word("True"), Word("TRUE")}

\* A name is abstracted to its length, its characters and whether it ends in ".fifo".
validate_topic_name(name, attributes) ==
  /\ name.length \in 1..256
  /\ name.allowed
  /\ name.fifo = ("FifoTopic" \in DOMAIN attributes /\ IsTrueIgnoringCase(attributes["FifoTopic"]))

\* The console makes no FIFO topics.
ConsoleValidTopicName(name) == name.length \in 1..256 /\ name.allowed /\ ~name.fifo

CreateTopicAccepts(name, attributes) ==
  /\ validate_topic_name(name, attributes)
  /\ DOMAIN attributes \subseteq VALID_TOPIC_ATTRIBUTES
  /\ \A a \in DOMAIN attributes : validate_json_attribute(a, attributes[a])

SetTopicAttributesAccepts(name, value) ==
  validate_json_attribute(name, value) /\ name \in VALID_TOPIC_ATTRIBUTES

SubscribeAccepts(protocol, attributes) ==
  /\ DOMAIN attributes \subseteq VALID_SUBSCRIPTION_ATTRIBUTES
  /\ \A a \in DOMAIN attributes :
       /\ validate_json_attribute(a, attributes[a])
       /\ a = "RawMessageDelivery" => validate_raw_message_delivery(attributes[a])
  /\ protocol = "sqs"

SetSubscriptionAttributesAccepts(name, value) ==
  SubscribeAccepts("sqs", [a \in {name} |-> value])

TopicColumns ==
  {"DeliveryPolicy", "DisplayName", "Policy", "TracingConfig", "KmsMasterKeyId",
   "SignatureVersion", "FifoTopic", "DataProtectionPolicy", "ArchivePolicy",
   "ContentBasedDeduplication"}

SubscriptionColumns ==
  {"DeliveryPolicy", "FilterPolicy", "FilterPolicyScope", "RawMessageDelivery",
   "RedrivePolicy", "SubscriptionRoleArn", "ReplayPolicy"}

\* handle_create_topic: the row.
NewTopic(attributes) ==
  [c \in TopicColumns |-> CASE c \in DOMAIN attributes -> attributes[c]
                            [] c \notin DOMAIN attributes /\ c = "Policy" -> EmptyDocument
                            [] OTHER -> Null]

NewSubscription(attributes) ==
  [c \in SubscriptionColumns |-> IF c \in DOMAIN attributes THEN attributes[c] ELSE Null]

\* An attribute that has no column is an update of nothing.
from_attribute_name_and_value(columns, name, value) == [c \in columns \intersect {name} |-> value]

\* COALESCE(?, column)
UpdatedRow(row, update) == [c \in DOMAIN row |-> IF c \in DOMAIN update THEN update[c] ELSE row[c]]

DefaultPolicy == Json("default")

topic_policy_attribute_value(policy) ==
  IF policy \in {EmptyText, EmptyDocument, Json(" {} ")} THEN DefaultPolicy ELSE policy

\* GetTopicAttributes, without the two that name the topic and its owner.
handle_get_topic_attributes(topic) ==
  [a \in {c \in TopicColumns : topic[c] # Null} |->
     IF a = "Policy" THEN topic_policy_attribute_value(topic[a]) ELSE topic[a]]

handle_get_subscription_attributes(subscription) ==
  [a \in {c \in SubscriptionColumns : subscription[c] # Null} \union {"RawMessageDelivery"} |->
     IF subscription[a] = Null THEN Word("false") ELSE subscription[a]]

\* What Publish, the console's publish, and the console's list go by.
raw_delivery(subscription) == subscription["RawMessageDelivery"] = Word("true")

\* The console's form has a check box; its button sends "true" or anything else.
ConsoleSubscription(checked) ==
  NewSubscription([a \in (IF checked THEN {"RawMessageDelivery"} ELSE {}) |-> Word("true")])

update_subscription_raw_message_delivery(subscription, enabled) ==
  UpdatedRow(subscription,
             [a \in {"RawMessageDelivery"} |-> IF enabled = Word("true") THEN Word("true")
                                                                         ELSE Word("false")])

--------------------------------------------------------------------------------
(* ARNs. *)

NoPart == "no part"      \* nothing between two colons

\* arn:aws:sns:{region}:{account}:{name}, here and in the console.
topic_arn(topic) == <<"arn", "aws", "sns">> \o topic.region \o topic.account \o <<topic.name>>

subscription_arn(topic, uuid) == topic_arn(topic) \o <<uuid>>

parse_sns_topic_arn(arn) ==
  IF /\ Len(arn) = 6 /\ SubSeq(arn, 1, 3) = <<"arn", "aws", "sns">>
     /\ \A i \in 4..6 : arn[i] # NoPart
    THEN {[region |-> <<arn[4]>>, account |-> <<arn[5]>>, name |-> arn[6]]}
    ELSE {}

validate_topic_arn(arn) == parse_sns_topic_arn(arn) # {}

validate_subscription_arn(arn) ==
  /\ Len(arn) = 7 /\ SubSeq(arn, 1, 3) = <<"arn", "aws", "sns">>
  /\ \A i \in 4..7 : arn[i] # NoPart

\* SELECT ... WHERE name = ? AND region = ? AND account_id = ?
get_topic_by_arn(topicRows, arn) ==
  {t \in topicRows : /\ Len(arn) = 6
                     /\ t = [region |-> <<arn[4]>>, account |-> <<arn[5]>>, name |-> arn[6]]}

--------------------------------------------------------------------------------
(* Tags.  A key is abstracted to its length and the checks it passes. *)

validate_tag_key(key) == key.length \in 1..128 /\ ~key.reserved /\ ~key.control

validate_tags(tags, allow_empty) ==
  /\ DOMAIN tags = {} => allow_empty
  /\ Cardinality(DOMAIN tags) <= MaxTags
  /\ \A key \in DOMAIN tags : validate_tag_key(key) /\ tags[key].length <= 256

validate_tag_keys(keys, allow_empty) ==
  /\ keys = <<>> => allow_empty
  /\ Len(keys) <= MaxTags
  /\ \A i \in DOMAIN keys : validate_tag_key(keys[i])

\* The console tags one key at a time, and refuses control characters in the value too.
ConsoleValidTag(key, value) ==
  validate_tag_key(key) /\ value.length <= 256 /\ ~value.control

--------------------------------------------------------------------------------
(* Properties. *)

With(attributes, name, value) ==
  [a \in DOMAIN attributes \union {name} |-> IF a = name THEN value ELSE attributes[a]]

\* What CreateTopic and a SetTopicAttributes after it accepted is what GetTopicAttributes
\* shows, text for text: the list of accepted names, the fields of the update and the
\* fields of the answer agree on all but the feedback attributes, and an empty policy is
\* shown as the default one.  What is shown describes a topic CreateTopic accepts under
\* that name, unless SetTopicAttributes changed FifoTopic, which does not look at it.
TopicShownAsSet(name, entries, set, value) ==
  \A attributes \in SnsAttributes(entries) :
    CreateTopicAccepts(name, attributes) =>
      LET accepted == SetTopicAttributesAccepts(set, value)
          made == NewTopic(attributes)
          topic == IF accepted
                     THEN UpdatedRow(made, from_attribute_name_and_value(TopicColumns, set, value))
                     ELSE made
          shown == handle_get_topic_attributes(topic)
          given == IF accepted THEN With(attributes, set, value) ELSE attributes
      IN  /\ \A a \in DOMAIN given \ FeedbackAttributes :
               a \in DOMAIN shown /\ (shown[a] = given[a] \/ shown[a] = DefaultPolicy)
          /\ DOMAIN shown \subseteq DOMAIN given \union {"Policy"}
          /\ CreateTopicAccepts(name, shown) \/ (accepted /\ set = "FifoTopic")

\* So for a subscription, where the text of RawMessageDelivery that is shown and the raw
\* delivery that is made disagree only for the spellings True and TRUE; the console
\* writes neither.
SubscriptionShownAsSet(attributes, set, value, checked) ==
  /\ SubscribeAccepts("sqs", attributes) =>
       LET accepted == SetSubscriptionAttributesAccepts(set, value)
           made == NewSubscription(attributes)
           sub == IF accepted
                    THEN UpdatedRow(made, from_attribute_name_and_value(SubscriptionColumns, set, value))
                    ELSE made
           shown == handle_get_subscription_attributes(sub)
           given == IF accepted THEN With(attributes, set, value) ELSE attributes
       IN  /\ \A a \in DOMAIN given : a \in DOMAIN shown /\ shown[a] = given[a]
           /\ DOMAIN shown \subseteq DOMAIN given \union {"RawMessageDelivery"}
           /\ raw_delivery(sub) # IsTrueIgnoringCase(shown["RawMessageDelivery"])
                <=> shown["RawMessageDelivery"] \in {Word("True"), Word("TRUE")}
  /\ LET sub == update_subscription_raw_message_delivery(ConsoleSubscription(checked), value)
     IN  raw_delivery(sub) = IsTrueIgnoringCase(handle_get_subscription_attributes(sub)["RawMessageDelivery"])

\* A topic is found by the ARN that its creation answered unless there is a colon in its
\* region or account (which neither the credential scope nor the console's form refuse:
\* such a topic is in the table, and no ARN leads to it), and requests accept that ARN
\* unless one of the two is empty; no ARN leads to another topic,
\* the ARN of a subscription is not taken for that of a topic, and subscriptions that
\* were made by requests and by the console stand under the same ARN.
TopicFoundByItsArn(topic, others, uuid) ==
  LET plain == Len(topic.region) = 1 /\ Len(topic.account) = 1
      full == plain /\ topic.region[1] # NoPart /\ topic.account[1] # NoPart
      arn == topic_arn(topic)
  IN  /\ validate_topic_arn(arn) <=> full
      /\ get_topic_by_arn({topic} \union others, arn) = (IF plain THEN {topic} ELSE {})
      /\ parse_sns_topic_arn(arn) = (IF full THEN {topic} ELSE {})
      /\ validate_subscription_arn(subscription_arn(topic, uuid)) <=> full
      /\ full => parse_sns_topic_arn(subscription_arn(topic, uuid)) = {}
      /\ \A other \in others : plain /\ topic_arn(other) = arn => other = topic

\* Tags that a topic can be given by CreateTopic, TagResource or the console can be taken
\* off again by the keys they were given under, in any order, and the console gives none that
\* TagResource would refuse; nor does it make a topic CreateTopic would refuse.
TagsComeOff(entries, name) ==
  /\ \A tags \in SnsTags(entries) :
       /\ validate_tags(tags, FALSE) =>
            \A keys \in [1..Cardinality(DOMAIN tags) -> DOMAIN tags] :
              validate_tag_keys(SnsTagKeys(keys), FALSE)
       /\ \A key \in DOMAIN tags :
            ConsoleValidTag(key, tags[key]) =>
              /\ validate_tags([k \in {key} |-> tags[key]], FALSE)
              /\ validate_tag_keys(SnsTagKeys(<<key>>), FALSE)
  /\ ConsoleValidTopicName(name) => CreateTopicAccepts(name, <<>>)
================================================================================
