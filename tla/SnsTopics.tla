------------------------------ MODULE SnsTopics ------------------------------
(***************************************************************************)
(* SNS topics, their tags and their subscriptions: sns_topics,             *)
(* sns_topic_tags, sns_subscriptions and the handlers that change them.    *)
(*                                                                         *)
(* Three things differ from SQS.  Topic and subscription ids come from     *)
(* AUTOINCREMENT and are never used again.  A subscription refers to its   *)
(* topic by ARN, that is by name, with no foreign key, so DeleteTopic      *)
(* removes subscriptions in a statement of its own.  And the attribute     *)
(* updates read the row, merge, and write the whole row back.              *)
(*                                                                         *)
(* Abstractions.  A name stands for an ARN; attributes are a few columns   *)
(* with a few values; tags are their keys.  The console's forms name the   *)
(* topic by its id; their handlers load it, form its ARN and go on by ARN. *)
(***************************************************************************)
EXTENDS Naturals, FiniteSets

CONSTANTS
  Handlers,     \* request handlers running at once
  Names,        \* topic names
  Columns,      \* attribute columns
  Values,       \* their values
  TagKeys,      \* tag keys
  MaxTags,      \* MAX_TAGS_PER_RESOURCE, 50 in the code
  MaxTopics,    \* bound: topics ever created
  MaxSubs,      \* bound: subscriptions ever created
  Faults,       \* may statements fail and the process stop?
  Operations    \* the operations clients call in this instance

ASSUME SnsAssumption ==
  /\ IsFiniteSet(TagKeys)   \* a key has at most 128 characters
  /\ MaxTags \in Nat
  /\ MaxTopics \in Nat
  /\ MaxSubs \in Nat
  /\ Faults \in BOOLEAN

VARIABLES
  topics,     \* sns_topics: a function from the ids in use to rows
  subs,       \* sns_subscriptions: a function from the ids in use to rows
  tags,       \* sns_topic_tags: a set of <<topic id, key>>
  madeTopics, \* topics created so far
  madeSubs,   \* sns_subscriptions' AUTOINCREMENT counter
  pc,         \* pc[h] : the statement handler h runs next
  loc,        \* loc[h] : the local variables of handler h
  calm        \* history: no two requests have overlapped and no statement has failed

vars == <<topics, subs, tags, madeTopics, madeSubs, pc, loc, calm>>

--------------------------------------------------------------------------------
Configs == [Columns -> Values]

\* born is history: which creation the row comes from.
TopicRow == [name : Names, config : Configs, born : Nat]

\* topic is the name in topic_arn; madeFor is history: the topic Subscribe loaded.
SubRow == [topic : Names, config : Configs, madeFor : Nat]

TopicIds == DOMAIN topics
SubIds == DOMAIN subs

\* Set...Attributes names one attribute.
Updates == UNION {[{c} -> Values] : c \in Columns}

ByName == [name : Names, keys : SUBSET TagKeys]
ById == [id : Nat, born : Nat, name : Names, seen : Configs \union {<<>>}, update : Updates \union {<<>>},
         keys : SUBSET TagKeys]
NoLocals == [idle |-> TRUE]

NameStatements == {"delete_first", "delete_topic", "delete_subscriptions", "list_load",
                   "console_load", "tag_load", "untag_load"}
IdStatements == {"insert_subscription", "update_topic", "update_subscription",
                 "select_tags", "console_select", "insert_tags", "delete_tags"}

TypeOK ==
  /\ topics \in [TopicIds -> TopicRow]
  /\ TopicIds \subseteq Nat \ {0}
  /\ subs \in [SubIds -> SubRow]
  /\ SubIds \subseteq 1..madeSubs
  /\ tags \subseteq Nat \X TagKeys
  /\ madeTopics \in Nat
  /\ madeSubs \in Nat
  /\ calm \in BOOLEAN
  /\ pc \in [Handlers -> {"idle"} \union NameStatements \union IdStatements]
  /\ DOMAIN loc = Handlers
  /\ \A h \in Handlers :
       /\ pc[h] \in NameStatements => loc[h] \in ByName
       /\ pc[h] \in IdStatements => loc[h] \in ById

--------------------------------------------------------------------------------
(* The store. *)

\* Mutant: INTEGER PRIMARY KEY without AUTOINCREMENT, which uses ids again.
LargestPlusOne ==
  CHOOSE id \in 1..(madeTopics + 1) :
    /\ \A i \in TopicIds : i < id
    /\ id = 1 \/ id - 1 \in TopicIds

\* AUTOINCREMENT: one more than any id ever used.
NewTopicId == madeTopics + 1

get_topic(name) == {id \in TopicIds : topics[id].name = name}

\* UNIQUE(name, region, account_id): CreateTopic then answers an error.
TopicExists(name) == get_topic(name) # {}

create_topic(name, config) ==
  /\ topics' = [i \in TopicIds \union {NewTopicId} |->
                  IF i = NewTopicId
                    THEN [name |-> name, config |-> config, born |-> madeTopics + 1]
                    ELSE topics[i]]
  /\ madeTopics' = madeTopics + 1

TagsOf(ids) == {t \in tags : t[1] \in ids}

\* Mutant: the cascade to the tags is missing.
DeleteTopicRowOnly(name) ==
  /\ topics' = [i \in TopicIds \ get_topic(name) |-> topics[i]]
  /\ UNCHANGED tags

\* The second statement of delete_topic; tags cascade.
delete_topic_row(name) ==
  /\ topics' = [i \in TopicIds \ get_topic(name) |-> topics[i]]
  /\ tags' = tags \ TagsOf(get_topic(name))

\* Mutant: DeleteTopic leaves the subscriptions alone.
DeleteNoSubscriptions(name) == subs' = subs

\* The third statement of delete_topic.
delete_topic_subscriptions(name) ==
  subs' = [s \in {x \in SubIds : subs[x].topic # name} |-> subs[s]]

create_subscription(name, config, born) ==
  /\ subs' = [s \in SubIds \union {madeSubs + 1} |->
                IF s = madeSubs + 1
                  THEN [topic |-> name, config |-> config, madeFor |-> born]
                  ELSE subs[s]]
  /\ madeSubs' = madeSubs + 1

\* Mutant: a column the update does not name gets its default.
ResetOthers(seen, update) ==
  [c \in Columns |-> IF c \in DOMAIN update THEN update[c] ELSE CHOOSE v \in Values : TRUE]

\* update.column.or(row.column) for every column of the row as it was read.
Overlay(seen, update) ==
  [c \in Columns |-> IF c \in DOMAIN update THEN update[c] ELSE seen[c]]

--------------------------------------------------------------------------------
(* The handlers.  An early error answer changes nothing and is a guard. *)

Goto(h, statement, locals) ==
  /\ pc' = [pc EXCEPT ![h] = statement]
  /\ loc' = [loc EXCEPT ![h] = locals]

Finish(h) == Goto(h, "idle", NoLocals)

Tables == <<topics, subs, tags, madeTopics, madeSubs>>

Calls(h, operation) == operation \in Operations /\ pc[h] = "idle"

\* The locals of a handler that loaded topic id.  The attributes of the row matter to
\* an update only.
Loaded(id, update, keys) ==
  [id |-> id, born |-> topics[id].born, name |-> topics[id].name,
   seen |-> IF update = <<>> THEN <<>> ELSE topics[id].config,
   update |-> update, keys |-> keys]

CreateTopic(h) ==
  /\ Calls(h, "create")
  /\ madeTopics < MaxTopics
  /\ \E name \in Names, config \in Configs, keys \in SUBSET TagKeys :
       /\ ~TopicExists(name)
       /\ Cardinality(keys) <= MaxTags
       /\ create_topic(name, config)
       /\ \/ keys = {} /\ UNCHANGED <<pc, loc>>
          \/ keys # {} /\ Goto(h, "tag_load", [name |-> name, keys |-> keys])
  /\ UNCHANGED <<subs, tags, madeSubs>>

\* DeleteTopic starts by deleting the topic's tags.
DeleteTopic(h) ==
  /\ Calls(h, "delete")
  /\ \E name \in Names :
       /\ tags' = tags \ TagsOf(get_topic(name))
       /\ Goto(h, "delete_topic", [name |-> name, keys |-> {}])
  /\ UNCHANGED <<topics, subs, madeTopics, madeSubs>>

\* Then the topic, or the answer is TopicNotFound and nothing else is deleted.
DeleteTopicRow(h) ==
  /\ pc[h] = "delete_topic"
  /\ \/ /\ TopicExists(loc[h].name)
        /\ delete_topic_row(loc[h].name)
        /\ Goto(h, "delete_subscriptions", loc[h])
     \/ /\ ~TopicExists(loc[h].name)
        /\ Finish(h)
        /\ UNCHANGED <<topics, tags>>
  /\ UNCHANGED <<subs, madeTopics, madeSubs>>

DeleteSubscriptions(h) ==
  /\ pc[h] = "delete_subscriptions"
  /\ delete_topic_subscriptions(loc[h].name)
  /\ Finish(h)
  /\ UNCHANGED <<topics, tags, madeTopics, madeSubs>>

\* Subscribe loads the topic, then inserts.
Subscribe(h) ==
  /\ Calls(h, "subscribe")
  /\ madeSubs < MaxSubs
  /\ \E id \in TopicIds : Goto(h, "insert_subscription", Loaded(id, <<>>, {}))
  /\ UNCHANGED Tables

InsertSubscription(h) ==
  /\ pc[h] = "insert_subscription"
  /\ \E config \in Configs : create_subscription(loc[h].name, config, loc[h].born)
  /\ Finish(h)
  /\ UNCHANGED <<topics, tags, madeTopics>>

\* Unsubscribe, and the console's delete by id.  It reads the row before it deletes
\* it; an ARN or id never comes back, so the two statements act as one.
Unsubscribe(s) ==
  /\ "unsubscribe" \in Operations
  /\ s \in SubIds
  /\ subs' = [x \in SubIds \ {s} |-> subs[x]]
  /\ UNCHANGED <<topics, tags, madeTopics, madeSubs, pc, loc>>

\* SetTopicAttributes reads the row ...
SetTopicAttributes(h) ==
  /\ Calls(h, "set_topic")
  /\ \E id \in TopicIds, update \in Updates : Goto(h, "update_topic", Loaded(id, update, {}))
  /\ UNCHANGED Tables

\* ... and writes all of its columns by id; an UPDATE of no row is no error.
UpdateTopic(h) ==
  /\ pc[h] = "update_topic"
  /\ \/ /\ loc[h].id \in TopicIds
        /\ topics' = [topics EXCEPT ![loc[h].id].config =
                        Overlay(loc[h].seen, loc[h].update)]
     \/ /\ loc[h].id \notin TopicIds
        /\ UNCHANGED topics
  /\ Finish(h)
  /\ UNCHANGED <<subs, tags, madeTopics, madeSubs>>

\* SetSubscriptionAttributes and the console's raw-delivery switch, likewise.
SetSubscriptionAttributes(h) ==
  /\ Calls(h, "set_subscription")
  /\ \E s \in SubIds, update \in Updates :
       Goto(h, "update_subscription",
            [id |-> s, born |-> subs[s].madeFor, name |-> subs[s].topic,
             seen |-> subs[s].config, update |-> update, keys |-> {}])
  /\ UNCHANGED Tables

UpdateSubscription(h) ==
  /\ pc[h] = "update_subscription"
  /\ \/ /\ loc[h].id \in SubIds
        /\ subs' = [subs EXCEPT ![loc[h].id].config =
                      Overlay(loc[h].seen, loc[h].update)]
     \/ /\ loc[h].id \notin SubIds
        /\ UNCHANGED subs
  /\ Finish(h)
  /\ UNCHANGED <<topics, tags, madeTopics, madeSubs>>

\* TagResource makes sure of the topic, lists its tags, checks the limit on the merged
\* set, and tags.  Each store call finds the topic by ARN anew.
TagResource(h) ==
  /\ Calls(h, "tag")
  /\ \E id \in TopicIds, keys \in SUBSET TagKeys \ {{}} :
       /\ Cardinality(keys) <= MaxTags
       /\ Goto(h, "list_load", [name |-> topics[id].name, keys |-> keys])
  /\ UNCHANGED Tables

UntagResource(h) ==
  /\ Calls(h, "untag")
  /\ \E id \in TopicIds, keys \in SUBSET TagKeys \ {{}} :
       /\ Cardinality(keys) <= MaxTags
       /\ Goto(h, "untag_load", [name |-> topics[id].name, keys |-> keys])
  /\ UNCHANGED Tables

\* list_topic_tags, tag_topic and untag_topic start with get_topic.
LoadForTags(h) ==
  /\ pc[h] \in {"list_load", "console_load", "tag_load", "untag_load"}
  /\ \/ \E id \in get_topic(loc[h].name) :
          Goto(h, CASE pc[h] = "list_load" -> "select_tags"
                    [] pc[h] = "console_load" -> "console_select"
                    [] pc[h] = "tag_load" -> "insert_tags"
                    [] pc[h] = "untag_load" -> "delete_tags",
               Loaded(id, <<>>, loc[h].keys))
     \/ ~TopicExists(loc[h].name) /\ Finish(h)
  /\ UNCHANGED Tables

MergedTags(h) == {t[2] : t \in TagsOf({loc[h].id})} \union loc[h].keys

SelectTags(h) ==
  /\ pc[h] = "select_tags"
  /\ \/ /\ Cardinality(MergedTags(h)) <= MaxTags
        /\ Goto(h, "tag_load", [name |-> loc[h].name, keys |-> loc[h].keys])
     \/ /\ Cardinality(MergedTags(h)) > MaxTags
        /\ Finish(h)
  /\ UNCHANGED Tables

\* One transaction for all tags; without the topic the foreign key undoes it.
InsertTags(h) ==
  /\ pc[h] = "insert_tags"
  /\ \/ loc[h].id \in TopicIds /\ tags' = tags \union ({loc[h].id} \X loc[h].keys)
     \/ loc[h].id \notin TopicIds /\ UNCHANGED tags
  /\ Finish(h)
  /\ UNCHANGED <<topics, subs, madeTopics, madeSubs>>

DeleteTags(h) ==
  /\ pc[h] = "delete_tags"
  /\ tags' = tags \ ({loc[h].id} \X loc[h].keys)
  /\ Finish(h)
  /\ UNCHANGED <<topics, subs, madeTopics, madeSubs>>

--------------------------------------------------------------------------------
(* The console's forms: load_topic_by_id, and on by ARN.  The page's id leads to *)
(* the topic on the screen or to none, for ids are not used again.               *)

LoadById(h, operation, statement) ==
  /\ Calls(h, operation)
  /\ "console" \in Operations
  /\ \E id \in TopicIds, key \in TagKeys :
       Goto(h, statement, [name |-> topics[id].name, keys |-> {key}])
  /\ UNCHANGED Tables

ConsoleDeleteTopic(h) == LoadById(h, "delete", "delete_first")
ConsoleTagTopic(h) == LoadById(h, "tag", "console_load")
ConsoleUntagTopic(h) == LoadById(h, "untag", "untag_load")

\* delete_topic's first statement.
DeleteTopicTags(h) ==
  /\ pc[h] = "delete_first"
  /\ tags' = tags \ TagsOf(get_topic(loc[h].name))
  /\ Goto(h, "delete_topic", loc[h])
  /\ UNCHANGED <<topics, subs, madeTopics, madeSubs>>

\* The console sets one tag: one that is there already, or one more below the limit.
ConsoleSelectTags(h) ==
  /\ pc[h] = "console_select"
  /\ LET stored == {t[2] : t \in TagsOf({loc[h].id})}
         fits == loc[h].keys \subseteq stored \/ Cardinality(stored) < MaxTags
     IN  \/ fits /\ Goto(h, "tag_load", [name |-> loc[h].name, keys |-> loc[h].keys])
         \/ ~fits /\ Finish(h)
  /\ UNCHANGED Tables

--------------------------------------------------------------------------------
\* A statement fails (the database stays busy): the request ends with an error.
Busy(h) ==
  /\ Faults
  /\ pc[h] # "idle"
  /\ Finish(h)
  /\ UNCHANGED Tables

\* The process stops and starts again.
Restart ==
  /\ Faults
  /\ pc' = [h \in Handlers |-> "idle"]
  /\ loc' = [h \in Handlers |-> NoLocals]
  /\ UNCHANGED Tables

--------------------------------------------------------------------------------
Init ==
  /\ topics = [i \in {} |-> NoLocals]
  /\ subs = [i \in {} |-> NoLocals]
  /\ tags = {}
  /\ madeTopics = 0
  /\ madeSubs = 0
  /\ pc = [h \in Handlers |-> "idle"]
  /\ loc = [h \in Handlers |-> NoLocals]
  /\ calm = TRUE

Request(h) ==
  \/ CreateTopic(h) \/ DeleteTopic(h) \/ Subscribe(h) \/ SetTopicAttributes(h)
  \/ SetSubscriptionAttributes(h) \/ TagResource(h) \/ UntagResource(h)
  \/ ConsoleDeleteTopic(h) \/ ConsoleTagTopic(h) \/ ConsoleUntagTopic(h)

Statement(h) ==
  \/ DeleteTopicRow(h) \/ DeleteSubscriptions(h) \/ InsertSubscription(h)
  \/ UpdateTopic(h) \/ UpdateSubscription(h)
  \/ LoadForTags(h) \/ SelectTags(h) \/ InsertTags(h) \/ DeleteTags(h)
  \/ DeleteTopicTags(h) \/ ConsoleSelectTags(h)

Quiet == \A h \in Handlers : pc[h] = "idle"

Next ==
  \/ /\ \/ \E h \in Handlers : Request(h)
        \/ \E s \in SubIds : Unsubscribe(s)
     /\ calm' = (calm /\ Quiet)
  \/ /\ \E h \in Handlers : Statement(h)
     /\ UNCHANGED calm
  \/ /\ Restart \/ \E h \in Handlers : Busy(h)
     /\ calm' = FALSE

Spec == Init /\ [][Next]_vars

--------------------------------------------------------------------------------
(* Properties. *)

\* A name leads to one topic, and tags belong to topics that exist: neither the first
\* statement of DeleteTopic nor a tagging under way when the topic goes leaves tags
\* that nothing can remove.  And the tables keep their types.
TopicTables ==
  /\ TypeOK
  /\ \A i, j \in TopicIds : topics[i].name = topics[j].name => i = j
  /\ \A t \in tags : t[1] \in TopicIds

\* A late write by id (UpdateTopic, InsertTags, DeleteTags) reaches the topic its
\* handler loaded or none: ids are not reused, whatever was deleted and created since.
LateWritesHitLoadedTopic ==
  \A h \in Handlers :
    pc[h] \in {"update_topic", "select_tags", "console_select", "insert_tags", "delete_tags"}
      /\ loc[h].id \in TopicIds
    => topics[loc[h].id].born = loc[h].born

\* Every subscription belongs to a topic that exists, except while the DeleteTopic of
\* its topic is on its way to removing it.
SubscriptionsHaveTopics ==
  \A s \in SubIds :
    \/ TopicExists(subs[s].topic)
    \/ \E h \in Handlers :
         pc[h] = "delete_subscriptions" /\ loc[h].name = subs[s].topic

\* As long as requests come one at a time and no statement fails, in whatever order
\* topics are created, tagged, subscribed to and deleted, by requests or by the
\* console: a topic has at most MaxTags tags, and a subscription's topic exists and is
\* the one it was made for, not a later topic of that name.
CalmTables ==
  calm =>
    /\ \A id \in TopicIds : Cardinality(TagsOf({id})) <= MaxTags
    /\ SubscriptionsHaveTopics
    /\ \A s \in SubIds : \A id \in get_topic(subs[s].topic) :
         subs[s].madeFor = topics[id].born

\* What the end of update h may write to column c of the row with this id: the value its
\* own request names for c; or, for a column it does not name, what it had read, and
\* that differs from the row only if requests have overlapped.
OwnValue(h, id, c, value) ==
  /\ pc'[h] = "idle"
  /\ loc[h].id = id
  /\ \/ c \in DOMAIN loc[h].update /\ value = loc[h].update[c]
     \/ c \notin DOMAIN loc[h].update /\ value = loc[h].seen[c] /\ ~calm

\* A column of a topic or subscription changes only by an update of that very row, to
\* the value the update names for it.  Updates that overlap are the exception, and
\* how far it goes is stated too: set_topic_attributes and set_subscription_attributes
\* write the whole row they had read, so that an update may undo another's column, but
\* to nothing else than what it had read itself.
ColumnsChangeAsNamed ==
  [][/\ \A id \in TopicIds, c \in Columns :
          id \in TopicIds' /\ topics'[id].config[c] # topics[id].config[c] =>
            \E h \in Handlers :
              pc[h] = "update_topic" /\ OwnValue(h, id, c, topics'[id].config[c])
     /\ \A s \in SubIds, c \in Columns :
          s \in SubIds' /\ subs'[s].config[c] # subs[s].config[c] =>
            \E h \in Handlers :
              pc[h] = "update_subscription" /\ OwnValue(h, s, c, subs'[s].config[c])]_vars
================================================================================
