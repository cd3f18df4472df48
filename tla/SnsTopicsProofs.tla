--------------------------- MODULE SnsTopicsProofs ---------------------------
(***************************************************************************)
(* Proofs about SnsTopics, for every set of handlers, names, attributes    *)
(* and tag keys, and every value of the bounds.                            *)
(***************************************************************************)
EXTENDS SnsTopics, FiniteSetTheorems, TLAPS

--------------------------------------------------------------------------------
(* What the handlers hold. *)

Statements == {"idle"} \union NameStatements \union IdStatements

\* The statements that hold the id of a topic.
TopicStatements == IdStatements \ {"update_subscription"}

UpdateStatements == {"update_topic", "update_subscription"}

LocTyped(p, l) ==
  /\ p \in NameStatements => l \in ByName
  /\ p \in IdStatements => l \in ById
  /\ p \in UpdateStatements => l.seen \in Configs /\ l.update \in Updates
  /\ p \in {"console_load", "console_select"} => \E k \in TagKeys : l.keys = {k}

\* An id is that of the topic the handler loaded, of which it also has the name.
LocMeant(p, l) ==
  p \in TopicStatements =>
    /\ l.id = l.born
    /\ l.id <= madeTopics
    /\ l.id \in TopicIds => topics[l.id].name = l.name

LocFine(p, l) == LocTyped(p, l) /\ LocMeant(p, l)

HandlersFine == \A h \in Handlers : LocFine(pc[h], loc[h])

\* The id of a topic is the number of its creation, and its name is its own.
TopicsRight ==
  /\ TopicIds \subseteq 1..madeTopics
  /\ \A i \in TopicIds : topics[i].born = i
  /\ \A i, j \in TopicIds : topics[i].name = topics[j].name => i = j
  /\ \A t \in tags : t[1] \in TopicIds

\* The handlers after a step, in terms of the tables before it.
HandlersAfter ==
  /\ pc' \in [Handlers -> Statements]
  /\ DOMAIN loc' = Handlers
  /\ \A h \in Handlers : LocFine(pc'[h], loc'[h])

\* A handler that goes on leaves the others where they are.
LEMMA GotoFacts ==
  ASSUME TypeOK, NEW h \in Handlers, NEW s \in Statements, NEW l, Goto(h, s, l)
  PROVE  /\ pc' \in [Handlers -> Statements] /\ DOMAIN loc' = Handlers
         /\ pc'[h] = s /\ loc'[h] = l
         /\ \A g \in Handlers \ {h} : pc'[g] = pc[g] /\ loc'[g] = loc[g]
BY DEF TypeOK, Goto, Statements

\* A handler that goes on with fine locals leaves all locals fine.
LEMMA GotoFine ==
  ASSUME TypeOK, HandlersFine, NEW h \in Handlers, NEW s \in Statements, NEW l,
         Goto(h, s, l), LocFine(s, l)
  PROVE  HandlersAfter
<1>1. /\ pc' \in [Handlers -> Statements] /\ DOMAIN loc' = Handlers
      /\ pc'[h] = s /\ loc'[h] = l
      /\ \A g \in Handlers \ {h} : pc'[g] = pc[g] /\ loc'[g] = loc[g]
  BY GotoFacts
<1> QED
  BY <1>1 DEF HandlersAfter, HandlersFine

\* Statements by name, statements by id and idle are apart.
LEMMA StatementKinds ==
  /\ "idle" \in Statements
  /\ NameStatements \subseteq Statements
  /\ IdStatements \subseteq Statements
  /\ \A s \in NameStatements : s \notin IdStatements
  /\ "idle" \notin NameStatements /\ "idle" \notin IdStatements
BY DEF Statements, NameStatements, IdStatements

\* A handler that ends is fine.
LEMMA FinishFine ==
  ASSUME TypeOK, HandlersFine, NEW h \in Handlers, Finish(h)
  PROVE  HandlersAfter
<1>1. LocFine("idle", NoLocals)
  BY DEF LocFine, LocTyped, LocMeant, TopicStatements, NameStatements, IdStatements,
     UpdateStatements
<1> QED
  BY <1>1, GotoFine, StatementKinds DEF Finish

\* The locals of a request that has a name.
LEMMA NameLocals ==
  ASSUME NEW name \in Names, NEW ks \in SUBSET TagKeys
  PROVE  LET l == [name |-> name, keys |-> ks]
         IN  l \in ByName /\ l.name = name /\ l.keys = ks
BY DEF ByName

\* A handler that goes on by name.
LEMMA NameFine ==
  ASSUME TypeOK, HandlersFine, NEW h \in Handlers, NEW s \in NameStatements,
         NEW l \in ByName, Goto(h, s, l),
         s = "console_load" => \E k \in TagKeys : l.keys = {k}
  PROVE  HandlersAfter
<1>1. s \notin UpdateStatements /\ s \notin TopicStatements /\ s # "console_select"
      /\ s \notin IdStatements
  BY DEF UpdateStatements, TopicStatements, NameStatements, IdStatements
<1>2. LocFine(s, l)
  BY <1>1 DEF LocFine, LocTyped, LocMeant
<1> QED
  BY <1>2, GotoFine, StatementKinds

\* A handler that has loaded a topic.
LEMMA LoadedLocals ==
  ASSUME TypeOK, TopicsRight, NEW id \in TopicIds, NEW update \in Updates \union {<<>>},
         NEW ks \in SUBSET TagKeys
  PROVE  LET l == Loaded(id, update, ks)
         IN  /\ l \in ById /\ l.id = id /\ l.born = id /\ l.name = topics[id].name
             /\ l.keys = ks /\ l.update = update /\ id <= madeTopics
             /\ l.seen = IF update = <<>> THEN <<>> ELSE topics[id].config
<1>1. /\ id \in Nat /\ topics[id].born = id /\ id <= madeTopics
      /\ topics[id].name \in Names /\ topics[id].config \in Configs
  BY DEF TypeOK, TopicsRight, TopicRow
<1> DEFINE seen == IF update = <<>> THEN <<>> ELSE topics[id].config
<1>2. seen \in Configs \union {<<>>}
  BY <1>1
<1> HIDE DEF seen
<1> QED
  BY <1>1, <1>2 DEF Loaded, ById, seen

\* A handler that goes on with a loaded topic is fine.
LEMMA LoadedFine ==
  ASSUME TypeOK, TopicsRight, HandlersFine, NEW h \in Handlers, NEW s \in TopicStatements,
         NEW id \in TopicIds, NEW update \in Updates \union {<<>>}, NEW ks \in SUBSET TagKeys,
         Goto(h, s, Loaded(id, update, ks)),
         s = "update_topic" => update \in Updates,
         s = "console_select" => \E k \in TagKeys : ks = {k}
  PROVE  HandlersAfter
<1> DEFINE l == Loaded(id, update, ks)
<1>1. /\ l \in ById /\ l.id = id /\ l.born = id /\ l.name = topics[id].name
      /\ l.keys = ks /\ l.update = update /\ id <= madeTopics
      /\ l.seen = IF update = <<>> THEN <<>> ELSE topics[id].config
  BY LoadedLocals
<1>2. Goto(h, s, l)
  OBVIOUS
<1> HIDE DEF l
<1>3. s \in IdStatements /\ s # "update_subscription" /\ s \notin NameStatements
      /\ s # "console_load" /\ s \in Statements
  BY StatementKinds DEF TopicStatements, NameStatements
<1>4. update \in Updates => update # <<>>
  <2>1. DOMAIN <<>> = {}
    OBVIOUS
  <2>2. update \in Updates => DOMAIN update # {}
    BY DEF Updates
  <2> QED
    BY <2>1, <2>2
<1>5. topics[id].config \in Configs
  BY DEF TypeOK, TopicRow
<1>6. LocTyped(s, l)
  BY <1>1, <1>3, <1>4, <1>5 DEF LocTyped, UpdateStatements
<1>7. LocMeant(s, l)
  BY <1>1 DEF LocMeant
<1> QED
  BY <1>2, <1>3, <1>6, <1>7, GotoFine DEF LocFine

\* Every handler holds what it means after every step.
LEMMA HandlersStep ==
  ASSUME TypeOK, TopicsRight, HandlersFine, [Next]_vars
  PROVE  HandlersAfter
<1>0. UNCHANGED <<pc, loc>> => HandlersAfter
  BY DEF HandlersAfter, HandlersFine, TypeOK, Statements
<1>1. ASSUME NEW h \in Handlers, CreateTopic(h)
      PROVE  HandlersAfter
  <2>1. ASSUME NEW name \in Names, NEW ks \in SUBSET TagKeys,
               Goto(h, "tag_load", [name |-> name, keys |-> ks])
        PROVE  HandlersAfter
    <3> DEFINE l == [name |-> name, keys |-> ks]
    <3>1. l \in ByName /\ Goto(h, "tag_load", l)
      BY <2>1, NameLocals
    <3> HIDE DEF l
    <3> QED
      BY <3>1, NameFine DEF NameStatements
  <2> QED
    BY <1>0, <1>1, <2>1 DEF CreateTopic
<1>2. ASSUME NEW h \in Handlers, DeleteTopic(h)
      PROVE  HandlersAfter
  <2>1. PICK name \in Names : Goto(h, "delete_topic", [name |-> name, keys |-> {}])
    BY <1>2 DEF DeleteTopic
  <2> DEFINE l == [name |-> name, keys |-> {}]
  <2>2. l \in ByName /\ Goto(h, "delete_topic", l)
    BY <2>1, NameLocals
  <2> HIDE DEF l
  <2> QED
    BY <2>2, NameFine DEF NameStatements
<1>3. ASSUME NEW h \in Handlers, DeleteTopicRow(h) \/ DeleteTopicTags(h)
      PROVE  HandlersAfter
  <2>1. pc[h] \in NameStatements /\ loc[h] \in ByName
    BY <1>3 DEF DeleteTopicRow, DeleteTopicTags, NameStatements, TypeOK
  <2> DEFINE l == loc[h]
  <2>2. \/ Finish(h)
        \/ \E s \in {"delete_subscriptions", "delete_topic"} : Goto(h, s, l)
    BY <1>3 DEF DeleteTopicRow, DeleteTopicTags
  <2>3. l \in ByName
    BY <2>1
  <2>4. \A s \in {"delete_subscriptions", "delete_topic"} :
          s \in NameStatements /\ s # "console_load"
    BY DEF NameStatements
  <2> HIDE DEF l
  <2> QED
    BY <2>2, <2>3, <2>4, NameFine, FinishFine
<1>4. ASSUME NEW h \in Handlers, Subscribe(h) \/ SetTopicAttributes(h)
      PROVE  HandlersAfter
  <2>1. \/ \E id \in TopicIds : Goto(h, "insert_subscription", Loaded(id, <<>>, {}))
        \/ \E id \in TopicIds, update \in Updates :
             Goto(h, "update_topic", Loaded(id, update, {}))
    BY <1>4 DEF Subscribe, SetTopicAttributes
  <2>2. "insert_subscription" \in TopicStatements /\ "update_topic" \in TopicStatements
    BY DEF TopicStatements, IdStatements
  <2>3. {} \in SUBSET TagKeys /\ <<>> \in Updates \union {<<>>}
    OBVIOUS
  <2> QED
    BY <2>1, <2>2, <2>3, LoadedFine
<1>5. ASSUME NEW h \in Handlers, SetSubscriptionAttributes(h)
      PROVE  HandlersAfter
  <2>1. PICK s \in SubIds, update \in Updates :
          Goto(h, "update_subscription",
               [id |-> s, born |-> subs[s].madeFor, name |-> subs[s].topic,
                seen |-> subs[s].config, update |-> update, keys |-> {}])
    BY <1>5 DEF SetSubscriptionAttributes
  <2> DEFINE l == [id |-> s, born |-> subs[s].madeFor, name |-> subs[s].topic,
                   seen |-> subs[s].config, update |-> update, keys |-> {}]
  <2>2. /\ s \in Nat /\ subs[s].madeFor \in Nat /\ subs[s].topic \in Names
        /\ subs[s].config \in Configs
    BY DEF TypeOK, SubRow
  <2>3. l \in ById /\ l.seen \in Configs /\ l.update \in Updates
    BY <2>2 DEF ById
  <2>4. Goto(h, "update_subscription", l)
    BY <2>1
  <2> HIDE DEF l
  <2>5. LocFine("update_subscription", l)
    BY <2>3 DEF LocFine, LocTyped, LocMeant, TopicStatements, NameStatements
  <2>6. "update_subscription" \in Statements
    BY DEF Statements, IdStatements
  <2> QED
    BY <2>4, <2>5, <2>6, GotoFine
<1>6. ASSUME NEW h \in Handlers, NEW s \in NameStatements, NEW name \in Names,
             NEW ks \in SUBSET TagKeys, s = "console_load" => \E k \in TagKeys : ks = {k},
             Goto(h, s, [name |-> name, keys |-> ks])
      PROVE  HandlersAfter
  <2> DEFINE l == [name |-> name, keys |-> ks]
  <2>1. l \in ByName /\ l.keys = ks /\ Goto(h, s, l)
    BY <1>6, NameLocals
  <2> HIDE DEF l
  <2> QED
    BY <1>6, <2>1, NameFine
<1>7. \A id \in TopicIds : topics[id].name \in Names
  BY DEF TypeOK, TopicRow
<1>a. /\ "list_load" \in NameStatements /\ "untag_load" \in NameStatements
      /\ "tag_load" \in NameStatements /\ "delete_first" \in NameStatements
      /\ "console_load" \in NameStatements
  BY DEF NameStatements
<1>8. ASSUME NEW h \in Handlers, TagResource(h) \/ UntagResource(h)
      PROVE  HandlersAfter
  BY <1>6, <1>7, <1>8, <1>a DEF TagResource, UntagResource
<1>9. ASSUME NEW h \in Handlers,
             ConsoleDeleteTopic(h) \/ ConsoleTagTopic(h) \/ ConsoleUntagTopic(h)
      PROVE  HandlersAfter
  <2>1. ASSUME NEW s \in NameStatements, NEW id \in TopicIds, NEW key \in TagKeys,
               Goto(h, s, [name |-> topics[id].name, keys |-> {key}])
        PROVE  HandlersAfter
    BY <1>6, <1>7, <2>1
  <2> QED
    BY <1>9, <1>a, <2>1 DEF ConsoleDeleteTopic, ConsoleTagTopic, ConsoleUntagTopic, LoadById
<1>10. ASSUME NEW h \in Handlers, SelectTags(h) \/ ConsoleSelectTags(h)
       PROVE  HandlersAfter
  <2>1. loc[h] \in ById
    BY <1>10 DEF SelectTags, ConsoleSelectTags, TypeOK, IdStatements
  <2>2. loc[h].name \in Names /\ loc[h].keys \in SUBSET TagKeys
    BY <2>1 DEF ById
  <2>3. Finish(h) \/ Goto(h, "tag_load", [name |-> loc[h].name, keys |-> loc[h].keys])
    BY <1>10 DEF SelectTags, ConsoleSelectTags
  <2> QED
    BY <1>6, <1>a, <2>2, <2>3, FinishFine
<1>11. ASSUME NEW h \in Handlers, LoadForTags(h)
       PROVE  HandlersAfter
  <2>1. loc[h] \in ByName
    BY <1>11 DEF LoadForTags, TypeOK, NameStatements
  <2>2. loc[h].keys \in SUBSET TagKeys
    BY <2>1 DEF ByName
  <2>3. pc[h] = "console_load" => \E k \in TagKeys : loc[h].keys = {k}
    BY DEF HandlersFine, LocFine, LocTyped
  <2>4. \/ Finish(h)
        \/ \E id \in TopicIds, s \in {"select_tags", "console_select", "insert_tags", "delete_tags"} :
             /\ Goto(h, s, Loaded(id, <<>>, loc[h].keys))
             /\ s = "console_select" => pc[h] = "console_load"
    BY <1>11 DEF LoadForTags, get_topic
  <2>5. \A s \in {"select_tags", "console_select", "insert_tags", "delete_tags"} :
          s \in TopicStatements /\ s # "update_topic"
    BY DEF TopicStatements, IdStatements
  <2>6. <<>> \in Updates \union {<<>>}
    OBVIOUS
  <2> QED
    BY <2>2, <2>3, <2>4, <2>5, <2>6, LoadedFine, FinishFine
<1>12. CASE Restart
  BY <1>12 DEF Restart, HandlersAfter, LocFine, LocTyped, LocMeant, Statements,
     TopicStatements, NameStatements, IdStatements, UpdateStatements
<1>13. ASSUME NEW h \in Handlers, Request(h) \/ Statement(h) \/ Busy(h)
       PROVE  HandlersAfter
  BY <1>1, <1>2, <1>3, <1>4, <1>5, <1>8, <1>9, <1>10, <1>11, <1>13, FinishFine DEF Request,
     Statement, Busy, DeleteSubscriptions, InsertSubscription, UpdateTopic,
     UpdateSubscription, InsertTags, DeleteTags
<1> QED
  BY <1>0, <1>12, <1>13 DEF Next, vars, Unsubscribe

--------------------------------------------------------------------------------
(* The tables. *)

\* A topic that was there before is the same topic, and a new one has a new id.
TopicsLater ==
  /\ madeTopics' \in Nat /\ madeTopics <= madeTopics'
  /\ \A i \in TopicIds' :
       i <= madeTopics => i \in TopicIds /\ topics'[i].name = topics[i].name

TopicsAfter ==
  /\ TopicsLater
  /\ topics' \in [TopicIds' -> TopicRow]
  /\ TopicIds' \subseteq 1..madeTopics'
  /\ \A i \in TopicIds' : topics'[i].born = i
  /\ \A i, j \in TopicIds' : topics'[i].name = topics'[j].name => i = j

\* The rows after create_topic, delete_topic_row and an update of the attributes.
LEMMA CreatedRows ==
  ASSUME TypeOK, TopicsRight, NEW name \in Names, NEW config \in Configs,
         create_topic(name, config)
  PROVE  /\ madeTopics' = madeTopics + 1 /\ madeTopics' \notin TopicIds
         /\ TopicIds' = TopicIds \union {madeTopics'}
         /\ topics' \in [TopicIds' -> TopicRow]
         /\ topics'[madeTopics'].name = name /\ topics'[madeTopics'].born = madeTopics'
         /\ \A i \in TopicIds : topics'[i] = topics[i]
<1> DEFINE n == madeTopics + 1
           row == [name |-> name, config |-> config, born |-> n]
<1>1. madeTopics' = n /\ n \in Nat /\ n \notin TopicIds
  BY DEF create_topic, TypeOK, TopicsRight
<1>2. row \in TopicRow /\ row.name = name /\ row.born = n
  BY <1>1 DEF TopicRow
<1>3. topics' = [i \in TopicIds \union {n} |-> IF i = n THEN row ELSE topics[i]]
  BY DEF create_topic, NewTopicId
<1> HIDE DEF n, row
<1>4. topics \in [TopicIds -> TopicRow]
  BY DEF TypeOK
<1>5. TopicIds' = TopicIds \union {n}
  BY <1>3 DEF TopicIds
<1> QED
  BY <1>1, <1>2, <1>3, <1>4, <1>5 DEF n

\* The topics after a deletion.
LEMMA DeletedRows ==
  ASSUME TypeOK, NEW gone, topics' = [i \in TopicIds \ gone |-> topics[i]]
  PROVE  /\ TopicIds' = TopicIds \ gone
         /\ topics' \in [TopicIds' -> TopicRow]
         /\ \A i \in TopicIds' : topics'[i] = topics[i]
<1>1. topics \in [TopicIds -> TopicRow] /\ TopicIds' = TopicIds \ gone
  BY DEF TypeOK, TopicIds
<1> QED
  BY <1>1

\* A configuration with an update is a configuration.
LEMMA OverlayType ==
  ASSUME NEW seen \in Configs, NEW update \in Updates
  PROVE  Overlay(seen, update) \in Configs
<1>1. PICK c \in Columns : update \in [{c} -> Values]
  BY DEF Updates
<1> QED
  BY <1>1 DEF Overlay, Configs

\* The topics after an update.
LEMMA UpdatedRows ==
  ASSUME TypeOK, NEW id \in TopicIds, NEW config \in Configs,
         topics' = [topics EXCEPT ![id].config = config]
  PROVE  /\ TopicIds' = TopicIds
         /\ topics' \in [TopicIds -> TopicRow]
         /\ topics'[id].config = config
         /\ \A i \in TopicIds : /\ topics'[i].name = topics[i].name
                                /\ topics'[i].born = topics[i].born
                                /\ i # id => topics'[i] = topics[i]
BY DEF TypeOK, TopicIds, TopicRow

\* Who takes a step.
LEMMA StepKinds ==
  ASSUME [Next]_vars
  PROVE  \/ \E h \in Handlers : Request(h) \/ Statement(h) \/ Busy(h)
         \/ \E s \in SubIds : Unsubscribe(s)
         \/ Restart
         \/ UNCHANGED vars
BY DEF Next

\* What a step does to the topics and their tags.
LEMMA TopicsStep ==
  ASSUME TypeOK, TopicsRight, HandlersFine, [Next]_vars
  PROVE  TopicsAfter
<1>0. ASSUME UNCHANGED <<topics, madeTopics>>
      PROVE  TopicsAfter
  BY <1>0 DEF TopicsAfter, TopicsLater, TopicsRight, TypeOK, TopicIds
<1>1. ASSUME NEW h \in Handlers, CreateTopic(h)
      PROVE  TopicsAfter
  <2>1. PICK name \in Names, config \in Configs :
          ~TopicExists(name) /\ create_topic(name, config)
    BY <1>1 DEF CreateTopic
  <2>2. /\ madeTopics' = madeTopics + 1 /\ madeTopics' \notin TopicIds
        /\ TopicIds' = TopicIds \union {madeTopics'}
        /\ topics' \in [TopicIds' -> TopicRow]
        /\ topics'[madeTopics'].name = name /\ topics'[madeTopics'].born = madeTopics'
        /\ \A i \in TopicIds : topics'[i] = topics[i]
    BY <2>1, CreatedRows
  <2>3. \A i \in TopicIds : topics[i].name # name
    BY <2>1 DEF TopicExists, get_topic
  <2>4. TopicIds' \subseteq 1..madeTopics' /\ TopicsLater
    BY <2>2 DEF TopicsRight, TypeOK, TopicsLater
  <2> QED
    BY <2>2, <2>3, <2>4 DEF TopicsAfter, TopicsRight
<1>2. ASSUME NEW h \in Handlers, DeleteTopicRow(h)
      PROVE  TopicsAfter
  <2>1. CASE UNCHANGED topics
    BY <1>0, <1>2, <2>1 DEF DeleteTopicRow
  <2>2. CASE ~UNCHANGED topics
    <3> DEFINE gone == get_topic(loc[h].name)
    <3>1. topics' = [i \in TopicIds \ gone |-> topics[i]] /\ madeTopics' = madeTopics
      BY <1>2, <2>2 DEF DeleteTopicRow, delete_topic_row
    <3> HIDE DEF gone
    <3>2. /\ TopicIds' = TopicIds \ gone
          /\ topics' \in [TopicIds' -> TopicRow]
          /\ \A i \in TopicIds' : topics'[i] = topics[i]
      BY <3>1, DeletedRows
    <3>3. TopicIds' \subseteq TopicIds /\ madeTopics' \in Nat /\ madeTopics <= madeTopics'
      BY <3>1, <3>2 DEF TypeOK
    <3>4. TopicIds' \subseteq 1..madeTopics' /\ TopicsLater
      BY <3>1, <3>2, <3>3 DEF TopicsLater, TopicsRight
    <3> QED
      BY <3>2, <3>3, <3>4 DEF TopicsAfter, TopicsRight
  <2> QED
    BY <2>1, <2>2
<1>3. ASSUME NEW h \in Handlers, UpdateTopic(h)
      PROVE  TopicsAfter
  <2>1. CASE UNCHANGED topics
    BY <1>0, <1>3, <2>1 DEF UpdateTopic
  <2>2. CASE ~UNCHANGED topics
    <3> DEFINE config == Overlay(loc[h].seen, loc[h].update)
               id == loc[h].id
    <3>1. /\ id \in TopicIds /\ topics' = [topics EXCEPT ![id].config = config]
          /\ madeTopics' = madeTopics
      BY <1>3, <2>2 DEF UpdateTopic
    <3>2. config \in Configs
      BY <1>3, OverlayType DEF UpdateTopic, HandlersFine, LocFine, LocTyped, UpdateStatements
    <3> HIDE DEF config, id
    <3>3. /\ TopicIds' = TopicIds /\ topics' \in [TopicIds -> TopicRow]
          /\ \A i \in TopicIds : /\ topics'[i].name = topics[i].name
                                 /\ topics'[i].born = topics[i].born
      BY <3>1, <3>2, UpdatedRows
    <3> QED
      BY <3>1, <3>3 DEF TopicsAfter, TopicsLater, TopicsRight, TypeOK
  <2> QED
    BY <2>1, <2>2
<1>4. ASSUME NEW h \in Handlers, Request(h) \/ Statement(h) \/ Busy(h),
             ~CreateTopic(h), ~DeleteTopicRow(h), ~UpdateTopic(h)
      PROVE  UNCHANGED <<topics, madeTopics>>
  BY <1>4 DEF Request, Statement, Busy, DeleteTopic, Subscribe, SetTopicAttributes,
     SetSubscriptionAttributes, TagResource, UntagResource, ConsoleDeleteTopic,
     ConsoleTagTopic, ConsoleUntagTopic, LoadById, DeleteSubscriptions, InsertSubscription,
     UpdateSubscription, LoadForTags, SelectTags, InsertTags, DeleteTags, DeleteTopicTags,
     ConsoleSelectTags, Tables
<1> QED
  BY <1>0, <1>1, <1>2, <1>3, <1>4, StepKinds DEF Unsubscribe, Restart, vars, Tables

\* Tags stay with topics that exist.
LEMMA TagsStep ==
  ASSUME TypeOK, TopicsRight, HandlersFine, [Next]_vars
  PROVE  tags' \subseteq Nat \X TagKeys /\ \A t \in tags' : t[1] \in TopicIds'
<1> DEFINE P == tags' \subseteq Nat \X TagKeys /\ \A t \in tags' : t[1] \in TopicIds'
<1>0. ASSUME tags' \subseteq tags, TopicIds \subseteq TopicIds'
      PROVE  P
  BY <1>0 DEF TypeOK, TopicsRight
<1>a. UNCHANGED topics => TopicIds \subseteq TopicIds'
  BY DEF TopicIds
<1>1. ASSUME NEW h \in Handlers, CreateTopic(h)
      PROVE  P
  BY <1>0, <1>1, CreatedRows DEF CreateTopic
<1>2. ASSUME NEW h \in Handlers, DeleteTopicRow(h)
      PROVE  P
  <2>1. CASE UNCHANGED <<topics, tags>>
    BY <1>0, <1>a, <2>1
  <2>2. CASE ~UNCHANGED <<topics, tags>>
    <3>1. /\ topics' = [i \in TopicIds \ get_topic(loc[h].name) |-> topics[i]]
          /\ tags' = tags \ TagsOf(get_topic(loc[h].name))
      BY <1>2, <2>2 DEF DeleteTopicRow, delete_topic_row
    <3>2. TopicIds' = TopicIds \ get_topic(loc[h].name)
      BY <3>1 DEF TopicIds
    <3> QED
      BY <3>1, <3>2 DEF TagsOf, TypeOK, TopicsRight
  <2> QED
    BY <2>1, <2>2
<1>3. ASSUME NEW h \in Handlers, UpdateTopic(h)
      PROVE  P
  <2>1. TopicIds' = TopicIds
    BY <1>3 DEF UpdateTopic, TopicIds, TypeOK
  <2> QED
    BY <1>0, <1>3, <2>1 DEF UpdateTopic
<1>4. ASSUME NEW h \in Handlers, InsertTags(h)
      PROVE  P
  <2>1. loc[h].id \in Nat /\ loc[h].keys \subseteq TagKeys /\ TopicIds' = TopicIds
    BY <1>4 DEF InsertTags, TypeOK, IdStatements, ById, TopicIds
  <2> QED
    BY <1>4, <2>1 DEF InsertTags, TypeOK, TopicsRight
<1>5. ASSUME NEW h \in Handlers, Request(h) \/ Statement(h) \/ Busy(h),
             ~CreateTopic(h), ~DeleteTopicRow(h), ~UpdateTopic(h), ~InsertTags(h)
      PROVE  UNCHANGED topics /\ tags' \subseteq tags
  BY <1>5 DEF Request, Statement, Busy, DeleteTopic, Subscribe, SetTopicAttributes,
     SetSubscriptionAttributes, TagResource, UntagResource, ConsoleDeleteTopic,
     ConsoleTagTopic, ConsoleUntagTopic, LoadById, DeleteSubscriptions, InsertSubscription,
     UpdateSubscription, LoadForTags, SelectTags, DeleteTags, DeleteTopicTags,
     ConsoleSelectTags, Tables
<1> QED
  BY <1>0, <1>a, <1>1, <1>2, <1>3, <1>4, <1>5, StepKinds DEF Unsubscribe, Restart, vars, Tables

\* The subscriptions after an INSERT.
LEMMA InsertedSub ==
  ASSUME TypeOK, NEW name \in Names, NEW config \in Configs, NEW born \in Nat,
         create_subscription(name, config, born)
  PROVE  /\ madeSubs' = madeSubs + 1 /\ madeSubs' \notin SubIds
         /\ SubIds' = SubIds \union {madeSubs'}
         /\ subs' \in [SubIds' -> SubRow]
         /\ subs'[madeSubs'].topic = name /\ subs'[madeSubs'].madeFor = born
         /\ \A s \in SubIds : subs'[s] = subs[s]
<1> DEFINE n == madeSubs + 1
           row == [topic |-> name, config |-> config, madeFor |-> born]
<1>1. madeSubs' = n /\ n \in Nat /\ n \notin SubIds
  BY DEF create_subscription, TypeOK
<1>2. row \in SubRow /\ row.topic = name /\ row.madeFor = born
  BY DEF SubRow
<1>3. subs' = [s \in SubIds \union {n} |-> IF s = n THEN row ELSE subs[s]]
  BY DEF create_subscription
<1> HIDE DEF n, row
<1>4. subs \in [SubIds -> SubRow]
  BY DEF TypeOK
<1>5. SubIds' = SubIds \union {n}
  BY <1>3 DEF SubIds
<1> QED
  BY <1>1, <1>2, <1>3, <1>4, <1>5 DEF n

\* The subscriptions after a DELETE.
LEMMA RemovedSubs ==
  ASSUME TypeOK, NEW kept \in SUBSET SubIds, subs' = [s \in kept |-> subs[s]]
  PROVE  /\ SubIds' = kept /\ subs' \in [SubIds' -> SubRow]
         /\ \A s \in SubIds' : subs'[s] = subs[s]
<1>1. subs \in [SubIds -> SubRow] /\ SubIds' = kept
  BY DEF TypeOK, SubIds
<1> QED
  BY <1>1

\* The subscriptions after an UPDATE.
LEMMA UpdatedSub ==
  ASSUME TypeOK, NEW id \in SubIds, NEW config \in Configs,
         subs' = [subs EXCEPT ![id].config = config]
  PROVE  /\ SubIds' = SubIds /\ subs' \in [SubIds -> SubRow]
         /\ subs'[id].config = config
         /\ \A s \in SubIds : /\ subs'[s].topic = subs[s].topic
                              /\ subs'[s].madeFor = subs[s].madeFor
                              /\ s # id => subs'[s] = subs[s]
BY DEF TypeOK, SubIds, SubRow

\* Every step keeps the types of the subscriptions.
LEMMA SubsStep ==
  ASSUME TypeOK, HandlersFine, [Next]_vars
  PROVE  subs' \in [SubIds' -> SubRow] /\ SubIds' \subseteq 1..madeSubs' /\ madeSubs' \in Nat
<1> DEFINE P == subs' \in [SubIds' -> SubRow] /\ SubIds' \subseteq 1..madeSubs' /\ madeSubs' \in Nat
<1>0. ASSUME UNCHANGED <<subs, madeSubs>>
      PROVE  P
  BY <1>0 DEF TypeOK, SubIds
<1>1. ASSUME NEW h \in Handlers, InsertSubscription(h)
      PROVE  P
  <2>1. loc[h].name \in Names /\ loc[h].born \in Nat
    BY <1>1 DEF InsertSubscription, TypeOK, IdStatements, ById
  <2>2. /\ madeSubs' = madeSubs + 1 /\ SubIds' = SubIds \union {madeSubs'}
        /\ subs' \in [SubIds' -> SubRow]
    BY <1>1, <2>1, InsertedSub DEF InsertSubscription
  <2> QED
    BY <2>2 DEF TypeOK
<1>2. ASSUME NEW kept \in SUBSET SubIds, subs' = [s \in kept |-> subs[s]], UNCHANGED madeSubs
      PROVE  P
  BY <1>2, RemovedSubs DEF TypeOK
<1>3. ASSUME NEW h \in Handlers, DeleteSubscriptions(h)
      PROVE  P
  <2> DEFINE kept == {x \in SubIds : subs[x].topic # loc[h].name}
  <2>1. subs' = [s \in kept |-> subs[s]] /\ UNCHANGED madeSubs /\ kept \in SUBSET SubIds
    BY <1>3 DEF DeleteSubscriptions, delete_topic_subscriptions
  <2> HIDE DEF kept, P
  <2> QED
    BY <1>2, <2>1
<1>4. ASSUME NEW s \in SubIds, Unsubscribe(s)
      PROVE  P
  <2> DEFINE kept == SubIds \ {s}
  <2>1. subs' = [x \in kept |-> subs[x]] /\ UNCHANGED madeSubs /\ kept \in SUBSET SubIds
    BY <1>4 DEF Unsubscribe
  <2> HIDE DEF kept, P
  <2> QED
    BY <1>2, <2>1
<1>5. ASSUME NEW h \in Handlers, UpdateSubscription(h)
      PROVE  P
  <2>1. CASE UNCHANGED subs
    BY <1>0, <1>5, <2>1 DEF UpdateSubscription
  <2>2. CASE ~UNCHANGED subs
    <3> DEFINE config == Overlay(loc[h].seen, loc[h].update)
               id == loc[h].id
    <3>1. /\ id \in SubIds /\ subs' = [subs EXCEPT ![id].config = config]
          /\ madeSubs' = madeSubs
      BY <1>5, <2>2 DEF UpdateSubscription
    <3>2. config \in Configs
      BY <1>5, OverlayType DEF UpdateSubscription, HandlersFine, LocFine, LocTyped,
         UpdateStatements
    <3> HIDE DEF config, id
    <3>3. SubIds' = SubIds /\ subs' \in [SubIds -> SubRow]
      BY <3>1, <3>2, UpdatedSub
    <3> QED
      BY <3>1, <3>3 DEF TypeOK
  <2> QED
    BY <2>1, <2>2
<1>6. ASSUME NEW h \in Handlers, Request(h) \/ Statement(h) \/ Busy(h),
             ~InsertSubscription(h), ~DeleteSubscriptions(h), ~UpdateSubscription(h)
      PROVE  UNCHANGED <<subs, madeSubs>>
  BY <1>6 DEF Request, Statement, Busy, CreateTopic, DeleteTopic, Subscribe,
     SetTopicAttributes, SetSubscriptionAttributes, TagResource, UntagResource,
     ConsoleDeleteTopic, ConsoleTagTopic, ConsoleUntagTopic, LoadById, DeleteTopicRow,
     UpdateTopic, LoadForTags, SelectTags, InsertTags, DeleteTags, DeleteTopicTags,
     ConsoleSelectTags, Tables
<1> QED
  BY <1>0, <1>1, <1>3, <1>4, <1>5, <1>6, StepKinds DEF Restart, vars, Tables

--------------------------------------------------------------------------------
(* The invariant of the tables and the handlers. *)

BaseInv ==
  /\ TypeOK
  /\ TopicsRight
  /\ HandlersFine

\* BaseInv holds initially.
LEMMA BaseInit == Init => BaseInv
<1> SUFFICES ASSUME Init
             PROVE  BaseInv
  OBVIOUS
<1>1. TopicIds = {} /\ SubIds = {}
  BY DEF Init, TopicIds, SubIds
<1>2. \A h \in Handlers : pc[h] = "idle"
  BY DEF Init
<1>3. TypeOK
  BY <1>1, <1>2, StatementKinds DEF Init, TypeOK
<1>4. TopicsRight
  BY <1>1 DEF Init, TopicsRight
<1>5. HandlersFine
  BY <1>2 DEF HandlersFine, LocFine, LocTyped, LocMeant, TopicStatements, NameStatements,
     IdStatements, UpdateStatements
<1> QED
  BY <1>3, <1>4, <1>5 DEF BaseInv

\* What a handler means does not change.
LEMMA LocStep ==
  ASSUME TypeOK, TopicsLater, NEW p, NEW l, LocFine(p, l)
  PROVE  LocFine(p, l)'
<1>1. ASSUME p \in TopicStatements
      PROVE  l.id = l.born /\ l.id \in Nat /\ l.id <= madeTopics
             /\ (l.id \in TopicIds => topics[l.id].name = l.name)
  <2>1. p \in IdStatements
    BY <1>1 DEF TopicStatements
  <2>2. l \in ById
    BY <2>1 DEF LocFine, LocTyped
  <2> QED
    BY <1>1, <2>2 DEF LocFine, LocMeant, ById
<1>2. LocMeant(p, l)'
  BY <1>1 DEF LocMeant, TopicsLater, TypeOK
<1> QED
  BY <1>2 DEF LocFine, LocTyped

\* Every step keeps BaseInv, whatever overlaps or fails.
LEMMA BaseStep == BaseInv /\ [Next]_vars => BaseInv'
<1> SUFFICES ASSUME BaseInv, [Next]_vars
             PROVE  BaseInv'
  OBVIOUS
<1>0. TypeOK /\ TopicsRight /\ HandlersFine
  BY DEF BaseInv
<1>1. HandlersAfter
  BY <1>0, HandlersStep
<1>2. TopicsAfter
  BY <1>0, TopicsStep
<1>3. tags' \subseteq Nat \X TagKeys /\ \A t \in tags' : t[1] \in TopicIds'
  BY <1>0, TagsStep
<1>4. subs' \in [SubIds' -> SubRow] /\ SubIds' \subseteq 1..madeSubs' /\ madeSubs' \in Nat
  BY <1>0, SubsStep
<1>5. calm' \in BOOLEAN
  BY <1>0 DEF Next, vars, TypeOK
<1>6. TypeOK'
  <2>1. TopicIds' \subseteq Nat \ {0} /\ madeTopics' \in Nat
    BY <1>2 DEF TopicsAfter, TopicsLater
  <2>2. /\ pc' \in [Handlers -> {"idle"} \union NameStatements \union IdStatements]
        /\ DOMAIN loc' = Handlers
        /\ \A h \in Handlers : /\ pc'[h] \in NameStatements => loc'[h] \in ByName
                               /\ pc'[h] \in IdStatements => loc'[h] \in ById
    BY <1>1 DEF HandlersAfter, Statements, LocFine, LocTyped
  <2> QED
    BY <1>2, <1>3, <1>4, <1>5, <2>1, <2>2 DEF TypeOK, TopicsAfter
<1>7. TopicsRight'
  BY <1>2, <1>3 DEF TopicsRight, TopicsAfter
<1>8. HandlersFine'
  <2> SUFFICES ASSUME NEW h \in Handlers
               PROVE  LocFine(pc[h], loc[h])'
    BY DEF HandlersFine
  <2> DEFINE p == pc'[h]
             l == loc'[h]
  <2>1. LocFine(p, l) /\ TopicsLater
    BY <1>1, <1>2 DEF HandlersAfter, TopicsAfter
  <2> QED
    BY <1>0, <2>1, LocStep
<1> QED
  BY <1>6, <1>7, <1>8 DEF BaseInv

\* BaseInv holds always.
LEMMA BaseInvariant == Spec => []BaseInv
BY BaseInit, BaseStep, PTL DEF Spec

\* The tables of topics and tags: a name leads to one topic, and no tag is left behind,
\* whatever requests overlap, fail or are cut off by a restart.
THEOREM TopicTablesHold == Spec => []TopicTables
<1>1. BaseInv => TopicTables
  BY DEF BaseInv, TopicTables, TopicsRight
<1> QED
  BY <1>1, BaseInvariant, PTL

\* A handler that wakes up late and writes by id reaches the topic it loaded or none,
\* for AUTOINCREMENT gives no id twice.
THEOREM LateWritesRight == Spec => []LateWritesHitLoadedTopic
<1>1. ASSUME BaseInv
      PROVE  LateWritesHitLoadedTopic
  <2> SUFFICES ASSUME NEW h \in Handlers, loc[h].id \in TopicIds,
                      pc[h] \in {"update_topic", "select_tags", "console_select",
                                 "insert_tags", "delete_tags"}
               PROVE  topics[loc[h].id].born = loc[h].born
    BY DEF LateWritesHitLoadedTopic
  <2>1. pc[h] \in TopicStatements
    BY DEF TopicStatements, IdStatements
  <2>2. LocMeant(pc[h], loc[h]) /\ TopicsRight
    BY <1>1 DEF BaseInv, HandlersFine, LocFine
  <2> QED
    BY <2>1, <2>2 DEF LocMeant, TopicsRight
<1> QED
  BY <1>1, BaseInvariant, PTL

--------------------------------------------------------------------------------
(* Requests that come one at a time. *)

KeysOf(id) == {t[2] : t \in TagsOf({id})}

OneActive == \A g, h \in Handlers : pc[g] # "idle" /\ pc[h] # "idle" => g = h

TagsFit == \A id \in TopicIds : Cardinality(KeysOf(id)) <= MaxTags

SubsRight ==
  \A s \in SubIds : \A id \in get_topic(subs[s].topic) : subs[s].madeFor = topics[id].born

\* What the one handler under way holds is not stale: the topic it loaded is there with
\* the attributes it saw, and the tags it checked still leave room for its own.
CalmLocals(p, l) ==
  /\ p \in TopicStatements => l.id \in TopicIds
  /\ p = "update_topic" => l.seen = topics[l.id].config
  /\ p = "update_subscription" => l.id \in SubIds /\ l.seen = subs[l.id].config
  /\ p = "tag_load" =>
       \A id \in get_topic(l.name) : Cardinality(KeysOf(id) \union l.keys) <= MaxTags
  /\ p = "insert_tags" => Cardinality(KeysOf(l.id) \union l.keys) <= MaxTags

CalmInv ==
  calm =>
    /\ OneActive
    /\ TagsFit
    /\ SubscriptionsHaveTopics
    /\ SubsRight
    /\ \A h \in Handlers : CalmLocals(pc[h], loc[h])

\* No other handler is under way.
Alone(h) == \A g \in Handlers \ {h} : pc[g] = "idle"

\* An idle handler holds nothing that could be stale.
LEMMA IdleCalm ==
  ASSUME NEW l
  PROVE  CalmLocals("idle", l) /\ CalmLocals("idle", l)'
BY DEF CalmLocals, TopicStatements, IdStatements

\* A handler that is alone makes its step.
LEMMA CalmAfter ==
  ASSUME TypeOK, NEW h \in Handlers, NEW s \in Statements, NEW l, Goto(h, s, l), Alone(h),
         TagsFit', SubscriptionsHaveTopics', SubsRight', CalmLocals(s, l)'
  PROVE  CalmInv'
<1>1. /\ pc'[h] = s /\ loc'[h] = l
      /\ \A g \in Handlers \ {h} : pc'[g] = pc[g] /\ loc'[g] = loc[g]
  BY GotoFacts
<1>2. OneActive'
  BY <1>1 DEF OneActive, Alone
<1>3. ASSUME NEW g \in Handlers
      PROVE  CalmLocals(pc[g], loc[g])'
  <2>1. CASE g = h
    BY <1>1, <2>1
  <2>2. CASE g # h
    <3>1. pc'[g] = "idle"
      BY <1>1, <2>2 DEF Alone
    <3> QED
      BY <3>1, IdleCalm
  <2> QED
    BY <2>1, <2>2
<1> QED
  BY <1>2, <1>3 DEF CalmInv

\* The same when the step changes no table.
LEMMA CalmMove ==
  ASSUME TypeOK, CalmInv, calm, NEW h \in Handlers, NEW s \in Statements, NEW l,
         Goto(h, s, l), Alone(h), UNCHANGED Tables, pc[h] # "delete_subscriptions",
         CalmLocals(s, l)
  PROVE  CalmInv'
<1>0. UNCHANGED <<topics, subs, tags>>
  BY DEF Tables
<1>1. TagsFit'
  BY <1>0 DEF CalmInv, TagsFit, KeysOf, TagsOf, TopicIds
<1>2. SubsRight'
  BY <1>0 DEF CalmInv, SubsRight, SubIds, TopicIds, get_topic
<1>3. \A x \in SubIds : TopicExists(subs[x].topic)
  BY DEF CalmInv, SubscriptionsHaveTopics, Alone
<1>4. SubscriptionsHaveTopics'
  BY <1>0, <1>3 DEF SubscriptionsHaveTopics, SubIds, TopicIds, TopicExists, get_topic
<1>5. CalmLocals(s, l)'
  BY <1>0 DEF CalmLocals, TopicIds, SubIds, KeysOf, TagsOf, get_topic
<1> QED
  BY <1>1, <1>2, <1>4, <1>5, CalmAfter

\* A subset of few keys is few keys.
LEMMA FewerKeys ==
  ASSUME NEW S \in SUBSET TagKeys, NEW T \in SUBSET S, Cardinality(S) <= MaxTags
  PROVE  Cardinality(T) <= MaxTags
<1> USE SnsAssumption
<1>1. IsFiniteSet(S)
  BY FS_Subset
<1>2. IsFiniteSet(T) /\ Cardinality(T) <= Cardinality(S)
  BY <1>1, FS_Subset
<1>3. Cardinality(S) \in Nat /\ Cardinality(T) \in Nat
  BY <1>1, <1>2, FS_CardinalityType
<1> QED
  BY <1>2, <1>3

\* The tags of a topic have keys.
LEMMA KeysTyped ==
  ASSUME TypeOK, NEW id
  PROVE  KeysOf(id) \in SUBSET TagKeys
BY DEF TypeOK, KeysOf, TagsOf

\* Fewer tags, on no more topics.
LEMMA FewerTags ==
  ASSUME TypeOK, TagsFit, tags' \subseteq tags, TopicIds' \subseteq TopicIds
  PROVE  TagsFit'
<1> SUFFICES ASSUME NEW id \in TopicIds'
             PROVE  Cardinality(KeysOf(id)') <= MaxTags
  BY DEF TagsFit
<1>1. KeysOf(id)' \in SUBSET KeysOf(id) /\ KeysOf(id) \in SUBSET TagKeys
  BY KeysTyped DEF KeysOf, TagsOf
<1>2. Cardinality(KeysOf(id)) <= MaxTags
  BY DEF TagsFit
<1> DEFINE S == KeysOf(id)
           T == KeysOf(id)'
<1>3. S \in SUBSET TagKeys /\ T \in SUBSET S /\ Cardinality(S) <= MaxTags
  BY <1>1, <1>2
<1> HIDE DEF S, T
<1>4. Cardinality(T) <= MaxTags
  BY <1>3, FewerKeys
<1> QED
  BY <1>4 DEF T

\* The first statements of requests that come while nothing else is under way.
LEMMA CalmRequest ==
  ASSUME BaseInv, CalmInv, calm, Quiet, NEW h \in Handlers, Request(h)
  PROVE  CalmInv'
<1>0. TypeOK /\ TopicsRight /\ HandlersFine /\ Alone(h) /\ pc[h] = "idle"
  BY DEF BaseInv, Alone, Quiet
<1>a. \A x \in SubIds : TopicExists(subs[x].topic)
  BY DEF CalmInv, SubscriptionsHaveTopics, Quiet
<1>b. TagsFit /\ SubsRight
  BY DEF CalmInv
<1>1. ASSUME CreateTopic(h)
      PROVE  CalmInv'
  <2>1. PICK name \in Names, config \in Configs, ks \in SUBSET TagKeys :
          /\ ~TopicExists(name) /\ Cardinality(ks) <= MaxTags
          /\ create_topic(name, config)
          /\ \/ UNCHANGED <<pc, loc>>
             \/ Goto(h, "tag_load", [name |-> name, keys |-> ks])
    BY <1>1 DEF CreateTopic
  <2>0. PICK n : n = madeTopics'
    OBVIOUS
  <2>2. /\ n \notin TopicIds
        /\ TopicIds' = TopicIds \union {n}
        /\ topics'[n].name = name /\ topics'[n].born = n
        /\ \A i \in TopicIds : topics'[i] = topics[i]
    BY <1>0, <2>0, <2>1, CreatedRows
  <2>3. UNCHANGED <<subs, tags>>
    BY <1>1 DEF CreateTopic
  <2>4. \A i \in TopicIds : topics[i].name # name
    BY <2>1 DEF TopicExists, get_topic
  <2>5. KeysOf(n)' = {}
    BY <1>0, <2>2, <2>3 DEF KeysOf, TagsOf, TopicsRight
  <2>6. \A i : KeysOf(i)' = KeysOf(i)
    BY <2>3 DEF KeysOf, TagsOf
  <2>7. Cardinality(KeysOf(n)') <= MaxTags
    <3>1. Cardinality({}) <= MaxTags
      BY FS_EmptySet, SnsAssumption
    <3> QED
      BY <2>5, <3>1
  <2>8. TagsFit'
    <3> SUFFICES ASSUME NEW i \in TopicIds'
                 PROVE  Cardinality(KeysOf(i)') <= MaxTags
      BY DEF TagsFit
    <3>1. CASE i = n
      BY <2>7, <3>1
    <3>2. CASE i # n
      BY <1>b, <2>2, <2>6, <3>2 DEF TagsFit
    <3> QED
      BY <3>1, <3>2
  <2>9. SubscriptionsHaveTopics'
    BY <1>a, <2>2, <2>3 DEF SubscriptionsHaveTopics, SubIds, TopicExists, get_topic
  <2>10. SubsRight'
    BY <1>a, <1>b, <2>2, <2>3, <2>4 DEF SubsRight, SubIds, TopicExists, get_topic
  <2>11. CASE UNCHANGED <<pc, loc>>
    <3>1. \A g \in Handlers : pc'[g] = "idle"
      BY <2>11 DEF Quiet
    <3>2. OneActive' /\ \A g \in Handlers : CalmLocals(pc[g], loc[g])'
      BY <3>1, IdleCalm DEF OneActive
    <3> QED
      BY <2>8, <2>9, <2>10, <3>2 DEF CalmInv
  <2>12. CASE Goto(h, "tag_load", [name |-> name, keys |-> ks])
    <3> DEFINE l == [name |-> name, keys |-> ks]
    <3>1. l.name = name /\ l.keys = ks /\ Goto(h, "tag_load", l)
      BY <2>12
    <3> HIDE DEF l
    <3>2. \A i \in get_topic(name)' : i = n
      BY <2>2, <2>4 DEF get_topic
    <3>3. \A i \in get_topic(l.name)' : Cardinality(KeysOf(i)' \union l.keys) <= MaxTags
      BY <2>1, <2>5, <3>1, <3>2
    <3>4. CalmLocals("tag_load", l)'
      BY <3>3 DEF CalmLocals, TopicStatements, IdStatements
    <3>5. "tag_load" \in Statements
      BY DEF Statements, NameStatements
    <3> QED
      BY <1>0, <2>8, <2>9, <2>10, <3>1, <3>4, <3>5, CalmAfter
  <2> QED
    BY <2>1, <2>11, <2>12
<1>2. ASSUME DeleteTopic(h)
      PROVE  CalmInv'
  <2>1. PICK name \in Names : Goto(h, "delete_topic", [name |-> name, keys |-> {}])
    BY <1>2 DEF DeleteTopic
  <2>2. UNCHANGED <<topics, subs>> /\ tags' \subseteq tags
    BY <1>2 DEF DeleteTopic
  <2>3. TagsFit'
    BY <1>0, <1>b, <2>2, FewerTags DEF TopicIds
  <2>4. SubscriptionsHaveTopics' /\ SubsRight'
    BY <1>a, <1>b, <2>2 DEF SubscriptionsHaveTopics, SubsRight, SubIds, TopicIds, TopicExists,
       get_topic
  <2> DEFINE l == [name |-> name, keys |-> {}]
  <2>5. Goto(h, "delete_topic", l)
    BY <2>1
  <2> HIDE DEF l
  <2>6. CalmLocals("delete_topic", l)' /\ "delete_topic" \in Statements
    BY DEF CalmLocals, TopicStatements, IdStatements, Statements, NameStatements
  <2> QED
    BY <1>0, <2>3, <2>4, <2>5, <2>6, CalmAfter
<1>3. ASSUME NEW s \in NameStatements \ {"tag_load"}, NEW l, Goto(h, s, l), UNCHANGED Tables
      PROVE  CalmInv'
  <2>1. CalmLocals(s, l) /\ s \in Statements
    BY DEF CalmLocals, TopicStatements, IdStatements, Statements, NameStatements
  <2> QED
    BY <1>0, <1>3, <2>1, CalmMove
<1>4. ASSUME TagResource(h) \/ UntagResource(h) \/ ConsoleDeleteTopic(h)
               \/ ConsoleTagTopic(h) \/ ConsoleUntagTopic(h)
      PROVE  CalmInv'
  <2>1. /\ "list_load" \in NameStatements \ {"tag_load"}
        /\ "untag_load" \in NameStatements \ {"tag_load"}
        /\ "delete_first" \in NameStatements \ {"tag_load"}
        /\ "console_load" \in NameStatements \ {"tag_load"}
    BY DEF NameStatements
  <2> QED
    BY <1>3, <1>4, <2>1 DEF TagResource, UntagResource, ConsoleDeleteTopic, ConsoleTagTopic,
       ConsoleUntagTopic, LoadById
<1>5. ASSUME NEW s \in {"insert_subscription", "update_topic"}, NEW id \in TopicIds,
             NEW update \in Updates \union {<<>>}, s = "update_topic" => update \in Updates,
             Goto(h, s, Loaded(id, update, {})), UNCHANGED Tables
      PROVE  CalmInv'
  <2> DEFINE l == Loaded(id, update, {})
  <2>1. {} \in SUBSET TagKeys
    OBVIOUS
  <2>2. /\ l.id = id /\ Goto(h, s, l)
        /\ l.seen = IF update = <<>> THEN <<>> ELSE topics[id].config
    BY <1>0, <1>5, <2>1, LoadedLocals
  <2> HIDE DEF l
  <2>3. update \in Updates => update # <<>>
    <3>1. DOMAIN <<>> = {}
      OBVIOUS
    <3>2. update \in Updates => DOMAIN update # {}
      BY DEF Updates
    <3> QED
      BY <3>1, <3>2
  <2>4. CalmLocals(s, l) /\ s \in Statements
    BY <1>5, <2>2, <2>3 DEF CalmLocals, Statements, IdStatements
  <2> QED
    BY <1>0, <1>5, <2>2, <2>4, CalmMove
<1>6. ASSUME Subscribe(h) \/ SetTopicAttributes(h)
      PROVE  CalmInv'
  BY <1>5, <1>6 DEF Subscribe, SetTopicAttributes
<1>7. ASSUME SetSubscriptionAttributes(h)
      PROVE  CalmInv'
  <2>1. PICK s \in SubIds, update \in Updates :
          Goto(h, "update_subscription",
               [id |-> s, born |-> subs[s].madeFor, name |-> subs[s].topic,
                seen |-> subs[s].config, update |-> update, keys |-> {}])
    BY <1>7 DEF SetSubscriptionAttributes
  <2> DEFINE l == [id |-> s, born |-> subs[s].madeFor, name |-> subs[s].topic,
                   seen |-> subs[s].config, update |-> update, keys |-> {}]
  <2>2. l.id = s /\ l.seen = subs[s].config /\ Goto(h, "update_subscription", l)
    BY <2>1
  <2> HIDE DEF l
  <2>3. CalmLocals("update_subscription", l) /\ "update_subscription" \in Statements
    BY <2>2 DEF CalmLocals, TopicStatements, Statements, IdStatements
  <2> QED
    BY <1>0, <1>7, <2>2, <2>3, CalmMove DEF SetSubscriptionAttributes
<1> QED
  BY <1>1, <1>2, <1>4, <1>6, <1>7 DEF Request

\* The later statements of the one request under way.
LEMMA CalmStatement ==
  ASSUME BaseInv, CalmInv, calm, NEW h \in Handlers, Statement(h)
  PROVE  CalmInv'
<1>0. /\ TypeOK /\ TopicsRight /\ TagsFit /\ SubsRight /\ SubscriptionsHaveTopics
      /\ LocFine(pc[h], loc[h]) /\ CalmLocals(pc[h], loc[h])
  BY DEF BaseInv, CalmInv, HandlersFine
<1>a. pc[h] # "idle" /\ Alone(h)
  <2>1. pc[h] # "idle"
    BY DEF Statement, DeleteTopicRow, DeleteSubscriptions, InsertSubscription, UpdateTopic,
       UpdateSubscription, LoadForTags, SelectTags, InsertTags, DeleteTags, DeleteTopicTags,
       ConsoleSelectTags
  <2> QED
    BY <2>1 DEF CalmInv, OneActive, Alone
<1>b. ASSUME pc[h] # "delete_subscriptions"
      PROVE  \A x \in SubIds : TopicExists(subs[x].topic)
  BY <1>0, <1>a, <1>b DEF SubscriptionsHaveTopics, Alone
<1>c. "idle" \in Statements /\ "tag_load" \in Statements
  BY DEF Statements, NameStatements
<1>1. ASSUME DeleteTopicRow(h)
      PROVE  CalmInv'
  <2>0. pc[h] = "delete_topic"
    BY <1>1 DEF DeleteTopicRow
  <2>1. CASE ~TopicExists(loc[h].name)
    BY <1>0, <1>1, <1>a, <1>c, <2>0, <2>1, CalmMove, IdleCalm DEF DeleteTopicRow, Finish, Tables
  <2>2. CASE TopicExists(loc[h].name)
    <3> DEFINE gone == get_topic(loc[h].name)
    <3>0. PICK l : l = loc[h]
      OBVIOUS
    <3>1. /\ topics' = [i \in TopicIds \ gone |-> topics[i]] /\ tags' \subseteq tags
          /\ UNCHANGED subs /\ Goto(h, "delete_subscriptions", l)
      BY <1>1, <2>2, <3>0 DEF DeleteTopicRow, delete_topic_row
    <3>2. TopicIds' = TopicIds \ gone /\ \A i \in TopicIds' : topics'[i] = topics[i]
      <4> HIDE DEF gone
      <4> QED
        BY <1>0, <3>1, DeletedRows
    <3>3. TagsFit'
      BY <1>0, <3>1, <3>2, FewerTags
    <3>4. SubsRight'
      BY <1>0, <3>1, <3>2 DEF SubsRight, SubIds, get_topic
    <3>5. "delete_subscriptions" \in Statements
      BY DEF Statements, NameStatements
    <3>6. pc'[h] = "delete_subscriptions" /\ loc'[h] = loc[h]
      BY <1>0, <3>0, <3>1, <3>5, GotoFacts
    <3>7. SubscriptionsHaveTopics'
      <4> SUFFICES ASSUME NEW x \in SubIds'
                   PROVE  \/ TopicExists(subs[x].topic)'
                          \/ pc'[h] = "delete_subscriptions" /\ loc'[h].name = subs'[x].topic
        BY DEF SubscriptionsHaveTopics
      <4>1. x \in SubIds /\ subs'[x] = subs[x]
        BY <3>1 DEF SubIds
      <4>2. PICK i \in TopicIds : topics[i].name = subs[x].topic
        BY <1>b, <2>0, <4>1 DEF TopicExists, get_topic
      <4>3. CASE subs[x].topic = loc[h].name
        BY <3>6, <4>1, <4>3
      <4>4. CASE subs[x].topic # loc[h].name
        BY <3>2, <4>1, <4>2, <4>4 DEF TopicExists, get_topic
      <4> QED
        BY <4>3, <4>4
    <3>8. CalmLocals("delete_subscriptions", l)'
      BY DEF CalmLocals, TopicStatements, IdStatements
    <3> QED
      BY <1>0, <1>a, <3>1, <3>3, <3>4, <3>5, <3>7, <3>8, CalmAfter
  <2> QED
    BY <2>1, <2>2
<1>2. ASSUME DeleteSubscriptions(h)
      PROVE  CalmInv'
  <2> DEFINE kept == {x \in SubIds : subs[x].topic # loc[h].name}
  <2>1. /\ subs' = [s \in kept |-> subs[s]] /\ UNCHANGED <<topics, tags>>
        /\ Goto(h, "idle", NoLocals) /\ pc[h] = "delete_subscriptions"
    BY <1>2 DEF DeleteSubscriptions, delete_topic_subscriptions, Finish
  <2>2. SubIds' = kept /\ \A x \in SubIds' : subs'[x] = subs[x]
    <3>1. kept \in SUBSET SubIds
      OBVIOUS
    <3> HIDE DEF kept
    <3> QED
      BY <1>0, <2>1, <3>1, RemovedSubs
  <2>3. TagsFit'
    BY <1>0, <2>1, FewerTags DEF TopicIds
  <2>4. SubsRight'
    BY <1>0, <2>1, <2>2 DEF SubsRight, get_topic, TopicIds
  <2>5. \A x \in SubIds' : TopicExists(subs[x].topic)
    BY <1>0, <1>a, <2>2 DEF SubscriptionsHaveTopics, Alone
  <2>6. SubscriptionsHaveTopics'
    BY <2>1, <2>2, <2>5 DEF SubscriptionsHaveTopics, TopicExists, get_topic, TopicIds
  <2> QED
    BY <1>0, <1>a, <1>c, <2>1, <2>3, <2>4, <2>6, CalmAfter, IdleCalm
<1>3. ASSUME InsertSubscription(h)
      PROVE  CalmInv'
  <2>1. /\ pc[h] = "insert_subscription" /\ loc[h].name \in Names /\ loc[h].born \in Nat
        /\ UNCHANGED <<topics, tags>> /\ Goto(h, "idle", NoLocals)
    BY <1>0, <1>3 DEF InsertSubscription, TypeOK, IdStatements, ById, Finish
  <2>2. /\ SubIds' = SubIds \union {madeSubs'} /\ madeSubs' \notin SubIds
        /\ subs'[madeSubs'].topic = loc[h].name /\ subs'[madeSubs'].madeFor = loc[h].born
        /\ \A s \in SubIds : subs'[s] = subs[s]
    BY <1>0, <1>3, <2>1, InsertedSub DEF InsertSubscription
  <2>3. /\ loc[h].id \in TopicIds /\ topics[loc[h].id].name = loc[h].name
        /\ loc[h].id = loc[h].born
    BY <1>0, <2>1 DEF LocFine, LocMeant, CalmLocals, TopicStatements, IdStatements
  <2>4. \A i \in get_topic(loc[h].name) : i = loc[h].id /\ topics[i].born = loc[h].born
    <3>1. ASSUME NEW i \in get_topic(loc[h].name)
          PROVE  i = loc[h].id
      <4>1. i \in TopicIds /\ topics[i].name = loc[h].name
        BY <3>1 DEF get_topic
      <4>2. \A j, k \in TopicIds : topics[j].name = topics[k].name => j = k
        BY <1>0 DEF TopicsRight
      <4> QED
        BY ONLY <2>3, <4>1, <4>2
    <3>2. topics[loc[h].id].born = loc[h].id
      BY <1>0, <2>3 DEF TopicsRight
    <3> QED
      BY <2>3, <3>1, <3>2
  <2>5. TagsFit'
    BY <1>0, <2>1, FewerTags DEF TopicIds
  <2>6. SubsRight'
    BY <1>0, <2>1, <2>2, <2>4 DEF SubsRight, get_topic, TopicIds
  <2>7. SubscriptionsHaveTopics'
    BY <1>b, <2>1, <2>2, <2>3 DEF SubscriptionsHaveTopics, TopicExists, get_topic, TopicIds
  <2> QED
    BY <1>0, <1>a, <1>c, <2>1, <2>5, <2>6, <2>7, CalmAfter, IdleCalm
<1>4. ASSUME UpdateTopic(h)
      PROVE  CalmInv'
  <2>0. /\ pc[h] = "update_topic" /\ UNCHANGED <<subs, tags, madeTopics, madeSubs>>
        /\ Goto(h, "idle", NoLocals)
    BY <1>4 DEF UpdateTopic, Finish
  <2>1. CASE UNCHANGED topics
    BY <1>0, <1>a, <1>c, <2>0, <2>1, CalmMove, IdleCalm DEF Tables
  <2>2. CASE ~UNCHANGED topics
    <3> DEFINE config == Overlay(loc[h].seen, loc[h].update)
               id == loc[h].id
    <3>1. id \in TopicIds /\ topics' = [topics EXCEPT ![id].config = config]
      BY <1>4, <2>2 DEF UpdateTopic
    <3>2. config \in Configs
      BY <1>0, <2>0, OverlayType DEF LocFine, LocTyped, UpdateStatements
    <3> HIDE DEF config, id
    <3>3. /\ TopicIds' = TopicIds
          /\ \A i \in TopicIds : /\ topics'[i].name = topics[i].name
                                 /\ topics'[i].born = topics[i].born
      BY <1>0, <3>1, <3>2, UpdatedRows
    <3>4. TagsFit'
      BY <1>0, <2>0, <3>3, FewerTags
    <3>5. SubsRight'
      BY <1>0, <2>0, <3>3 DEF SubsRight, get_topic, SubIds
    <3>6. SubscriptionsHaveTopics'
      BY <1>b, <2>0, <3>3 DEF SubscriptionsHaveTopics, TopicExists, get_topic, SubIds
    <3> QED
      BY <1>0, <1>a, <1>c, <2>0, <3>4, <3>5, <3>6, CalmAfter, IdleCalm
  <2> QED
    BY <2>1, <2>2
<1>5. ASSUME UpdateSubscription(h)
      PROVE  CalmInv'
  <2>0. /\ pc[h] = "update_subscription" /\ UNCHANGED <<topics, tags, madeTopics, madeSubs>>
        /\ Goto(h, "idle", NoLocals)
    BY <1>5 DEF UpdateSubscription, Finish
  <2>1. CASE UNCHANGED subs
    BY <1>0, <1>a, <1>c, <2>0, <2>1, CalmMove, IdleCalm DEF Tables
  <2>2. CASE ~UNCHANGED subs
    <3> DEFINE config == Overlay(loc[h].seen, loc[h].update)
               id == loc[h].id
    <3>1. id \in SubIds /\ subs' = [subs EXCEPT ![id].config = config]
      BY <1>5, <2>2 DEF UpdateSubscription
    <3>2. config \in Configs
      BY <1>0, <2>0, OverlayType DEF LocFine, LocTyped, UpdateStatements
    <3> HIDE DEF config, id
    <3>3. /\ SubIds' = SubIds
          /\ \A s \in SubIds : /\ subs'[s].topic = subs[s].topic
                               /\ subs'[s].madeFor = subs[s].madeFor
      BY <1>0, <3>1, <3>2, UpdatedSub
    <3>4. TagsFit'
      BY <1>0, <2>0, FewerTags DEF TopicIds
    <3>5. SubsRight'
      BY <1>0, <2>0, <3>3 DEF SubsRight, get_topic, TopicIds
    <3>6. SubscriptionsHaveTopics'
      BY <1>b, <2>0, <3>3 DEF SubscriptionsHaveTopics, TopicExists, get_topic, TopicIds
    <3> QED
      BY <1>0, <1>a, <1>c, <2>0, <3>4, <3>5, <3>6, CalmAfter, IdleCalm
  <2> QED
    BY <2>1, <2>2
<1>6. ASSUME LoadForTags(h)
      PROVE  CalmInv'
  <2>0. /\ pc[h] \in {"list_load", "console_load", "tag_load", "untag_load"}
        /\ UNCHANGED Tables
    BY <1>6 DEF LoadForTags
  <2>1. loc[h].keys \in SUBSET TagKeys
    BY <1>0, <2>0 DEF TypeOK, NameStatements, ByName
  <2>2. ASSUME NEW id \in get_topic(loc[h].name),
               NEW s \in {"select_tags", "console_select", "insert_tags", "delete_tags"},
               Goto(h, s, Loaded(id, <<>>, loc[h].keys)),
               s = "insert_tags" => pc[h] = "tag_load"
        PROVE  CalmInv'
    <3> DEFINE l == Loaded(id, <<>>, loc[h].keys)
    <3>1. id \in TopicIds /\ <<>> \in Updates \union {<<>>}
      BY DEF get_topic
    <3>2. l.id = id /\ l.keys = loc[h].keys /\ Goto(h, s, l)
      BY <1>0, <2>1, <2>2, <3>1, LoadedLocals
    <3> HIDE DEF l
    <3>3. s = "insert_tags" => Cardinality(KeysOf(id) \union loc[h].keys) <= MaxTags
      BY <1>0, <2>2 DEF CalmLocals
    <3>4. CalmLocals(s, l) /\ s \in Statements
      BY <3>1, <3>2, <3>3 DEF CalmLocals, Statements, IdStatements
    <3> QED
      BY <1>0, <1>a, <2>0, <3>2, <3>4, CalmMove
  <2>3. \/ Finish(h)
        \/ \E id \in get_topic(loc[h].name),
              s \in {"select_tags", "console_select", "insert_tags", "delete_tags"} :
             /\ Goto(h, s, Loaded(id, <<>>, loc[h].keys))
             /\ s = "insert_tags" => pc[h] = "tag_load"
    BY <1>6 DEF LoadForTags
  <2>4. Finish(h) => CalmInv'
    BY <1>0, <1>a, <1>c, <2>0, CalmMove, IdleCalm DEF Finish
  <2> QED
    BY <2>2, <2>3, <2>4
<1>7. ASSUME SelectTags(h) \/ ConsoleSelectTags(h)
      PROVE  CalmInv'
  <2>0. pc[h] \in {"select_tags", "console_select"} /\ UNCHANGED Tables
    BY <1>7 DEF SelectTags, ConsoleSelectTags
  <2> DEFINE id == loc[h].id
             stored == KeysOf(id)
             ks == loc[h].keys
             l == [name |-> loc[h].name, keys |-> ks]
  <2>1. id \in TopicIds /\ topics[id].name = loc[h].name /\ ks \in SUBSET TagKeys
    BY <1>0, <2>0 DEF LocFine, LocTyped, LocMeant, CalmLocals, TopicStatements, IdStatements, ById
  <2>2. Finish(h) => CalmInv'
    BY <1>0, <1>a, <1>c, <2>0, CalmMove, IdleCalm DEF Finish
  <2>3. ASSUME Goto(h, "tag_load", l), Cardinality(stored \union ks) <= MaxTags
        PROVE  CalmInv'
    <3>1. l.name = loc[h].name /\ l.keys = ks
      OBVIOUS
    <3>2. \A i \in get_topic(loc[h].name) : i = id
      BY <1>0, <2>1 DEF get_topic, TopicsRight
    <3> HIDE DEF l
    <3>3. CalmLocals("tag_load", l)
      BY <2>3, <3>1, <3>2 DEF CalmLocals, TopicStatements, IdStatements
    <3> QED
      BY <1>0, <1>a, <1>c, <2>0, <2>3, <3>3, CalmMove
  <2>4. CASE SelectTags(h)
    BY <2>2, <2>3, <2>4 DEF SelectTags, MergedTags, KeysOf
  <2>5. CASE ConsoleSelectTags(h)
    <3>0. pc[h] = "console_select"
      BY <2>5 DEF ConsoleSelectTags
    <3>1. PICK k \in TagKeys : ks = {k}
      BY <1>0, <3>0 DEF LocFine, LocTyped
    <3>2. /\ stored \in SUBSET TagKeys /\ Cardinality(stored) <= MaxTags
      BY <1>0, <2>1, KeysTyped DEF TagsFit
    <3>3. \/ Finish(h)
          \/ /\ Goto(h, "tag_load", l)
             /\ ks \subseteq stored \/ Cardinality(stored) < MaxTags
      BY <2>5 DEF ConsoleSelectTags, KeysOf
    <3>4. ASSUME ks \subseteq stored \/ Cardinality(stored) < MaxTags
          PROVE  Cardinality(stored \union ks) <= MaxTags
      <4> HIDE DEF stored, ks
      <4>1. IsFiniteSet(stored)
        BY <3>2, FS_Subset, SnsAssumption
      <4>2. Cardinality(stored) \in Nat /\ MaxTags \in Nat
        BY <4>1, FS_CardinalityType, SnsAssumption
      <4>3. Cardinality(stored \union {k})
              = IF k \in stored THEN Cardinality(stored) ELSE Cardinality(stored) + 1
        BY <4>1, FS_AddElement, Zenon
      <4>4. Cardinality(stored \union {k}) <= MaxTags
        BY <3>1, <3>2, <3>4, <4>2, <4>3
      <4> QED
        BY <3>1, <4>4
    <3> QED
      BY <2>2, <2>3, <3>3, <3>4
  <2> QED
    BY <1>7, <2>4, <2>5
<1>8. ASSUME tags' \subseteq tags, UNCHANGED <<topics, subs>>,
             NEW s \in {"idle", "delete_topic"}, NEW l, Goto(h, s, l),
             pc[h] # "delete_subscriptions"
      PROVE  CalmInv'
  <2>1. TagsFit'
    BY <1>0, <1>8, FewerTags DEF TopicIds
  <2>2. SubsRight'
    BY <1>0, <1>8 DEF SubsRight, get_topic, TopicIds, SubIds
  <2>3. SubscriptionsHaveTopics'
    BY <1>b, <1>8 DEF SubscriptionsHaveTopics, TopicExists, get_topic, TopicIds, SubIds
  <2>4. CalmLocals(s, l)' /\ s \in Statements
    BY DEF CalmLocals, TopicStatements, IdStatements, Statements, NameStatements
  <2> QED
    BY <1>0, <1>8, <1>a, <2>1, <2>2, <2>3, <2>4, CalmAfter
<1>9. ASSUME DeleteTags(h) \/ DeleteTopicTags(h)
      PROVE  CalmInv'
  BY <1>8, <1>9 DEF DeleteTags, DeleteTopicTags, Finish
<1>10. ASSUME InsertTags(h)
       PROVE  CalmInv'
  <2>0. /\ pc[h] = "insert_tags" /\ UNCHANGED <<topics, subs>> /\ Goto(h, "idle", NoLocals)
    BY <1>10 DEF InsertTags, Finish
  <2>1. CASE UNCHANGED tags
    BY <1>8, <2>0, <2>1
  <2>2. CASE ~UNCHANGED tags
    <3>1. tags' = tags \union ({loc[h].id} \X loc[h].keys)
      BY <1>10, <2>2 DEF InsertTags
    <3>2. Cardinality(KeysOf(loc[h].id) \union loc[h].keys) <= MaxTags
      BY <1>0, <2>0 DEF CalmLocals
    <3>3. \A i : KeysOf(i)' = IF i = loc[h].id THEN KeysOf(i) \union loc[h].keys ELSE KeysOf(i)
      <4> SUFFICES ASSUME NEW i
                   PROVE  KeysOf(i)' = IF i = loc[h].id THEN KeysOf(i) \union loc[h].keys
                                       ELSE KeysOf(i)
        OBVIOUS
      <4>1. CASE i # loc[h].id
        <5>1. TagsOf({i})' = TagsOf({i})
          BY <3>1, <4>1 DEF TagsOf
        <5> QED
          BY <4>1, <5>1 DEF KeysOf
      <4>2. CASE i = loc[h].id
        <5>1. TagsOf({i})' = TagsOf({i}) \union ({i} \X loc[h].keys)
          BY <3>1, <4>2 DEF TagsOf
        <5>2. {t[2] : t \in {i} \X loc[h].keys} = loc[h].keys
          <6> DEFINE K == loc[h].keys
                     P == {i} \X K
          <6>1. \A k \in K : <<i, k>> \in P /\ <<i, k>>[2] = k
            OBVIOUS
          <6>2. \A t \in P : t[2] \in K
            OBVIOUS
          <6> HIDE DEF K, P
          <6>3. {t[2] : t \in P} = K
            BY ONLY <6>1, <6>2
          <6> QED
            BY <6>3 DEF K, P
        <5> QED
          BY <4>2, <5>1, <5>2 DEF KeysOf
      <4> QED
        BY <4>1, <4>2
    <3>4. TagsFit'
      BY <1>0, <2>0, <3>2, <3>3 DEF TagsFit, TopicIds
    <3>5. SubsRight'
      BY <1>0, <2>0 DEF SubsRight, get_topic, TopicIds, SubIds
    <3>6. SubscriptionsHaveTopics'
      BY <1>b, <2>0 DEF SubscriptionsHaveTopics, TopicExists, get_topic, TopicIds, SubIds
    <3> QED
      BY <1>0, <1>a, <1>c, <2>0, <3>4, <3>5, <3>6, CalmAfter, IdleCalm
  <2> QED
    BY <2>1, <2>2
<1> QED
  BY <1>1, <1>2, <1>3, <1>4, <1>5, <1>6, <1>7, <1>9, <1>10 DEF Statement

\* Unsubscribe by the only request keeps CalmInv.
LEMMA CalmUnsubscribe ==
  ASSUME BaseInv, CalmInv, calm, Quiet, NEW s \in SubIds, Unsubscribe(s)
  PROVE  CalmInv'
<1>0. TypeOK /\ TagsFit /\ SubsRight /\ SubscriptionsHaveTopics
  BY DEF BaseInv, CalmInv
<1>1. UNCHANGED <<topics, tags, pc, loc>>
  BY DEF Unsubscribe
<1> DEFINE kept == SubIds \ {s}
<1>2. subs' = [x \in kept |-> subs[x]] /\ kept \in SUBSET SubIds
  BY DEF Unsubscribe
<1> HIDE DEF kept
<1>3. SubIds' = kept /\ \A x \in SubIds' : subs'[x] = subs[x]
  BY <1>0, <1>2, RemovedSubs
<1>4. TagsFit'
  BY <1>0, <1>1, FewerTags DEF TopicIds
<1>5. SubsRight'
  BY <1>0, <1>1, <1>2, <1>3 DEF SubsRight, get_topic, TopicIds
<1>6. \A x \in SubIds : TopicExists(subs[x].topic)
  BY <1>0 DEF SubscriptionsHaveTopics, Quiet
<1>7. SubscriptionsHaveTopics'
  BY <1>1, <1>2, <1>3, <1>6 DEF SubscriptionsHaveTopics, TopicExists, get_topic, TopicIds
<1>8. \A g \in Handlers : pc'[g] = "idle"
  BY <1>1 DEF Quiet
<1>9. OneActive' /\ \A g \in Handlers : CalmLocals(pc[g], loc[g])'
  BY <1>8, IdleCalm DEF OneActive
<1> QED
  BY <1>4, <1>5, <1>7, <1>9 DEF CalmInv

IInv == BaseInv /\ CalmInv

\* CalmInv holds initially.
LEMMA CalmInit == Init => CalmInv
<1> SUFFICES ASSUME Init
             PROVE  CalmInv
  OBVIOUS
<1>1. TopicIds = {} /\ SubIds = {} /\ \A h \in Handlers : pc[h] = "idle"
  BY DEF Init, TopicIds, SubIds
<1>2. OneActive /\ TagsFit /\ SubscriptionsHaveTopics /\ SubsRight
  BY <1>1 DEF OneActive, TagsFit, SubscriptionsHaveTopics, SubsRight
<1> QED
  BY <1>1, <1>2, IdleCalm DEF CalmInv

\* Every step keeps CalmInv, which says nothing once requests have overlapped.
LEMMA CalmStep == BaseInv /\ CalmInv /\ [Next]_vars => CalmInv'
<1> SUFFICES ASSUME BaseInv, CalmInv, [Next]_vars
             PROVE  CalmInv'
  OBVIOUS
<1>1. ASSUME (\E h \in Handlers : Request(h)) \/ (\E s \in SubIds : Unsubscribe(s)),
             calm' = (calm /\ Quiet)
      PROVE  CalmInv'
  <2>1. CASE calm /\ Quiet
    BY <1>1, <2>1, CalmRequest, CalmUnsubscribe
  <2>2. CASE ~(calm /\ Quiet)
    BY <1>1, <2>2 DEF CalmInv
  <2> QED
    BY <2>1, <2>2
<1>2. ASSUME NEW h \in Handlers, Statement(h), UNCHANGED calm
      PROVE  CalmInv'
  <2>1. CASE calm
    BY <1>2, <2>1, CalmStatement
  <2>2. CASE ~calm
    BY <1>2, <2>2 DEF CalmInv
  <2> QED
    BY <2>1, <2>2
<1>3. ASSUME calm' = FALSE
      PROVE  CalmInv'
  BY <1>3 DEF CalmInv
<1>4. ASSUME UNCHANGED vars
      PROVE  CalmInv'
  BY <1>4 DEF vars, CalmInv, OneActive, TagsFit, KeysOf, TagsOf, SubscriptionsHaveTopics,
     TopicExists, SubsRight, CalmLocals, get_topic, TopicIds, SubIds
<1> QED
  BY <1>1, <1>2, <1>3, <1>4 DEF Next

\* The inductive invariant holds always.
LEMMA Invariant == Spec => []IInv
<1>1. Init => IInv
  BY BaseInit, CalmInit DEF IInv
<1>2. IInv /\ [Next]_vars => IInv'
  BY BaseStep, CalmStep DEF IInv
<1> QED
  BY <1>1, <1>2, PTL DEF Spec

\* While requests come one at a time and no statement fails: no topic has more tags than
\* the limit, and every subscription belongs to the topic it was made for, which is there.
THEOREM CalmTablesHold == Spec => []CalmTables
<1>1. ASSUME IInv
      PROVE  CalmTables
  <2>0. TypeOK /\ (calm => TagsFit /\ SubscriptionsHaveTopics /\ SubsRight)
    BY <1>1 DEF IInv, BaseInv, CalmInv
  <2>1. ASSUME calm, NEW id \in TopicIds
        PROVE  Cardinality(TagsOf({id})) <= MaxTags
    <3> DEFINE S == TagsOf({id})
               T == KeysOf(id)
               f == [t \in S |-> t[2]]
    <3>1. T \in SUBSET TagKeys /\ Cardinality(T) <= MaxTags
      BY <2>0, <2>1, KeysTyped DEF TagsFit
    <3>2. \A t, u \in S : t[2] = u[2] => t = u
      <4>1. \A t \in S : t \in Nat \X TagKeys /\ t[1] = id
        BY <2>0 DEF TagsOf, TypeOK
      <4> QED
        BY <4>1
    <3>3. \A t \in S : t[2] \in T
      BY DEF KeysOf
    <3> HIDE DEF S, T
    <3>4. f \in [S -> T] /\ \A t, u \in S : f[t] = f[u] => t = u
      BY <3>2, <3>3
    <3> HIDE DEF f
    <3>5. f \in Injection(S, T)
      BY <3>4 DEF Injection, IsInjective
    <3>6. IsFiniteSet(T)
      BY <3>1, FS_Subset, SnsAssumption
    <3>7. IsFiniteSet(S) /\ Cardinality(S) <= Cardinality(T)
      BY <3>5, <3>6, FS_Injection
    <3>8. Cardinality(S) \in Nat /\ Cardinality(T) \in Nat /\ MaxTags \in Nat
      BY <3>6, <3>7, FS_CardinalityType, SnsAssumption
    <3>9. Cardinality(S) <= MaxTags
      BY <3>1, <3>7, <3>8
    <3> QED
      BY <3>9 DEF S
  <2> QED
    BY <2>0, <2>1 DEF CalmTables, SubsRight
<1> QED
  BY <1>1, Invariant, PTL

\* An attribute of a topic or a subscription changes only by an update of that row, to
\* the value the update names for it, or, when requests have overlapped, to the value
\* the update had read of an attribute it does not name.
THEOREM ColumnsChangeAsNamedAlways == Spec => ColumnsChangeAsNamed
<1> DEFINE TopicPart ==
             \A id \in TopicIds, c \in Columns :
               id \in TopicIds' /\ topics'[id].config[c] # topics[id].config[c] =>
                 \E h \in Handlers :
                   pc[h] = "update_topic" /\ OwnValue(h, id, c, topics'[id].config[c])
           SubPart ==
             \A s \in SubIds, c \in Columns :
               s \in SubIds' /\ subs'[s].config[c] # subs[s].config[c] =>
                 \E h \in Handlers :
                   pc[h] = "update_subscription" /\ OwnValue(h, s, c, subs'[s].config[c])
<1>1. ASSUME IInv, [Next]_vars
      PROVE  TopicPart
  <2>0. TypeOK /\ TopicsRight /\ HandlersFine
    BY <1>1 DEF IInv, BaseInv
  <2>1. ASSUME \A i \in TopicIds : i \in TopicIds' => topics'[i] = topics[i]
        PROVE  TopicPart
    BY <2>1
  <2>2. ASSUME NEW h \in Handlers, CreateTopic(h)
        PROVE  TopicPart
    BY <2>0, <2>1, <2>2, CreatedRows DEF CreateTopic
  <2>3. ASSUME NEW h \in Handlers, DeleteTopicRow(h)
        PROVE  TopicPart
    BY <2>1, <2>3 DEF DeleteTopicRow, delete_topic_row, TopicIds
  <2>4. ASSUME NEW h \in Handlers, UpdateTopic(h), ~UNCHANGED topics
        PROVE  TopicPart
    <3> DEFINE config == Overlay(loc[h].seen, loc[h].update)
               id == loc[h].id
    <3>1. /\ id \in TopicIds /\ topics' = [topics EXCEPT ![id].config = config]
          /\ pc[h] = "update_topic" /\ pc'[h] = "idle"
      BY <2>0, <2>4 DEF UpdateTopic, Finish, Goto, TypeOK
    <3>2. config \in Configs
      BY <2>0, <3>1, OverlayType DEF HandlersFine, LocFine, LocTyped, UpdateStatements
    <3>3. calm => loc[h].seen = topics[id].config
      BY <1>1, <3>1 DEF IInv, CalmInv, CalmLocals
    <3>4. \A c \in Columns :
            config[c] = IF c \in DOMAIN loc[h].update THEN loc[h].update[c] ELSE loc[h].seen[c]
      BY DEF Overlay
    <3> HIDE DEF config, id
    <3>5. /\ topics'[id].config = config
          /\ \A i \in TopicIds : i # id => topics'[i] = topics[i]
      BY <2>0, <3>1, <3>2, UpdatedRows
    <3>6. \A c \in Columns : config[c] # topics[id].config[c] => OwnValue(h, id, c, config[c])
      BY <3>1, <3>3, <3>4 DEF OwnValue, id
    <3> QED
      BY <3>1, <3>5, <3>6
  <2>5. ASSUME NEW h \in Handlers, Request(h) \/ Statement(h) \/ Busy(h),
               ~CreateTopic(h), ~DeleteTopicRow(h), ~UpdateTopic(h)
        PROVE  UNCHANGED topics
    BY <2>5 DEF Request, Statement, Busy, DeleteTopic, Subscribe, SetTopicAttributes,
       SetSubscriptionAttributes, TagResource, UntagResource, ConsoleDeleteTopic,
       ConsoleTagTopic, ConsoleUntagTopic, LoadById, DeleteSubscriptions, InsertSubscription,
       UpdateSubscription, LoadForTags, SelectTags, InsertTags, DeleteTags, DeleteTopicTags,
       ConsoleSelectTags, Tables
  <2>6. UNCHANGED topics => TopicPart
    BY <2>1
  <2> HIDE DEF TopicPart
  <2> QED
    BY <1>1, <2>2, <2>3, <2>4, <2>5, <2>6, StepKinds DEF Unsubscribe, Restart, vars, Tables
<1>2. ASSUME IInv, [Next]_vars
      PROVE  SubPart
  <2>0. TypeOK /\ HandlersFine
    BY <1>2 DEF IInv, BaseInv
  <2>1. ASSUME \A s \in SubIds : s \in SubIds' => subs'[s] = subs[s]
        PROVE  SubPart
    BY <2>1
  <2>2. ASSUME NEW h \in Handlers, InsertSubscription(h)
        PROVE  SubPart
    <3>1. loc[h].name \in Names /\ loc[h].born \in Nat
      BY <2>0, <2>2 DEF InsertSubscription, TypeOK, IdStatements, ById
    <3> QED
      BY <2>0, <2>1, <2>2, <3>1, InsertedSub DEF InsertSubscription
  <2>3. ASSUME NEW h \in Handlers, DeleteSubscriptions(h)
        PROVE  SubPart
    BY <2>1, <2>3 DEF DeleteSubscriptions, delete_topic_subscriptions, SubIds
  <2>4. ASSUME NEW s \in SubIds, Unsubscribe(s)
        PROVE  SubPart
    BY <2>1, <2>4 DEF Unsubscribe, SubIds
  <2>5. ASSUME NEW h \in Handlers, UpdateSubscription(h), ~UNCHANGED subs
        PROVE  SubPart
    <3> DEFINE config == Overlay(loc[h].seen, loc[h].update)
               id == loc[h].id
    <3>1. /\ id \in SubIds /\ subs' = [subs EXCEPT ![id].config = config]
          /\ pc[h] = "update_subscription" /\ pc'[h] = "idle"
      BY <2>0, <2>5 DEF UpdateSubscription, Finish, Goto, TypeOK
    <3>2. config \in Configs
      BY <2>0, <3>1, OverlayType DEF HandlersFine, LocFine, LocTyped, UpdateStatements
    <3>3. calm => loc[h].seen = subs[id].config
      BY <1>2, <3>1 DEF IInv, CalmInv, CalmLocals
    <3>4. \A c \in Columns :
            config[c] = IF c \in DOMAIN loc[h].update THEN loc[h].update[c] ELSE loc[h].seen[c]
      BY DEF Overlay
    <3> HIDE DEF config, id
    <3>5. /\ subs'[id].config = config
          /\ \A s \in SubIds : s # id => subs'[s] = subs[s]
      BY <2>0, <3>1, <3>2, UpdatedSub
    <3>6. \A c \in Columns : config[c] # subs[id].config[c] => OwnValue(h, id, c, config[c])
      BY <3>1, <3>3, <3>4 DEF OwnValue, id
    <3> QED
      BY <3>1, <3>5, <3>6
  <2>6. ASSUME NEW h \in Handlers, Request(h) \/ Statement(h) \/ Busy(h),
               ~InsertSubscription(h), ~DeleteSubscriptions(h), ~UpdateSubscription(h)
        PROVE  UNCHANGED subs
    BY <2>6 DEF Request, Statement, Busy, CreateTopic, DeleteTopic, Subscribe,
       SetTopicAttributes, SetSubscriptionAttributes, TagResource, UntagResource,
       ConsoleDeleteTopic, ConsoleTagTopic, ConsoleUntagTopic, LoadById, DeleteTopicRow,
       UpdateTopic, LoadForTags, SelectTags, InsertTags, DeleteTags, DeleteTopicTags,
       ConsoleSelectTags, Tables
  <2>7. UNCHANGED subs => SubPart
    BY <2>1
  <2> HIDE DEF SubPart
  <2> QED
    BY <1>2, <2>2, <2>3, <2>4, <2>5, <2>6, <2>7, StepKinds DEF Restart, vars, Tables
<1>3. IInv /\ [Next]_vars => [TopicPart /\ SubPart]_vars
  BY <1>1, <1>2
<1> QED
  BY <1>3, Invariant, PTL DEF Spec, ColumnsChangeAsNamed
================================================================================
