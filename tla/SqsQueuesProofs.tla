--------------------------- MODULE SqsQueuesProofs ---------------------------
(***************************************************************************)
(* Proofs about SqsQueues, for every set of handlers, names, columns and   *)
(* tag keys, and every value of the bounds; and about the client of        *)
(* QueueListing that walks the pages of ListQueues, for every prefix and   *)
(* limit.  Only the proofs about the walk use ListingAssumption.           *)
(***************************************************************************)
EXTENDS QueueListing, FiniteSetTheorems, TLAPS

IdStatements == Statements \ ({"idle"} \union ByNameStatements)

--------------------------------------------------------------------------------
(* What a step may do to each part of the state. *)

\* A row is added for a queue never seen before.
QueueCreated ==
  \E id \in Nat \ {0}, row \in QueueRow :
    /\ id \notin Ids
    /\ row.born = created + 1
    /\ queues' = [i \in Ids \union {id} |-> IF i = id THEN row ELSE queues[i]]
    /\ created' = created + 1
    /\ UNCHANGED <<msgs, tags>>

\* A row goes, with its messages and its tags.
QueueDeleted ==
  /\ \E id \in Ids : delete_queue(id)
  /\ UNCHANGED created

\* Some columns of a row are set, those that a request under way names.
QueueUpdated ==
  /\ \E h \in Handlers :
       /\ pc[h] = "set_attributes"
       /\ loc[h].id \in Ids
       /\ set_queue_attributes(loc[h].id, loc[h].update)
  /\ UNCHANGED <<msgs, tags, created>>

\* Every step leaves sqs_queues alone or is one of these three.
LEMMA QueueStep ==
  ASSUME TypeOK, [Next]_vars
  PROVE  \/ UNCHANGED <<queues, created>>
         \/ QueueCreated
         \/ QueueDeleted
         \/ QueueUpdated
<1> USE LimitsAssumption
<1>1. ASSUME NEW id \in {1} \union {i + 1 : i \in Ids}, NEW name \in Names,
             NEW config \in Configs, create_queue(id, name, config),
             UNCHANGED <<msgs, tags>>
      PROVE  QueueCreated
  <2> DEFINE row == [name |-> name, config |-> config, born |-> created + 1]
  <2>1. row \in QueueRow /\ row.born = created + 1
    BY DEF QueueRow, TypeOK
  <2>2. id \in Nat \ {0} /\ id \notin Ids
    BY <1>1 DEF create_queue, NewId, TypeOK
  <2> QED
    BY <1>1, <2>1, <2>2 DEF create_queue, QueueCreated
<1>2. ASSUME NEW h \in Handlers, CreateQueue(h)
      PROVE  QueueCreated \/ UNCHANGED <<queues, created>>
  BY <1>1, <1>2 DEF CreateQueue
<1>3. ASSUME NEW h \in Handlers, Request(h)
      PROVE  QueueCreated \/ UNCHANGED <<queues, created>>
  BY <1>2, <1>3 DEF Request, DeleteQueue, PurgeQueue, SetQueueAttributes,
     SendMessageBatch, TagQueue, UntagQueue, Load
<1>4. ASSUME NEW h \in Handlers, Statement(h)
      PROVE  QueueDeleted \/ QueueUpdated \/ UNCHANGED <<queues, created>>
  <2>1. CASE DeleteQueueById(h)
    BY <2>1 DEF DeleteQueueById, Found, QueueDeleted
  <2>2. CASE UpdateById(h)
    BY <2>2 DEF UpdateById, Found, QueueUpdated
  <2> QED
    BY <1>4, <2>1, <2>2 DEF Statement, ReloadCreated, CompareExisting, PurgeById,
       InsertMessage, EnsureQueueExists, SelectTags, InsertTag, DeleteTag,
       ConsoleSelectTags
<1>5. ASSUME NEW h \in Handlers, Console(h)
      PROVE  QueueCreated \/ UNCHANGED <<queues, created>>
  <2>1. [c \in Columns |-> CHOOSE v \in Values : TRUE] \in Configs
    BY DEF Configs
  <2>2. CASE ConsoleCreateQueue(h)
    BY <1>1, <2>1, <2>2 DEF ConsoleCreateQueue
  <2> QED
    BY <1>5, <2>2 DEF Console, ConsoleDeleteQueue, ConsolePurgeQueue,
       ConsoleSendMessage, ConsoleTagQueue, ConsoleUntagQueue, LoadById
<1>6. ASSUME NEW h \in Handlers, ConsoleReload(h) \/ Busy(h)
      PROVE  UNCHANGED <<queues, created>>
  BY <1>6 DEF ConsoleReload, Busy
<1>7. CASE Restart \/ OpenQueuePage \/ LeavePage \/ UNCHANGED vars
  BY <1>7 DEF Restart, OpenQueuePage, LeavePage, vars
<1> QED
  BY <1>3, <1>4, <1>5, <1>6, <1>7 DEF Next

\* What a step may make of the statement and the locals of a handler: they stay, are
\* dropped, name a queue, or refer by id to a queue that the handler referred to already,
\* that it just loaded, or that the page on the screen is of.
LocalsKept(h) == pc'[h] = pc[h] /\ loc'[h] = loc[h]

LocalsById(h) ==
  /\ pc'[h] \in IdStatements
  /\ loc'[h] \in ById
  /\ \/ pc[h] \in IdStatements /\ loc'[h].id = loc[h].id /\ loc'[h].born = loc[h].born
     \/ loc'[h].id \in Ids /\ loc'[h].born = queues[loc'[h].id].born
     \/ page.open /\ page \in Page /\ loc'[h].id = page.id /\ loc'[h].born = page.shown
  /\ pc'[h] = "send_message" => loc'[h].left \in 1..MaxBatch

LocalsFrom(h) ==
  \/ LocalsKept(h)
  \/ pc'[h] = "idle"
  \/ pc'[h] \in ByNameStatements /\ loc'[h] \in ByName
  \/ LocalsById(h)

\* A batch under way has an entry left.
BatchLeft == \A h \in Handlers : pc[h] = "send_message" => loc[h].left \in 1..MaxBatch

HandlerTables == pc' \in [Handlers -> Statements] /\ DOMAIN loc' = Handlers

\* A jump of handler h leaves the other handlers where they are.
LEMMA GotoStep ==
  ASSUME TypeOK, NEW h \in Handlers, NEW s \in Statements, NEW l, Goto(h, s, l)
  PROVE  /\ HandlerTables
         /\ pc'[h] = s /\ loc'[h] = l
         /\ \A g \in Handlers \ {h} : LocalsKept(g)
BY DEF TypeOK, Goto, HandlerTables, LocalsKept

\* So does the end of a request.
LEMMA FinishStep ==
  ASSUME TypeOK, NEW h \in Handlers, Finish(h)
  PROVE  HandlerTables /\ \A g \in Handlers : LocalsFrom(g)
<1>1. "idle" \in Statements
  BY DEF Statements
<1> QED
  BY <1>1, GotoStep DEF Finish, LocalsFrom

\* The update that names no column.
LEMMA NoUpdateType == NoUpdate \in Updates
<1>1. NoUpdate \in [{} -> Values] /\ {} \in SUBSET Columns
  BY DEF NoUpdate
<1> QED
  BY <1>1 DEF Updates

\* The locals of a handler that loaded the queue with this id.
LEMMA LoadedLocals ==
  ASSUME TypeOK, NEW id \in Ids, NEW born \in Nat, NEW s \in Statements,
         NEW keys \in SUBSET TagKeys, NEW update \in Updates, NEW left \in 0..MaxBatch
  PROVE  /\ Loaded(id, born, s, keys, update, left) \in ById
         /\ Loaded(id, born, s, keys, update, left).id = id
         /\ Loaded(id, born, s, keys, update, left).born = born
         /\ Loaded(id, born, s, keys, update, left).left = left
         /\ Loaded(id, born, s, keys, update, left).keys = keys
<1>1. queues[id].config \in Configs /\ id \in Nat
  BY DEF TypeOK, QueueRow
<1> DEFINE seen == IF s = "set_attributes" THEN queues[id].config ELSE NoUpdate
<1>2. seen \in Configs \union {NoUpdate}
  BY <1>1
<1> HIDE DEF seen
<1> QED
  BY <1>1, <1>2 DEF Loaded, ById, seen

\* A request that loads its queue refers to that queue.
LEMMA LoadStep ==
  ASSUME TypeOK, NEW h \in Handlers, NEW s \in IdStatements,
         NEW keys \in SUBSET TagKeys, NEW update \in Updates, NEW left \in 0..MaxBatch,
         s = "send_message" => left # 0, Load(h, s, keys, update, left)
  PROVE  HandlerTables /\ \A g \in Handlers : LocalsFrom(g)
<1>1. PICK id \in Ids :
        Goto(h, s, Loaded(id, queues[id].born, s, keys, update, left))
  BY DEF Load, get_queue
<1>2. queues[id].born \in Nat /\ s \in Statements
  BY DEF TypeOK, QueueRow, IdStatements
<1> DEFINE l == Loaded(id, queues[id].born, s, keys, update, left)
<1>3. l \in ById /\ l.id = id /\ l.born = queues[id].born /\ l.left = left
  BY <1>2, LoadedLocals
<1> HIDE DEF l
<1> QED
  BY <1>1, <1>2, <1>3, GotoStep DEF LocalsFrom, LocalsById, l

\* A form of the page refers to the queue on the screen.
LEMMA LoadByIdStep ==
  ASSUME TypeOK, NEW h \in Handlers, NEW s \in IdStatements,
         NEW keys \in SUBSET TagKeys, NEW left \in 0..MaxBatch,
         s = "send_message" => left # 0, LoadById(h, s, keys, left)
  PROVE  HandlerTables /\ \A g \in Handlers : LocalsFrom(g)
<1>1. /\ page.open /\ page.id \in Ids
      /\ Goto(h, s, Loaded(page.id, page.shown, s, keys, NoUpdate, left))
  BY DEF LoadById
<1>2. page \in Page
  BY <1>1 DEF TypeOK, NoPage
<1>3. page.shown \in Nat /\ s \in Statements
  BY <1>2 DEF Page, IdStatements
<1> DEFINE l == Loaded(page.id, page.shown, s, keys, NoUpdate, left)
<1>4. l \in ById /\ l.id = page.id /\ l.born = page.shown /\ l.left = left
  BY <1>1, <1>3, LoadedLocals, NoUpdateType
<1> HIDE DEF l
<1> QED
  BY <1>1, <1>2, <1>3, <1>4, GotoStep DEF LocalsFrom, LocalsById, l

\* Going on with one entry fewer, or with one key fewer, keeps the queue.
LEMMA FewerEntries ==
  ASSUME NEW l \in ById, NEW n \in 0..MaxBatch
  PROVE  /\ [l EXCEPT !.left = n] \in ById
         /\ [l EXCEPT !.left = n].id = l.id
         /\ [l EXCEPT !.left = n].born = l.born
         /\ [l EXCEPT !.left = n].left = n
BY DEF ById

\* The locals with another set of keys.
LEMMA FewerKeys ==
  ASSUME NEW l \in ById, NEW keys \in SUBSET TagKeys
  PROVE  /\ [l EXCEPT !.keys = keys] \in ById
         /\ [l EXCEPT !.keys = keys].id = l.id
         /\ [l EXCEPT !.keys = keys].born = l.born
         /\ [l EXCEPT !.keys = keys].keys = keys
BY DEF ById

\* Every handler's locals come from there.
LEMMA HandlerStep ==
  ASSUME TypeOK, BatchLeft, [Next]_vars
  PROVE  HandlerTables /\ \A h \in Handlers : LocalsFrom(h)
<1> USE LimitsAssumption
<1> DEFINE P == HandlerTables /\ \A h \in Handlers : LocalsFrom(h)
<1>0. UNCHANGED <<pc, loc>> => P
  BY DEF TypeOK, HandlerTables, LocalsFrom, LocalsKept
<1>a. {"delete_queue", "purge_queue", "set_attributes", "send_message", "ensure_list",
       "select_tags", "ensure_tag", "insert_tag", "ensure_untag", "delete_tag",
       "console_list", "console_select"} = IdStatements
  BY DEF IdStatements, Statements, ByNameStatements
<1>b. \A h \in Handlers : pc[h] \in IdStatements => loc[h] \in ById
  BY DEF TypeOK, IdStatements
<1>c. ASSUME NEW h \in Handlers, NEW s \in ByNameStatements, NEW l \in ByName, Goto(h, s, l)
      PROVE  P
  BY <1>c, GotoStep DEF LocalsFrom, Statements, ByNameStatements
<1>e. ASSUME NEW h \in Handlers, NEW s \in IdStatements, NEW l \in ById,
             HandlerTables, pc'[h] = s, loc'[h] = l,
             \A g \in Handlers \ {h} : LocalsKept(g),
             s = "send_message" => l.left \in 1..MaxBatch,
             \/ pc[h] \in IdStatements /\ l.id = loc[h].id /\ l.born = loc[h].born
             \/ l.id \in Ids /\ l.born = queues[l.id].born
      PROVE  P
  BY <1>e DEF LocalsFrom, LocalsById
<1>d. ASSUME NEW h \in Handlers, NEW s \in IdStatements, NEW l \in ById, Goto(h, s, l),
             s = "send_message" => l.left \in 1..MaxBatch,
             \/ pc[h] \in IdStatements /\ l.id = loc[h].id /\ l.born = loc[h].born
             \/ l.id \in Ids /\ l.born = queues[l.id].born
      PROVE  P
  BY <1>d, <1>e, GotoStep DEF IdStatements
<1>1. ASSUME NEW h \in Handlers, CreateQueue(h)
      PROVE  P
  <2>1. PICK name \in Names, keys \in SUBSET TagKeys :
          \/ UNCHANGED <<pc, loc>>
          \/ Goto(h, "reload", [name |-> name, keys |-> keys])
          \/ Goto(h, "conflict", [name |-> name, keys |-> keys])
    BY <1>1 DEF CreateQueue
  <2>2. [name |-> name, keys |-> keys] \in ByName
    BY DEF ByName
  <2> QED
    BY <1>0, <1>c, <2>1, <2>2 DEF ByNameStatements
<1>2. ASSUME NEW h \in Handlers, Request(h), ~CreateQueue(h)
      PROVE  P
  BY <1>2, <1>a, LoadStep, NoUpdateType DEF Request, DeleteQueue, PurgeQueue,
     SetQueueAttributes, SendMessageBatch, TagQueue, UntagQueue
<1>3. ASSUME NEW h \in Handlers, Statement(h)
      PROVE  P
  <2>1. CASE ReloadCreated(h)
    <3>1. loc[h] \in ByName
      BY <2>1 DEF ReloadCreated, TypeOK, ByNameStatements
    <3>2. CASE Finish(h)
      BY <3>2, FinishStep
    <3>3. ASSUME NEW id \in Ids,
                 Goto(h, "ensure_tag",
                      Loaded(id, queues[id].born, "ensure_tag", loc[h].keys, NoUpdate, 0))
          PROVE  P
      <4> DEFINE l == Loaded(id, queues[id].born, "ensure_tag", loc[h].keys, NoUpdate, 0)
      <4>1. l \in ById /\ l.id = id /\ l.born = queues[id].born
        <5>1. queues[id].born \in Nat
          BY DEF TypeOK, QueueRow
        <5>2. loc[h].keys \in SUBSET TagKeys /\ 0 \in 0..MaxBatch /\ "ensure_tag" \in Statements
          BY <3>1 DEF ByName, Statements
        <5> QED
          BY <5>1, <5>2, LoadedLocals, NoUpdateType
      <4> HIDE DEF l
      <4> QED
        BY <1>a, <1>d, <3>3, <4>1 DEF l
    <3> QED
      BY <2>1, <3>2, <3>3 DEF ReloadCreated, get_queue
  <2>2. CASE InsertMessage(h)
    <3>1. loc[h] \in ById /\ pc[h] = "send_message" /\ loc[h].left \in 1..MaxBatch
      BY <1>a, <1>b, <2>2 DEF InsertMessage, BatchLeft
    <3>2. CASE loc[h].left = 1
      BY <2>2, <3>2, FinishStep DEF InsertMessage
    <3>3. CASE loc[h].left # 1
      <4> DEFINE l == [loc[h] EXCEPT !.left = loc[h].left - 1]
      <4>1. loc[h].left - 1 \in 0..MaxBatch /\ loc[h].left - 1 \in 1..MaxBatch
        BY <3>1, <3>3
      <4>2. l \in ById /\ l.id = loc[h].id /\ l.born = loc[h].born /\ l.left \in 1..MaxBatch
        BY <3>1, <4>1, FewerEntries
      <4>3. Goto(h, "send_message", l)
        BY <2>2, <3>3 DEF InsertMessage
      <4> HIDE DEF l
      <4> QED
        BY <1>a, <1>d, <3>1, <4>2, <4>3
    <3> QED
      BY <3>2, <3>3
  <2>3. CASE EnsureQueueExists(h)
    <3>1. loc[h] \in ById /\ pc[h] \in IdStatements
      BY <1>a, <1>b, <2>3 DEF EnsureQueueExists
    <3>2. CASE Finish(h)
      BY <3>2, FinishStep
    <3>3. CASE ~Finish(h)
      <4>1. PICK s \in {"select_tags", "console_select", "insert_tag", "delete_tag"} :
              pc' = [pc EXCEPT ![h] = s] /\ loc' = loc
        BY <2>3, <3>3 DEF EnsureQueueExists
      <4>2. s \in IdStatements /\ s \in Statements /\ s # "send_message"
        BY <1>a DEF Statements
      <4>3. /\ HandlerTables /\ pc'[h] = s /\ loc'[h] = loc[h]
            /\ \A g \in Handlers \ {h} : LocalsKept(g)
        BY <4>1, <4>2 DEF TypeOK, HandlerTables, LocalsKept
      <4> QED
        BY <1>e, <3>1, <4>2, <4>3
    <3> QED
      BY <3>2, <3>3
  <2>4. CASE SelectTags(h) \/ ConsoleSelectTags(h)
    <3>1. loc[h] \in ById /\ pc[h] \in IdStatements
      BY <1>a, <1>b, <2>4 DEF SelectTags, ConsoleSelectTags
    <3>2. Finish(h) \/ Goto(h, "ensure_tag", loc[h])
      BY <2>4 DEF SelectTags, ConsoleSelectTags
    <3> QED
      BY <1>a, <1>d, <3>1, <3>2, FinishStep
  <2>5. CASE InsertTag(h) \/ DeleteTag(h)
    <3>1. loc[h] \in ById /\ pc[h] \in IdStatements
      BY <1>a, <1>b, <2>5 DEF InsertTag, DeleteTag
    <3>2. \/ Finish(h)
          \/ \E key \in loc[h].keys, s \in {"insert_tag", "delete_tag"} :
               Goto(h, s, [loc[h] EXCEPT !.keys = loc[h].keys \ {key}])
      BY <2>5 DEF InsertTag, DeleteTag, NextKey
    <3>3. ASSUME NEW key \in loc[h].keys, NEW s \in {"insert_tag", "delete_tag"},
                 Goto(h, s, [loc[h] EXCEPT !.keys = loc[h].keys \ {key}])
          PROVE  P
      <4> DEFINE l == [loc[h] EXCEPT !.keys = loc[h].keys \ {key}]
      <4>0. loc[h].keys \ {key} \in SUBSET TagKeys
        BY <3>1 DEF ById
      <4>1. l \in ById /\ l.id = loc[h].id /\ l.born = loc[h].born
        BY <3>1, <4>0, FewerKeys
      <4>2. Goto(h, s, l)
        BY <3>3
      <4> HIDE DEF l
      <4> QED
        BY <1>a, <1>d, <3>1, <4>1, <4>2
    <3> QED
      BY <3>2, <3>3, FinishStep
  <2> QED
    BY <1>3, <2>1, <2>2, <2>3, <2>4, <2>5, FinishStep DEF Statement, CompareExisting,
       DeleteQueueById, PurgeById, UpdateById
<1>4. ASSUME NEW h \in Handlers, Console(h)
      PROVE  P
  <2>1. CASE ConsoleCreateQueue(h)
    <3>1. PICK name \in Names : Goto(h, "console_reload", [name |-> name, keys |-> {}])
      BY <2>1 DEF ConsoleCreateQueue
    <3>2. [name |-> name, keys |-> {}] \in ByName
      BY DEF ByName
    <3> QED
      BY <1>c, <3>1, <3>2 DEF ByNameStatements
  <2>2. {} \in SUBSET TagKeys /\ 0 \in 0..MaxBatch /\ 1 \in 0..MaxBatch
    OBVIOUS
  <2>3. CASE ConsoleDeleteQueue(h) \/ ConsolePurgeQueue(h) \/ ConsoleSendMessage(h)
    <3>1. PICK s \in {"delete_queue", "purge_queue", "send_message"}, left \in {0, 1} :
            LoadById(h, s, {}, left) /\ (s = "send_message" => left # 0)
      BY <2>3 DEF ConsoleDeleteQueue, ConsolePurgeQueue, ConsoleSendMessage
    <3> QED
      BY <1>a, <2>2, <3>1, LoadByIdStep
  <2>4. ASSUME NEW key \in TagKeys, NEW s \in {"console_list", "ensure_untag"},
               LoadById(h, s, {key}, 0)
        PROVE  P
    BY <1>a, <2>2, <2>4, LoadByIdStep
  <2> QED
    BY <1>4, <2>1, <2>3, <2>4 DEF Console, ConsoleTagQueue, ConsoleUntagQueue
<1>5. ASSUME NEW h \in Handlers, ConsoleReload(h) \/ Busy(h)
      PROVE  P
  BY <1>5, FinishStep DEF ConsoleReload, Busy
<1>6. CASE Restart
  BY <1>6 DEF Restart, HandlerTables, LocalsFrom, Statements
<1>7. CASE OpenQueuePage \/ LeavePage \/ UNCHANGED vars
  BY <1>0, <1>7 DEF OpenQueuePage, LeavePage, vars
<1> QED
  BY <1>1, <1>2, <1>3, <1>4, <1>5, <1>6, <1>7 DEF Next

\* The page on the screen stays, goes, or is that of a queue in the table.
PageFrom ==
  \/ page' = page
  \/ page' = NoPage
  \/ page' \in Page /\ page'.id \in Ids /\ page'.shown = queues[page'.id].born

\* What a step does to the console's page.
LEMMA PageStep ==
  ASSUME TypeOK, [Next]_vars
  PROVE  PageFrom
<1>1. ASSUME NEW id \in Ids, page' = [open |-> TRUE, id |-> id, shown |-> queues[id].born]
      PROVE  PageFrom
  BY <1>1 DEF PageFrom, Page, TypeOK, QueueRow
<1>2. ASSUME NEW h \in Handlers, Console(h)
      PROVE  page' = page
  BY <1>2 DEF Console, ConsoleDeleteQueue, ConsolePurgeQueue, ConsoleSendMessage,
     ConsoleTagQueue, ConsoleUntagQueue, ConsoleCreateQueue, LoadById
<1> QED
  BY <1>1, <1>2 DEF Next, OpenQueuePage, LeavePage, ConsoleReload, get_queue, PageFrom, vars

\* Every row of sqs_messages was there before, and keeps its queue, or is a handler's
\* that sends to the queue with the id it holds.
MessageFrom(m) ==
  /\ m \in Messages
  /\ msgs'[m] \in MessageRow
  /\ \/ /\ m \in DOMAIN msgs
        /\ msgs'[m] = msgs[m]
        /\ msgs[m].queue_id \in Ids => msgs[m].queue_id \in Ids'
     \/ /\ UNCHANGED queues
        /\ \E h \in Handlers :
             /\ pc[h] = "send_message"
             /\ loc[h].id \in Ids
             /\ msgs'[m] = [queue_id |-> loc[h].id, sentTo |-> loc[h].born]

MessageTable ==
  /\ msgs' = [m \in DOMAIN msgs' |-> msgs'[m]]
  /\ \A m \in DOMAIN msgs' : MessageFrom(m)

\* Every row of sqs_queue_tags was there before, and keeps its queue, or has one.
TagFrom(t) ==
  /\ t \in Nat \X TagKeys
  /\ \/ t \in tags /\ (t[1] \in Ids => t[1] \in Ids')
     \/ t[1] \in Ids'

\* What a step does to the messages and tags.
LEMMA RowsStep ==
  ASSUME TypeOK, BatchLeft, [Next]_vars
  PROVE  MessageTable /\ \A t \in tags' : TagFrom(t)
<1> USE LimitsAssumption
<1>0. \A m \in DOMAIN msgs : m \in Messages /\ msgs[m] \in MessageRow
  BY DEF TypeOK
<1>a. ASSUME UNCHANGED msgs, Ids \subseteq Ids'
      PROVE  MessageTable
  BY <1>0, <1>a DEF MessageTable, MessageFrom, TypeOK
<1>b. ASSUME UNCHANGED tags, Ids \subseteq Ids'
      PROVE  \A t \in tags' : TagFrom(t)
  BY <1>b DEF TagFrom, TypeOK
<1>c. UNCHANGED queues => Ids \subseteq Ids'
  BY DEF Ids
<1>1. CASE QueueDeleted
  <2>1. PICK id \in Ids : delete_queue(id)
    BY <1>1 DEF QueueDeleted
  <2>2. Ids' = Ids \ {id}
    BY <2>1 DEF delete_queue, Ids
  <2>3. MessageTable
    BY <1>0, <2>1, <2>2 DEF delete_queue, MessagesOf, MessageTable, MessageFrom
  <2>4. ASSUME NEW t \in tags'
        PROVE  TagFrom(t)
    BY <2>1, <2>2 DEF delete_queue, TagsOf, TagFrom, TypeOK
  <2> QED
    BY <2>3, <2>4
<1>2. CASE QueueCreated
  <2>1. Ids \subseteq Ids' /\ UNCHANGED <<msgs, tags>>
    BY <1>2 DEF QueueCreated, Ids
  <2> QED
    BY <1>a, <1>b, <2>1
<1>3. CASE QueueUpdated
  <2>1. Ids \subseteq Ids' /\ UNCHANGED <<msgs, tags>>
    BY <1>3 DEF QueueUpdated, set_queue_attributes, Ids, TypeOK
  <2> QED
    BY <1>a, <1>b, <2>1
<1>4. CASE UNCHANGED <<queues, created>>
  <2>1. CASE UNCHANGED <<msgs, tags>>
    BY <1>4, <1>a, <1>b, <1>c, <2>1
  <2>2. ASSUME NEW h \in Handlers, PurgeById(h)
        PROVE  MessageTable /\ UNCHANGED tags
    BY <1>0, <1>4, <1>c, <2>2 DEF PurgeById, purge_queue, MessagesOf, MessageTable, MessageFrom
  <2>3. ASSUME NEW h \in Handlers, InsertMessage(h)
        PROVE  MessageTable /\ UNCHANGED tags
    <3>1. CASE UNCHANGED msgs
      BY <1>4, <1>a, <1>c, <2>3, <3>1 DEF InsertMessage
    <3>2. CASE Found(h) /\ send_message(<<h, loc[h].left>>, loc[h].id, loc[h].born)
      <4>1. loc[h] \in ById /\ loc[h].left \in 1..MaxBatch /\ pc[h] = "send_message"
        BY <2>3 DEF InsertMessage, TypeOK, BatchLeft, ByNameStatements
      <4> DEFINE m == <<h, loc[h].left>>
                 row == [queue_id |-> loc[h].id, sentTo |-> loc[h].born]
      <4>2. m \in Messages /\ row \in MessageRow
        BY <4>1 DEF Messages, MessageRow, ById
      <4>3. msgs' = [x \in DOMAIN msgs \union {m} |-> IF x = m THEN row ELSE msgs[x]]
        BY <3>2 DEF send_message
      <4> HIDE DEF m
      <4>4. ASSUME NEW x \in DOMAIN msgs'
            PROVE  MessageFrom(x)
        <5>1. CASE x = m
          BY <1>4, <3>2, <4>1, <4>2, <4>3, <5>1 DEF MessageFrom, Found
        <5>2. CASE x # m
          <6>1. x \in DOMAIN msgs /\ msgs'[x] = msgs[x]
            BY <4>3, <5>2
          <6> QED
            BY <1>0, <1>4, <1>c, <6>1 DEF MessageFrom
        <5> QED
          BY <5>1, <5>2
      <4>5. msgs' = [x \in DOMAIN msgs' |-> msgs'[x]]
        BY <4>3
      <4> QED
        BY <2>3, <4>4, <4>5 DEF MessageTable, InsertMessage
    <3> QED
      BY <2>3, <3>1, <3>2 DEF InsertMessage
  <2>4. ASSUME NEW h \in Handlers, InsertTag(h) \/ DeleteTag(h)
        PROVE  UNCHANGED msgs /\ \A t \in tags' : TagFrom(t)
    <3>1. loc[h] \in ById
      BY <2>4 DEF InsertTag, DeleteTag, TypeOK, ByNameStatements
    <3>2. CASE DeleteTag(h)
      <4>1. tags' \subseteq tags
        BY <3>2 DEF DeleteTag
      <4> QED
        BY <1>4, <1>c, <3>2, <4>1 DEF DeleteTag, TagFrom, TypeOK
    <3>3. CASE InsertTag(h)
      <4>1. \/ UNCHANGED tags
            \/ /\ loc[h].id \in Ids
               /\ \E key \in loc[h].keys : tags' = tags \union {<<loc[h].id, key>>}
        BY <3>3 DEF InsertTag, Found
      <4>2. ASSUME NEW key \in loc[h].keys, loc[h].id \in Ids
            PROVE  TagFrom(<<loc[h].id, key>>)
        BY <1>4, <1>c, <3>1, <4>2 DEF TagFrom, ById
      <4>3. \A t \in tags : TagFrom(t)
        BY <1>4, <1>c DEF TagFrom, TypeOK
      <4> QED
        BY <1>4, <1>b, <1>c, <3>3, <4>1, <4>2, <4>3 DEF InsertTag
    <3> QED
      BY <2>4, <3>2, <3>3
  <2>5. ASSUME NEW h \in Handlers, Request(h) \/ Busy(h) \/ Console(h) \/ ConsoleReload(h)
        PROVE  UNCHANGED <<msgs, tags>>
    BY <2>5 DEF Request, CreateQueue, DeleteQueue, PurgeQueue, SetQueueAttributes,
       SendMessageBatch, TagQueue, UntagQueue, Load, Busy, Console, ConsoleDeleteQueue,
       ConsolePurgeQueue, ConsoleSendMessage, ConsoleTagQueue, ConsoleUntagQueue,
       ConsoleCreateQueue, LoadById, ConsoleReload
  <2>6. ASSUME NEW h \in Handlers, DeleteQueueById(h)
        PROVE  UNCHANGED <<msgs, tags>>
    <3>1. ~Found(h)
      <4>1. Ids' = Ids
        BY <1>4 DEF Ids
      <4> QED
        BY <2>6, <4>1 DEF DeleteQueueById, delete_queue, Found, Ids
    <3> QED
      BY <2>6, <3>1 DEF DeleteQueueById
  <2>7. ASSUME NEW h \in Handlers, Statement(h), ~PurgeById(h), ~InsertMessage(h),
               ~InsertTag(h), ~DeleteTag(h)
        PROVE  UNCHANGED <<msgs, tags>>
    BY <2>6, <2>7 DEF Statement, ReloadCreated, CompareExisting, UpdateById,
       EnsureQueueExists, SelectTags, ConsoleSelectTags
  <2>8. CASE Restart \/ OpenQueuePage \/ LeavePage \/ UNCHANGED vars
    BY <2>1, <2>8 DEF Restart, OpenQueuePage, LeavePage, vars
  <2> QED
    BY <1>4, <1>a, <1>b, <1>c, <2>1, <2>2, <2>3, <2>4, <2>5, <2>7, <2>8 DEF Next
<1> QED
  BY <1>1, <1>2, <1>3, <1>4, QueueStep

--------------------------------------------------------------------------------
(* The inductive invariant. *)

\* The handler, page or message that refers to the queue born, by this id, finds that
\* queue under the id as long as the queue is there.
Meant(id, born) ==
  /\ born <= created
  /\ \A i \in Ids : queues[i].born = born => id = i

\* No two queues are the same one, and none is yet to be created.
BornOnce ==
  /\ \A i \in Ids : queues[i].born <= created
  /\ \A i, j \in Ids : queues[i].born = queues[j].born => i = j

RefersRight ==
  /\ \A h \in Handlers : pc[h] \in IdStatements => Meant(loc[h].id, loc[h].born)
  /\ page \in Page => Meant(page.id, page.shown)
  /\ \A m \in DOMAIN msgs : Meant(msgs[m].queue_id, msgs[m].sentTo)

NoRowAlone ==
  /\ \A m \in DOMAIN msgs : msgs[m].queue_id \in Ids
  /\ \A t \in tags : t[1] \in Ids

IInv == TypeOK /\ BatchLeft /\ BornOnce /\ NoRowAlone /\ RefersRight

\* No step breaks the types, and a batch under way has an entry left.
LEMMA TypeStep ==
  ASSUME TypeOK, BatchLeft, [Next]_vars
  PROVE  TypeOK' /\ BatchLeft'
<1> USE LimitsAssumption
<1>1. /\ queues' \in [Ids' -> QueueRow]
      /\ Ids' \subseteq Nat \ {0}
      /\ created' \in Nat
  <2>1. CASE UNCHANGED <<queues, created>>
    BY <2>1 DEF TypeOK, Ids
  <2>2. CASE QueueCreated
    BY <2>2 DEF TypeOK, QueueCreated, Ids
  <2>3. CASE QueueDeleted
    BY <2>3 DEF TypeOK, QueueDeleted, delete_queue, Ids
  <2>4. CASE QueueUpdated
    <3>1. PICK h \in Handlers : /\ pc[h] = "set_attributes" /\ loc[h].id \in Ids
                                /\ set_queue_attributes(loc[h].id, loc[h].update)
      BY <2>4 DEF QueueUpdated
    <3> DEFINE row == queues[loc[h].id]
               config == Overlay(row.config, loc[h].update)
    <3>2. row \in QueueRow /\ loc[h] \in ById
      BY <3>1 DEF TypeOK, ByNameStatements
    <3>3. config \in Configs
      <4>1. loc[h].update \in Updates /\ row.config \in Configs
        BY <3>2 DEF ById, QueueRow
      <4>2. PICK C \in SUBSET Columns : loc[h].update \in [C -> Values]
        BY <4>1 DEF Updates
      <4> QED
        BY <4>1, <4>2 DEF Overlay, Configs
    <3>4. [row EXCEPT !.config = config] \in QueueRow
      <4> HIDE DEF config, row
      <4> QED
        BY <3>2, <3>3 DEF QueueRow
    <3>5. queues' = [queues EXCEPT ![loc[h].id] = [row EXCEPT !.config = config]]
      BY <3>1 DEF set_queue_attributes
    <3> HIDE DEF config, row
    <3> QED
      BY <2>4, <3>1, <3>4, <3>5 DEF TypeOK, QueueUpdated, Ids
  <2> QED
    BY <2>1, <2>2, <2>3, <2>4, QueueStep
<1>2. page' \in {NoPage} \union Page
  BY PageStep DEF PageFrom, TypeOK
<1>3. /\ DOMAIN msgs' \subseteq Messages
      /\ msgs' \in [DOMAIN msgs' -> MessageRow]
      /\ tags' \subseteq Nat \X TagKeys
  BY RowsStep DEF MessageTable, MessageFrom, TagFrom
<1>4. ASSUME NEW h \in Handlers
      PROVE  /\ pc'[h] \in ByNameStatements => loc'[h] \in ByName
             /\ pc'[h] \notin {"idle"} \union ByNameStatements => loc'[h] \in ById
             /\ pc'[h] = "send_message" => loc'[h].left \in 1..MaxBatch
  BY HandlerStep DEF LocalsFrom, LocalsKept, LocalsById, TypeOK, BatchLeft, IdStatements,
     ByNameStatements
<1> QED
  BY <1>1, <1>2, <1>3, <1>4, HandlerStep DEF TypeOK, BatchLeft, HandlerTables

\* A queue in the table is the one a reference by its id means.
LEMMA LoadedMeant ==
  ASSUME TypeOK, BornOnce, NEW id \in Ids
  PROVE  Meant(id, queues[id].born)
BY DEF BornOnce, Meant

\* What a reference means does not change: a new queue is born later than any that is
\* referred to.
LEMMA MeantStep ==
  ASSUME TypeOK, [Next]_vars, NEW id, NEW born \in Nat, Meant(id, born)
  PROVE  Meant(id, born)'
<1>1. CASE UNCHANGED <<queues, created>>
  BY <1>1 DEF Meant, Ids
<1>2. CASE QueueCreated
  BY <1>2 DEF Meant, QueueCreated, Ids, TypeOK
<1>3. CASE QueueDeleted
  BY <1>3 DEF Meant, QueueDeleted, delete_queue, Ids, TypeOK
<1>4. CASE QueueUpdated
  <2>1. Ids' = Ids /\ \A i \in Ids : queues'[i].born = queues[i].born
    BY <1>4 DEF QueueUpdated, set_queue_attributes, Ids, TypeOK, QueueRow
  <2> QED
    BY <1>4, <2>1 DEF Meant, QueueUpdated
<1> QED
  BY <1>1, <1>2, <1>3, <1>4, QueueStep

\* No two queues are ever born with the same number.
LEMMA BornOnceStep ==
  ASSUME TypeOK, BornOnce, [Next]_vars
  PROVE  BornOnce'
<1>1. CASE UNCHANGED <<queues, created>>
  BY <1>1 DEF BornOnce, Ids
<1>2. CASE QueueCreated
  <2>1. PICK id \in Nat \ {0}, row \in QueueRow :
          /\ id \notin Ids /\ row.born = created + 1
          /\ queues' = [i \in Ids \union {id} |-> IF i = id THEN row ELSE queues[i]]
          /\ created' = created + 1
    BY <1>2 DEF QueueCreated
  <2>2. \A i \in Ids : queues[i].born \in Nat /\ queues[i].born <= created
    BY DEF BornOnce, TypeOK, QueueRow
  <2> QED
    BY <2>1, <2>2 DEF BornOnce, Ids, TypeOK
<1>3. CASE QueueDeleted
  BY <1>3 DEF BornOnce, QueueDeleted, delete_queue, Ids
<1>4. CASE QueueUpdated
  <2>1. Ids' = Ids /\ \A i \in Ids : queues'[i].born = queues[i].born
    BY <1>4 DEF QueueUpdated, set_queue_attributes, Ids, TypeOK, QueueRow
  <2> QED
    BY <1>4, <2>1 DEF BornOnce, QueueUpdated
<1> QED
  BY <1>1, <1>2, <1>3, <1>4, QueueStep

\* Every step preserves the invariant.
LEMMA InvariantStep == IInv /\ [Next]_vars => IInv'
<1> SUFFICES ASSUME IInv, [Next]_vars
             PROVE  IInv'
  OBVIOUS
<1> USE DEF IInv
<1>1. TypeOK' /\ BatchLeft' /\ BornOnce'
  BY TypeStep, BornOnceStep
<1>2. ASSUME NEW h \in Handlers, pc'[h] \in IdStatements
      PROVE  Meant(loc[h].id, loc[h].born)'
  <2>1. loc'[h] \in ById
    BY <1>1, <1>2 DEF TypeOK, IdStatements
  <2>2. Meant(loc'[h].id, loc'[h].born)
    BY <1>2, HandlerStep, LoadedMeant DEF LocalsFrom, LocalsKept, LocalsById, RefersRight,
       IdStatements
  <2> QED
    BY <2>1, <2>2, MeantStep DEF ById
<1>3. ASSUME page' \in Page
      PROVE  Meant(page.id, page.shown)'
  <2>1. page'.shown \in Nat
    BY <1>3 DEF Page
  <2>2. Meant(page'.id, page'.shown)
    <3>1. NoPage \notin Page
      BY DEF NoPage, Page
    <3> QED
      BY <1>3, <3>1, PageStep, LoadedMeant DEF PageFrom, RefersRight
  <2> QED
    BY <2>1, <2>2, MeantStep
<1>4. ASSUME NEW m \in DOMAIN msgs'
      PROVE  /\ Meant(msgs[m].queue_id, msgs[m].sentTo)'
             /\ msgs'[m].queue_id \in Ids'
  <2>0. msgs'[m].sentTo \in Nat /\ MessageFrom(m)
    BY RowsStep DEF MessageTable, MessageFrom, MessageRow
  <2>1. Meant(msgs'[m].queue_id, msgs'[m].sentTo)
    BY <2>0 DEF MessageFrom, RefersRight, IdStatements, Statements, ByNameStatements
  <2>2. msgs'[m].queue_id \in Ids'
    BY <2>0 DEF MessageFrom, NoRowAlone, Ids
  <2> QED
    BY <2>0, <2>1, <2>2, MeantStep
<1>5. \A t \in tags' : t[1] \in Ids'
  BY RowsStep DEF TagFrom, NoRowAlone
<1> QED
  BY <1>1, <1>2, <1>3, <1>4, <1>5 DEF RefersRight, NoRowAlone

\* The invariant holds before the first request.
LEMMA InvariantInit == Init => IInv
<1> SUFFICES ASSUME Init PROVE IInv
  OBVIOUS
<1>1. TypeOK
  BY DEF Init, TypeOK, Ids, NoPage, Statements, ByNameStatements
<1> QED
  BY <1>1 DEF Init, IInv, BatchLeft, BornOnce, NoRowAlone, RefersRight, Ids, NoPage, Page,
     IdStatements

\* A message is in the queue it was sent to as long as that queue is there, although the
\* id of a deleted queue goes to another and the INSERT of sqs.rs runs by the id alone;
\* and deletions leave no message and no tag behind.
THEOREM MessagesStayWhereSent == Spec => []MessagesWhereSent
<1>1. IInv => MessagesWhereSent
  <2> SUFFICES ASSUME IInv PROVE MessagesWhereSent
    OBVIOUS
  <2>1. ASSUME NEW m \in DOMAIN msgs, msgs[m].sentTo \in Live
        PROVE  queues[msgs[m].queue_id].born = msgs[m].sentTo
    BY <2>1 DEF IInv, RefersRight, Meant, Live
  <2> QED
    BY <2>1 DEF IInv, NoRowAlone, MessagesWhereSent
<1> QED
  BY <1>1, InvariantInit, InvariantStep, PTL DEF Spec

\* Concurrent UPDATEs of different columns of one queue do not undo each other: a column
\* changes only to what some SetQueueAttributes under way says.
THEOREM UpdatesNotLost == Spec => NoLostUpdate
<1> DEFINE Kept ==
      \A id \in Ids : \A c \in Columns :
        /\ id \in Ids'
        /\ queues'[id].born = queues[id].born
        /\ queues'[id].config[c] # queues[id].config[c]
        => \E h \in Handlers :
             /\ pc[h] = "set_attributes"
             /\ c \in DOMAIN loc[h].update
             /\ queues'[id].config[c] = loc[h].update[c]
<1>1. IInv /\ [Next]_vars => [Kept]_vars
  <2> SUFFICES ASSUME IInv, [Next]_vars,
                      NEW id \in Ids, NEW c \in Columns, id \in Ids',
                      queues'[id].config[c] # queues[id].config[c]
               PROVE  \E h \in Handlers :
                        /\ pc[h] = "set_attributes"
                        /\ c \in DOMAIN loc[h].update
                        /\ queues'[id].config[c] = loc[h].update[c]
    OBVIOUS
  <2>0. TypeOK
    BY DEF IInv
  <2>1. QueueUpdated
    <3>1. ~QueueCreated
      BY DEF QueueCreated
    <3>2. ~QueueDeleted
      BY DEF QueueDeleted, delete_queue, Ids
    <3> QED
      BY <2>0, <3>1, <3>2, QueueStep
  <2>2. PICK h \in Handlers : /\ pc[h] = "set_attributes" /\ loc[h].id \in Ids
                              /\ set_queue_attributes(loc[h].id, loc[h].update)
    BY <2>1 DEF QueueUpdated
  <2>3. id = loc[h].id /\ queues[id] \in QueueRow
    BY <2>0, <2>2 DEF set_queue_attributes, TypeOK
  <2>4. queues'[id].config = Overlay(queues[id].config, loc[h].update)
    BY <2>0, <2>2, <2>3 DEF set_queue_attributes, TypeOK, QueueRow
  <2> QED
    BY <2>2, <2>4 DEF Overlay
<1> QED
  BY <1>1, InvariantInit, InvariantStep, PTL DEF Spec, NoLostUpdate

--------------------------------------------------------------------------------
(* The tag limit. *)

Tagging == {"ensure_tag", "insert_tag"}
TagStatements ==
  {"ensure_list", "select_tags", "console_list", "console_select", "reload"} \union Tagging

\* The keys stored for a queue.
KeysOf(id) == {t[2] : t \in TagsOf(id)}

\* A handler that will write its keys to the queue without another look at the limit.
Reserves(h, id) ==
  \/ pc[h] \in Tagging /\ loc[h].id = id
  \/ pc[h] = "reload" /\ loc[h].name = queues[id].name

\* The keys a queue has or may get from the handlers past the check.
Claimed(id) ==
  KeysOf(id) \union UNION {loc[h].keys : h \in {g \in Handlers : Reserves(g, id)}}

\* No request under way has more keys than the limit, and a form of the console has one.
KeysFit ==
  \A h \in Handlers :
    /\ pc[h] \in TagStatements => Cardinality(loc[h].keys) <= MaxTags
    /\ pc[h] \in {"console_list", "console_select"} => \E k : loc[h].keys = {k}

Limit == MaxTags * Cardinality(Handlers)

ClaimsFit == \A id \in Ids : Cardinality(Claimed(id)) <= Limit

\* As many sets as there are handlers, each within the limit, have at most as many
\* elements together.
LEMMA SharedLimit ==
  ASSUME NEW K \in [Handlers -> SUBSET TagKeys],
         \A h \in Handlers : Cardinality(K[h]) <= MaxTags
  PROVE  Cardinality(UNION {K[h] : h \in Handlers}) <= Limit
<1> USE LimitsAssumption
<1> DEFINE U == UNION {K[h] : h \in Handlers}
           D == {p \in Handlers \X (1..MaxTags) : p[2] <= Cardinality(K[p[1]])}
           E(h) == CHOOSE f : f \in Bijection(1..Cardinality(K[h]), K[h])
           F == [p \in D |-> E(p[1])[p[2]]]
<1>0. \A h \in Handlers : K[h] \in SUBSET TagKeys /\ IsFiniteSet(K[h])
  BY FS_Subset
<1>1. \A h \in Handlers : Cardinality(K[h]) \in Nat /\ ExistsBijection(1..Cardinality(K[h]), K[h])
  BY <1>0, FS_CardinalityType
<1>2. \A h \in Handlers : E(h) \in Bijection(1..Cardinality(K[h]), K[h])
  BY <1>1 DEF ExistsBijection
<1> HIDE DEF E
<1>3. ASSUME NEW p \in D
      PROVE  F[p] \in U
  <2>1. p[1] \in Handlers /\ p[2] \in 1..Cardinality(K[p[1]])
    BY <1>1
  <2>2. E(p[1])[p[2]] \in K[p[1]]
    BY <1>2, <2>1 DEF Bijection, Injection
  <2> QED
    BY <2>1, <2>2
<1>4. ASSUME NEW x \in U
      PROVE  \E p \in D : F[p] = x
  <2>1. PICK h \in Handlers : x \in K[h]
    OBVIOUS
  <2>2. PICK i \in 1..Cardinality(K[h]) : E(h)[i] = x
    BY <1>2, <2>1 DEF Bijection, Surjection
  <2>3. <<h, i>> \in D
    BY <1>1, <2>2
  <2> QED
    BY <2>2, <2>3
<1>5. F \in Surjection(D, U)
  BY <1>3, <1>4 DEF Surjection
<1>6. /\ IsFiniteSet(Handlers \X (1..MaxTags))
      /\ Cardinality(Handlers \X (1..MaxTags)) = Cardinality(Handlers) * MaxTags
  <2>1. IsFiniteSet(1..MaxTags) /\ Cardinality(1..MaxTags) = MaxTags
    <3>1. 1 \in Int /\ MaxTags \in Int /\ ~(1 > MaxTags) /\ MaxTags - 1 + 1 = MaxTags
      OBVIOUS
    <3> QED
      BY <3>1, FS_Interval
  <2> HIDE DEF D, F, U
  <2> QED
    BY <2>1, FS_Product
<1>7. IsFiniteSet(D) /\ Cardinality(D) <= Cardinality(Handlers) * MaxTags
  BY <1>6, FS_Subset
<1>8. Cardinality(U) <= Cardinality(D) /\ IsFiniteSet(U)
  BY <1>5, <1>7, FS_Surjection
<1> HIDE DEF U, D, F
<1>9. Cardinality(U) \in Nat /\ Cardinality(D) \in Nat /\ Cardinality(Handlers) \in Nat
  BY <1>7, <1>8, FS_CardinalityType
<1>10. Cardinality(Handlers) * MaxTags = MaxTags * Cardinality(Handlers)
       /\ Cardinality(Handlers) * MaxTags \in Nat
  BY <1>9
<1> QED
  BY <1>7, <1>8, <1>9, <1>10 DEF U, Limit

\* The check that lets handler h write its keys.
Admitted(h) ==
  /\ pc[h] \in {"select_tags", "console_select"}
  /\ pc'[h] = "ensure_tag"
  /\ loc'[h] = loc[h]
  /\ UNCHANGED <<queues, tags>>
  /\ \A g \in Handlers \ {h} : LocalsKept(g)
  /\ \/ Cardinality(KeysOf(loc[h].id) \union loc[h].keys) <= MaxTags
     \/ loc[h].keys \subseteq KeysOf(loc[h].id)

\* How a handler comes by the keys it may write: from a request, within the limit; then
\* they get fewer, and the queue they are for changes only from the one that has the
\* name to the one with the id.
KeysKept(h) ==
  /\ pc[h] \in TagStatements
  /\ loc'[h].keys \subseteq loc[h].keys
  /\ \/ pc[h] \in Tagging /\ pc'[h] \in Tagging /\ loc'[h].id = loc[h].id
     \/ pc[h] = "ensure_list" /\ pc'[h] = "select_tags"
     \/ pc[h] = "console_list" /\ pc'[h] = "console_select" /\ loc'[h] = loc[h]
     \/ /\ pc[h] = "reload" /\ pc'[h] \in Tagging
        /\ loc'[h].id \in Ids /\ queues[loc'[h].id].name = loc[h].name
     \/ Admitted(h)

KeysAsked(h) ==
  /\ Cardinality(loc'[h].keys) <= MaxTags
  /\ \/ pc'[h] = "ensure_list"
     \/ pc'[h] = "console_list" /\ \E k : loc'[h].keys = {k}
     \/ pc'[h] = "reload" /\ QueueCreated /\ get_queue(loc'[h].name) = {}

KeysFrom(h) ==
  \/ LocalsKept(h)
  \/ pc'[h] \notin TagStatements
  \/ KeysKept(h)
  \/ KeysAsked(h)

\* Every row of sqs_queue_tags was there before or is one that a handler reserved.
TagWritten(t) ==
  \/ t \in tags
  \/ \E h \in Handlers : pc[h] = "insert_tag" /\ loc[h].id = t[1] /\ t[2] \in loc[h].keys

\* A tag after a step was there, or a handler has inserted it.
LEMMA TagsWritten ==
  ASSUME TypeOK, [Next]_vars
  PROVE  \A t \in tags' : TagWritten(t)
<1>1. ASSUME NEW h \in Handlers, Statement(h)
      PROVE  \A t \in tags' : TagWritten(t)
  <2>1. CASE InsertTag(h)
    BY <2>1 DEF InsertTag, TagWritten
  <2>2. tags' \subseteq tags \/ InsertTag(h)
    BY <1>1 DEF Statement, ReloadCreated, CompareExisting, DeleteQueueById, PurgeById,
       UpdateById, InsertMessage, EnsureQueueExists, SelectTags, DeleteTag,
       ConsoleSelectTags, delete_queue
  <2> QED
    BY <2>1, <2>2 DEF TagWritten
<1>2. ASSUME NEW h \in Handlers, Request(h) \/ Busy(h) \/ Console(h) \/ ConsoleReload(h)
      PROVE  UNCHANGED tags
  BY <1>2 DEF Request, CreateQueue, DeleteQueue, PurgeQueue, SetQueueAttributes,
     SendMessageBatch, TagQueue, UntagQueue, Load, Busy, Console, ConsoleDeleteQueue,
     ConsolePurgeQueue, ConsoleSendMessage, ConsoleTagQueue, ConsoleUntagQueue,
     ConsoleCreateQueue, LoadById, ConsoleReload
<1>3. UNCHANGED tags => \A t \in tags' : TagWritten(t)
  BY DEF TagWritten
<1> QED
  BY <1>1, <1>2, <1>3 DEF Next, Restart, OpenQueuePage, LeavePage, vars

\* The keys a handler has left to insert after a step.
LEMMA KeysStep ==
  ASSUME TypeOK, BatchLeft, KeysFit, [Next]_vars
  PROVE  \A h \in Handlers : KeysFrom(h)
<1> USE LimitsAssumption
<1> DEFINE P == \A h \in Handlers : KeysFrom(h)
<1>0. UNCHANGED <<pc, loc>> => P
  BY DEF KeysFrom, LocalsKept
<1>a. ASSUME NEW h \in Handlers, NEW s \in Statements, NEW l, Goto(h, s, l),
             s \notin TagStatements
      PROVE  P
  BY <1>a, GotoStep DEF KeysFrom
<1>b. ASSUME NEW h \in Handlers, Finish(h)
      PROVE  P
  BY <1>b, <1>a DEF Finish, Statements, TagStatements, Tagging
<1>c. ASSUME NEW h \in Handlers, NEW s \in Statements \ TagStatements, NEW keys, NEW update,
             NEW left, Load(h, s, keys, update, left) \/ LoadById(h, s, keys, left)
      PROVE  P
  BY <1>c, <1>a DEF Load, LoadById
<1>e. /\ "delete_queue" \in Statements \ TagStatements
      /\ "purge_queue" \in Statements \ TagStatements
      /\ "set_attributes" \in Statements \ TagStatements
      /\ "send_message" \in Statements \ TagStatements
      /\ "ensure_untag" \in Statements \ TagStatements
  BY DEF Statements, TagStatements, Tagging
<1>f. "ensure_list" \in Statements /\ "console_list" \in Statements
  BY DEF Statements
<1>1. ASSUME NEW h \in Handlers, CreateQueue(h)
      PROVE  P
  <2>1. PICK name \in Names, config \in Configs, keys \in SUBSET TagKeys :
          /\ Cardinality(keys) <= MaxTags
          /\ \/ UNCHANGED <<pc, loc>>
             \/ /\ get_queue(name) = {}
                /\ \E id \in {1} \union {i + 1 : i \in Ids} : create_queue(id, name, config)
                /\ Goto(h, "reload", [name |-> name, keys |-> keys])
             \/ Goto(h, "conflict", [name |-> name, keys |-> keys])
    BY <1>1 DEF CreateQueue, NameTaken
  <2>2. CASE Goto(h, "conflict", [name |-> name, keys |-> keys])
    BY <1>a, <2>2 DEF Statements, TagStatements, Tagging
  <2>3. CASE /\ get_queue(name) = {}
             /\ \E id \in {1} \union {i + 1 : i \in Ids} : create_queue(id, name, config)
             /\ Goto(h, "reload", [name |-> name, keys |-> keys])
    <3>1. QueueCreated
      <4>1. created' # created
        BY <2>3 DEF create_queue, TypeOK
      <4> QED
        BY <4>1, QueueStep DEF QueueDeleted, QueueUpdated
    <3>2. "reload" \in Statements
      BY DEF Statements
    <3> DEFINE l == [name |-> name, keys |-> keys]
    <3>3. l.name = name /\ l.keys = keys
      OBVIOUS
    <3>4. Goto(h, "reload", l)
      BY <2>3
    <3> HIDE DEF l
    <3>5. KeysAsked(h)
      BY <2>1, <2>3, <3>1, <3>2, <3>3, <3>4, GotoStep DEF KeysAsked
    <3> QED
      BY <3>2, <3>4, <3>5, GotoStep DEF KeysFrom
  <2> QED
    BY <1>0, <2>1, <2>2, <2>3
<1>2. ASSUME NEW h \in Handlers, Request(h), ~CreateQueue(h)
      PROVE  P
  <2>1. CASE DeleteQueue(h) \/ PurgeQueue(h) \/ SetQueueAttributes(h)
    BY <1>c, <1>e, <2>1 DEF DeleteQueue, PurgeQueue, SetQueueAttributes
  <2>2. CASE SendMessageBatch(h)
    BY <1>c, <1>e, <2>2 DEF SendMessageBatch
  <2>3. CASE UntagQueue(h)
    BY <1>c, <1>e, <2>3 DEF UntagQueue
  <2>4. ASSUME NEW keys \in SUBSET TagKeys, Cardinality(keys) <= MaxTags,
               Load(h, "ensure_list", keys, NoUpdate, 0)
        PROVE  P
    <3>1. PICK id \in Ids :
            Goto(h, "ensure_list", Loaded(id, queues[id].born, "ensure_list", keys, NoUpdate, 0))
      BY <2>4 DEF Load, get_queue
    <3> DEFINE l == Loaded(id, queues[id].born, "ensure_list", keys, NoUpdate, 0)
    <3>2. l.keys = keys
      BY DEF Loaded
    <3> HIDE DEF l
    <3> QED
      BY <1>f, <2>4, <3>1, <3>2, GotoStep DEF l, KeysFrom, KeysAsked
  <2> QED
    BY <1>2, <2>1, <2>2, <2>3, <2>4 DEF Request, TagQueue
<1>3. ASSUME NEW h \in Handlers, Statement(h)
      PROVE  P
  <2>1. CASE ReloadCreated(h)
    <3>1. ASSUME NEW id \in Ids, queues[id].name = loc[h].name,
                 Goto(h, "ensure_tag",
                      Loaded(id, queues[id].born, "ensure_tag", loc[h].keys, NoUpdate, 0))
          PROVE  P
      <4> DEFINE l == Loaded(id, queues[id].born, "ensure_tag", loc[h].keys, NoUpdate, 0)
      <4>1. l.id = id /\ l.keys = loc[h].keys
        BY DEF Loaded
      <4> HIDE DEF l
      <4>2. "ensure_tag" \in Statements /\ pc[h] = "reload"
        BY <2>1 DEF ReloadCreated, Statements
      <4> QED
        BY <3>1, <4>1, <4>2, GotoStep DEF KeysFrom, KeysKept, Tagging, TagStatements, l
    <3> QED
      BY <1>b, <2>1, <3>1 DEF ReloadCreated, get_queue
  <2>2. CASE InsertMessage(h)
    BY <1>a, <1>b, <1>e, <2>2 DEF InsertMessage
  <2>3. CASE EnsureQueueExists(h)
    <3>1. CASE Finish(h)
      BY <1>b, <3>1
    <3>2. CASE ~Finish(h)
      <4>1. /\ pc' = [pc EXCEPT ![h] = CASE pc[h] = "ensure_list" -> "select_tags"
                                         [] pc[h] = "console_list" -> "console_select"
                                         [] pc[h] = "ensure_tag" -> "insert_tag"
                                         [] pc[h] = "ensure_untag" -> "delete_tag"]
            /\ loc' = loc
            /\ pc[h] \in {"ensure_list", "console_list", "ensure_tag", "ensure_untag"}
        BY <2>3, <3>2 DEF EnsureQueueExists
      <4>2. \A g \in Handlers \ {h} : LocalsKept(g)
        BY <4>1 DEF LocalsKept, TypeOK
      <4>3. KeysFrom(h)
        BY <4>1 DEF KeysFrom, KeysKept, TagStatements, Tagging, TypeOK
      <4> QED
        BY <4>2, <4>3 DEF KeysFrom
    <3> QED
      BY <3>1, <3>2
  <2>4. CASE SelectTags(h) \/ ConsoleSelectTags(h)
    <3>0. loc[h] \in ById /\ pc[h] \in {"select_tags", "console_select"}
      BY <2>4 DEF SelectTags, ConsoleSelectTags, TypeOK, ByNameStatements
    <3>1. CASE Finish(h)
      BY <1>b, <3>1
    <3>2. CASE ~Finish(h)
      <4>1. /\ Goto(h, "ensure_tag", loc[h])
            /\ UNCHANGED <<queues, tags>>
        BY <2>4, <3>2 DEF SelectTags, ConsoleSelectTags
      <4>2. "ensure_tag" \in Statements
        BY DEF Statements
      <4>3. /\ pc'[h] = "ensure_tag" /\ loc'[h] = loc[h]
            /\ \A g \in Handlers \ {h} : LocalsKept(g)
        BY <4>1, <4>2, GotoStep
      <4> DEFINE K == KeysOf(loc[h].id)
      <4>4. \/ Cardinality(K \union loc[h].keys) <= MaxTags
            \/ loc[h].keys \subseteq K
        <5>1. CASE SelectTags(h)
          BY <3>2, <5>1 DEF SelectTags, MergedTags, KeysOf
        <5>2. CASE ConsoleSelectTags(h) /\ ~(loc[h].keys \subseteq K)
          <6>1. Cardinality(K) < MaxTags
            BY <3>2, <5>2 DEF ConsoleSelectTags, KeysOf
          <6>2. pc[h] = "console_select"
            BY <5>2 DEF ConsoleSelectTags
          <6>3. PICK k : loc[h].keys = {k}
            BY <6>2 DEF KeysFit
          <6>4. K \in SUBSET TagKeys
            BY DEF KeysOf, TagsOf, TypeOK
          <6>5. IsFiniteSet(K) /\ Cardinality(K) \in Nat
            <7> HIDE DEF K
            <7>1. IsFiniteSet(K)
              BY <6>4, FS_Subset
            <7> QED
              BY <7>1, FS_CardinalityType
          <6> HIDE DEF K
          <6>6. Cardinality(K \union {k})
                  = IF k \in K THEN Cardinality(K) ELSE Cardinality(K) + 1
            BY <6>5, FS_AddElement, Zenon
          <6>7. Cardinality(K \union {k}) <= MaxTags
            BY <6>1, <6>5, <6>6
          <6> QED
            BY <6>3, <6>7
        <5> QED
          BY <2>4, <5>1, <5>2
      <4>5. KeysKept(h)
        BY <3>0, <4>1, <4>3, <4>4 DEF KeysKept, Admitted, TagStatements, Tagging
      <4> QED
        BY <4>3, <4>5 DEF KeysFrom
    <3> QED
      BY <3>1, <3>2
  <2>5. CASE InsertTag(h)
    <3>1. loc[h] \in ById /\ pc[h] = "insert_tag"
      BY <2>5 DEF InsertTag, TypeOK, ByNameStatements
    <3>2. ASSUME NEW key \in loc[h].keys,
                 Goto(h, "insert_tag", [loc[h] EXCEPT !.keys = loc[h].keys \ {key}])
          PROVE  P
      <4> DEFINE l == [loc[h] EXCEPT !.keys = loc[h].keys \ {key}]
      <4>1. loc[h].keys \ {key} \in SUBSET TagKeys /\ "insert_tag" \in Statements
        BY <3>1 DEF ById, Statements
      <4>2. l.id = loc[h].id /\ l.keys = loc[h].keys \ {key}
        BY <3>1, <4>1, FewerKeys
      <4> HIDE DEF l
      <4>3. pc'[h] = "insert_tag" /\ loc'[h] = l /\ \A g \in Handlers \ {h} : LocalsKept(g)
        BY <3>2, <4>1, GotoStep DEF l
      <4>4. KeysKept(h)
        BY <3>1, <4>2, <4>3 DEF KeysKept, Tagging, TagStatements
      <4> QED
        BY <4>3, <4>4 DEF KeysFrom
    <3> QED
      BY <1>b, <2>5, <3>2 DEF InsertTag, NextKey
  <2>6. CASE DeleteTag(h)
    <3>1. "delete_tag" \in Statements \ TagStatements
      BY DEF Statements, TagStatements, Tagging
    <3> QED
      BY <1>a, <1>b, <2>6, <3>1 DEF DeleteTag, NextKey
  <2> QED
    BY <1>3, <1>b, <2>1, <2>2, <2>3, <2>4, <2>5, <2>6 DEF Statement, CompareExisting,
       DeleteQueueById, PurgeById, UpdateById
<1>4. ASSUME NEW h \in Handlers, Console(h)
      PROVE  P
  <2>1. CASE ConsoleCreateQueue(h)
    <3>1. "console_reload" \in Statements \ TagStatements
      BY DEF Statements, TagStatements, Tagging
    <3> QED
      BY <1>a, <2>1, <3>1 DEF ConsoleCreateQueue
  <2>2. CASE ConsoleDeleteQueue(h) \/ ConsolePurgeQueue(h) \/ ConsoleSendMessage(h)
    BY <1>c, <1>e, <2>2 DEF ConsoleDeleteQueue, ConsolePurgeQueue, ConsoleSendMessage
  <2>3. CASE ConsoleUntagQueue(h)
    BY <1>c, <1>e, <2>3 DEF ConsoleUntagQueue
  <2>4. ASSUME NEW key \in TagKeys, LoadById(h, "console_list", {key}, 0)
        PROVE  P
    <3>1. Cardinality({key}) <= MaxTags
      BY FS_Singleton
    <3> DEFINE l == Loaded(page.id, page.shown, "console_list", {key}, NoUpdate, 0)
    <3>2. l.keys = {key} /\ Goto(h, "console_list", l)
      BY <2>4 DEF Loaded, LoadById
    <3> HIDE DEF l
    <3> QED
      BY <1>f, <3>1, <3>2, GotoStep DEF KeysFrom, KeysAsked
  <2> QED
    BY <1>4, <2>1, <2>2, <2>3, <2>4 DEF Console, ConsoleTagQueue
<1>5. ASSUME NEW h \in Handlers, ConsoleReload(h) \/ Busy(h)
      PROVE  P
  BY <1>5, <1>b DEF ConsoleReload, Busy
<1>6. CASE Restart
  BY <1>6 DEF Restart, KeysFrom, TagStatements, Tagging
<1>7. CASE OpenQueuePage \/ LeavePage \/ UNCHANGED vars
  BY <1>0, <1>7 DEF OpenQueuePage, LeavePage, vars
<1> QED
  BY <1>1, <1>2, <1>3, <1>4, <1>5, <1>6, <1>7 DEF Next

\* Claims are keys; fewer claims are no more of them.
LEMMA ClaimsType ==
  ASSUME TypeOK, NEW id
  PROVE  Claimed(id) \in SUBSET TagKeys
<1>1. KeysOf(id) \subseteq TagKeys
  BY DEF KeysOf, TagsOf, TypeOK
<1>2. ASSUME NEW h \in Handlers, Reserves(h, id)
      PROVE  loc[h].keys \subseteq TagKeys
  BY <1>2 DEF Reserves, Tagging, TypeOK, ByNameStatements, ById, ByName
<1> QED
  BY <1>1, <1>2 DEF Claimed

\* Fewer keys fit as well.
LEMMA FewerClaims ==
  ASSUME NEW S \in SUBSET TagKeys, NEW T \in SUBSET S, Cardinality(S) <= Limit
  PROVE  Cardinality(T) <= Limit
<1> USE LimitsAssumption
<1>1. IsFiniteSet(S)
  BY FS_Subset
<1>2. Cardinality(S) \in Nat /\ Cardinality(T) \in Nat /\ Cardinality(T) <= Cardinality(S)
  BY <1>1, FS_Subset, FS_CardinalityType
<1>3. Limit \in Nat
  BY FS_CardinalityType DEF Limit
<1> QED
  BY <1>2, <1>3

\* What is stored and what each handler holds, when one of them is within the limit
\* together with what is stored.
LEMMA ClaimsShared ==
  ASSUME NEW stored \in SUBSET TagKeys, NEW K \in [Handlers -> SUBSET TagKeys],
         \A g \in Handlers : Cardinality(K[g]) <= MaxTags,
         NEW h \in Handlers, Cardinality(stored \union K[h]) <= MaxTags
  PROVE  Cardinality(stored \union UNION {K[g] : g \in Handlers}) <= Limit
<1> DEFINE L == [K EXCEPT ![h] = stored \union K[h]]
<1>1. L \in [Handlers -> SUBSET TagKeys] /\ \A g \in Handlers : Cardinality(L[g]) <= MaxTags
  OBVIOUS
<1>2. stored \union UNION {K[g] : g \in Handlers} = UNION {L[g] : g \in Handlers}
  <2>1. \A g \in Handlers : K[g] \subseteq L[g] /\ L[g] \subseteq stored \union K[g]
    OBVIOUS
  <2>2. stored \subseteq L[h]
    OBVIOUS
  <2> HIDE DEF L
  <2> QED
    BY <2>1, <2>2
<1> HIDE DEF L
<1> QED
  BY <1>1, <1>2, SharedLimit

\* Every step leaves the requests and the claims within their limits.
LEMMA ClaimsStep ==
  ASSUME IInv, KeysFit, ClaimsFit, [Next]_vars
  PROVE  KeysFit' /\ ClaimsFit'
<1> USE LimitsAssumption
<1>0. TypeOK /\ BatchLeft /\ NoRowAlone /\ TypeOK'
  BY TypeStep DEF IInv
<1>1. KeysFit'
  <2> SUFFICES ASSUME NEW h \in Handlers
               PROVE  /\ pc'[h] \in TagStatements => Cardinality(loc'[h].keys) <= MaxTags
                      /\ pc'[h] \in {"console_list", "console_select"} =>
                           \E k : loc'[h].keys = {k}
    BY DEF KeysFit
  <2>1. CASE LocalsKept(h)
    BY <2>1 DEF LocalsKept, KeysFit
  <2>2. CASE KeysKept(h)
    <3>1. loc[h].keys \in SUBSET TagKeys /\ Cardinality(loc[h].keys) <= MaxTags
      BY <1>0, <2>2 DEF KeysKept, KeysFit, TagStatements, Tagging, TypeOK, ByNameStatements,
         ById, ByName
    <3>2. IsFiniteSet(loc[h].keys)
      BY <3>1, FS_Subset
    <3>3. /\ Cardinality(loc'[h].keys) <= Cardinality(loc[h].keys)
          /\ Cardinality(loc[h].keys) \in Nat /\ Cardinality(loc'[h].keys) \in Nat
      BY <2>2, <3>2, FS_Subset, FS_CardinalityType DEF KeysKept
    <3>4. pc'[h] \in {"console_list", "console_select"} => \E k : loc'[h].keys = {k}
      BY <2>2 DEF KeysKept, Admitted, KeysFit, Tagging
    <3>5. Cardinality(loc'[h].keys) <= MaxTags
      BY <3>1, <3>3
    <3> QED
      BY <3>4, <3>5
  <2>3. CASE KeysAsked(h)
    BY <2>3 DEF KeysAsked
  <2>4. CASE pc'[h] \notin TagStatements
    BY <2>4 DEF TagStatements
  <2> QED
    BY <1>0, <2>1, <2>2, <2>3, <2>4, KeysStep DEF KeysFrom
<1>a. ASSUME NEW id, NEW h \in Handlers, loc'[h].keys \subseteq TagKeys,
             Cardinality(KeysOf(id)' \union loc'[h].keys) <= MaxTags,
             Cardinality(loc'[h].keys) <= MaxTags
      PROVE  Cardinality(Claimed(id)') <= Limit
  <2> DEFINE stored == KeysOf(id)'
             K == [g \in Handlers |->
                     IF g = h \/ Reserves(g, id)' THEN loc'[g].keys ELSE {}]
             U == UNION {K[g] : g \in Handlers}
  <2>1. stored \in SUBSET TagKeys
    BY <1>0 DEF KeysOf, TagsOf, TypeOK
  <2>2. \A g \in Handlers : Reserves(g, id)' =>
          loc'[g].keys \subseteq TagKeys /\ Cardinality(loc'[g].keys) <= MaxTags
    BY <1>0, <1>1 DEF Reserves, Tagging, TagStatements, TypeOK, ByNameStatements, ById,
       ByName, KeysFit
  <2>3. K \in [Handlers -> SUBSET TagKeys]
    BY <1>a, <2>2
  <2>4. \A g \in Handlers : Cardinality(K[g]) <= MaxTags
    BY <1>a, <2>2, FS_EmptySet
  <2>5. Cardinality(stored \union K[h]) <= MaxTags
    BY <1>a
  <2>6. Claimed(id)' \subseteq stored \union U
    <3>1. \A g \in Handlers : Reserves(g, id)' => loc'[g].keys = K[g]
      OBVIOUS
    <3> HIDE DEF K
    <3> QED
      BY <3>1 DEF Claimed
  <2>7. stored \union U \in SUBSET TagKeys
    BY <2>1, <2>3
  <2> HIDE DEF K, stored
  <2>8. Cardinality(stored \union U) <= Limit
    BY <2>1, <2>3, <2>4, <2>5, ClaimsShared
  <2> HIDE DEF U
  <2> QED
    BY <2>6, <2>7, <2>8, FewerClaims
<1>2. ASSUME NEW id \in Ids'
      PROVE  Cardinality(Claimed(id)') <= Limit
  <2>1. CASE id \notin Ids
    <3>1. UNCHANGED tags
      BY <1>0, <2>1, QueueStep DEF QueueCreated, QueueDeleted, QueueUpdated,
         delete_queue, set_queue_attributes, Ids, TypeOK
    <3>2. KeysOf(id)' = {}
      BY <1>0, <2>1, <3>1 DEF KeysOf, TagsOf, NoRowAlone
    <3>3. CASE \A h \in Handlers : ~Reserves(h, id)'
      <4>1. Claimed(id)' = {}
        BY <3>2, <3>3 DEF Claimed
      <4>2. Cardinality({}) = 0 /\ Cardinality(Handlers) \in Nat
        BY FS_EmptySet, FS_CardinalityType
      <4>3. Limit \in Nat
        BY <4>2 DEF Limit
      <4> QED
        BY <4>1, <4>2, <4>3
    <3>4. ASSUME NEW h \in Handlers, Reserves(h, id)'
          PROVE  Cardinality(Claimed(id)') <= Limit
      <4>1. loc'[h].keys \subseteq TagKeys /\ Cardinality(loc'[h].keys) <= MaxTags
        BY <1>0, <1>1, <3>4 DEF Reserves, Tagging, TagStatements, TypeOK, ByNameStatements,
           ById, ByName, KeysFit
      <4>2. Cardinality(KeysOf(id)' \union loc'[h].keys) <= MaxTags
        BY <3>2, <4>1
      <4> QED
        BY <1>a, <4>1, <4>2
    <3> QED
      BY <3>3, <3>4
  <2>2. ASSUME id \in Ids, NEW h \in Handlers, Admitted(h), loc[h].id = id,
               Cardinality(KeysOf(id) \union loc[h].keys) <= MaxTags
        PROVE  Cardinality(Claimed(id)') <= Limit
    <3>1. KeysOf(id)' = KeysOf(id)
      BY <2>2 DEF Admitted, KeysOf, TagsOf
    <3>2. loc'[h].keys \subseteq TagKeys /\ Cardinality(loc'[h].keys) <= MaxTags
      BY <1>0, <2>2 DEF Admitted, TypeOK, ByNameStatements, ById, KeysFit, TagStatements
    <3>3. Cardinality(KeysOf(id)' \union loc'[h].keys) <= MaxTags
      BY <2>2, <3>1 DEF Admitted
    <3> QED
      BY <1>a, <3>2, <3>3
  <2>3. CASE id \in Ids /\ \A h \in Handlers :
               Admitted(h) /\ loc[h].id = id => loc[h].keys \subseteq KeysOf(id)
    <3>1. queues'[id].name = queues[id].name
      <4>1. CASE QueueCreated
        BY <2>3, <4>1 DEF QueueCreated
      <4>2. CASE QueueDeleted
        BY <1>2, <4>2 DEF QueueDeleted, delete_queue, Ids
      <4>3. CASE QueueUpdated
        <5>1. queues[id] \in QueueRow
          BY <1>0, <2>3 DEF TypeOK
        <5> QED
          BY <1>0, <2>3, <4>3, <5>1 DEF QueueUpdated, set_queue_attributes, TypeOK, QueueRow
      <4> QED
        BY <1>0, <4>1, <4>2, <4>3, QueueStep
    <3>2. ASSUME NEW h \in Handlers, Reserves(h, id)'
          PROVE  loc'[h].keys \subseteq Claimed(id)
      <4>1. pc'[h] \in TagStatements
        BY <3>2 DEF Reserves, TagStatements
      <4>2. CASE LocalsKept(h)
        BY <3>1, <3>2, <4>2 DEF LocalsKept, Reserves, Claimed
      <4>3. CASE KeysKept(h)
        <5>1. CASE Admitted(h)
          <6>1. loc[h].id = id
            BY <3>2, <5>1 DEF Admitted, Reserves
          <6> QED
            BY <2>3, <5>1, <6>1 DEF Admitted, Claimed
        <5>2. CASE ~Admitted(h)
          <6>1. Reserves(h, id)
            BY <3>2, <4>3, <5>2 DEF KeysKept, Reserves, Tagging
          <6> QED
            BY <4>3, <6>1 DEF KeysKept, Claimed
        <5> QED
          BY <5>1, <5>2
      <4>4. CASE KeysAsked(h)
        <5>1. pc'[h] = "reload" /\ get_queue(loc'[h].name) = {}
          BY <3>2, <4>4 DEF KeysAsked, Reserves, Tagging
        <5>2. loc'[h].name = queues[id].name
          BY <3>1, <3>2, <5>1 DEF Reserves, Tagging
        <5> QED
          BY <2>3, <5>1, <5>2 DEF get_queue
      <4> QED
        BY <1>0, <4>1, <4>2, <4>3, <4>4, KeysStep DEF KeysFrom
    <3>3. KeysOf(id)' \subseteq Claimed(id)
      BY <1>0, TagsWritten DEF KeysOf, TagsOf, TagWritten, Claimed, Reserves, Tagging
    <3>4. Claimed(id)' \in SUBSET Claimed(id)
      BY <3>2, <3>3 DEF Claimed
    <3> QED
      BY <1>0, <2>3, <3>4, ClaimsType, FewerClaims DEF ClaimsFit
  <2> QED
    BY <2>1, <2>2, <2>3 DEF Admitted
<1> QED
  BY <1>1, <1>2 DEF ClaimsFit, Limit

\* However many requests check MAX_TAGS_PER_QUEUE on a read the others outdate, a queue
\* never has more tags than the limit for each request that runs at once.
THEOREM TagLimitHolds == Spec => []TagLimitPerHandler
<1>1. Init => KeysFit /\ ClaimsFit
  BY DEF Init, KeysFit, ClaimsFit, TagStatements, Tagging, Ids
<1>2. IInv /\ ClaimsFit => TagLimitPerHandler
  <2> SUFFICES ASSUME IInv, ClaimsFit, NEW id \in Ids
               PROVE  Cardinality(TagsOf(id)) <= Limit
    BY DEF TagLimitPerHandler, Limit
  <2> DEFINE f == [t \in TagsOf(id) |-> t[2]]
  <2>1. TypeOK
    BY DEF IInv
  <2>2. \A t \in TagsOf(id) : t = <<id, t[2]>> /\ t[2] \in Claimed(id)
    BY <2>1 DEF TagsOf, TypeOK, Claimed, KeysOf
  <2>3. f \in Injection(TagsOf(id), Claimed(id))
    <3>1. f \in [TagsOf(id) -> Claimed(id)]
      BY <2>2
    <3>2. ASSUME NEW t \in TagsOf(id), NEW u \in TagsOf(id), f[t] = f[u]
          PROVE  t = u
      <4>1. t[2] = u[2]
        BY <3>2
      <4> QED
        BY <2>2, <4>1, Zenon
    <3> HIDE DEF f
    <3> QED
      BY <3>1, <3>2 DEF Injection, IsInjective
  <2>4. IsFiniteSet(Claimed(id))
    BY <2>1, ClaimsType, FS_Subset, LimitsAssumption
  <2>5. /\ Cardinality(TagsOf(id)) <= Cardinality(Claimed(id))
        /\ Cardinality(TagsOf(id)) \in Nat /\ Cardinality(Claimed(id)) \in Nat
    BY <2>3, <2>4, FS_Injection, FS_CardinalityType
  <2>6. Limit \in Nat
    BY LimitsAssumption, FS_CardinalityType DEF Limit
  <2> QED
    BY <2>5, <2>6 DEF ClaimsFit
<1>3. IInv /\ KeysFit /\ ClaimsFit /\ [Next]_vars => (KeysFit /\ ClaimsFit)'
  BY ClaimsStep
<1> QED
  BY <1>1, <1>2, <1>3, InvariantInit, InvariantStep, PTL DEF Spec

--------------------------------------------------------------------------------
(* Pages: the smallest elements of a finite set of numbers. *)

\* A set of numbers with an element has a smallest.
LEMMA SmallestElement ==
  ASSUME NEW S \in SUBSET Nat, S # {}
  PROVE  \E x \in S : \A y \in S : x <= y
<1>1. PICK x \in S : \A y \in S : ~(<<y, x>> \in OpToRel(<, Nat))
  BY NatLessThanWellFounded, WFMin, Zenon
<1>2. \A y \in S : ~(y < x)
  BY <1>1 DEF OpToRel
<1>3. \A y \in S : y \in Nat /\ x \in Nat
  OBVIOUS
<1> QED
  BY <1>2, <1>3

\* A set that holds 0, and with a number the next one, holds all numbers.
LEMMA EveryNumber ==
  ASSUME NEW S, 0 \in S, \A k \in Nat : k \in S => k + 1 \in S
  PROVE  Nat \subseteq S
<1> SUFFICES ASSUME NEW x \in Nat, x \notin S
             PROVE  FALSE
  OBVIOUS
<1> DEFINE Out == Nat \ S
<1>1. Out \in SUBSET Nat /\ Out # {}
  OBVIOUS
<1> HIDE DEF Out
<1>2. PICK m \in Out : \A z \in Out : m <= z
  BY <1>1, SmallestElement
<1>3. m \in Nat /\ m \notin S /\ m # 0
  BY <1>2 DEF Out
<1>4. m - 1 \in Nat /\ (m - 1) + 1 = m /\ ~(m <= m - 1)
  BY <1>3
<1>5. m - 1 \in Out
  BY <1>3, <1>4 DEF Out
<1> QED
  BY <1>2, <1>4, <1>5

\* The rank of an element, the number of smaller ones.
Rank(S, x) == Cardinality(Below(S, x))

\* Below a name there are fewer names than there are.
LEMMA RankType ==
  ASSUME NEW S \in SUBSET Nat, IsFiniteSet(S), NEW x \in S
  PROVE  Rank(S, x) \in Nat /\ Rank(S, x) < Cardinality(S)
<1> DEFINE B == Below(S, x)
<1>1. B \subseteq S \ {x}
  BY DEF Below
<1>2. IsFiniteSet(S \ {x}) /\ Cardinality(S \ {x}) = Cardinality(S) - 1
  BY FS_RemoveElement
<1> HIDE DEF B
<1>3. IsFiniteSet(B) /\ Cardinality(B) <= Cardinality(S \ {x})
  BY <1>1, <1>2, FS_Subset
<1>4. Cardinality(B) \in Nat /\ Cardinality(S) \in Nat
  BY <1>3, FS_CardinalityType
<1> QED
  BY <1>2, <1>3, <1>4 DEF B, Rank

\* A larger element has a larger rank.
LEMMA RankGrows ==
  ASSUME NEW S \in SUBSET Nat, IsFiniteSet(S), NEW x \in S, NEW y \in S, x < y
  PROVE  Rank(S, x) < Rank(S, y)
<1> DEFINE A == Below(S, x)
           B == Below(S, y)
<1>1. A \union {x} \subseteq B /\ x \notin A /\ A \subseteq S /\ B \subseteq S
  <2>1. \A u \in S : u \in Int
    OBVIOUS
  <2>2. \A u \in S : u < x => u < y
    BY <2>1
  <2>3. ~(x < x)
    BY <2>1
  <2> QED
    BY <2>2, <2>3 DEF Below
<1> HIDE DEF A, B
<1>2. IsFiniteSet(A) /\ IsFiniteSet(B)
  BY <1>1, FS_Subset
<1>3. Cardinality(A \union {x}) = Cardinality(A) + 1
  BY <1>1, <1>2, FS_AddElement
<1>4. Cardinality(A \union {x}) <= Cardinality(B)
  BY <1>1, <1>2, FS_Subset
<1>5. Cardinality(A) \in Nat /\ Cardinality(B) \in Nat
  BY <1>2, FS_CardinalityType
<1> QED
  BY <1>3, <1>4, <1>5 DEF A, B, Rank

\* Every rank below the number of elements is that of an element.
LEMMA RankExists ==
  ASSUME NEW S \in SUBSET Nat, IsFiniteSet(S), NEW r \in Nat, r < Cardinality(S)
  PROVE  \E x \in S : Rank(S, x) = r
<1> DEFINE Taken == {k \in Nat : k < Cardinality(S) => \E x \in S : Rank(S, x) = k}
<1>0. Cardinality(S) \in Nat
  BY FS_CardinalityType
<1>1. 0 \in Taken
  <2> SUFFICES ASSUME 0 < Cardinality(S)
               PROVE  \E x \in S : Rank(S, x) = 0
    OBVIOUS
  <2>1. S # {}
    BY FS_EmptySet
  <2>2. PICK x \in S : \A y \in S : x <= y
    BY <2>1, SmallestElement
  <2>3. Below(S, x) = {}
    <3>1. \A y \in S : ~(y < x)
      <4>1. \A y \in S : y \in Int
        OBVIOUS
      <4> QED
        BY <2>2, <4>1
    <3> QED
      BY <3>1 DEF Below
  <2> QED
    BY <2>3, FS_EmptySet DEF Rank
<1>2. ASSUME NEW k \in Nat, k \in Taken
      PROVE  k + 1 \in Taken
  <2> SUFFICES ASSUME k + 1 < Cardinality(S)
               PROVE  \E x \in S : Rank(S, x) = k + 1
    OBVIOUS
  <2>1. PICK x \in S : Rank(S, x) = k
    BY <1>0, <1>2
  <2> DEFINE A == Below(S, x) \union {x}
             T == S \ A
  <2>2. A \subseteq S /\ x \notin Below(S, x) /\ Below(S, x) \subseteq S
    BY DEF Below
  <2>3. IsFiniteSet(Below(S, x))
    BY <2>2, FS_Subset
  <2>4. Cardinality(A) = k + 1
    BY <2>1, <2>2, <2>3, FS_AddElement DEF Rank
  <2>5. T \in SUBSET Nat /\ T # {}
    <3>1. A # S
      BY <1>0, <2>4
    <3> HIDE DEF A
    <3> QED
      BY <2>2, <3>1
  <2>6. \A z \in S : z \in A <=> z <= x
    BY DEF Below
  <2> HIDE DEF A
  <2>7. PICK y \in T : \A z \in T : y <= z
    BY <2>5, SmallestElement
  <2>8. y \in S /\ y \notin A
    BY <2>7
  <2>9. Below(S, y) = A
    <3>1. ASSUME NEW z \in S
          PROVE  z < y <=> z \in A
      <4>1. z \in Nat /\ y \in Nat /\ x \in Nat
        BY <2>8
      <4>2. z \notin A => y <= z
        BY <2>7
      <4>3. z \in A => z < y
        BY <2>6, <2>8, <4>1
      <4> QED
        BY <4>1, <4>2, <4>3
    <3> QED
      BY <2>2, <3>1 DEF Below
  <2> QED
    BY <2>4, <2>8, <2>9 DEF Rank
<1> HIDE DEF Taken
<1>3. Nat \subseteq Taken
  BY <1>1, <1>2, EveryNumber
<1> QED
  BY <1>3 DEF Taken

\* What the rows of a page have to do with the table: rows is a page of at most n rows of S.
PageOf(rows, n, S) ==
  /\ rows \in Seq(S)
  /\ Len(rows) <= n
  /\ \A i, j \in DOMAIN rows : i < j => rows[i] < rows[j]
  /\ \A z \in S : \/ \E i \in DOMAIN rows : rows[i] = z
                  \/ Len(rows) = n /\ \A i \in DOMAIN rows : rows[i] < z

\* The smallest n names are a page.
LEMMA SmallestIsPage ==
  ASSUME NEW S \in SUBSET Nat, IsFiniteSet(S), NEW n \in Nat
  PROVE  PageOf(Smallest(n, S), n, S)
<1> DEFINE size == IF n < Cardinality(S) THEN n ELSE Cardinality(S)
           row(i) == CHOOSE x \in S : Cardinality(Below(S, x)) = i - 1
           rows == [i \in 1..size |-> row(i)]
<1>1. Cardinality(S) \in Nat
  BY FS_CardinalityType
<1>2. size \in Nat /\ size <= n /\ size <= Cardinality(S) /\ (size = n \/ size = Cardinality(S))
  BY <1>1
<1> HIDE DEF size
<1>3. ASSUME NEW i \in 1..size
      PROVE  row(i) \in S /\ Rank(S, row(i)) = i - 1
  <2>1. i - 1 \in Nat /\ i - 1 < Cardinality(S)
    BY <1>1, <1>2
  <2>2. \E x \in S : Cardinality(Below(S, x)) = i - 1
    BY <2>1, RankExists DEF Rank
  <2> QED
    BY <2>2 DEF Rank
<1> HIDE DEF row
<1>4. rows \in Seq(S) /\ Len(rows) = size /\ DOMAIN rows = 1..size
      /\ \A i \in 1..size : rows[i] = row(i)
  BY <1>2, <1>3
<1> HIDE DEF rows
<1>5. ASSUME NEW i \in 1..size, NEW z \in S
      PROVE  /\ i - 1 < Rank(S, z) => rows[i] < z
             /\ i - 1 = Rank(S, z) => rows[i] = z
  <2>1. row(i) \in S /\ Rank(S, row(i)) = i - 1 /\ row(i) \in Nat /\ z \in Nat
    BY <1>3
  <2>2. z < row(i) => Rank(S, z) < i - 1
    BY <2>1, RankGrows
  <2>3. row(i) < z => i - 1 < Rank(S, z)
    BY <2>1, RankGrows
  <2>4. Rank(S, z) \in Nat /\ i - 1 \in Int
    BY RankType
  <2> QED
    BY <1>4, <2>1, <2>2, <2>3, <2>4
<1>6. \A i, j \in 1..size : i < j => rows[i] < rows[j]
  <2> SUFFICES ASSUME NEW i \in 1..size, NEW j \in 1..size, i < j
               PROVE  rows[i] < rows[j]
    OBVIOUS
  <2>1. row(j) \in S /\ Rank(S, row(j)) = j - 1 /\ rows[j] = row(j)
    BY <1>3, <1>4
  <2>2. i - 1 < Rank(S, row(j)) => rows[i] < row(j)
    BY <1>5, <2>1
  <2>3. i - 1 < j - 1
    BY <1>2
  <2> QED
    BY <2>1, <2>2, <2>3
<1>7. ASSUME NEW z \in S
      PROVE  \/ \E i \in 1..size : rows[i] = z
             \/ size = n /\ \A i \in 1..size : rows[i] < z
  <2>1. Rank(S, z) \in Nat /\ Rank(S, z) < Cardinality(S)
    BY RankType
  <2>2. CASE Rank(S, z) < size
    <3>1. Rank(S, z) + 1 \in 1..size /\ (Rank(S, z) + 1) - 1 = Rank(S, z)
      BY <1>2, <2>1, <2>2
    <3> QED
      BY <1>5, <3>1
  <2>3. CASE size <= Rank(S, z)
    <3>1. size = n
      BY <1>1, <1>2, <2>1, <2>3
    <3>2. \A i \in 1..size : i - 1 < Rank(S, z)
      BY <1>2, <2>1, <2>3
    <3> QED
      BY <1>5, <3>1, <3>2
  <2> QED
    BY <1>2, <2>1, <2>2, <2>3
<1>8. PageOf(rows, n, S)
  BY <1>2, <1>4, <1>6, <1>7 DEF PageOf
<1> QED
  BY <1>8 DEF Smallest, rows, row, size

--------------------------------------------------------------------------------
(* The inductive invariant. *)

InOrder(s) == \A i, j \in DOMAIN s : i < j => s[i] < s[j]

Elements(s) == {s[i] : i \in DOMAIN s}

\* A walk that is to go on, while inUse are the names in use: it has had every queue
\* up to its token that was there all along.
Asking(w, inUse) ==
  /\ InOrder(w.got)
  /\ Elements(w.got) \subseteq w.ever \intersect w.prefix
  /\ w.stayed \subseteq inUse
  /\ inUse \subseteq w.ever
  /\ \A z \in Elements(w.got) : z <= w.token
  /\ \A z \in w.stayed \intersect w.prefix : z <= w.token => z \in Elements(w.got)
  /\ w.max = Unlimited => w.got = <<>>

\* A walk that has ended.
Complete(w) ==
  /\ InOrder(w.got)
  /\ Elements(w.got) \subseteq w.ever \intersect w.prefix
  /\ \/ w.stayed \intersect w.prefix \subseteq Elements(w.got)
     \/ w.max = Unlimited /\ Len(w.got) = StoreLimit

WalkRight(w, inUse) ==
  /\ w \in Walk
  /\ IF w.done THEN Complete(w) ELSE Asking(w, inUse)

\* The names in use are finitely many, so that the rows of a page can be counted.
WalkInv ==
  /\ IsFiniteSet(Ids)
  /\ walk = NoWalk \/ WalkRight(walk, NamesInUse)

\* One page after the other is in order when the second starts beyond the first.
LEMMA PagesJoin ==
  ASSUME NEW s \in Seq(Nat), NEW t \in Seq(Nat), InOrder(s), InOrder(t),
         NEW k \in Nat, \A z \in Elements(s) : z <= k, \A z \in Elements(t) : z > k
  PROVE  InOrder(s \o t) /\ Elements(s \o t) = Elements(s) \union Elements(t)
<1> DEFINE st == s \o t
<1>1. /\ Len(s) \in Nat /\ Len(t) \in Nat /\ DOMAIN s = 1..Len(s) /\ DOMAIN t = 1..Len(t)
      /\ DOMAIN st = 1..(Len(s) + Len(t))
      /\ \A i \in 1..Len(s) : st[i] = s[i]
      /\ \A i \in 1..Len(t) : st[Len(s) + i] = t[i]
  OBVIOUS
<1>2. \A i \in DOMAIN st : i \in DOMAIN s \/ (i - Len(s) \in DOMAIN t /\ st[i] = t[i - Len(s)])
  <2> SUFFICES ASSUME NEW i \in DOMAIN st, i \notin DOMAIN s
               PROVE  i - Len(s) \in DOMAIN t /\ st[i] = t[i - Len(s)]
    OBVIOUS
  <2>1. i - Len(s) \in 1..Len(t) /\ Len(s) + (i - Len(s)) = i
    BY <1>1
  <2> QED
    BY <1>1, <2>1
<1>3. /\ \A i \in DOMAIN s : s[i] \in Nat /\ s[i] \in Elements(s)
      /\ \A i \in DOMAIN t : t[i] \in Nat /\ t[i] \in Elements(t)
  BY DEF Elements
<1> HIDE DEF st
<1>4. InOrder(st)
  <2> SUFFICES ASSUME NEW i \in DOMAIN st, NEW j \in DOMAIN st, i < j
               PROVE  st[i] < st[j]
    BY DEF InOrder
  <2>1. CASE i \in DOMAIN s /\ j \in DOMAIN s
    BY <1>1, <2>1 DEF InOrder
  <2>2. CASE i \in DOMAIN s /\ j \notin DOMAIN s
    BY <1>1, <1>2, <1>3, <2>2
  <2>3. CASE i \notin DOMAIN s
    <3>1. j \notin DOMAIN s /\ i - Len(s) < j - Len(s)
      BY <1>1, <2>3
    <3> QED
      BY <1>2, <2>3, <3>1 DEF InOrder
  <2> QED
    BY <2>1, <2>2, <2>3
<1>5. Elements(st) \subseteq Elements(s) \union Elements(t)
  BY <1>1, <1>2 DEF Elements
<1>6. Elements(s) \subseteq Elements(st)
  BY <1>1 DEF Elements
<1>7. Elements(t) \subseteq Elements(st)
  <2> SUFFICES ASSUME NEW i \in DOMAIN t
               PROVE  t[i] \in Elements(st)
    BY DEF Elements
  <2>1. Len(s) + i \in DOMAIN st /\ st[Len(s) + i] = t[i]
    BY <1>1
  <2> QED
    BY <2>1 DEF Elements
<1> QED
  BY <1>4, <1>5, <1>6, <1>7 DEF st

\* What an answer says of the rows S beyond the token: with no next token they are all
\* there, or cut at the store's limit; with one they are there up to it.
AnswerRight(ans, next, max, S) ==
  /\ ans \in Seq(S) /\ InOrder(ans)
  /\ next = NoToken => \/ S \subseteq Elements(ans)
                       \/ max = Unlimited /\ Len(ans) = StoreLimit
  /\ next # NoToken => /\ max # Unlimited
                       /\ next \in S
                       /\ \A z \in Elements(ans) : z <= next
                       /\ \A z \in S : z <= next => z \in Elements(ans)

\* Every page is answered that way.
LEMMA AnswerOfPage ==
  ASSUME NEW S \in SUBSET (Nat \ {0}), NEW max \in Nat, NEW rows,
         PageOf(rows, StoreMaxResults(max), S)
  PROVE  AnswerRight(Answered(rows, max), NextToken(rows, max), max, S)
<1> USE ListingAssumption
<1>1. /\ rows \in Seq(S) /\ Len(rows) \in Nat /\ DOMAIN rows = 1..Len(rows)
      /\ \A i \in 1..Len(rows) : rows[i] \in S /\ rows[i] \in Nat /\ rows[i] # 0
      /\ InOrder(rows)
  <2>1. rows \in Seq(S)
    BY DEF PageOf
  <2>2. Len(rows) \in Nat /\ DOMAIN rows = 1..Len(rows) /\ \A i \in 1..Len(rows) : rows[i] \in S
    BY <2>1
  <2> QED
    BY <2>1, <2>2 DEF PageOf, InOrder
<1>2. CASE max # Unlimited /\ Len(rows) > max
  <2> DEFINE ans == SubSeq(rows, 1, max)
  <2>1. Answered(rows, max) = ans /\ NextToken(rows, max) = rows[max]
    BY <1>2 DEF Answered, NextToken
  <2>2. max \in 1..Len(rows) /\ max >= 1
    BY <1>1, <1>2 DEF Unlimited
  <2>3. /\ ans \in Seq(S) /\ Len(ans) = max /\ DOMAIN ans = 1..max
        /\ \A i \in 1..max : ans[i] = rows[i] /\ i \in 1..Len(rows)
    BY <1>1, <2>2
  <2> HIDE DEF ans
  <2>4. InOrder(ans)
    BY <1>1, <2>3 DEF InOrder
  <2>5. rows[max] \in S /\ rows[max] # NoToken /\ rows[max] \in Nat
    BY <1>1, <2>2 DEF NoToken
  <2>6. \A z \in Elements(ans) : z <= rows[max]
    <3> SUFFICES ASSUME NEW i \in 1..max
                 PROVE  rows[i] <= rows[max]
      BY <2>3 DEF Elements
    <3>1. i < max => rows[i] < rows[max]
      BY <1>1, <2>2, <2>3 DEF InOrder
    <3>2. i \in Int /\ rows[i] \in Nat
      BY <1>1, <2>3
    <3> QED
      BY <2>5, <3>1, <3>2
  <2>7. \A z \in S : z <= rows[max] => z \in Elements(ans)
    <3> SUFFICES ASSUME NEW z \in S, z <= rows[max]
                 PROVE  z \in Elements(ans)
      OBVIOUS
    <3>1. z \in Nat
      OBVIOUS
    <3>2. ~(rows[max] < z)
      BY <2>5, <3>1
    <3>3. PICK i \in 1..Len(rows) : rows[i] = z
      BY <1>1, <2>2, <3>2 DEF PageOf
    <3>4. max < i => rows[max] < rows[i]
      <4>1. InOrder(rows) /\ max \in DOMAIN rows /\ i \in DOMAIN rows
        BY <1>1, <2>2
      <4> QED
        BY ONLY <4>1 DEF InOrder
    <3>5. i \in 1..max
      BY <3>2, <3>3, <3>4
    <3> QED
      BY <2>3, <3>3, <3>5 DEF Elements
  <2> QED
    BY <1>2, <2>1, <2>3, <2>4, <2>5, <2>6, <2>7 DEF AnswerRight
<1>3. CASE ~(max # Unlimited /\ Len(rows) > max)
  <2>1. Answered(rows, max) = rows /\ NextToken(rows, max) = NoToken
    BY <1>3 DEF Answered, NextToken
  <2>2. \/ S \subseteq Elements(rows)
        \/ Len(rows) = StoreMaxResults(max)
    BY DEF PageOf, Elements
  <2>3. Len(rows) = StoreMaxResults(max) => max = Unlimited /\ Len(rows) = StoreLimit
    BY <1>1, <1>3 DEF StoreMaxResults
  <2> QED
    BY <1>1, <2>1, <2>2, <2>3, Zenon DEF AnswerRight
<1> QED
  BY <1>2, <1>3

--------------------------------------------------------------------------------
(* The steps of a walk. *)

\* What a call makes of the walk.
Called(w, got, token, done) == [w EXCEPT !.got = got, !.token = token, !.done = done]

\* A walk after a call.
LEMMA WalkCalled ==
  ASSUME NEW w \in Walk, NEW got \in Seq(Names), NEW token \in Names \union {NoToken},
         NEW done \in BOOLEAN,
         NEW w1, w1 = Called(w, got, token, done)
  PROVE  /\ w1 \in Walk
         /\ w1.got = got /\ w1.token = token /\ w1.done = done
         /\ w1.prefix = w.prefix /\ w1.max = w.max
         /\ w1.stayed = w.stayed /\ w1.ever = w.ever
<1> DEFINE a == [w EXCEPT !.got = got]
           b == [a EXCEPT !.token = token]
           c == [b EXCEPT !.done = done]
<1>1. /\ a \in Walk /\ a.got = got
      /\ a.prefix = w.prefix /\ a.max = w.max /\ a.stayed = w.stayed /\ a.ever = w.ever
  BY DEF Walk
<1> HIDE DEF a
<1>2. /\ b \in Walk /\ b.got = got /\ b.token = token
      /\ b.prefix = w.prefix /\ b.max = w.max /\ b.stayed = w.stayed /\ b.ever = w.ever
  BY <1>1 DEF Walk
<1> HIDE DEF b
<1>3. /\ c \in Walk /\ c.got = got /\ c.token = token /\ c.done = done
      /\ c.prefix = w.prefix /\ c.max = w.max /\ c.stayed = w.stayed /\ c.ever = w.ever
  BY <1>2 DEF Walk
<1>4. c = w1
  BY DEF a, b, Called
<1> HIDE DEF c
<1> QED
  BY <1>3, <1>4

\* A sequence of elements of S is one of elements of any larger set.
LEMMA SeqOfMore ==
  ASSUME NEW S, NEW T, S \subseteq T, NEW s \in Seq(S)
  PROVE  s \in Seq(T)
<1>1. Len(s) \in Nat /\ s = [i \in 1..Len(s) |-> s[i]] /\ \A i \in 1..Len(s) : s[i] \in T
  OBVIOUS
<1> QED
  BY <1>1

\* A call keeps what a walk has, and adds what the page has.
LEMMA PageRight ==
  ASSUME NEW inUse \in SUBSET Names, NEW w \in Walk, Asking(w, inUse), NEW rows,
         PageOf(rows, StoreMaxResults(w.max), {z \in inUse \intersect w.prefix : z > w.token})
  PROVE  WalkRight([w EXCEPT !.got = @ \o Answered(rows, w.max), !.token = NextToken(rows, w.max),
                             !.done = (NextToken(rows, w.max) = NoToken)], inUse)
<1> USE ListingAssumption
<1> DEFINE S == {z \in inUse \intersect w.prefix : z > w.token}
<1>1. /\ w.got \in Seq(Names) /\ w.token \in Names \union {NoToken} /\ w.max \in Nat
      /\ w.token \in Nat
  <2>1. w.got \in Seq(Names) /\ w.token \in Names \union {NoToken} /\ w.max \in Nat
    BY DEF Walk
  <2>2. \A z \in Names \union {NoToken} : z \in Nat
    BY DEF NoToken
  <2> QED
    BY <2>1, <2>2
<1>2. S \in SUBSET (Nat \ {0}) /\ S \subseteq Names /\ S \subseteq inUse \intersect w.prefix
      /\ \A z \in S : z > w.token
  OBVIOUS
<1>3. \A z \in inUse \intersect w.prefix : z <= w.token \/ z \in S
  BY <1>1
<1> HIDE DEF S
<1>4. PICK ans, next : ans = Answered(rows, w.max) /\ next = NextToken(rows, w.max)
  OBVIOUS
<1>0. PICK done \in BOOLEAN : done = (next = NoToken)
  OBVIOUS
<1>5. /\ ans \in Seq(S) /\ InOrder(ans)
      /\ next = NoToken => \/ S \subseteq Elements(ans)
                           \/ w.max = Unlimited /\ Len(ans) = StoreLimit
      /\ next # NoToken => /\ w.max # Unlimited
                           /\ next \in S
                           /\ \A z \in Elements(ans) : z <= next
                           /\ \A z \in S : z <= next => z \in Elements(ans)
  <2>1. PageOf(rows, StoreMaxResults(w.max), S)
    BY DEF S
  <2>2. S \in SUBSET (Nat \ {0}) /\ w.max \in Nat
    BY <1>1, <1>2
  <2>3. AnswerRight(ans, next, w.max, S)
    BY <1>4, <2>1, <2>2, AnswerOfPage
  <2> QED
    BY <2>3 DEF AnswerRight
<1>6. PICK got : got = w.got \o ans
  OBVIOUS
<1>7. /\ ans \in Seq(Names) /\ ans \in Seq(Nat) /\ w.got \in Seq(Nat)
      /\ Elements(ans) \subseteq S
  <2>1. S \subseteq Nat /\ Names \subseteq Nat
    BY <1>2
  <2>2. ans \in Seq(Names) /\ ans \in Seq(Nat) /\ w.got \in Seq(Nat)
    BY <1>1, <1>2, <1>5, <2>1, SeqOfMore
  <2>3. \A i \in DOMAIN ans : ans[i] \in S
    BY <1>5
  <2> QED
    BY <2>2, <2>3 DEF Elements
<1>8. InOrder(got) /\ Elements(got) = Elements(w.got) \union Elements(ans)
  <2>1. \A z \in Elements(ans) : z > w.token
    BY <1>2, <1>7
  <2> QED
    BY <1>1, <1>5, <1>6, <1>7, <2>1, PagesJoin DEF Asking
<1>9. got \in Seq(Names) /\ next \in Names \union {NoToken} /\ done \in BOOLEAN
  <2>1. got \in Seq(Names)
    BY <1>1, <1>6, <1>7
  <2>2. next \in Names \union {NoToken}
    BY <1>2, <1>5
  <2> QED
    BY <2>1, <2>2
<1>10. PICK w1 : w1 = Called(w, got, next, done)
  OBVIOUS
<1>11. /\ w1 \in Walk
       /\ w1.got = got /\ w1.token = next /\ w1.done = done
       /\ w1.prefix = w.prefix /\ w1.max = w.max
       /\ w1.stayed = w.stayed /\ w1.ever = w.ever
  BY <1>9, <1>10, WalkCalled
<1>12. /\ Elements(got) \subseteq w.ever \intersect w.prefix
       /\ w.stayed \intersect w.prefix \subseteq Elements(w.got) \union S
  BY <1>2, <1>3, <1>7, <1>8 DEF Asking
<1>13. CASE next = NoToken
  <2>1. done
    BY <1>0, <1>13
  <2>2. S \subseteq Elements(ans) => w.stayed \intersect w.prefix \subseteq Elements(got)
    BY <1>8, <1>12
  <2>3. w.max = Unlimited => got = ans
    <3>1. <<>> \o ans = ans
      BY <1>7
    <3> QED
      BY <1>6, <3>1 DEF Asking
  <2>4. Complete(w1)
    BY <1>5, <1>8, <1>11, <1>12, <1>13, <2>2, <2>3 DEF Complete
  <2> QED
    BY <1>0, <1>4, <1>6, <1>10, <1>11, <2>1, <2>4 DEF WalkRight, Called
<1>14. CASE next # NoToken
  <2>1. done = FALSE
    BY <1>0, <1>14
  <2>2. next > w.token /\ next \in Nat
    BY <1>2, <1>5, <1>14
  <2>3. \A z \in Elements(got) : z <= next
    <3>1. \A z \in Elements(w.got) : z \in Nat /\ z <= w.token
      BY <1>7 DEF Asking, Elements
    <3>2. \A z \in Elements(w.got) : z <= next
      BY <1>1, <2>2, <3>1
    <3> QED
      BY <1>5, <1>8, <1>14, <3>2
  <2>4. \A z \in w.stayed \intersect w.prefix : z <= next => z \in Elements(got)
    BY <1>5, <1>8, <1>12, <1>14
  <2>5. Asking(w1, inUse)
    BY <1>5, <1>8, <1>11, <1>12, <1>14, <2>3, <2>4 DEF Asking
  <2> QED
    BY <1>0, <1>4, <1>6, <1>10, <1>11, <2>1, <2>5 DEF WalkRight, Called
<1> QED
  BY <1>13, <1>14

\* The names in use are names, finitely many of them.
LEMMA NamesType ==
  ASSUME TypeOK, IsFiniteSet(Ids)
  PROVE  NamesInUse \in SUBSET Names /\ IsFiniteSet(NamesInUse)
<1>1. \A id \in Ids : queues[id].name \in Names
  BY DEF TypeOK, QueueRow
<1> DEFINE f == [id \in Ids |-> queues[id].name]
<1>2. f \in Surjection(Ids, NamesInUse)
  BY DEF NamesInUse, Surjection
<1>3. IsFiniteSet(NamesInUse)
  BY <1>2, FS_Surjection
<1> QED
  BY <1>1, <1>3 DEF NamesInUse

\* A call that starts from a walk that may go on.
LEMMA CallStep ==
  ASSUME TypeOK, IsFiniteSet(Ids), NEW w \in Walk, Asking(w, NamesInUse), CallListQueues(w)
  PROVE  WalkRight(walk', NamesInUse)
<1> USE ListingAssumption
<1> DEFINE S == {z \in NamesInUse \intersect w.prefix : z > w.token}
<1>1. NamesInUse \in SUBSET Names /\ IsFiniteSet(NamesInUse)
  BY NamesType
<1>2. S \in SUBSET Nat /\ S \subseteq NamesInUse
  BY <1>1
<1>3. StoreMaxResults(w.max) \in Nat
  BY DEF StoreMaxResults, Walk
<1> HIDE DEF S
<1>4. IsFiniteSet(S)
  BY <1>1, <1>2, FS_Subset
<1>5. PageOf(Smallest(StoreMaxResults(w.max), S), StoreMaxResults(w.max), S)
  BY <1>2, <1>3, <1>4, SmallestIsPage
<1>6. PICK rows : rows = list_queues(w.prefix, StoreMaxResults(w.max), w.token)
  OBVIOUS
<1>7. PageOf(rows, StoreMaxResults(w.max), {z \in NamesInUse \intersect w.prefix : z > w.token})
  BY <1>5, <1>6 DEF list_queues, S
<1>8. walk' = [w EXCEPT !.got = @ \o Answered(rows, w.max), !.token = NextToken(rows, w.max),
                        !.done = (NextToken(rows, w.max) = NoToken)]
  BY <1>6 DEF CallListQueues
<1> QED
  BY <1>1, <1>7, <1>8, PageRight

\* A step of the handlers while the client waits: what was created is now in ever, what
\* was deleted is no longer in stayed.
LEMMA WatchedRight ==
  ASSUME NEW w, NEW before \in SUBSET Names, NEW after \in SUBSET Names,
         WalkRight(w, before), ~w.done,
         NEW w1, w1 = [w EXCEPT !.stayed = @ \intersect after, !.ever = @ \union after]
  PROVE  WalkRight(w1, after)
<1> DEFINE a == [w EXCEPT !.stayed = w.stayed \intersect after]
           b == [a EXCEPT !.ever = w.ever \union after]
<1>1. w \in Walk /\ Asking(w, before) /\ w.done = FALSE
  BY DEF WalkRight, Walk
<1>2. /\ a \in Walk /\ a.got = w.got /\ a.token = w.token /\ a.done = w.done
      /\ a.prefix = w.prefix /\ a.max = w.max
      /\ a.stayed = w.stayed \intersect after /\ a.ever = w.ever
  BY <1>1 DEF Walk
<1>3. w.ever \union after \in SUBSET Names
  BY <1>1 DEF Walk
<1> HIDE DEF a
<1>4. /\ b \in Walk /\ b.got = w.got /\ b.token = w.token /\ b.done = w.done
      /\ b.prefix = w.prefix /\ b.max = w.max
      /\ b.stayed = w.stayed \intersect after /\ b.ever = w.ever \union after
  BY <1>2, <1>3 DEF Walk
<1>5. b = w1
  BY DEF a
<1> HIDE DEF b
<1>6. Asking(b, after)
  BY <1>1, <1>4 DEF Asking
<1> QED
  BY <1>1, <1>4, <1>5, <1>6 DEF WalkRight

\* The ids stay finitely many: queues are created one at a time.
LEMMA IdsStep ==
  ASSUME TypeOK, IsFiniteSet(Ids), [Next]_vars
  PROVE  IsFiniteSet(Ids')
<1>1. CASE UNCHANGED <<queues, created>>
  BY <1>1 DEF Ids
<1>2. CASE QueueCreated
  <2>1. PICK id : Ids' = Ids \union {id}
    BY <1>2 DEF QueueCreated, Ids
  <2> QED
    BY <2>1, FS_AddElement
<1>3. CASE QueueDeleted
  <2>1. Ids' \subseteq Ids
    BY <1>3 DEF QueueDeleted, delete_queue, Ids
  <2> QED
    BY <2>1, FS_Subset
<1>4. CASE QueueUpdated
  <2>1. Ids' = Ids
    BY <1>4 DEF QueueUpdated, set_queue_attributes, Ids
  <2> QED
    BY <2>1
<1> QED
  BY <1>1, <1>2, <1>3, <1>4, QueueStep

\* Every step keeps what is known of the walk.
LEMMA WalkInvStep == TypeOK /\ TypeOK' /\ WalkInv /\ [ListingNext]_lvars => WalkInv'
<1> SUFFICES ASSUME TypeOK, TypeOK', WalkInv, [ListingNext]_lvars
             PROVE  WalkInv'
  OBVIOUS
<1>0. [Next]_vars
  BY DEF ListingNext, lvars, ListQueues, ListMoreQueues, ForgetList
<1>1. IsFiniteSet(Ids) /\ IsFiniteSet(Ids')
  BY <1>0, IdsStep DEF WalkInv
<1>2. PICK before, after : before = NamesInUse /\ after = NamesInUse'
  OBVIOUS
<1>3. before \in SUBSET Names /\ after \in SUBSET Names
  <2>1. \A id \in Ids : queues[id].name \in Names
    BY DEF TypeOK, QueueRow
  <2>2. \A id \in Ids' : queues'[id].name \in Names
    BY DEF TypeOK, QueueRow
  <2> QED
    BY <1>2, <2>1, <2>2 DEF NamesInUse
<1> SUFFICES walk' = NoWalk \/ WalkRight(walk', after)
  BY <1>1, <1>2 DEF WalkInv
<1>4. walk = NoWalk \/ WalkRight(walk, before)
  BY <1>2 DEF WalkInv
<1>5. walk.on => WalkRight(walk, before)
  BY <1>4 DEF NoWalk
<1>6. CASE Next /\ walk' = Watched(walk)
  <2>1. CASE walk.on /\ ~walk.done
    <3>1. walk' = [walk EXCEPT !.stayed = @ \intersect after, !.ever = @ \union after]
      BY <1>2, <1>6, <2>1 DEF Watched
    <3> QED
      BY <1>3, <1>5, <2>1, <3>1, WatchedRight
  <2>2. CASE walk.on /\ walk.done
    <3>1. walk' = walk
      BY <1>6, <2>2 DEF Watched
    <3> QED
      BY <1>5, <2>2, <3>1 DEF WalkRight
  <2>3. CASE ~walk.on
    <3>1. walk = NoWalk
      BY <1>4, <2>3 DEF WalkRight, Walk
    <3> QED
      BY <1>6, <2>3, <3>1 DEF Watched
  <2> QED
    BY <2>1, <2>2, <2>3
<1>7. CASE ListQueues
  <2>1. PICK prefix \in PrefixSets, max \in PageSizes \union {Unlimited} :
          CallListQueues([on |-> TRUE, prefix |-> prefix, max |-> max, token |-> NoToken,
                          done |-> FALSE, got |-> <<>>, stayed |-> NamesInUse,
                          ever |-> NamesInUse])
    BY <1>7 DEF ListQueues
  <2>2. PICK w : w = [on |-> TRUE, prefix |-> prefix, max |-> max, token |-> NoToken,
                      done |-> FALSE, got |-> <<>>, stayed |-> before, ever |-> before]
    OBVIOUS
  <2>3. CallListQueues(w)
    BY <1>2, <2>1, <2>2
  <2>4. w \in Walk
    <3>1. max \in Nat
      BY ListingAssumption DEF PageSizes, Unlimited
    <3> QED
      BY <1>3, <2>2, <3>1, ListingAssumption DEF Walk
  <2>5. /\ w.got = <<>> /\ w.token = NoToken /\ w.stayed = before /\ w.ever = before
        /\ w.prefix \in SUBSET Names
    BY <2>2, ListingAssumption
  <2>6. Asking(w, before)
    <3>1. Elements(w.got) = {} /\ InOrder(w.got)
      BY <2>5 DEF Elements, InOrder
    <3>2. \A z \in before : ~(z <= NoToken)
      <4>1. \A z \in before : z \in Nat /\ z # 0
        BY <1>3, ListingAssumption
      <4> QED
        BY <4>1 DEF NoToken
    <3> QED
      BY <2>5, <3>1, <3>2 DEF Asking
  <2>7. WalkRight(walk', NamesInUse)
    BY <1>1, <1>2, <2>3, <2>4, <2>6, CallStep
  <2>8. after = before
    BY <1>2, <1>7 DEF ListQueues, vars, NamesInUse, Ids
  <2> QED
    BY <1>2, <2>7, <2>8
<1>8. CASE ListMoreQueues
  <2>1. PICK max \in PageSizes : CallListQueues([walk EXCEPT !.max = max])
    BY <1>8 DEF ListMoreQueues
  <2>2. PICK w : w = [walk EXCEPT !.max = max]
    OBVIOUS
  <2>3. walk \in Walk /\ Asking(walk, before)
    BY <1>5, <1>8 DEF ListMoreQueues, WalkRight
  <2>4. max \in Nat /\ max # Unlimited
    BY ListingAssumption DEF PageSizes, Unlimited
  <2>5. /\ w \in Walk /\ w.max = max /\ w.got = walk.got /\ w.token = walk.token
        /\ w.prefix = walk.prefix /\ w.stayed = walk.stayed /\ w.ever = walk.ever
    BY <2>2, <2>3, <2>4 DEF Walk
  <2>6. Asking(w, before)
    BY <2>3, <2>4, <2>5 DEF Asking
  <2>7. WalkRight(walk', NamesInUse)
    BY <1>1, <1>2, <2>1, <2>2, <2>5, <2>6, CallStep
  <2>8. after = before
    BY <1>2, <1>8 DEF ListMoreQueues, vars, NamesInUse, Ids
  <2> QED
    BY <1>2, <2>7, <2>8
<1>9. CASE ForgetList
  BY <1>9 DEF ForgetList
<1>10. CASE UNCHANGED lvars
  <2>1. after = before /\ walk' = walk
    BY <1>2, <1>10 DEF lvars, vars, NamesInUse, Ids
  <2> QED
    BY <1>4, <2>1
<1> QED
  BY <1>6, <1>7, <1>8, <1>9, <1>10 DEF ListingNext

\* Following the tokens of ListQueues to the last page, whatever MaxResults each call
\* names, finds every queue that was there all along, once and in order, although queues come and go between the SELECTs: the
\* token is a name, and the next page starts beyond it whether its queue is there or not.
THEOREM WalksComplete == ListingSpec => []WalkComplete
<1>1. ListingInit => IInv /\ WalkInv
  <2>1. ListingInit => WalkInv
    <3> SUFFICES ASSUME ListingInit PROVE WalkInv
      OBVIOUS
    <3>1. Ids = {} /\ walk = NoWalk
      BY DEF ListingInit, Init, Ids
    <3> QED
      BY <3>1, FS_EmptySet DEF WalkInv
  <2> QED
    BY <2>1, InvariantInit DEF ListingInit
<1>2. IInv /\ WalkInv /\ [ListingNext]_lvars => (IInv /\ WalkInv)'
  <2>1. [ListingNext]_lvars => [Next]_vars
    BY DEF ListingNext, lvars, ListQueues, ListMoreQueues, ForgetList
  <2>2. IInv => TypeOK
    BY DEF IInv
  <2>3. IInv /\ [ListingNext]_lvars => IInv'
    BY <2>1, InvariantStep
  <2>4. IInv /\ [ListingNext]_lvars => TypeOK'
    BY <2>3 DEF IInv
  <2> QED
    BY <2>2, <2>3, <2>4, WalkInvStep
<1>3. WalkInv => WalkComplete
  <2> SUFFICES ASSUME WalkInv, walk.on, walk.done
               PROVE  WalkComplete
    BY DEF WalkComplete
  <2>1. Complete(walk)
    BY DEF WalkInv, NoWalk, WalkRight
  <2> QED
    BY <2>1 DEF Complete, WalkComplete, InOrder, Elements
<1> QED
  BY <1>1, <1>2, <1>3, PTL DEF ListingSpec
================================================================================
