------------------------------ MODULE SqsQueues ------------------------------
(***************************************************************************)
(* The life of SQS queues: sqs_queues with the tables that refer to it,    *)
(* sqs_messages and sqs_queue_tags, and the handlers that create, delete,  *)
(* purge, configure, tag and fill queues.                                  *)
(*                                                                         *)
(* Almost every handler loads its queue by URL, keeps the row's id, and    *)
(* runs later statements by that id.  Between two statements other         *)
(* handlers run: the queue may be deleted, and since sqs_queues.id is an   *)
(* INTEGER PRIMARY KEY without AUTOINCREMENT the id may by then belong to  *)
(* a queue created since.  The field "born" tells the queues that have     *)
(* shared an id or a name apart; the code has no such column.              *)
(*                                                                         *)
(* Abstractions.  A name stands for (name, region, account).  Attributes   *)
(* are a few columns with a few values, tags are their keys, messages have *)
(* no contents.  A console user has one page on the screen, the page of a  *)
(* queue or none, and its forms act on the id in the page's address.       *)
(***************************************************************************)
EXTENDS Naturals, FiniteSets

CONSTANTS
  Handlers,      \* request handlers running at once
  Names,         \* queue names
  Columns,       \* attribute columns of sqs_queues
  Values,        \* their values
  TagKeys,       \* tag keys
  MaxTags,       \* MAX_TAGS_PER_QUEUE, 50 in the code
  MaxBatch,      \* bound: entries of a SendMessageBatch, 10 in the code
  MaxCreated,    \* bound: queues ever created
  Operations     \* the operations clients call in this instance

ASSUME LimitsAssumption ==
  /\ MaxTags \in Nat \ {0}
  /\ MaxBatch \in Nat \ {0}
  /\ MaxCreated \in Nat
  /\ IsFiniteSet(Handlers)
  /\ IsFiniteSet(TagKeys)       \* a key has at most 128 characters
  /\ Columns = {} \/ Values # {}

VARIABLES
  queues,    \* sqs_queues: a function from the ids in use to rows
  msgs,      \* sqs_messages: a function from stored messages to rows
  tags,      \* sqs_queue_tags: a set of <<queue id, key>>
  created,   \* how many queues were created so far
  pc,        \* pc[h] : the statement handler h runs next
  loc,       \* loc[h] : the local variables of handler h
  page       \* the queue page a console user has open

vars == <<queues, msgs, tags, created, pc, loc, page>>

--------------------------------------------------------------------------------
Configs == [Columns -> Values]

QueueRow == [name : Names, config : Configs, born : Nat]

\* The k-th message of a handler's batch; sentTo is history: the queue the sender loaded.
Messages == Handlers \X (1..MaxBatch)
MessageRow == [queue_id : Nat, sentTo : Nat]

Ids == DOMAIN queues
Live == {queues[id].born : id \in Ids}

\* SetQueueAttributes names some columns and leaves the others alone.
Updates == UNION {[C -> Values] : C \in SUBSET Columns}
NoUpdate == [c \in {} |-> c]

Statements == {"idle", "delete_queue", "purge_queue", "set_attributes", "send_message",
               "ensure_list", "select_tags", "ensure_tag", "insert_tag",
               "ensure_untag", "delete_tag", "reload", "conflict",
               "console_list", "console_select", "console_reload"}

ByNameStatements == {"reload", "conflict", "console_reload"}

NoLocals == [idle |-> TRUE]
ByName == [name : Names, keys : SUBSET TagKeys]
\* The loaded queue (id, born, and its configuration as it was then), the tag keys,
\* the columns to set, and the batch entries still to send.
ById == [id : Nat, born : Nat, seen : Configs \union {NoUpdate}, keys : SUBSET TagKeys, update : Updates,
         left : 0..MaxBatch]

\* The id in the page's address; shown is history: the queue whose row it shows.  Its
\* counts, messages and tags are read by the same id in statements of their own.
NoPage == [open |-> FALSE]
Page == [open : {TRUE}, id : Nat, shown : Nat]

TypeOK ==
  /\ page \in {NoPage} \union Page
  /\ queues \in [Ids -> QueueRow]
  /\ Ids \subseteq Nat \ {0}
  /\ DOMAIN msgs \subseteq Messages
  /\ msgs \in [DOMAIN msgs -> MessageRow]
  /\ tags \subseteq Nat \X TagKeys
  /\ created \in Nat
  /\ pc \in [Handlers -> Statements]
  /\ DOMAIN loc = Handlers
  /\ \A h \in Handlers :
       /\ pc[h] \in ByNameStatements => loc[h] \in ByName
       /\ pc[h] \notin {"idle"} \union ByNameStatements => loc[h] \in ById

--------------------------------------------------------------------------------
(* The store. *)

\* The id SQLite gives a new row: one more than the largest in use.
NewId(id) ==
  /\ \A i \in Ids : i < id
  /\ id = 1 \/ id - 1 \in Ids

\* SELECT ... WHERE name = ? AND region = ? AND account_id = ?
get_queue(name) == {id \in Ids : queues[id].name = name}

\* UNIQUE(name, region, account_id) makes the INSERT fail.
NameTaken(name) == get_queue(name) # {}

\* INSERT; the caller has made sure that UNIQUE(name, region, account_id) holds.
create_queue(id, name, config) ==
  /\ NewId(id)
  /\ queues' = [i \in Ids \union {id} |->
                  IF i = id
                    THEN [name |-> name, config |-> config, born |-> created + 1]
                    ELSE queues[i]]
  /\ created' = created + 1

TagsOf(id) == {t \in tags : t[1] = id}
MessagesOf(id) == {m \in DOMAIN msgs : msgs[m].queue_id = id}

\* DELETE ... WHERE id = ?, which cascades to messages and tags.
delete_queue(id) ==
  /\ queues' = [i \in Ids \ {id} |-> queues[i]]
  /\ msgs' = [m \in DOMAIN msgs \ MessagesOf(id) |-> msgs[m]]
  /\ tags' = tags \ TagsOf(id)

purge_queue(id) ==
  msgs' = [m \in DOMAIN msgs \ MessagesOf(id) |-> msgs[m]]

send_message(m, id, born) ==
  msgs' = [x \in DOMAIN msgs \union {m} |->
             IF x = m THEN [queue_id |-> id, sentTo |-> born] ELSE msgs[x]]

\* UPDATE ... SET column = COALESCE(?, column), ...
Overlay(old, update) ==
  [c \in Columns |-> IF c \in DOMAIN update THEN update[c] ELSE old[c]]

\* Mutant: INSERT OR REPLACE, which gives the row a new id.
ReplaceQueue(id, update) ==
  \E new \in {i + 1 : i \in Ids} :
    /\ NewId(new)
    /\ queues' = [i \in (Ids \ {id}) \union {new} |->
                    IF i = new THEN queues[id] ELSE queues[i]]

set_queue_attributes(id, update) ==
  queues' = [queues EXCEPT ![id].config = Overlay(@, update)]
--------------------------------------------------------------------------------
(* The handlers.  An early answer (QueueNotFound when the URL names no queue, a  *)
(* validation error) changes nothing and is a guard here.                        *)

Goto(h, statement, locals) ==
  /\ pc' = [pc EXCEPT ![h] = statement]
  /\ loc' = [loc EXCEPT ![h] = locals]

Finish(h) == Goto(h, "idle", NoLocals)

\* The locals of a handler that loaded queue id, meaning the queue born.  What it keeps
\* of the row's attributes could matter to SetQueueAttributes only.
Loaded(id, born, statement, keys, update, left) ==
  [id |-> id, born |-> born,
   seen |-> IF statement = "set_attributes" THEN queues[id].config ELSE NoUpdate,
   keys |-> keys, update |-> update, left |-> left]

\* load_queue_from_url, then on to the first statement by id.
Load(h, statement, keys, update, left) ==
  /\ pc[h] = "idle"
  /\ \E name \in Names : \E id \in get_queue(name) :
       Goto(h, statement, Loaded(id, queues[id].born, statement, keys, update, left))
  /\ UNCHANGED <<queues, msgs, tags, created>>

\* CreateQueue inserts first: a new queue, or a conflict with the one of that name.
CreateQueue(h) ==
  /\ "create" \in Operations
  /\ pc[h] = "idle"
  /\ \E name \in Names, config \in Configs, keys \in SUBSET TagKeys :
       /\ Cardinality(keys) <= MaxTags
       /\ \/ /\ ~NameTaken(name)
             /\ created < MaxCreated
             /\ \E id \in {1} \union {i + 1 : i \in Ids} : create_queue(id, name, config)
             /\ IF keys = {}
                  THEN UNCHANGED <<pc, loc>>
                  ELSE Goto(h, "reload", [name |-> name, keys |-> keys])
          \/ /\ NameTaken(name)
             /\ Goto(h, "conflict", [name |-> name, keys |-> keys])
             /\ UNCHANGED <<queues, created>>
  /\ UNCHANGED <<msgs, tags>>

\* The created queue is loaded by name to get its id for tagging.
ReloadCreated(h) ==
  /\ pc[h] = "reload"
  /\ \/ \E id \in get_queue(loc[h].name) :
          Goto(h, "ensure_tag",
               Loaded(id, queues[id].born, "ensure_tag", loc[h].keys, NoUpdate, 0))
     \/ /\ get_queue(loc[h].name) = {}          \* InternalError
        /\ Finish(h)
  /\ UNCHANGED <<queues, msgs, tags, created>>

\* After a conflict the queue of that name, by now another or none, is read and compared
\* with the request.  Whatever comes of it, nothing changes; what is answered is
\* AnswerToConflict of QueueAttributes.
CompareExisting(h) ==
  /\ pc[h] = "conflict"
  /\ Finish(h)
  /\ UNCHANGED <<queues, msgs, tags, created>>

DeleteQueue(h) ==
  "delete" \in Operations /\ Load(h, "delete_queue", {}, NoUpdate, 0)

PurgeQueue(h) ==
  "purge" \in Operations /\ Load(h, "purge_queue", {}, NoUpdate, 0)

SetQueueAttributes(h) ==
  /\ "set" \in Operations
  /\ \E update \in Updates : Load(h, "set_attributes", {}, update, 0)

\* SendMessage is a batch of one.  Bound: a handler's earlier messages are gone.
SendMessageBatch(h) ==
  /\ "send" \in Operations
  /\ \A k \in 1..MaxBatch : <<h, k>> \notin DOMAIN msgs
  /\ \E n \in 1..MaxBatch : Load(h, "send_message", {}, NoUpdate, n)

TagQueue(h) ==
  /\ "tag" \in Operations
  /\ \E keys \in SUBSET TagKeys \ {{}} :
       /\ Cardinality(keys) <= MaxTags
       /\ Load(h, "ensure_list", keys, NoUpdate, 0)

UntagQueue(h) ==
  /\ "untag" \in Operations
  /\ \E keys \in SUBSET TagKeys \ {{}} :
       /\ Cardinality(keys) <= MaxTags
       /\ Load(h, "ensure_untag", keys, NoUpdate, 0)

--------------------------------------------------------------------------------
(* The statements by id. *)

Found(h) == loc[h].id \in Ids

DeleteQueueById(h) ==
  /\ pc[h] = "delete_queue"
  /\ \/ Found(h) /\ delete_queue(loc[h].id)
     \/ ~Found(h) /\ UNCHANGED <<queues, msgs, tags>>
  /\ Finish(h)
  /\ UNCHANGED created

PurgeById(h) ==
  /\ pc[h] = "purge_queue"
  /\ purge_queue(loc[h].id)
  /\ Finish(h)
  /\ UNCHANGED <<queues, tags, created>>

\* Mutant: the whole row is written back as it was loaded.
WriteBackLoaded(h) ==
  /\ pc[h] = "set_attributes"
  /\ \/ /\ Found(h)
        /\ queues' = [queues EXCEPT ![loc[h].id] =
                        [@ EXCEPT !.config = Overlay(loc[h].seen, loc[h].update)]]
     \/ ~Found(h) /\ UNCHANGED queues
  /\ Finish(h)
  /\ UNCHANGED <<msgs, tags, created>>

UpdateById(h) ==
  /\ pc[h] = "set_attributes"
  /\ \/ Found(h) /\ set_queue_attributes(loc[h].id, loc[h].update)
     \/ ~Found(h) /\ UNCHANGED queues
  /\ Finish(h)
  /\ UNCHANGED <<msgs, tags, created>>

\* One entry of the batch.  Without its queue the foreign key makes the INSERT fail,
\* and a database that stays busy may too: the entry is reported failed, and the next
\* one is tried.
InsertMessage(h) ==
  /\ pc[h] = "send_message"
  /\ \/ Found(h) /\ send_message(<<h, loc[h].left>>, loc[h].id, loc[h].born)
     \/ UNCHANGED msgs
  /\ IF loc[h].left = 1
       THEN Finish(h)
       ELSE Goto(h, "send_message", [loc[h] EXCEPT !.left = @ - 1])
  /\ UNCHANGED <<queues, tags, created>>

\* ensure_queue_exists, which list_queue_tags, tag_queue and untag_queue start with.
EnsureQueueExists(h) ==
  /\ pc[h] \in {"ensure_list", "console_list", "ensure_tag", "ensure_untag"}
  /\ \/ ~Found(h) /\ Finish(h)
     \/ /\ Found(h)
        /\ pc' = [pc EXCEPT ![h] = CASE pc[h] = "ensure_list" -> "select_tags"
                                     [] pc[h] = "console_list" -> "console_select"
                                     [] pc[h] = "ensure_tag" -> "insert_tag"
                                     [] pc[h] = "ensure_untag" -> "delete_tag"]
        /\ UNCHANGED loc
  /\ UNCHANGED <<queues, msgs, tags, created>>

\* Mutant: the stored tags are forgotten.
OnlyNewTags(h) == loc[h].keys

\* The stored tags merged with the new ones.
MergedTags(h) == {t[2] : t \in TagsOf(loc[h].id)} \union loc[h].keys

\* TagQueue: the merged tags must be within the limit.
SelectTags(h) ==
  /\ pc[h] = "select_tags"
  /\ \/ Cardinality(MergedTags(h)) <= MaxTags /\ Goto(h, "ensure_tag", loc[h])
     \/ Cardinality(MergedTags(h)) > MaxTags /\ Finish(h)
  /\ UNCHANGED <<queues, msgs, tags, created>>

NextKey(h, statement, key) ==
  IF loc[h].keys = {key}
    THEN Finish(h)
    ELSE Goto(h, statement, [loc[h] EXCEPT !.keys = @ \ {key}])

\* INSERT ... ON CONFLICT DO UPDATE of one tag, in whatever order the map yields;
\* without the queue the foreign key fails and the remaining tags are not written.
InsertTag(h) ==
  /\ pc[h] = "insert_tag"
  /\ \/ /\ Found(h)
        /\ \E key \in loc[h].keys :
             /\ tags' = tags \union {<<loc[h].id, key>>}
             /\ NextKey(h, "insert_tag", key)
     \/ /\ ~Found(h)
        /\ Finish(h)
        /\ UNCHANGED tags
  /\ UNCHANGED <<queues, msgs, created>>

DeleteTag(h) ==
  /\ pc[h] = "delete_tag"
  /\ \E key \in loc[h].keys :
       /\ tags' = tags \ {<<loc[h].id, key>>}
       /\ NextKey(h, "delete_tag", key)
  /\ UNCHANGED <<queues, msgs, created>>

\* A statement that the database refuses (it stays busy) ends the request: what the
\* earlier statements wrote stays written.
Busy(h) ==
  /\ pc[h] \notin {"idle", "send_message"}
  /\ Finish(h)
  /\ UNCHANGED <<queues, msgs, tags, created>>

--------------------------------------------------------------------------------
(* The console. *)

\* queue_detail loads the row by the id in its address.
OpenQueuePage ==
  /\ "page" \in Operations
  /\ page = NoPage
  /\ \E id \in Ids :
       page' = [open |-> TRUE, id |-> id, shown |-> queues[id].born]
  /\ UNCHANGED <<queues, msgs, tags, created, pc, loc>>

LeavePage ==
  /\ page.open
  /\ page' = NoPage
  /\ UNCHANGED <<queues, msgs, tags, created, pc, loc>>

\* A form of the page: load_queue_by_id, then a statement by id.  born is the queue the
\* user means, the one on the screen.
LoadById(h, statement, keys, left) ==
  /\ page.open
  /\ pc[h] = "idle"
  /\ page.id \in Ids
  /\ Goto(h, statement, Loaded(page.id, page.shown, statement, keys, NoUpdate, left))
  /\ UNCHANGED <<queues, msgs, tags, created, page>>

ConsoleDeleteQueue(h) == "delete" \in Operations /\ LoadById(h, "delete_queue", {}, 0)

ConsolePurgeQueue(h) == "purge" \in Operations /\ LoadById(h, "purge_queue", {}, 0)

ConsoleSendMessage(h) ==
  /\ "send" \in Operations
  /\ \A k \in 1..MaxBatch : <<h, k>> \notin DOMAIN msgs
  /\ LoadById(h, "send_message", {}, 1)

ConsoleTagQueue(h) ==
  "tag" \in Operations /\ \E key \in TagKeys : LoadById(h, "console_list", {key}, 0)

ConsoleUntagQueue(h) ==
  "untag" \in Operations /\ \E key \in TagKeys : LoadById(h, "ensure_untag", {key}, 0)

\* The console sets one tag: one that is there already, or one more below the limit.
ConsoleSelectTags(h) ==
  /\ pc[h] = "console_select"
  /\ LET stored == {t[2] : t \in TagsOf(loc[h].id)}
         fits == loc[h].keys \subseteq stored \/ Cardinality(stored) < MaxTags
     IN  \/ fits /\ Goto(h, "ensure_tag", loc[h])
         \/ ~fits /\ Finish(h)
  /\ UNCHANGED <<queues, msgs, tags, created>>

\* The console creates a queue with the default attributes, or reports the conflict ...
ConsoleCreateQueue(h) ==
  /\ "create" \in Operations /\ "page" \in Operations
  /\ pc[h] = "idle"
  /\ created < MaxCreated
  /\ \E name \in Names, config \in {[c \in Columns |-> CHOOSE v \in Values : TRUE]} :
       /\ ~NameTaken(name)
       /\ \E id \in {1} \union {i + 1 : i \in Ids} : create_queue(id, name, config)
       /\ Goto(h, "console_reload", [name |-> name, keys |-> {}])
  /\ UNCHANGED <<msgs, tags, page>>

\* ... and leads to the page of the queue that has the name by then.
ConsoleReload(h) ==
  /\ pc[h] = "console_reload"
  /\ \/ \E id \in get_queue(loc[h].name) :
          page' = [open |-> TRUE, id |-> id, shown |-> queues[id].born]
     \/ get_queue(loc[h].name) = {} /\ UNCHANGED page
  /\ Finish(h)
  /\ UNCHANGED <<queues, msgs, tags, created>>

--------------------------------------------------------------------------------
Init ==
  /\ queues = [i \in {} |-> NoLocals]
  /\ msgs = [m \in {} |-> NoLocals]
  /\ tags = {}
  /\ created = 0
  /\ pc = [h \in Handlers |-> "idle"]
  /\ loc = [h \in Handlers |-> NoLocals]
  /\ page = NoPage

Request(h) ==
  \/ CreateQueue(h) \/ DeleteQueue(h) \/ PurgeQueue(h) \/ SetQueueAttributes(h)
  \/ SendMessageBatch(h) \/ TagQueue(h) \/ UntagQueue(h)

Statement(h) ==
  \/ ReloadCreated(h) \/ CompareExisting(h) \/ DeleteQueueById(h) \/ PurgeById(h)
  \/ UpdateById(h) \/ InsertMessage(h) \/ EnsureQueueExists(h) \/ SelectTags(h)
  \/ InsertTag(h) \/ DeleteTag(h) \/ ConsoleSelectTags(h)

Console(h) ==
  \/ ConsoleDeleteQueue(h) \/ ConsolePurgeQueue(h) \/ ConsoleSendMessage(h)
  \/ ConsoleTagQueue(h) \/ ConsoleUntagQueue(h) \/ ConsoleCreateQueue(h)

\* The process stops and starts again: the handlers are gone, the tables stay.
Restart ==
  /\ pc' = [h \in Handlers |-> "idle"]
  /\ loc' = [h \in Handlers |-> NoLocals]
  /\ UNCHANGED <<queues, msgs, tags, created>>

Next ==
  \/ (Restart \/ \E h \in Handlers : Request(h) \/ Statement(h) \/ Busy(h)) /\ UNCHANGED page
  \/ OpenQueuePage \/ LeavePage
  \/ \E h \in Handlers : Console(h) \/ ConsoleReload(h)

Spec == Init /\ [][Next]_vars

--------------------------------------------------------------------------------
(* Properties. *)

\* A message is in the queue its sender loaded, or had on the screen, unless that queue
\* has been deleted: reuse of an id is the only way a message can end up elsewhere.  No
\* message or tag is left without a queue, whichever statement a request, a failure or a
\* deletion stops at; and the tables keep their types.
MessagesWhereSent ==
  /\ TypeOK
  /\ \A m \in DOMAIN msgs : msgs[m].queue_id \in Ids
  /\ \A t \in tags : t[1] \in Ids
  /\ \A m \in DOMAIN msgs :
       msgs[m].sentTo \in Live =>
         msgs[m].queue_id \in Ids /\ queues[msgs[m].queue_id].born = msgs[m].sentTo

\* A column changes only to a value that a SetQueueAttributes under way names for
\* it: concurrent updates of different columns do not undo each other, although each
\* handler holds a copy of the row it loaded before.
NoLostUpdate ==
  [][\A id \in Ids : \A c \in Columns :
       /\ id \in Ids'
       /\ queues'[id].born = queues[id].born
       /\ queues'[id].config[c] # queues[id].config[c]
       => \E h \in Handlers :
            /\ pc[h] = "set_attributes"
            /\ c \in DOMAIN loc[h].update
            /\ queues'[id].config[c] = loc[h].update[c]]_vars

\* TagQueue checks the limit (MAX_TAGS_PER_QUEUE) on a read that other requests may
\* outdate before it writes, and CreateQueue tags whatever queue has the name by then.
\* The limit is exceeded at most by what the other requests under way at once may add:
\* requests that come one after the other never add up.
TagLimitPerHandler ==
  \A id \in Ids : Cardinality(TagsOf(id)) <= MaxTags * Cardinality(Handlers)
================================================================================
