------------------------------ MODULE SnsPublish ------------------------------
(***************************************************************************)
(* SNS Publish: the fan-out of one message to the SQS queues subscribed to *)
(* a topic, while queues and subscriptions come and go.                    *)
(*                                                                         *)
(* A publish lists the topic's subscriptions once, and then, for one       *)
(* subscription after the other, loads the queue its endpoint names,       *)
(* judges the queue's resource policy, and inserts a message by the id of  *)
(* the queue it loaded.  A delivery that fails is logged and the next one  *)
(* begins; the publish itself succeeds.                                    *)
(*                                                                         *)
(* Abstractions.  One topic; DeleteTopic shows here as the removal of      *)
(* subscriptions.  Of a queue's configuration two facts matter: whether    *)
(* its policy allows sns.amazonaws.com sqs:SendMessage, refuses it or does *)
(* not parse, and whether the notification fits its MaximumMessageSize.    *)
(* Consumers do not take messages away: SqsMessages is about them.  Only   *)
(* "sqs" subscriptions: others are traced and nothing more.                *)
(***************************************************************************)
EXTENDS Naturals, FiniteSets

CONSTANTS
  Handlers,     \* request handlers running at once
  Names,        \* queue names, which stand for endpoint ARNs
  Enforce,      \* HIRAETH_AUTH_MODE is enforce (not audit or off)
  Configs,      \* the configurations of queues in this instance
  MaxQueues,    \* bound: queues ever created
  MaxSubs,      \* bound: subscriptions ever created
  MaxPublishes, \* bound: publishes
  Faults,       \* may statements fail and the process stop?
  Operations    \* the operations clients call in this instance

ASSUME PublishAssumption ==
  /\ Enforce \in BOOLEAN
  /\ Configs \subseteq [policy : {"allows", "refuses", "invalid"}, fits : BOOLEAN]
  /\ MaxQueues \in Nat
  /\ MaxSubs \in Nat
  /\ MaxPublishes \in Nat
  /\ Faults \in BOOLEAN

VARIABLES
  queues,     \* sqs_queues: a function from the ids in use to rows
  subs,       \* sns_subscriptions of the topic: ids in use to endpoint names
  msgs,       \* sqs_messages, as a set: the deliveries that are stored
  madeQueues, \* queues created so far
  madeSubs,   \* sns_subscriptions' AUTOINCREMENT counter
  pubs,       \* history: a function from publishes begun to what they met
  pc,         \* pc[h] : the statement handler h runs next
  loc         \* loc[h] : the local variables of handler h

vars == <<queues, subs, msgs, madeQueues, madeSubs, pubs, pc, loc>>

--------------------------------------------------------------------------------
QueueRow == [name : Names, config : Configs]

QueueIds == DOMAIN queues
SubIds == DOMAIN subs
Publishes == DOMAIN pubs

\* A stored message; pub and sub are history.
Message == [queue : Nat, pub : Nat, sub : Nat]

\* What publish p met: the subscriptions it listed, those it delivered to, those a failed
\* statement kept it from, the names without a ready queue at some time of the publish,
\* the queue ids whose row allowed SNS at some time of it, and whether it answered.
History == [console : BOOLEAN, listed : SUBSET (Nat \X Names), sent : SUBSET Nat,
            failed : SUBSET Nat, unready : SUBSET Names, open : SUBSET Nat, done : BOOLEAN]

\* console: the web console's publish_message rather than the API's Publish.
\* rest: the listed subscriptions not yet tried; sub and queue: the delivery under way
\* and the id of the queue it loaded.
Locals == [pub : Nat, console : BOOLEAN, rest : SUBSET (Nat \X Names), sub : Nat,
           queue : Nat]

NoLocals == [idle |-> TRUE]

TypeOK ==
  /\ queues \in [QueueIds -> QueueRow]
  /\ QueueIds \subseteq 1..madeQueues
  /\ subs \in [SubIds -> Names]
  /\ SubIds \subseteq 1..madeSubs
  /\ msgs \subseteq {m \in Message : m.queue \in QueueIds /\ m.pub \in Publishes}
  /\ madeQueues \in Nat
  /\ madeSubs \in Nat
  /\ pubs \in [Publishes -> History]
  /\ Publishes = 1..Cardinality(Publishes)
  /\ pc \in [Handlers -> {"idle", "get_queue", "send_message"}]
  /\ DOMAIN loc = Handlers
  /\ \A h \in Handlers : pc[h] # "idle" => loc[h] \in Locals /\ loc[h].pub \in Publishes

--------------------------------------------------------------------------------
(* The store. *)

\* INTEGER PRIMARY KEY without AUTOINCREMENT: one more than the largest id in use.
NewQueueId ==
  CHOOSE id \in 1..(MaxQueues + 1) :
    /\ \A i \in QueueIds : i < id
    /\ id = 1 \/ id - 1 \in QueueIds

get_queue(name) == {id \in QueueIds : queues[id].name = name}

\* Mutant: the policy's judgement is recorded and not enforced.
MayDeliverAudited(config) == config.fits

\* The policy parses, in every mode; authorize_cross_service in enforce mode; and
\* validate_message_body.
MayDeliver(config) ==
  /\ config.policy # "invalid"
  /\ Enforce => config.policy = "allows"
  /\ config.fits

\* The console's deliver_to_sqs looks neither at the policy nor at the size.
ConsoleMayDeliver(config) == TRUE

Delivers(config, console) == IF console THEN ConsoleMayDeliver(config) ELSE MayDeliver(config)

\* The foreign key refuses a message for a queue that is not there.
send_message(id, message) ==
  /\ id \in QueueIds
  /\ msgs' = msgs \union {message}

\* The first of the remaining rows, in the order of the rows' ids.
Following(rest) == CHOOSE r \in rest : \A x \in rest : r[1] <= x[1]

--------------------------------------------------------------------------------
(* History: what the publishes under way meet. *)

\* A queue that a delivery would go to.
Ready(rows, name) ==
  \E id \in DOMAIN rows :
    /\ rows[id].name = name
    /\ rows[id].config.policy \in IF Enforce THEN {"allows"} ELSE {"allows", "refuses"}
    /\ rows[id].config.fits

Unready(rows) == {n \in Names : ~Ready(rows, n)}

Open(rows) == {id \in DOMAIN rows : rows[id].config.policy = "allows"}

\* The publishes that have not ended note a change of the queues to rows.
Note(rows) ==
  pubs' = [p \in Publishes |->
             IF pubs[p].done THEN pubs[p]
             ELSE [pubs[p] EXCEPT !.unready = @ \union Unready(rows),
                                  !.open = @ \union Open(rows)]]

--------------------------------------------------------------------------------
(* Queues and subscriptions change, each by one statement. *)

CreateQueue ==
  /\ "create" \in Operations
  /\ madeQueues < MaxQueues
  /\ \E name \in Names, config \in Configs :
       /\ get_queue(name) = {}
       /\ queues' = [i \in QueueIds \union {NewQueueId} |->
                       IF i = NewQueueId
                         THEN [name |-> name, config |-> config]
                         ELSE queues[i]]
       /\ Note(queues')
  /\ madeQueues' = madeQueues + 1
  /\ UNCHANGED <<subs, msgs, madeSubs, pc, loc>>

\* The messages cascade.
DeleteQueue(id) ==
  /\ "delete" \in Operations
  /\ queues' = [i \in QueueIds \ {id} |-> queues[i]]
  /\ msgs' = {m \in msgs : m.queue # id}
  /\ Note(queues')
  /\ UNCHANGED <<subs, madeQueues, madeSubs, pc, loc>>

SetQueueAttributes(id) ==
  /\ "configure" \in Operations
  /\ \E config \in Configs : queues' = [queues EXCEPT ![id].config = config]
  /\ Note(queues')
  /\ UNCHANGED <<subs, msgs, madeQueues, madeSubs, pc, loc>>

\* Subscribe does not look at the queue: the endpoint may name none.
Subscribe ==
  /\ "subscribe" \in Operations
  /\ madeSubs < MaxSubs
  /\ \E name \in Names :
       subs' = [s \in SubIds \union {madeSubs + 1} |->
                  IF s = madeSubs + 1 THEN name ELSE subs[s]]
  /\ madeSubs' = madeSubs + 1
  /\ UNCHANGED <<queues, msgs, madeQueues, pubs, pc, loc>>

Unsubscribe(s) ==
  /\ "unsubscribe" \in Operations
  /\ subs' = [x \in SubIds \ {s} |-> subs[x]]
  /\ UNCHANGED <<queues, msgs, madeQueues, madeSubs, pubs, pc, loc>>

--------------------------------------------------------------------------------
(* Publish. *)

Idle(h) == pc' = [pc EXCEPT ![h] = "idle"] /\ loc' = [loc EXCEPT ![h] = NoLocals]

\* The topic's subscriptions are listed, after the topic was found.
ListSubscriptions(h, console) ==
  LET p == Cardinality(Publishes) + 1
      rows == {<<s, subs[s]>> : s \in SubIds}
  IN  /\ "publish" \in Operations
      /\ pc[h] = "idle"
      /\ Cardinality(Publishes) < MaxPublishes
      /\ pubs' = [x \in Publishes \union {p} |->
                    IF x = p
                      THEN [console |-> console, listed |-> rows, sent |-> {},
                            failed |-> {}, unready |-> Unready(queues),
                            open |-> Open(queues), done |-> (rows = {})]
                      ELSE pubs[x]]
      /\ \/ rows = {} /\ UNCHANGED <<pc, loc>>
         \/ /\ rows # {}
            /\ pc' = [pc EXCEPT ![h] = "get_queue"]
            /\ loc' = [loc EXCEPT ![h] = [pub |-> p, console |-> console, rest |-> rows,
                                         sub |-> 0, queue |-> 0]]
      /\ UNCHANGED <<queues, subs, msgs, madeQueues, madeSubs>>

Publish(h) == ListSubscriptions(h, FALSE)

\* The console's form: the topic by its id, and a loop of its own over the subscriptions.
publish_message(h) == ListSubscriptions(h, TRUE)

\* One delivery has ended, well (sent), for lack of a ready queue, or by a failing
\* statement; the loop goes on, or the publish answers its message id.
Continue(h, sub, sent, failed) ==
  LET p == loc[h].pub
      rest == {r \in loc[h].rest : r[1] # sub}
  IN  /\ pubs' = [pubs EXCEPT ![p] =
                    [pubs[p] EXCEPT !.sent = @ \union sent, !.failed = @ \union failed,
                                    !.done = (rest = {})]]
      /\ IF rest = {}
           THEN Idle(h)
           ELSE /\ pc' = [pc EXCEPT ![h] = "get_queue"]
                /\ loc' = [loc EXCEPT ![h] = [loc[h] EXCEPT !.rest = rest]]

\* Mutant: the first failing delivery ends the publish.
StopAtFailure(h, sub, failed) ==
  /\ pubs' = [pubs EXCEPT ![loc[h].pub].done = TRUE]
  /\ Idle(h)

\* Mutant: a failing delivery is tried again until it succeeds.
RetryForever(h, sub, failed) ==
  /\ pc' = [pc EXCEPT ![h] = "get_queue"]
  /\ UNCHANGED <<pubs, loc>>

\* deliver_to_sqs ends with an error that the loop logs.
Skip(h, sub, failed) == Continue(h, sub, {}, failed)

\* The first statement of deliver_to_sqs, and the judgement of what it returned.
GetQueue(h) ==
  LET next == Following(loc[h].rest)
  IN  /\ pc[h] = "get_queue"
      /\ \/ \E id \in get_queue(next[2]) :
              /\ Delivers(queues[id].config, loc[h].console)
              /\ pc' = [pc EXCEPT ![h] = "send_message"]
              /\ loc' = [loc EXCEPT ![h] = [loc[h] EXCEPT !.sub = next[1], !.queue = id]]
              /\ UNCHANGED pubs
         \/ /\ \A id \in get_queue(next[2]) : ~Delivers(queues[id].config, loc[h].console)
            /\ Skip(h, next[1], {})
         \/ /\ Faults
            /\ Skip(h, next[1], {next[1]})
      /\ UNCHANGED <<queues, subs, msgs, madeQueues, madeSubs>>

\* enqueue_message: the INSERT by the id that was loaded.
SendMessage(h) ==
  /\ pc[h] = "send_message"
  /\ \/ /\ send_message(loc[h].queue, [queue |-> loc[h].queue, pub |-> loc[h].pub,
                                       sub |-> loc[h].sub])
        /\ Continue(h, loc[h].sub, {loc[h].sub}, {})
     \/ /\ loc[h].queue \notin QueueIds
        /\ Skip(h, loc[h].sub, {})
        /\ UNCHANGED msgs
     \/ /\ Faults
        /\ Skip(h, loc[h].sub, {loc[h].sub})
        /\ UNCHANGED msgs
  /\ UNCHANGED <<queues, subs, madeQueues, madeSubs>>

\* The process stops and starts again; the publishes under way never answer.
Restart ==
  /\ Faults
  /\ pc' = [h \in Handlers |-> "idle"]
  /\ loc' = [h \in Handlers |-> NoLocals]
  /\ UNCHANGED <<queues, subs, msgs, madeQueues, madeSubs, pubs>>

--------------------------------------------------------------------------------
Init ==
  /\ queues = [i \in {} |-> NoLocals]
  /\ subs = [i \in {} |-> NoLocals]
  /\ msgs = {}
  /\ madeQueues = 0
  /\ madeSubs = 0
  /\ pubs = [p \in {} |-> NoLocals]
  /\ pc = [h \in Handlers |-> "idle"]
  /\ loc = [h \in Handlers |-> NoLocals]

Deliver(h) == GetQueue(h) \/ SendMessage(h)

Next ==
  \/ CreateQueue \/ Subscribe \/ Restart
  \/ \E id \in QueueIds : DeleteQueue(id) \/ SetQueueAttributes(id)
  \/ \E s \in SubIds : Unsubscribe(s)
  \/ \E h \in Handlers : Publish(h) \/ publish_message(h) \/ Deliver(h)

Spec == Init /\ [][Next]_vars

\* tokio polls a handler whose statement has answered.
LiveSpec == Spec /\ \A h \in Handlers : WF_vars(Deliver(h))

--------------------------------------------------------------------------------
(* Properties. *)

\* A publish that answered reached every subscription it listed whose queue was there,
\* allowed SNS and took the message from the listing to the answer, unless a statement
\* of that very delivery failed: a failed delivery does not take the others with it.
\* And the tables keep their types.
AnsweredIsComplete ==
  /\ TypeOK
  /\ \A p \in Publishes : pubs[p].done =>
       \A row \in pubs[p].listed :
         row[1] \in pubs[p].sent \union pubs[p].failed \/ row[2] \in pubs[p].unready

\* In enforce mode Publish puts a message only in a queue under whose id a policy allowed
\* SNS at some time of the publish.  The judged row may be deleted before the INSERT and
\* its id given to a new queue, whose own policy then is never judged: the id, not the
\* queue, is what the code can promise.
PolicyEnforced ==
  Enforce => \A m \in msgs :
    pubs[m.pub].console \/ m.queue \in pubs[m.pub].open

\* Every publish answers.
RequestsEnd == \A h \in Handlers : pc[h] # "idle" ~> pc[h] = "idle"
================================================================================
