# Formal verification of hiraeth

hiraeth is a local emulator of AWS services (SQS, SNS, IAM, STS) in Rust: one
process, one SQLite database, one tokio task per HTTP connection. This directory
holds TLA+ models of the parts of it that carry state and of the pure functions they
rest on, the TLC runs that check
them on small instances, and proofs, checked by TLAPS, that the most important
properties hold for every value of the parameters.

## The system

| Component | State | Operations | Where |
|---|---|---|---|
| SQS messages | `sqs_messages` | Send, Receive (long polling), ChangeVisibility, Delete, Purge, batches, console delete | `hiraeth_sqs/src/actions`, `hiraeth_store_sqlx/src/sqs.rs` |
| SQS queues | `sqs_queues`, `sqs_queue_tags` | Create, Delete, Purge, Set/GetAttributes, Tag, Untag, List, GetUrl | same |
| SNS | topics, subscriptions, topic tags | Create/Delete/Set topic, Subscribe, Unsubscribe, Publish, tags, lists | `hiraeth_sns`, `hiraeth_store_sqlx/src/sns.rs` |
| IAM | principals, access keys, inline and managed policies, attachments | Create/Delete/Get/List/Put/Attach/Detach | `hiraeth_iam`, `hiraeth_store_sqlx/src/iam` |
| Policy evaluation | none (pure) | statement matching, deny overrides, identity and resource policies | `hiraeth_core/src/auth`, `hiraeth_iam/src/authorize.rs` |
| Pipeline | none between requests | parse, authenticate, resolve identity, route, authorize, handle, trace | `hiraeth_runtime`, `hiraeth_router`, `hiraeth_auth` |
| Web console | none | pages and forms over the same stores, by row id | `hiraeth_web` |
| Trace store | trace requests, spans | record, list, show, clear | `hiraeth_store_sqlx/src/trace.rs` |
| STS, protocol, HTTP types, macros, seed tool | none | | |

How they interact: `serve_listener` spawns a task per connection, which runs the
pipeline and then one action handler. A handler awaits one SQL statement at a
time; there is no lock around it, so **between two statements of a handler any
statement of any other handler may run**. Only `receive_messages`,
the writes of SNS tags and the clearing of traces run in a transaction. Handlers find a queue by URL (name, region, account), keep the row's
`id`, and run later statements by that id. SNS `Publish` writes to SQS queues
through `enqueue_message`.

What is hard:

* instants are read before the statement that uses them runs (`receive_messages`
  reads `now` before `BEGIN IMMEDIATE` gets the lock; `ChangeMessageVisibility`
  computes `visible_at` before its `UPDATE`), and a sender's instants come from
  the client's clock;
* ids of deleted queues are reused (`INTEGER PRIMARY KEY` without
  `AUTOINCREMENT`) while handlers still hold them;
* checks and writes are separate statements (tag limits, create conflicts, grants);
* a statement may fail after `busy_timeout`, and the process may stop, between
  any two statements;
* the long poll must end.

The list of hazards, with the line where each bites and the properties that would
catch it, is in `PROJECT.json`.

## Modules

State machines:

| Module | What it is |
|---|---|
| `LeaseQueue` | abstract specification: what an SQS queue promises its consumers |
| `SqsMessages` | the message table of one queue and its handlers; implements `LeaseQueue` |
| `SqsQueues` | the queue table, the tables that refer to it, the handlers by name and the console's forms by id |
| `QueueListing` | extends `SqsQueues`: a client walks the pages of `ListQueues` meanwhile |
| `SnsTopics` | topics, their tags and subscriptions, statement by statement, by requests and by the console |
| `SnsPublish` | the fan-out of a publish to SQS queues that come and go |
| `IamStore` | users, keys, inline and managed policies, attachments |
| `IamConsole` | extends `IamStore`: the listings, the console's pages and their forms |
| `RequestPipeline` | extends `IamStore`: authentication to decision, while IAM changes |
| `Traces` | the spans and the row a request leaves, the console pages that read and clear them |

Pure parts, as functions of their inputs:

| Module | What it is |
|---|---|
| `PolicyEval` | the evaluation of one policy, against a reference definition |
| `QueueAttributes` | queue attributes as text and as columns; queue URLs |
| `MessageFormats` | message attributes, digests, trace headers, batch entries |
| `Signing` | SigV4: header, canonical request, signature |
| `Reads` | answers put together from several SELECTs |
| `SnsFormats` | attributes of topics and subscriptions, ARNs, tags |
| `IamNames` | paths, names and ARNs; whom a request is about |
| `Services` | action, parameters, errors and statuses of the four services |
| `ConsoleForms` | refused forms and the redirects that bring them back |
| `Arranged` | sorted and filtered sequences, by counting what comes before an element |
| `Inputs` | composes all of these: one behaviour per input |

`...Proofs` modules hold the theorems about the module they are named after:
`SqsMessagesProofs`, `SqsQueuesProofs` (with those of `QueueListing`),
`SnsTopicsProofs`, `SnsPublishProofs`, `IamConsoleProofs` (with those of `IamStore`),
`RequestPipelineProofs`, `TracesProofs` and `InputsProofs` (with those of the pure
parts). `MC...` are instances for TLC.

### SqsMessages

`rows` is `sqs_messages` restricted to one queue, as a function from message ids
to rows; the columns kept are the ones the statements compare or change. A
receipt handle is the pair (message, number of the receive): the code draws 16
random bytes, which never repeat. `pc` and `loc` are the position and the locals of
each running handler; `leases` and `acked` are history variables that no action
reads except to pick the receipt handles clients may present.

| Action | Code |
|---|---|
| `SendMessage` | `send_message.rs`, `SqliteSqsStore::send_message` (also one entry of the batch, and `enqueue_message`) |
| `ReceiveMessage`, `BeginReceive`, `CommitReceive`, `EmptyReceive` | the loop of `receive_message.rs` around `receive_messages`: the deadline, the reading of the clock, the transaction, the sleep |
| `ChangeMessageVisibility`, `CommitChange` | `change_message_visibility.rs`: the reading of the clock, the `UPDATE` |
| `DeleteMessage`, `DeleteMessageById`, `PurgeQueue` | one statement each |
| `Busy` | `busy_timeout` elapsed |
| `Tick`, `Restart` | time; the process stops and starts |

`Skews` is the difference between the client's and the server's clock: the code
uses the signed `x-amz-date` for `sent_at`, `visible_at` and `expires_at` and does
not compare it with its own clock.

### SqsQueues

`queues`, `msgs` and `tags` are the three tables. Every handler is a sequence of
statements (`pc[h]` names the next one); `loc[h]` holds the id the handler loaded.
The field `born` tells apart the queues that had the same id or name; it is
history, no guard reads it. Early answers (no such queue, failed validation) change
nothing and appear as guards. `page` is the queue a console user has on the screen:
an id, and the queue that had it when the page was read. The console's forms
(`Console`) load the queue by that id instead of by name and run the same statements;
what the user meant is the queue on the screen.

`QueueListing` adds one client that asks for queues page by page. `walk` holds its
token (the last name it was given) and, as history, the queues there were all along
and at any time of the walk. Names are numbers, in the order of `ORDER BY name`. Each
call asks for a page of its own size, any `MaxResults` up to `MaxPage` or none.

### SnsTopics

The same shape for SNS. Topic ids are drawn with `AUTOINCREMENT` and never come
back, but subscriptions refer to their topic by ARN, without a foreign key, and
`DeleteTopic` is three statements outside a transaction. `set_topic_attributes`
and `set_subscription_attributes` read the row and write all of it back
(`Overlay` on the row that was read). `calm` is history: no two requests have
overlapped and no statement has failed so far. The console's forms address a topic by
id, look up its ARN and go on like the API; only the tag form has a check of its own.

### SnsPublish

`Publish` lists the subscriptions; `GetQueue` loads the queue an endpoint names and
judges its policy (`MayDeliver`); `SendMessage` inserts by the id that was loaded;
`Continue` goes on to the next subscription, after a failure too. `pubs` is
history: what each publish listed, sent and met. The console's `publish_message`
(`console`) runs the same loop without the judgement.

### IamStore and RequestPipeline

`IamStore` is the five IAM tables. Single-statement handlers are one action;
`CreateAccessKey`, `PutUserPolicy`, `AttachUserPolicy` and `DetachUserPolicy` find
the user, then the policy, and write by id. `madeFor` and `born` are history.
`IamConsole` adds a read in several statements (`reading`): three listings of the API
and the detail pages of a user and of a policy. The forms of a page that is on the
screen write by the ids it shows.

`RequestPipeline` extends it: each request authenticates its key, resolves the
principal by id, resolves the resource and its policy, reads the inline and then
the managed policies, decides and is performed, while any step of `IamStore`
(`IamChange`) or a change of the resource's policy falls in between. A policy
document is reduced to what `PolicyEval` makes of it; `"invalid"` is one that is
stored but does not parse as a policy (only JSON syntax is checked on the way in). As an
identity policy it denies; as the policy of a queue or topic it counts as none
(`resolve_authorization` of both services drops the error), so that whatever it was meant to
deny is not denied, and `Denies` says so. The sets `denying` and `allowing` are history.

### Traces

A request opens a chain of spans, each the child of the one before; a span is written
when it ends, and the request's row after all of them. A publish opens more: one for the
list of subscriptions, then for each subscription an evaluation of the queue's policy and
under it a delivery (`ResolveSubscriptions`, `EvaluateDelivery`, `Deliver`,
`DeliverElsewhere`, `EndPublish`), whose statuses may be `deny` and `error` while the
publish is `ok`. Each write is a statement that
may fail (`failed`), which the code only logs. `view` is the console page being put
together, in two statements (detail) or three (list); clearing the traces falls in
between. `cut` and `view.atRow` are history.

The id of a span is a reading of the clock, which may be one that another span of the
request has (`new_span_id`); `MaxTies` bounds how often. `DeliveryOf` names the
evaluations a publish may start, each with its delivery. `GraphEnds` needs that spans of
different levels have different ids: without that TLC finds a request and its
`authn.authenticate` span with one id, for which `span_depth` never returns. Spans side by
side may share an id.

### The pure parts and Inputs

In `PolicyEval`, `policy` is a sequence of statements and the only action appends one,
so TLC visits every policy over the given statements; a wildcard pattern is the set of
values it matches. The other modules have no variables. Their texts are abstracted to
what the code tells apart: numbers and odd spellings of them, JSON documents with and
without blanks, segments between slashes or colons, names by their length and the
checks they pass. Digests (MD5, SHA-256, HMAC) are injective: a digest is what it is
computed of. What the code sorts or filters is stated with `Arranged`: the k-th element
of the result is the one that has k - 1 before it, which TLC evaluates as it is and a
proof can use without recursion. `Inputs` takes one input of a bounded set in each
behaviour and states one property per part.

## Runs

| Run | Question | Bounds |
|---|---|---|
| `sqs_leases` | exclusive leases, deletions that stick, ordered instants, no early delivery | 1 message, 2 handlers, 4 instants, timeouts 0 and 2, skew -1..1, 3 receives: a lease can run out, be granted again and be changed by a handler that read the clock before |
| `sqs_batches` | order of delivery, refinement of `LeaseQueue`, every receive and visibility change ends | 2 messages, 2 handlers, receives of 1 or 2, waits of 1 with polls in between |
| `queue_lifecycle` | messages stay in their queue and none is left without one, no lost update of an attribute, the tag limit up to the requests under way | 2 handlers and a console page, 1 name, 2 creations (the first id is used again), tag limit 1 with 3 keys, batches of 2; 1 column, where an update of none stands for one of another column |
| `queue_listing` | a walk through `ListQueues` has every queue that stayed, each once, and ends | 3 names, 5 creations, any page size up to 2 or none in each call, 2 prefixes, store limit 2 |
| `sns_topic_tables` | tables consistent, late writes by id hit the topic that was loaded; a column changes only to what an update names or had read; when calm: tag limit, no subscription without or with another topic, no column written back | 2 handlers and the console, 2 topics of one name, failing statements, restarts |
| `sns_delete_crash` | expected violation: a stop in the middle of `DeleteTopic` leaves subscriptions for good | 1 handler, faults |
| `sns_fan_out` | an answered publish is complete, only ids that allowed SNS get its messages, every publish ends | 2 queues, 2 subscriptions, 1 publish, all configurations, faults |
| `iam_tables` | no grant outlives its user or policy, grants stay with the user they were made for, a read shows one user, a page lists each policy once | 1 handler next to a read or page, 2 users, 2 creations of 1 policy, faults (ids are reused) |
| `pipeline_decisions` | a standing denial stops a request; what is performed was allowed | 1 request, 1 user, 1 managed and 1 inline policy, 3 kinds of document, all IAM operations, faults |
| `pipeline_key_owner` | expected violation: a request acts as the user that got its user's id | 2 users |
| `trace_pages` | no span is skipped, pages show whole traces, statuses agree, filters offer what is listed, every request is answered | 1 request of every outcome, a publish to 1 subscription among them; 1 failed write and 1 id given twice, of any of its 9 spans; both pages, clearing at any time |
| `inputs` | the properties of the pure parts | all policies of up to 3 statements out of 40 with 5 callers; every other input of the sets in `MCInputs` |

`MCInputs` bounds: every queue attribute with texts at and beyond the edges of its
range and one update; up to 2 message attributes of 3 names and one more than is
allowed; pairs of signed requests differing in method, path, query and its order,
body and headers; 2 messages, 5 list rows or 2 owners with 2 things each that change
between the SELECTs, with page limits beyond both ends of the range; every attribute of
topics and subscriptions; paths of up to 4 segments; up to 4 parameters in query string
and body; every action of every service with every failure of its store calls, policy
reads and parts; every console form that is typed into, refused twice.

Runs with a liveness property use no symmetry. Deadlock is checked everywhere but in
`inputs`, where an input is looked at once and a policy stops growing at the bound.
Two actors (two handlers, or a handler and a page or a request) suffice for the races:
every one of them needs one late write and what overtakes it. The bounds on creations
leave room for an id to be freed and given out again, which is the case the
properties are about. One name of a queue or topic suffices for the same reason: what
is confused with a queue is the next one under its id. A second request in
`trace_pages`, or a second handler in `iam_tables`, adds no statement that reads or
writes what the first one's do and multiplies the states beyond what a run may take.

Fairness: weak fairness of each handler's steps (`LiveSpec` of `SqsMessages`,
`SnsPublish` and `Traces`, `ListingSpec`), since tokio polls a task whose future is
ready, and of `Tick`. The one assumption about a client is in `ListingSpec`: it goes
on asking for the next page. Requests themselves are never assumed to arrive.
`Restart` may happen at any time and needs no fairness.

## Proofs

Every safety property of the state machines is proved: for any sets of handlers,
names, messages, keys and documents, and any values of the bounds. None of them is
inductive; each proof module gives the strengthening that is, shows that the initial
states satisfy it and that every action keeps it, and derives the properties. The
assumptions are the named ones of the modules, which TLC evaluates on the runs:
parameters are numbers of the right sign or Booleans; documents, configurations and
queries are of the kinds the code knows; the handlers (tokio tasks) and tag keys (of
at most 128 characters) are finitely many, which the counts of tags need; queue names,
where their order matters, are numbers; the spans of a request are finitely many, and
evaluations and deliveries have names of their own (`TracesAssumption`).

All eight properties of the pure parts are proved too, for inputs of any size. The
assumptions of `Inputs` only give the inputs their shape:

* each kind of input has its own set (`KindAssumption`);
* attributes are texts, the entries of a form have a key and a value or lack one,
  parameters are pairs of texts (`QueueAssumption`, `SnsAssumption`, `RequestAssumption`);
* a path, a name, a region and an account, taken apart at their separators, have one part
  at least; whoever signed a request is in the table of principals, where account, kind
  and name are a key of `iam_principals` (`IamAssumption`);
* a store call ends well, finds nothing or ends in a `StoreError` (`RequestAssumption`);
* message attributes are a `HashMap`: no name is there twice (`MessageAssumption`);
* rows of a SELECT are numbered by its order and finitely many at each moment; what is
  owned has an owner: keys and attachments by a foreign key, while a subscription whose
  topic is gone is in no overview, which asks topic by topic (`ReadsAssumption`);
* a request is signed by the rules of SigV4, its date among the signed headers, and a text
  is told by its characters (`SignedAssumption`); the request that arrives is arbitrary;
* a form is filled in field by field, on a page of its service (`FormAssumption`); what is
  typed and what the address carries is arbitrary.

| Theorem | Property |
|---|---|
| `SqsMessagesProofs`: `TypeCorrect`, `LeaseExclusionHolds`, `AckedStayGoneHolds`, `StampsOrderedHolds`, `NoEarlyDeliveryHolds`, `OldestFirstHolds`, `Refinement` | `TypeOK`, `LeaseExclusion`, `AckedStayGone`, `StampsOrdered`, `NoEarlyDelivery`, `OldestFirst`, `ImplementsLeaseQueue` |
| `SqsQueuesProofs`: `MessagesStayWhereSent`, `UpdatesNotLost`, `TagLimitHolds`, `WalksComplete` | `MessagesWhereSent`, `NoLostUpdate`, `TagLimitPerHandler`, `WalkComplete` |
| `SnsTopicsProofs`: `TopicTablesHold`, `LateWritesRight`, `CalmTablesHold`, `ColumnsChangeAsNamedAlways` | `TopicTables`, `LateWritesHitLoadedTopic`, `CalmTables`, `ColumnsChangeAsNamed` |
| `SnsPublishProofs`: `AnswersComplete`, `PoliciesEnforced` | `AnsweredIsComplete`, `PolicyEnforced` |
| `IamConsoleProofs`: `NothingOrphaned`, `GrantsReachTheMeant`, `ReadsCollectOneUser`, `EachAttachedOrOffered` | `NoOrphans`, `GrantsWhereMeant`, `ReadsOfOneUser`, `AttachedOrOffered` |
| `RequestPipelineProofs`: `DenyStandsHolds`, `AllowGroundedHolds` | `DenyStands`, `AllowGrounded` |
| `TracesProofs`: `TracesComplete`, `StatusesTellOneStory`, `DetailsWhole`, `GraphsEnd`, `FiltersAreOffered` | `TraceComplete`, `StatusesAgree`, `DetailWhole`, `GraphEnds`, `FiltersOffered` |
| `InputsProofs`: `PoliciesDenyOverrides`, `RequestsHandledAndBlamed`, `QueuesFoundAsMade`, `NamesLeadBackAlways`, `MessagesReceivableAlways`, `ReadsExplainedAlways`, `SignatureSpeaksAlways`, `RefusedFormsComeBackAlways` | `DenyOverrides`, `HandledAndBlamed`, `QueueFoundAsMade`, `NamesLeadBack`, `MessagesReceivable`, `ReadsExplained`, `SignatureSpeaks`, `RefusedFormsComeBack` |

**SqsMessages.** `IInv` adds to the types:

* `HandlerInv`: an instant a handler holds was read in the past, and a receive's
  lease end is not before the instant it selects by;
* `LeaseInv`: every lease but the last of a message has run out;
* `RowInv`: a stored row and its history agree (the receive count is the number of
  leases, the handle is the last one's, and `visible_at` is its end), which is what
  makes a stale handle harmless;
* `DrawnInv`: messages not drawn yet have no history, acknowledged ones were drawn
  and are not stored.

The central step is `CommitReceive`: the message selected has `visible_at <= now`
for an instant `now` read in the past, so by `RowInv` its last lease has run out
by the present clock and the new one is the only one that may be running. The
refinement maps `hidden` to the rows whose `visible_at` is in the future; a
receive implements `Lease`, a tick `Reveal`, a change of visibility `Renew`.

**SqsQueues.** What a handler, the page or a message refers to by an id is, as long as
it exists, under that id (`Meant`, in `RefersRight`): ids are reused, but a queue never
changes its id. `NoRowAlone` says that the foreign keys leave no row behind: an
`INSERT` checks its parent, a deletion cascades. For the tag limit, `ClaimsFit` counts
the keys a queue has together with those that requests past their check may still
insert: the request that passes the check has them fit below the limit for itself, so
the union is at most the limit for each handler. The same step shows why the code gives
no more than that.

**QueueListing.** While a walk goes on, the client has had, in order, every queue of the
prefix up to its token that was there all along (`Asking`); a page is the smallest
names beyond the token (`PageOf`, by counting the names below each), and one page after
the other is in order because the second starts beyond the first. The last page ends
with nothing left.

**SnsTopics.** `BaseInv` holds under any overlap and failure: topic ids are below the
counter, and a handler past its lookup holds an id given to the topic it means. `CalmInv`
holds while requests come one at a time: at most one handler is under way
(`OneActive`), and what it holds is not stale (`CalmLocals`). What an update writes to a
column it does not name is what it had read there, which is the stored value only while
calm; `ColumnsChangeAsNamed` says both.

**SnsPublish.** Of what a publish listed, everything that is not in the handler's rest
was tried: sent, failed, or met without a ready queue at some time (`Tried`). The queue
that was loaded is the one the subscription names, or that name was without a queue in
between; and its policy was judged if it is enforced (`LoadedRight`).

**IamStore, IamConsole.** The same argument by ids as for queues, for users and
policies (`HandlersRight`, `RowsRight`). A page that is being read has, of what was there
since it began, each in exactly one of its lists (`UserReadInv`, `PolicyReadInv`).

**RequestPipeline.** The properties speak of the moment
after the decision only; `DecisionInv` carries them through the reads: a source
noted as denying so far denies now, one that allows now is noted (`NotesCurrent`),
and what was already read from a source agrees with the notes about it
(`ReadAgrees`). Since notes of denials only shrink and notes of grants only grow, a
change of the tables keeps `ReadAgrees`, so the proof never looks into `IamNext`:
it holds for any change of the tables whatever.

**Traces.** `Running` and `Needed` say which spans are open at each stage of a request
and which ones the rest of it relies on; a span that was started is running or recorded
(`Covered`). The id a span has for its parent is that of a span on a smaller level; where no id
is on two levels, every span with the parent's id is on a smaller level, so
`span_depth` runs out of levels (`GraphEnds`), of which there are eight. The pages hold what was stored since they
began (`DetailRight`, `ListRight`).

**PolicyEval.** `combine_policy_results` is a fold, that is, the function that takes each
set of positions to the result for it. `CombineIsSum` exhibits that function, shows that
there is no other (at a smallest set where two differ they do not), and so has the
result for sequences of any length; `NamedAreMatched` compares the patterns of a
Principal element, kind by kind, with the principals they name.

**Services.** A parameter is the set of the positions it stands at. The authorization
reads the first of them, or the last, where the typed request is refused unless there is
one only; so a request that is parsed has its field at a single position and both read
the same (`TypedIsLast`, `SameResource`), unless, in SNS, another ARN parameter is read
before it, which is exactly when they differ. The answer is taken apart along the stages of
a request (`AuthorizationBlames`, `RouteBlames`, `AnswerBlames`): each has its own
errors, and of these exactly `InternalError` blames the server. A read of policies that
fails becomes a denial before there is an error, so it ends in the 403 of `Permitted`.

**QueueAttributes.** What is in a column has been converted once and converts to itself,
also after defaults and an update (`ConvertedStays`, `DefaultsStay`, `UpdatedStays`);
hence what is shown of the settable attributes is accepted (`ShownIsAccepted`) and makes
the same row again; an answer with one of the computed attributes (counts, timestamps, the
ARN), as `All` gives, is refused.

**SnsFormats.** A row has what the entries gave, under the columns of the attributes, and
`GetTopicAttributes` and `GetSubscriptionAttributes` read the same columns
(`ShownOfRow`). An ARN is laid out part by part: `ArnParts` says which part is where, so
it has six parts exactly if region and account have no colon, and then the fourth, the
fifth and the sixth are what it was made of (`TopicsFound`).

**IamNames.** Paths have a normal form: what is left without the slashes around it is
unique (`TrimIs`, `TrimCases`), slashes put around it come off again (`TrimEnclosed`), so
a normal path stays as it is (`NormalTwice`) and the slashes that `CreatePolicy` adds
change nothing (`PolicyPaths`). The resource of an ARN is the kind, the middle of the
normal path and the name (`ResourceIs`), and `parse_policy_arn` cuts it where it was put
together if the name is one segment (`MiddleIs`, `PolicyArnLeadsBack`).

**Arranged.** In a finite set that is strictly and totally ordered, what comes before an
element is smaller for an earlier element (`AheadGrows`), so the numbers of those before
are distinct and below the size of the set, and each number is met (`PlaceExists`, by the
pigeonhole principle). Hence there is exactly one k-th element (`Placed`); filtering keeps
each chosen element once and in order (`KeptType`), and sorting is a bijection of the
places under which the result rises (`SortedType`).

**MessageFormats.** Names of attributes are distinct, so they have one sorted order, and
sorting what is sorted changes nothing (`ByRankSorts`, `ByRankAgain`): the digest does not
depend on the order of the map, and what a receive filters and answers is digested as the
sender's attributes were (`DigestOfSorted`, `FilteredHasDigest`). The entries of a batch
are split into those that succeed and the others; each is in one of the two, once
(`BatchAnswered`).

**Reads.** What was in a table all the time is part of what any statement found, which is
part of what was there at some time; so a count lies between the two numbers
(`BracketedAt`), and a difference of counts is off by what went or came in between
(`Differences`). The token is a function of the number of the call, and the tokens are the
multiples of the page size (`TokenIsPages`). A row that stayed has as many rows before it
in every call unless one went or came, so the page where its place falls has it
(`PageFound`) and no other has (`PageOnce`). A total over summaries is a number of pairs,
and counted by owner or by policy these are the same pairs (`TotalOfParts`,
`OverviewRight`).

**Signing.** Queries with the same parameters in another order are related by a bijection
of their places, which can be turned around and composed (`PairedBack`, `PairedOn`). Two
rising sequences that are paired are equal: if one had a smaller k-th element, the k
elements up to it would have to be among the k - 1 that are smaller in the other
(`NoneSmaller`, `RisingAreEqual`). So canonical
queries agree exactly if the parameters do (`QueriesAgree`), where a text encoded twice is
the text encoded once only if it needs no encoding (`OnceIsTwice`): the server encodes
what came over the wire encoded, so that a query with anything to encode is refused. The rest of the
canonical request is compared part by part (`CanonicalParts`, `SpeaksForOne`).

**ConsoleForms.** The parameters a redirect appends have distinct names, and none is one of
the page's own (`FormsHaveShape`, form by form; `AppendedPairsAre`), so the page that the
redirect leads to parses (`Understood`) and finds each of them (`Redirected`); what it
shows is what was typed, or the default where the parameter was left out (in the forms for
a message and for an access key, all of them). The page passes
on an address without messages (`ScopeKept`), which is why a second refusal comes back like
the first (`RefusedReturns`), and a success without the old message (`DoneReturns`).

Only model-checked: liveness (`RequestsEnd` of messages and of publishes, `RequestsAnswered`,
`WalkEnds`), which is beyond the prover.

## What the checks show

The lease protocol holds although the clock is read outside the transaction,
because a stale instant only makes a receive select less and its lease end
sooner. The statements by id keep the tables consistent (foreign keys cascade and
refuse orphans) but not the *identity* of the row: after a deletion the id may
belong to another queue or user, and the late statement applies to it. That is why
`MessagesWhereSent`, `GrantsWhereMeant` and `PolicyEnforced` say what they say: they
hold up to the reuse of an id, and reuse is the only exception. `pipeline_key_owner`
shows the exception where it matters most, a request that changes identity on its
way; a purge, a late grant and a delivery judged by another queue's policy follow the
same pattern. The tag limit is enforced per request, not per queue: n requests at
once may leave n times the limit, and no more (`TagLimitPerHandler`).

SNS draws ids once, so its late writes never hit another topic, but it has two
weaknesses of its own: a deletion in three statements that a stop cuts in half for
good (`sns_delete_crash`), and updates that write back the row they read, so that
`CalmTables` and the strict part of `ColumnsChangeAsNamed` hold for requests that do not
overlap and not for two at once. The fan-out isolates its deliveries from
each other as intended. In IAM the foreign keys make deletions complete, whatever
races with them. The decision itself is robust: its three reads are no snapshot, yet a
source that denies all along is never missed and nothing is performed without a grant.

Reads are no snapshots either, but what they show is explained by what changed
meanwhile: a walk through `ListQueues` misses and repeats nothing, because its token is
a name and not an offset; the offsets of the SNS lists miss a row when an earlier one
goes (`ReadsExplained`). `ApproximateNumberOfMessagesNotVisible` is a difference of two
counts and may be negative. A console page of a user shows each policy as attached or
offered, never both, because both are computed from one list.

Behaviours the properties had to allow for, each visible in the definition it is noted
at:

* `RawMessageDelivery` is accepted as `TRUE` or `True`, but only `true` is delivered raw;
* a topic whose region or account has a colon in it cannot be found by its own ARN; one
  whose region or account is empty is in the table under it, but requests refuse it;
* `CreatePolicy` keeps slashes to spare in a path, and the ARN then leads to the same
  policy only through the same normalisation;
* the console stores message attributes of any shape; one the API cannot parse fails
  every receive that meets it, after the messages were leased (`MessagesReceivable`);
* a refused policy form whose document was emptied comes back with the document that
  allows everything;
* an SNS request may carry several ARN parameters: authorization takes the first of
  `TopicArn`, `ResourceArn` and `SubscriptionArn`, the handler its own, and
  `HandledAsAuthorized` states exactly when they differ;
* of two overlapping updates of an SNS topic or subscription the later writes back what it
  had read of the other's column (`ColumnsChangeAsNamed`);
* a resource policy that does not parse counts as none, an identity policy that does not
  parse as a denial (`Denies`);
* a policy that cannot be read is answered like a denial, with 403; deliveries of a publish
  and entries of a batch may fail under a 200 (`BlamesTheRightSide`);
* the answer of `GetQueueAttributes` to `All` cannot be given to `CreateQueue` as it is,
  which refuses the computed attributes (`RecreatedFromShown`);
* a signed query with a parameter that needs percent-encoding is refused
  (`SignatureSpeaksForRequest`);
* a refused message, and a refused access key, are lost: their redirects carry only the
  error (`Forgetful`);
* spans of one request that are given one id, one above the other, make `span_depth` of
  the trace page call itself without end (`GraphEnds`).

## Not modelled

* The seed tool and `xtask`: clients of the operations above, for development.
* Templates, HTML, static files and the layout of the trace graph: no state, and no
  property is about wording.
* Serialisation to JSON and XML and the macros that derive it; what is parsed, and from
  where, is in `Services`.
* Requests dropped by their client between `BEGIN IMMEDIATE` and `COMMIT`: what the pool
  does with the connection is sqlx's, not in this repository.
* Roles next to users in the tables: the same statements; they are told apart in
  `IamNames`.
* The in-memory stores used by unit tests.

## Plan

Every part listed above is modelled, and every safety property that a run checks is
proved. What would extend the project is in the list of what is not modelled: the
connection that a dropped request leaves in the pool (which needs the behaviour of sqlx),
and seeded databases as initial states.
