-------------------------------- MODULE Traces --------------------------------
(***************************************************************************)
(* Request traces: what a request writes into hiraeth_trace_span and       *)
(* hiraeth_trace_request while it is handled, and the console pages that   *)
(* read the two tables meanwhile.                                          *)
(*                                                                         *)
(* A request opens a chain of spans, each the child of the one before:     *)
(* request.handle, authn.authenticate, iam.resolve_identity,               *)
(* authz.evaluate, action.handle and the span of the action's handler.     *)
(* Publish opens more under its own: sns.subscriptions.resolve, then for   *)
(* each subscription an authz.evaluate, and under it an                    *)
(* sns.message.deliver.  A span is written when it ends, so parents may be *)
(* written after their children, and the request's own row comes last of   *)
(* all.  Every write is a statement of its own that may fail, which is     *)
(* only logged; no foreign key ties the tables together, and nothing makes *)
(* the ids of spans unique.                                                *)
(*                                                                         *)
(* Abstractions.  A span's id is the request id and a reading of the       *)
(* clock: only which ids are equal matters, and a reading may coincide     *)
(* with any earlier one.  A status code is "ok" below 400 and "error" from *)
(* there on.  The evaluations and deliveries of a publish have names that  *)
(* tell them apart.                                                        *)
(***************************************************************************)
EXTENDS Naturals, FiniteSets

CONSTANTS
  Requests,   \* requests that clients may make
  Services,   \* services they may be for
  Enforce,    \* is the authorization mode "enforce"?
  Queries,    \* the queries of the list page in this instance
  PageSize,   \* traces on the list page, 100 in the code
  DeliveryOf, \* the evaluation spans a publish may start, each with its delivery span
  MaxFailures, \* bound: span writes that fail
  MaxTies     \* bound: spans of a request given an id that one before them has

Evaluations == DOMAIN DeliveryOf
Deliveries == {DeliveryOf[e] : e \in Evaluations}
OwnSpans == {"request", "authn", "identity", "authz", "action", "service", "resolve"}
SpanNames == OwnSpans \union Evaluations \union Deliveries

ASSUME TracesAssumption ==
  /\ Enforce \in BOOLEAN
  /\ Queries \subseteq [service : Services \union {"any"}, action : Services \union {"any"},
                         status : {"any", "ok", "error", "else"}]
  /\ PageSize \in Nat
  /\ IsFiniteSet(SpanNames)
  /\ \A e, f \in Evaluations : DeliveryOf[e] = DeliveryOf[f] => e = f
  /\ (OwnSpans \union {"none"}) \intersect (Evaluations \union Deliveries) = {}
  /\ Evaluations \intersect Deliveries = {}
  /\ MaxFailures \in Nat
  /\ MaxTies \in Nat

VARIABLES
  stage,    \* stage[r] : what request r waits for
  timers,   \* timers[r] : the spans r has started, with their ids and parents
  target,   \* target[r] : the evaluation whose delivery a publish has come to
  answer,   \* answer[r] : the service r resolved to, and the status of its response
  spans,    \* hiraeth_trace_span
  rows,     \* hiraeth_trace_request: a function from request ids to rows
  arrived,  \* arrived[r] : the place of r among the requests received, 0 before
  failed,   \* history: <<r, span>> whose write failed
  cut,      \* history: requests some of whose spans were cleared
  view      \* the page a console user is loading or looking at

vars == <<stage, timers, target, answer, spans, rows, arrived, failed, cut, view>>

--------------------------------------------------------------------------------
Stages == {"new", "authn", "identity", "route", "authz", "validate", "service", "fanout",
           "deliver", "action", "close", "row", "answered", "gone"}
UnderWay(r) == stage[r] \notin {"new", "answered", "gone"}

\* parent holds the parent's id, or nothing.
Timer == [id : Nat, parent : SUBSET Nat]
Answer == [service : Services \union {"none"}, status : {"none", "ok", "error"}]
SpanRow == [request : Requests, name : SpanNames, id : Nat, parent : SUBSET Nat,
            status : {"ok", "error", "allow", "deny"}]
RequestRow == [service : Services \union {"none"}, status : {"ok", "error"}, started : Nat]

TypeOK ==
  /\ stage \in [Requests -> Stages]
  /\ \A r \in Requests :
       DOMAIN timers[r] \subseteq SpanNames /\ timers[r] \in [DOMAIN timers[r] -> Timer]
  /\ target \in [Requests -> Evaluations \union {"none"}]
  /\ answer \in [Requests -> Answer]
  /\ spans \subseteq SpanRow
  /\ DOMAIN rows \subseteq Requests
  /\ rows \in [DOMAIN rows -> RequestRow]
  /\ arrived \in [Requests -> Nat]
  /\ failed \subseteq Requests \X SpanNames
  /\ cut \subseteq Requests
  /\ view.page \in {"none", "detail", "list"}

--------------------------------------------------------------------------------
(* TraceContext and the recorder. *)

\* The request id and the nanoseconds of the clock: a reading like none before, or, when the
\* clock is coarse or was set back, one that a span of this request has already.
new_span_id(open) ==
  LET given == {open[n].id : n \in DOMAIN open}
  IN  {Cardinality(DOMAIN open)} \union
        {i \in given : Cardinality(DOMAIN open) < Cardinality(given) + MaxTies}

\* A span under a context made by child_context of its parent's timer, if it has one.
WithSpan(open, id, name, parents) ==
  [n \in DOMAIN open \union {name} |->
     IF n # name THEN open[n] ELSE [id |-> id, parent |-> {open[p].id : p \in parents}]]

start_span(r, name, parents) ==
  \E id \in new_span_id(timers[r]) :
    timers' = [timers EXCEPT ![r] = WithSpan(timers[r], id, name, parents)]

\* Two spans, the second the child of the first.
start_two_spans(r, first, parents, second) ==
  \E id \in new_span_id(timers[r]) :
    LET open == WithSpan(timers[r], id, first, parents)
    IN  \E next \in new_span_id(open) :
          timers' = [timers EXCEPT ![r] = WithSpan(open, next, second, {first})]

\* Mutant: the parent is that of the context the span is recorded with, which is the span's
\* own for the spans of a publish.
ContextParent(r, name, timer, status) ==
  spans' = spans \union
    {[request |-> r, name |-> name, id |-> timer.id, status |-> status,
      parent |-> IF name \in {"resolve"} \union Evaluations \union Deliveries
                   THEN {timer.id} ELSE timer.parent]}

\* INSERT INTO hiraeth_trace_span.
InsertSpan(r, name, timer, status) ==
  spans' = spans \union {[request |-> r, name |-> name, id |-> timer.id, status |-> status,
                          parent |-> timer.parent]}

\* A span has ended and is written.  When that fails the error is logged and dropped.
record_span_or_warn(r, name, timer, status) ==
  \/ InsertSpan(r, name, timer, status) /\ UNCHANGED failed
  \/ /\ Cardinality(failed) < MaxFailures
     /\ failed' = failed \union {<<r, name>>}
     /\ UNCHANGED spans

record_span(r, name, status) == record_span_or_warn(r, name, timers[r][name], status)

\* A span that is started and recorded before the request waits for anything else.
record_new_span(r, name, parent, status) ==
  /\ start_span(r, name, {parent})
  /\ record_span_or_warn(r, name, timers'[r][name], status)

\* The span of an operation, recorded with the operation's result.
record_result_span(r, name, status) ==
  /\ record_span(r, name, status)
  /\ answer' = [answer EXCEPT ![r].status = status]

--------------------------------------------------------------------------------
(* A request. *)

Goto(r, next) == stage' = [stage EXCEPT ![r] = next]

\* Mutant: an early return that skips the root span.
RefuseAtOnce(r) ==
  /\ Goto(r, "row")
  /\ answer' = [answer EXCEPT ![r].status = "error"]

\* The response is an error: nothing more of the request is tried, its root span is next.
Refuse(r) ==
  /\ Goto(r, "close")
  /\ answer' = [answer EXCEPT ![r].status = "error"]

\* A body that cannot be read is answered 400 and leaves no trace.
RefuseBody(r) ==
  /\ stage[r] = "new"
  /\ Goto(r, "answered")
  /\ UNCHANGED <<timers, target, answer, spans, rows, arrived, failed, cut, view>>

Receive(r) ==
  /\ stage[r] = "new"
  /\ start_two_spans(r, "request", {}, "authn")
  /\ arrived' = [arrived EXCEPT ![r] = 1 + Cardinality({q \in Requests : arrived[q] > 0})]
  /\ Goto(r, "authn")
  /\ UNCHANGED <<target, answer, spans, rows, failed, cut, view>>

Authenticate(r) ==
  /\ stage[r] = "authn"
  /\ \/ /\ record_span(r, "authn", "ok")
        /\ start_span(r, "identity", {"authn"})
        /\ Goto(r, "identity")
        /\ UNCHANGED answer
     \/ /\ record_span(r, "authn", "error")
        /\ Refuse(r)
        /\ UNCHANGED timers
  /\ UNCHANGED <<target, rows, arrived, cut, view>>

ResolveIdentity(r) ==
  /\ stage[r] = "identity"
  /\ \/ /\ record_span(r, "identity", "ok")
        /\ \E service \in Services : answer' = [answer EXCEPT ![r].service = service]
        /\ Goto(r, "route")
     \/ /\ record_span(r, "identity", "error")
        /\ Refuse(r)
  /\ UNCHANGED <<timers, target, rows, arrived, cut, view>>

\* No service handles the request, or it cannot say what must be authorized: an error.
Route(r) ==
  /\ stage[r] = "route"
  /\ \/ /\ start_span(r, "authz", {"identity"})
        /\ Goto(r, "authz")
        /\ UNCHANGED answer
     \/ Refuse(r) /\ UNCHANGED timers
  /\ UNCHANGED <<target, spans, rows, arrived, failed, cut, view>>

\* The span has the policies' result, the request goes by the mode.
Authorize(r) ==
  /\ stage[r] = "authz"
  /\ \E result \in {"allow", "deny"} :
       /\ record_span(r, "authz", result)
       /\ \/ result = "deny" /\ Enforce /\ Refuse(r)
          \/ ~(result = "deny" /\ Enforce) /\ Goto(r, "validate") /\ UNCHANGED answer
  /\ UNCHANGED <<timers, target, rows, arrived, cut, view>>

\* A request that does not validate ends without an action.handle span.
Validate(r) ==
  /\ stage[r] = "validate"
  /\ \/ /\ start_two_spans(r, "action", {"authz"}, "service")
        /\ Goto(r, "service")
        /\ UNCHANGED answer
     \/ Refuse(r) /\ UNCHANGED timers
  /\ UNCHANGED <<target, spans, rows, arrived, failed, cut, view>>

\* An action other than Publish, or a Publish whose topic or whose subscriptions cannot be
\* read: one span with the result.
HandleAction(r) ==
  /\ stage[r] = "service"
  /\ \E status \in {"ok", "error"} : record_result_span(r, "service", status)
  /\ Goto(r, "action")
  /\ UNCHANGED <<timers, target, rows, arrived, cut, view>>

\* Publish has its topic and the list of subscriptions, which it goes through.
ResolveSubscriptions(r) ==
  /\ stage[r] = "service" /\ answer[r].service = "sns"
  /\ record_new_span(r, "resolve", "service", "ok")
  /\ Goto(r, "fanout")
  /\ UNCHANGED <<target, answer, rows, arrived, cut, view>>

\* The subscriptions still to come, by their evaluations.  One whose endpoint, queue or
\* policy cannot be had is logged and leaves no span.
Unserved(r) == {e \in Evaluations : {e, DeliveryOf[e]} \intersect DOMAIN timers[r] = {}}

\* A subscription with a protocol other than sqs is only recorded.
DeliverElsewhere(r) ==
  /\ stage[r] = "fanout"
  /\ \E e \in Unserved(r) : record_new_span(r, DeliveryOf[e], "service", "ok")
  /\ UNCHANGED <<stage, target, answer, rows, arrived, cut, view>>

\* The queue's policy for one of them.  An enforced denial ends with that subscription.
EvaluateDelivery(r) ==
  /\ stage[r] = "fanout"
  /\ \E e \in Unserved(r), result \in {"allow", "deny"} :
       /\ record_new_span(r, e, "service", result)
       /\ \/ result = "deny" /\ Enforce /\ UNCHANGED <<stage, target>>
          \/ /\ ~(result = "deny" /\ Enforce)
             /\ target' = [target EXCEPT ![r] = e]
             /\ Goto(r, "deliver")
  /\ UNCHANGED <<answer, rows, arrived, cut, view>>

\* The message is put into the queue, or not, which is logged: the fan-out goes on.
Deliver(r) ==
  /\ stage[r] = "deliver"
  /\ \E status \in {"ok", "error"} :
       record_new_span(r, DeliveryOf[target[r]], target[r], status)
  /\ Goto(r, "fanout")
  /\ UNCHANGED <<target, answer, rows, arrived, cut, view>>

\* Whatever became of the deliveries, the publish is ok.
EndPublish(r) ==
  /\ stage[r] = "fanout"
  /\ record_result_span(r, "service", "ok")
  /\ Goto(r, "action")
  /\ UNCHANGED <<timers, target, rows, arrived, cut, view>>

\* A result is rendered, which may fail too; an error is rendered as an error.
RenderedStatuses(status) == {status, "error"}

\* action.handle has the status of the rendered response.
FinishAction(r) ==
  /\ stage[r] = "action"
  /\ \E status \in RenderedStatuses(answer[r].status) : record_result_span(r, "action", status)
  /\ Goto(r, "close")
  /\ UNCHANGED <<timers, target, rows, arrived, cut, view>>

\* Mutant: a refusal that is an ordinary response (403, a validation error) counts as ok.
RequestStatusByResult(r) ==
  IF "authz" \in DOMAIN timers[r] /\ "action" \notin DOMAIN timers[r]
    THEN "ok" ELSE answer[r].status

RequestStatus(r) == answer[r].status

CloseRequest(r) ==
  /\ stage[r] = "close"
  /\ record_span(r, "request", RequestStatus(r))
  /\ Goto(r, "row")
  /\ UNCHANGED <<timers, target, answer, rows, arrived, cut, view>>

\* INSERT INTO hiraeth_trace_request; request ids do not repeat.
InsertRequest(r) ==
  rows' = [q \in DOMAIN rows \union {r} |->
             IF q = r THEN [service |-> answer[r].service, status |-> answer[r].status,
                            started |-> arrived[r]]
                      ELSE rows[q]]

\* Mutant: when the row cannot be written the end of the request is tried again.
InsistOnRow(r) ==
  /\ stage[r] = "row"
  /\ \/ InsertRequest(r) /\ Goto(r, "answered")
     \/ Goto(r, "close") /\ UNCHANGED rows
  /\ UNCHANGED <<timers, target, answer, spans, arrived, failed, cut, view>>

\* record_trace writes the row, or logs that it could not; then the response leaves.
record_trace(r) ==
  /\ stage[r] = "row"
  /\ InsertRequest(r) \/ UNCHANGED rows
  /\ Goto(r, "answered")
  /\ UNCHANGED <<timers, target, answer, spans, arrived, failed, cut, view>>

\* The client goes away: the server drops the request where it waits.
Disconnect(r) ==
  /\ UnderWay(r)
  /\ Goto(r, "gone")
  /\ UNCHANGED <<timers, target, answer, spans, rows, arrived, failed, cut, view>>

--------------------------------------------------------------------------------
(* The console. *)

SpansOf(r) == {s \in spans : s.request = r}

\* Mutant: two statements without a transaction, the spans first.
ClearSpansOnly ==
  /\ spans' = {}
  /\ cut' = cut \union {s.request : s \in spans}
  /\ UNCHANGED <<stage, timers, target, answer, rows, arrived, failed, view>>

\* Both tables are emptied in one transaction.
clear_traces ==
  /\ spans' = {}
  /\ rows' = [r \in {} |-> 0]
  /\ cut' = cut \union {s.request : s \in spans}
  /\ UNCHANGED <<stage, timers, target, answer, arrived, failed, view>>

\* The detail page target the request's row first ...
OpenDetail(r) ==
  /\ view.page = "none"
  /\ r \in DOMAIN rows
  /\ view' = [page |-> "detail", request |-> r, done |-> FALSE, atRow |-> SpansOf(r),
              shown |-> {}]
  /\ UNCHANGED <<stage, timers, target, answer, spans, rows, arrived, failed, cut>>

\* ... and its spans in a second statement.
ShowDetail ==
  /\ view.page = "detail" /\ ~view.done
  /\ view' = [view EXCEPT !.done = TRUE, !.shown = SpansOf(view.request)]
  /\ UNCHANGED <<stage, timers, target, answer, spans, rows, arrived, failed, cut>>

\* The spans trace_graph_view may find for a parent id: of several with one id it keeps the
\* last by its start, which the clock decides.
ParentOf(shown, s) == {t \in shown : t.id \in s.parent}

\* The spans that n calls of span_depth beyond the first may end up at, if they are made.
Ancestor(shown, s, n) ==
  LET up[k \in 0..n] == IF k = 0 THEN {s} ELSE UNION {ParentOf(shown, t) : t \in up[k - 1]}
  IN  up[n]

\* span_depth recurs to the parent until there is none among the spans shown: of as many
\* spans as there are none is visited twice.
DepthEnds(shown, s) == Ancestor(shown, s, Cardinality(shown)) = {}

\* The action of a request, as its action.handle span says: one action per service here.
ActionOf(r) == {answer[r].service : s \in {t \in SpansOf(r) : t.name = "action"}}

\* Blank parameters, and statuses other than ok and error, do not filter.
trace_request_filters(q) ==
  [service |-> q.service, action |-> q.action,
   status |-> IF q.status \in {"ok", "error"} THEN q.status ELSE "any"]

append_request_trace_filters(r, f) ==
  /\ f.service \in {"any", rows[r].service}
  /\ f.status \in {"any", rows[r].status}
  /\ f.action = "any" \/ f.action \in ActionOf(r)

\* The rows that match, with their actions: ORDER BY started_at DESC LIMIT PageSize.
list_request_traces_filtered(f) ==
  LET matching == {r \in DOMAIN rows : append_request_trace_filters(r, f)}
      newer(r) == {q \in matching : rows[q].started > rows[r].started}
  IN  {[request |-> r, service |-> rows[r].service, action |-> ActionOf(r)] :
         r \in {q \in matching : Cardinality(newer(q)) < PageSize}}

list_trace_services == {rows[r].service : r \in DOMAIN rows} \ {"none"}

\* All action.handle spans count, those of requests without a row too.
list_trace_actions == UNION {ActionOf(r) : r \in Requests}

\* What a filter can be set to, besides any.
trace_options(values) == {"any"} \union values

\* Mutant: the choices for the filters are read before the traces.
ChoicesFirst == <<"services", "actions", "traces">>

\* The order of the list page's three statements.
ListReads == <<"traces", "services", "actions">>

ListTraces ==
  /\ view.page = "none"
  /\ \E q \in Queries :
       view' = [page |-> "list", filter |-> trace_request_filters(q), step |-> 1, listed |-> {}, services |-> {},
                actions |-> {}, done |-> FALSE]
  /\ UNCHANGED <<stage, timers, target, answer, spans, rows, arrived, failed, cut>>

ListStatement ==
  /\ view.page = "list" /\ ~view.done
  /\ LET statement == ListReads[view.step]
         later == [view EXCEPT !.step = (@ % 3) + 1, !.done = (view.step = 3)]
     IN  \/ /\ statement = "traces"
            /\ view' = [later EXCEPT !.listed = list_request_traces_filtered(view.filter)]
         \/ /\ statement = "services"
            /\ view' = [later EXCEPT !.services = trace_options(list_trace_services)]
         \/ /\ statement = "actions"
            /\ view' = [later EXCEPT !.actions = trace_options(list_trace_actions)]
  /\ UNCHANGED <<stage, timers, target, answer, spans, rows, arrived, failed, cut>>

LeavePage ==
  /\ view.page # "none" /\ view.done
  /\ view' = [page |-> "none", done |-> TRUE]
  /\ UNCHANGED <<stage, timers, target, answer, spans, rows, arrived, failed, cut>>

--------------------------------------------------------------------------------
Init ==
  /\ stage = [r \in Requests |-> "new"]
  /\ timers = [r \in Requests |-> [n \in {} |-> 0]]
  /\ target = [r \in Requests |-> "none"]
  /\ answer = [r \in Requests |-> [service |-> "none", status |-> "none"]]
  /\ spans = {}
  /\ rows = [r \in {} |-> 0]
  /\ arrived = [r \in Requests |-> 0]
  /\ failed = {}
  /\ cut = {}
  /\ view = [page |-> "none", done |-> TRUE]

Step(r) ==
  \/ Authenticate(r) \/ ResolveIdentity(r) \/ Route(r) \/ Authorize(r) \/ Validate(r)
  \/ HandleAction(r) \/ ResolveSubscriptions(r) \/ DeliverElsewhere(r) \/ EvaluateDelivery(r)
  \/ Deliver(r) \/ EndPublish(r) \/ FinishAction(r) \/ CloseRequest(r) \/ record_trace(r)

Console ==
  \/ clear_traces \/ ShowDetail \/ ListTraces \/ ListStatement \/ LeavePage
  \/ \E r \in Requests : OpenDetail(r)

Next ==
  \/ Console
  \/ \E r \in Requests : RefuseBody(r) \/ Receive(r) \/ Step(r) \/ Disconnect(r)

Spec == Init /\ [][Next]_vars

\* The runtime polls a request whose statement has been answered.
LiveSpec == Spec /\ \A r \in Requests : WF_vars(Step(r))

--------------------------------------------------------------------------------
(* Properties. *)

\* A request that has a row has every span it started, but for those whose own write
\* failed or that were cleared: no way out of the handling of a request skips a span.
\* And the tables keep their types.
TraceComplete ==
  /\ TypeOK
  /\ \A r \in DOMAIN rows : \A name \in DOMAIN timers[r] :
       r \in cut \/ <<r, name>> \in failed \/ \E s \in spans : s.request = r /\ s.name = name

\* The detail page shows the spans there were when it read the row, or, when the traces
\* were cleared in between, none: its two statements never show part of a trace.
DetailWhole ==
  view.page = "detail" /\ view.done =>
    \/ view.shown = view.atRow
    \/ view.shown = {} /\ view.request \notin DOMAIN rows

\* How far below its request a span is started.
Level(name) ==
  CASE name = "request"  -> 1
    [] name = "authn"    -> 2
    [] name = "identity" -> 3
    [] name = "authz"    -> 4
    [] name = "action"   -> 5
    [] name = "service"  -> 6
    [] name \in Evaluations \union {"resolve"} -> 7
    [] OTHER -> 8

\* No two spans r has started at different levels got the same id.
LevelsDistinct(r) ==
  \A m, n \in DOMAIN timers[r] : timers[r][m].id = timers[r][n].id => Level(m) = Level(n)

\* span_depth ends for every span the detail page shows, whichever of its ancestors are
\* missing and although spans side by side, as a publish starts them, have one id.  The
\* code needs what is assumed: where a span has the id of one above it the chain of parents
\* may lead back to it, and span_depth calls itself until the stack is used up.
GraphEnds ==
  view.page = "detail" /\ view.done /\ LevelsDistinct(view.request) =>
    \A s \in view.shown : DepthEnds(view.shown, s)

\* The stored statuses tell one story: the root span and the action's span have the status
\* of the response, and a failed step or an enforced denial makes it an error.  Only the
\* fan-out of a publish is apart: what becomes of a delivery does not show in the response,
\* but where its evaluation was denied and that is enforced there was none.
StatusesAgree ==
  \A r \in DOMAIN rows : \A s \in SpansOf(r) :
    /\ s.name \in {"request", "action"} => s.status = rows[r].status
    /\ s.status = "error" \/ (s.status = "deny" /\ Enforce) =>
         \/ rows[r].status = "error"
         \/ s.name \in Deliveries
         \/ s.name \in Evaluations /\ \A t \in SpansOf(r) : t.name # DeliveryOf[s.name]

\* The list page offers as filters the service and the action of every trace it lists,
\* unless the traces were cleared while it was put together.
FiltersOffered ==
  view.page = "list" /\ view.done =>
    \A t \in view.listed :
      \/ t.request \notin DOMAIN rows
      \/ t.service \in view.services \union {"none"} /\ t.action \subseteq view.actions

\* A request is answered, unless its client leaves, although each of its trace writes
\* may fail.
RequestsAnswered == \A r \in Requests : UnderWay(r) ~> ~UnderWay(r)
================================================================================
