----------------------------- MODULE TracesProofs -----------------------------
(***************************************************************************)
(* Proofs about Traces, for every set of requests, services and queries,   *)
(* every page size and any number of failing writes.                       *)
(***************************************************************************)
EXTENDS Traces, FiniteSetTheorems, WellFoundedInduction, TLAPS

--------------------------------------------------------------------------------
(* The spans a request has started and what has become of them. *)

\* The spans that are running at each stage of a request that is not dropped.
Running ==
  [new |-> {}, authn |-> {"request", "authn"}, identity |-> {"request", "identity"},
   route |-> {"request"}, authz |-> {"request", "authz"}, validate |-> {"request"},
   service |-> {"request", "action", "service"}, fanout |-> {"request", "action", "service"},
   deliver |-> {"request", "action", "service"}, action |-> {"request", "action"},
   close |-> {"request"}, row |-> {}, answered |-> {}, gone |-> SpanNames]

\* The timers a stage may rely on: the running spans, and the one the next span is under.
Needed ==
  [new |-> {}, authn |-> {"request", "authn"}, identity |-> {"request", "identity"},
   route |-> {"request", "identity"}, authz |-> {"request", "authz"},
   validate |-> {"request", "authz"}, service |-> {"request", "action", "service"},
   fanout |-> {"request", "action", "service"}, deliver |-> {"request", "action", "service"},
   action |-> {"request", "action"}, close |-> {"request"}, row |-> {}, answered |-> {},
   gone |-> {}]

\* The spans that may have been started when a request gets to a stage.
Possible ==
  [new |-> {}, authn |-> {"request", "authn"}, identity |-> {"request", "authn", "identity"},
   route |-> {"request", "authn", "identity"},
   authz |-> {"request", "authn", "identity", "authz"},
   validate |-> {"request", "authn", "identity", "authz"},
   service |-> {"request", "authn", "identity", "authz", "action", "service"},
   fanout |-> SpanNames, deliver |-> SpanNames, action |-> SpanNames, close |-> SpanNames,
   row |-> SpanNames, answered |-> SpanNames, gone |-> SpanNames]

Recorded(r, n) ==
  r \in cut \/ <<r, n>> \in failed \/ \E s \in spans : s.request = r /\ s.name = n

Started(r) ==
  Needed[stage[r]] \subseteq DOMAIN timers[r] /\ DOMAIN timers[r] \subseteq Possible[stage[r]]

\* The parent id of a span is that of one started at a level above.
Rooted(open) ==
  \A n \in DOMAIN open : \A i \in open[n].parent :
    \E p \in DOMAIN open : open[p].id = i /\ Level(p) < Level(n)

\* The delivery a publish has come to was evaluated and has not been made.
Aimed(r) ==
  stage[r] = "deliver" =>
    /\ target[r] \in Evaluations /\ target[r] \in DOMAIN timers[r]
    /\ DeliveryOf[target[r]] \notin DOMAIN timers[r]

\* A span that was started is running or recorded.
Covered(r) ==
  \A n \in DOMAIN timers[r] : n \in Running[stage[r]] \/ Recorded(r, n)

\* The row of a request comes last and holds its answer.
Answers(r) ==
  /\ stage[r] \in {"action", "close", "row"} => answer[r].status \in {"ok", "error"}
  /\ r \in DOMAIN rows =>
       /\ stage[r] = "answered"
       /\ rows[r].status = answer[r].status
       /\ rows[r].service = answer[r].service

RequestRight(r) == Started(r) /\ Rooted(timers[r]) /\ Aimed(r) /\ Covered(r) /\ Answers(r)

Failing(s) == s.status = "error" \/ (s.status = "deny" /\ Enforce)

\* No delivery is made after the evaluation e.
Spared(r, e) == DeliveryOf[e] \notin DOMAIN timers[r] /\ ~(stage[r] = "deliver" /\ target[r] = e)

\* A stored span is as it was started.
Stored(s) ==
  /\ s.name \in DOMAIN timers[s.request]
  /\ s.id = timers[s.request][s.name].id
  /\ s.parent = timers[s.request][s.name].parent

\* What a stored span says of the request's answer, and from when on it can be there.
SpanRight(s) ==
  /\ Stored(s)
  /\ s.name = "request" =>
       /\ stage[s.request] \in {"row", "answered", "gone"}
       /\ s.status = answer[s.request].status
  /\ s.name = "action" =>
       /\ stage[s.request] \in {"close", "row", "answered", "gone"}
       /\ s.status = answer[s.request].status
  /\ Failing(s) /\ s.name \in Evaluations => Spared(s.request, s.name)
  /\ Failing(s) /\ s.name \in OwnSpans =>
       /\ stage[s.request] \in {"action", "close", "row", "answered", "gone"}
       /\ answer[s.request].status = "error"

Arrivals == {q \in Requests : arrived[q] > 0}

BaseInv ==
  /\ TypeOK
  /\ DOMAIN timers = Requests
  /\ IsFiniteSet(Arrivals)
  /\ IsFiniteSet(spans)
  /\ \A r \in Requests : RequestRight(r)
  /\ \A s \in spans : SpanRight(s)

--------------------------------------------------------------------------------
(* Starting and recording spans. *)

\* The levels of the spans.
LEMMA LevelsOfSpans ==
  /\ Level("request") = 1 /\ Level("authn") = 2 /\ Level("identity") = 3
  /\ Level("authz") = 4 /\ Level("action") = 5 /\ Level("service") = 6 /\ Level("resolve") = 7
  /\ \A e \in Evaluations : Level(e) = 7 /\ Level(DeliveryOf[e]) = 8
  /\ \A n \in SpanNames : Level(n) \in Nat
<1>1. \A n \in Evaluations \union Deliveries : n \notin OwnSpans
  BY TracesAssumption
<1>2. \A e \in Evaluations : DeliveryOf[e] \in Deliveries /\ DeliveryOf[e] \notin Evaluations
  BY TracesAssumption DEF Deliveries
<1> QED
  BY <1>1, <1>2 DEF Level, OwnSpans

\* A set of timers that may be added to: typed, and with parents above.
Timed(open) ==
  DOMAIN open \subseteq SpanNames /\ open \in [DOMAIN open -> Timer] /\ Rooted(open)

\* A span may be started under any of those that are open at a level above.
Startable(open, name, parents) ==
  /\ Timed(open) /\ name \in SpanNames /\ name \notin DOMAIN open
  /\ parents \subseteq DOMAIN open /\ \A p \in parents : Level(p) < Level(name)

\* The timers are those there were and the new span's.
Extends(new, open, name) ==
  /\ DOMAIN new = DOMAIN open \union {name}
  /\ \A n \in DOMAIN open : new[n] = open[n]

\* An id is a number, whether it coincides with another or not.
LEMMA SpanIds ==
  ASSUME NEW open, Timed(open), NEW id \in new_span_id(open)
  PROVE  id \in Nat
<1>1. IsFiniteSet(DOMAIN open)
  BY TracesAssumption, FS_Subset DEF Timed
<1>2. Cardinality(DOMAIN open) \in Nat
  BY <1>1, FS_CardinalityType
<1>3. \A n \in DOMAIN open : open[n].id \in Nat
  BY DEF Timed, Timer
<1> QED
  BY <1>2, <1>3 DEF new_span_id

\* A new span is below its parents, and the others stay as they are.
LEMMA WithSpanTimed ==
  ASSUME NEW open, NEW id \in Nat, NEW name, NEW parents, Startable(open, name, parents)
  PROVE  /\ Timed(WithSpan(open, id, name, parents))
         /\ Extends(WithSpan(open, id, name, parents), open, name)
<1>0. /\ Timed(open) /\ name \in SpanNames /\ name \notin DOMAIN open
      /\ parents \subseteq DOMAIN open /\ \A p \in parents : Level(p) < Level(name)
  BY DEF Startable
<1> DEFINE ids == {open[p].id : p \in parents}
           span == [id |-> id, parent |-> ids]
           new == WithSpan(open, id, name, parents)
<1>1. ids \in SUBSET Nat /\ \A i \in ids : \E p \in parents : open[p].id = i
  BY <1>0 DEF Timed, Timer
<1> HIDE DEF ids
<1>2. span \in Timer /\ span.parent = ids
  BY <1>1 DEF Timer
<1> HIDE DEF span
<1>3. new = [n \in DOMAIN open \union {name} |-> IF n # name THEN open[n] ELSE span]
  BY DEF WithSpan, span, ids
<1> HIDE DEF new
<1>4. DOMAIN new = DOMAIN open \union {name} /\ new[name] = span
      /\ \A n \in DOMAIN open : new[n] = open[n]
  BY <1>0, <1>3
<1>5. new \in [DOMAIN new -> Timer]
  BY <1>0, <1>2, <1>3, <1>4 DEF Timed
<1>6. ASSUME NEW n \in DOMAIN new, NEW i \in new[n].parent
      PROVE  \E p \in DOMAIN new : new[p].id = i /\ Level(p) < Level(n)
  <2>1. CASE n = name
    <3>1. PICK p \in parents : open[p].id = i
      BY <1>1, <1>2, <1>4, <1>6, <2>1
    <3>2. p \in DOMAIN new /\ new[p].id = i /\ Level(p) < Level(n)
      BY <1>0, <1>4, <2>1, <3>1
    <3> QED
      BY <3>2
  <2>2. CASE n # name
    <3>1. n \in DOMAIN open /\ i \in open[n].parent
      BY <1>4, <1>6, <2>2
    <3>2. PICK p \in DOMAIN open : open[p].id = i /\ Level(p) < Level(n)
      BY <1>0, <3>1 DEF Timed, Rooted
    <3>3. p \in DOMAIN new /\ new[p].id = i
      BY <1>4, <3>2
    <3> QED
      BY <3>2, <3>3
  <2> QED
    BY <2>1, <2>2
<1>7. DOMAIN new \subseteq SpanNames
  BY <1>0, <1>4 DEF Timed
<1>8. Timed(new) /\ Extends(new, open, name)
  BY <1>4, <1>5, <1>6, <1>7 DEF Timed, Rooted, Extends
<1> QED
  BY <1>8 DEF new

\* The timers of request r after a step, with the spans it started.
TimersAfter(r, started) ==
  /\ DOMAIN timers' = Requests
  /\ \A q \in Requests \ {r} : timers'[q] = timers[q]
  /\ Timed(timers'[r])
  /\ DOMAIN timers'[r] = DOMAIN timers[r] \union started
  /\ \A n \in DOMAIN timers[r] : timers'[r][n] = timers[r][n]

\* The spans of a request have parents above them.
LEMMA TimersTimed ==
  ASSUME BaseInv, NEW r \in Requests
  PROVE  Timed(timers[r])
BY DEF BaseInv, TypeOK, Timed, RequestRight

\* A stage that starts no span.
LEMMA NoneStarted ==
  ASSUME BaseInv, NEW r \in Requests, UNCHANGED timers
  PROVE  TimersAfter(r, {})
BY TimersTimed DEF TimersAfter, BaseInv

\* A stage that starts one span.
LEMMA OneStarted ==
  ASSUME BaseInv, NEW r \in Requests, NEW name, NEW parents, Startable(timers[r], name, parents),
         start_span(r, name, parents)
  PROVE  TimersAfter(r, {name})
<1>1. PICK id \in new_span_id(timers[r]) :
        timers' = [timers EXCEPT ![r] = WithSpan(timers[r], id, name, parents)]
  BY DEF start_span
<1>2. PICK open : open = timers[r]
  OBVIOUS
<1> DEFINE new == WithSpan(open, id, name, parents)
<1>3. id \in Nat
  BY <1>1, TimersTimed, SpanIds
<1>4. Timed(new) /\ Extends(new, open, name)
  BY <1>2, <1>3, WithSpanTimed
<1>5. timers' = [timers EXCEPT ![r] = new] /\ DOMAIN timers = Requests
  BY <1>1, <1>2 DEF BaseInv
<1> HIDE DEF new
<1> QED
  BY <1>2, <1>4, <1>5 DEF TimersAfter, Extends

\* A stage that starts two spans.
LEMMA TwoStarted ==
  ASSUME BaseInv, NEW r \in Requests, NEW first, NEW second, NEW parents,
         Startable(timers[r], first, parents), start_two_spans(r, first, parents, second),
         second \in SpanNames, second \notin DOMAIN timers[r], second # first,
         Level(first) < Level(second)
  PROVE  TimersAfter(r, {first, second})
<1>1. PICK open : open = timers[r]
  OBVIOUS
<1>2. PICK id \in new_span_id(open) :
        LET mid == WithSpan(open, id, first, parents)
        IN  \E next \in new_span_id(mid) :
              timers' = [timers EXCEPT ![r] = WithSpan(mid, next, second, {first})]
  BY <1>1 DEF start_two_spans
<1> DEFINE mid == WithSpan(open, id, first, parents)
<1>3. PICK next \in new_span_id(mid) :
        timers' = [timers EXCEPT ![r] = WithSpan(mid, next, second, {first})]
  BY <1>2
<1>4. id \in Nat
  BY <1>1, <1>2, TimersTimed, SpanIds
<1>5. Timed(mid) /\ Extends(mid, open, first)
  BY <1>1, <1>4, WithSpanTimed
<1> HIDE DEF mid
<1> DEFINE new == WithSpan(mid, next, second, {first})
<1>6. next \in Nat
  BY <1>3, <1>5, SpanIds
<1>7. Startable(mid, second, {first})
  BY <1>1, <1>5 DEF Startable, Extends
<1>8. Timed(new) /\ Extends(new, mid, second)
  BY <1>6, <1>7, WithSpanTimed
<1>9. timers' = [timers EXCEPT ![r] = new] /\ DOMAIN timers = Requests
  BY <1>3 DEF BaseInv
<1> HIDE DEF new
<1> QED
  BY <1>1, <1>5, <1>8, <1>9 DEF TimersAfter, Extends

\* The span that r has recorded, or failed to record.
SpanOf(s, r, n, status) ==
  /\ s \in SpanRow
  /\ s.request = r /\ s.name = n /\ s.status = status
  /\ s.id = timers'[r][n].id /\ s.parent = timers'[r][n].parent

Kept == spans' = spans /\ failed' = failed

Written(r, n, status) ==
  /\ n \in DOMAIN timers'[r]
  /\ spans \subseteq spans' /\ \A s \in spans' : s \in spans \/ SpanOf(s, r, n, status)
  /\ failed \subseteq failed' /\ failed' \subseteq Requests \X SpanNames
  /\ IsFiniteSet(spans')
  /\ <<r, n>> \in failed' \/ \E s \in spans' : s.request = r /\ s.name = n

\* A span that ends is stored as it was started with its status, or its write failed.
LEMMA RecordedTimer ==
  ASSUME BaseInv, NEW r \in Requests, NEW started, TimersAfter(r, started),
         NEW n \in DOMAIN timers'[r], NEW status \in {"ok", "error", "allow", "deny"},
         record_span_or_warn(r, n, timers'[r][n], status)
  PROVE  Written(r, n, status)
<1>1. PICK t : t = timers'[r][n]
  OBVIOUS
<1>2. /\ n \in SpanNames /\ t \in Timer
      /\ IsFiniteSet(spans) /\ failed \subseteq Requests \X SpanNames
  BY <1>1 DEF BaseInv, TypeOK, TimersAfter, Timed
<1>3. CASE InsertSpan(r, n, t, status) /\ UNCHANGED failed
  <2> DEFINE s == [request |-> r, name |-> n, id |-> t.id, status |-> status,
                   parent |-> t.parent]
  <2>1. spans' = spans \union {s}
    BY <1>3 DEF InsertSpan
  <2>2. SpanOf(s, r, n, status)
    BY <1>1, <1>2 DEF SpanOf, SpanRow, Timer
  <2> HIDE DEF s
  <2>3. IsFiniteSet(spans \union {s})
    BY <1>2, FS_AddElement
  <2>4. s \in spans' /\ s.request = r /\ s.name = n
    BY <2>1, <2>2 DEF SpanOf
  <2> QED
    BY <1>2, <1>3, <2>1, <2>2, <2>3, <2>4 DEF Written
<1>4. CASE failed' = failed \union {<<r, n>>} /\ UNCHANGED spans
  BY <1>2, <1>4 DEF Written
<1> QED
  BY <1>1, <1>3, <1>4 DEF record_span_or_warn

\* A span that was running is recorded.
LEMMA RecordedSpan ==
  ASSUME BaseInv, NEW r \in Requests, NEW started, TimersAfter(r, started),
         NEW n \in DOMAIN timers[r], NEW status \in {"ok", "error", "allow", "deny"},
         record_span(r, n, status)
  PROVE  Written(r, n, status)
<1>1. n \in DOMAIN timers'[r] /\ timers'[r][n] = timers[r][n]
  BY DEF TimersAfter
<1> QED
  BY <1>1, RecordedTimer DEF record_span

\* A span is started and recorded at once.
LEMMA RecordedNew ==
  ASSUME BaseInv, NEW r \in Requests, NEW n, NEW parent, Startable(timers[r], n, {parent}),
         NEW status \in {"ok", "error", "allow", "deny"}, record_new_span(r, n, parent, status)
  PROVE  TimersAfter(r, {n}) /\ Written(r, n, status)
<1>1. TimersAfter(r, {n})
  BY OneStarted DEF record_new_span
<1>2. n \in DOMAIN timers'[r]
  BY <1>1 DEF TimersAfter
<1> QED
  BY <1>1, <1>2, RecordedTimer DEF record_new_span

--------------------------------------------------------------------------------
(* A step of a request. *)

\* What a step from one stage to the next may start, record and answer: n is the span it
\* records, or none, and old and new are the statuses of the answer.
Legal(from, to, started, n, status, old, new) ==
  /\ from \in Stages \ {"answered", "gone"} /\ to \in Stages
  /\ Needed[to] \subseteq Needed[from] \union started
  /\ Possible[from] \union started \subseteq Possible[to]
  /\ started \subseteq Running[to] \union {n}
  /\ Running[from] \subseteq Running[to] \union {n}
  /\ to \in {"action", "close", "row"} => new \in {"ok", "error"}
  /\ from = "row" => to \in {"answered", "gone"} /\ new = old
  /\ from = "close" => to \in {"row", "gone"} /\ new = old
  /\ from = "action" => to \in {"close", "gone"} /\ new \in {old, "error"}
  /\ n = "request" => to = "row" /\ status = new
  /\ n = "action" => to = "close" /\ status = new
  /\ n \in OwnSpans /\ (status = "error" \/ (status = "deny" /\ Enforce)) =>
       to \in {"action", "close", "row"} /\ new = "error"

\* What a step does to the deliveries: where an evaluation was denied, none follows.
Served(r, n, status) ==
  /\ target' \in [Requests -> Evaluations \union {"none"}]
  /\ \A q \in Requests \ {r} : target'[q] = target[q]
  /\ Aimed(r)'
  /\ \A e \in Evaluations : e \in DOMAIN timers[r] /\ Spared(r, e) => Spared(r, e)'
  /\ n \in Evaluations /\ (status = "error" \/ (status = "deny" /\ Enforce)) => Spared(r, n)'

Move(r, from, to, started, n, status, ans) ==
  /\ Legal(from, to, started, n, status, answer[r].status, ans.status)
  /\ stage[r] = from /\ stage' = [stage EXCEPT ![r] = to]
  /\ ans \in Answer /\ answer' = [answer EXCEPT ![r] = ans]
  /\ TimersAfter(r, started) /\ Served(r, n, status)
  /\ (n = "none" /\ Kept) \/ (n # "none" /\ Written(r, n, status))
  /\ rows' = rows \/ (from = "row" /\ to = "answered" /\ ans = answer[r] /\ InsertRequest(r))
  /\ arrived' \in [Requests -> Nat] /\ IsFiniteSet(Arrivals')
  /\ cut' = cut /\ view' = view

\* A move of a request keeps the types.
LEMMA MoveTypes ==
  ASSUME BaseInv, NEW r \in Requests, NEW from, NEW to, NEW started, NEW n, NEW status, NEW ans,
         Move(r, from, to, started, n, status, ans)
  PROVE  TypeOK' /\ (DOMAIN timers = Requests)' /\ IsFiniteSet(Arrivals)' /\ IsFiniteSet(spans)'
<1>0. TypeOK
  BY DEF BaseInv
<1>1. stage' \in [Requests -> Stages]
  BY <1>0 DEF Move, Legal, TypeOK
<1>2. ASSUME NEW q \in Requests
      PROVE  DOMAIN timers'[q] \subseteq SpanNames /\ timers'[q] \in [DOMAIN timers'[q] -> Timer]
  BY <1>0 DEF Move, TimersAfter, TypeOK, Timed
<1>3. target' \in [Requests -> Evaluations \union {"none"}] /\ DOMAIN timers' = Requests
  BY DEF Move, TimersAfter, Served
<1>4. answer' \in [Requests -> Answer]
  BY <1>0 DEF Move, TypeOK
<1>5. /\ spans' \subseteq SpanRow /\ IsFiniteSet(spans')
      /\ failed' \subseteq Requests \X SpanNames
  BY <1>0 DEF Move, TypeOK, BaseInv, Kept, Written, SpanOf
<1>6. DOMAIN rows' \subseteq Requests /\ rows' \in [DOMAIN rows' -> RequestRow]
  <2>1. CASE rows' = rows
    BY <1>0, <2>1 DEF TypeOK
  <2>2. CASE from = "row" /\ InsertRequest(r)
    <3> DEFINE new == [service |-> answer[r].service, status |-> answer[r].status,
                       started |-> arrived[r]]
    <3>1. answer[r].status \in {"ok", "error"}
      BY <2>2 DEF BaseInv, RequestRight, Answers, Move
    <3>2. answer[r].service \in Services \union {"none"} /\ arrived[r] \in Nat
      BY <1>0 DEF TypeOK, Answer
    <3>3. new \in RequestRow
      BY <3>1, <3>2 DEF RequestRow
    <3>4. rows' = [q \in DOMAIN rows \union {r} |-> IF q = r THEN new ELSE rows[q]]
      BY <2>2 DEF InsertRequest
    <3> HIDE DEF new
    <3> QED
      BY <1>0, <3>3, <3>4 DEF TypeOK
  <2> QED
    BY <2>1, <2>2 DEF Move
<1>7. arrived' \in [Requests -> Nat] /\ IsFiniteSet(Arrivals') /\ cut' \subseteq Requests
      /\ view'.page \in {"none", "detail", "list"}
  BY <1>0 DEF Move, TypeOK
<1> QED
  BY <1>1, <1>2, <1>3, <1>4, <1>5, <1>6, <1>7 DEF TypeOK, Arrivals

\* What is recorded stays recorded, unless all is cleared.
LEMMA MoveRecords ==
  ASSUME NEW r, NEW from, NEW to, NEW started, NEW n, NEW status, NEW ans,
         Move(r, from, to, started, n, status, ans),
         NEW q, NEW m, Recorded(q, m)
  PROVE  Recorded(q, m)'
BY DEF Move, Recorded, Kept, Written

\* A move of a request leaves the others as they are.
LEMMA MoveOthers ==
  ASSUME BaseInv, NEW r \in Requests, NEW from, NEW to, NEW started, NEW n, NEW status, NEW ans,
         Move(r, from, to, started, n, status, ans),
         NEW q \in Requests, q # r
  PROVE  RequestRight(q)'
<1>1. /\ stage'[q] = stage[q] /\ answer'[q] = answer[q]
      /\ timers'[q] = timers[q] /\ target'[q] = target[q]
  BY DEF Move, BaseInv, TypeOK, TimersAfter, Served
<1>2. RequestRight(q)
  BY DEF BaseInv
<1>3. Started(q)' /\ Rooted(timers[q])' /\ Aimed(q)'
  BY <1>1, <1>2 DEF RequestRight, Started, Rooted, Aimed
<1>4. Covered(q)'
  BY <1>1, <1>2, MoveRecords DEF RequestRight, Covered
<1>5. q \in DOMAIN rows' => q \in DOMAIN rows /\ rows'[q] = rows[q]
  <2>1. CASE rows' = rows
    BY <2>1
  <2>2. CASE InsertRequest(r)
    BY <2>2 DEF InsertRequest
  <2> QED
    BY <2>1, <2>2 DEF Move
<1>6. Answers(q)'
  BY <1>1, <1>2, <1>5 DEF RequestRight, Answers
<1> QED
  BY <1>3, <1>4, <1>6 DEF RequestRight

\* A move of a request keeps what is known of it.
LEMMA MoveOwn ==
  ASSUME BaseInv, NEW r \in Requests, NEW from, NEW to, NEW started, NEW n, NEW status, NEW ans,
         Move(r, from, to, started, n, status, ans)
  PROVE  RequestRight(r)'
<1>1. stage'[r] = to /\ answer'[r] = ans /\ stage[r] = from
  BY DEF Move, BaseInv, TypeOK
<1>2. RequestRight(r)
  BY DEF BaseInv
<1>3. DOMAIN timers'[r] = DOMAIN timers[r] \union started /\ Timed(timers'[r])
  BY DEF Move, TimersAfter
<1>4. Started(r)'
  BY <1>1, <1>2, <1>3 DEF RequestRight, Started, Move, Legal
<1>5. Rooted(timers[r])' /\ Aimed(r)'
  BY <1>3 DEF Timed, Rooted, Move, Served
<1>6. Covered(r)'
  <2> SUFFICES ASSUME NEW m \in DOMAIN timers'[r], m \notin Running[to]
               PROVE  Recorded(r, m)'
    BY <1>1 DEF Covered
  <2>1. started \subseteq Running[to] \union {n} /\ Running[from] \subseteq Running[to] \union {n}
    BY DEF Move, Legal
  <2>2. m \in DOMAIN timers[r] \/ m = n
    BY <1>3, <2>1
  <2>3. CASE Recorded(r, m)
    BY <2>3, MoveRecords
  <2>4. CASE m = n
    <3>1. m \in SpanNames /\ "none" \notin SpanNames
      BY <1>3, TracesAssumption DEF Timed, SpanNames, OwnSpans
    <3> QED
      BY <2>4, <3>1 DEF Move, Written, Recorded
  <2> QED
    BY <1>1, <1>2, <2>1, <2>2, <2>3, <2>4 DEF RequestRight, Covered
<1>7. Answers(r)'
  <2>1. r \notin DOMAIN rows
    BY <1>1, <1>2 DEF RequestRight, Answers, Move, Legal
  <2>2. to \in {"action", "close", "row"} => ans.status \in {"ok", "error"}
    BY DEF Move, Legal
  <2>3. CASE rows' = rows
    BY <1>1, <2>1, <2>2, <2>3 DEF Answers
  <2>4. CASE from = "row" /\ to = "answered" /\ ans = answer[r] /\ InsertRequest(r)
    <3> DEFINE new == [service |-> answer[r].service, status |-> answer[r].status,
                       started |-> arrived[r]]
    <3>1. rows'[r] = new
      BY <2>4 DEF InsertRequest
    <3>2. ans = answer[r]
      BY <2>4
    <3> QED
      BY <1>1, <2>2, <2>4, <3>1, <3>2 DEF Answers
  <2> QED
    BY <2>3, <2>4 DEF Move
<1> QED
  BY <1>4, <1>5, <1>6, <1>7 DEF RequestRight

\* A move of a request keeps what is known of the spans.
LEMMA MoveSpans ==
  ASSUME BaseInv, NEW r \in Requests, NEW from, NEW to, NEW started, NEW n, NEW status, NEW ans,
         Move(r, from, to, started, n, status, ans),
         NEW s \in spans'
  PROVE  SpanRight(s)'
<1>1. stage'[r] = to /\ answer'[r] = ans /\ stage[r] = from
  BY DEF Move, BaseInv, TypeOK
<1>2. Legal(from, to, started, n, status, answer[r].status, ans.status)
  BY DEF Move
<1>3. CASE s \in spans
  <2>1. SpanRight(s) /\ s.request \in Requests
    BY <1>3 DEF BaseInv, TypeOK, SpanRow
  <2>2. CASE s.request = r
    <3>1. s.name \in DOMAIN timers[r]
      BY <2>1, <2>2 DEF SpanRight, Stored
    <3>2. Stored(s)'
      BY <2>1, <2>2, <3>1 DEF SpanRight, Stored, Move, TimersAfter
    <3>3. Failing(s) /\ s.name \in Evaluations => Spared(s.request, s.name)'
      BY <2>1, <2>2, <3>1 DEF SpanRight, Move, Served
    <3> QED
      BY <1>1, <1>2, <2>1, <2>2, <3>2, <3>3 DEF SpanRight, Failing, Legal
  <2>3. CASE s.request # r
    <3>1. /\ stage'[s.request] = stage[s.request] /\ answer'[s.request] = answer[s.request]
          /\ timers'[s.request] = timers[s.request] /\ target'[s.request] = target[s.request]
      BY <2>1, <2>3 DEF Move, BaseInv, TypeOK, TimersAfter, Served
    <3> QED
      BY <2>1, <3>1 DEF SpanRight, Stored, Failing, Spared
  <2> QED
    BY <2>2, <2>3
<1>4. CASE n # "none" /\ SpanOf(s, r, n, status) /\ Written(r, n, status)
  <2>1. Stored(s)'
    BY <1>4 DEF SpanOf, Stored, Written
  <2>2. Failing(s) /\ s.name \in Evaluations => Spared(s.request, s.name)'
    BY <1>4 DEF SpanOf, Failing, Move, Served
  <2> QED
    BY <1>1, <1>2, <1>4, <2>1, <2>2 DEF SpanOf, SpanRight, Failing, Legal
<1> QED
  BY <1>3, <1>4 DEF Move, Kept, Written

\* A move of a request keeps BaseInv.
LEMMA MoveKeeps ==
  ASSUME BaseInv, NEW r \in Requests, NEW from, NEW to, NEW started, NEW n, NEW status, NEW ans,
         Move(r, from, to, started, n, status, ans)
  PROVE  BaseInv'
<1>1. \A q \in Requests : RequestRight(q)'
  BY MoveOthers, MoveOwn
<1>2. \A s \in spans' : SpanRight(s)'
  BY MoveSpans
<1> QED
  BY <1>1, <1>2, MoveTypes DEF BaseInv

--------------------------------------------------------------------------------
(* The steps of the model are such steps. *)

Moved(r) ==
  \E from, to, started, n, status, ans : Move(r, from, to, started, n, status, ans)

\* The answer of r after a step, and its status.
Answered(r, ans, status) ==
  ans \in Answer /\ ans.status = status /\ answer' = [answer EXCEPT ![r] = ans]

\* A move without a change of the answer.
LEMMA SameAnswer ==
  ASSUME BaseInv, NEW r \in Requests, answer' = answer
  PROVE  Answered(r, answer[r], answer[r].status)
BY DEF BaseInv, TypeOK, Answered

\* A move that gives the answer its status.
LEMMA StatusAnswered ==
  ASSUME BaseInv, NEW r \in Requests, NEW status \in {"ok", "error"},
         answer' = [answer EXCEPT ![r].status = status]
  PROVE  \E ans : Answered(r, ans, status)
<1> DEFINE ans == [answer[r] EXCEPT !.status = status]
<1>1. ans \in Answer /\ ans.status = status
  BY DEF BaseInv, TypeOK, Answer
<1>2. answer' = [answer EXCEPT ![r] = ans]
  OBVIOUS
<1> HIDE DEF ans
<1> QED
  BY <1>1, <1>2 DEF Answered

\* A move that gives the answer its service.
LEMMA ServiceAnswered ==
  ASSUME BaseInv, NEW r \in Requests, NEW service \in Services,
         answer' = [answer EXCEPT ![r].service = service]
  PROVE  \E ans : Answered(r, ans, answer[r].status)
<1> DEFINE ans == [answer[r] EXCEPT !.service = service]
<1>1. ans \in Answer /\ ans.status = answer[r].status
  BY DEF BaseInv, TypeOK, Answer
<1>2. answer' = [answer EXCEPT ![r] = ans]
  OBVIOUS
<1> HIDE DEF ans
<1> QED
  BY <1>1, <1>2 DEF Answered

\* A step that only moves a request on and records n, or nothing.
Goes(r, from, to, n, status) ==
  /\ stage[r] = from /\ stage' = [stage EXCEPT ![r] = to]
  /\ (n = "none" /\ Kept) \/ (n # "none" /\ Written(r, n, status))
  /\ rows' = rows /\ arrived' = arrived /\ cut' = cut /\ view' = view

\* A step that has nothing to do with deliveries.
LEMMA NoneServed ==
  ASSUME BaseInv, NEW r \in Requests, NEW started, NEW n, NEW status,
         UNCHANGED target, stage'[r] # "deliver",
         TimersAfter(r, started), started \subseteq OwnSpans, n \in OwnSpans \union {"none"}
  PROVE  Served(r, n, status)
<1>1. target \in [Requests -> Evaluations \union {"none"}]
  BY DEF BaseInv, TypeOK
<1>2. n \notin Evaluations
  BY TracesAssumption
<1>3. \A e \in Evaluations : DeliveryOf[e] \notin OwnSpans
  BY TracesAssumption DEF Deliveries
<1>4. ASSUME NEW e \in Evaluations, Spared(r, e)
      PROVE  Spared(r, e)'
  BY <1>1, <1>3, <1>4 DEF Spared, TimersAfter
<1> QED
  BY <1>1, <1>2, <1>4 DEF Served, Aimed

\* A stage that goes as the order of the stages allows is a move.
LEMMA GoesMoves ==
  ASSUME BaseInv, NEW r \in Requests, NEW from, NEW to, NEW started, NEW n, NEW status, NEW ans,
         NEW new, Goes(r, from, to, n, status), TimersAfter(r, started), Served(r, n, status),
         Answered(r, ans, new), Legal(from, to, started, n, status, answer[r].status, new)
  PROVE  Moved(r)
<1>1. arrived' \in [Requests -> Nat] /\ IsFiniteSet(Arrivals')
  BY DEF Goes, BaseInv, TypeOK, Arrivals
<1>2. Move(r, from, to, started, n, status, ans)
  BY <1>1 DEF Move, Goes, Answered
<1> QED
  BY <1>2 DEF Moved

\* So is one that has nothing to do with deliveries.
LEMMA OwnMoves ==
  ASSUME BaseInv, NEW r \in Requests, NEW from, NEW to, NEW started, NEW n, NEW status, NEW ans,
         NEW new, Goes(r, from, to, n, status), TimersAfter(r, started), UNCHANGED target,
         to # "deliver", started \subseteq OwnSpans, n \in OwnSpans \union {"none"},
         Answered(r, ans, new), Legal(from, to, started, n, status, answer[r].status, new)
  PROVE  Moved(r)
<1>1. stage'[r] # "deliver"
  BY DEF Goes, BaseInv, TypeOK
<1>2. Served(r, n, status)
  BY <1>1, NoneServed
<1> QED
  BY <1>2, GoesMoves

\* A span that can be started where the request is.
LEMMA CanStart ==
  ASSUME BaseInv, NEW r \in Requests, NEW name \in SpanNames, NEW parents,
         parents \subseteq Needed[stage[r]], name \notin Possible[stage[r]],
         \A p \in parents : Level(p) < Level(name)
  PROVE  Startable(timers[r], name, parents)
<1>1. Started(r) /\ Timed(timers[r])
  BY TimersTimed DEF BaseInv, RequestRight
<1> QED
  BY <1>1 DEF Started, Startable

\* A refusal is a move to the end.
LEMMA RefuseMoves ==
  ASSUME BaseInv, NEW r \in Requests, NEW from, NEW n, NEW status,
         Goes(r, from, "close", n, status),
         Refuse(r), UNCHANGED <<timers, target>>,
         <<from, n>> \in {<<"authn", "authn">>, <<"identity", "identity">>, <<"route", "none">>,
                          <<"authz", "authz">>, <<"validate", "none">>}
  PROVE  Moved(r)
<1>1. PICK ans : Answered(r, ans, "error")
  BY StatusAnswered DEF Refuse
<1>2. TimersAfter(r, {})
  BY NoneStarted
<1>3. Legal(from, "close", {}, n, status, answer[r].status, "error")
  BY DEF Legal, Running, Needed, Possible, Stages, SpanNames, OwnSpans
<1>4. n \in OwnSpans \union {"none"}
  BY DEF OwnSpans
<1> QED
  BY <1>1, <1>2, <1>3, <1>4, OwnMoves

\* Authentication is a move.
LEMMA AuthenticateMoves ==
  ASSUME BaseInv, NEW r \in Requests, Authenticate(r)
  PROVE  Moved(r)
<1>1. stage[r] = "authn" /\ {"request", "authn"} \subseteq DOMAIN timers[r]
  BY DEF Authenticate, BaseInv, RequestRight, Started, Needed
<1>2. CASE /\ record_span(r, "authn", "ok") /\ start_span(r, "identity", {"authn"})
           /\ Goto(r, "identity") /\ UNCHANGED answer
  <2>1. Startable(timers[r], "identity", {"authn"})
    <3>1. "identity" \in SpanNames /\ "identity" \notin Possible[stage[r]]
          /\ {"authn"} \subseteq Needed[stage[r]]
      BY <1>1 DEF SpanNames, OwnSpans, Possible, Needed
    <3> QED
      BY <3>1, CanStart, LevelsOfSpans
  <2>2. TimersAfter(r, {"identity"})
    BY <1>2, <2>1, OneStarted
  <2>3. Written(r, "authn", "ok")
    BY <1>1, <1>2, <2>2, RecordedSpan
  <2>4. Goes(r, "authn", "identity", "authn", "ok")
    BY <1>2, <2>3 DEF Authenticate, Goes, Goto
  <2>5. Legal("authn", "identity", {"identity"}, "authn", "ok", answer[r].status, answer[r].status)
    BY DEF Legal, Running, Needed, Possible, Stages
  <2>6. Answered(r, answer[r], answer[r].status) /\ UNCHANGED target
    BY <1>2, SameAnswer DEF Authenticate
  <2> QED
    BY <2>2, <2>4, <2>5, <2>6, OwnMoves DEF OwnSpans
<1>3. CASE record_span(r, "authn", "error") /\ Refuse(r) /\ UNCHANGED timers
  <2>1. Written(r, "authn", "error")
    BY <1>1, <1>3, NoneStarted, RecordedSpan
  <2>2. Goes(r, "authn", "close", "authn", "error") /\ UNCHANGED target
    BY <1>3, <2>1 DEF Authenticate, Goes, Goto, Refuse
  <2> QED
    BY <1>3, <2>2, RefuseMoves
<1> QED
  BY <1>2, <1>3 DEF Authenticate

\* The lookup of the identity is a move.
LEMMA ResolveIdentityMoves ==
  ASSUME BaseInv, NEW r \in Requests, ResolveIdentity(r)
  PROVE  Moved(r)
<1>1. {"request", "identity"} \subseteq DOMAIN timers[r]
  BY DEF ResolveIdentity, BaseInv, RequestRight, Started, Needed
<1>0. TimersAfter(r, {}) /\ UNCHANGED <<timers, target>>
  BY NoneStarted DEF ResolveIdentity
<1>2. ASSUME NEW service \in Services, record_span(r, "identity", "ok"),
             answer' = [answer EXCEPT ![r].service = service], Goto(r, "route")
      PROVE  Moved(r)
  <2>1. Written(r, "identity", "ok")
    BY <1>0, <1>1, <1>2, RecordedSpan
  <2>2. Goes(r, "identity", "route", "identity", "ok")
    BY <1>2, <2>1 DEF ResolveIdentity, Goes, Goto
  <2>4. PICK ans : Answered(r, ans, answer[r].status)
    BY <1>2, ServiceAnswered
  <2>5. Legal("identity", "route", {}, "identity", "ok", answer[r].status, answer[r].status)
    BY DEF Legal, Running, Needed, Possible, Stages
  <2> QED
    BY <1>0, <2>2, <2>4, <2>5, OwnMoves DEF OwnSpans
<1>3. CASE record_span(r, "identity", "error") /\ Refuse(r)
  <2>1. Written(r, "identity", "error")
    BY <1>0, <1>1, <1>3, RecordedSpan
  <2>2. Goes(r, "identity", "close", "identity", "error")
    BY <1>3, <2>1 DEF ResolveIdentity, Goes, Goto, Refuse
  <2> QED
    BY <1>0, <1>3, <2>2, RefuseMoves
<1> QED
  BY <1>2, <1>3 DEF ResolveIdentity

\* Routing is a move.
LEMMA RouteMoves ==
  ASSUME BaseInv, NEW r \in Requests, Route(r)
  PROVE  Moved(r)
<1>1. stage[r] = "route" /\ UNCHANGED target
  BY DEF Route
<1>2. CASE start_span(r, "authz", {"identity"}) /\ Goto(r, "authz") /\ UNCHANGED answer
  <2>1. Goes(r, "route", "authz", "none", "ok")
    BY <1>2 DEF Route, Goes, Goto, Kept
  <2>2. Startable(timers[r], "authz", {"identity"})
    <3>1. "authz" \in SpanNames /\ "authz" \notin Possible[stage[r]]
          /\ {"identity"} \subseteq Needed[stage[r]]
      BY <1>1 DEF SpanNames, OwnSpans, Possible, Needed
    <3> QED
      BY <3>1, CanStart, LevelsOfSpans
  <2>3. TimersAfter(r, {"authz"})
    BY <1>2, <2>2, OneStarted
  <2>4. Legal("route", "authz", {"authz"}, "none", "ok", answer[r].status, answer[r].status)
    BY DEF Legal, Running, Needed, Possible, Stages, OwnSpans
  <2> QED
    BY <1>1, <1>2, <2>1, <2>3, <2>4, SameAnswer, OwnMoves DEF OwnSpans
<1>3. CASE Refuse(r) /\ UNCHANGED timers
  <2>1. Goes(r, "route", "close", "none", "ok")
    BY <1>3 DEF Route, Goes, Goto, Refuse, Kept
  <2> QED
    BY <1>1, <1>3, <2>1, RefuseMoves
<1> QED
  BY <1>2, <1>3 DEF Route

\* Authorization is a move.
LEMMA AuthorizeMoves ==
  ASSUME BaseInv, NEW r \in Requests, Authorize(r)
  PROVE  Moved(r)
<1>1. {"request", "authz"} \subseteq DOMAIN timers[r]
  BY DEF Authorize, BaseInv, RequestRight, Started, Needed
<1>0. TimersAfter(r, {}) /\ UNCHANGED <<timers, target>>
  BY NoneStarted DEF Authorize
<1>2. PICK result \in {"allow", "deny"} :
        /\ record_span(r, "authz", result)
        /\ \/ result = "deny" /\ Enforce /\ Refuse(r)
           \/ ~(result = "deny" /\ Enforce) /\ Goto(r, "validate") /\ UNCHANGED answer
  BY DEF Authorize
<1>3. Written(r, "authz", result)
  BY <1>0, <1>1, <1>2, RecordedSpan
<1>4. CASE Refuse(r)
  <2>1. Goes(r, "authz", "close", "authz", result)
    BY <1>3, <1>4 DEF Authorize, Goes, Goto, Refuse
  <2> QED
    BY <1>0, <1>4, <2>1, RefuseMoves
<1>5. CASE ~(result = "deny" /\ Enforce) /\ Goto(r, "validate") /\ UNCHANGED answer
  <2>1. Goes(r, "authz", "validate", "authz", result)
    BY <1>3, <1>5 DEF Authorize, Goes, Goto
  <2>3. Legal("authz", "validate", {}, "authz", result, answer[r].status, answer[r].status)
    BY <1>5 DEF Legal, Running, Needed, Possible, Stages
  <2> QED
    BY <1>0, <1>5, <2>1, <2>3, SameAnswer, OwnMoves DEF OwnSpans
<1> QED
  BY <1>2, <1>4, <1>5

\* Validation is a move.
LEMMA ValidateMoves ==
  ASSUME BaseInv, NEW r \in Requests, Validate(r)
  PROVE  Moved(r)
<1>1. stage[r] = "validate" /\ UNCHANGED target
  BY DEF Validate
<1>2. CASE start_two_spans(r, "action", {"authz"}, "service") /\ Goto(r, "service") /\ UNCHANGED answer
  <2>1. Goes(r, "validate", "service", "none", "ok")
    BY <1>2 DEF Validate, Goes, Goto, Kept
  <2>2. /\ {"action", "service"} \subseteq SpanNames /\ "action" \notin Possible[stage[r]]
        /\ "service" \notin DOMAIN timers[r] /\ {"authz"} \subseteq Needed[stage[r]]
    <3>1. "service" \notin Possible[stage[r]] /\ DOMAIN timers[r] \subseteq Possible[stage[r]]
      BY <1>1 DEF BaseInv, RequestRight, Started, Possible
    <3> QED
      BY <1>1, <3>1 DEF SpanNames, OwnSpans, Possible, Needed
  <2>3. Startable(timers[r], "action", {"authz"})
    BY <2>2, CanStart, LevelsOfSpans
  <2>4. TimersAfter(r, {"action", "service"})
    <3>1. Level("action") < Level("service")
      BY LevelsOfSpans
    <3> QED
      BY <1>2, <2>2, <2>3, <3>1, TwoStarted
  <2>5. Legal("validate", "service", {"action", "service"}, "none", "ok",
              answer[r].status, answer[r].status)
    BY DEF Legal, Running, Needed, Possible, Stages, OwnSpans
  <2> QED
    BY <1>1, <1>2, <2>1, <2>4, <2>5, SameAnswer, OwnMoves DEF OwnSpans
<1>3. CASE Refuse(r) /\ UNCHANGED timers
  <2>1. Goes(r, "validate", "close", "none", "ok")
    BY <1>3 DEF Validate, Goes, Goto, Refuse, Kept
  <2> QED
    BY <1>1, <1>3, <2>1, RefuseMoves
<1> QED
  BY <1>2, <1>3 DEF Validate

\* The end of an action's own span is a move.
LEMMA ServiceEnds ==
  ASSUME BaseInv, NEW r \in Requests, NEW from \in {"service", "fanout"}, stage[r] = from,
         NEW status \in {"ok", "error"}, record_result_span(r, "service", status),
         Goto(r, "action"), UNCHANGED <<timers, target, rows, arrived, cut, view>>
  PROVE  Moved(r)
<1>1. "service" \in DOMAIN timers[r]
  BY DEF BaseInv, RequestRight, Started, Needed
<1>2. TimersAfter(r, {})
  BY NoneStarted
<1>3. Written(r, "service", status)
  BY <1>1, <1>2, RecordedSpan DEF record_result_span
<1>4. Goes(r, from, "action", "service", status)
  BY <1>3 DEF Goes, Goto
<1>5. PICK ans : Answered(r, ans, status)
  BY StatusAnswered DEF record_result_span
<1>6. Legal(from, "action", {}, "service", status, answer[r].status, status)
  BY DEF Legal, Running, Needed, Possible, Stages, SpanNames, OwnSpans
<1> QED
  BY <1>2, <1>4, <1>5, <1>6, OwnMoves DEF OwnSpans

\* The action of a service is a move.
LEMMA HandleActionMoves ==
  ASSUME BaseInv, NEW r \in Requests, HandleAction(r)
  PROVE  Moved(r)
<1>1. PICK status \in {"ok", "error"} : record_result_span(r, "service", status)
  BY DEF HandleAction
<1> QED
  BY <1>1, ServiceEnds DEF HandleAction

\* So is the end of a publish.
LEMMA EndPublishMoves ==
  ASSUME BaseInv, NEW r \in Requests, EndPublish(r)
  PROVE  Moved(r)
BY ServiceEnds DEF EndPublish

\* The subscriptions of a topic are found: a move.
LEMMA ResolveSubscriptionsMoves ==
  ASSUME BaseInv, NEW r \in Requests, ResolveSubscriptions(r)
  PROVE  Moved(r)
<1>1. Startable(timers[r], "resolve", {"service"})
  <2>1. "resolve" \in SpanNames /\ "resolve" \notin Possible[stage[r]]
        /\ {"service"} \subseteq Needed[stage[r]]
    BY DEF ResolveSubscriptions, SpanNames, OwnSpans, Possible, Needed
  <2> QED
    BY <2>1, CanStart, LevelsOfSpans
<1>2. TimersAfter(r, {"resolve"}) /\ Written(r, "resolve", "ok")
  BY <1>1, RecordedNew DEF ResolveSubscriptions
<1>3. Goes(r, "service", "fanout", "resolve", "ok") /\ UNCHANGED target
  BY <1>2 DEF ResolveSubscriptions, Goes, Goto
<1>4. Legal("service", "fanout", {"resolve"}, "resolve", "ok", answer[r].status, answer[r].status)
  BY DEF Legal, Running, Needed, Possible, Stages, SpanNames, OwnSpans
<1>5. Answered(r, answer[r], answer[r].status)
  BY SameAnswer DEF ResolveSubscriptions
<1> QED
  BY <1>2, <1>3, <1>4, <1>5, OwnMoves DEF OwnSpans

\* A step of the fan-out of a publish records the span it starts and goes on with it.
LEMMA FanOutMoves ==
  ASSUME BaseInv, NEW r \in Requests, NEW from \in {"fanout", "deliver"},
         NEW to \in {"fanout", "deliver"}, stage[r] = from, stage' = [stage EXCEPT ![r] = to],
         NEW n \in Evaluations \union Deliveries, NEW status, TimersAfter(r, {n}),
         Written(r, n, status), Served(r, n, status),
         UNCHANGED <<answer, rows, arrived, cut, view>>
  PROVE  Moved(r)
<1>1. n \in SpanNames /\ n \notin OwnSpans /\ n # "none"
  BY TracesAssumption DEF SpanNames
<1>2. Goes(r, from, to, n, status)
  BY <1>1 DEF Goes
<1>3. Legal(from, to, {n}, n, status, answer[r].status, answer[r].status)
  BY <1>1 DEF Legal, Running, Needed, Possible, Stages, OwnSpans
<1> QED
  BY <1>2, <1>3, SameAnswer, GoesMoves

\* A delivery that has an evaluation has no other.
LEMMA DeliveriesApart ==
  ASSUME NEW e \in Evaluations, NEW f \in Evaluations
  PROVE  /\ DeliveryOf[e] = DeliveryOf[f] => e = f
         /\ DeliveryOf[e] # f /\ DeliveryOf[e] \in Deliveries
BY TracesAssumption DEF Deliveries

\* A subscription that is not served by SQS: a move.
LEMMA DeliverElsewhereMoves ==
  ASSUME BaseInv, NEW r \in Requests, DeliverElsewhere(r)
  PROVE  Moved(r)
<1>1. PICK e \in Unserved(r) : record_new_span(r, DeliveryOf[e], "service", "ok")
  BY DEF DeliverElsewhere
<1> DEFINE n == DeliveryOf[e]
<1>2. e \in Evaluations /\ e \notin DOMAIN timers[r] /\ n \notin DOMAIN timers[r]
      /\ n \in Deliveries
  BY DeliveriesApart DEF Unserved
<1>3. Startable(timers[r], n, {"service"})
  <2>1. "service" \in DOMAIN timers[r] /\ n \in SpanNames /\ Level("service") < Level(n)
    BY <1>2, LevelsOfSpans DEF DeliverElsewhere, BaseInv, RequestRight, Started, Needed, SpanNames
  <2> QED
    BY <1>2, <2>1, TimersTimed DEF Startable
<1>4. TimersAfter(r, {n}) /\ Written(r, n, "ok")
  BY <1>1, <1>3, RecordedNew
<1>5. stage[r] = "fanout" /\ stage' = stage /\ target' = target
      /\ stage' = [stage EXCEPT ![r] = "fanout"]
      /\ target \in [Requests -> Evaluations \union {"none"}]
  BY DEF DeliverElsewhere, BaseInv, TypeOK
<1>6. Served(r, n, "ok")
  <2>1. ASSUME NEW f \in Evaluations, f \in DOMAIN timers[r], Spared(r, f)
        PROVE  Spared(r, f)'
    <3>1. DeliveryOf[f] # n
      BY <1>2, <2>1, DeliveriesApart
    <3> QED
      BY <1>4, <1>5, <2>1, <3>1 DEF Spared, TimersAfter
  <2> QED
    BY <1>5, <2>1 DEF Served, Aimed
<1> HIDE DEF n
<1> QED
  BY <1>2, <1>4, <1>5, <1>6, FanOutMoves DEF DeliverElsewhere

\* The evaluation of a delivery is a move.
LEMMA EvaluateDeliveryMoves ==
  ASSUME BaseInv, NEW r \in Requests, EvaluateDelivery(r)
  PROVE  Moved(r)
<1>1. PICK e \in Unserved(r), result \in {"allow", "deny"} :
        /\ record_new_span(r, e, "service", result)
        /\ \/ result = "deny" /\ Enforce /\ UNCHANGED <<stage, target>>
           \/ /\ ~(result = "deny" /\ Enforce)
              /\ target' = [target EXCEPT ![r] = e]
              /\ Goto(r, "deliver")
  BY DEF EvaluateDelivery
<1>2. e \in Evaluations /\ e \notin DOMAIN timers[r] /\ DeliveryOf[e] \notin DOMAIN timers[r]
  BY DEF Unserved
<1>3. Startable(timers[r], e, {"service"})
  <2>1. "service" \in DOMAIN timers[r] /\ e \in SpanNames /\ Level("service") < Level(e)
    BY <1>2, LevelsOfSpans DEF EvaluateDelivery, BaseInv, RequestRight, Started, Needed, SpanNames
  <2> QED
    BY <1>2, <2>1, TimersTimed DEF Startable
<1>4. TimersAfter(r, {e}) /\ Written(r, e, result)
  BY <1>1, <1>3, RecordedNew
<1>5. /\ DOMAIN timers'[r] = DOMAIN timers[r] \union {e}
      /\ \A f \in Evaluations : DeliveryOf[f] \in DOMAIN timers'[r] => DeliveryOf[f] \in DOMAIN timers[r]
  BY <1>2, <1>4, DeliveriesApart DEF TimersAfter
<1>6. stage[r] = "fanout" /\ target \in [Requests -> Evaluations \union {"none"}]
      /\ stage \in [Requests -> Stages]
      /\ UNCHANGED <<answer, rows, arrived, cut, view>>
  BY DEF EvaluateDelivery, BaseInv, TypeOK
<1>7. CASE result = "deny" /\ Enforce /\ UNCHANGED <<stage, target>>
  <2>1. stage' = [stage EXCEPT ![r] = "fanout"] /\ stage'[r] = "fanout"
    BY <1>6, <1>7
  <2>2. Served(r, e, result)
    BY <1>2, <1>5, <1>6, <1>7, <2>1 DEF Served, Aimed, Spared
  <2> QED
    BY <1>2, <1>4, <1>6, <2>1, <2>2, FanOutMoves
<1>8. CASE /\ ~(result = "deny" /\ Enforce)
           /\ target' = [target EXCEPT ![r] = e]
           /\ Goto(r, "deliver")
  <2>1. stage' = [stage EXCEPT ![r] = "deliver"] /\ stage'[r] = "deliver" /\ target'[r] = e
    BY <1>6, <1>8 DEF Goto
  <2>2. Served(r, e, result)
    <3>1. target' \in [Requests -> Evaluations \union {"none"}]
          /\ \A q \in Requests \ {r} : target'[q] = target[q]
      BY <1>2, <1>6, <1>8
    <3>2. Aimed(r)'
      BY <1>2, <1>5, <2>1 DEF Aimed
    <3>3. ASSUME NEW f \in Evaluations, f \in DOMAIN timers[r], Spared(r, f)
          PROVE  Spared(r, f)'
      BY <1>2, <1>5, <2>1, <3>3 DEF Spared
    <3> QED
      BY <1>1, <1>8, <3>1, <3>2, <3>3 DEF Served
  <2> QED
    BY <1>2, <1>4, <1>6, <2>1, <2>2, FanOutMoves
<1> QED
  BY <1>1, <1>7, <1>8

\* A delivery is a move.
LEMMA DeliverMoves ==
  ASSUME BaseInv, NEW r \in Requests, Deliver(r)
  PROVE  Moved(r)
<1>0. PICK e : e = target[r]
  OBVIOUS
<1>1. PICK status \in {"ok", "error"} :
        e = target[r] /\ record_new_span(r, DeliveryOf[e], e, status)
  BY <1>0 DEF Deliver
<1> DEFINE n == DeliveryOf[e]
<1>2. e \in Evaluations /\ e \in DOMAIN timers[r] /\ n \notin DOMAIN timers[r] /\ n \in Deliveries
  BY <1>1, DeliveriesApart DEF Deliver, BaseInv, RequestRight, Aimed
<1>3. Startable(timers[r], n, {e})
  <2>1. n \in SpanNames /\ Level(e) < Level(n)
    BY <1>2, LevelsOfSpans DEF SpanNames
  <2> QED
    BY <1>2, <2>1, TimersTimed DEF Startable
<1>4. TimersAfter(r, {n}) /\ Written(r, n, status)
  BY <1>1, <1>3, RecordedNew
<1>5. stage[r] = "deliver" /\ target' = target /\ stage' = [stage EXCEPT ![r] = "fanout"]
      /\ stage'[r] = "fanout" /\ target \in [Requests -> Evaluations \union {"none"}]
  BY DEF Deliver, Goto, BaseInv, TypeOK
<1>6. Served(r, n, status)
  <2>1. ASSUME NEW f \in Evaluations, f \in DOMAIN timers[r], Spared(r, f)
        PROVE  Spared(r, f)'
    <3>1. f # e
      BY <1>1, <1>5, <2>1 DEF Spared
    <3>2. DeliveryOf[f] # n
      BY <1>2, <3>1, DeliveriesApart
    <3> QED
      BY <1>4, <1>5, <2>1, <3>2 DEF Spared, TimersAfter
  <2>2. n \notin Evaluations
    BY <1>2, TracesAssumption
  <2> QED
    BY <1>5, <2>1, <2>2 DEF Served, Aimed
<1> HIDE DEF n
<1> QED
  BY <1>2, <1>4, <1>5, <1>6, FanOutMoves DEF Deliver

\* The end of an action is a move.
LEMMA FinishActionMoves ==
  ASSUME BaseInv, NEW r \in Requests, FinishAction(r)
  PROVE  Moved(r)
<1>1. {"request", "action"} \subseteq DOMAIN timers[r] /\ answer[r].status \in {"ok", "error"}
  BY DEF FinishAction, BaseInv, RequestRight, Started, Needed, Answers
<1>2. PICK status \in {answer[r].status, "error"} : record_result_span(r, "action", status)
  BY DEF FinishAction, RenderedStatuses
<1>6. TimersAfter(r, {}) /\ UNCHANGED target
  BY NoneStarted DEF FinishAction
<1>3. Written(r, "action", status) /\ status \in {"ok", "error"}
  BY <1>1, <1>2, <1>6, RecordedSpan DEF record_result_span
<1>4. Goes(r, "action", "close", "action", status)
  BY <1>3 DEF FinishAction, Goes, Goto
<1>5. PICK ans : Answered(r, ans, status)
  BY <1>2, <1>3, StatusAnswered DEF record_result_span
<1>7. Legal("action", "close", {}, "action", status, answer[r].status, status)
  BY <1>2, <1>3 DEF Legal, Running, Needed, Possible, Stages
<1> QED
  BY <1>4, <1>5, <1>6, <1>7, OwnMoves DEF OwnSpans

\* The end of the request span is a move.
LEMMA CloseRequestMoves ==
  ASSUME BaseInv, NEW r \in Requests, CloseRequest(r)
  PROVE  Moved(r)
<1>1. "request" \in DOMAIN timers[r] /\ answer[r].status \in {"ok", "error"}
  BY DEF CloseRequest, BaseInv, RequestRight, Started, Needed, Answers
<1>4. TimersAfter(r, {}) /\ UNCHANGED target
  BY NoneStarted DEF CloseRequest
<1>2. Written(r, "request", answer[r].status)
  BY <1>1, <1>4, RecordedSpan DEF CloseRequest, RequestStatus
<1>3. Goes(r, "close", "row", "request", answer[r].status)
  BY <1>2 DEF CloseRequest, Goes, Goto
<1>5. Legal("close", "row", {}, "request", answer[r].status, answer[r].status, answer[r].status)
  BY <1>1 DEF Legal, Running, Needed, Possible, Stages
<1>6. Answered(r, answer[r], answer[r].status)
  BY SameAnswer DEF CloseRequest
<1> QED
  BY <1>3, <1>4, <1>5, <1>6, OwnMoves DEF OwnSpans

\* A client that goes away is a move to the end without a row.
LEMMA DisconnectMoves ==
  ASSUME BaseInv, NEW r \in Requests, Disconnect(r)
  PROVE  Moved(r)
<1>1. PICK from : from = stage[r]
  OBVIOUS
<1>2. from \in Stages /\ from \notin {"new", "answered", "gone"}
  BY <1>1 DEF Disconnect, UnderWay, BaseInv, TypeOK
<1>3. Goes(r, from, "gone", "none", "ok")
  BY <1>1 DEF Disconnect, Goes, Goto, Kept
<1>4. TimersAfter(r, {})
  BY NoneStarted DEF Disconnect
<1>5. Legal(from, "gone", {}, "none", "ok", answer[r].status, answer[r].status)
  BY <1>2 DEF Legal, Running, Needed, Possible, Stages, SpanNames, OwnSpans
<1>6. Answered(r, answer[r], answer[r].status)
  BY SameAnswer DEF Disconnect
<1> QED
  BY <1>3, <1>4, <1>5, <1>6, OwnMoves DEF Disconnect

\* A body that cannot be read is a move to the end.
LEMMA RefuseBodyMoves ==
  ASSUME BaseInv, NEW r \in Requests, RefuseBody(r)
  PROVE  Moved(r)
<1>1. Goes(r, "new", "answered", "none", "ok")
  BY DEF RefuseBody, Goes, Goto, Kept
<1>2. TimersAfter(r, {})
  BY NoneStarted DEF RefuseBody
<1>3. Legal("new", "answered", {}, "none", "ok", answer[r].status, answer[r].status)
  BY DEF Legal, Running, Needed, Possible, Stages, OwnSpans
<1>4. Answered(r, answer[r], answer[r].status)
  BY SameAnswer DEF RefuseBody
<1> QED
  BY <1>1, <1>2, <1>3, <1>4, OwnMoves DEF RefuseBody

\* The arrival of a request is a move.
LEMMA ReceiveMoves ==
  ASSUME BaseInv, NEW r \in Requests, Receive(r)
  PROVE  Moved(r)
<1>1. TimersAfter(r, {"request", "authn"})
  <2>1. DOMAIN timers[r] = {}
    BY DEF Receive, BaseInv, RequestRight, Started, Possible
  <2>2. Startable(timers[r], "request", {})
    BY <2>1, TimersTimed DEF Startable, SpanNames, OwnSpans
  <2>3. "authn" \in SpanNames /\ "authn" \notin DOMAIN timers[r]
    BY <2>1 DEF SpanNames, OwnSpans
  <2> QED
    <3>1. Level("request") < Level("authn") /\ start_two_spans(r, "request", {}, "authn")
      BY LevelsOfSpans DEF Receive
    <3> QED
      BY <2>2, <2>3, <3>1, TwoStarted
<1>2. Legal("new", "authn", {"request", "authn"}, "none", "ok", answer[r].status, answer[r].status)
  BY DEF Legal, Running, Needed, Possible, Stages, OwnSpans
<1>6. Served(r, "none", "ok")
  <2>1. UNCHANGED target /\ stage'[r] # "deliver" /\ {"request", "authn"} \subseteq OwnSpans
    BY DEF Receive, Goto, OwnSpans, BaseInv, TypeOK
  <2> QED
    BY <1>1, <2>1, NoneServed
<1>3. Answered(r, answer[r], answer[r].status)
  BY SameAnswer DEF Receive
<1>4. arrived' \in [Requests -> Nat] /\ IsFiniteSet(Arrivals')
  <2>1. arrived' = [arrived EXCEPT ![r] = 1 + Cardinality(Arrivals)]
    BY DEF Receive, Arrivals
  <2>2. arrived \in [Requests -> Nat] /\ IsFiniteSet(Arrivals)
    BY DEF BaseInv, TypeOK
  <2>3. Cardinality(Arrivals) \in Nat
    BY <2>2, FS_CardinalityType
  <2>4. Arrivals' \subseteq Arrivals \union {r}
    BY <2>1, <2>2 DEF Arrivals
  <2>5. IsFiniteSet(Arrivals \union {r})
    BY <2>2, FS_AddElement
  <2>6. IsFiniteSet(Arrivals')
    BY <2>4, <2>5, FS_Subset
  <2> QED
    BY <2>1, <2>2, <2>3, <2>6
<1>5. Move(r, "new", "authn", {"request", "authn"}, "none", "ok", answer[r])
  BY <1>1, <1>2, <1>3, <1>4, <1>6 DEF Receive, Goto, Move, Answered, Kept
<1> QED
  BY <1>5 DEF Moved

\* The INSERT of the row, or its failure, is a move.
LEMMA RecordTraceMoves ==
  ASSUME BaseInv, NEW r \in Requests, record_trace(r)
  PROVE  Moved(r)
<1>1. TimersAfter(r, {})
  BY NoneStarted DEF record_trace
<1>2. Legal("row", "answered", {}, "none", "ok", answer[r].status, answer[r].status)
  BY DEF Legal, Running, Needed, Possible, Stages, OwnSpans
<1>6. Served(r, "none", "ok")
  <2>1. UNCHANGED target /\ stage'[r] # "deliver"
    BY DEF record_trace, Goto, BaseInv, TypeOK
  <2> QED
    BY <1>1, <2>1, NoneServed
<1>3. Answered(r, answer[r], answer[r].status)
  BY SameAnswer DEF record_trace
<1>4. arrived' \in [Requests -> Nat] /\ IsFiniteSet(Arrivals')
  BY DEF record_trace, BaseInv, TypeOK, Arrivals
<1>5. Move(r, "row", "answered", {}, "none", "ok", answer[r])
  BY <1>1, <1>2, <1>3, <1>4, <1>6 DEF record_trace, Goto, Move, Answered, Kept
<1> QED
  BY <1>5 DEF Moved

\* Every step of a request is a move.
LEMMA RequestMoves ==
  ASSUME BaseInv, NEW r \in Requests, RefuseBody(r) \/ Receive(r) \/ Step(r) \/ Disconnect(r)
  PROVE  Moved(r)
BY AuthenticateMoves, ResolveIdentityMoves, RouteMoves, AuthorizeMoves, ValidateMoves,
   HandleActionMoves, ResolveSubscriptionsMoves, DeliverElsewhereMoves, EvaluateDeliveryMoves,
   DeliverMoves, EndPublishMoves, FinishActionMoves, CloseRequestMoves, RecordTraceMoves, DisconnectMoves,
   RefuseBodyMoves, ReceiveMoves DEF Step

--------------------------------------------------------------------------------
(* The base invariant. *)

\* BaseInv holds initially.
LEMMA BaseInit ==
  ASSUME Init
  PROVE  BaseInv
<1>1. TypeOK /\ DOMAIN timers = Requests
  BY DEF Init, TypeOK, Stages, Answer
<1>2. IsFiniteSet(Arrivals) /\ IsFiniteSet(spans)
  <2>1. Arrivals = {}
    BY DEF Init, Arrivals
  <2> QED
    BY <2>1, FS_EmptySet DEF Init
<1>3. \A r \in Requests : RequestRight(r)
  <2> SUFFICES ASSUME NEW r \in Requests
               PROVE  RequestRight(r)
    OBVIOUS
  <2>1. stage[r] = "new" /\ DOMAIN timers[r] = {} /\ DOMAIN rows = {}
    BY DEF Init
  <2> QED
    BY <2>1 DEF RequestRight, Started, Rooted, Aimed, Covered, Answers, Needed, Possible
<1> QED
  BY <1>1, <1>2, <1>3 DEF BaseInv, Init

\* Clearing the traces keeps BaseInv.
LEMMA ClearKeeps ==
  ASSUME BaseInv, clear_traces
  PROVE  BaseInv'
<1>0. TypeOK
  BY DEF BaseInv
<1>1. spans' = {} /\ DOMAIN rows' = {} /\ rows' \in [DOMAIN rows' -> RequestRow]
      /\ cut' = cut \union {s.request : s \in spans}
  BY DEF clear_traces
<1>2. cut' \subseteq Requests
  BY <1>0, <1>1 DEF TypeOK, SpanRow
<1>3. TypeOK' /\ (DOMAIN timers = Requests)'
  BY <1>0, <1>1, <1>2 DEF TypeOK, clear_traces, BaseInv
<1>4. IsFiniteSet(Arrivals)' /\ IsFiniteSet(spans)'
  BY <1>1, FS_EmptySet DEF clear_traces, BaseInv, Arrivals
<1>5. ASSUME NEW r \in Requests
      PROVE  RequestRight(r)'
  <2>1. RequestRight(r)
    BY DEF BaseInv
  <2>2. Covered(r)'
    BY <1>1, <2>1 DEF RequestRight, Covered, Recorded, clear_traces
  <2> QED
    BY <1>1, <2>1, <2>2 DEF RequestRight, Started, Rooted, Aimed, Answers, clear_traces
<1> QED
  BY <1>1, <1>3, <1>4, <1>5 DEF BaseInv

\* Only the page changes, or nothing at all.
PageOnly == UNCHANGED <<stage, timers, target, answer, spans, rows, arrived, failed, cut>>

\* A statement of a page keeps BaseInv.
LEMMA PageKeeps ==
  ASSUME BaseInv, PageOnly, view'.page \in {"none", "detail", "list"}
  PROVE  BaseInv'
<1>1. TypeOK' /\ (DOMAIN timers = Requests)' /\ IsFiniteSet(Arrivals)' /\ IsFiniteSet(spans)'
  BY DEF BaseInv, PageOnly, TypeOK, Arrivals
<1>2. ASSUME NEW r \in Requests
      PROVE  RequestRight(r)'
  BY DEF BaseInv, PageOnly, RequestRight, Started, Rooted, Aimed, Covered, Answers, Recorded
<1>3. ASSUME NEW s \in spans'
      PROVE  SpanRight(s)'
  BY DEF BaseInv, PageOnly, SpanRight, Stored, Spared
<1> QED
  BY <1>1, <1>2, <1>3 DEF BaseInv

--------------------------------------------------------------------------------
(* The pages. *)

\* The page of a request whose trace is complete: until its spans are read they are those
\* there were with the row, or both are gone.
DetailRight ==
  /\ view = [page |-> "detail", request |-> view.request, done |-> view.done,
             atRow |-> view.atRow, shown |-> view.shown]
  /\ view.done \in BOOLEAN
  /\ view.request \in Requests /\ stage[view.request] = "answered"
  /\ ~view.done =>
       \/ view.request \in DOMAIN rows /\ SpansOf(view.request) = view.atRow
       \/ view.request \notin DOMAIN rows /\ SpansOf(view.request) = {}
  /\ view.done =>
       \/ view.shown = view.atRow
       \/ view.shown = {} /\ view.request \notin DOMAIN rows
  /\ IsFiniteSet(view.shown)
  /\ \A s \in view.shown : s.request = view.request /\ s.name \in SpanNames /\ Stored(s)

\* A listed trace is still as it was listed, or gone.
StillListed(t) ==
  /\ t.request \in Requests /\ stage[t.request] = "answered"
  /\ t.request \in DOMAIN rows =>
       rows[t.request].service = t.service /\ ActionOf(t.request) = t.action

ListRight ==
  /\ view = [page |-> "list", filter |-> view.filter, step |-> view.step,
             listed |-> view.listed, services |-> view.services, actions |-> view.actions,
             done |-> view.done]
  /\ view.done \in BOOLEAN /\ view.step \in 1..3
  /\ \A t \in view.listed :
       /\ StillListed(t)
       /\ (view.step = 3 \/ view.done) /\ t.request \in DOMAIN rows =>
            t.service \in view.services \union {"none"}
       /\ view.done /\ t.request \in DOMAIN rows => t.action \subseteq view.actions

ViewRight == view = [page |-> "none", done |-> TRUE] \/ DetailRight \/ ListRight

\* A trace stays as it is.
Still(q) ==
  /\ stage'[q] = "answered" /\ timers'[q] = timers[q]
  /\ SpansOf(q)' = SpansOf(q) /\ ActionOf(q)' = ActionOf(q)
  /\ q \in DOMAIN rows' <=> q \in DOMAIN rows
  /\ q \in DOMAIN rows => rows'[q] = rows[q]

\* No step of a request touches the trace of another one.
LEMMA AnsweredStill ==
  ASSUME BaseInv, NEW r \in Requests, Moved(r), NEW q \in Requests, stage[q] = "answered"
  PROVE  Still(q)
<1>1. PICK from, to, started, n, status, ans : Move(r, from, to, started, n, status, ans)
  BY DEF Moved
<1>2. r # q
  BY <1>1 DEF Move, Legal
<1>3. stage'[q] = "answered" /\ answer'[q] = answer[q] /\ timers'[q] = timers[q]
  BY <1>1, <1>2 DEF Move, BaseInv, TypeOK, TimersAfter
<1>4. SpansOf(q)' = SpansOf(q)
  BY <1>1, <1>2 DEF Move, SpansOf, Kept, Written, SpanOf
<1>5. ActionOf(q)' = ActionOf(q)
  BY <1>3, <1>4 DEF ActionOf
<1>6. (q \in DOMAIN rows' <=> q \in DOMAIN rows) /\ (q \in DOMAIN rows => rows'[q] = rows[q])
  <2>1. CASE rows' = rows
    BY <2>1
  <2>2. CASE InsertRequest(r)
    BY <1>2, <2>2 DEF InsertRequest
  <2> QED
    BY <1>1, <2>1, <2>2 DEF Move
<1> QED
  BY <1>3, <1>4, <1>5, <1>6 DEF Still

\* A move of a request keeps what is known of the page.
LEMMA MovedView ==
  ASSUME BaseInv, NEW r \in Requests, Moved(r), ViewRight
  PROVE  ViewRight'
<1>1. view' = view
  BY DEF Moved, Move
<1>2. ASSUME DetailRight
      PROVE  DetailRight'
  <2>1. Still(view.request)
    BY <1>2, AnsweredStill DEF DetailRight
  <2>2. SpansOf(view.request)' = SpansOf(view.request)
    BY <1>1, <2>1 DEF Still, SpansOf
  <2> QED
    BY <1>1, <1>2, <2>1, <2>2 DEF DetailRight, Still, Stored
<1>3. ASSUME ListRight
      PROVE  ListRight'
  <2>1. ASSUME NEW t \in view.listed
        PROVE  StillListed(t)' /\ (t.request \in DOMAIN rows' <=> t.request \in DOMAIN rows)
    <3>1. StillListed(t)
      BY <1>3 DEF ListRight
    <3>2. Still(t.request)
      BY <3>1, AnsweredStill DEF StillListed
    <3> QED
      BY <3>1, <3>2 DEF StillListed, Still
  <2> QED
    BY <1>1, <1>3, <2>1 DEF ListRight
<1> QED
  BY <1>1, <1>2, <1>3 DEF ViewRight

\* Clearing the traces keeps what is known of the page.
LEMMA ClearView ==
  ASSUME BaseInv, clear_traces, ViewRight
  PROVE  ViewRight'
<1>1. view' = view /\ stage' = stage /\ timers' = timers /\ spans' = {} /\ DOMAIN rows' = {}
  BY DEF clear_traces
<1>2. ASSUME DetailRight
      PROVE  DetailRight'
  BY <1>1, <1>2 DEF DetailRight, SpansOf, Stored
<1>3. ASSUME ListRight
      PROVE  ListRight'
  BY <1>1, <1>3 DEF ListRight, StillListed
<1> QED
  BY <1>1, <1>2, <1>3 DEF ViewRight

\* What the page shows was read from the tables as they are.
LEMMA SpansStored ==
  ASSUME BaseInv, NEW q
  PROVE  /\ IsFiniteSet(SpansOf(q))
         /\ \A s \in SpansOf(q) : s.request = q /\ s.name \in SpanNames /\ Stored(s)
<1>1. SpansOf(q) \subseteq spans /\ \A s \in SpansOf(q) : s.request = q
  BY DEF SpansOf
<1>2. IsFiniteSet(SpansOf(q))
  BY <1>1, FS_Subset DEF BaseInv
<1>3. \A s \in spans : s.name \in SpanNames /\ Stored(s)
  BY DEF BaseInv, TypeOK, SpanRow, SpanRight
<1> QED
  BY <1>1, <1>2, <1>3

\* The first SELECT of the detail page.
LEMMA OpenDetailRight ==
  ASSUME BaseInv, NEW r \in Requests, OpenDetail(r)
  PROVE  PageOnly /\ DetailRight'
<1>1. /\ PageOnly /\ r \in DOMAIN rows
      /\ view' = [page |-> "detail", request |-> r, done |-> FALSE, atRow |-> SpansOf(r),
                  shown |-> {}]
  BY DEF OpenDetail, PageOnly
<1>2. stage[r] = "answered"
  BY <1>1 DEF BaseInv, RequestRight, Answers
<1>3. view'.page = "detail" /\ view'.request = r /\ view'.done = FALSE
      /\ view'.atRow = SpansOf(r) /\ view'.shown = {}
  BY <1>1
<1>4. SpansOf(view.request)' = SpansOf(r)
  BY <1>1, <1>3 DEF SpansOf, PageOnly
<1>5. IsFiniteSet(view.shown)'
  BY <1>3, FS_EmptySet
<1> QED
  BY <1>1, <1>2, <1>3, <1>4, <1>5 DEF DetailRight, PageOnly

\* The second SELECT of the detail page.
LEMMA ShowDetailRight ==
  ASSUME BaseInv, ShowDetail, DetailRight
  PROVE  PageOnly /\ DetailRight'
<1>1. PICK v, yes : v = view /\ yes = TRUE
  OBVIOUS
<1> DEFINE v1 == [v EXCEPT !.done = yes]
           v2 == [v1 EXCEPT !.shown = SpansOf(v.request)]
<1>2. PageOnly /\ ~v.done /\ view' = v2
  BY <1>1 DEF ShowDetail, PageOnly
<1>3. v = [page |-> "detail", request |-> v.request, done |-> v.done, atRow |-> v.atRow,
           shown |-> v.shown]
  BY <1>1 DEF DetailRight
<1>4. v2 = [page |-> "detail", request |-> v.request, done |-> yes, atRow |-> v.atRow,
            shown |-> SpansOf(v.request)]
  <2> HIDE DEF v1, v2
  <2>1. v1 = [page |-> "detail", request |-> v.request, done |-> yes, atRow |-> v.atRow,
              shown |-> v.shown]
    BY <1>3 DEF v1
  <2> QED
    BY <2>1 DEF v2
<1> HIDE DEF v1, v2
<1>5. /\ view'.page = "detail" /\ view'.request = v.request /\ view'.done = yes
      /\ view'.atRow = v.atRow /\ view'.shown = SpansOf(v.request)
  BY <1>2, <1>4
<1>6. /\ v.request \in Requests /\ stage[v.request] = "answered"
      /\ \/ v.request \in DOMAIN rows /\ SpansOf(v.request) = v.atRow
         \/ v.request \notin DOMAIN rows /\ SpansOf(v.request) = {}
  BY <1>1, <1>2 DEF DetailRight
<1>7. /\ IsFiniteSet(view.shown)'
      /\ \A s \in view'.shown : s.request = v.request /\ s.name \in SpanNames /\ Stored(s)'
  BY <1>2, <1>5, SpansStored DEF Stored, PageOnly
<1> QED
  BY <1>1, <1>2, <1>4, <1>5, <1>6, <1>7 DEF DetailRight, PageOnly

\* The list page is asked for.
LEMMA ListTracesRight ==
  ASSUME BaseInv, ListTraces
  PROVE  PageOnly /\ ListRight'
<1>1. PICK q \in Queries :
        view' = [page |-> "list", filter |-> trace_request_filters(q), step |-> 1, listed |-> {},
                 services |-> {}, actions |-> {}, done |-> FALSE]
  BY DEF ListTraces
<1>2. PICK f : f = trace_request_filters(q)
  OBVIOUS
<1>3. view' = [page |-> "list", filter |-> f, step |-> 1, listed |-> {}, services |-> {},
               actions |-> {}, done |-> FALSE]
  BY <1>1, <1>2
<1>4. PageOnly
  BY DEF ListTraces, PageOnly
<1> QED
  BY <1>3, <1>4 DEF ListRight

\* A statement of the list page target what the tables hold now.
LEMMA ListedAsTheyAre ==
  ASSUME BaseInv, NEW f, NEW t \in list_request_traces_filtered(f)
  PROVE  StillListed(t) /\ t.request \in DOMAIN rows
<1>1. PICK r \in DOMAIN rows :
        t = [request |-> r, service |-> rows[r].service, action |-> ActionOf(r)]
  BY DEF list_request_traces_filtered
<1>2. r \in Requests
  BY <1>1 DEF BaseInv, TypeOK
<1>3. stage[r] = "answered"
  BY <1>1, <1>2 DEF BaseInv, RequestRight, Answers
<1> QED
  BY <1>1, <1>2, <1>3 DEF StillListed

\* The SELECT of the services has that of every trace still stored.
LEMMA ServicesRead ==
  ASSUME NEW t, StillListed(t), t.request \in DOMAIN rows
  PROVE  t.service \in trace_options(list_trace_services) \union {"none"}
BY DEF StillListed, trace_options, list_trace_services

\* The SELECT of the actions has that of every trace still stored.
LEMMA ActionsRead ==
  ASSUME NEW t, StillListed(t), t.request \in DOMAIN rows
  PROVE  t.action \subseteq trace_options(list_trace_actions)
BY DEF StillListed, trace_options, list_trace_actions

\* The SELECTs of the list page, in turn.
LEMMA ListStatementRight ==
  ASSUME BaseInv, ListStatement, ListRight
  PROVE  PageOnly /\ ListRight'
<1>1. PICK v, last : v = view /\ last = (view.step = 3)
  OBVIOUS
<1>2. PageOnly /\ ~v.done
  BY <1>1 DEF ListStatement, PageOnly
<1>3. v = [page |-> "list", filter |-> v.filter, step |-> v.step, listed |-> v.listed,
           services |-> v.services, actions |-> v.actions, done |-> v.done]
      /\ v.step \in 1..3
      /\ \A t \in v.listed :
           /\ StillListed(t)
           /\ v.step = 3 /\ t.request \in DOMAIN rows => t.service \in v.services \union {"none"}
  BY <1>1 DEF ListRight
<1> DEFINE l1 == [v EXCEPT !.step = (@ % 3) + 1]
           l2 == [l1 EXCEPT !.done = last]
<1>4. /\ ListReads[v.step] = "traces" => v.step = 1
      /\ ListReads[v.step] = "services" => v.step = 2
      /\ ListReads[v.step] = "actions" => v.step = 3
  <2>1. ListReads[1] = "traces" /\ ListReads[2] = "services" /\ ListReads[3] = "actions"
    BY DEF ListReads
  <2>2. v.step = 1 \/ v.step = 2 \/ v.step = 3
    BY <1>3
  <2> QED
    BY <2>1, <2>2
<1>0. l2 = [page |-> "list", filter |-> v.filter, step |-> (v.step % 3) + 1, listed |-> v.listed,
            services |-> v.services, actions |-> v.actions, done |-> last]
  <2> HIDE DEF l1, l2
  <2>1. l1 = [page |-> "list", filter |-> v.filter, step |-> (v.step % 3) + 1,
              listed |-> v.listed, services |-> v.services, actions |-> v.actions,
              done |-> v.done]
    BY <1>3 DEF l1
  <2> QED
    BY <2>1 DEF l2
<1> HIDE DEF l1, l2
<1>5. \A t : StillListed(t) => StillListed(t)'
  BY <1>2 DEF PageOnly, StillListed, ActionOf, SpansOf
<1>6. DOMAIN rows' = DOMAIN rows
  BY <1>2 DEF PageOnly
<1>7. CASE v.step = 1 /\ view' = [l2 EXCEPT !.listed = list_request_traces_filtered(v.filter)]
  <2>1. PICK listed : listed = list_request_traces_filtered(v.filter)
    OBVIOUS
  <2>0. last = FALSE
    <3>1. (view.step = 3) = FALSE
      BY <1>1, <1>7
    <3> QED
      BY <1>1, <3>1, Zenon
  <2>2. view' = [page |-> "list", filter |-> v.filter, step |-> 2, listed |-> listed,
                 services |-> v.services, actions |-> v.actions, done |-> last]
    BY <1>0, <1>7, <2>1
  <2>3. \A t \in listed : StillListed(t)'
    BY <1>5, <2>1, ListedAsTheyAre
  <2>4. /\ view'.filter = v.filter /\ view'.step = 2 /\ view'.listed = listed
        /\ view'.services = v.services /\ view'.actions = v.actions /\ view'.done = last
    BY <2>2
  <2>5. ~view'.done
    BY <2>0, <2>4, Zenon
  <2>6. view'.done \in BOOLEAN
    BY <2>0, <2>4, Zenon
  <2> QED
    BY <1>2, <2>2, <2>3, <2>4, <2>5, <2>6 DEF ListRight
<1>8. CASE v.step = 2 /\ view' = [l2 EXCEPT !.services = trace_options(list_trace_services)]
  <2>1. PICK services : services = trace_options(list_trace_services)
    OBVIOUS
  <2>0. last = FALSE
    <3>1. (view.step = 3) = FALSE
      BY <1>1, <1>8
    <3> QED
      BY <1>1, <3>1, Zenon
  <2>2. view' = [page |-> "list", filter |-> v.filter, step |-> 3, listed |-> v.listed,
                 services |-> services, actions |-> v.actions, done |-> last]
    BY <1>0, <1>8, <2>1
  <2>3. \A t \in v.listed : /\ StillListed(t)'
                            /\ t.request \in DOMAIN rows' => t.service \in services \union {"none"}
    BY <1>3, <1>5, <1>6, <2>1, ServicesRead
  <2>4. /\ view'.filter = v.filter /\ view'.step = 3 /\ view'.listed = v.listed
        /\ view'.services = services /\ view'.actions = v.actions /\ view'.done = last
    BY <2>2
  <2>5. ~view'.done
    BY <2>0, <2>4, Zenon
  <2>6. view'.done \in BOOLEAN
    BY <2>0, <2>4, Zenon
  <2> QED
    BY <1>2, <2>2, <2>3, <2>4, <2>5, <2>6 DEF ListRight
<1>9. CASE v.step = 3 /\ view' = [l2 EXCEPT !.actions = trace_options(list_trace_actions)]
  <2>1. PICK actions : actions = trace_options(list_trace_actions)
    OBVIOUS
  <2>0. last = TRUE
    BY <1>1, <1>9
  <2>2. view' = [page |-> "list", filter |-> v.filter, step |-> 1, listed |-> v.listed,
                 services |-> v.services, actions |-> actions, done |-> last]
    BY <1>0, <1>9, <2>1
  <2>3. \A t \in v.listed :
          /\ StillListed(t)'
          /\ t.request \in DOMAIN rows' => t.service \in v.services \union {"none"}
          /\ t.request \in DOMAIN rows' => t.action \subseteq actions
    BY <1>3, <1>5, <1>6, <1>9, <2>1, ActionsRead
  <2> QED
    BY <1>2, <2>0, <2>2, <2>3 DEF ListRight
<1> QED
  BY <1>1, <1>4, <1>7, <1>8, <1>9 DEF ListStatement, l1, l2

--------------------------------------------------------------------------------
(* The depth of a span. *)

\* One level up, and the levels there are, as Ancestor goes through them.
Up(shown, ts) == UNION {ParentOf(shown, t) : t \in ts}
Levels(shown, s, n, f) ==
  f = [k \in 0..n |-> IF k = 0 THEN {s} ELSE UNION {ParentOf(shown, t) : t \in f[k - 1]}]

\* A set of numbers that is closed upwards from 0 holds them all.
LEMMA AllNumbers ==
  ASSUME NEW S, 0 \in S, \A k \in Nat : k \in S => k + 1 \in S
  PROVE  Nat \subseteq S
<1> SUFFICES ASSUME NEW x \in Nat, x \notin S
             PROVE  FALSE
  OBVIOUS
<1> DEFINE Out == Nat \ S
<1>1. Out \subseteq Nat /\ Out # {}
  OBVIOUS
<1> HIDE DEF Out
<1>2. PICK m \in Out : \A z \in Out : ~(<<z, m>> \in OpToRel(<, Nat))
  BY <1>1, NatLessThanWellFounded, WFMin, Zenon
<1>3. m \in Nat /\ m \notin S /\ m # 0
  BY <1>2 DEF Out
<1>4. m - 1 \in Nat /\ m - 1 < m /\ (m - 1) + 1 = m
  BY <1>3
<1>5. m - 1 \in Out
  BY <1>3, <1>4 DEF Out
<1> QED
  BY <1>2, <1>3, <1>4, <1>5 DEF OpToRel

\* The spans on each level above a span.
LEMMA LevelsExist ==
  ASSUME NEW shown, NEW s, NEW n \in Nat
  PROVE  \E f : Levels(shown, s, n, f)
<1> DEFINE S == {m \in Nat : \E f : Levels(shown, s, m, f)}
<1>1. 0 \in S
  <2> DEFINE f == [k \in 0..0 |-> {s}]
  <2>1. Levels(shown, s, 0, f)
    BY DEF Levels
  <2> QED
    BY <2>1
<1>2. ASSUME NEW m \in Nat, m \in S
      PROVE  m + 1 \in S
  <2>1. PICK f : Levels(shown, s, m, f)
    BY <1>2
  <2> DEFINE g == [k \in 0..(m + 1) |-> IF k = m + 1 THEN Up(shown, f[m]) ELSE f[k]]
  <2>2. \A k \in 0..m : g[k] = f[k]
    OBVIOUS
  <2>3. g[m + 1] = Up(shown, f[m])
    OBVIOUS
  <2>4. \A k \in 0..m : f[k] = IF k = 0 THEN {s} ELSE Up(shown, f[k - 1])
    BY <2>1 DEF Levels, Up
  <2>5. ASSUME NEW k \in 0..(m + 1)
        PROVE  g[k] = IF k = 0 THEN {s} ELSE Up(shown, g[k - 1])
    <3>1. k = 0 \/ (k - 1 \in 0..m /\ g[k - 1] = f[k - 1])
      BY <2>2
    <3>2. CASE k = m + 1
      BY <2>2, <2>3, <3>1, <3>2
    <3>3. CASE k \in 0..m
      <4>1. g[k] = f[k] /\ f[k] = IF k = 0 THEN {s} ELSE Up(shown, f[k - 1])
        BY <2>2, <2>4, <3>3
      <4> HIDE DEF g
      <4>2. CASE k = 0
        BY <4>1, <4>2
      <4>3. CASE k # 0
        BY <3>1, <4>1, <4>3
      <4> QED
        BY <4>2, <4>3
    <3> QED
      BY <3>2, <3>3
  <2>6. g = [k \in 0..(m + 1) |-> IF k = 0 THEN {s} ELSE Up(shown, g[k - 1])]
    <3>1. DOMAIN g = 0..(m + 1) /\ g = [k \in 0..(m + 1) |-> g[k]]
      OBVIOUS
    <3> DEFINE h == [k \in 0..(m + 1) |-> IF k = 0 THEN {s} ELSE Up(shown, g[k - 1])]
    <3> HIDE DEF g
    <3>2. \A k \in 0..(m + 1) : h[k] = g[k]
      BY <2>5
    <3>3. h = [k \in 0..(m + 1) |-> h[k]]
      OBVIOUS
    <3> HIDE DEF h
    <3>4. g = h
      BY <3>1, <3>2, <3>3
    <3> QED
      BY <3>4 DEF h
  <2> HIDE DEF g
  <2>7. Levels(shown, s, m + 1, g)
    BY <2>6 DEF Levels, Up
  <2> QED
    BY <2>7
<1> HIDE DEF S
<1>3. Nat \subseteq S
  BY <1>1, <1>2, AllNumbers
<1> QED
  BY <1>3 DEF S

\* The walk to the parents reaches these levels.
LEMMA AncestorLevel ==
  ASSUME NEW shown, NEW s, NEW n \in Nat
  PROVE  \E f : Levels(shown, s, n, f) /\ Ancestor(shown, s, n) = f[n]
<1> DEFINE f == CHOOSE f : Levels(shown, s, n, f)
<1>1. Levels(shown, s, n, f)
  BY LevelsExist
<1>2. Ancestor(shown, s, n) = f[n]
  BY DEF Ancestor, Levels
<1> HIDE DEF f
<1> QED
  BY <1>1, <1>2

\* Spans whose parents are at levels above.
Falling(shown) ==
  /\ \A s \in shown : Level(s.name) \in Nat
  /\ \A s \in shown : \A t \in ParentOf(shown, s) : Level(t.name) < Level(s.name)

\* The spans at levels above that of t.
Above(shown, t) == {u \in shown : Level(u.name) < Level(t.name)}

\* A parent has fewer spans above it than its child, by one at least.
LEMMA ParentLower ==
  ASSUME NEW shown, Falling(shown), IsFiniteSet(shown), NEW t \in shown, NEW u \in ParentOf(shown, t)
  PROVE  u \in shown /\ Cardinality(Above(shown, u)) < Cardinality(Above(shown, t))
<1> DEFINE A == Above(shown, u)
           B == Above(shown, t)
<1>1. /\ u \in shown /\ Level(u.name) \in Nat /\ Level(t.name) \in Nat
      /\ Level(u.name) < Level(t.name)
  BY DEF ParentOf, Falling
<1>2. A \subseteq B /\ u \in B /\ u \notin A /\ B \subseteq shown
  <2>1. \A x \in shown : Level(x.name) \in Nat
    BY DEF Falling
  <2> QED
    BY <1>1, <2>1 DEF Above
<1> HIDE DEF A, B
<1>3. IsFiniteSet(B)
  BY <1>2, FS_Subset
<1>4. IsFiniteSet(A)
  BY <1>2, <1>3, FS_Subset
<1>5. Cardinality(A) <= Cardinality(B) /\ (Cardinality(A) = Cardinality(B) => A = B)
  BY <1>2, <1>3, FS_Subset
<1>6. Cardinality(A) \in Nat /\ Cardinality(B) \in Nat
  BY <1>3, <1>4, FS_CardinalityType
<1>7. Cardinality(A) # Cardinality(B)
  BY <1>2, <1>5
<1>8. Cardinality(A) < Cardinality(B)
  BY <1>5, <1>6, <1>7
<1> QED
  BY <1>1, <1>8 DEF A, B

\* No way up is longer than there are spans.
LEMMA DepthBounded ==
  ASSUME NEW shown, Falling(shown), IsFiniteSet(shown), NEW s \in shown
  PROVE  DepthEnds(shown, s)
<1> DEFINE N == Cardinality(shown)
<1>1. N \in Nat
  BY FS_CardinalityType
<1>2. \A t \in shown : Cardinality(Above(shown, t)) \in Nat /\ Cardinality(Above(shown, t)) < N
  <2> SUFFICES ASSUME NEW t \in shown
               PROVE  Cardinality(Above(shown, t)) \in Nat /\ Cardinality(Above(shown, t)) < N
    OBVIOUS
  <2> DEFINE B == Above(shown, t)
  <2>1. Level(t.name) \in Nat
    BY DEF Falling
  <2>2. B \subseteq shown /\ t \notin B
    BY <2>1 DEF Above
  <2> HIDE DEF B
  <2>3. IsFiniteSet(B)
    BY <2>2, FS_Subset
  <2>4. Cardinality(B) <= N /\ (Cardinality(B) = N => B = shown)
    BY <2>2, FS_Subset
  <2>5. Cardinality(B) \in Nat
    BY <2>3, FS_CardinalityType
  <2>6. Cardinality(B) # N
    BY <2>2, <2>4
  <2>7. Cardinality(B) < N
    BY <1>1, <2>4, <2>5, <2>6
  <2> QED
    BY <2>5, <2>7 DEF B
<1> HIDE DEF N
<1>3. PICK f : Levels(shown, s, N, f) /\ Ancestor(shown, s, N) = f[N]
  BY <1>1, AncestorLevel
<1>4. f[0] = {s} /\ \A k \in 1..N : f[k] = UNION {ParentOf(shown, t) : t \in f[k - 1]}
  BY <1>1, <1>3 DEF Levels
<1> DEFINE Low(t, k) == t \in shown /\ Cardinality(Above(shown, t)) + k < N
           S == {k \in Nat : k <= N => \A t \in f[k] : Low(t, k)}
<1>5. 0 \in S
  <2>1. \A t \in f[0] : t \in shown /\ Cardinality(Above(shown, t)) + 0 < N
    BY <1>2, <1>4
  <2> QED
    BY <2>1
<1>6. ASSUME NEW k \in Nat, k \in S
      PROVE  k + 1 \in S
  <2> SUFFICES ASSUME k + 1 <= N, NEW u \in f[k + 1]
               PROVE  Low(u, k + 1)
    BY <1>6
  <2>1. k + 1 \in 1..N /\ (k + 1) - 1 = k /\ k <= N
    BY <1>1
  <2>2. f[k + 1] = UNION {ParentOf(shown, t) : t \in f[k]}
    BY <1>4, <2>1
  <2>3. PICK t \in f[k] : u \in ParentOf(shown, t)
    BY <2>2
  <2>4. t \in shown /\ Cardinality(Above(shown, t)) + k < N
    BY <1>6, <2>1, <2>3
  <2>5. u \in shown /\ Cardinality(Above(shown, u)) < Cardinality(Above(shown, t))
    BY <2>3, <2>4, ParentLower
  <2>6. Cardinality(Above(shown, u)) \in Nat /\ Cardinality(Above(shown, t)) \in Nat
    BY <1>2, <2>4, <2>5
  <2> QED
    BY <1>1, <2>4, <2>5, <2>6
<1> HIDE DEF S
<1>7. N \in S
  BY <1>1, <1>5, <1>6, AllNumbers
<1>8. f[N] = {}
  <2> SUFFICES ASSUME NEW t \in f[N]
               PROVE  FALSE
    OBVIOUS
  <2>1. t \in shown /\ Cardinality(Above(shown, t)) + N < N
    BY <1>1, <1>7 DEF S
  <2>2. Cardinality(Above(shown, t)) \in Nat
    BY <1>2, <2>1
  <2> QED
    BY <1>1, <2>1, <2>2
<1> QED
  BY <1>3, <1>8 DEF DepthEnds, N

--------------------------------------------------------------------------------
(* The theorems. *)

Inv == BaseInv /\ ViewRight

\* The inductive invariant holds initially.
LEMMA InvInit ==
  ASSUME Init
  PROVE  Inv
BY BaseInit DEF Init, Inv, ViewRight

\* A statement of a page keeps the inductive invariant.
LEMMA PageStep ==
  ASSUME Inv, PageOnly, view' = [page |-> "none", done |-> TRUE] \/ DetailRight' \/ ListRight'
  PROVE  Inv'
<1>1. view'.page \in {"none", "detail", "list"}
  <2>1. DetailRight' => view'.page = "detail"
    BY DEF DetailRight
  <2>2. ListRight' => view'.page = "list"
    BY DEF ListRight
  <2> QED
    BY <2>1, <2>2
<1> QED
  BY <1>1, PageKeeps DEF Inv, ViewRight

\* Every step keeps the inductive invariant.
LEMMA InvNext ==
  ASSUME Inv, [Next]_vars
  PROVE  Inv'
<1>0. BaseInv /\ ViewRight
  BY DEF Inv
<1>1. CASE \E r \in Requests : RefuseBody(r) \/ Receive(r) \/ Step(r) \/ Disconnect(r)
  <2>1. PICK r \in Requests : RefuseBody(r) \/ Receive(r) \/ Step(r) \/ Disconnect(r)
    BY <1>1
  <2>2. Moved(r)
    BY <1>0, <2>1, RequestMoves
  <2>3. BaseInv'
    BY <1>0, <2>2, MoveKeeps DEF Moved
  <2>4. ViewRight'
    BY <1>0, <2>2, MovedView
  <2> QED
    BY <2>3, <2>4 DEF Inv
<1>2. CASE clear_traces
  BY <1>0, <1>2, ClearKeeps, ClearView DEF Inv
<1>3. CASE \E r \in Requests : OpenDetail(r)
  BY <1>0, <1>3, OpenDetailRight, PageStep
<1>4. CASE ShowDetail
  <2>1. view.page = "detail"
    BY <1>4 DEF ShowDetail
  <2>2. DetailRight
    BY <1>0, <2>1 DEF ViewRight, ListRight
  <2> QED
    BY <1>0, <1>4, <2>2, ShowDetailRight, PageStep
<1>5. CASE ListTraces
  BY <1>0, <1>5, ListTracesRight, PageStep
<1>6. CASE ListStatement
  <2>1. view.page = "list"
    BY <1>6 DEF ListStatement
  <2>2. ListRight
    BY <1>0, <2>1 DEF ViewRight, DetailRight
  <2> QED
    BY <1>0, <1>6, <2>2, ListStatementRight, PageStep
<1>7. CASE LeavePage
  BY <1>7, PageStep DEF LeavePage, PageOnly
<1>8. CASE UNCHANGED vars
  <2>1. PageOnly /\ view' = view
    BY <1>8 DEF vars, PageOnly
  <2>2. DetailRight => DetailRight'
    BY <2>1 DEF DetailRight, PageOnly, SpansOf, Stored
  <2>3. ListRight => ListRight'
    BY <2>1 DEF ListRight, PageOnly, StillListed, ActionOf, SpansOf
  <2> QED
    BY <1>0, <2>1, <2>2, <2>3, PageStep DEF ViewRight
<1> QED
  BY <1>1, <1>2, <1>3, <1>4, <1>5, <1>6, <1>7, <1>8 DEF Next, Console

\* The inductive invariant holds always.
LEMMA InvHolds == Spec => []Inv
<1>1. Init => Inv
  BY InvInit
<1>2. Inv /\ [Next]_vars => Inv'
  BY InvNext
<1> QED
  BY <1>1, <1>2, PTL DEF Spec

\* No way out of the handling of a request skips a span: a request with a row has every
\* span it started, but for failed writes and cleared traces.
THEOREM TracesComplete == Spec => []TraceComplete
<1>1. Inv => TraceComplete
  <2> SUFFICES ASSUME Inv, NEW r \in DOMAIN rows, NEW n \in DOMAIN timers[r]
               PROVE  Recorded(r, n)
    BY DEF TraceComplete, Inv, BaseInv, Recorded
  <2>1. r \in Requests
    BY DEF Inv, BaseInv, TypeOK
  <2>2. stage[r] = "answered" /\ Covered(r)
    BY <2>1 DEF Inv, BaseInv, RequestRight, Answers
  <2> QED
    BY <2>2 DEF Covered, Running
<1> QED
  BY <1>1, InvHolds, PTL

\* The stored statuses tell one story: the spans of a request with a row agree with the
\* status of the response in that row.  Only a publish's evaluations and deliveries may fail
\* under a response that is ok, and no delivery follows a denial that is enforced.
THEOREM StatusesTellOneStory == Spec => []StatusesAgree
<1>1. Inv => StatusesAgree
  <2> SUFFICES ASSUME Inv, NEW r \in DOMAIN rows, NEW s \in SpansOf(r)
               PROVE  /\ s.name \in {"request", "action"} => s.status = rows[r].status
                      /\ Failing(s) =>
                           \/ rows[r].status = "error"
                           \/ s.name \in Deliveries
                           \/ s.name \in Evaluations /\ \A t \in SpansOf(r) : t.name # DeliveryOf[s.name]
    BY DEF StatusesAgree, Failing
  <2>1. r \in Requests /\ s \in spans /\ s.request = r /\ s.name \in SpanNames
    BY DEF Inv, BaseInv, TypeOK, SpansOf, SpanRow
  <2>2. rows[r].status = answer[r].status /\ SpanRight(s)
    BY <2>1 DEF Inv, BaseInv, RequestRight, Answers
  <2>3. ASSUME Failing(s), s.name \in Evaluations, NEW t \in SpansOf(r)
        PROVE  t.name # DeliveryOf[s.name]
    <3>1. t.request = r /\ SpanRight(t)
      BY DEF SpansOf, Inv, BaseInv
    <3>2. t.name \in DOMAIN timers[r]
      BY <3>1 DEF SpanRight, Stored
    <3>3. DeliveryOf[s.name] \notin DOMAIN timers[r]
      BY <2>1, <2>2, <2>3 DEF SpanRight, Spared
    <3> QED
      BY <3>2, <3>3
  <2>4. ASSUME Failing(s), s.name \in OwnSpans
        PROVE  rows[r].status = "error"
    BY <2>1, <2>2, <2>4 DEF SpanRight
  <2>5. s.name \in {"request", "action"} => s.status = rows[r].status
    BY <2>1, <2>2 DEF SpanRight
  <2> QED
    BY <2>1, <2>3, <2>4, <2>5 DEF SpanNames
<1> QED
  BY <1>1, InvHolds, PTL

\* The detail page's two statements never show part of a trace.
THEOREM DetailsWhole == Spec => []DetailWhole
<1>1. Inv => DetailWhole
  BY DEF Inv, ViewRight, DetailRight, ListRight, DetailWhole
<1> QED
  BY <1>1, InvHolds, PTL

\* span_depth ends for every span the detail page shows, however many there are, whichever
\* of their parents are missing and whichever ids of spans on one level coincide.
THEOREM GraphsEnd == Spec => []GraphEnds
<1>1. Inv => GraphEnds
  <2> SUFFICES ASSUME Inv, view.page = "detail", LevelsDistinct(view.request), NEW s \in view.shown
               PROVE  DepthEnds(view.shown, s)
    BY DEF GraphEnds
  <2> DEFINE shown == view.shown
             open == timers[view.request]
  <2>1. /\ view.request \in Requests /\ IsFiniteSet(shown)
        /\ \A t \in shown : t.request = view.request /\ t.name \in SpanNames /\ Stored(t)
    BY DEF Inv, ViewRight, DetailRight, ListRight
  <2>2. Rooted(open)
    BY <2>1 DEF Inv, BaseInv, RequestRight
  <2>3. \A t \in shown : /\ t.name \in DOMAIN open
                         /\ t.id = open[t.name].id /\ t.parent = open[t.name].parent
    BY <2>1 DEF Stored
  <2>4. \A m, n \in DOMAIN open : open[m].id = open[n].id => Level(m) = Level(n)
    BY DEF LevelsDistinct
  <2> HIDE DEF open, shown
  <2>5. ASSUME NEW t \in shown, NEW u \in ParentOf(shown, t)
        PROVE  Level(u.name) < Level(t.name)
    <3>1. u \in shown /\ u.id \in t.parent
      BY <2>5 DEF ParentOf
    <3>2. PICK p \in DOMAIN open : open[p].id = u.id /\ Level(p) < Level(t.name)
      BY <2>2, <2>3, <3>1 DEF Rooted
    <3>3. Level(u.name) = Level(p)
      BY <2>3, <2>4, <3>1, <3>2
    <3> QED
      BY <3>2, <3>3
  <2>6. Falling(shown)
    BY <2>1, <2>5, LevelsOfSpans DEF Falling
  <2>7. DepthEnds(shown, s)
    BY <2>1, <2>6, DepthBounded DEF shown
  <2> QED
    BY <2>7 DEF shown
<1> QED
  BY <1>1, InvHolds, PTL

\* The list page offers the service and the action of every trace it lists, unless the
\* traces were cleared while it was put together.
THEOREM FiltersAreOffered == Spec => []FiltersOffered
<1>1. Inv => FiltersOffered
  BY DEF Inv, ViewRight, DetailRight, ListRight, FiltersOffered
<1> QED
  BY <1>1, InvHolds, PTL
================================================================================
