----------------------------- MODULE SqsMessages -----------------------------
(***************************************************************************)
(* The messages of one SQS queue: the rows of sqs_messages and the         *)
(* handlers that send, receive (with long polling), hide again, delete and *)
(* purge them.                                                             *)
(*                                                                         *)
(* A handler runs between awaits, and other handlers and the clock run in  *)
(* between.  In particular receive_messages reads the clock before BEGIN   *)
(* IMMEDIATE gets the write lock, and ChangeMessageVisibility reads it     *)
(* before its UPDATE runs: both then write instants that may be old.       *)
(* Each SQL statement, and the receive transaction, is one step.           *)
(*                                                                         *)
(* Abstractions.  A message is its message_id (a fresh UUID); bodies and   *)
(* attributes are left out.  A receipt handle is the pair of a message and *)
(* the number of the receive that drew it: 16 random bytes never repeat.   *)
(***************************************************************************)
EXTENDS Integers, Sequences, FiniteSets

CONSTANTS
  Messages,            \* the message ids that may be drawn
  Handlers,            \* request handlers running at once
  VisibilityTimeouts,  \* VisibilityTimeout values, 0..43200 in the code
  WaitTimes,           \* WaitTimeSeconds values, 0..20 in the code
  MaxNumbers,          \* MaxNumberOfMessages values, 1..10 in the code
  Delays,              \* DelaySeconds values, 0..900 in the code
  Retentions,          \* MessageRetentionPeriod values
  Skews,               \* client clock minus server clock when a request is signed
  PollInterval,        \* the 100 ms between two polls, in clock units
  MaxClock,            \* bound: the clock stops here
  MaxReceives          \* bound: receives of one message

ASSUME ParametersAssumption ==
  /\ VisibilityTimeouts \subseteq Nat
  /\ WaitTimes \subseteq Nat
  /\ MaxNumbers \subseteq Nat \ {0}
  /\ Delays \subseteq Nat
  /\ Retentions \subseteq Nat \ {0}
  /\ Skews \subseteq Int
  /\ PollInterval \in Nat \ {0}
  /\ MaxClock \in Nat
  /\ MaxReceives \in Nat

VARIABLES
  clock,   \* the server's clock (Utc::now)
  rows,    \* the table: a function from the stored message ids to their rows
  drawn,   \* the message ids ever drawn
  pc,      \* pc[h] : where handler h is
  loc,     \* loc[h] : the local variables of handler h
  leases,  \* history: leases[m][k] is the instant the k-th receive of m was
           \* promised exclusive use until, as moved by its own handle since
  acked    \* history: the messages some DeleteMessage reported deleted

vars == <<clock, rows, drawn, pc, loc, leases, acked>>

--------------------------------------------------------------------------------
(* Types. *)

\* A row; receipt_handle 0 and first_received_at = NoTime stand for NULL.
NoTime == -1
Row == [id : Nat, sent_at : Int, visible_at : Int, expires_at : Int,
        receive_count : Nat, receipt_handle : Nat, first_received_at : Int]

\* The locals of a receive: its parameters, the deadline of the long poll, when to
\* poll next, and the instants read for the transaction under way.
ReceiveLocals == [limit : Nat, timeout : Nat, deadline : Int, wake : Int,
                  now : Int, until : Int]
\* The locals of a visibility change: the receipt handle and the instant to write.
ChangeLocals == [msg : Messages, number : Nat, until : Int]
NoLocals == [idle |-> TRUE]

Stored == DOMAIN rows

TypeOK ==
  /\ clock \in Nat
  /\ drawn \subseteq Messages
  /\ Stored \subseteq drawn
  /\ rows \in [Stored -> Row]
  /\ pc \in [Handlers -> {"idle", "wait", "txn", "check", "change"}]
  /\ DOMAIN loc = Handlers
  /\ \A h \in Handlers :
       /\ pc[h] \in {"wait", "txn", "check"} => loc[h] \in ReceiveLocals
       /\ pc[h] = "change" =>
            loc[h] \in ChangeLocals /\ loc[h].number \in 1..Len(leases[loc[h].msg])
  /\ leases \in [Messages -> Seq(Int)]
  /\ acked \subseteq Messages

--------------------------------------------------------------------------------
(* The store: one definition per SQL statement. *)

\* INTEGER PRIMARY KEY without AUTOINCREMENT: one more than the largest id stored.
NewRowId(id) ==
  /\ \A m \in Stored : rows[m].id < id
  /\ id = 1 \/ \E m \in Stored : rows[m].id + 1 = id

send_message(m, row) ==
  rows' = [x \in Stored \union {m} |-> IF x = m THEN row ELSE rows[x]]

\* Mutant: the lease and the delay are ignored.
VisibleAnyTime(now) == {m \in Stored : rows[m].expires_at > now}

\* Mutant: the retention period is ignored.
VisibleForever(now) == {m \in Stored : rows[m].visible_at <= now}

\* The rows a receive may take, and the first "limit" of them by sent_at, id.
Visible(now) ==
  {m \in Stored : rows[m].visible_at <= now /\ rows[m].expires_at > now}

\* Mutant: ORDER BY sent_at DESC.
NewestBefore(x, y) == rows[x].sent_at > rows[y].sent_at

Before(x, y) ==
  \/ rows[x].sent_at < rows[y].sent_at
  \/ rows[x].sent_at = rows[y].sent_at /\ rows[x].id < rows[y].id

Selected(now, limit) ==
  {m \in Visible(now) : Cardinality({x \in Visible(now) : Before(x, m)}) < limit}

\* Mutant: the receive count goes the wrong way.
ReceivedCountingDown(row, now, until) ==
  [row EXCEPT
     !.visible_at = until,
     !.receipt_handle = row.receive_count + 1,
     !.receive_count = row.receive_count - 1,
     !.first_received_at =
        IF row.first_received_at = NoTime THEN now ELSE row.first_received_at]

Received(row, now, until) ==
  [row EXCEPT
     !.visible_at = until,
     !.receipt_handle = row.receive_count + 1,
     !.receive_count = row.receive_count + 1,
     !.first_received_at =
        IF row.first_received_at = NoTime THEN now ELSE row.first_received_at]

\* Mutant: the UPDATE has no WHERE id IN (SELECT id FROM selected).
ReceiveEveryRow(S, now, until) ==
  rows' = [m \in Stored |-> Received(rows[m], now, until)]

receive_messages(S, now, until) ==
  rows' = [m \in Stored |-> IF m \in S THEN Received(rows[m], now, until) ELSE rows[m]]

\* WHERE receipt_handle = ?
HandleMatches(m, number) ==
  m \in Stored /\ rows[m].receipt_handle = number

DeleteRows(S) ==
  rows' = [m \in Stored \ S |-> rows[m]]

set_message_visible_at(m, until) ==
  rows' = [rows EXCEPT ![m] = [@ EXCEPT !.visible_at = until]]

--------------------------------------------------------------------------------
(* The handlers. *)

Idle(h) == pc[h] = "idle"

Finish(h) ==
  /\ pc' = [pc EXCEPT ![h] = "idle"]
  /\ loc' = [loc EXCEPT ![h] = NoLocals]

\* SendMessage.  The three instants of the row come from the date the client signed
\* the request with, which nothing compares with the server's clock.
SendMessage(m) ==
  /\ m \notin drawn
  /\ \E skew \in Skews, delay \in Delays, retention \in Retentions,
        id \in {1} \union {rows[x].id + 1 : x \in Stored} :
       /\ NewRowId(id)
       /\ send_message(m, [id |-> id,
                           sent_at |-> clock + skew,
                           visible_at |-> clock + skew + delay,
                           expires_at |-> clock + skew + retention,
                           receive_count |-> 0,
                           receipt_handle |-> 0,
                           first_received_at |-> NoTime])
  /\ drawn' = drawn \union {m}
  /\ UNCHANGED <<clock, pc, loc, leases, acked>>

\* Bound: every receive under way may take every message once more.
ReceivesLeft ==
  \A m \in Stored :
    rows[m].receive_count + Cardinality({h \in Handlers : ~Idle(h)}) < MaxReceives

\* ReceiveMessage: the queue is loaded and the deadline set.
ReceiveMessage(h) ==
  /\ Idle(h)
  /\ ReceivesLeft
  /\ \E limit \in MaxNumbers, timeout \in VisibilityTimeouts, wait \in WaitTimes :
       /\ clock + wait <= MaxClock
       /\ loc' = [loc EXCEPT ![h] =
            [limit |-> limit, timeout |-> timeout, deadline |-> clock + wait,
             wake |-> clock, now |-> 0, until |-> 0]]
  /\ pc' = [pc EXCEPT ![h] = "wait"]
  /\ UNCHANGED <<clock, rows, drawn, leases, acked>>

\* Mutant: visible_at is compared with leased_until instead of now.
BeginReceiveWithLeaseEnd(h) ==
  /\ pc[h] = "wait"
  /\ loc[h].wake <= clock
  /\ loc' = [loc EXCEPT ![h] = [@ EXCEPT !.now = clock + loc[h].timeout,
                                         !.until = clock + loc[h].timeout]]
  /\ pc' = [pc EXCEPT ![h] = "txn"]
  /\ UNCHANGED <<clock, rows, drawn, leases, acked>>

\* A poll starts: the clock is read (twice, with no await in between: one reading
\* here), then the write lock is waited for.
BeginReceive(h) ==
  /\ pc[h] = "wait"
  /\ loc[h].wake <= clock
  /\ loc' = [loc EXCEPT ![h] = [@ EXCEPT !.now = clock, !.until = clock + loc[h].timeout]]
  /\ pc' = [pc EXCEPT ![h] = "txn"]
  /\ UNCHANGED <<clock, rows, drawn, leases, acked>>

\* The transaction: lease what is visible at the instant read, and answer if that
\* is anything.
CommitReceive(h) ==
  /\ pc[h] = "txn"
  /\ LET S == Selected(loc[h].now, loc[h].limit) IN
       /\ receive_messages(S, loc[h].now, loc[h].until)
       /\ leases' = [m \in Messages |->
                       IF m \in S THEN Append(leases[m], loc[h].until) ELSE leases[m]]
       /\ \/ /\ S # {}
             /\ Finish(h)
          \/ /\ S = {}
             /\ pc' = [pc EXCEPT ![h] = "check"]
             /\ UNCHANGED loc
  /\ UNCHANGED <<clock, drawn, acked>>

\* Mutant: the deadline itself is not late enough, and is slept towards for ever.
EmptyReceiveAfterDeadline(h) ==
  /\ pc[h] = "check"
  /\ \/ /\ clock > loc[h].deadline
        /\ Finish(h)
     \/ /\ clock <= loc[h].deadline
        /\ pc' = [pc EXCEPT ![h] = "wait"]
        /\ loc' = [loc EXCEPT ![h] = [@ EXCEPT !.wake = loc[h].deadline,
                                               !.now = 0, !.until = 0]]
  /\ UNCHANGED <<clock, rows, drawn, leases, acked>>

\* An empty poll: past the deadline the answer is empty, before it the handler
\* sleeps for the poll interval, or until the deadline if that is sooner.
EmptyReceive(h) ==
  /\ pc[h] = "check"
  /\ \/ /\ clock >= loc[h].deadline
        /\ Finish(h)
     \/ /\ clock < loc[h].deadline
        /\ pc' = [pc EXCEPT ![h] = "wait"]
        /\ loc' = [loc EXCEPT ![h] = [@ EXCEPT
             !.wake = IF loc[h].deadline <= clock + PollInterval
                        THEN loc[h].deadline ELSE clock + PollInterval,
             !.now = 0,
             !.until = 0]]
  /\ UNCHANGED <<clock, rows, drawn, leases, acked>>

\* A statement that cannot get the write lock within busy_timeout fails and the
\* request answers InternalError; nothing was written.
Busy(h) ==
  /\ pc[h] \in {"txn", "change"}
  /\ Finish(h)
  /\ UNCHANGED <<clock, rows, drawn, leases, acked>>

\* ChangeMessageVisibility, with any receipt handle ever returned (one entry of the
\* batch form does the same): the clock is read, then the UPDATE runs.
ChangeMessageVisibility(h) ==
  /\ Idle(h)
  /\ \E m \in Messages : \E number \in 1..Len(leases[m]), timeout \in VisibilityTimeouts :
       loc' = [loc EXCEPT ![h] =
                 [msg |-> m, number |-> number, until |-> clock + timeout]]
  /\ pc' = [pc EXCEPT ![h] = "change"]
  /\ UNCHANGED <<clock, rows, drawn, leases, acked>>

CommitChange(h) ==
  /\ pc[h] = "change"
  /\ LET m == loc[h].msg
         until == loc[h].until IN
       \/ /\ HandleMatches(m, loc[h].number)
          /\ set_message_visible_at(m, until)
          /\ leases' = [leases EXCEPT ![m][loc[h].number] = until]
       \/ /\ ~HandleMatches(m, loc[h].number)     \* ReceiptHandleIsInvalid
          /\ UNCHANGED <<rows, leases>>
  /\ Finish(h)
  /\ UNCHANGED <<clock, drawn, acked>>

\* Mutant: rows_affected is not looked at, every delete is reported done.
DeleteMessageUnchecked(m, number) ==
  /\ acked' = acked \union {m}
  /\ \/ HandleMatches(m, number) /\ DeleteRows({m})
     \/ ~HandleMatches(m, number) /\ UNCHANGED rows
  /\ UNCHANGED <<clock, drawn, pc, loc, leases>>

\* DeleteMessage, with any receipt handle ever returned: one statement, which says
\* whether it deleted a row.
DeleteMessage(m, number) ==
  /\ \/ /\ HandleMatches(m, number)
        /\ DeleteRows({m})
        /\ acked' = acked \union {m}
     \/ /\ ~HandleMatches(m, number)              \* ReceiptHandleIsInvalid
        /\ UNCHANGED <<rows, acked>>
  /\ UNCHANGED <<clock, drawn, pc, loc, leases>>

\* The web console removes a message by its id.
DeleteMessageById(m) ==
  /\ m \in Stored
  /\ DeleteRows({m})
  /\ UNCHANGED <<clock, drawn, pc, loc, leases, acked>>

PurgeQueue ==
  /\ DeleteRows(Stored)
  /\ UNCHANGED <<clock, drawn, pc, loc, leases, acked>>

--------------------------------------------------------------------------------
(* The environment. *)

Tick ==
  /\ clock < MaxClock
  /\ clock' = clock + 1
  /\ UNCHANGED <<rows, drawn, pc, loc, leases, acked>>

\* The process stops and starts again: the handlers are gone, the table stays.
Restart ==
  /\ pc' = [h \in Handlers |-> "idle"]
  /\ loc' = [h \in Handlers |-> NoLocals]
  /\ UNCHANGED <<clock, rows, drawn, leases, acked>>

Init ==
  /\ clock = 0
  /\ rows = [m \in {} |-> NoLocals]
  /\ drawn = {}
  /\ pc = [h \in Handlers |-> "idle"]
  /\ loc = [h \in Handlers |-> NoLocals]
  /\ leases = [m \in Messages |-> <<>>]
  /\ acked = {}

HandlerStep(h) ==
  BeginReceive(h) \/ CommitReceive(h) \/ EmptyReceive(h) \/ Busy(h) \/ CommitChange(h)

Next ==
  \/ \E m \in Messages :
       \/ SendMessage(m)
       \/ \E number \in 1..Len(leases[m]) : DeleteMessage(m, number)
       \/ DeleteMessageById(m)
  \/ \E h \in Handlers :
       ReceiveMessage(h) \/ ChangeMessageVisibility(h) \/ HandlerStep(h)
  \/ PurgeQueue
  \/ Tick
  \/ Restart

\* A ready task is polled again by the tokio scheduler, and time passes.
Fairness == WF_vars(Tick) /\ \A h \in Handlers : WF_vars(HandlerStep(h))

Spec == Init /\ [][Next]_vars

LiveSpec == Spec /\ Fairness

--------------------------------------------------------------------------------
(* Properties. *)

\* Two consumers never hold the same message at once: of all the leases ever granted
\* on a message at most one runs beyond the present.  receive_messages grants them
\* from instants read before the write lock was held, and ChangeMessageVisibility
\* may be writing an older instant meanwhile.
LeaseExclusion ==
  \A m \in Messages : \A i, j \in 1..Len(leases[m]) :
    leases[m][i] > clock /\ leases[m][j] > clock => i = j

\* A message that DeleteMessage reported deleted is in the table no more, whatever
\* receives, visibility changes and deletes with older receipt handles are under way.
AckedStayGone == acked \cap Stored = {}

\* The instants of a received message are in order, as the SentTimestamp and
\* ApproximateFirstReceiveTimestamp attributes report them: it was sent before its
\* first receive, which happened before it expired and before it is visible again,
\* however far the sender's clock is off and whatever changes are under way.
StampsOrdered ==
  \A m \in Stored :
    rows[m].receive_count > 0 =>
      /\ rows[m].sent_at <= rows[m].first_received_at
      /\ rows[m].first_received_at < rows[m].expires_at
      /\ rows[m].first_received_at <= rows[m].visible_at

DeliversOnlyVisible ==
  \A m \in Stored :
    m \in Stored' /\ rows'[m].receive_count # rows[m].receive_count =>
      /\ rows[m].visible_at <= clock
      /\ rows'[m].visible_at >= rows[m].visible_at

\* A step never hands out a message whose delay or lease has not run out by the
\* server's clock, and a receive never makes a message reappear earlier.
NoEarlyDelivery == [][DeliversOnlyVisible]_vars

\* A receive does not pass over an older message: when y is handed out, so is every
\* unexpired x that was sent before it and has been visible for at least as long.
OldestFirst ==
  [][\A x, y \in Stored :
       /\ {x, y} \subseteq Stored'
       /\ rows'[y].receive_count # rows[y].receive_count
       /\ rows[x].sent_at < rows[y].sent_at
       /\ rows[x].visible_at <= rows[y].visible_at
       /\ rows[x].expires_at > clock
       => rows'[x].receive_count # rows[x].receive_count]_vars

\* Every ReceiveMessage and ChangeMessageVisibility is answered: the long poll ends
\* at its deadline even if no message ever becomes visible.
RequestsEnd ==
  \A h \in Handlers : pc[h] # "idle" ~> pc[h] = "idle"

\* The rows, seen as the abstract lease queue.
LQ == INSTANCE LeaseQueue WITH
  phase <- [m \in Messages |->
              IF m \in Stored THEN "stored" ELSE IF m \in drawn THEN "gone" ELSE "new"],
  hidden <- {m \in Stored : rows[m].visible_at > clock},
  lease <- [m \in Messages |-> Len(leases[m])]

\* The timed, interleaved implementation keeps the promises of LeaseQueue.
ImplementsLeaseQueue == LQ!AbsSpec
================================================================================
