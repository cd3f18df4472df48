-------------------------- MODULE SqsMessagesProofs --------------------------
(***************************************************************************)
(* Proofs about SqsMessages, for every set of messages and handlers and    *)
(* every value of the bounds.                                              *)
(***************************************************************************)
EXTENDS SqsMessages, FiniteSetTheorems, TLAPS

USE ParametersAssumption

--------------------------------------------------------------------------------
(* What the updates of rows, locals and lease histories preserve. *)

\* Reading the clock for a poll keeps the locals of a receive well typed.
LEMMA PollLocals ==
  ASSUME NEW r \in ReceiveLocals, NEW now \in Int, NEW until \in Int
  PROVE  /\ [r EXCEPT !.now = now, !.until = until] \in ReceiveLocals
         /\ [r EXCEPT !.now = now, !.until = until].now = now
         /\ [r EXCEPT !.now = now, !.until = until].until = until
BY DEF ReceiveLocals

\* So does setting the time of the next poll.
LEMMA SleepLocals ==
  ASSUME NEW r \in ReceiveLocals, NEW wake \in Int
  PROVE  [r EXCEPT !.wake = wake, !.now = 0, !.until = 0] \in ReceiveLocals
<1> DEFINE r1 == [r EXCEPT !.wake = wake]
           r2 == [r1 EXCEPT !.now = 0]
           r3 == [r2 EXCEPT !.until = 0]
<1>1. r1 \in ReceiveLocals
  BY DEF ReceiveLocals
<1> HIDE DEF r1
<1>2. r2 \in ReceiveLocals
  BY <1>1 DEF ReceiveLocals
<1> HIDE DEF r2
<1>3. r3 \in ReceiveLocals
  BY <1>2 DEF ReceiveLocals
<1> QED
  BY <1>3 DEF r1, r2, r3

\* A received row is a row, with the next receipt handle and the new instants.
LEMMA ReceivedRow ==
  ASSUME NEW row \in Row, NEW now \in Int, NEW until \in Int
  PROVE  LET new == Received(row, now, until) IN
         /\ new \in Row
         /\ new.id = row.id
         /\ new.sent_at = row.sent_at
         /\ new.visible_at = until
         /\ new.expires_at = row.expires_at
         /\ new.receive_count = row.receive_count + 1
         /\ new.receipt_handle = row.receive_count + 1
         /\ new.first_received_at =
              IF row.first_received_at = NoTime THEN now ELSE row.first_received_at
<1> DEFINE first == IF row.first_received_at = NoTime THEN now ELSE row.first_received_at
           r1 == [row EXCEPT !.visible_at = until]
           r2 == [r1 EXCEPT !.receipt_handle = row.receive_count + 1]
           r3 == [r2 EXCEPT !.receive_count = row.receive_count + 1]
           r4 == [r3 EXCEPT !.first_received_at = first]
<1>0. row.receive_count + 1 \in Nat /\ first \in Int
  BY DEF Row
<1> HIDE DEF first
<1>1. /\ r1 \in Row
      /\ r1.id = row.id /\ r1.sent_at = row.sent_at /\ r1.visible_at = until
      /\ r1.expires_at = row.expires_at
  BY DEF Row
<1> HIDE DEF r1
<1>2. /\ r2 \in Row
      /\ r2.id = row.id /\ r2.sent_at = row.sent_at /\ r2.visible_at = until
      /\ r2.expires_at = row.expires_at /\ r2.receipt_handle = row.receive_count + 1
  BY <1>0, <1>1 DEF Row
<1> HIDE DEF r2
<1>3. /\ r3 \in Row
      /\ r3.id = row.id /\ r3.sent_at = row.sent_at /\ r3.visible_at = until
      /\ r3.expires_at = row.expires_at /\ r3.receipt_handle = row.receive_count + 1
      /\ r3.receive_count = row.receive_count + 1
  BY <1>0, <1>2 DEF Row
<1> HIDE DEF r3
<1>4. /\ r4 \in Row
      /\ r4.id = row.id /\ r4.sent_at = row.sent_at /\ r4.visible_at = until
      /\ r4.expires_at = row.expires_at /\ r4.receipt_handle = row.receive_count + 1
      /\ r4.receive_count = row.receive_count + 1 /\ r4.first_received_at = first
  BY <1>0, <1>3 DEF Row
<1>5. Received(row, now, until) = r4
  BY DEF Received, r1, r2, r3, r4, first
<1> QED
  BY <1>4, <1>5 DEF first

\* Moving visible_at touches nothing else of a row.
LEMMA HiddenRow ==
  ASSUME NEW row \in Row, NEW until \in Int
  PROVE  LET new == [row EXCEPT !.visible_at = until] IN
         /\ new \in Row
         /\ new.id = row.id
         /\ new.sent_at = row.sent_at
         /\ new.visible_at = until
         /\ new.expires_at = row.expires_at
         /\ new.receive_count = row.receive_count
         /\ new.receipt_handle = row.receipt_handle
         /\ new.first_received_at = row.first_received_at
BY DEF Row

\* Moving the end of one lease keeps the number of leases and the others.
LEMMA MovedLease ==
  ASSUME NEW s \in Seq(Int), NEW i \in 1..Len(s), NEW until \in Int
  PROVE  LET new == [s EXCEPT ![i] = until] IN
         /\ new \in Seq(Int)
         /\ Len(new) = Len(s)
         /\ \A j \in 1..Len(s) : new[j] = IF j = i THEN until ELSE s[j]
OBVIOUS

--------------------------------------------------------------------------------
(* Types. *)

\* No step of a handler, of the clock or a restart breaks the types.
LEMMA TypeStep == TypeOK /\ [Next]_vars => TypeOK'
<1> SUFFICES ASSUME TypeOK, [Next]_vars
             PROVE  TypeOK'
  OBVIOUS
<1>1. ASSUME NEW m \in Messages, SendMessage(m)
      PROVE  TypeOK'
  <2>1. PICK skew \in Skews, delay \in Delays, retention \in Retentions,
             id \in {1} \union {rows[x].id + 1 : x \in Stored} :
               send_message(m, [id |-> id,
                                sent_at |-> clock + skew,
                                visible_at |-> clock + skew + delay,
                                expires_at |-> clock + skew + retention,
                                receive_count |-> 0,
                                receipt_handle |-> 0,
                                first_received_at |-> NoTime])
    BY <1>1 DEF SendMessage
  <2>2. id \in Nat
    BY DEF TypeOK, Row
  <2>3. [id |-> id, sent_at |-> clock + skew, visible_at |-> clock + skew + delay,
         expires_at |-> clock + skew + retention, receive_count |-> 0,
         receipt_handle |-> 0, first_received_at |-> NoTime] \in Row
    BY <2>2 DEF TypeOK, Row, NoTime
  <2> QED
    BY <1>1, <2>1, <2>3 DEF SendMessage, send_message, TypeOK, Stored
<1>2. ASSUME NEW m \in Messages, NEW number \in 1..Len(leases[m]), DeleteMessage(m, number)
      PROVE  TypeOK'
  BY <1>2 DEF DeleteMessage, DeleteRows, TypeOK, Stored
<1>3. ASSUME NEW m \in Messages, DeleteMessageById(m)
      PROVE  TypeOK'
  BY <1>3 DEF DeleteMessageById, DeleteRows, TypeOK, Stored
<1>4. ASSUME NEW h \in Handlers, ReceiveMessage(h)
      PROVE  TypeOK'
  <2>1. PICK limit \in MaxNumbers, timeout \in VisibilityTimeouts, wait \in WaitTimes :
          loc' = [loc EXCEPT ![h] =
            [limit |-> limit, timeout |-> timeout, deadline |-> clock + wait,
             wake |-> clock, now |-> 0, until |-> 0]]
    BY <1>4 DEF ReceiveMessage
  <2> DEFINE l == [limit |-> limit, timeout |-> timeout, deadline |-> clock + wait,
                   wake |-> clock, now |-> 0, until |-> 0]
  <2>2. l \in ReceiveLocals
    BY DEF ReceiveLocals, TypeOK
  <2>3. loc' = [loc EXCEPT ![h] = l]
    BY <2>1
  <2> HIDE DEF l
  <2>4. pc' = [pc EXCEPT ![h] = "wait"] /\ UNCHANGED <<clock, rows, drawn, leases, acked>>
    BY <1>4 DEF ReceiveMessage
  <2> QED
    BY <2>2, <2>3, <2>4 DEF TypeOK, Stored
<1>5. ASSUME NEW h \in Handlers, ChangeMessageVisibility(h)
      PROVE  TypeOK'
  BY <1>5 DEF ChangeMessageVisibility, TypeOK, Stored, ChangeLocals, Idle
<1>6. ASSUME NEW h \in Handlers, BeginReceive(h)
      PROVE  TypeOK'
  <2>1. loc'[h] \in ReceiveLocals
    <3>1. loc[h] \in ReceiveLocals /\ clock \in Int /\ clock + loc[h].timeout \in Int
      BY <1>6 DEF BeginReceive, TypeOK, ReceiveLocals
    <3> QED
      BY <1>6, <3>1, PollLocals DEF BeginReceive, TypeOK
  <2> QED
    BY <1>6, <2>1 DEF BeginReceive, TypeOK, Stored
<1>7. ASSUME NEW h \in Handlers, CommitReceive(h)
      PROVE  TypeOK'
  <2> DEFINE S == Selected(loc[h].now, loc[h].limit)
  <2> HIDE DEF S
  <2>1. loc[h] \in ReceiveLocals
    BY <1>7 DEF CommitReceive, TypeOK
  <2>2. /\ receive_messages(S, loc[h].now, loc[h].until)
        /\ leases' = [m \in Messages |->
                        IF m \in S THEN Append(leases[m], loc[h].until) ELSE leases[m]]
        /\ \/ Finish(h)
           \/ pc' = [pc EXCEPT ![h] = "check"] /\ UNCHANGED loc
    BY <1>7 DEF CommitReceive, S
  <2>3. \A m \in Stored : Received(rows[m], loc[h].now, loc[h].until) \in Row
    BY <2>1, ReceivedRow DEF TypeOK, ReceiveLocals
  <2>4. rows' \in [Stored -> Row]
    BY <2>2, <2>3 DEF receive_messages, TypeOK
  <2>5. leases' \in [Messages -> Seq(Int)]
    BY <2>1, <2>2 DEF TypeOK, ReceiveLocals
  <2>6. \A m \in Messages : Len(leases'[m]) \in Nat /\ Len(leases'[m]) >= Len(leases[m])
    BY <2>1, <2>2 DEF TypeOK, ReceiveLocals
  <2> QED
    <3>1. /\ Stored' = Stored
          /\ pc' \in [Handlers -> {"idle", "wait", "txn", "check", "change"}]
          /\ DOMAIN loc' = Handlers
      BY <2>2, <2>4 DEF receive_messages, Finish, TypeOK, Stored
    <3>2. ASSUME NEW g \in Handlers
          PROVE  /\ pc'[g] \in {"wait", "txn", "check"} => loc'[g] \in ReceiveLocals
                 /\ pc'[g] = "change" =>
                      /\ loc'[g] \in ChangeLocals
                      /\ loc'[g].number \in 1..Len(leases'[loc'[g].msg])
      <4>1. CASE g = h
        BY <1>7, <2>1, <2>2, <4>1 DEF Finish, TypeOK
      <4>2. CASE g # h
        BY <2>2, <2>6, <4>2 DEF Finish, TypeOK, ChangeLocals
      <4> QED
        BY <4>1, <4>2
    <3> QED
      BY <1>7, <2>4, <2>5, <3>1, <3>2 DEF CommitReceive, TypeOK
<1>8. ASSUME NEW h \in Handlers, EmptyReceive(h)
      PROVE  TypeOK'
  <2>1. CASE Finish(h)
    BY <1>8, <2>1 DEF EmptyReceive, Finish, TypeOK, Stored
  <2>2. CASE ~Finish(h)
    <3> DEFINE wake == IF loc[h].deadline <= clock + PollInterval
                         THEN loc[h].deadline ELSE clock + PollInterval
    <3>2. loc[h] \in ReceiveLocals /\ wake \in Int
      BY <1>8 DEF EmptyReceive, TypeOK, ReceiveLocals
    <3>3. [loc[h] EXCEPT !.wake = wake, !.now = 0, !.until = 0] \in ReceiveLocals
      BY <3>2, SleepLocals
    <3>1. loc'[h] \in ReceiveLocals /\ pc' = [pc EXCEPT ![h] = "wait"]
      BY <1>8, <2>2, <3>3 DEF EmptyReceive, TypeOK
    <3> QED
      BY <1>8, <2>2, <3>1 DEF EmptyReceive, TypeOK, Stored
  <2> QED
    BY <2>1, <2>2
<1>9. ASSUME NEW h \in Handlers, Busy(h)
      PROVE  TypeOK'
  BY <1>9 DEF Busy, Finish, TypeOK, Stored
<1>10. ASSUME NEW h \in Handlers, CommitChange(h)
       PROVE  TypeOK'
  <2> DEFINE m == loc[h].msg
  <2>1. loc[h] \in ChangeLocals
    BY <1>10 DEF CommitChange, TypeOK
  <2>2. CASE HandleMatches(m, loc[h].number)
    <3>1. rows' \in [Stored -> Row]
      <4>1. [rows[m] EXCEPT !.visible_at = loc[h].until] \in Row
        BY <2>1, <2>2, HiddenRow DEF HandleMatches, TypeOK, ChangeLocals
      <4> QED
        BY <1>10, <2>2, <4>1 DEF CommitChange, set_message_visible_at, TypeOK
    <3>2. /\ leases' \in [Messages -> Seq(Int)]
          /\ \A x \in Messages : Len(leases'[x]) = Len(leases[x])
      <4>1. /\ m \in Messages /\ leases[m] \in Seq(Int) /\ loc[h].until \in Int
            /\ loc[h].number \in 1..Len(leases[m])
        BY <1>10, <2>1 DEF CommitChange, TypeOK, ChangeLocals
      <4>2. /\ [leases[m] EXCEPT ![loc[h].number] = loc[h].until] \in Seq(Int)
            /\ Len([leases[m] EXCEPT ![loc[h].number] = loc[h].until]) = Len(leases[m])
        BY <4>1, MovedLease
      <4> QED
        BY <1>10, <2>2, <4>1, <4>2 DEF CommitChange, TypeOK
    <3> QED
      BY <1>10, <3>1, <3>2 DEF CommitChange, Finish, TypeOK, Stored, ChangeLocals
  <2>3. CASE ~HandleMatches(m, loc[h].number)
    BY <1>10, <2>3 DEF CommitChange, Finish, TypeOK, Stored
  <2> QED
    BY <2>2, <2>3
<1>11. CASE PurgeQueue
  BY <1>11 DEF PurgeQueue, DeleteRows, TypeOK, Stored
<1>12. CASE Tick
  BY <1>12 DEF Tick, TypeOK, Stored
<1>13. CASE Restart
  BY <1>13 DEF Restart, TypeOK, Stored
<1>14. CASE UNCHANGED vars
  BY <1>14 DEF vars, TypeOK, Stored
<1> QED
  BY <1>1, <1>2, <1>3, <1>4, <1>5, <1>6, <1>7, <1>8, <1>9, <1>10, <1>11, <1>12,
     <1>13, <1>14 DEF Next, HandlerStep

\* The table and the handlers' locals keep their types.
THEOREM TypeCorrect == Spec => []TypeOK
<1>1. Init => TypeOK
  BY DEF Init, TypeOK, Stored, NoLocals
<1> QED
  BY <1>1, TypeStep, PTL DEF Spec

--------------------------------------------------------------------------------
(* The inductive invariant. *)

\* The instants a handler holds were read from the clock: a poll looks at the past,
\* and a visibility change was asked for after the message was first received.
HandlerInv ==
  \A h \in Handlers :
    /\ pc[h] = "txn" =>
         0 <= loc[h].now /\ loc[h].now <= clock /\ loc[h].now <= loc[h].until
    /\ pc[h] = "change" /\ loc[h].msg \in Stored =>
         rows[loc[h].msg].first_received_at <= loc[h].until

\* Every lease but the latest has run out.
LeaseInv ==
  \A m \in Messages : \A i \in 1..Len(leases[m]) :
    i < Len(leases[m]) => leases[m][i] <= clock

\* A row agrees with the history ls of its message at time t.
RowAgrees(row, ls, t) ==
  /\ row.receive_count = Len(ls)
  /\ row.receipt_handle = Len(ls)
  /\ row.receive_count = 0 =>
       row.first_received_at = NoTime /\ row.sent_at <= row.visible_at
  /\ row.receive_count > 0 =>
       /\ row.visible_at = ls[Len(ls)]
       /\ 0 <= row.first_received_at
       /\ row.first_received_at <= t
       /\ row.sent_at <= row.first_received_at
       /\ row.first_received_at < row.expires_at
       /\ row.first_received_at <= row.visible_at

RowInv == \A m \in Stored : RowAgrees(rows[m], leases[m], clock)

\* A message id not drawn yet has no history, and one acknowledged is gone for good.
DrawnInv ==
  /\ \A m \in Messages \ drawn : leases[m] = <<>>
  /\ acked \subseteq drawn \ Stored

IInv == TypeOK /\ HandlerInv /\ LeaseInv /\ RowInv /\ DrawnInv

\* A row received at an instant it is visible and unexpired agrees with the history
\* to which that receive was added.
LEMMA ReceivedAgrees ==
  ASSUME NEW row \in Row, NEW ls \in Seq(Int), NEW t \in Int, NEW now \in Int,
         NEW until \in Int, RowAgrees(row, ls, t),
         row.visible_at <= now, now < row.expires_at, 0 <= now, now <= t, now <= until
  PROVE  RowAgrees(Received(row, now, until), Append(ls, until), t)
<1> DEFINE new == Received(row, now, until)
           app == Append(ls, until)
<1>1. /\ new.sent_at = row.sent_at
      /\ new.visible_at = until
      /\ new.expires_at = row.expires_at
      /\ new.receive_count = row.receive_count + 1
      /\ new.receipt_handle = row.receive_count + 1
      /\ new.first_received_at =
           IF row.first_received_at = NoTime THEN now ELSE row.first_received_at
  BY ReceivedRow
<1>2. Len(app) = Len(ls) + 1 /\ app[Len(ls) + 1] = until /\ Len(ls) \in Nat
  OBVIOUS
<1>3. /\ row.sent_at \in Int /\ row.visible_at \in Int /\ row.expires_at \in Int
      /\ row.first_received_at \in Int /\ row.receive_count \in Nat
  BY DEF Row
<1> HIDE DEF new, app
<1>4. /\ 0 <= new.first_received_at /\ new.first_received_at <= now
      /\ new.sent_at <= new.first_received_at
      /\ new.first_received_at < new.expires_at
  <2>1. CASE row.receive_count = 0
    BY <1>1, <1>3, <2>1 DEF RowAgrees
  <2>2. CASE row.receive_count > 0
    BY <1>1, <1>3, <2>2 DEF RowAgrees, NoTime
  <2> QED
    BY <1>3, <2>1, <2>2
<1>5. new.first_received_at \in Int
  BY <1>1, <1>3
<1>6. RowAgrees(new, app, t)
  BY <1>1, <1>2, <1>3, <1>4, <1>5 DEF RowAgrees
<1> QED
  BY <1>6 DEF new, app

\* Moving visible_at and the end of the latest lease together, not before the first
\* receive, keeps the row in agreement with its history.
LEMMA HiddenAgrees ==
  ASSUME NEW row \in Row, NEW ls \in Seq(Int), NEW t \in Int, NEW until \in Int,
         RowAgrees(row, ls, t), Len(ls) > 0, row.first_received_at <= until
  PROVE  RowAgrees([row EXCEPT !.visible_at = until], [ls EXCEPT ![Len(ls)] = until], t)
<1> DEFINE new == [row EXCEPT !.visible_at = until]
           moved == [ls EXCEPT ![Len(ls)] = until]
<1>1. /\ new.sent_at = row.sent_at
      /\ new.visible_at = until
      /\ new.expires_at = row.expires_at
      /\ new.receive_count = row.receive_count
      /\ new.receipt_handle = row.receipt_handle
      /\ new.first_received_at = row.first_received_at
  BY HiddenRow
<1>2. Len(moved) = Len(ls) /\ moved[Len(ls)] = until
  BY MovedLease
<1>3. row.receive_count = Len(ls) /\ Len(ls) \in Nat
  BY DEF RowAgrees
<1> HIDE DEF new, moved
<1>4. RowAgrees(new, moved, t)
  BY <1>1, <1>2, <1>3 DEF RowAgrees
<1> QED
  BY <1>4 DEF new, moved

\* A row that agrees with its history still does so later.
LEMMA LaterAgrees ==
  ASSUME NEW row \in Row, NEW ls \in Seq(Int), NEW t \in Int, RowAgrees(row, ls, t)
  PROVE  RowAgrees(row, ls, t + 1)
BY DEF RowAgrees, Row

\* The facts a committed receive establishes about what it took and what it left.
LEMMA CommitReceiveEffect ==
  ASSUME IInv, NEW h \in Handlers, CommitReceive(h)
  PROVE  LET S == Selected(loc[h].now, loc[h].limit) IN
         /\ Stored' = Stored
         /\ S \subseteq Stored
         /\ loc[h].now <= clock
         /\ \A m \in S :
              /\ rows[m].visible_at <= loc[h].now
              /\ rows[m].expires_at > loc[h].now
              /\ rows'[m] = Received(rows[m], loc[h].now, loc[h].until)
              /\ leases'[m] = Append(leases[m], loc[h].until)
         /\ \A m \in Stored \ S : rows'[m] = rows[m]
         /\ \A m \in Messages \ S : leases'[m] = leases[m]
         /\ UNCHANGED <<clock, drawn, acked>>
         /\ \A g \in Handlers \ {h} : pc'[g] = pc[g] /\ loc'[g] = loc[g]
         /\ pc'[h] \in {"idle", "check"}
<1>1. loc[h].now <= clock
  BY DEF IInv, HandlerInv, CommitReceive
<1>2. Visible(loc[h].now) \subseteq Stored
  BY DEF Visible
<1>3. Selected(loc[h].now, loc[h].limit) \subseteq Visible(loc[h].now)
  BY DEF Selected
<1>4. \A m \in Visible(loc[h].now) :
        rows[m].visible_at <= loc[h].now /\ rows[m].expires_at > loc[h].now
  BY DEF Visible
<1>5. Stored \subseteq Messages
  BY DEF IInv, TypeOK
<1> DEFINE S == Selected(loc[h].now, loc[h].limit)
<1> HIDE DEF S
<1>6. /\ receive_messages(S, loc[h].now, loc[h].until)
      /\ leases' = [m \in Messages |->
                      IF m \in S THEN Append(leases[m], loc[h].until) ELSE leases[m]]
      /\ UNCHANGED <<clock, drawn, acked>>
      /\ \/ Finish(h)
         \/ pc' = [pc EXCEPT ![h] = "check"] /\ UNCHANGED loc
  BY DEF CommitReceive, S
<1>7. /\ \A g \in Handlers \ {h} : pc'[g] = pc[g] /\ loc'[g] = loc[g]
      /\ pc'[h] \in {"idle", "check"}
  BY <1>6 DEF Finish, IInv, TypeOK
<1> QED
  BY <1>1, <1>2, <1>3, <1>4, <1>5, <1>6, <1>7 DEF S, receive_messages, Stored

\* Sending leaves every other row alone and starts the history of a fresh id.
LEMMA SendMessageEffect ==
  ASSUME IInv, NEW m \in Messages, SendMessage(m)
  PROVE  /\ Stored' = Stored \union {m}
         /\ m \notin drawn
         /\ drawn' = drawn \union {m}
         /\ \A x \in Stored : rows'[x] = rows[x]
         /\ rows'[m].receive_count = 0
         /\ rows'[m].receipt_handle = 0
         /\ rows'[m].first_received_at = NoTime
         /\ rows'[m].sent_at <= rows'[m].visible_at
         /\ UNCHANGED <<clock, pc, loc, leases, acked>>
<1>1. PICK skew \in Skews, delay \in Delays, retention \in Retentions, id \in Nat :
        send_message(m, [id |-> id,
                         sent_at |-> clock + skew,
                         visible_at |-> clock + skew + delay,
                         expires_at |-> clock + skew + retention,
                         receive_count |-> 0,
                         receipt_handle |-> 0,
                         first_received_at |-> NoTime])
  <2>1. {1} \union {rows[x].id + 1 : x \in Stored} \subseteq Nat
    BY DEF IInv, TypeOK, Row
  <2> QED
    BY <2>1 DEF SendMessage
<1>2. m \notin Stored
  BY DEF SendMessage, IInv, TypeOK
<1> QED
  BY <1>1, <1>2 DEF SendMessage, send_message, Stored, IInv, TypeOK

\* A visibility change that finds its row has the latest handle and writes only that
\* row's visible_at and the end of that lease.
LEMMA CommitChangeEffect ==
  ASSUME IInv, NEW h \in Handlers, CommitChange(h),
         HandleMatches(loc[h].msg, loc[h].number)
  PROVE  LET m == loc[h].msg IN
         /\ m \in Stored
         /\ m \in Messages
         /\ loc[h].until \in Int
         /\ Stored' = Stored
         /\ rows'[m] = [rows[m] EXCEPT !.visible_at = loc[h].until]
         /\ \A x \in Stored \ {m} : rows'[x] = rows[x]
         /\ loc[h].number = Len(leases[m])
         /\ loc[h].number \in 1..Len(leases[m])
         /\ leases'[m] = [leases[m] EXCEPT ![loc[h].number] = loc[h].until]
         /\ \A x \in Messages \ {m} : leases'[x] = leases[x]
         /\ UNCHANGED <<clock, drawn, acked>>
         /\ \A g \in Handlers \ {h} : pc'[g] = pc[g] /\ loc'[g] = loc[g]
         /\ pc'[h] = "idle"
<1>1. /\ loc[h] \in ChangeLocals
      /\ loc[h].number \in 1..Len(leases[loc[h].msg])
  BY DEF CommitChange, IInv, TypeOK
<1>2. loc[h].msg \in Stored /\ loc[h].number = Len(leases[loc[h].msg])
  BY DEF HandleMatches, IInv, RowInv, RowAgrees
<1>3. /\ set_message_visible_at(loc[h].msg, loc[h].until)
      /\ leases' = [leases EXCEPT ![loc[h].msg] =
                      [leases[loc[h].msg] EXCEPT ![loc[h].number] = loc[h].until]]
  BY DEF CommitChange
<1>4. /\ \A g \in Handlers \ {h} : pc'[g] = pc[g] /\ loc'[g] = loc[g]
      /\ pc'[h] = "idle"
  BY DEF CommitChange, Finish, IInv, TypeOK
<1>5. /\ leases'[loc[h].msg] =
           [leases[loc[h].msg] EXCEPT ![loc[h].number] = loc[h].until]
      /\ \A x \in Messages \ {loc[h].msg} : leases'[x] = leases[x]
  BY <1>1, <1>3 DEF IInv, TypeOK, ChangeLocals
<1>6. /\ Stored' = Stored
      /\ rows'[loc[h].msg] = [rows[loc[h].msg] EXCEPT !.visible_at = loc[h].until]
      /\ \A x \in Stored \ {loc[h].msg} : rows'[x] = rows[x]
  BY <1>2, <1>3 DEF set_message_visible_at, Stored, IInv, TypeOK
<1> QED
  BY <1>1, <1>2, <1>4, <1>5, <1>6 DEF CommitChange, ChangeLocals

\* Deleting rows, whichever they are, preserves what is known of the others.
LEMMA DeletePreserves ==
  ASSUME IInv, NEW S, DeleteRows(S), UNCHANGED <<clock, drawn, pc, loc, leases>>,
         acked' \subseteq acked \union (S \cap Stored)
  PROVE  (HandlerInv /\ LeaseInv /\ RowInv /\ DrawnInv)'
<1>1. /\ Stored' = Stored \ S
      /\ \A m \in Stored' : rows'[m] = rows[m]
  BY DEF DeleteRows, Stored
<1>2. HandlerInv'
  BY <1>1 DEF IInv, HandlerInv
<1>3. LeaseInv'
  BY DEF IInv, LeaseInv
<1>4. RowInv'
  BY <1>1 DEF IInv, RowInv
<1>5. DrawnInv'
  BY <1>1 DEF IInv, DrawnInv, TypeOK
<1> QED
  BY <1>2, <1>3, <1>4, <1>5

\* The strengthening is inductive: one case per action.
LEMMA InvariantStep == IInv /\ [Next]_vars => IInv'
<1> SUFFICES ASSUME IInv, [Next]_vars
             PROVE  (HandlerInv /\ LeaseInv /\ RowInv /\ DrawnInv)'
  BY TypeStep DEF IInv
<1>0. TypeOK /\ TypeOK' /\ Stored \subseteq Messages
  BY TypeStep DEF IInv, TypeOK
<1>1. ASSUME NEW m \in Messages, SendMessage(m)
      PROVE  (HandlerInv /\ LeaseInv /\ RowInv /\ DrawnInv)'
  <2>1. leases[m] = <<>> /\ m \notin acked /\ m \notin Stored
    BY <1>0, <1>1, SendMessageEffect DEF IInv, DrawnInv, TypeOK
  <2>2. HandlerInv'
    <3>1. ASSUME NEW h \in Handlers, pc[h] = "change"
          PROVE  loc[h].msg # m
      <4>1. loc[h].number \in 1..Len(leases[loc[h].msg])
        BY <1>0, <3>1 DEF TypeOK
      <4>2. 1..Len(leases[m]) = {}
        BY <2>1
      <4> QED
        BY <4>1, <4>2
    <3> QED
      BY <1>1, <3>1, SendMessageEffect DEF IInv, HandlerInv
  <2>3. LeaseInv'
    BY <1>1, SendMessageEffect DEF IInv, LeaseInv
  <2>4. RowInv'
    BY <1>1, <2>1, SendMessageEffect DEF IInv, RowInv, RowAgrees
  <2>5. DrawnInv'
    BY <1>1, <2>1, SendMessageEffect DEF IInv, DrawnInv
  <2> QED
    BY <2>2, <2>3, <2>4, <2>5
<1>2. ASSUME NEW m \in Messages, NEW number \in 1..Len(leases[m]), DeleteMessage(m, number)
      PROVE  (HandlerInv /\ LeaseInv /\ RowInv /\ DrawnInv)'
  <2>1. CASE HandleMatches(m, number)
    BY <1>2, <2>1, DeletePreserves DEF DeleteMessage, HandleMatches
  <2>2. CASE ~HandleMatches(m, number)
    BY <1>2, <2>2 DEF DeleteMessage, IInv, HandlerInv, LeaseInv, RowInv, DrawnInv, Stored
  <2> QED
    BY <2>1, <2>2
<1>3. ASSUME NEW m \in Messages, DeleteMessageById(m)
      PROVE  (HandlerInv /\ LeaseInv /\ RowInv /\ DrawnInv)'
  BY <1>3, DeletePreserves DEF DeleteMessageById
<1>4. ASSUME NEW h \in Handlers, ReceiveMessage(h)
      PROVE  (HandlerInv /\ LeaseInv /\ RowInv /\ DrawnInv)'
  <2>1. /\ pc'[h] = "wait"
        /\ \A g \in Handlers \ {h} : pc'[g] = pc[g] /\ loc'[g] = loc[g]
    BY <1>0, <1>4 DEF ReceiveMessage, TypeOK
  <2>2. UNCHANGED <<clock, rows, drawn, leases, acked>>
    BY <1>4 DEF ReceiveMessage
  <2> QED
    BY <2>1, <2>2 DEF IInv, HandlerInv, LeaseInv, RowInv, DrawnInv, Stored
<1>5. ASSUME NEW h \in Handlers, ChangeMessageVisibility(h)
      PROVE  (HandlerInv /\ LeaseInv /\ RowInv /\ DrawnInv)'
  <2>1. PICK m \in Messages : \E number \in 1..Len(leases[m]), timeout \in VisibilityTimeouts :
          loc' = [loc EXCEPT ![h] = [msg |-> m, number |-> number, until |-> clock + timeout]]
    BY <1>5 DEF ChangeMessageVisibility
  <2>2. PICK number \in 1..Len(leases[m]), timeout \in VisibilityTimeouts :
          loc' = [loc EXCEPT ![h] = [msg |-> m, number |-> number, until |-> clock + timeout]]
    BY <2>1
  <2>3. /\ pc'[h] = "change"
        /\ loc'[h].msg = m /\ loc'[h].until = clock + timeout
        /\ \A g \in Handlers \ {h} : pc'[g] = pc[g] /\ loc'[g] = loc[g]
        /\ UNCHANGED <<clock, rows, drawn, leases, acked>>
    BY <1>0, <1>5, <2>2 DEF ChangeMessageVisibility, TypeOK
  <2>4. m \in Stored => rows[m].first_received_at <= clock + timeout
    <3>1. Len(leases[m]) \in Nat /\ Len(leases[m]) > 0 /\ clock \in Nat /\ timeout \in Nat
      BY <1>0 DEF TypeOK
    <3>2. m \in Stored => rows[m].first_received_at \in Int /\ rows[m].first_received_at <= clock
      BY <1>0, <3>1 DEF IInv, RowInv, RowAgrees, TypeOK, Row
    <3> QED
      BY <3>1, <3>2
  <2> QED
    BY <2>3, <2>4 DEF IInv, HandlerInv, LeaseInv, RowInv, DrawnInv, Stored
<1>6. ASSUME NEW h \in Handlers, BeginReceive(h)
      PROVE  (HandlerInv /\ LeaseInv /\ RowInv /\ DrawnInv)'
  <2>1. /\ loc[h] \in ReceiveLocals /\ clock \in Nat /\ clock \in Int
        /\ clock + loc[h].timeout \in Int
    BY <1>0, <1>6 DEF BeginReceive, TypeOK, ReceiveLocals
  <2>2. /\ pc'[h] = "txn"
        /\ loc'[h] = [loc[h] EXCEPT !.now = clock, !.until = clock + loc[h].timeout]
        /\ \A g \in Handlers \ {h} : pc'[g] = pc[g] /\ loc'[g] = loc[g]
        /\ UNCHANGED <<clock, rows, drawn, leases, acked>>
    BY <1>0, <1>6 DEF BeginReceive, TypeOK
  <2>3. loc'[h].now = clock /\ loc'[h].until = clock + loc[h].timeout
    <3>1. /\ [loc[h] EXCEPT !.now = clock, !.until = clock + loc[h].timeout].now = clock
          /\ [loc[h] EXCEPT !.now = clock, !.until = clock + loc[h].timeout].until
               = clock + loc[h].timeout
      BY <2>1 DEF ReceiveLocals
    <3> QED
      BY <2>2, <3>1
  <2>4. clock <= clock + loc[h].timeout /\ 0 <= clock
    BY <2>1 DEF ReceiveLocals
  <2> QED
    <3>1. HandlerInv'
      <4> SUFFICES ASSUME NEW g \in Handlers
                   PROVE  HandlerInv!(g)'
        BY DEF HandlerInv
      <4>0. pc'[h] = "txn" /\ pc'[h] # "change" /\ clock' = clock
        BY <2>2
      <4>1. CASE g = h
        <5>1. 0 <= loc'[h].now /\ loc'[h].now <= clock' /\ loc'[h].now <= loc'[h].until
          BY <2>1, <2>3, <2>4, <4>0
        <5> QED
          BY <4>0, <4>1, <5>1
      <4>2. CASE g # h
        BY <2>2, <4>2 DEF IInv, HandlerInv, Stored
      <4> QED
        BY <4>1, <4>2
    <3>2. (LeaseInv /\ RowInv /\ DrawnInv)'
      BY <2>2 DEF IInv, LeaseInv, RowInv, DrawnInv, Stored
    <3> QED
      BY <3>1, <3>2
<1>7. ASSUME NEW h \in Handlers, CommitReceive(h)
      PROVE  (HandlerInv /\ LeaseInv /\ RowInv /\ DrawnInv)'
  <2> DEFINE S == Selected(loc[h].now, loc[h].limit)
             now == loc[h].now
             until == loc[h].until
  <2>1. /\ Stored' = Stored
        /\ S \subseteq Stored
        /\ now <= clock
        /\ \A m \in S :
              /\ rows[m].visible_at <= now
              /\ rows[m].expires_at > now
              /\ rows'[m] = Received(rows[m], now, until)
              /\ leases'[m] = Append(leases[m], until)
        /\ \A m \in Stored \ S : rows'[m] = rows[m]
        /\ \A m \in Messages \ S : leases'[m] = leases[m]
        /\ UNCHANGED <<clock, drawn, acked>>
        /\ \A g \in Handlers \ {h} : pc'[g] = pc[g] /\ loc'[g] = loc[g]
        /\ pc'[h] \in {"idle", "check"}
    BY <1>7, CommitReceiveEffect
  <2>2. now \in Int /\ until \in Int /\ 0 <= now /\ now <= until
    BY <1>0, <1>7 DEF CommitReceive, TypeOK, ReceiveLocals, IInv, HandlerInv
  <2> HIDE DEF S, now, until
  <2>3. ASSUME NEW m \in S
        PROVE  /\ rows[m] \in Row
               /\ leases[m] \in Seq(Int)
               /\ Len(leases'[m]) = Len(leases[m]) + 1
               /\ leases'[m][Len(leases[m]) + 1] = until
               /\ \A i \in 1..Len(leases[m]) : leases'[m][i] = leases[m][i]
    BY <1>0, <2>1, <2>2 DEF TypeOK
  <2>4. ASSUME NEW m \in S
        PROVE  LET new == rows'[m] IN
               /\ new.sent_at = rows[m].sent_at
               /\ new.visible_at = until
               /\ new.expires_at = rows[m].expires_at
               /\ new.receive_count = rows[m].receive_count + 1
               /\ new.receipt_handle = rows[m].receive_count + 1
               /\ new.first_received_at =
                    IF rows[m].first_received_at = NoTime THEN now
                                                          ELSE rows[m].first_received_at
    BY <2>1, <2>2, <2>3, ReceivedRow
  <2>6. HandlerInv'
    <3> SUFFICES ASSUME NEW g \in Handlers, pc'[g] = "change", loc'[g].msg \in Stored'
                 PROVE  rows'[loc'[g].msg].first_received_at <= loc'[g].until
      BY <2>1 DEF IInv, HandlerInv
    <3>1. g # h /\ pc[g] = "change" /\ loc'[g] = loc[g] /\ loc[g].msg \in Stored
      BY <2>1
    <3>2. /\ rows[loc[g].msg].first_received_at <= loc[g].until
          /\ rows[loc[g].msg].receive_count > 0
      BY <1>0, <3>1 DEF IInv, HandlerInv, RowInv, RowAgrees, TypeOK, ChangeLocals
    <3>3. rows[loc[g].msg].first_received_at # NoTime
      BY <3>1, <3>2 DEF IInv, RowInv, RowAgrees, NoTime
    <3> QED
      BY <2>1, <2>4, <3>1, <3>2, <3>3
  <2>7. LeaseInv'
    <3> SUFFICES ASSUME NEW m \in Messages, NEW i \in 1..Len(leases'[m]),
                        i < Len(leases'[m])
                 PROVE  leases'[m][i] <= clock
      BY <2>1 DEF LeaseInv
    <3>1. CASE m \notin S
      BY <2>1, <3>1 DEF IInv, LeaseInv
    <3>2. CASE m \in S
      <4>1. i \in 1..Len(leases[m]) /\ leases'[m][i] = leases[m][i]
        BY <2>3, <3>2
      <4>2. i < Len(leases[m]) => leases[m][i] <= clock
        BY <4>1 DEF IInv, LeaseInv
      <4>3. i = Len(leases[m]) => leases[m][i] <= clock
        <5>1. /\ rows[m].visible_at \in Int /\ rows[m].visible_at <= now
              /\ now <= clock /\ clock \in Int
          BY <1>0, <2>1, <2>3, <3>2 DEF TypeOK, Row
        <5>2. i = Len(leases[m]) => leases[m][i] = rows[m].visible_at
          BY <2>1, <2>3, <3>2, <4>1 DEF IInv, RowInv, RowAgrees
        <5> QED
          BY <2>2, <5>1, <5>2
      <4> QED
        BY <2>3, <3>2, <4>1, <4>2, <4>3
    <3> QED
      BY <3>1, <3>2
  <2>8. RowInv'
    <3> SUFFICES ASSUME NEW m \in Stored
                 PROVE  RowAgrees(rows'[m], leases'[m], clock)
      BY <2>1 DEF RowInv
    <3>1. RowAgrees(rows[m], leases[m], clock)
      BY DEF IInv, RowInv
    <3>2. CASE m \notin S
      BY <1>0, <2>1, <3>1, <3>2
    <3>3. CASE m \in S
      <4>1. rows[m].visible_at <= now /\ now < rows[m].expires_at /\ clock \in Int
        BY <1>0, <2>1, <2>2, <2>3, <3>3 DEF TypeOK, Row
      <4> QED
        <5>1. RowAgrees(Received(rows[m], now, until), Append(leases[m], until), clock)
          BY <2>1, <2>2, <2>3, <3>1, <3>3, <4>1, ReceivedAgrees
        <5> QED
          BY <2>1, <3>3, <5>1
    <3> QED
      BY <3>2, <3>3
  <2>9. DrawnInv'
    BY <1>0, <2>1 DEF IInv, DrawnInv, TypeOK
  <2> QED
    BY <2>6, <2>7, <2>8, <2>9
<1>8. ASSUME NEW h \in Handlers, EmptyReceive(h)
      PROVE  (HandlerInv /\ LeaseInv /\ RowInv /\ DrawnInv)'
  <2>1. /\ pc'[h] \in {"idle", "wait"}
        /\ \A g \in Handlers \ {h} : pc'[g] = pc[g] /\ loc'[g] = loc[g]
        /\ UNCHANGED <<clock, rows, drawn, leases, acked>>
    BY <1>0, <1>8 DEF EmptyReceive, Finish, TypeOK
  <2> QED
    BY <2>1 DEF IInv, HandlerInv, LeaseInv, RowInv, DrawnInv, Stored
<1>9. ASSUME NEW h \in Handlers, Busy(h)
      PROVE  (HandlerInv /\ LeaseInv /\ RowInv /\ DrawnInv)'
  <2>1. /\ pc'[h] = "idle"
        /\ \A g \in Handlers \ {h} : pc'[g] = pc[g] /\ loc'[g] = loc[g]
        /\ UNCHANGED <<clock, rows, drawn, leases, acked>>
    BY <1>0, <1>9 DEF Busy, Finish, TypeOK
  <2> QED
    BY <2>1 DEF IInv, HandlerInv, LeaseInv, RowInv, DrawnInv, Stored
<1>10. ASSUME NEW h \in Handlers, CommitChange(h)
       PROVE  (HandlerInv /\ LeaseInv /\ RowInv /\ DrawnInv)'
  <2>1. CASE ~HandleMatches(loc[h].msg, loc[h].number)
    <3>1. /\ pc'[h] = "idle"
          /\ \A g \in Handlers \ {h} : pc'[g] = pc[g] /\ loc'[g] = loc[g]
          /\ UNCHANGED <<clock, rows, drawn, leases, acked>>
      BY <1>0, <1>10, <2>1 DEF CommitChange, Finish, TypeOK
    <3> QED
      BY <3>1 DEF IInv, HandlerInv, LeaseInv, RowInv, DrawnInv, Stored
  <2>2. CASE HandleMatches(loc[h].msg, loc[h].number)
    <3> DEFINE m == loc[h].msg
               until == loc[h].until
    <3>1. /\ m \in Stored
          /\ m \in Messages
          /\ until \in Int
          /\ Stored' = Stored
          /\ rows'[m] = [rows[m] EXCEPT !.visible_at = until]
          /\ \A x \in Stored \ {m} : rows'[x] = rows[x]
          /\ loc[h].number = Len(leases[m])
          /\ loc[h].number \in 1..Len(leases[m])
          /\ leases'[m] = [leases[m] EXCEPT ![loc[h].number] = until]
          /\ \A x \in Messages \ {m} : leases'[x] = leases[x]
          /\ UNCHANGED <<clock, drawn, acked>>
          /\ \A g \in Handlers \ {h} : pc'[g] = pc[g] /\ loc'[g] = loc[g]
          /\ pc'[h] = "idle"
      BY <1>10, <2>2, CommitChangeEffect
    <3>2. rows[m].first_received_at <= until
      BY <1>10, <3>1 DEF CommitChange, IInv, HandlerInv
    <3> HIDE DEF m, until
    <3>3. leases[m] \in Seq(Int) /\ rows[m] \in Row
      BY <1>0, <3>1 DEF TypeOK
    <3>4. /\ Len(leases'[m]) = Len(leases[m])
          /\ leases'[m][Len(leases[m])] = until
          /\ \A i \in 1..Len(leases[m]) :
               i < Len(leases[m]) => leases'[m][i] = leases[m][i]
      BY <3>1, <3>3, MovedLease
    <3>5. /\ rows'[m].sent_at = rows[m].sent_at
          /\ rows'[m].visible_at = until
          /\ rows'[m].expires_at = rows[m].expires_at
          /\ rows'[m].receive_count = rows[m].receive_count
          /\ rows'[m].receipt_handle = rows[m].receipt_handle
          /\ rows'[m].first_received_at = rows[m].first_received_at
      BY <3>1, <3>3, HiddenRow
    <3>6. HandlerInv'
      <4>1. \A x \in Stored : rows'[x].first_received_at = rows[x].first_received_at
        BY <3>1, <3>5
      <4> QED
        BY <3>1, <4>1 DEF IInv, HandlerInv
    <3>7. LeaseInv'
      BY <3>1, <3>4 DEF IInv, LeaseInv
    <3>8. RowInv'
      <4> SUFFICES ASSUME NEW x \in Stored
                   PROVE  RowAgrees(rows'[x], leases'[x], clock)
        BY <3>1 DEF RowInv
      <4>1. RowAgrees(rows[x], leases[x], clock)
        BY DEF IInv, RowInv
      <4>2. CASE x # m
        BY <1>0, <3>1, <4>1, <4>2
      <4>3. CASE x = m
        <5>1. Len(leases[m]) > 0 /\ clock \in Int
          BY <1>0, <3>1, <3>3 DEF TypeOK
        <5>2. PICK row, ls : row = rows[m] /\ ls = leases[m]
          OBVIOUS
        <5>3. /\ row \in Row /\ ls \in Seq(Int) /\ RowAgrees(row, ls, clock) /\ Len(ls) > 0
              /\ row.first_received_at <= until /\ until \in Int
          BY <3>1, <3>2, <3>3, <4>1, <4>3, <5>1, <5>2
        <5>4. RowAgrees([row EXCEPT !.visible_at = until],
                        [ls EXCEPT ![Len(ls)] = until], clock)
          BY <5>1, <5>3, HiddenAgrees
        <5>5. /\ rows'[x] = [row EXCEPT !.visible_at = until]
              /\ leases'[x] = [ls EXCEPT ![Len(ls)] = until]
          BY <3>1, <3>2, <3>3, <4>3, <5>2
        <5> QED
          BY <5>4, <5>5
      <4> QED
        BY <4>2, <4>3
    <3>9. DrawnInv'
      BY <1>0, <3>1 DEF IInv, DrawnInv, TypeOK
    <3> QED
      BY <3>6, <3>7, <3>8, <3>9
  <2> QED
    BY <2>1, <2>2
<1>11. CASE PurgeQueue
  BY <1>11, DeletePreserves DEF PurgeQueue
<1>12. CASE Tick
  <2>1. clock \in Nat /\ clock' = clock + 1 /\ UNCHANGED <<rows, drawn, pc, loc, leases, acked>>
    BY <1>0, <1>12 DEF Tick, TypeOK
  <2>2. HandlerInv'
    BY <1>0, <2>1 DEF IInv, HandlerInv, TypeOK, ReceiveLocals, Stored
  <2>3. LeaseInv'
    <3>1. ASSUME NEW m \in Messages, NEW i \in 1..Len(leases[m])
          PROVE  leases[m][i] \in Int
      BY <1>0 DEF TypeOK
    <3> QED
      BY <2>1, <3>1 DEF IInv, LeaseInv
  <2>4. RowInv'
    <3>1. ASSUME NEW m \in Stored
          PROVE  RowAgrees(rows[m], leases[m], clock + 1)
      BY <1>0, LaterAgrees DEF IInv, RowInv, TypeOK
    <3> QED
      BY <2>1, <3>1 DEF RowInv, Stored
  <2>5. DrawnInv'
    BY <2>1 DEF IInv, DrawnInv, Stored
  <2> QED
    BY <2>2, <2>3, <2>4, <2>5
<1>13. CASE Restart
  BY <1>13 DEF Restart, IInv, HandlerInv, LeaseInv, RowInv, DrawnInv, Stored
<1>14. CASE UNCHANGED vars
  BY <1>14 DEF vars, IInv, HandlerInv, LeaseInv, RowInv, DrawnInv, Stored
<1> QED
  BY <1>1, <1>2, <1>3, <1>4, <1>5, <1>6, <1>7, <1>8, <1>9, <1>10, <1>11, <1>12,
     <1>13, <1>14 DEF Next, HandlerStep

\* Every reachable state satisfies the strengthening.
THEOREM Invariance == Spec => []IInv
<1>1. Init => IInv
  <2> SUFFICES ASSUME Init
               PROVE  IInv
    OBVIOUS
  <2>1. TypeOK
    BY DEF Init, TypeOK, Stored, NoLocals
  <2> QED
    BY <2>1 DEF Init, IInv, HandlerInv, LeaseInv, RowInv, DrawnInv, Stored
<1> QED
  BY <1>1, InvariantStep, PTL DEF Spec

--------------------------------------------------------------------------------
(* The safety properties. *)

\* Two consumers never hold the same message at once, although the receive
\* transaction and the visibility change write instants read earlier.
THEOREM LeaseExclusionHolds == Spec => []LeaseExclusion
<1>1. IInv => LeaseExclusion
  <2> SUFFICES ASSUME IInv, NEW m \in Messages,
                      NEW i \in 1..Len(leases[m]), NEW j \in 1..Len(leases[m]),
                      leases[m][i] > clock, leases[m][j] > clock
               PROVE  i = j
    BY DEF LeaseExclusion
  <2>1. Len(leases[m]) \in Nat /\ leases[m][i] \in Int /\ leases[m][j] \in Int /\ clock \in Int
    BY DEF IInv, TypeOK
  <2>2. i = Len(leases[m]) /\ j = Len(leases[m])
    BY <2>1 DEF IInv, LeaseInv
  <2> QED
    BY <2>2
<1> QED
  BY <1>1, Invariance, PTL

\* What DeleteMessage reported deleted never comes back.
THEOREM AckedStayGoneHolds == Spec => []AckedStayGone
<1>1. IInv => AckedStayGone
  BY DEF IInv, DrawnInv, AckedStayGone
<1> QED
  BY <1>1, Invariance, PTL

\* The instants of a received message are in order.
THEOREM StampsOrderedHolds == Spec => []StampsOrdered
<1>1. IInv => StampsOrdered
  BY DEF IInv, RowInv, RowAgrees, StampsOrdered
<1> QED
  BY <1>1, Invariance, PTL

\* A step that hands out a message is the commit of a receive.
LEMMA OnlyReceivesDeliver ==
  ASSUME IInv, [Next]_vars, NEW m \in Stored, m \in Stored',
         rows'[m].receive_count # rows[m].receive_count
  PROVE  \E h \in Handlers : CommitReceive(h)
<1>1. ASSUME NEW x \in Messages, SendMessage(x)
      PROVE  FALSE
  BY <1>1, SendMessageEffect
<1>2. ASSUME NEW S, DeleteRows(S)
      PROVE  FALSE
  BY <1>2 DEF DeleteRows, Stored
<1>3. ASSUME NEW h \in Handlers, CommitChange(h)
      PROVE  FALSE
  <2>1. CASE ~HandleMatches(loc[h].msg, loc[h].number)
    BY <1>3, <2>1 DEF CommitChange
  <2>2. CASE HandleMatches(loc[h].msg, loc[h].number)
    <3>1. /\ loc[h].until \in Int
          /\ rows'[loc[h].msg] = [rows[loc[h].msg] EXCEPT !.visible_at = loc[h].until]
          /\ \A x \in Stored \ {loc[h].msg} : rows'[x] = rows[x]
      BY <1>3, <2>2, CommitChangeEffect
    <3>2. rows[m] \in Row
      BY DEF IInv, TypeOK
    <3>3. [rows[m] EXCEPT !.visible_at = loc[h].until].receive_count = rows[m].receive_count
      BY <3>1, <3>2, HiddenRow
    <3> QED
      BY <3>1, <3>3
  <2> QED
    BY <2>1, <2>2
<1>4. UNCHANGED rows => FALSE
  OBVIOUS
<1> QED
  BY <1>1, <1>2, <1>3, <1>4 DEF Next, HandlerStep, DeleteMessage, DeleteMessageById,
     ReceiveMessage, ChangeMessageVisibility, BeginReceive, EmptyReceive, Busy,
     PurgeQueue, Tick, Restart, vars

\* It took the message because it was visible at an instant now past.
LEMMA DeliveryStep == IInv /\ [Next]_vars => [DeliversOnlyVisible]_vars
<1> SUFFICES ASSUME IInv, [Next]_vars, NEW m \in Stored, m \in Stored',
                    rows'[m].receive_count # rows[m].receive_count
             PROVE  /\ rows[m].visible_at <= clock
                    /\ rows'[m].visible_at >= rows[m].visible_at
  BY DEF DeliversOnlyVisible
<1>1. PICK h \in Handlers : CommitReceive(h)
  BY OnlyReceivesDeliver
<1>2. /\ rows[m].visible_at <= loc[h].now /\ loc[h].now <= clock
      /\ rows'[m] = Received(rows[m], loc[h].now, loc[h].until)
  BY <1>1, CommitReceiveEffect
<1>3. /\ rows[m] \in Row /\ clock \in Int /\ loc[h].now \in Int /\ loc[h].until \in Int
      /\ loc[h].now <= loc[h].until
  BY <1>1 DEF IInv, TypeOK, HandlerInv, CommitReceive, ReceiveLocals
<1>4. rows'[m].visible_at = loc[h].until
  BY <1>2, <1>3, ReceivedRow
<1> QED
  BY <1>2, <1>3, <1>4 DEF Row

\* No delivery before a delay or lease has run out.
THEOREM NoEarlyDeliveryHolds == Spec => NoEarlyDelivery
BY Invariance, DeliveryStep, PTL DEF Spec, NoEarlyDelivery

\* There are never more messages than were sent, one at a time.
LEMMA DrawnFinite == Spec => []IsFiniteSet(drawn)
<1>1. Init => IsFiniteSet(drawn)
  BY FS_EmptySet DEF Init
<1>2. IsFiniteSet(drawn) /\ [Next]_vars => IsFiniteSet(drawn)'
  <2> SUFFICES ASSUME IsFiniteSet(drawn), [Next]_vars
               PROVE  IsFiniteSet(drawn')
    BY Zenon
  <2>1. drawn' = drawn \/ \E m \in Messages : drawn' = drawn \union {m}
    BY DEF Next, SendMessage, HandlerStep, DeleteMessage, DeleteMessageById, ReceiveMessage,
       ChangeMessageVisibility, BeginReceive, CommitReceive, EmptyReceive, Busy, CommitChange,
       PurgeQueue, Tick, Restart, vars
  <2> QED
    BY <2>1, FS_AddElement
<1> QED
  BY <1>1, <1>2, PTL DEF Spec

\* What comes before an older row also comes before a newer one: when the newer one is
\* among the first rows, so is the older one.
LEMMA OlderSelected ==
  ASSUME TypeOK, IsFiniteSet(drawn), NEW now \in Int, NEW limit \in Nat,
         NEW y \in Selected(now, limit), NEW x \in Visible(now),
         rows[x].sent_at < rows[y].sent_at
  PROVE  x \in Selected(now, limit)
<1> DEFINE V == Visible(now)
           A == {z \in V : Before(z, x)}
           B == {z \in V : Before(z, y)}
<1>1. V \subseteq Stored /\ Stored \subseteq drawn /\ y \in V
  BY DEF Visible, TypeOK, Selected
<1>2. \A z \in Stored : rows[z].sent_at \in Int
  BY DEF TypeOK, Row
<1>3. A \subseteq B
  BY <1>1, <1>2 DEF Before
<1>4. B \subseteq drawn
  BY <1>1
<1>5. Cardinality(B) < limit
  BY DEF Selected
<1> HIDE DEF A, B
<1>6. IsFiniteSet(B)
  BY <1>4, FS_Subset
<1>7. IsFiniteSet(A) /\ Cardinality(A) <= Cardinality(B)
  BY <1>3, <1>6, FS_Subset
<1>8. Cardinality(A) \in Nat /\ Cardinality(B) \in Nat
  BY <1>6, <1>7, FS_CardinalityType
<1>9. Cardinality(A) < limit
  BY <1>5, <1>7, <1>8
<1> QED
  BY <1>9 DEF Selected, A

\* A receive does not pass over an older message that has been visible for as long.
THEOREM OldestFirstHolds == Spec => OldestFirst
<1> DEFINE Older == \A x, y \in Stored :
             /\ {x, y} \subseteq Stored'
             /\ rows'[y].receive_count # rows[y].receive_count
             /\ rows[x].sent_at < rows[y].sent_at
             /\ rows[x].visible_at <= rows[y].visible_at
             /\ rows[x].expires_at > clock
             => rows'[x].receive_count # rows[x].receive_count
<1>1. IInv /\ IsFiniteSet(drawn) /\ [Next]_vars => [Older]_vars
  <2> SUFFICES ASSUME IInv, IsFiniteSet(drawn), [Next]_vars, NEW x \in Stored, NEW y \in Stored,
                      x \in Stored', y \in Stored',
                      rows'[y].receive_count # rows[y].receive_count,
                      rows[x].sent_at < rows[y].sent_at,
                      rows[x].visible_at <= rows[y].visible_at,
                      rows[x].expires_at > clock
               PROVE  rows'[x].receive_count # rows[x].receive_count
    OBVIOUS
  <2>1. PICK h \in Handlers : CommitReceive(h)
    BY OnlyReceivesDeliver
  <2>2. PICK now, limit, until : now = loc[h].now /\ limit = loc[h].limit /\ until = loc[h].until
    OBVIOUS
  <2>3. /\ now \in Int /\ limit \in Nat /\ until \in Int /\ clock \in Int /\ TypeOK
        /\ rows[x] \in Row /\ rows[y] \in Row
    <3>1. loc[h] \in ReceiveLocals
      BY <2>1 DEF IInv, TypeOK, CommitReceive
    <3>2. loc[h].now \in Int /\ loc[h].limit \in Nat /\ loc[h].until \in Int
      BY <3>1 DEF ReceiveLocals
    <3>3. TypeOK /\ clock \in Int /\ rows[x] \in Row /\ rows[y] \in Row
      BY DEF IInv, TypeOK
    <3> QED
      BY <2>2, <3>2, <3>3
  <2>4. /\ now <= clock
        /\ \A m \in Selected(now, limit) :
             rows[m].visible_at <= now /\ rows'[m] = Received(rows[m], now, until)
        /\ \A m \in Stored \ Selected(now, limit) : rows'[m] = rows[m]
    BY <2>1, <2>2, CommitReceiveEffect
  <2>5. y \in Selected(now, limit)
    BY <2>4
  <2>6. x \in Visible(now)
    BY <2>3, <2>4, <2>5 DEF Visible, Row
  <2>7. x \in Selected(now, limit)
    BY <2>3, <2>5, <2>6, OlderSelected
  <2>8. Received(rows[x], now, until).receive_count = rows[x].receive_count + 1
    <3>1. ASSUME NEW row \in Row
          PROVE  Received(row, now, until).receive_count = row.receive_count + 1
      BY <2>3, ReceivedRow
    <3> QED
      BY <2>3, <3>1
  <2> QED
    BY <2>3, <2>4, <2>7, <2>8 DEF Row
<1> QED
  BY <1>1, Invariance, DrawnFinite, PTL DEF Spec, OldestFirst

--------------------------------------------------------------------------------
(* SqsMessages implements LeaseQueue. *)

absPhase == [m \in Messages |->
               IF m \in Stored THEN "stored" ELSE IF m \in drawn THEN "gone" ELSE "new"]
absHidden == {m \in Stored : rows[m].visible_at > clock}
absLease == [m \in Messages |-> Len(leases[m])]

\* Deleting rows is the abstract Remove.
LEMMA DeleteRefines ==
  ASSUME IInv, NEW S, DeleteRows(S), UNCHANGED <<clock, drawn, leases>>
  PROVE  LQ!AbsNext
<1>1. /\ Stored' = Stored \ S
      /\ \A m \in Stored' : rows'[m] = rows[m]
      /\ Stored \subseteq drawn /\ Stored \subseteq Messages
  BY DEF DeleteRows, Stored, IInv, TypeOK
<1>2. PICK R \in SUBSET Messages : R = S \cap Stored
  BY <1>1
<1>3. LQ!Remove(R)
  <2>1. absPhase' = [m \in Messages |-> IF m \in R THEN "gone" ELSE absPhase[m]]
    BY <1>1, <1>2 DEF absPhase
  <2>2. absHidden' = absHidden \ R
    BY <1>1, <1>2 DEF absHidden
  <2>3. R \subseteq {m \in Messages : absPhase[m] = "stored"}
    BY <1>1, <1>2 DEF absPhase
  <2>4. absLease' = absLease
    BY DEF absLease
  <2> QED
    BY <2>1, <2>2, <2>3, <2>4 DEF LQ!Remove, LQ!Stored, absPhase, absHidden, absLease
<1> QED
  BY <1>3 DEF LQ!AbsNext

\* Every step of the implementation is a step of the abstract queue, or none.
LEMMA RefinementStep == IInv /\ [Next]_vars => [LQ!AbsNext]_(LQ!absVars)
<1> SUFFICES ASSUME IInv, [Next]_vars
             PROVE  LQ!AbsNext \/ UNCHANGED <<absPhase, absHidden, absLease>>
  BY DEF LQ!absVars, absPhase, absHidden, absLease
<1>0. TypeOK /\ Stored \subseteq drawn /\ Stored \subseteq Messages
  BY DEF IInv, TypeOK
<1>1. ASSUME NEW m \in Messages, SendMessage(m)
      PROVE  LQ!AbsNext
  <2>1. absPhase[m] = "new" /\ absPhase' = [absPhase EXCEPT ![m] = "stored"]
    BY <1>0, <1>1, SendMessageEffect DEF absPhase
  <2>2. absHidden' \in {absHidden, absHidden \union {m}}
    BY <1>0, <1>1, SendMessageEffect DEF absHidden
  <2>3. absLease' = absLease
    BY <1>1, SendMessageEffect DEF absLease
  <2>4. LQ!Put(m)
    BY <2>1, <2>2, <2>3 DEF LQ!Put, absPhase, absHidden, absLease
  <2> QED
    BY <2>4 DEF LQ!AbsNext
<1>2. ASSUME NEW m \in Messages, NEW number \in 1..Len(leases[m]), DeleteMessage(m, number)
      PROVE  LQ!AbsNext \/ UNCHANGED <<absPhase, absHidden, absLease>>
  <2>1. CASE HandleMatches(m, number)
    BY <1>2, <2>1, DeleteRefines DEF DeleteMessage
  <2>2. CASE ~HandleMatches(m, number)
    BY <1>2, <2>2 DEF DeleteMessage, absPhase, absHidden, absLease, Stored
  <2> QED
    BY <2>1, <2>2
<1>3. ASSUME NEW m \in Messages, DeleteMessageById(m)
      PROVE  LQ!AbsNext
  BY <1>3, DeleteRefines DEF DeleteMessageById
<1>4. ASSUME NEW h \in Handlers, CommitReceive(h)
      PROVE  LQ!AbsNext \/ UNCHANGED <<absPhase, absHidden, absLease>>
  <2> DEFINE S == Selected(loc[h].now, loc[h].limit)
  <2>1. /\ Stored' = Stored
        /\ S \subseteq Stored
        /\ loc[h].now <= clock
        /\ \A m \in S :
              /\ rows[m].visible_at <= loc[h].now
              /\ leases'[m] = Append(leases[m], loc[h].until)
        /\ \A m \in Stored \ S : rows'[m] = rows[m]
        /\ \A m \in Messages \ S : leases'[m] = leases[m]
        /\ UNCHANGED <<clock, drawn>>
    BY <1>4, CommitReceiveEffect
  <2>2. /\ clock \in Int /\ loc[h].now \in Int /\ loc[h].until \in Int
        /\ \A m \in Stored : rows[m].visible_at \in Int
    BY <1>0, <1>4 DEF TypeOK, CommitReceive, ReceiveLocals, Row
  <2> HIDE DEF S
  <2>3. absPhase' = absPhase
    BY <2>1 DEF absPhase
  <2>4. S \subseteq {m \in Messages : absPhase[m] = "stored"} \ absHidden
    BY <1>0, <2>1, <2>2 DEF absPhase, absHidden
  <2>5. absHidden \subseteq absHidden' /\ absHidden' \subseteq absHidden \union S
    BY <2>1, <2>4 DEF absHidden
  <2>6. absLease' = [m \in Messages |-> IF m \in S THEN absLease[m] + 1 ELSE absLease[m]]
    <3>1. \A m \in S : Len(leases'[m]) = Len(leases[m]) + 1
      BY <1>0, <2>1, <2>2 DEF TypeOK
    <3> QED
      BY <2>1, <3>1 DEF absLease
  <2>7. CASE S = {}
    <3>1. absHidden' = absHidden
      BY <2>5, <2>7
    <3>2. absLease' = absLease
      BY <2>1, <2>7 DEF absLease
    <3> QED
      BY <2>3, <3>1, <3>2
  <2>8. CASE S # {}
    <3>1. PICK L \in SUBSET Messages : L = S
      BY <1>0, <2>1
    <3>2. LQ!Lease(L)
      BY <2>3, <2>4, <2>5, <2>6, <2>8, <3>1
         DEF LQ!Lease, LQ!Stored, absPhase, absHidden, absLease
    <3> QED
      BY <3>2 DEF LQ!AbsNext
  <2> QED
    BY <2>7, <2>8
<1>5. ASSUME NEW h \in Handlers, CommitChange(h)
      PROVE  LQ!AbsNext \/ UNCHANGED <<absPhase, absHidden, absLease>>
  <2>1. CASE ~HandleMatches(loc[h].msg, loc[h].number)
    BY <1>5, <2>1 DEF CommitChange, absPhase, absHidden, absLease, Stored
  <2>2. CASE HandleMatches(loc[h].msg, loc[h].number)
    <3> DEFINE m == loc[h].msg
               until == loc[h].until
    <3>1. /\ m \in Stored
          /\ m \in Messages
          /\ until \in Int
          /\ Stored' = Stored
          /\ \A x \in Stored \ {m} : rows'[x] = rows[x]
          /\ loc[h].number \in 1..Len(leases[m])
          /\ leases'[m] = [leases[m] EXCEPT ![loc[h].number] = until]
          /\ \A x \in Messages \ {m} : leases'[x] = leases[x]
          /\ UNCHANGED <<clock, drawn, acked>>
      BY <1>5, <2>2, CommitChangeEffect
    <3> HIDE DEF m, until
    <3>2. absPhase' = absPhase /\ absPhase[m] = "stored"
      BY <3>1 DEF absPhase
    <3>3. leases[m] \in Seq(Int)
      BY <1>0, <3>1 DEF TypeOK
    <3>4. absLease' = absLease /\ absLease[m] > 0
      <4>1. Len(leases'[m]) = Len(leases[m]) /\ Len(leases[m]) > 0
        BY <3>1, <3>3, MovedLease
      <4> QED
        BY <3>1, <4>1 DEF absLease
    <3>5. absHidden' \in {absHidden \union {m}, absHidden \ {m}}
      BY <3>1 DEF absHidden
    <3>6. PICK x \in Messages : x = m
      BY <3>1
    <3>7. LQ!Renew(x)
      BY <3>2, <3>4, <3>5, <3>6 DEF LQ!Renew, absPhase, absHidden, absLease
    <3> QED
      BY <3>7 DEF LQ!AbsNext
  <2> QED
    BY <2>1, <2>2
<1>6. CASE PurgeQueue
  BY <1>6, DeleteRefines DEF PurgeQueue
<1>7. CASE Tick
  <2>1. /\ clock \in Nat /\ clock' = clock + 1
        /\ UNCHANGED <<rows, drawn, leases>>
        /\ \A m \in Stored : rows[m].visible_at \in Int
    BY <1>0, <1>7 DEF Tick, TypeOK, Row
  <2>2. absPhase' = absPhase /\ absLease' = absLease
    BY <2>1 DEF absPhase, absLease, Stored
  <2>3. absHidden' \subseteq absHidden
    BY <2>1 DEF absHidden, Stored
  <2>4. PICK S \in SUBSET Messages : S \subseteq absHidden /\ absHidden' = absHidden \ S
    <3>1. absHidden \ absHidden' \in SUBSET Messages
      BY <1>0 DEF absHidden
    <3> QED
      BY <2>3, <3>1
  <2>5. LQ!Reveal(S)
    BY <2>2, <2>4 DEF LQ!Reveal, absPhase, absHidden, absLease
  <2> QED
    BY <2>5 DEF LQ!AbsNext
<1>8. CASE UNCHANGED <<clock, rows, drawn, leases>>
  BY <1>8 DEF absPhase, absHidden, absLease, Stored
<1> QED
  BY <1>1, <1>2, <1>3, <1>4, <1>5, <1>6, <1>7, <1>8 DEF Next, HandlerStep, ReceiveMessage,
     ChangeMessageVisibility, BeginReceive, EmptyReceive, Busy, Restart, vars

\* The timed, interleaved queue keeps every promise of the abstract one.
THEOREM Refinement == Spec => ImplementsLeaseQueue
<1>1. Init => LQ!AbsInit
  BY DEF Init, LQ!AbsInit, Stored
<1> QED
  BY <1>1, Invariance, RefinementStep, PTL DEF Spec, ImplementsLeaseQueue, LQ!AbsSpec
================================================================================
