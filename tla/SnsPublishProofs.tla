--------------------------- MODULE SnsPublishProofs ---------------------------
(***************************************************************************)
(* Proofs about SnsPublish, for every set of handlers, names and           *)
(* configurations, and every value of the bounds.                          *)
(***************************************************************************)
EXTENDS SnsPublish, FiniteSetTheorems, WellFoundedInduction, TLAPS

--------------------------------------------------------------------------------
(* The inductive invariant. *)

\* A delivery that was made, failed, or met no ready queue.
Tried(p, row) == row[1] \in pubs[p].sent \union pubs[p].failed \/ row[2] \in pubs[p].unready

Found(id, name) == id \in QueueIds /\ queues[id].name = name

\* sqs_queues has a UNIQUE index on the name.
NamesUnique == \A i, j \in QueueIds : queues[i].name = queues[j].name => i = j

\* A subscription is listed once; a publish under way has noted what the queues are now;
\* one that answered has tried every subscription.
PubRight(p) ==
  /\ \A x, y \in pubs[p].listed : x[1] = y[1] => x = y
  /\ ~pubs[p].done => Unready(queues) \subseteq pubs[p].unready /\ Open(queues) \subseteq pubs[p].open
  /\ pubs[p].done => \A row \in pubs[p].listed : Tried(p, row)

\* The queue that was loaded for the first of the rest is there, or its name was without
\* a ready queue in the meantime; and its policy was judged.
LoadedRight(p, rest, sub, id, console) ==
  /\ \E row \in rest : row[1] = sub /\ (Found(id, row[2]) \/ row[2] \in pubs[p].unready)
  /\ Enforce /\ ~console => id \in pubs[p].open

\* A handler works on a publish that has not answered; what is not left is tried.
HandlerRight(h) ==
  pc[h] # "idle" =>
    /\ loc[h] \in Locals /\ loc[h].pub \in Publishes
    /\ ~pubs[loc[h].pub].done /\ pubs[loc[h].pub].console = loc[h].console
    /\ loc[h].rest # {} /\ loc[h].rest \subseteq pubs[loc[h].pub].listed
    /\ \A row \in pubs[loc[h].pub].listed \ loc[h].rest : Tried(loc[h].pub, row)
    /\ pc[h] = "send_message" =>
         LoadedRight(loc[h].pub, loc[h].rest, loc[h].sub, loc[h].queue, loc[h].console)

\* Every publish has one handler at most.
Apart ==
  \A g, h \in Handlers :
    g # h /\ pc[g] # "idle" /\ pc[h] # "idle" => loc[g].pub # loc[h].pub

Counted == \E n \in Nat : Publishes = 1..n

Inv ==
  /\ TypeOK /\ Counted /\ NamesUnique
  /\ madeQueues <= MaxQueues
  /\ \A p \in Publishes : PubRight(p)
  /\ \A h \in Handlers : HandlerRight(h)
  /\ Apart
  /\ PolicyEnforced

--------------------------------------------------------------------------------
(* Least elements. *)

\* A set of numbers that is not empty has a least one.
LEMMA LeastExists ==
  ASSUME NEW S, S \subseteq Nat, S # {}
  PROVE  \E m \in S : \A k \in S : m <= k
<1>1. IsWellFoundedOn(OpToRel(<, Nat), Nat)
  BY NatLessThanWellFounded, Zenon
<1>2. PICK m \in S : \A k \in S : ~(<<k, m>> \in OpToRel(<, Nat))
  BY <1>1, WFMin, Zenon
<1>3. ASSUME NEW k \in S
      PROVE  m <= k
  <2>1. k \in Nat /\ m \in Nat
    OBVIOUS
  <2>2. ~(k < m)
    BY <1>2, <2>1 DEF OpToRel
  <2> QED
    BY <2>1, <2>2
<1> QED
  BY <1>2, <1>3

\* A bounded set of ids has a next one.
LEMMA NextIdExists ==
  ASSUME NEW n \in Nat, NEW ids, ids \subseteq 1..n
  PROVE  \E id \in 1..(n + 1) : (\A i \in ids : i < id) /\ (id = 1 \/ id - 1 \in ids)
<1> DEFINE Bounds == {m \in Nat : \A i \in ids : i <= m}
<1>1. n \in Bounds /\ Bounds \subseteq Nat /\ Bounds # {}
  OBVIOUS
<1>2. PICK m \in Bounds : \A k \in Bounds : m <= k
  <2> HIDE DEF Bounds
  <2> QED
    BY <1>1, LeastExists
<1>3. m = 0 \/ m \in ids
  <2> SUFFICES ASSUME m # 0, m \notin ids
               PROVE  FALSE
    OBVIOUS
  <2>1. m - 1 \in Nat /\ ~(m <= m - 1)
    BY <1>1
  <2>2. \A i \in ids : i <= m - 1
    OBVIOUS
  <2> QED
    BY <1>2, <2>1, <2>2
<1>4. m <= n
  BY <1>1, <1>2
<1> QED
  BY <1>3, <1>4

\* The id of a new queue is not in use, and at most one more than the queues ever made.
LEMMA NewQueueIdFresh ==
  ASSUME TypeOK, madeQueues < MaxQueues
  PROVE  NewQueueId \in (1..(madeQueues + 1)) \ QueueIds
<1> DEFINE Fits(id) == (\A i \in QueueIds : i < id) /\ (id = 1 \/ id - 1 \in QueueIds)
<1>0. MaxQueues \in Nat /\ madeQueues \in Nat /\ QueueIds \subseteq 1..madeQueues
  BY PublishAssumption DEF TypeOK
<1>1. QueueIds \subseteq 1..MaxQueues
  BY <1>0
<1>2. \E id \in 1..(MaxQueues + 1) : Fits(id)
  BY <1>0, <1>1, NextIdExists
<1>3. NewQueueId \in 1..(MaxQueues + 1) /\ Fits(NewQueueId)
  BY <1>2 DEF NewQueueId
<1> QED
  BY <1>0, <1>3

\* The next row is one of the rest.
LEMMA FollowingIsLeft ==
  ASSUME NEW rest, rest \subseteq Nat \X Names, rest # {}
  PROVE  Following(rest) \in rest
<1> DEFINE ids == {r[1] : r \in rest}
<1>1. ids \subseteq Nat /\ ids # {}
  OBVIOUS
<1>2. PICK m \in ids : \A k \in ids : m <= k
  <2> HIDE DEF ids
  <2> QED
    BY <1>1, LeastExists
<1>3. \E r \in rest : \A x \in rest : r[1] <= x[1]
  BY <1>2
<1> QED
  BY <1>3 DEF Following

--------------------------------------------------------------------------------
(* What a publish has noted only grows. *)

Grows(p) ==
  /\ p \in Publishes'
  /\ pubs'[p].listed = pubs[p].listed /\ pubs'[p].console = pubs[p].console
  /\ pubs[p].sent \subseteq pubs'[p].sent /\ pubs[p].failed \subseteq pubs'[p].failed
  /\ pubs[p].unready \subseteq pubs'[p].unready /\ pubs[p].open \subseteq pubs'[p].open
  /\ pubs[p].done => pubs'[p] = pubs[p]

\* What was tried stays tried while the history grows.
LEMMA TriedStays ==
  ASSUME NEW p, NEW row, Grows(p), Tried(p, row)
  PROVE  Tried(p, row)'
BY DEF Grows, Tried

\* A handler that takes no step, when the queue it loaded stays or its absence is noted.
LEMMA HandlerStays ==
  ASSUME NEW h \in Handlers, HandlerRight(h), pc'[h] = pc[h], loc'[h] = loc[h],
         pc[h] # "idle" =>
           /\ Grows(loc[h].pub)
           /\ ~pubs'[loc[h].pub].done
           /\ \A id \in Nat, name \in Names :
                Found(id, name) => Found(id, name)' \/ name \in pubs'[loc[h].pub].unready
  PROVE  HandlerRight(h)'
<1> SUFFICES ASSUME pc[h] # "idle"
             PROVE  HandlerRight(h)'
  BY DEF HandlerRight
<1>1. PICK l : l = loc[h]
  OBVIOUS
<1>2. /\ l \in Locals /\ l.pub \in Publishes
      /\ ~pubs[l.pub].done /\ pubs[l.pub].console = l.console
      /\ l.rest # {} /\ l.rest \subseteq pubs[l.pub].listed
      /\ \A row \in pubs[l.pub].listed \ l.rest : Tried(l.pub, row)
      /\ pc[h] = "send_message" => LoadedRight(l.pub, l.rest, l.sub, l.queue, l.console)
  BY <1>1 DEF HandlerRight
<1>3. /\ Grows(l.pub) /\ ~pubs'[l.pub].done
      /\ \A id \in Nat, name \in Names :
           Found(id, name) => Found(id, name)' \/ name \in pubs'[l.pub].unready
  BY <1>1
<1>4. /\ l.pub \in Publishes' /\ pubs'[l.pub].console = l.console
      /\ l.rest \subseteq pubs'[l.pub].listed
  BY <1>2, <1>3 DEF Grows
<1>5. \A row \in pubs'[l.pub].listed \ l.rest : Tried(l.pub, row)'
  BY <1>2, <1>3, TriedStays DEF Grows
<1>6. ASSUME pc[h] = "send_message"
      PROVE  LoadedRight(l.pub, l.rest, l.sub, l.queue, l.console)'
  <2>1. PICK row \in l.rest : row[1] = l.sub /\ (Found(l.queue, row[2]) \/ row[2] \in pubs[l.pub].unready)
    BY <1>2, <1>6 DEF LoadedRight
  <2>2. row[2] \in Names /\ l.queue \in Nat
    BY <1>2, <2>1 DEF Locals
  <2>3. Found(l.queue, row[2])' \/ row[2] \in pubs'[l.pub].unready
    BY <1>3, <2>1, <2>2 DEF Grows
  <2>4. Enforce /\ ~l.console => l.queue \in pubs'[l.pub].open
    BY <1>2, <1>3, <1>6 DEF LoadedRight, Grows
  <2> QED
    BY <2>1, <2>3, <2>4 DEF LoadedRight
<1>7. loc'[h] = l
  BY <1>1
<1> QED
  BY <1>2, <1>3, <1>4, <1>5, <1>6, <1>7 DEF HandlerRight

--------------------------------------------------------------------------------
(* The queues change. *)

\* A change of the queues, with the messages that are left, that every publish notes.
QueuesChange ==
  /\ queues' \in [QueueIds' -> QueueRow] /\ QueueIds' \subseteq 1..madeQueues'
  /\ madeQueues' \in Nat /\ madeQueues' <= MaxQueues
  /\ NamesUnique'
  /\ msgs' \subseteq msgs /\ \A m \in msgs' : m.queue \in QueueIds'
  /\ \A id \in Nat, name \in Names :
       Found(id, name) => Found(id, name)' \/ name \in Unready(queues')
  /\ Note(queues')
  /\ UNCHANGED <<subs, madeSubs, pc, loc>>

\* A change of the queues is noted with every publish under way.
LEMMA NoteGrows ==
  ASSUME TypeOK, queues' \in [QueueIds' -> QueueRow], QueueIds' \subseteq Nat, Note(queues')
  PROVE  /\ Publishes' = Publishes /\ pubs' \in [Publishes -> History]
         /\ \A p \in Publishes :
              /\ Grows(p) /\ pubs'[p].done = pubs[p].done
              /\ ~pubs[p].done => Unready(queues') \subseteq pubs'[p].unready
                                  /\ Open(queues') \subseteq pubs'[p].open
<1>0. PICK u, o : u = Unready(queues') /\ o = Open(queues')
  OBVIOUS
<1>1. u \subseteq Names /\ o \subseteq Nat
  BY <1>0 DEF Unready, Open
<1> DEFINE New(p) == [pubs[p] EXCEPT !.unready = @ \union u, !.open = @ \union o]
<1>2. pubs' = [p \in Publishes |-> IF pubs[p].done THEN pubs[p] ELSE New(p)]
  BY <1>0 DEF Note
<1>3. ASSUME NEW p \in Publishes
      PROVE  /\ New(p) \in History
             /\ New(p).listed = pubs[p].listed /\ New(p).console = pubs[p].console
             /\ New(p).sent = pubs[p].sent /\ New(p).failed = pubs[p].failed
             /\ New(p).unready = pubs[p].unready \union u
             /\ New(p).open = pubs[p].open \union o
             /\ New(p).done = pubs[p].done
  <2>1. pubs[p] \in History
    BY DEF TypeOK
  <2>2. pubs[p].unready \union u \subseteq Names /\ pubs[p].open \union o \subseteq Nat
    BY <1>1, <2>1 DEF History
  <2> QED
    BY <2>1, <2>2 DEF History
<1> HIDE DEF New
<1>4. Publishes' = Publishes /\ pubs' \in [Publishes -> History]
  BY <1>2, <1>3 DEF TypeOK, Publishes
<1>5. ASSUME NEW p \in Publishes
      PROVE  /\ Grows(p) /\ pubs'[p].done = pubs[p].done
             /\ ~pubs[p].done => u \subseteq pubs'[p].unready /\ o \subseteq pubs'[p].open
  <2>1. pubs'[p] = IF pubs[p].done THEN pubs[p] ELSE New(p)
    BY <1>2
  <2>2. CASE pubs[p].done
    BY <1>4, <2>1, <2>2 DEF Grows
  <2>3. CASE ~pubs[p].done
    BY <1>3, <1>4, <2>1, <2>3 DEF Grows
  <2> QED
    BY <2>2, <2>3
<1> QED
  BY <1>0, <1>4, <1>5

\* A change of the queues that is noted keeps the invariant.
LEMMA QueuesChangeKeeps ==
  ASSUME Inv, QueuesChange
  PROVE  Inv'
<1>0. TypeOK
  BY DEF Inv
<1>1. /\ queues' \in [QueueIds' -> QueueRow] /\ QueueIds' \subseteq Nat /\ Note(queues')
      /\ UNCHANGED <<subs, madeSubs, pc, loc>>
  BY DEF QueuesChange
<1>2. /\ Publishes' = Publishes /\ pubs' \in [Publishes -> History]
      /\ \A p \in Publishes :
           /\ Grows(p) /\ pubs'[p].done = pubs[p].done
           /\ ~pubs[p].done => Unready(queues') \subseteq pubs'[p].unready
                               /\ Open(queues') \subseteq pubs'[p].open
  BY <1>0, <1>1, NoteGrows
<1>3. TypeOK'
  <2>1. msgs' \subseteq {m \in Message : m.queue \in QueueIds' /\ m.pub \in Publishes'}
    BY <1>0, <1>2 DEF TypeOK, QueuesChange
  <2> QED
    BY <1>0, <1>1, <1>2, <2>1 DEF TypeOK, QueuesChange, SubIds
<1>4. Counted' /\ NamesUnique' /\ (madeQueues <= MaxQueues)'
  BY <1>2 DEF Inv, Counted, QueuesChange
<1>5. ASSUME NEW p \in Publishes'
      PROVE  PubRight(p)'
  <2>1. p \in Publishes /\ PubRight(p) /\ Grows(p)
    BY <1>2 DEF Inv
  <2>2. \A row \in pubs[p].listed : Tried(p, row) => Tried(p, row)'
    BY <2>1, TriedStays
  <2>3. \A x, y \in pubs'[p].listed : x[1] = y[1] => x = y
    BY <2>1 DEF Grows, PubRight
  <2>4. pubs'[p].done => \A row \in pubs'[p].listed : Tried(p, row)'
    BY <1>2, <2>1, <2>2 DEF Grows, PubRight
  <2>5. ~pubs'[p].done => Unready(queues)' \subseteq pubs'[p].unready
                          /\ Open(queues)' \subseteq pubs'[p].open
    BY <1>2, <2>1 DEF Unready, Open, Ready
  <2> QED
    BY <2>3, <2>4, <2>5 DEF PubRight
<1>6. ASSUME NEW h \in Handlers
      PROVE  HandlerRight(h)'
  <2>1. HandlerRight(h)
    BY DEF Inv
  <2>2. ASSUME pc[h] # "idle"
        PROVE  /\ Grows(loc[h].pub) /\ ~pubs'[loc[h].pub].done
               /\ \A id \in Nat, name \in Names :
                    Found(id, name) => Found(id, name)' \/ name \in pubs'[loc[h].pub].unready
    <3>1. loc[h].pub \in Publishes /\ ~pubs[loc[h].pub].done
      BY <2>1, <2>2 DEF HandlerRight
    <3> QED
      BY <1>2, <3>1 DEF QueuesChange
  <2> QED
    BY <1>1, <2>1, <2>2, HandlerStays
<1>7. Apart'
  BY <1>1 DEF Inv, Apart
<1>8. PolicyEnforced'
  <2> SUFFICES ASSUME Enforce, NEW m \in msgs'
               PROVE  pubs'[m.pub].console \/ m.queue \in pubs'[m.pub].open
    BY DEF PolicyEnforced
  <2>1. m \in msgs /\ m.pub \in Publishes
    BY <1>0 DEF QueuesChange, TypeOK
  <2>2. pubs[m.pub].console \/ m.queue \in pubs[m.pub].open
    BY <2>1 DEF Inv, PolicyEnforced
  <2> QED
    BY <1>2, <2>1, <2>2 DEF Grows
<1> QED
  BY <1>3, <1>4, <1>5, <1>6, <1>7, <1>8 DEF Inv

\* CreateQueue is such a change.
LEMMA CreateQueueChanges ==
  ASSUME Inv, CreateQueue
  PROVE  QueuesChange
<1>0. TypeOK /\ NamesUnique /\ madeQueues \in Nat
  BY DEF Inv, TypeOK
<1>1. PICK name \in Names, config \in Configs :
        /\ get_queue(name) = {}
        /\ queues' = [i \in QueueIds \union {NewQueueId} |->
                        IF i = NewQueueId
                          THEN [name |-> name, config |-> config]
                          ELSE queues[i]]
        /\ Note(queues')
  BY DEF CreateQueue
<1>2. PICK new, row : new = NewQueueId /\ row = [name |-> name, config |-> config]
  OBVIOUS
<1>3. new \in (1..(madeQueues + 1)) \ QueueIds
  BY <1>0, <1>2, NewQueueIdFresh DEF CreateQueue
<1>4. row \in QueueRow /\ row.name = name
  BY <1>2 DEF QueueRow
<1>5. queues' = [i \in QueueIds \union {new} |-> IF i = new THEN row ELSE queues[i]]
  BY <1>1, <1>2
<1>6. /\ QueueIds' = QueueIds \union {new} /\ queues'[new] = row
      /\ \A i \in QueueIds : queues'[i] = queues[i]
  BY <1>3, <1>5 DEF QueueIds
<1>7. queues' \in [QueueIds' -> QueueRow]
  BY <1>0, <1>4, <1>5, <1>6 DEF TypeOK
<1>8. /\ madeQueues' \in Nat /\ madeQueues' <= MaxQueues /\ QueueIds' \subseteq 1..madeQueues'
      /\ msgs' = msgs /\ UNCHANGED <<subs, madeSubs, pc, loc>>
  BY <1>0, <1>3, <1>6, PublishAssumption DEF CreateQueue, TypeOK
<1>9. NamesUnique'
  <2>1. \A i \in QueueIds : queues[i].name # name
    BY <1>1 DEF get_queue
  <2> QED
    BY <1>0, <1>4, <1>6, <2>1 DEF NamesUnique
<1>10. \A id \in Nat, n \in Names : Found(id, n) => Found(id, n)'
  BY <1>6 DEF Found
<1>11. \A m \in msgs' : m.queue \in QueueIds'
  BY <1>0, <1>6, <1>8 DEF TypeOK
<1> QED
  BY <1>1, <1>7, <1>8, <1>9, <1>10, <1>11 DEF QueuesChange

\* DeleteQueue is such a change.
LEMMA DeleteQueueChanges ==
  ASSUME Inv, NEW id \in QueueIds, DeleteQueue(id)
  PROVE  QueuesChange
<1>0. TypeOK /\ NamesUnique /\ madeQueues <= MaxQueues
  BY DEF Inv
<1>1. queues' = [i \in QueueIds \ {id} |-> queues[i]] /\ Note(queues')
      /\ UNCHANGED <<subs, madeQueues, madeSubs, pc, loc>>
  BY DEF DeleteQueue
<1>2. QueueIds' = QueueIds \ {id} /\ \A i \in QueueIds' : queues'[i] = queues[i]
  BY <1>1 DEF QueueIds
<1>3. queues' \in [QueueIds' -> QueueRow] /\ QueueIds' \subseteq 1..madeQueues'
  BY <1>0, <1>1, <1>2 DEF TypeOK
<1>4. NamesUnique'
  BY <1>0, <1>2 DEF NamesUnique
<1>5. ASSUME NEW i \in Nat, NEW name \in Names, Found(i, name), ~Found(i, name)'
      PROVE  name \in Unready(queues')
  <2>1. i = id /\ queues[id].name = name
    BY <1>2, <1>5 DEF Found
  <2>2. \A j \in QueueIds' : queues'[j].name # name
    BY <1>0, <1>2, <2>1 DEF NamesUnique
  <2> QED
    BY <2>2 DEF Unready, Ready, QueueIds
<1>6. msgs' \subseteq msgs /\ \A m \in msgs' : m.queue \in QueueIds'
  BY <1>0, <1>2 DEF TypeOK, DeleteQueue
<1>7. madeQueues' \in Nat /\ madeQueues' <= MaxQueues
  BY <1>0, <1>1 DEF TypeOK
<1> QED
  BY <1>1, <1>3, <1>4, <1>5, <1>6, <1>7 DEF QueuesChange

\* SetQueueAttributes is such a change.
LEMMA SetQueueAttributesChanges ==
  ASSUME Inv, NEW id \in QueueIds, SetQueueAttributes(id)
  PROVE  QueuesChange
<1>0. TypeOK /\ NamesUnique /\ madeQueues <= MaxQueues
  BY DEF Inv
<1>1. PICK config \in Configs : queues' = [queues EXCEPT ![id].config = config]
  BY DEF SetQueueAttributes
<1>2. QueueIds' = QueueIds
  BY <1>1 DEF QueueIds
<1>3. queues[id] \in QueueRow
  BY <1>0 DEF TypeOK
<1>4. queues' \in [QueueIds' -> QueueRow] /\ \A i \in QueueIds : queues'[i].name = queues[i].name
  BY <1>0, <1>1, <1>2, <1>3 DEF TypeOK, QueueRow
<1>5. NamesUnique'
  BY <1>0, <1>2, <1>4 DEF NamesUnique
<1>6. \A i \in Nat, name \in Names : Found(i, name) => Found(i, name)'
  BY <1>2, <1>4 DEF Found
<1> QED
  BY <1>0, <1>2, <1>4, <1>5, <1>6 DEF QueuesChange, SetQueueAttributes, TypeOK

--------------------------------------------------------------------------------
(* Subscriptions change. *)

\* A change of the subscriptions does not touch what a publish has listed.
LEMMA SubscriptionsChangeKeeps ==
  ASSUME Inv, UNCHANGED <<queues, msgs, madeQueues, pubs, pc, loc>>,
         subs' \in [SubIds' -> Names], SubIds' \subseteq 1..madeSubs', madeSubs' \in Nat
  PROVE  Inv'
<1>1. TypeOK'
  BY DEF Inv, TypeOK, QueueIds, Publishes
<1>2. Counted' /\ NamesUnique' /\ (madeQueues <= MaxQueues)' /\ Apart' /\ PolicyEnforced'
  BY DEF Inv, Counted, NamesUnique, Apart, PolicyEnforced, QueueIds, Publishes
<1>3. \A p \in Publishes' : PubRight(p)'
  BY DEF Inv, PubRight, Tried, Unready, Ready, Open, Publishes
<1>4. \A h \in Handlers : HandlerRight(h)'
  BY DEF Inv, HandlerRight, LoadedRight, Found, Tried, QueueIds, Publishes
<1> QED
  BY <1>1, <1>2, <1>3, <1>4 DEF Inv

\* Subscribe keeps the invariant.
LEMMA SubscribeKeeps ==
  ASSUME Inv, Subscribe
  PROVE  Inv'
<1>0. TypeOK
  BY DEF Inv
<1>1. PICK name \in Names :
        subs' = [s \in SubIds \union {madeSubs + 1} |-> IF s = madeSubs + 1 THEN name ELSE subs[s]]
  BY DEF Subscribe
<1>2. madeSubs' = madeSubs + 1 /\ UNCHANGED <<queues, msgs, madeQueues, pubs, pc, loc>>
  BY DEF Subscribe
<1>3. SubIds' = SubIds \union {madeSubs + 1}
  BY <1>1 DEF SubIds
<1>4. madeSubs \in Nat /\ SubIds \subseteq 1..madeSubs /\ subs \in [SubIds -> Names]
  BY <1>0 DEF TypeOK
<1>5. subs' \in [SubIds' -> Names] /\ SubIds' \subseteq 1..madeSubs' /\ madeSubs' \in Nat
  BY <1>1, <1>2, <1>3, <1>4
<1> QED
  BY <1>2, <1>5, SubscriptionsChangeKeeps

\* Unsubscribe keeps the invariant.
LEMMA UnsubscribeKeeps ==
  ASSUME Inv, NEW s \in SubIds, Unsubscribe(s)
  PROVE  Inv'
<1>0. TypeOK
  BY DEF Inv
<1>1. subs' = [x \in SubIds \ {s} |-> subs[x]] /\ madeSubs' = madeSubs
      /\ UNCHANGED <<queues, msgs, madeQueues, pubs, pc, loc>>
  BY DEF Unsubscribe
<1>2. SubIds' = SubIds \ {s}
  BY <1>1 DEF SubIds
<1>3. subs' \in [SubIds' -> Names] /\ SubIds' \subseteq 1..madeSubs' /\ madeSubs' \in Nat
  BY <1>0, <1>1, <1>2 DEF TypeOK
<1> QED
  BY <1>1, <1>3, SubscriptionsChangeKeeps

--------------------------------------------------------------------------------
(* A handler takes a step. *)

\* The queues stay; the messages gain at most one, of a publish that may have it.
DeliveryStep ==
  /\ UNCHANGED <<queues, subs, madeQueues, madeSubs>>
  /\ msgs' \subseteq {m \in Message : m.queue \in QueueIds /\ m.pub \in Publishes'}
  /\ \A m \in msgs' :
       Enforce => pubs'[m.pub].console \/ m.queue \in pubs'[m.pub].open

\* Handler h goes on with publish p, all other publishes stay.
LEMMA HandlerStepKeeps ==
  ASSUME Inv, NEW h \in Handlers, NEW p, DeliveryStep,
         pubs' \in [Publishes' -> History], Counted', Publishes \subseteq Publishes',
         Publishes' \subseteq Publishes \union {p},
         \A q \in Publishes : q # p => pubs'[q] = pubs[q],
         p \in Publishes' => PubRight(p)',
         p \notin Publishes \/ (pc[h] # "idle" /\ loc[h].pub = p),
         pc' \in [Handlers -> {"idle", "get_queue", "send_message"}], DOMAIN loc' = Handlers,
         \A g \in Handlers : g # h => pc'[g] = pc[g] /\ loc'[g] = loc[g],
         HandlerRight(h)',
         pc'[h] # "idle" => loc'[h].pub = p
  PROVE  Inv'
<1>0. TypeOK
  BY DEF Inv
<1>1. UNCHANGED <<queues, subs, madeQueues, madeSubs>>
  BY DEF DeliveryStep
<1>2. ASSUME NEW g \in Handlers, g # h, pc[g] # "idle"
      PROVE  loc[g].pub \in Publishes /\ loc[g].pub # p
  <2>1. loc[g].pub \in Publishes
    BY <1>2 DEF Inv, HandlerRight
  <2> QED
    BY <1>2, <2>1 DEF Inv, Apart
<1>3. ASSUME NEW g \in Handlers
      PROVE  HandlerRight(g)'
  <2>1. CASE g = h
    BY <2>1
  <2>2. CASE g # h
    <3>1. HandlerRight(g) /\ pc'[g] = pc[g] /\ loc'[g] = loc[g]
      BY <2>2 DEF Inv
    <3>2. ASSUME pc[g] # "idle"
          PROVE  /\ Grows(loc[g].pub) /\ ~pubs'[loc[g].pub].done
                 /\ \A id \in Nat, name \in Names :
                      Found(id, name) => Found(id, name)' \/ name \in pubs'[loc[g].pub].unready
      <4>1. loc[g].pub \in Publishes /\ pubs'[loc[g].pub] = pubs[loc[g].pub]
        BY <1>2, <2>2, <3>2
      <4>2. ~pubs[loc[g].pub].done
        BY <3>1, <3>2 DEF HandlerRight
      <4>3. \A id \in Nat, name \in Names : Found(id, name) => Found(id, name)'
        BY <1>1 DEF Found, QueueIds
      <4> QED
        BY <4>1, <4>2, <4>3 DEF Grows
    <3> QED
      BY <3>1, <3>2, HandlerStays
  <2> QED
    BY <2>1, <2>2
<1>4. ASSUME NEW q \in Publishes'
      PROVE  PubRight(q)'
  <2>1. CASE q = p
    BY <2>1
  <2>2. CASE q # p
    <3>1. q \in Publishes /\ pubs'[q] = pubs[q] /\ PubRight(q)
      BY <2>2 DEF Inv
    <3> QED
      BY <1>1, <3>1 DEF PubRight, Tried, Unready, Ready, Open
  <2> QED
    BY <2>1, <2>2
<1>5. Apart'
  <2> SUFFICES ASSUME NEW f \in Handlers, NEW g \in Handlers, f # g, pc'[f] # "idle",
                      pc'[g] # "idle"
               PROVE  loc'[f].pub # loc'[g].pub
    BY DEF Apart
  <2>1. CASE f # h /\ g # h
    BY <2>1 DEF Inv, Apart
  <2>2. CASE f = h
    BY <1>2, <2>2
  <2>3. CASE g = h
    BY <1>2, <2>3
  <2> QED
    BY <2>1, <2>2, <2>3
<1>6. \A g \in Handlers : pc'[g] # "idle" => loc'[g] \in Locals /\ loc'[g].pub \in Publishes'
  BY <1>3 DEF HandlerRight
<1>7. PICK n \in Nat : Publishes' = 1..n
  BY DEF Counted
<1>8. Cardinality(1..n) = n
  BY FS_Interval
<1>9. TypeOK'
  <2>1. Publishes' = 1..Cardinality(Publishes')
    BY <1>7, <1>8
  <2>2. msgs' \subseteq {m \in Message : m.queue \in QueueIds' /\ m.pub \in Publishes'}
    BY <1>1 DEF DeliveryStep, QueueIds
  <2> QED
    BY <1>0, <1>1, <1>6, <2>1, <2>2 DEF TypeOK, QueueIds, SubIds
<1>10. NamesUnique' /\ (madeQueues <= MaxQueues)' /\ PolicyEnforced'
  BY <1>1 DEF Inv, NamesUnique, QueueIds, PolicyEnforced, DeliveryStep
<1> QED
  BY <1>3, <1>4, <1>5, <1>9, <1>10 DEF Inv

\* A delivery ends: each of the rows it was for is tried.
LEMMA ContinueKeeps ==
  ASSUME Inv, NEW h \in Handlers, pc[h] # "idle", NEW sub, NEW sent \in SUBSET Nat,
         NEW failed \in SUBSET Nat, Continue(h, sub, sent, failed),
         UNCHANGED <<queues, subs, madeQueues, madeSubs>>,
         \A row \in loc[h].rest : row[1] = sub =>
           row[1] \in sent \union failed \/ row[2] \in pubs[loc[h].pub].unready,
         msgs \subseteq msgs',
         \A m \in msgs' \ msgs :
           /\ m \in Message /\ m.queue \in QueueIds /\ m.pub = loc[h].pub
           /\ Enforce => pubs[loc[h].pub].console \/ m.queue \in pubs[loc[h].pub].open
  PROVE  Inv'
<1>0. TypeOK /\ HandlerRight(h)
  BY DEF Inv
<1>1. PICK l, rest, last :
        l = loc[h] /\ rest = {r \in loc[h].rest : r[1] # sub} /\ last = (rest = {})
  OBVIOUS
<1>2. /\ l \in Locals /\ l.pub \in Publishes
      /\ ~pubs[l.pub].done /\ pubs[l.pub].console = l.console
      /\ l.rest # {} /\ l.rest \subseteq pubs[l.pub].listed
      /\ \A row \in pubs[l.pub].listed \ l.rest : Tried(l.pub, row)
  BY <1>0, <1>1 DEF HandlerRight
<1>3. PICK p, old : p = l.pub /\ old = pubs[p]
  OBVIOUS
<1> DEFINE n1 == [old EXCEPT !.sent = @ \union sent]
           n2 == [n1 EXCEPT !.failed = @ \union failed]
           new == [n2 EXCEPT !.done = last]
<1>4. pubs' = [pubs EXCEPT ![p] = new]
  BY <1>1, <1>3 DEF Continue
<1>5. old \in History /\ PubRight(p) /\ p \in Publishes
  BY <1>0, <1>2, <1>3 DEF TypeOK, Inv
<1>6. last \in BOOLEAN
  BY <1>1
<1>7. /\ new \in History
      /\ new.listed = old.listed /\ new.console = old.console
      /\ new.sent = old.sent \union sent /\ new.failed = old.failed \union failed
      /\ new.unready = old.unready /\ new.open = old.open /\ new.done = last
  <2> HIDE DEF n1, n2, new
  <2>1. /\ n1 \in History
        /\ n1.listed = old.listed /\ n1.console = old.console /\ n1.sent = old.sent \union sent
        /\ n1.failed = old.failed /\ n1.unready = old.unready /\ n1.open = old.open
    BY <1>5 DEF n1, History
  <2>2. /\ n2 \in History
        /\ n2.listed = old.listed /\ n2.console = old.console /\ n2.sent = old.sent \union sent
        /\ n2.failed = old.failed \union failed /\ n2.unready = old.unready
        /\ n2.open = old.open
    BY <2>1 DEF n2, History
  <2> QED
    BY <1>6, <2>2 DEF new, History
<1> HIDE DEF n1, n2, new
<1>8. /\ Publishes' = Publishes /\ pubs' \in [Publishes -> History] /\ pubs'[p] = new
      /\ \A q \in Publishes : q # p => pubs'[q] = pubs[q]
  BY <1>0, <1>4, <1>5, <1>7 DEF TypeOK, Publishes
<1>9. \A row \in new.listed \ rest : Tried(p, row)'
  <2> SUFFICES ASSUME NEW row \in new.listed, row \notin rest
               PROVE  row[1] \in new.sent \union new.failed \/ row[2] \in new.unready
    BY <1>8 DEF Tried
  <2>1. CASE row \in l.rest
    <3>1. row[1] = sub
      BY <1>1, <2>1
    <3>2. row[1] \in sent \union failed \/ row[2] \in old.unready
      BY <1>1, <1>3, <2>1, <3>1
    <3> QED
      BY <1>7, <3>2
  <2>2. CASE row \notin l.rest
    <3>1. Tried(p, row)
      BY <1>2, <1>3, <1>7, <2>2
    <3> QED
      BY <1>3, <1>7, <3>1 DEF Tried
  <2> QED
    BY <2>1, <2>2
<1>10. PubRight(p)'
  <2>1. \A x, y \in new.listed : x[1] = y[1] => x = y
    BY <1>3, <1>5, <1>7 DEF PubRight
  <2>2. Unready(queues)' \subseteq new.unready /\ Open(queues)' \subseteq new.open
    BY <1>2, <1>3, <1>5, <1>7 DEF PubRight, Unready, Ready, Open
  <2>3. new.done => \A row \in new.listed : Tried(p, row)'
    <3>1. new.done => rest = {}
      BY <1>1, <1>7
    <3> QED
      BY <1>9, <3>1
  <2> QED
    BY <1>8, <2>1, <2>2, <2>3 DEF PubRight
<1>11. DeliveryStep
  <2>1. \A m \in msgs' : m \in Message /\ m.queue \in QueueIds /\ m.pub \in Publishes'
    BY <1>0, <1>1, <1>3, <1>5, <1>8 DEF TypeOK
  <2>2. ASSUME NEW m \in msgs', Enforce
        PROVE  pubs'[m.pub].console \/ m.queue \in pubs'[m.pub].open
    <3>1. m.pub \in Publishes /\ (pubs[m.pub].console \/ m.queue \in pubs[m.pub].open)
      BY <1>0, <1>1, <1>3, <1>5, <2>2 DEF TypeOK, Inv, PolicyEnforced
    <3> QED
      BY <1>3, <1>7, <1>8, <3>1
  <2> QED
    BY <2>1, <2>2 DEF DeliveryStep
<1>12. CASE rest = {}
  <2>1. Idle(h)
    BY <1>1, <1>12 DEF Continue
  <2>2. /\ pc' \in [Handlers -> {"idle", "get_queue", "send_message"}] /\ DOMAIN loc' = Handlers
        /\ pc'[h] = "idle"
        /\ \A g \in Handlers : g # h => pc'[g] = pc[g] /\ loc'[g] = loc[g]
    BY <1>0, <2>1 DEF Idle, TypeOK
  <2>3. HandlerRight(h)'
    BY <2>2 DEF HandlerRight
  <2>4. Counted'
    BY <1>8 DEF Inv, Counted
  <2> QED
    BY <1>1, <1>3, <1>8, <1>10, <1>11, <2>2, <2>3, <2>4, HandlerStepKeeps
<1>13. CASE rest # {}
  <2> DEFINE k == [l EXCEPT !.rest = rest]
  <2>1. pc' = [pc EXCEPT ![h] = "get_queue"] /\ loc' = [loc EXCEPT ![h] = k]
    BY <1>1, <1>13 DEF Continue
  <2>2. k \in Locals /\ k.pub = p /\ k.console = l.console /\ k.rest = rest
    <3>1. rest \subseteq l.rest
      BY <1>1
    <3> QED
      BY <1>2, <1>3, <3>1 DEF Locals
  <2> HIDE DEF k
  <2>3. /\ pc' \in [Handlers -> {"idle", "get_queue", "send_message"}] /\ DOMAIN loc' = Handlers
        /\ pc'[h] = "get_queue" /\ loc'[h] = k
        /\ \A g \in Handlers : g # h => pc'[g] = pc[g] /\ loc'[g] = loc[g]
    BY <1>0, <2>1 DEF TypeOK
  <2>4. rest \subseteq new.listed /\ ~new.done /\ new.console = k.console
    BY <1>1, <1>2, <1>3, <1>7, <1>13, <2>2
  <2>5. HandlerRight(h)'
    BY <1>5, <1>8, <1>9, <1>13, <2>2, <2>3, <2>4 DEF HandlerRight
  <2>6. Counted'
    BY <1>8 DEF Inv, Counted
  <2> QED
    BY <1>1, <1>3, <1>8, <1>10, <1>11, <2>2, <2>3, <2>5, <2>6, HandlerStepKeeps
<1> QED
  BY <1>12, <1>13

\* Without a queue that a delivery would go to, the name is not ready.
LEMMA SkippedIsUnready ==
  ASSUME TypeOK, NEW name \in Names, NEW console,
         \A id \in get_queue(name) : ~Delivers(queues[id].config, console)
  PROVE  name \in Unready(queues)
<1> SUFFICES ASSUME Ready(queues, name)
             PROVE  FALSE
  BY DEF Unready
<1>1. PICK id \in QueueIds :
        /\ queues[id].name = name /\ queues[id].config.fits
        /\ queues[id].config.policy \in IF Enforce THEN {"allows"} ELSE {"allows", "refuses"}
  BY DEF Ready, QueueIds
<1>2. Delivers(queues[id].config, console)
  <2>1. MayDeliver(queues[id].config)
    BY <1>1 DEF MayDeliver
  <2> QED
    BY <2>1, Zenon DEF Delivers, ConsoleMayDeliver
<1> QED
  BY <1>1, <1>2 DEF get_queue

\* get_queue loads the queue of the next subscription, or skips it.
LEMMA GetQueueKeeps ==
  ASSUME Inv, NEW h \in Handlers, GetQueue(h)
  PROVE  Inv'
<1>0. TypeOK /\ HandlerRight(h) /\ pc[h] = "get_queue" /\ pc[h] # "idle"
  BY DEF Inv, GetQueue
<1>1. PICK l, next : l = loc[h] /\ next = Following(loc[h].rest)
  OBVIOUS
<1>2. /\ l \in Locals /\ l.pub \in Publishes
      /\ ~pubs[l.pub].done /\ pubs[l.pub].console = l.console
      /\ l.rest # {} /\ l.rest \subseteq pubs[l.pub].listed
      /\ \A row \in pubs[l.pub].listed \ l.rest : Tried(l.pub, row)
  BY <1>0, <1>1 DEF HandlerRight
<1>3. next \in l.rest /\ next[1] \in Nat /\ next[2] \in Names
  <2>1. l.rest \subseteq Nat \X Names
    BY <1>2 DEF Locals
  <2>2. next \in l.rest
    BY <1>1, <1>2, <2>1, FollowingIsLeft
  <2> QED
    BY <2>1, <2>2
<1>4. PubRight(l.pub)
  BY <1>2 DEF Inv
<1>5. UNCHANGED <<queues, subs, msgs, madeQueues, madeSubs>>
  BY DEF GetQueue
<1>6. ASSUME NEW id \in get_queue(next[2]), Delivers(queues[id].config, l.console),
             pc' = [pc EXCEPT ![h] = "send_message"],
             loc' = [loc EXCEPT ![h] = [loc[h] EXCEPT !.sub = next[1], !.queue = id]],
             UNCHANGED pubs
      PROVE  Inv'
  <2> DEFINE k1 == [l EXCEPT !.sub = next[1]]
             k == [k1 EXCEPT !.queue = id]
  <2>1. id \in QueueIds /\ queues[id].name = next[2] /\ id \in Nat
    BY <1>0, <1>6 DEF get_queue, TypeOK
  <2>2. loc' = [loc EXCEPT ![h] = k]
    BY <1>1, <1>6
  <2>3. /\ k \in Locals /\ k.pub = l.pub /\ k.console = l.console /\ k.rest = l.rest
        /\ k.sub = next[1] /\ k.queue = id
    <3> HIDE DEF k1, k
    <3>1. k1 \in Locals /\ k1.pub = l.pub /\ k1.console = l.console /\ k1.rest = l.rest
          /\ k1.sub = next[1]
      BY <1>2, <1>3 DEF k1, Locals
    <3> QED
      BY <2>1, <3>1 DEF k, Locals
  <2> HIDE DEF k1, k
  <2>4. /\ pc' \in [Handlers -> {"idle", "get_queue", "send_message"}] /\ DOMAIN loc' = Handlers
        /\ pc'[h] = "send_message" /\ loc'[h] = k
        /\ \A g \in Handlers : g # h => pc'[g] = pc[g] /\ loc'[g] = loc[g]
    BY <1>0, <1>6, <2>2 DEF TypeOK
  <2>5. Publishes' = Publishes /\ pubs' = pubs /\ Counted' /\ pubs' \in [Publishes -> History]
    BY <1>0, <1>6 DEF Publishes, Inv, Counted, TypeOK
  <2>6. PubRight(l.pub)'
    BY <1>4, <1>5, <2>5 DEF PubRight, Tried, Unready, Ready, Open
  <2>7. Enforce /\ ~l.console => id \in pubs[l.pub].open
    <3>1. Enforce /\ ~l.console => queues[id].config.policy = "allows"
      BY <1>6 DEF Delivers, MayDeliver
    <3>2. queues[id].config.policy = "allows" => id \in Open(queues)
      BY <2>1 DEF Open, QueueIds
    <3> QED
      BY <1>2, <1>4, <3>1, <3>2 DEF PubRight
  <2>8. LoadedRight(l.pub, l.rest, next[1], id, l.console)'
    <3>1. Found(id, next[2])'
      BY <1>5, <2>1 DEF Found, QueueIds
    <3> QED
      BY <1>3, <2>5, <2>7, <3>1 DEF LoadedRight
  <2>9. HandlerRight(h)'
    <3>1. \A row \in pubs'[l.pub].listed \ l.rest : Tried(l.pub, row)'
      BY <1>2, <2>5 DEF Tried
    <3> QED
      BY <1>2, <2>3, <2>4, <2>5, <2>8, <3>1 DEF HandlerRight
  <2>10. DeliveryStep
    BY <1>0, <1>5, <2>5 DEF DeliveryStep, TypeOK, Inv, PolicyEnforced
  <2> QED
    BY <1>0, <1>1, <1>2, <2>3, <2>4, <2>5, <2>6, <2>9, <2>10, HandlerStepKeeps
<1>7. CASE /\ \A id \in get_queue(next[2]) : ~Delivers(queues[id].config, l.console)
           /\ Skip(h, next[1], {})
  <2>1. next[2] \in pubs[l.pub].unready
    BY <1>0, <1>2, <1>3, <1>4, <1>7, SkippedIsUnready DEF PubRight
  <2>2. \A row \in l.rest : row[1] = next[1] => row[2] \in pubs[l.pub].unready
    BY <1>2, <1>3, <1>4, <2>1 DEF PubRight
  <2>3. Continue(h, next[1], {}, {})
    BY <1>7 DEF Skip
  <2> QED
    BY <1>0, <1>1, <1>5, <2>2, <2>3, ContinueKeeps
<1>8. CASE Skip(h, next[1], {next[1]})
  <2>1. Continue(h, next[1], {}, {next[1]})
    BY <1>8 DEF Skip
  <2> QED
    BY <1>0, <1>3, <1>5, <2>1, ContinueKeeps
<1> QED
  BY <1>1, <1>6, <1>7, <1>8, Zenon DEF GetQueue

\* send_message inserts into the loaded queue, or fails for this delivery alone.
LEMMA SendMessageKeeps ==
  ASSUME Inv, NEW h \in Handlers, SendMessage(h)
  PROVE  Inv'
<1>0. TypeOK /\ HandlerRight(h) /\ pc[h] = "send_message" /\ pc[h] # "idle"
  BY DEF Inv, SendMessage
<1>1. PICK l : l = loc[h]
  OBVIOUS
<1>2. /\ l \in Locals /\ l.pub \in Publishes
      /\ pubs[l.pub].console = l.console /\ l.rest \subseteq pubs[l.pub].listed
      /\ LoadedRight(l.pub, l.rest, l.sub, l.queue, l.console)
  BY <1>0, <1>1 DEF HandlerRight
<1>3. l.sub \in Nat /\ l.queue \in Nat /\ l.pub \in Nat
  BY <1>2 DEF Locals
<1>4. UNCHANGED <<queues, subs, madeQueues, madeSubs>>
  BY DEF SendMessage
<1>5. CASE /\ send_message(l.queue, [queue |-> l.queue, pub |-> l.pub, sub |-> l.sub])
           /\ Continue(h, l.sub, {l.sub}, {})
  <2> DEFINE m == [queue |-> l.queue, pub |-> l.pub, sub |-> l.sub]
  <2>1. m \in Message /\ m.queue = l.queue /\ m.pub = l.pub
    BY <1>3 DEF Message
  <2>2. l.queue \in QueueIds /\ msgs' = msgs \union {m}
    BY <1>5 DEF send_message
  <2> HIDE DEF m
  <2>3. Enforce => pubs[l.pub].console \/ l.queue \in pubs[l.pub].open
    BY <1>2 DEF LoadedRight
  <2>4. \A x \in msgs' \ msgs :
          /\ x \in Message /\ x.queue \in QueueIds /\ x.pub = l.pub
          /\ Enforce => pubs[l.pub].console \/ x.queue \in pubs[l.pub].open
    BY <2>1, <2>2, <2>3
  <2> QED
    BY <1>0, <1>1, <1>3, <1>4, <1>5, <2>2, <2>4, ContinueKeeps
<1>6. CASE l.queue \notin QueueIds /\ Skip(h, l.sub, {}) /\ UNCHANGED msgs
  <2>1. PICK row \in l.rest : row[1] = l.sub /\ row[2] \in pubs[l.pub].unready
    BY <1>2, <1>6 DEF LoadedRight, Found
  <2>2. PubRight(l.pub)
    BY <1>2 DEF Inv
  <2>3. \A r \in l.rest : r[1] = l.sub => r[2] \in pubs[l.pub].unready
    BY <1>2, <2>1, <2>2 DEF PubRight
  <2>4. Continue(h, l.sub, {}, {})
    BY <1>6 DEF Skip
  <2> QED
    BY <1>0, <1>1, <1>4, <1>6, <2>3, <2>4, ContinueKeeps
<1>7. CASE Skip(h, l.sub, {l.sub}) /\ UNCHANGED msgs
  <2>1. Continue(h, l.sub, {}, {l.sub})
    BY <1>7 DEF Skip
  <2> QED
    BY <1>0, <1>3, <1>4, <1>7, <2>1, ContinueKeeps
<1> QED
  BY <1>1, <1>5, <1>6, <1>7 DEF SendMessage

\* A publish begins with everything that is subscribed left to do.
LEMMA ListSubscriptionsKeeps ==
  ASSUME Inv, NEW h \in Handlers, NEW console \in BOOLEAN, ListSubscriptions(h, console)
  PROVE  Inv'
<1>0. TypeOK /\ pc[h] = "idle"
  BY DEF Inv, ListSubscriptions
<1>1. PICK n \in Nat : Publishes = 1..n
  BY DEF Inv, Counted
<1>2. Cardinality(Publishes) = n
  BY <1>1, FS_Interval
<1>3. PICK p, rows, none, u, o :
        /\ p = Cardinality(Publishes) + 1 /\ rows = {<<s, subs[s]>> : s \in SubIds}
        /\ none = (rows = {}) /\ u = Unready(queues) /\ o = Open(queues)
  OBVIOUS
<1>4. p = n + 1 /\ p \notin Publishes /\ p \in Nat
  BY <1>1, <1>2, <1>3
<1> DEFINE new == [console |-> console, listed |-> rows, sent |-> {}, failed |-> {},
                   unready |-> u, open |-> o, done |-> none]
<1>5. pubs' = [x \in Publishes \union {p} |-> IF x = p THEN new ELSE pubs[x]]
  BY <1>3 DEF ListSubscriptions
<1>6. /\ rows \subseteq Nat \X Names /\ u \subseteq Names /\ o \subseteq Nat /\ none \in BOOLEAN
      /\ \A x, y \in rows : x[1] = y[1] => x = y
  <2>1. SubIds \subseteq Nat /\ QueueIds \subseteq Nat /\ subs \in [SubIds -> Names]
    BY <1>0 DEF TypeOK
  <2> QED
    BY <1>3, <2>1 DEF Unready, Open, QueueIds
<1>7. /\ new \in History /\ new.console = console /\ new.listed = rows /\ new.unready = u
      /\ new.open = o /\ new.done = none
  BY <1>6 DEF History
<1> HIDE DEF new
<1>8. /\ Publishes' = 1..(n + 1) /\ Publishes' = Publishes \union {p} /\ pubs'[p] = new
      /\ \A q \in Publishes : pubs'[q] = pubs[q]
      /\ pubs' \in [Publishes' -> History]
  <2>1. Publishes' = Publishes \union {p}
    BY <1>5 DEF Publishes
  <2>2. pubs'[p] = new /\ \A q \in Publishes : pubs'[q] = pubs[q]
    BY <1>4, <1>5
  <2>3. pubs' \in [Publishes' -> History]
    BY <1>0, <1>5, <1>7, <2>1 DEF TypeOK
  <2> QED
    BY <1>1, <1>4, <2>1, <2>2, <2>3
<1>9. Counted'
  BY <1>8 DEF Counted
<1>10. UNCHANGED <<queues, subs, msgs, madeQueues, madeSubs>>
  BY DEF ListSubscriptions
<1>11. PubRight(p)'
  <2>1. new.done => rows = {}
    BY <1>3, <1>7
  <2>2. Unready(queues)' = u /\ Open(queues)' = o
    BY <1>3, <1>10 DEF Unready, Ready, Open
  <2> QED
    BY <1>6, <1>7, <1>8, <2>1, <2>2 DEF PubRight
<1>12. DeliveryStep
  <2>1. \A m \in msgs : m.pub \in Publishes
    BY <1>0 DEF TypeOK
  <2> QED
    BY <1>0, <1>8, <1>10, <2>1 DEF DeliveryStep, TypeOK, Inv, PolicyEnforced
<1>13. CASE rows = {} /\ UNCHANGED <<pc, loc>>
  <2>1. HandlerRight(h)'
    BY <1>0, <1>13 DEF HandlerRight
  <2> QED
    BY <1>0, <1>4, <1>8, <1>9, <1>11, <1>12, <1>13, <2>1, HandlerStepKeeps DEF TypeOK
<1>14. ASSUME rows # {}, pc' = [pc EXCEPT ![h] = "get_queue"],
              loc' = [loc EXCEPT ![h] = [pub |-> p, console |-> console, rest |-> rows,
                                         sub |-> 0, queue |-> 0]]
       PROVE  Inv'
  <2> DEFINE k == [pub |-> p, console |-> console, rest |-> rows, sub |-> 0, queue |-> 0]
  <2>1. k \in Locals /\ k.pub = p /\ k.console = console /\ k.rest = rows
    BY <1>4, <1>6 DEF Locals
  <2>2. loc' = [loc EXCEPT ![h] = k]
    BY <1>14
  <2> HIDE DEF k
  <2>3. /\ pc' \in [Handlers -> {"idle", "get_queue", "send_message"}] /\ DOMAIN loc' = Handlers
        /\ pc'[h] = "get_queue" /\ loc'[h] = k
        /\ \A g \in Handlers : g # h => pc'[g] = pc[g] /\ loc'[g] = loc[g]
    BY <1>0, <1>14, <2>2 DEF TypeOK
  <2>4. ~new.done
    BY <1>3, <1>7, <1>14
  <2>5. HandlerRight(h)'
    BY <1>7, <1>8, <1>14, <2>1, <2>3, <2>4 DEF HandlerRight
  <2> QED
    BY <1>4, <1>8, <1>9, <1>11, <1>12, <2>1, <2>3, <2>5, HandlerStepKeeps
<1> QED
  BY <1>3, <1>13, <1>14 DEF ListSubscriptions

\* A restart ends the publishes under way unanswered.
LEMMA RestartKeeps ==
  ASSUME Inv, Restart
  PROVE  Inv'
<1>1. UNCHANGED <<queues, subs, msgs, madeQueues, madeSubs, pubs>>
      /\ pc' \in [Handlers -> {"idle", "get_queue", "send_message"}] /\ DOMAIN loc' = Handlers
      /\ \A h \in Handlers : pc'[h] = "idle"
  BY DEF Restart
<1>2. TypeOK'
  BY <1>1 DEF Inv, TypeOK, QueueIds, SubIds, Publishes
<1>3. Counted' /\ NamesUnique' /\ (madeQueues <= MaxQueues)' /\ Apart' /\ PolicyEnforced'
  BY <1>1 DEF Inv, Counted, NamesUnique, Apart, PolicyEnforced, QueueIds, Publishes
<1>4. \A p \in Publishes' : PubRight(p)'
  BY <1>1 DEF Inv, PubRight, Tried, Unready, Ready, Open, Publishes
<1>5. \A h \in Handlers : HandlerRight(h)'
  BY <1>1 DEF HandlerRight
<1> QED
  BY <1>2, <1>3, <1>4, <1>5 DEF Inv

--------------------------------------------------------------------------------
(* The theorems. *)

\* The inductive invariant holds initially.
LEMMA InvInit ==
  ASSUME Init
  PROVE  Inv
<1>1. QueueIds = {} /\ SubIds = {} /\ Publishes = {} /\ Publishes = 1..0
  BY DEF Init, QueueIds, SubIds, Publishes
<1>2. Cardinality(Publishes) = 0
  BY <1>1, FS_EmptySet
<1>3. TypeOK
  BY <1>1, <1>2 DEF Init, TypeOK
<1>4. Counted
  BY <1>1 DEF Counted
<1> QED
  BY <1>1, <1>3, <1>4, PublishAssumption
     DEF Init, Inv, NamesUnique, HandlerRight, Apart, PolicyEnforced

\* Every step keeps the inductive invariant.
LEMMA InvNext ==
  ASSUME Inv, [Next]_vars
  PROVE  Inv'
<1>1. CASE CreateQueue
  BY <1>1, CreateQueueChanges, QueuesChangeKeeps
<1>2. CASE \E id \in QueueIds : DeleteQueue(id) \/ SetQueueAttributes(id)
  BY <1>2, DeleteQueueChanges, SetQueueAttributesChanges, QueuesChangeKeeps
<1>3. CASE Subscribe \/ \E s \in SubIds : Unsubscribe(s)
  BY <1>3, SubscribeKeeps, UnsubscribeKeeps
<1>4. CASE Restart
  BY <1>4, RestartKeeps
<1>5. CASE \E h \in Handlers : Publish(h) \/ publish_message(h)
  BY <1>5, ListSubscriptionsKeeps DEF Publish, publish_message
<1>6. CASE \E h \in Handlers : Deliver(h)
  BY <1>6, GetQueueKeeps, SendMessageKeeps DEF Deliver
<1>7. CASE UNCHANGED vars
  <2>1. subs' \in [SubIds' -> Names] /\ SubIds' \subseteq 1..madeSubs' /\ madeSubs' \in Nat
    BY <1>7 DEF vars, Inv, TypeOK, SubIds
  <2> QED
    BY <1>7, <2>1, SubscriptionsChangeKeeps DEF vars
<1> QED
  BY <1>1, <1>2, <1>3, <1>4, <1>5, <1>6, <1>7 DEF Next

\* The inductive invariant holds always.
LEMMA InvHolds == Spec => []Inv
<1>1. Init => Inv
  BY InvInit
<1>2. Inv /\ [Next]_vars => Inv'
  BY InvNext
<1> QED
  BY <1>1, <1>2, PTL DEF Spec

\* A publish that answered reached every subscription it listed whose queue was ready from
\* the listing to the answer, unless a statement of that very delivery failed, however many
\* publishes run at once and whatever is done to queues and subscriptions meanwhile.
THEOREM AnswersComplete == Spec => []AnsweredIsComplete
<1>1. Inv => AnsweredIsComplete
  BY DEF Inv, AnsweredIsComplete, PubRight, Tried
<1> QED
  BY <1>1, InvHolds, PTL

\* In enforce mode Publish puts a message only under the id of a queue whose policy allowed
\* SNS at some time of the publish.
THEOREM PoliciesEnforced == Spec => []PolicyEnforced
<1>1. Inv => PolicyEnforced
  BY DEF Inv
<1> QED
  BY <1>1, InvHolds, PTL
================================================================================
