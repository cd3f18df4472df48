-------------------------------- MODULE Reads --------------------------------
(***************************************************************************)
(* Answers put together from several SELECTs, while other requests (and    *)
(* the clock) go on between them: the message counts of SQS, the pages of  *)
(* the SNS lists, and the console's overview pages.                        *)
(*                                                                         *)
(* A handler that only reads is a function of the moments its statements   *)
(* see: at[k] is what the k-th statement finds.                            *)
(***************************************************************************)
EXTENDS Naturals, Integers, Arranged

CONSTANT PageSize      \* rows of a page of an SNS list, 100 in the code

--------------------------------------------------------------------------------
(* The messages of a queue.  A moment is a function from the messages in the table to   *)
(* what the row and the clock say: due (visible_at <= now), live (expires_at > now) and *)
(* leased (receipt_handle IS NOT NULL).  Messages are numbers, the latest sent first.   *)

LiveRows(messages) == {m \in DOMAIN messages : messages[m].live}
VisibleRows(messages) == {m \in LiveRows(messages) : messages[m].due}
DelayedRows(messages) == {m \in LiveRows(messages) : ~messages[m].due /\ ~messages[m].leased}

get_message_count(messages) == Cardinality(LiveRows(messages))

get_visible_message_count(messages) == Cardinality(VisibleRows(messages))

get_messages_delayed_count(messages) == Cardinality(DelayedRows(messages))

\* GetQueueAttributes for all four counts.
collect_message_counts(at) ==
  [ApproximateNumberOfMessages |-> get_message_count(at[1]),
   ApproximateNumberOfMessagesNotVisible |->
     get_message_count(at[3]) - get_visible_message_count(at[2]),
   ApproximateNumberOfMessagesDelayed |-> get_messages_delayed_count(at[4])]

queue_summary(at) ==
  [message_count |-> get_message_count(at[1]),
   visible_message_count |-> get_visible_message_count(at[2]),
   delayed_message_count |-> get_messages_delayed_count(at[3])]

\* The badge of a message in the console's list.
message_summary(row) ==
  CASE ~row.live -> "Expired"
    [] row.live /\ row.due -> "Visible"
    [] row.live /\ ~row.due /\ row.leased -> "In flight"
    [] OTHER -> "Delayed"

\* The page's message_limit.
clamp(limit) == IF limit < 1 THEN 1 ELSE IF limit > 500 THEN 500 ELSE limit

\* ORDER BY sent_at DESC LIMIT ?
list_messages(messages, limit) ==
  {m \in DOMAIN messages : Cardinality({x \in DOMAIN messages : x < m}) < limit}

\* The queue page: the counts, then the list.
queue_detail(at, limit) ==
  [summary |-> queue_summary(at),
   messages |-> {[of |-> m, status |-> message_summary(at[4][m])] :
                   m \in list_messages(at[4], clamp(limit))}]

--------------------------------------------------------------------------------
(* ListTopics, ListSubscriptions, ListSubscriptionsByTopic.  A moment is the set of the  *)
(* rows, each a number: its place in the order of the SELECT.  Every call reads them all *)
(* and cuts its page out; the token is the offset of the next one.                       *)

\* skip(offset).take(PageSize)
PageAt(rows, offset) ==
  [i \in {j \in 1..PageSize : offset + j <= Len(rows)} |-> rows[offset + i]]

\* Mutant: the last row of a page is the first of the next.
OverlappingOffset(offset) == offset + PageSize - 1

next_offset(offset) == offset + PageSize

\* The token that the k-th call answers with, if there is more; the first call has none.
Token[k \in Nat] == IF k = 0 THEN 0 ELSE next_offset(Token[k - 1])

\* The calls of a client that follows the tokens, and whether the last one has a token.
ListPages(at) ==
  LET rows == [k \in DOMAIN at |-> InOrder(at[k])]
      More(k) == Token[k] < Len(rows[k])
      Made(k) == \A j \in 1..(k - 1) : More(j)
  IN  [pages |-> [k \in DOMAIN at |-> IF Made(k) THEN PageAt(rows[k], Token[k - 1]) ELSE <<>>],
       more |-> \A k \in DOMAIN at : More(k)]

handle_list_topics(at) == ListPages(at)
handle_list_subscriptions(at) == ListPages(at)
\* The rows have no ORDER BY: they come in the order they were made.
handle_list_subscriptions_by_topic(at) == ListPages(at)

--------------------------------------------------------------------------------
(* The console's overview pages.  A moment is the set of the owners (topics, principals) *)
(* and the relation of what they own; the owners are listed first, then asked in turn.   *)

OwnedBy(moment, owner) == {x \in moment.owned : x[1] = owner}

\* Topics with their subscriptions, or principals with their keys and policies: at[1]
\* lists the owners, at[2] onwards asks the i-th of them.
load_summaries(at) ==
  LET owners == InOrder(at[1].owners)
  IN  {[owner |-> owners[i], count |-> Cardinality(OwnedBy(at[1 + i], owners[i]))] :
         i \in DOMAIN owners}

load_topic_summaries(at) == load_summaries(at)
load_principal_summaries(at) == load_summaries(at)

\* How often each policy was met among the principals' attachments.
managed_policy_attachment_counts(at) ==
  LET owners == InOrder(at[1].owners)
      met == UNION {OwnedBy(at[1 + i], owners[i]) : i \in DOMAIN owners}
  IN  [policy \in {x[2] : x \in met} |-> Cardinality({x \in met : x[2] = policy})]

\* A policy that was not met has none.
load_managed_policy_summaries(at, policies) ==
  LET counts == managed_policy_attachment_counts(at)
  IN  {[policy |-> p, count |-> IF p \in DOMAIN counts THEN counts[p] ELSE 0] : p \in policies}

\* The sum of the counts: as many as there are numbers up to each of them.
Total(summaries) == Cardinality(UNION {{s} \X (1..s.count) : s \in summaries})

dashboard_stats(at) ==
  LET principals == load_principal_summaries(at)
  IN  [principal_count |-> Cardinality(principals), attached_count |-> Total(principals)]

\* The topic page: the summary's count, and the list below it.
topic_detail(at, topic) ==
  [summary |-> Cardinality(OwnedBy(at[1], topic)), subscriptions |-> OwnedBy(at[2], topic)]

--------------------------------------------------------------------------------
(* Properties. *)

Ever(at) == Cardinality(UNION {at[k] : k \in DOMAIN at})
Always(at) == Cardinality({x \in at[1] : \A k \in DOMAIN at : x \in at[k]})
Bracketed(count, at) == Always(at) <= count /\ count <= Ever(at)

\* A count is never below the number of messages it was true of all the time, nor above
\* those it was true of at some time.  Only NotVisible, the difference of two counts, can
\* leave these bounds: by as many visible messages as went, or came, between the two, and
\* so it is negative only if some went.  If nothing changes, the counts add up, and the
\* console's list has no more badges of a kind than that, and as many if its limit allows.
CountsExplained(at, limit) ==
  LET counts == collect_message_counts(at)
      page == queue_detail(at, limit)
      live == [k \in DOMAIN at |-> LiveRows(at[k])]
      visible == [k \in DOMAIN at |-> VisibleRows(at[k])]
      delayed == [k \in DOMAIN at |-> DelayedRows(at[k])]
      hidden == [k \in DOMAIN at |-> live[k] \ visible[k]]
      Badges(kinds) == Cardinality({x \in page.messages : x.status \in kinds})
      Agree(badges, count) ==
        badges <= count /\ (Cardinality(DOMAIN at[1]) <= clamp(limit) => badges = count)
  IN  /\ Bracketed(page.summary.visible_message_count, visible)
      /\ Bracketed(counts.ApproximateNumberOfMessages, live)
      /\ Bracketed(counts.ApproximateNumberOfMessagesDelayed, delayed)
      /\ counts.ApproximateNumberOfMessagesNotVisible
           \in (Always(hidden) - Cardinality(visible[2] \ visible[3]))
                 .. (Ever(hidden) + Cardinality(visible[3] \ visible[2]))
      /\ (\A k \in DOMAIN at : at[k] = at[1]) =>
           /\ page.summary.visible_message_count + counts.ApproximateNumberOfMessagesNotVisible
                = counts.ApproximateNumberOfMessages
           /\ Agree(Badges({"Visible"}), page.summary.visible_message_count)
           /\ Agree(Badges({"Delayed"}), page.summary.delayed_message_count)
           /\ Agree(Badges({"In flight", "Delayed"}), counts.ApproximateNumberOfMessagesNotVisible)

\* A client that follows the tokens to the end misses a row that was there all the time
\* only if a row before it went between two calls, and sees a row twice only if one came.
PagesExplained(at) ==
  LET answer == handle_list_topics(at)
      stayed == {r \in at[1] : \A k \in DOMAIN at : r \in at[k]}
      Seen(r, k, i) == i \in DOMAIN answer.pages[k] /\ answer.pages[k][i] = r
      Went(r) == \E j, k \in DOMAIN at : j < k /\ \E x \in at[j] \ at[k] : x < r
      Came(r) == \E j, k \in DOMAIN at : j < k /\ \E x \in at[k] \ at[j] : x < r
  IN  \A r \in stayed :
        /\ \/ \E k \in DOMAIN at : \E i \in 1..PageSize : Seen(r, k, i)
           \/ answer.more \/ Went(r)
        /\ \A j, k \in DOMAIN at : \A h, i \in 1..PageSize :
             Seen(r, j, h) /\ Seen(r, k, i) => (j = k /\ h = i) \/ Came(r)

\* Every count of an overview was possible during its statements, an owner that goes
\* before it is asked counts for nothing, and if nothing changes the attachments counted
\* by principal and by policy are as many.
OverviewExplained(at, policies) ==
  LET Of(owner) == [k \in DOMAIN at |-> OwnedBy(at[k], owner)]
      With(policy) == [k \in DOMAIN at |-> {x \in at[k].owned : x[2] = policy}]
  IN  /\ \A s \in load_principal_summaries(at) : Bracketed(s.count, Of(s.owner))
      /\ \A s \in load_managed_policy_summaries(at, policies) : Bracketed(s.count, With(s.policy))
      /\ (\A k \in DOMAIN at : at[k] = at[1]) =>
           /\ dashboard_stats(at).attached_count
                = Total(load_managed_policy_summaries(at, policies))
           /\ \A t \in at[1].owners :
                topic_detail(at, t).summary = Cardinality(topic_detail(at, t).subscriptions)
================================================================================
