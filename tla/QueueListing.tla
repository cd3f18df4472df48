----------------------------- MODULE QueueListing -----------------------------
(***************************************************************************)
(* ListQueues, GetQueueUrl and the console's list of queues, while the     *)
(* handlers of SqsQueues create and delete queues.                         *)
(*                                                                         *)
(* A client that asks for MaxResults queues at a time walks the names in   *)
(* order.  No statement sees more than one page, and the only state        *)
(* between two pages is the token the client holds: the last name it was   *)
(* given, the queue of which may be gone when the token comes back.        *)
(*                                                                         *)
(* Names are numbers here, in the order of ORDER BY name.                  *)
(***************************************************************************)
EXTENDS SqsQueues, Sequences

CONSTANTS
  PrefixSets,     \* for each prefix a client asks for, the names that begin with it
  MaxPage,        \* the largest MaxResults accepted, 1000 in the code
  StoreLimit      \* the LIMIT of a ListQueues without MaxResults, 1000 in the code

ASSUME ListingAssumption ==
  /\ Names \subseteq Nat \ {0}
  /\ PrefixSets \subseteq SUBSET Names
  /\ MaxPage \in Nat \ {0}
  /\ StoreLimit \in Nat \ {0}

VARIABLE walk     \* the ListQueues calls of one client

--------------------------------------------------------------------------------
Unlimited == 0    \* no MaxResults in the request
NoToken == 0      \* name > NoToken holds of every name

NoWalk == [on |-> FALSE]

\* got: the names answered so far.  History: stayed, the names in use all along, and
\* ever, the names in use at some time since the first call.
Walk == [on : {TRUE}, prefix : PrefixSets, max : Nat, token : Names \union {NoToken},
         done : BOOLEAN, got : Seq(Names), stayed : SUBSET Names, ever : SUBSET Names]

NamesInUse == {queues[id].name : id \in Ids}

Below(S, x) == {y \in S : y < x}

\* The n smallest elements of S, or all of them, in ascending order.
Smallest(n, S) ==
  [i \in 1..(IF n < Cardinality(S) THEN n ELSE Cardinality(S)) |->
     CHOOSE x \in S : Cardinality(Below(S, x)) = i - 1]

\* SELECT ... WHERE name begins with the prefix AND name > token ORDER BY name LIMIT limit
list_queues(prefix, limit, token) ==
  Smallest(limit, {name \in NamesInUse \intersect prefix : name > token})

\* Mutant: as many rows as the client wants, which never shows that there are more.
AskForNoMore(max) == IF max = Unlimited THEN StoreLimit ELSE max

\* One row more than the client wants tells whether there are more.
StoreMaxResults(max) == IF max = Unlimited THEN StoreLimit ELSE max + 1

\* The last name answered, when there are more.
NextToken(rows, max) ==
  IF max # Unlimited /\ Len(rows) > max THEN rows[max] ELSE NoToken

Answered(rows, max) ==
  IF max # Unlimited /\ Len(rows) > max THEN SubSeq(rows, 1, max) ELSE rows

\* Mutant: a client that gives MaxResults always gets a token, after an empty page the
\* one it came with.
TokenWithEveryPage(w) ==
  LET rows == Answered(list_queues(w.prefix, StoreMaxResults(w.max), w.token), w.max)
      token == IF w.max = Unlimited THEN NoToken ELSE IF rows = <<>> THEN w.token ELSE rows[Len(rows)]
  IN  walk' = [w EXCEPT !.got = @ \o rows, !.token = token, !.done = (w.max = Unlimited)]

\* One ListQueues call, from the client's point of view.
CallListQueues(w) ==
  LET rows == list_queues(w.prefix, StoreMaxResults(w.max), w.token)
      token == NextToken(rows, w.max)
  IN  walk' = [w EXCEPT !.got = @ \o Answered(rows, w.max), !.token = token,
                        !.done = (token = NoToken)]

\* validate_list_queues_request: the MaxResults that are not refused.
PageSizes == 1..MaxPage

\* The first call.  The console asks for one page of 100.
ListQueues ==
  /\ ~walk.on
  /\ \E prefix \in PrefixSets, max \in PageSizes \union {Unlimited} :
       CallListQueues([on |-> TRUE, prefix |-> prefix, max |-> max, token |-> NoToken,
                       done |-> FALSE, got |-> <<>>, stayed |-> NamesInUse,
                       ever |-> NamesInUse])
  /\ UNCHANGED vars

\* The next call, with the token of the last answer and a MaxResults of its own.
ListMoreQueues ==
  /\ walk.on /\ ~walk.done
  /\ \E max \in PageSizes : CallListQueues([walk EXCEPT !.max = max])
  /\ UNCHANGED vars

ForgetList ==
  /\ walk.on /\ walk.done
  /\ walk' = NoWalk
  /\ UNCHANGED vars

Watched(w) ==
  IF w.on /\ ~w.done
    THEN [w EXCEPT !.stayed = @ \intersect NamesInUse', !.ever = @ \union NamesInUse']
    ELSE w

--------------------------------------------------------------------------------
ListingInit == Init /\ walk = NoWalk

ListingNext ==
  \/ Next /\ walk' = Watched(walk)
  \/ ListQueues \/ ListMoreQueues \/ ForgetList

lvars == <<vars, walk>>

ListingSpec ==
  /\ ListingInit /\ [][ListingNext]_lvars
  /\ \A h \in Handlers :
       WF_lvars(((Statement(h) /\ UNCHANGED page) \/ ConsoleReload(h)) /\ walk' = Watched(walk))
  /\ WF_lvars(ListMoreQueues)

--------------------------------------------------------------------------------
(* Properties. *)

\* When the last page has come, the client has every queue that was there all along,
\* each once and in order, and none that was not there during the walk: creations and
\* deletions between two pages, that of the token's own queue included, neither hide a
\* queue nor repeat one.  A call without MaxResults is cut at StoreLimit.
WalkComplete ==
  walk.on /\ walk.done =>
    LET cut == walk.max = Unlimited /\ Len(walk.got) = StoreLimit
        answered == {walk.got[i] : i \in DOMAIN walk.got}
    IN  /\ \A i, j \in DOMAIN walk.got : i < j => walk.got[i] < walk.got[j]
        /\ answered \subseteq walk.ever \intersect walk.prefix
        /\ walk.stayed \intersect walk.prefix \subseteq answered \/ cut

\* A walk ends, however many queues come and go meanwhile: every page moves the token on.
WalkEnds == walk.on ~> ~walk.on \/ walk.done
================================================================================
