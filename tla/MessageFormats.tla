---------------------------- MODULE MessageFormats ----------------------------
(***************************************************************************)
(* A message between SendMessage and ReceiveMessage: what is checked, what *)
(* is stored, what is read back and what the digests are taken of.         *)
(*                                                                         *)
(* Message attributes arrive as a hash map, that is in any order: a        *)
(* sequence of names with values.  They are stored as a JSON object with   *)
(* its names in order.  An MD5 digest is what it is computed of.           *)
(*                                                                         *)
(* A name is abstracted to its place in the order (rank) and the checks it *)
(* passes; bodies, trace headers and attribute values are a few texts.     *)
(***************************************************************************)
EXTENDS Naturals, Integers, Arranged

CONSTANTS
  MaxAttributes,     \* message attributes of a message, 10 in the code
  MaxEntries         \* entries of a batch, 10 in the code

\* No text.  An optional number or record is a sequence of at most one.
None == "none"

\* The data types the code tells apart by their first letters.
StringTypes == {"String", "String.id", "Number"}
BinaryTypes == {"Binary", "Binary.png"}

--------------------------------------------------------------------------------
(* SendMessage. *)

validate_message_attribute_name(name) ==
  /\ name.length \in 1..256
  /\ ~name.badDots
  /\ ~name.reserved
  /\ name.allowed

validate_message_attribute_value(value) ==
  \/ value.data_type \in BinaryTypes /\ value.binary_value # None
  \/ value.data_type \in StringTypes /\ value.string_value # None

validate_message_attributes(attributes) ==
  /\ Len(attributes) <= MaxAttributes
  /\ \A i \in DOMAIN attributes :
       /\ validate_message_attribute_name(attributes[i].name)
       /\ validate_message_attribute_value(attributes[i].value)

ByRank(attributes) ==
  LET I == DOMAIN attributes
  IN  Sorted(attributes,
             {p \in I \X I : attributes[p[1]].name.rank < attributes[p[2]].name.rank})

\* The binary value is base64 text: decoded before it is digested.
NotBase64 == "%"

\* Mutant: the digest is taken in the order of the hash map.
DigestUnsorted(attributes) ==
  IF \A i \in DOMAIN attributes :
       LET v == attributes[i].value IN
         IF v.data_type \in BinaryTypes THEN v.binary_value \notin {None, NotBase64}
                                        ELSE v.string_value # None
    THEN {[i \in DOMAIN attributes |->
             <<attributes[i].name, attributes[i].value.data_type,
               IF attributes[i].value.data_type \in BinaryTypes
                 THEN attributes[i].value.binary_value ELSE attributes[i].value.string_value>>]}
    ELSE {}

\* The digest, or {} when a value is missing or is not base64.
calculate_message_attributes_md5(attributes) ==
  LET sorted == ByRank(attributes)
      Text(v) == IF v.data_type \in BinaryTypes THEN v.binary_value ELSE v.string_value
  IN  IF \A i \in DOMAIN sorted : Text(sorted[i].value) # None
           /\ (sorted[i].value.data_type \in BinaryTypes => Text(sorted[i].value) # NotBase64)
        THEN {[i \in DOMAIN sorted |->
                 <<sorted[i].name, sorted[i].value.data_type, Text(sorted[i].value)>>]}
        ELSE {}

\* The handler's answer needs the digest: a value it cannot take refuses the message.
DigestsAtSend(attributes) == calculate_message_attributes_md5(attributes) # {}

\* A JSON object, in the order of its names; api tells the shape the API writes.
serialize_message_attributes(attributes) == [api |-> TRUE, attributes |-> ByRank(attributes)]

validate_message_system_attributes(trace) ==
  trace # <<>> => trace[1].data_type = "String" /\ trace[1].string_value # None

extract_aws_trace_header(trace) == IF trace = <<>> THEN None ELSE trace[1].string_value

resolve_delay_seconds(requested, queue_delay) ==
  LET delay == IF requested = <<>> THEN queue_delay ELSE requested[1]
  IN  IF delay \in 0..900 THEN {delay} ELSE {}

\* A body is abstracted to its length in bytes and whether its characters are allowed.
validate_message_body(body, maximum_message_size) ==
  /\ body.length \in 1..maximum_message_size
  /\ body.allowed

SendAccepted(message, queue) ==
  /\ validate_message_body(message.body, queue.maximum_message_size)
  /\ resolve_delay_seconds(message.delay, queue.delay_seconds) # {}
  /\ validate_message_attributes(message.attributes)
  /\ validate_message_system_attributes(message.trace)
  /\ DigestsAtSend(message.attributes)

\* The row that SendMessage, or an entry of SendMessageBatch, writes.
StoredBySend(message) ==
  [body |-> message.body, trace |-> extract_aws_trace_header(message.trace),
   attributes |-> serialize_message_attributes(message.attributes)]

--------------------------------------------------------------------------------
(* The console's form. *)

NoObject == [api |-> TRUE, attributes |-> <<>>]

\* The form's text: empty, not JSON, JSON but no object, or an object, which is stored
\* whatever is in it.  The value is the object stored, {} an error.
normalize_optional_json_object(text) ==
  CASE text.kind = "blank" -> {NoObject}
    [] text.kind = "object" -> {text.object}
    [] OTHER -> {}

\* A number, nothing, or an error.
parse_optional_i64(text, min, max) ==
  IF text = <<>> \/ text[1] \in min..max THEN {text} ELSE {}

ConsoleSendAccepted(form, queue) ==
  /\ form.body.length \in 1..queue.maximum_message_size
  /\ parse_optional_i64(form.delay, 0, 900) # {}
  /\ normalize_optional_json_object(form.attributes) # {}

StoredByConsole(form) ==
  [body |-> form.body, trace |-> form.trace,
   attributes |-> CHOOSE o \in normalize_optional_json_object(form.attributes) : TRUE]

\* What the console's message list makes of the stored attributes: it never fails.
ConsoleMessageAttributes(row) ==
  IF row.attributes.api
    THEN [attributes |-> row.attributes.attributes, has_unparsed |-> FALSE]
    ELSE [attributes |-> <<>>, has_unparsed |-> TRUE]

--------------------------------------------------------------------------------
(* ReceiveMessage. *)

\* An object of another shape is an InternalError, and the receive has leased already.
parse_message_attributes(row) ==
  IF row.attributes.api THEN {row.attributes.attributes} ELSE {}

\* A requested name is "All" (or ".*"), a name, or a prefix: the ranks it covers.
include_requested_message_attribute(name, requested) ==
  \E r \in requested : name.rank \in r

filter_message_attributes(attributes, requested) ==
  Kept(attributes, {i \in DOMAIN attributes :
                      include_requested_message_attribute(attributes[i].name, requested)})

\* The answer for one message, or {} when it cannot be made.
ReceivedMessage(row, requested) ==
  LET parsed == parse_message_attributes(row) IN
    IF parsed = {} THEN {}
    ELSE LET filtered == filter_message_attributes(CHOOSE a \in parsed : TRUE, requested)
         IN  {[body |-> row.body, trace |-> row.trace, attributes |-> filtered, md5 |-> d] :
                d \in calculate_message_attributes_md5(filtered)}

\* collect::<Result<Vec<_>, _>>: one message that cannot be answered fails them all.
ReceiveFails(rowsRead, requested) ==
  \E i \in DOMAIN rowsRead : ReceivedMessage(rowsRead[i], requested) = {}

--------------------------------------------------------------------------------
(* Batches. *)

validate_batch_request(ids) ==
  /\ \A i, j \in DOMAIN ids : ids[i] = ids[j] => i = j
  /\ Len(ids) \in 1..MaxEntries

\* An entry's id, abstracted to its length and characters.
validate_batch_entry_id(id) == id.length \in 1..80 /\ id.allowed

\* The request's validation, before any entry is tried.
BatchAccepted(ids) ==
  validate_batch_request(ids) /\ \A i \in DOMAIN ids : validate_batch_entry_id(ids[i])

\* DeleteMessageBatch (and the other batches): each entry is tried, and answered under
\* its id in one list or the other.
BatchAnswer(ids, succeeds) ==
  [successful |-> Kept(ids, {i \in DOMAIN ids : ids[i] \in succeeds}),
   failed |-> Kept(ids, {i \in DOMAIN ids : ids[i] \notin succeeds})]

--------------------------------------------------------------------------------
(* Properties. *)

AllNames(attributes) == {{attributes[i].name.rank : i \in DOMAIN attributes}}

\* A message that SendMessage accepted can be received: its stored attributes are read
\* back, whichever of them are asked for, and when all are, the digest is the one the
\* sender was given, although the sender's map had no order and the names were sorted
\* twice on the way.
AcceptedIsReceivable(message, queue, requested) ==
  SendAccepted(message, queue) =>
    LET row == StoredBySend(message)
        all == ReceivedMessage(row, AllNames(message.attributes))
    IN  /\ ReceivedMessage(row, requested) # {}
        /\ \A answer \in all :
             /\ {answer.md5} = calculate_message_attributes_md5(message.attributes)
             /\ answer.trace = extract_aws_trace_header(message.trace)

\* A receive fails on its messages only if one of them was written by the console with
\* an object that is not in the API's shape, or with a value the API would have refused;
\* the console itself shows every message.
OnlyConsoleMessagesFail(message, form, queue, requested) ==
  SendAccepted(message, queue) /\ ConsoleSendAccepted(form, queue) =>
    LET row == StoredByConsole(form)
        shown == ConsoleMessageAttributes(row)
    IN  ReceiveFails(<<StoredBySend(message), row>>, requested) =>
          \/ shown.has_unparsed
          \/ ~DigestsAtSend(filter_message_attributes(shown.attributes, requested))

\* Every id of an accepted batch is answered exactly once.
BatchAnswersOnce(ids, succeeds) ==
  BatchAccepted(ids) =>
    LET answer == BatchAnswer(ids, succeeds)
        answered == answer.successful \o answer.failed
    IN  \A i \in DOMAIN ids :
          \E k \in DOMAIN answered :
            answered[k] = ids[i] /\ \A j \in DOMAIN answered : answered[j] = ids[i] => j = k
================================================================================
