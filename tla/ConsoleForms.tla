----------------------------- MODULE ConsoleForms -----------------------------
(***************************************************************************)
(* The forms of the web console that are typed into.  A form that is       *)
(* refused comes back through a redirect: what was typed travels in the    *)
(* query string, unless the redirect leaves it out, and the page fills the *)
(* form from it.  (Buttons, and choices from a list of what there is, are  *)
(* not forms here.)                                                        *)
(*                                                                         *)
(* A text is its characters and whether there are blanks around them.  A   *)
(* URL is a path and a sequence of parameters; encoding and decoding a     *)
(* parameter give the same text again.                                     *)
(***************************************************************************)
EXTENDS Naturals, Arranged
LOCAL INSTANCE SequencesExt

Typed(core) == [core |-> core, padded |-> FALSE]
Padded(core) == [core |-> core, padded |-> TRUE]
\* no characters: an empty text, or blanks only
NoText == "nothing"
Empty == Typed(NoText)

trim(text) == [text EXCEPT !.padded = FALSE]

--------------------------------------------------------------------------------
(* The forms: the page a refusal leads back to, its parameters before those of the form, *)
(* the parameter of the message, and per field its parameter, how the redirect carries   *)
(* it, whether it must not be empty, and what the page shows when there is no such       *)
(* parameter.  A scoped form returns to the page it was on.                              *)

Field(param, how, required, default) ==
  [param |-> param, how |-> how, required |-> required, default |-> default]

On == Typed("on")

\* What the redirect carries of a text: it is trimmed, a checkbox that is on or not, left
\* out, or as it was typed.
CarriedText(how, text) ==
  CASE how = "trimmed" -> trim(text)
    [] how = "checkbox" -> IF trim(text) = On THEN On ELSE Empty
    [] how = "left_out" -> Empty
    [] how = "as_typed" -> text

\* region and account_id of the page itself
PageRegion == [core |-> "region", padded |-> FALSE]
PageAccount == [core |-> "account_id", padded |-> FALSE]

DefaultDocument == Typed("allow everything")   \* default_policy_document
StoredDocument == Typed("stored document")     \* the policy's pretty_document

Scoped == {"create_queue", "create_topic"}

CreateQueueForm ==
  [page |-> "/sqs/queues", before |-> <<>>, error |-> "create_error", fields |->
     <<Field("create_queue_name", "trimmed", TRUE, Empty),
       Field("create_queue_type", "trimmed", FALSE, Typed("standard")),
       Field("create_region", "trimmed", TRUE, PageRegion),
       Field("create_account_id", "trimmed", TRUE, PageAccount)>>]

CreateTopicForm ==
  [page |-> "/sns/topics", before |-> <<>>, error |-> "create_error", fields |->
     <<Field("create_topic_name", "trimmed", TRUE, Empty),
       Field("create_region", "trimmed", TRUE, PageRegion),
       Field("create_account_id", "trimmed", TRUE, PageAccount),
       Field("create_display_name", "trimmed", FALSE, Empty)>>]

CreateSubscriptionForm ==
  [page |-> "/sns/topics/1", before |-> <<>>, error |-> "subscription_error", fields |->
     <<Field("subscription_protocol", "trimmed", TRUE, Empty),
       Field("subscription_endpoint", "trimmed", TRUE, Empty),
       Field("subscription_raw_message_delivery", "checkbox", FALSE, Empty)>>]

PublishMessageForm ==
  [page |-> "/sns/topics/1", before |-> <<>>, error |-> "publish_error", fields |->
     <<Field("publish_message", "trimmed", TRUE, Empty),
       Field("publish_subject", "trimmed", FALSE, Empty)>>]

TagQueueForm ==
  [page |-> "/sqs/queues/1",
   before |-> << <<"message_limit", Typed("50")>>, <<"tags_open", Typed("1")>> >>,
   error |-> "tag_error", fields |->
     <<Field("tag_key", "trimmed", TRUE, Empty), Field("tag_value", "as_typed", FALSE, Empty)>>]

SendMessageForm ==
  [page |-> "/sqs/queues/1", before |-> << <<"message_limit", Typed("50")>> >>,
   error |-> "send_error", fields |->
     <<Field("message_body", "left_out", TRUE, Empty),
       Field("message_attributes_json", "left_out", FALSE, Empty)>>]

CreateAccessKeyForm ==
  [page |-> "/iam/principals/1", before |-> <<>>, error |-> "access_key_error", fields |->
     <<Field("key_id", "left_out", FALSE, Empty), Field("secret_key", "left_out", FALSE, Empty)>>]

TagTopicForm ==
  [page |-> "/sns/topics/1", before |-> << <<"tags_open", Typed("1")>> >>,
   error |-> "tag_error", fields |->
     <<Field("tag_key", "trimmed", TRUE, Empty), Field("tag_value", "as_typed", FALSE, Empty)>>]

CreatePrincipalForm ==
  [page |-> "/iam", before |-> <<>>, error |-> "create_error", fields |->
     <<Field("create_account_id", "trimmed", TRUE, Typed("000000000000")),
       Field("create_kind", "trimmed", FALSE, Typed("user")),
       Field("create_name", "trimmed", TRUE, Empty),
       Field("create_path", "trimmed", FALSE, Typed("/"))>>]

PutInlinePolicyForm ==
  [page |-> "/iam/principals/1", before |-> << <<"policy_open", Typed("1")>> >>,
   error |-> "policy_error", fields |->
     <<Field("policy_name", "trimmed", TRUE, Empty),
       Field("policy_document", "as_typed", TRUE, DefaultDocument)>>]

CreateManagedPolicyForm ==
  [page |-> "/iam", before |-> <<>>, error |-> "policy_error", fields |->
     <<Field("policy_account_id", "trimmed", TRUE, Typed("000000000000")),
       Field("policy_name", "trimmed", TRUE, Empty),
       Field("policy_path", "trimmed", FALSE, Typed("/")),
       Field("policy_document", "as_typed", TRUE, DefaultDocument)>>]

UpdateManagedPolicyForm ==
  [page |-> "/iam/policies/1", before |-> << <<"policy_open", Typed("1")>> >>,
   error |-> "policy_error", fields |->
     <<Field("policy_document", "as_typed", TRUE, StoredDocument)>>]

Forms ==
  [create_queue |-> CreateQueueForm,
   create_topic |-> CreateTopicForm,
   create_subscription |-> CreateSubscriptionForm,
   publish_message |-> PublishMessageForm,
   tag_queue |-> TagQueueForm,
   send_message |-> SendMessageForm,
   create_access_key |-> CreateAccessKeyForm,
   tag_topic |-> TagTopicForm,
   create_principal |-> CreatePrincipalForm,
   put_inline_policy |-> PutInlinePolicyForm,
   create_managed_policy |-> CreateManagedPolicyForm,
   update_managed_policy |-> UpdateManagedPolicyForm]

\* The forms whose redirect carries nothing but the message.
Forgetful == {"send_message", "create_access_key"}

\* Where a scoped form may be: the dashboard, the list, and what lies below it.
OwnPaths(form) ==
  IF form = "create_queue" THEN {"/sqs", "/sqs/queues", "/sqs/queues/1"}
  ELSE {"/sns", "/sns/topics", "/sns/topics/1"}

\* Where a form leads when it is done: to what was made, or back.
DonePage(form) ==
  CASE form = "create_queue" -> "/sqs/queues/1"
    [] form = "create_topic" -> "/sns/topics/1"
    [] form = "create_principal" -> "/iam/principals/1"
    [] form = "create_managed_policy" -> "/iam/policies/1"
    [] OTHER -> Forms[form].page

\* Fields with a fixed choice of values: the page shows the default for any other.
FixedValues == [create_queue_type |-> {"standard", "fifo"}, create_kind |-> {"user", "role"}]

--------------------------------------------------------------------------------
(* URLs. *)

\* A parameter that is empty is left out.
append_query_params(url, params) ==
  [path |-> url.path, params |-> url.params \o Kept(params, {i \in DOMAIN params : params[i][2] # Empty})]

\* An address of the same service, or else the form's own page.
safe_return_to(form, return_to) ==
  IF return_to # <<>> /\ return_to[1].path \in OwnPaths(form)
    THEN return_to[1]
    ELSE [path |-> Forms[form].page, params |-> <<>>]

\* Query<...Params>: {} when a parameter is there twice.
QueryParams(url) ==
  LET names == {url.params[i][1] : i \in DOMAIN url.params}
  IN  IF \E i, j \in DOMAIN url.params : i # j /\ url.params[i][1] = url.params[j][1] THEN {}
      ELSE {[n \in names |-> url.params[CHOOSE i \in DOMAIN url.params : url.params[i][1] = n][2]]}

ValueOr(params, name, default) == IF name \in DOMAIN params THEN params[name] ELSE default

\* region, account_id and prefix of a list page
ScopeOf(params) ==
  [region |-> ValueOr(params, "region", Typed("us-east-1")),
   account_id |-> ValueOr(params, "account_id", Typed("000000000000")),
   prefix |-> ValueOr(params, "prefix", Empty)]

\* Mutant: the page as it was asked for, messages included.
WholePage(path, params) ==
  [path |-> path, params |-> SetToSeq({<<n, params[n]>> : n \in DOMAIN params})]

\* The address of a page without its messages.
scoped_page_path(path, params) ==
  append_query_params([path |-> path, params |-> <<>>],
                      << <<"region", ScopeOf(params).region>>,
                         <<"account_id", ScopeOf(params).account_id>>,
                         <<"prefix", ScopeOf(params).prefix>> >>)

--------------------------------------------------------------------------------
(* A page, and a form that is sent from it. *)

\* What the page shows in a field of the form.
ShownField(field, params) ==
  LET default == CASE field.default = PageRegion -> ScopeOf(params).region
                   [] field.default = PageAccount -> ScopeOf(params).account_id
                   [] OTHER -> field.default
      given == ValueOr(params, field.param, Empty)
  IN  IF given = Empty \/ (field.param \in DOMAIN FixedValues
                           /\ given.core \notin FixedValues[field.param])
        THEN default
        ELSE given

\* The page: {} stands for a Bad Request.
PageOf(form, url) ==
  {[path |-> url.path, scope |-> ScopeOf(params),
    return_to |-> scoped_page_path(url.path, params),
    error |-> ValueOr(params, Forms[form].error, Empty),
    fields |-> [i \in DOMAIN Forms[form].fields |-> ShownField(Forms[form].fields[i], params)],
    feedback |-> ValueOr(params, "feedback", Empty)] : params \in QueryParams(url)}

\* validate_required of the fields in turn, and the choices; conflict stands for what the
\* store, the document, the number or the name may have against the rest.  The body of a
\* message may be blank.
Refused(form, typed, conflict) ==
  \/ conflict
  \/ \E i \in DOMAIN typed :
       LET field == Forms[form].fields[i]
       IN  \/ field.required /\ (IF form = "send_message" THEN typed[i] ELSE trim(typed[i])) = Empty
           \/ /\ field.param \in DOMAIN FixedValues
              /\ trim(typed[i]).core \notin FixedValues[field.param]

\* Where the browser is sent when the form is refused ...
ErrorRedirect(form, typed, return_to) ==
  LET fields == Forms[form].fields
      base == IF form \in Scoped THEN safe_return_to(form, return_to)
              ELSE [path |-> Forms[form].page, params |-> Forms[form].before]
  IN  append_query_params(base,
        << <<Forms[form].error, Typed("refused")>> >> \o
        [i \in DOMAIN fields |->
           <<fields[i].param, CarriedText(fields[i].how, typed[i])>>])

\* ... and when it is done.
feedback_redirect(form) ==
  append_query_params([path |-> DonePage(form),
                       params |-> IF form = "update_managed_policy" THEN <<>> ELSE Forms[form].before],
                      << <<"feedback_kind", Typed("success")>>, <<"feedback", Typed("done")>> >>)

\* A form that is sent from a page, with what was typed into its fields: the next page.
Submit(form, page, typed, conflict) ==
  PageOf(form, IF Refused(form, typed, conflict)
                 THEN ErrorRedirect(form, typed, <<page.return_to>>)
                 ELSE feedback_redirect(form))

--------------------------------------------------------------------------------
(* Properties. *)

\* What was typed, as the form comes back with it: without the blanks around it (but for
\* values and documents), and what was left empty, or was none of the choices, as on a
\* fresh form - a policy document that was emptied comes back as the one that allows
\* everything.  Of a message that is to be sent, and of an access key, nothing comes back.
ComesBack(form, page, typed) ==
  [i \in DOMAIN typed |->
     LET field == Forms[form].fields[i]
         text == CASE form \in Forgetful -> Empty
                   [] form \notin Forgetful /\ field.how = "checkbox" ->
                        IF trim(typed[i]) = On THEN On ELSE Empty
                   [] form \notin Forgetful /\ field.how = "as_typed" -> typed[i]
                   [] OTHER -> trim(typed[i])
         kept == /\ text # Empty
                 /\ field.param \in DOMAIN FixedValues => text.core \in FixedValues[field.param]
     IN  CASE kept -> text
           [] ~kept /\ field.default = PageRegion -> page.scope.region
           [] ~kept /\ field.default = PageAccount -> page.scope.account_id
           [] OTHER -> field.default]

\* A form that is refused, and refused again, comes back each time with the message, what
\* was typed the last time, and the page (region, account, prefix) it was on, whatever the
\* redirect before carried; one that is done shows no message of an earlier refusal.
\* send_message_error_redirect and access_key_error_redirect carry only the message: those
\* two forms come back empty, and what was typed is lost.
\* (A region or an account that was emptied in the address comes back as the default.)
FormsComeBack(form, url, first, second, conflict) ==
  \A start \in PageOf(form, url) :
    LET whole(scope) == scope.region # Empty /\ scope.account_id # Empty
        Good(before, typed, after) ==
          IF Refused(form, typed, conflict)
            THEN /\ after # {}
                 /\ \A page \in after :
                      /\ page.error # Empty /\ page.feedback = Empty
                      /\ form \in Scoped /\ whole(before.scope) => page.scope = before.scope
                      /\ page.fields = ComesBack(form, page, typed)
            ELSE after # {} /\ \A page \in after : page.error = Empty
        next == Submit(form, start, first, conflict)
    IN  /\ Good(start, first, next)
        /\ Refused(form, first, conflict) =>
             \A page \in next : Good(page, second, Submit(form, page, second, conflict))
================================================================================
