\* Every policy of up to three statements, and every input of the bounded sets.
CONSTANTS
  Principals <- MCPrincipals
  Actions <- MCActions
  Resources <- MCResources
  Statements <- MCStatements
  MaxStatements = 3
  PageSize = 2
  MaxAttributes = 2
  MaxEntries = 3
  MaxTags = 1
  ColonSegments = {"x:y"}
  QueueInputs <- MCQueueInputs
  UrlInputs <- MCUrlInputs
  MessageInputs <- MCMessageInputs
  BatchInputs <- MCBatchInputs
  SignedInputs <- MCSignedInputs
  CountInputs <- MCCountInputs
  PageInputs <- MCPageInputs
  OverviewInputs <- MCOverviewInputs
  TopicInputs <- MCTopicInputs
  SubscriptionInputs <- MCSubscriptionInputs
  TopicArnInputs <- MCTopicArnInputs
  TagInputs <- MCTagInputs
  PolicyArnInputs <- MCPolicyArnInputs
  TargetInputs <- MCTargetInputs
  RequestInputs <- MCRequestInputs
  FormInputs <- MCFormInputs
SPECIFICATION InputsSpec
INVARIANTS
  DenyOverrides
  QueueFoundAsMade
  MessagesReceivable
  SignatureSpeaks
  ReadsExplained
  NamesLeadBack
  
  RefusedFormsComeBack
CHECK_DEADLOCK FALSE
