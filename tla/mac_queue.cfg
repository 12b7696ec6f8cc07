SPECIFICATION Spec
CONSTANTS
  FOptsMax = 9
  UserCids <- MCUserCids
  Downlinks <- MCDownlinks
INVARIANTS TypeOK QueuesWhole RequestedOnce LeadingAnswersAvailable
PROPERTY UnansweredKeepsLead
