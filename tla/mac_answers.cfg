SPECIFICATION Spec
CONSTANTS
  FOptsMax = 9
  UserCids <- MCUserCids
  Downlinks <- MCDownlinks
INVARIANT AnswersAvailable
