SPECIFICATION FairSpec
CONSTANTS
  Keys <- MCKeys
  Emails <- MCEmails
  EmailOf <- MCResubmitted
  NoKey = NoKey
  Foreign = Foreign
  ForeignEmails = {"b"}
  Handlers = {h1, h2}
  Worker = worker
  Limit = 2
  ReaderBlocks = TRUE
  MaxFaults = 2
INVARIANTS
  RegisterTypeOK
  SyncedIsInCloud
  KeyAnswersForItsRow
  AcknowledgedIsKept
PROPERTIES
  RegistrationHolds
  EventuallyInCloud
\* Once every request is answered and nothing is pending, nothing happens.
CHECK_DEADLOCK FALSE
