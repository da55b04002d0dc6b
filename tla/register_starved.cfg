SPECIFICATION FairSpec
CONSTANTS
  Keys <- MCKeys2
  Emails <- MCEmails
  EmailOf <- MCOneEach
  NoKey = NoKey
  Foreign = Foreign
  ForeignEmails = {}
  Handlers = {h1, h2}
  Worker = worker
  Limit = 1
  ReaderBlocks = TRUE
  MaxFaults = 0
PROPERTIES
  EventuallyInCloud
\* Once every request is answered and nothing is pending, nothing happens.
CHECK_DEADLOCK FALSE
