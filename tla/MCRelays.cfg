SPECIFICATION Spec
CONSTANTS
  Relays <- MCRelayList
  Events <- MCEvents
  Trusted <- MCTrusted
  Wanted <- MCWanted
  MaxMessages = 2
  MaxRecords = 1
  MaxJobs = 2
  MaxAge = 1
  None = None
INVARIANTS AnswersAreTrue NeverResurrects
PROPERTY RequestsEnd
