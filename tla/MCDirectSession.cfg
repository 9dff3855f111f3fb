CONSTANTS
  Restarts = 1
  Messages = 4
  Faults = 2
SPECIFICATION Spec
INVARIANTS SessionFits HonestSessions NobodyLeftWaiting DueCanHappen
PROPERTY EndsAsPromised
VIEW View
