SPECIFICATION Spec
CONSTANTS
  None = None
  home = home
  old = old
  Dashboards <- Dashboards0
  Gone <- Gone0
  Recorded <- Recorded0
  Limit = 1
  MaxEvents = 2
CHECK_DEADLOCK FALSE
INVARIANT OneRun
INVARIANT LateAnswersAreDropped
INVARIANT EndIsTheEnd
INVARIANT PageIsCurrent
PROPERTY LockComesOff
