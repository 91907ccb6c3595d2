\* A refused login, then another login.
CONSTANTS
  news = news  alerts = alerts
  Channels = {news}
  Commands = {"login"}
  MaxCommands = 2
  EventsPerFile = 1
  ServerMayDie = FALSE
SPECIFICATION Spec
INVARIANTS
  LoginNeverAborts
\* The program really ends: at the end of its input, or aborted.
CHECK_DEADLOCK FALSE
