\* A report on a joined channel.
CONSTANTS
  news = news  alerts = alerts
  Channels = {news}
  Commands = {"login", "join", "report"}
  MaxCommands = 3
  EventsPerFile = 1
  ServerMayDie = FALSE
SPECIFICATION Spec
INVARIANTS
  ReportsCountOnce
\* The program really ends: at the end of its input, or aborted.
CHECK_DEADLOCK FALSE
