\* Any five commands, on two channels, with a server that may go away.
CONSTANTS
  news = news  alerts = alerts
  Channels = {news, alerts}
  Commands = {"login", "join", "exit", "report", "logout", "eof"}
  MaxCommands = 5
  EventsPerFile = 2
  ServerMayDie = TRUE
SPECIFICATION Spec
INVARIANTS
  TypeOK
  
  SubscriptionsAgree
  LogoutThenLogin
PROPERTIES
  CommandsReturn
\* The program really ends: at the end of its input, or aborted.
CHECK_DEADLOCK FALSE
