\* Two clients log in to one account, one of them joins a channel, and both
\* leave in every way.
CONSTANTS
  c0 = c0  c1 = c1
  alice = alice  pw1 = pw1  pw2 = pw2  news = news  s1 = s1
  NoUser = NoUser  NoSub = NoSub  NoConn = NoConn
  Conns = {c0, c1}
  Usernames = {alice}
  Passwords = {pw1, pw2}
  Channels = {news}
  SubIds = {s1}
  Inputs <- SessionInputs
  MaxFrames <- SessionFrames
  StopAtTerminate = TRUE
  Disciplined = FALSE
SPECIFICATION Spec
INVARIANTS
  FinalReplyMeansForgotten
  ConnectedKnowsPassword
PROPERTIES
  AccountsChangeHandsOffline
