\* Two clients join, leave and publish on one channel.
CONSTANTS
  c0 = c0  c1 = c1
  alice = alice  pw1 = pw1  news = news  s1 = s1  s2 = s2
  NoUser = NoUser  NoSub = NoSub  NoConn = NoConn
  Conns = {c0, c1}
  Usernames = {alice}
  Passwords = {pw1}
  Channels = {news}
  SubIds = {s1, s2}
  Inputs <- PubSubInputs
  MaxFrames <- PubSubFrames
  StopAtTerminate = TRUE
  Disciplined = FALSE
SPECIFICATION DeliverySpec
INVARIANTS
  TypeOK
  MessageIdNamesSend
  
  MessageIsAddressed
  AtMostOneStray
  ListenersGetIt
