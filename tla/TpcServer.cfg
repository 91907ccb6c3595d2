\* A publisher and a client that may stall and go away.
CONSTANTS
  c0 = c0  c1 = c1  c2 = c2
  alice = alice  bob = bob  pw1 = pw1
  news = news  alerts = alerts  s1 = s1  s2 = s2
  NoUser = NoUser  NoSub = NoSub  NoConn = NoConn
  Conns = {c0, c1}
  Usernames = {alice, bob}
  Passwords = {pw1}
  Channels = {news}
  SubIds = {s1, s2}
  Inputs <- ServerInputs
  MaxFrames <- ServerFrames
  StopAtTerminate = TRUE
  Disciplined = TRUE
  MayStall = {c1}
  MayDie = {c1}
SPECIFICATION FairSpec
INVARIANTS
  TypeOK
  OnlyFinalFrameCloses
  NoGhostSession
PROPERTIES
  ImplementsBroker
  RequestsFinish
  DeadAreRemoved
