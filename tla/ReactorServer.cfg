\* A publisher, and a subscriber that may stall, go away.
CONSTANTS
  c0 = c0  c1 = c1
  alice = alice  bob = bob  pw1 = pw1  news = news  s1 = s1  s2 = s2
  NoUser = NoUser  NoSub = NoSub  NoConn = NoConn
  Conns = {c0, c1}
  Usernames = {alice}
  Passwords = {pw1}
  Channels = {news}
  SubIds = {s1, s2}
  Inputs <- PairInputs
  MaxFrames <- PairFrames
  Disciplined = FALSE
  MayStall = {c1}
  MayDie = {c1}
SPECIFICATION FairSpec
INVARIANTS
  TypeOK
  QueuedIsAnnounced
  AnsweredLoginEnds
PROPERTIES
  ImplementsBroker
  QueuedIsWritten
  EndedIsRemoved
