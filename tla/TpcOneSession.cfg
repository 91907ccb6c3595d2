\* Logout and quick login of a third and second client.
CONSTANTS
  c0 = c0  c1 = c1  c2 = c2
  alice = alice  bob = bob  pw1 = pw1
  news = news  alerts = alerts  s1 = s1  s2 = s2
  NoUser = NoUser  NoSub = NoSub  NoConn = NoConn
  Conns = {c0, c1, c2}
  Usernames = {alice}
  Passwords = {pw1}
  Channels = {news}
  SubIds = {s1, s2}
  Inputs <- RaceInputs
  MaxFrames <- RaceFrames
  StopAtTerminate = TRUE
  Disciplined = TRUE
  MayStall = {}
  MayDie = {}
SPECIFICATION Spec
INVARIANTS
  OneSessionPerUser
