\* One client that logs in and reports to a channel it has not joined.
CONSTANTS
  c0 = c0  c1 = c1
  alice = alice  bob = bob  pw1 = pw1  news = news  s1 = s1  s2 = s2
  NoUser = NoUser  NoSub = NoSub  NoConn = NoConn
  Conns = {c0}
  Usernames = {alice}
  Passwords = {pw1}
  Channels = {news}
  SubIds = {s1}
  Inputs <- RefusedInputs
  MaxFrames <- RefusedFrames
  Disciplined = FALSE
  MayStall = {}
  MayDie = {}
SPECIFICATION Spec
INVARIANTS
  FinalFrameIsWritten
