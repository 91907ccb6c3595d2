\* A subscriber goes away while it joins a second channel.
CONSTANTS
  c0 = c0  c1 = c1  c2 = c2
  alice = alice  bob = bob  pw1 = pw1
  news = news  alerts = alerts  s1 = s1  s2 = s2
  NoUser = NoUser  NoSub = NoSub  NoConn = NoConn
  Conns = {c0, c1}
  Usernames = {alice, bob}
  Passwords = {pw1}
  Channels = {news, alerts}
  SubIds = {s1, s2}
  Inputs <- JoiningInputs
  MaxFrames <- ServerFrames
  StopAtTerminate = TRUE
  Disciplined = TRUE
  MayStall = {}
  MayDie = {c1}
SPECIFICATION Spec
INVARIANTS
  NoGhostSubscription
