\* Two clients report one file each and summarise at any time.
CONSTANTS
  c0 = c0  c1 = c1
  Clients = {c0, c1}
  Users = {"alice", "bob", "carol"}
  Channels = {"police"}
  UserOf <- Names
  SubIdOf <- Ids
  Files <- EventFiles
  Padded <- Spaces
  NameRank <- Ranks
  IntMax = 3
SPECIFICATION Spec
INVARIANTS
  TypeOK
  
  
  WholeFilesOnly
  
PROPERTIES
  SummariesGrow
