\* Two clients, a publisher, and three names for a table of two.
SPECIFICATION FairSpec
CONSTANTS
  Clients = {c1, c2}
  MaxClients = 2
  MaxVars = 2
  Seeds <- SeedStatus
  Names = {"ups.status", "x", "y"}
  Values = {"OL"}
  RxRoom = 2
  Drift = 1
  Users = {"a"}
  Passwords = {"p"}
  NoOne = NoOne
  Accepted <- GoodLogin
INVARIANTS
  TypeOK
  ListingIsSnapshot
  CountExact
PROPERTIES
  PublisherGetsIn
