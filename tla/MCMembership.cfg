SPECIFICATION FairSpec
CONSTANTS
  Nodes = {1, 2}
  Self = 1
  Bootstrap <- Founders
  Addrs = {"", "a1", "a2", "b2"}
  Configured <- Known
  Changes <- Asked
  Handlers = {h1}
  ReadyCap = 3
  MaxLog = 3
  MaxRestarts = 1
INVARIANTS TypeOK NoStaleClient BookFollowsLog
PROPERTY AllForwarded
CHECK_DEADLOCK FALSE
