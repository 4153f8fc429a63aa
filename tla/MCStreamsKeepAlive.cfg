CONSTANTS
  Kinds = {"progress", "a2a", "chat"}
  Capacity = 1
  MaxItems = 3
  Clients = {c1}
  Brokers = {"memory", "remote"}
  MaxFrames = 3
  MaxJobs = 2
  MaxDrops = 2
  ReplayLimit = 1
SPECIFICATION Spec
PROPERTY PingKeepsAlive
