SPECIFICATION FairSpec
CONSTANTS
  c1 = c1
  c2 = c2
  Connections = {c1, c2}
  IdleTicks = 1
  Timeout = 5
  Quiet = 1
  Period = 1
  Latency = 1
  MaxCommand = 1
  MaxBroadcasts = 1
  MaxLiving = 1
  Sweeper = Sweeper
  Nobody = Nobody
INVARIANTS TypeOK LivingStayConnected NoUseAfterDelete
PROPERTY DeadAreRemoved
