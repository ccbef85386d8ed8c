SPECIFICATION FairSpec
CONSTANTS
  Tasks = {"t1", "t2"}
  Workers = {"w1", "w2"}
  QueueCap = 1
  MaxShards = 1
  MinInterval = 1
  MaxClock = 1
INVARIANTS TypeOK StatusIsTrue
PROPERTIES RoundsApart TaskEnds WorkersExit
