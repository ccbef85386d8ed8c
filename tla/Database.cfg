SPECIFICATION Spec
CONSTANTS
  Servers = {"s1", "s2"}
  Migrators = {"g1", "g2", "g3"}
  Home <- MCHome
  Versions = {1, 2, 5}
  Lists <- MCLists
INVARIANTS StartedMeansReady PartsOverDatabase MigratedExactlyOnce EarlierOnesFirst
