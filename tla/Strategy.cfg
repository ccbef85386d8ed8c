SPECIFICATION Spec
CONSTANTS
  Nodes = {n1, n2, n3, n4}
  Metrics <- MCMetrics
  Strategies = {"weighted", "capacity", "access", "composite"}
  CapacityThreshold = 0
  AccessThreshold = 5
SYMMETRY NodeSymmetry
INVARIANTS PlansDisjoint SourceHeavier NeverOvershoots NeverPanics
