SPECIFICATION Spec
CONSTANTS
  Pids = {p1, p2, p3}
  NoProc = NoProc
  BASE_QUANTUM_MS <- Quanta
  DEMOTION_THRESHOLD <- Thresholds
  BASE_BOOST_INTERVAL_MS = 4
  LightLoad = 1
  MediumLoad = 2
  HeavyLoad = 2
SYMMETRY PidSymmetry
INVARIANTS TypeOK OnePlace DynamicsFollowLoad QueuedByPriority
PROPERTIES OnlyExitIdles NoOvertaking SharesCpu
