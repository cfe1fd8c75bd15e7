SPECIFICATION KSpec
CONSTANTS
  Pids = {p1, p2, p3}
  NoProc = NoProc
  Boot = Boot
  BootYields = TRUE
  BASE_QUANTUM_MS <- ShortQuanta
  DEMOTION_THRESHOLD <- Thresholds
  BASE_BOOST_INTERVAL_MS = 4
  LightLoad = 2
  MediumLoad = 5
  HeavyLoad = 10
SYMMETRY PidSymmetry
INVARIANT ExecutesCurrent
CHECK_DEADLOCK FALSE
