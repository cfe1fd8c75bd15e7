SPECIFICATION KSpec
CONSTANTS
  Pids = {p1, p2, p3}
  NoProc = NoProc
  Boot = Boot
  BootYields = TRUE
  BASE_QUANTUM_MS <- ShortQuanta
  DEMOTION_THRESHOLD <- Thresholds
  BASE_BOOST_INTERVAL_MS = 4
  LightLoad = 1
  MediumLoad = 1
  HeavyLoad = 2
SYMMETRY PidSymmetry
INVARIANTS LockHolderStays AddressSpaceOfCurrent TimeLeft
CHECK_DEADLOCK FALSE
