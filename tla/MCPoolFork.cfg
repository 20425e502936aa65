SPECIFICATION FewForksSpec
CONSTANTS
  N = 3
  Workers = {w1, w2, w3}
  Width = 2
  MaxForks = 1
  Behaviours <- Mixed
  SpuriousWakes = 1
  MayInterrupt = TRUE
  Nobody = nobody
SYMMETRY Symmetry
INVARIANTS TypeOK ForkComplete LowerTasksFinish DirtyScratchIsNeverReported NoLostWakeup
CHECK_DEADLOCK FALSE
