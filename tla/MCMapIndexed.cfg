SPECIFICATION MapSpec
CONSTANTS
  N = 3
  Workers = {w1, w2}
  Width = 2
  MaxForks = 1
  Behaviours <- Interrupted
  SpuriousWakes = 1
  MayInterrupt = TRUE
  Nobody = nobody
PROPERTIES ImplementsContract Terminates
CHECK_DEADLOCK FALSE
