SPECIFICATION Spec
CONSTANTS
  h0 = h0
  h1 = h1
  s0 = s0
  s1 = s1
  c0 = c0
  once = once
  other = other
  third = third
  act = act
  Hosts = {h0, h1}
  Bursts = {s1}
  Commands = {c0}
  Owner <- MCOwner
  Triggered = {once, other, third}
  Activated = {act}
  Host <- MCHost
  Once = {once, act}
  MaxEvents = 2
  MaxInstrs = 3
  MaxMoves = 1
  TurnLimit = 2
INVARIANTS OncePerTurn ResolvingIsOwned
PROPERTIES NoTriggerLost StartsInOrder EffectsSettle
CHECK_DEADLOCK FALSE
