SPECIFICATION Spec
CONSTANTS
  Window = 2
  MaxTriggers = 3
  MaxPresses = 2
INVARIANTS PulsesAskedFor ClearsAskedFor
PROPERTIES DoorReleased RequestAnswered
