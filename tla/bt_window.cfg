SPECIFICATION SpecPeersLeave
CONSTANT MaxPrompts = 3
CHECK_DEADLOCK FALSE
INVARIANTS ConnectionKnown WindowTimed
PROPERTY LedGoesOff
