SPECIFICATION Spec
CONSTANTS
  p = p
  q = q
  r = r
  Peers = {p, q, r}
  NoPeer = NoPeer
  MaxPaired = 2
INVARIANT BondLimit
PROPERTIES DoorForBonded TriesToAdvertise
