SPECIFICATION DhtSpec
CONSTANTS
  Width = 3
  Zeros = {2}
  Ones = {5, 8}
  Quantities <- MCQuantities
  MaxNoise = 1
INVARIANTS BitsRight ReadingExact LineReleased
