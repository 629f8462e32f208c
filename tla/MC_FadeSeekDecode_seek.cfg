\* lazyusf decode loop: a SEEK returned with the buffer that ends the fade.
CONSTANTS
  Variant = "usf"
  B = 2
  Lengths = {3}
  Fades = {1}
  SeekTargets = {0, 2}
  MaxSeeks = 2
  MaxPos = 10
SPECIFICATION Spec
INVARIANT SeekAnswered
