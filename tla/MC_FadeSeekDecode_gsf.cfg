\* lazygsf decode loop, with and without a fade: the buffer in which the
\* body ends.
CONSTANTS
  Variant = "gsf"
  B = 2
  Lengths = {1, 3}
  Fades = {0, 3}
  SeekTargets = {0, 1, 2, 4, 7}
  MaxSeeks = 2
  MaxPos = 10
SPECIFICATION Spec
INVARIANT FadeFollowsPosition
