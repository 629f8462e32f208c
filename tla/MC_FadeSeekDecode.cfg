\* lazyusf decode loop: counters, fade gains and termination.
CONSTANTS
  Variant = "usf"
  B = 2
  Lengths = {0, 1, 2, 3}
  Fades = {0, 1, 3}
  SeekTargets = {0, 1, 2, 4, 7}
  MaxSeeks = 2
  MaxPos = 10
SPECIFICATION Spec
INVARIANT TypeOK
INVARIANT CountersTrackPosition
INVARIANT FadeFollowsPosition
PROPERTY SongEnds
PROPERTY ImplementsDecodeCall
