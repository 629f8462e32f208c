\* aopsf decode loop: position tracking, clipping at the length, termination.
CONSTANTS
  Variant = "aopsf"
  B = 2
  Chunks = {2}
  Lengths = {0, 3, 4}
  SeekTargets = {0, 1, 5}
  MaxSeeks = 2
  MaxPos = 8
SPECIFICATION Spec
INVARIANT PlayedTracksPosition
INVARIANT AudioWithinLength
PROPERTY SongEnds
PROPERTY ImplementsDecodeCall
