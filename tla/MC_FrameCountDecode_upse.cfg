\* upse decode loop: position tracking across seeks.
CONSTANTS
  Variant = "upse"
  B = 2
  Chunks = {2, 3}
  Lengths = {0, 3, 4}
  SeekTargets = {0, 1, 5}
  MaxSeeks = 2
  MaxPos = 8
SPECIFICATION Spec
INVARIANT PlayedTracksPosition
PROPERTY ImplementsDecodeCall
