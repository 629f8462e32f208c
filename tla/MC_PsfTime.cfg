\* The time parsers against the reference, on every tag of up to 5 characters.
CONSTANTS
  ULongBits = 30
  UIntBits = 28
  LengthAlphabet = {"0", "1", "9", ":", ".", ","}
  MaxLengthLen = 5
SPECIFICATION Spec
INVARIANT ParsersMatchReference
