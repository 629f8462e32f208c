\* The time parsers on tags with a sign or leading blank.
CONSTANTS
  ULongBits = 30
  UIntBits = 28
  LengthAlphabet = {"1", "-", " ", ":"}
  MaxLengthLen = 3
SPECIFICATION Spec
INVARIANT ParsersMatchReference
