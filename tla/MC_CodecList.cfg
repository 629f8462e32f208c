CONSTANT MaxLen = 5
SPECIFICATION Spec
INVARIANT ParseMatchesReference
