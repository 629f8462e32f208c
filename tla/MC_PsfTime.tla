------------------------------ MODULE MC_PsfTime ------------------------------
(* Every length tag up to a few characters over a small alphabet, typed    *)
(* one character at a time.                                                *)
EXTENDS PsfTime

CONSTANTS
  LengthAlphabet, MaxLengthLen    \* characters and size of a "length" tag

VARIABLE lengthTag

Init == lengthTag = <<>>

TypeLength(c) ==
  /\ Len(lengthTag) < MaxLengthLen
  /\ lengthTag' = Append(lengthTag, c)

Clear ==
  /\ Len(lengthTag) = MaxLengthLen
  /\ lengthTag' = <<>>

Next ==
  \/ \E c \in LengthAlphabet : TypeLength(c)
  \/ Clear

Spec == Init /\ [][Next]_lengthTag

(* All four time parsers read a tag the way the documented format says:    *)
(* the one-pass segment scan of the code (with its look-ahead for a later  *)
(* ':', its three-digit fraction and padding, and the strtoul branch of   *)
(* the PSF copies) agrees with the split-at-colons reference.              *)
ParsersMatchReference ==
  /\ ParsePsfTimeMS(lengthTag) = RefTimeMS(lengthTag, TRUE, {".", ","})
  /\ GsfParsePsfTimeMS(lengthTag) = RefTimeMS(lengthTag, TRUE, {".", ","})
  /\ UpseParsePsfTimeMS(lengthTag) = RefTimeMS(lengthTag, TRUE, {".", ","})
  /\ ParseUSFTimeMS(lengthTag) = RefTimeMS(lengthTag, FALSE, {"."})
=============================================================================
