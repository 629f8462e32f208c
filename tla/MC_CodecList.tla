----------------------------- MODULE MC_CodecList -----------------------------
(***************************************************************************)
(* ParseCodecList() on every "codecs" value of up to MaxLen characters     *)
(* over an alphabet with a lower-case and an upper-case form of one       *)
(* letter, a second letter, a comma, a space and a tab.  The value is      *)
(* typed one character at a time and cleared when full, so that every     *)
(* string of the bounded set is a reachable state.                         *)
(***************************************************************************)
EXTENDS CodecList

CONSTANT MaxLen

Alphabet == {"a", "A", "b", ",", " ", "\t"}

VARIABLE input

Init == input = <<>>

Type(c) == Len(input) < MaxLen /\ input' = Append(input, c)

Clear == Len(input) = MaxLen /\ input' = <<>>

Next == (\E c \in Alphabet : Type(c)) \/ Clear

Spec == Init /\ [][Next]_input

\* ParseCodecList() returns exactly the maximal runs of non-delimiters of
\* the value, lower-cased, in order: delimiter runs collapse, leading and
\* trailing delimiters are ignored and no token is empty (spec 4.2 step 5).
ParseMatchesReference == ParseCodecList(input) = CodecTokensRef(input)
=============================================================================
