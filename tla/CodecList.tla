------------------------------ MODULE CodecList ------------------------------
(***************************************************************************)
(* ParseCodecList() of src/src/decoder/DecoderList.cxx, which splits the   *)
(* "codecs" value of a decoder block into lower-cased codec tokens, and    *)
(* the character helpers of util/CharUtil.hxx it uses.  A string is a      *)
(* sequence of one-character strings.                                      *)
(***************************************************************************)
EXTENDS Naturals, Sequences, FiniteSets

UpperToLower ==
  [A |-> "a", B |-> "b", C |-> "c", D |-> "d", E |-> "e", F |-> "f", G |-> "g",
   H |-> "h", I |-> "i", J |-> "j", K |-> "k", L |-> "l", M |-> "m", N |-> "n",
   O |-> "o", P |-> "p", Q |-> "q", R |-> "r", S |-> "s", T |-> "t", U |-> "u",
   V |-> "v", W |-> "w", X |-> "x", Y |-> "y", Z |-> "z"]

ToLowerASCII(ch) == IF ch \in DOMAIN UpperToLower THEN UpperToLower[ch] ELSE ch

\* IsWhitespaceFast() is ch <= 0x20; the control characters a config value can hold.
IsWhitespaceFast(ch) == ch \in {" ", "\t", "\n", "\r"}

IsCodecDelimiter(ch) == ch = "," \/ IsWhitespaceFast(ch)

(* ParseCodecList(): skip a run of delimiters, then collect a run of       *)
(* non-delimiters lower-cased into a token, pushing every non-empty token. *)
(* The scan is a left fold over the characters: scan[k].tok is the token  *)
(* being collected after k characters, scan[k].done the tokens pushed.     *)

\* Mutant: a token pushed even when it is empty (no token.empty() test).
PushTokenAlways(done, tok) == Append(done, tok)

PushToken(done, tok) == IF tok = <<>> THEN done ELSE Append(done, tok)

ParseCodecList(s) ==
  LET scan[k \in 0..Len(s)] ==
        IF k = 0 THEN [done |-> <<>>, tok |-> <<>>]
        ELSE IF IsCodecDelimiter(s[k])
             THEN [done |-> PushToken(scan[k - 1].done, scan[k - 1].tok), tok |-> <<>>]
             ELSE [done |-> scan[k - 1].done,
                   tok  |-> Append(scan[k - 1].tok, ToLowerASCII(s[k]))]
  IN  PushToken(scan[Len(s)].done, scan[Len(s)].tok)

-----------------------------------------------------------------------------
(* The reference: the tokens are the maximal runs of non-delimiters, in    *)
(* the order they start, each lower-cased.                                 *)

TokenStarts(s) ==
  {i \in 1..Len(s) : ~IsCodecDelimiter(s[i]) /\ (i = 1 \/ IsCodecDelimiter(s[i - 1]))}

TokenEnd(s, i) ==
  CHOOSE j \in i..Len(s) :
     /\ \A m \in i..j : ~IsCodecDelimiter(s[m])
     /\ (j = Len(s) \/ IsCodecDelimiter(s[j + 1]))

CodecTokensRef(s) ==
  LET starts == TokenStarts(s)
      nth(n) == CHOOSE i \in starts : Cardinality({m \in starts : m < i}) = n - 1
  IN  [n \in 1..Cardinality(starts) |->
         [m \in 1..(TokenEnd(s, nth(n)) - nth(n) + 1) |-> ToLowerASCII(s[nth(n) + m - 1])]]

=============================================================================
