------------------------------- MODULE PsfTime -------------------------------
(***************************************************************************)
(* The time-tag parsers of the PSF-family plugins, which turn the "length" *)
(* and "fade" tags of a file ("3:25", "1:02.5", "200") into milliseconds,  *)
(* and the song duration the plugins derive from them.                     *)
(*                                                                         *)
(* ParsePsfTimeMS (aopsf, lazygsf, upse, three identical copies) first     *)
(* takes a value without ':', '.' and ',' as a plain integer read by       *)
(* strtoul(), milliseconds from 10000 on and seconds below; otherwise, as  *)
(* ParseUSFTimeMS (lazyusf) always does, it reads ':'-separated segments   *)
(* of decimal digits, the last of which may carry a fraction.  Results     *)
(* saturate at UINT32_MAX; 0 means "no value".                             *)
(***************************************************************************)
EXTENDS Integers, Sequences, SequencesExt

(* The widths of unsigned long / uint64_t and of unsigned / uint32_t.  The *)
(* code has 64 and 32; TLC's integers stop at 2^31, so a model gives the  *)
(* largest widths it can evaluate, above every value a short tag spells.  *)
CONSTANTS ULongBits, UIntBits

ASSUME WidthAssumption ==
  /\ ULongBits \in Nat \ {0} /\ UIntBits \in Nat \ {0}
  /\ UIntBits <= ULongBits

UINT32_MAX == 2^UIntBits - 1
U64(x) == x % 2^ULongBits   \* uint64_t / unsigned long arithmetic
U32(x) == x % 2^UIntBits    \* unsigned arithmetic

Digit == [c \in {"0","1","2","3","4","5","6","7","8","9"} |->
            CASE c = "0" -> 0 [] c = "1" -> 1 [] c = "2" -> 2 [] c = "3" -> 3
              [] c = "4" -> 4 [] c = "5" -> 5 [] c = "6" -> 6 [] c = "7" -> 7
              [] c = "8" -> 8 [] c = "9" -> 9]
IsDigit(c) == c \in DOMAIN Digit
SaturateU32(x) == IF x > UINT32_MAX THEN UINT32_MAX ELSE x

-----------------------------------------------------------------------------
(* strtoul(ts, &end, 10) on the whole value: leading white space (what   *)
(* isspace() accepts, but '\v', which a TLA+ string cannot spell), an     *)
(* optional sign, then decimal digits.  A magnitude above ULONG_MAX gives  *)
(* ULONG_MAX, whatever the sign; otherwise a '-' negates it modulo         *)
(* 2^ULongBits.  ok is FALSE when no digit was read or characters follow   *)
(* them (end == ts || *end != 0).                                          *)
ULONG_MAX == 2^ULongBits - 1
Blanks == {" ", "\t", "\n", "\r", "\f"}

\* One more digit of the magnitude; ULONG_MAX + 1 stands for "out of range".
AccumulateDigit(a, c) ==
  IF a > (ULONG_MAX - Digit[c]) \div 10 THEN ULONG_MAX + 1 ELSE a * 10 + Digit[c]

Strtoul(s) ==
  LET lead == {i \in 0..Len(s) : \A j \in 1..i : s[j] \in Blanks}
      ws == CHOOSE i \in lead : i + 1 \notin lead
      signed == ws < Len(s) /\ s[ws + 1] \in {"+", "-"}
      first == IF signed THEN ws + 2 ELSE ws + 1
      digits == SubSeq(s, first, Len(s))
      ok == digits # <<>> /\ \A i \in 1..Len(digits) : IsDigit(digits[i])
      mag == IF ok THEN FoldLeft(AccumulateDigit, 0, digits) ELSE 0
  IN [ok |-> ok,
      value |-> IF mag > ULONG_MAX THEN ULONG_MAX
                ELSE IF signed /\ s[ws + 1] = "-" THEN U64(2^ULongBits - mag)
                ELSE mag]

(* The plain-integer branch: "large integer values are usually            *)
(* milliseconds".                                                          *)
PlainIntegerMS(s) ==
  LET r == Strtoul(s)
      ms == IF r.value >= 10000 THEN r.value ELSE r.value * 1000
  IN IF r.ok THEN SaturateU32(ms) ELSE 0

(* The "while (fraction_digits < 3) segment_ms *= 10" padding of the      *)
(* milliseconds of the last segment.                                       *)
PadMSNone(ms, fd) == ms
PadMS(ms, fd) == ms * 10^(3 - fd)

(* The segment loop.  One pass over the characters: at a ':' the segment   *)
(* ends (it must hold a digit) and total_seconds = total_seconds * 60 +    *)
(* segment_seconds; a fraction separator is allowed once, and only in the  *)
(* last segment (no ':' after it: the code's colon != nullptr); digits     *)
(* after it give up to three millisecond digits; any other character, and  *)
(* any error, make the result 0.                                           *)
SegmentsMS(s, seps) ==
  LET colonAfter(k) == \E j \in (k + 1)..Len(s) : s[j] = ":"
      start == [err |-> FALSE, total |-> 0, sec |-> 0, ms |-> 0, fd |-> 0,
                digit |-> FALSE, frac |-> FALSE]
      scan[k \in 0..Len(s)] ==
        IF k = 0 THEN start
        ELSE LET st == scan[k - 1]
                 c == s[k]
             IN IF st.err THEN st
                ELSE IF c = ":"
                  THEN IF ~st.digit THEN [st EXCEPT !.err = TRUE]
                       ELSE [start EXCEPT !.total = U64(st.total * 60 + st.sec)]
                ELSE IF c \in seps
                  THEN IF st.frac \/ colonAfter(k) THEN [st EXCEPT !.err = TRUE]
                       ELSE [st EXCEPT !.frac = TRUE]
                ELSE IF ~IsDigit(c) THEN [st EXCEPT !.err = TRUE]
                ELSE IF ~st.frac
                  THEN [st EXCEPT !.digit = TRUE, !.sec = U64(st.sec * 10 + Digit[c])]
                ELSE IF st.fd < 3
                  THEN [st EXCEPT !.digit = TRUE, !.ms = U64(st.ms * 10 + Digit[c]),
                                  !.fd = st.fd + 1]
                ELSE [st EXCEPT !.digit = TRUE]
      last == scan[Len(s)]
      ms == PadMS(last.ms, last.fd)
      total == U64(last.total * 60 + last.sec)
  IN IF last.err \/ ~last.digit THEN 0
     ELSE SaturateU32(U64(total * 1000 + ms))

\* ParsePsfTimeMS of AopsfDecoderPlugin.cxx.
ParsePsfTimeMS(s) ==
  IF s = <<>> THEN 0
  ELSE IF \A i \in 1..Len(s) : s[i] \notin {":", ".", ","}
  THEN PlainIntegerMS(s)
  ELSE SegmentsMS(s, {".", ","})

\* ParsePsfTimeMS of LazygsfDecoderPlugin.cxx, a copy of the aopsf one.
GsfParsePsfTimeMS(s) == ParsePsfTimeMS(s)

\* ParsePsfTimeMS of UpseDecoderPlugin.cxx, a copy of the aopsf one.
UpseParsePsfTimeMS(s) == ParsePsfTimeMS(s)

\* ParseUSFTimeMS of LazyusfDecoderPlugin.cxx: segments only, '.' only.
ParseUSFTimeMS(s) ==
  IF s = <<>> THEN 0 ELSE SegmentsMS(s, {"."})

-----------------------------------------------------------------------------
(* The duration announced for a song with a length tag: length_ms +        *)
(* fade_ms in unsigned (32-bit) arithmetic (GetPsfDurationMS; the          *)
(* OnDuration / Ready arguments of lazyusf and lazygsf).                   *)
PsfDurationMS(lengthMs, fadeMs) ==
  IF lengthMs > 0 THEN U32(lengthMs + fadeMs) ELSE 0

-----------------------------------------------------------------------------
(* Reference: the documented tag format, stated on the split of the value  *)
(* at its colons.  [[h:]m:]s[.fff] -- every segment decimal digits, the    *)
(* last one possibly with a fraction whose first three digits are         *)
(* milliseconds -- or, for the PSF parsers, a bare integer (milliseconds   *)
(* from 10000 on).  Anything else is "no value".                           *)
Num(ds) == FoldLeft(LAMBDA a, c : a * 10 + Digit[c], 0, ds)
AllDigits(ds) == \A i \in 1..Len(ds) : IsDigit(ds[i])

Segments(s) ==
  LET cuts == SetToSortSeq({i \in 1..Len(s) : s[i] = ":"} \cup {0, Len(s) + 1},
                           LAMBDA a, b : a < b)
  IN [k \in 1..(Len(cuts) - 1) |-> SubSeq(s, cuts[k] + 1, cuts[k + 1] - 1)]

\* The last segment as whole seconds and fraction digits.
SplitLast(seg, seps) ==
  IF \E i \in 1..Len(seg) : seg[i] \in seps
  THEN LET i == CHOOSE i \in 1..Len(seg) : seg[i] \in seps
       IN [int |-> SubSeq(seg, 1, i - 1), frac |-> SubSeq(seg, i + 1, Len(seg))]
  ELSE [int |-> seg, frac |-> <<>>]

RefSegmentsMS(s, seps) ==
  LET segs == Segments(s)
      n == Len(segs)
      lastPart == SplitLast(segs[n], seps)
      wellFormed ==
        /\ \A k \in 1..(n - 1) : segs[k] # <<>> /\ AllDigits(segs[k])
        /\ AllDigits(lastPart.int) /\ AllDigits(lastPart.frac)
        /\ lastPart.int \o lastPart.frac # <<>>
      seconds == FoldLeft(LAMBDA a, seg : a * 60 + Num(seg), 0,
                          SubSeq(segs, 1, n - 1) \o <<lastPart.int>>)
      f3 == SubSeq(lastPart.frac \o <<"0", "0", "0">>, 1, 3)
  IN IF wellFormed THEN SaturateU32(seconds * 1000 + Num(f3)) ELSE 0

RefTimeMS(s, plain, seps) ==
  IF s = <<>> THEN 0
  ELSE IF plain /\ \A i \in 1..Len(s) : s[i] \notin {":", ".", ","}
  THEN IF AllDigits(s)
       THEN SaturateU32(IF Num(s) >= 10000 THEN Num(s) ELSE Num(s) * 1000)
       ELSE 0
  ELSE RefSegmentsMS(s, seps)
=============================================================================
