-------------------------- MODULE CodecList_proofs --------------------------
(***************************************************************************)
(* Proofs about ParseCodecList() of DecoderList.cxx: for every "codecs"    *)
(* value, the tokens it pushes are the maximal runs of non-delimiters of  *)
(* the value, lower-cased, in order.  The character loop is a recursive   *)
(* function over the prefix length; what it has built after k characters *)
(* is shown by a least-counterexample argument (NatMin).                  *)
(***************************************************************************)
EXTENDS MC_CodecList, LeastElement, FiniteSetTheorems, TLAPS

-----------------------------------------------------------------------------
(* The character loop of ParseCodecList(): step k reads the k-th          *)
(* character, given the function g of the states after fewer characters.  *)
ScanStep(s, g, k) ==
  IF k = 0 THEN [done |-> <<>>, tok |-> <<>>]
  ELSE IF IsCodecDelimiter(s[k])
       THEN [done |-> PushToken(g[k - 1].done, g[k - 1].tok), tok |-> <<>>]
       ELSE [done |-> g[k - 1].done,
             tok  |-> Append(g[k - 1].tok, ToLowerASCII(s[k]))]

\* The function the LET of ParseCodecList defines.
ScanFold(s) ==
  CHOOSE scan : scan = [k \in 0..Len(s) |->
                          IF k = 0 THEN [done |-> <<>>, tok |-> <<>>]
                          ELSE IF IsCodecDelimiter(s[k])
                               THEN [done |-> PushToken(scan[k - 1].done, scan[k - 1].tok), tok |-> <<>>]
                               ELSE [done |-> scan[k - 1].done,
                                     tok  |-> Append(scan[k - 1].tok, ToLowerASCII(s[k]))]]

\* g is the loop's function on the prefix lengths 0..m.
ScanUpTo(s, g, m) == g = [k \in 0..m |-> ScanStep(s, g, k)]

\* The parse is the last token pushed onto the loop's final state.
LEMMA ParseIsFold ==
  ASSUME NEW s
  PROVE  ParseCodecList(s) = PushToken(ScanFold(s)[Len(s)].done, ScanFold(s)[Len(s)].tok)
  BY Zenon DEF ParseCodecList, ScanFold

\* The loop's function exists on every prefix 0..m of the value.
LEMMA ScanExists ==
  ASSUME NEW C, NEW s \in Seq(C)
  PROVE  \E g : ScanUpTo(s, g, Len(s))
  <1> DEFINE Bad == {m \in 0..Len(s) : ~\E g : ScanUpTo(s, g, m)}
  <1>0. Len(s) \in Nat
    OBVIOUS
  <1>1. SUFFICES ASSUME Bad # {} PROVE FALSE
    <2>1. Len(s) \in 0..Len(s)
      BY <1>0
    <2>2. QED
      BY <2>1
  <1>2. PICK m \in Bad : \A y \in Bad : m <= y
    <2>1. Bad \in SUBSET Nat
      BY <1>0
    <2>2. QED
      BY <1>1, <2>1, NatMin
  <1>3. m \in 0..Len(s) /\ ~\E g : ScanUpTo(s, g, m)
    BY <1>2
  <1>4. CASE m = 0
    <2>1. ScanUpTo(s, [k \in 0..0 |-> [done |-> <<>>, tok |-> <<>>]], 0)
      BY DEF ScanUpTo, ScanStep
    <2>2. QED
      BY <1>3, <1>4, <2>1
  <1>5. CASE m # 0
    <2>1. m - 1 \in 0..Len(s)
      BY <1>0, <1>3, <1>5
    <2>2. m - 1 \notin Bad
      <3>1. SUFFICES ASSUME m - 1 \in Bad PROVE FALSE
        OBVIOUS
      <3>2. m <= m - 1
        BY <3>1, <1>2
      <3>3. QED
        BY <3>2, <1>3
    <2>3. PICK g0 : ScanUpTo(s, g0, m - 1)
      BY <2>1, <2>2
    <2>4. PICK g : g = [k \in 0..m |-> IF k < m THEN g0[k] ELSE ScanStep(s, g0, m)]
      OBVIOUS
    <2>5. \A k \in 0..m : ScanStep(s, g, k) = ScanStep(s, g0, k)
      <3>1. \A k \in 0..(m - 1) : g[k] = g0[k]
        BY <1>3, <2>4
      <3>2. \A k \in 1..m : g[k - 1] = g0[k - 1]
        BY <1>3, <3>1
      <3> SUFFICES ASSUME NEW k \in 0..m PROVE ScanStep(s, g, k) = ScanStep(s, g0, k)
        OBVIOUS
      <3>3. CASE k = 0
        BY <3>3 DEF ScanStep
      <3>4. CASE k # 0
        <4>1. g[k - 1] = g0[k - 1]
          BY <3>2, <3>4
        <4>2. QED
          BY <4>1, <3>4, Zenon DEF ScanStep
      <3>5. QED
        BY <3>3, <3>4
    <2>6. \A k \in 0..m : g[k] = ScanStep(s, g0, k)
      <3> SUFFICES ASSUME NEW k \in 0..m PROVE g[k] = ScanStep(s, g0, k)
        OBVIOUS
      <3>1. CASE k < m
        <4>1. k \in 0..(m - 1) /\ g[k] = g0[k]
          BY <1>3, <2>4, <3>1
        <4>2. g0[k] = ScanStep(s, g0, k)
          BY <4>1, <2>3 DEF ScanUpTo
        <4>3. QED
          BY <4>1, <4>2
      <3>2. CASE k = m
        BY <1>3, <2>4, <3>2
      <3>3. QED
        BY <1>3, <3>1, <3>2
    <2>7. ScanUpTo(s, g, m)
      BY <2>4, <2>5, <2>6 DEF ScanUpTo
    <2>8. QED
      BY <1>3, <2>7
  <1>6. QED
    BY <1>4, <1>5

\* So ScanFold satisfies the loop's recursion on all of 0..Len(s).
LEMMA ScanEquation ==
  ASSUME NEW C, NEW s \in Seq(C)
  PROVE  ScanUpTo(s, ScanFold(s), Len(s))
  <1>1. PICK g : ScanUpTo(s, g, Len(s))
    BY ScanExists
  <1>2. \E scan : scan = [k \in 0..Len(s) |->
                          IF k = 0 THEN [done |-> <<>>, tok |-> <<>>]
                          ELSE IF IsCodecDelimiter(s[k])
                               THEN [done |-> PushToken(scan[k - 1].done, scan[k - 1].tok), tok |-> <<>>]
                               ELSE [done |-> scan[k - 1].done,
                                     tok  |-> Append(scan[k - 1].tok, ToLowerASCII(s[k]))]]
    BY <1>1 DEF ScanUpTo, ScanStep
  <1>3. QED
    BY <1>2, Zenon DEF ScanUpTo, ScanStep, ScanFold
-----------------------------------------------------------------------------
\* The lower-cased characters of s.
LowChars(s) == {ToLowerASCII(s[i]) : i \in 1..Len(s)}

\* The n characters of s from position a, lower-cased.
Lowered(s, a, n) == [m \in 1..n |-> ToLowerASCII(s[a + m - 1])]

\* No delimiter among the positions a..b of s.
NonDelims(s, a, b) == \A m \in a..b : ~IsCodecDelimiter(s[m])

\* The positions among the first k where a token starts.
StartsUpTo(s, k) ==
  {i \in 1..k : ~IsCodecDelimiter(s[i]) /\ (i = 1 \/ IsCodecDelimiter(s[i - 1]))}

(* What the loop has built after k characters, with st[n] and ln[n] the   *)
(* start and length of the n-th pushed token: every pushed token is a     *)
(* run of non-delimiters closed by a delimiter within the prefix, lower-  *)
(* cased; the tokens are in increasing start order; the token being       *)
(* collected is the run that ends at k, empty when the k-th character is *)
(* a delimiter; and the starts seen so far are exactly those of the       *)
(* pushed tokens and of the one being collected.                          *)
ScanWit(s, k, d, t, st, ln) ==
  /\ d \in Seq(Seq(LowChars(s)))
  /\ st \in [1..Len(d) -> 1..k]
  /\ ln \in [1..Len(d) -> Nat \ {0}]
  /\ \A n \in 1..Len(d) :
        /\ d[n] = Lowered(s, st[n], ln[n])
        /\ st[n] + ln[n] <= k
        /\ NonDelims(s, st[n], st[n] + ln[n] - 1)
        /\ IsCodecDelimiter(s[st[n] + ln[n]])
  /\ \A n1, n2 \in 1..Len(d) : n1 < n2 => st[n1] < st[n2]
  /\ t \in Seq(LowChars(s))
  /\ Len(t) <= k
  /\ t = Lowered(s, k - Len(t) + 1, Len(t))
  /\ NonDelims(s, k - Len(t) + 1, k)
  /\ t = <<>> => /\ k = 0 \/ IsCodecDelimiter(s[k])
                 /\ StartsUpTo(s, k) = Range(st)
  /\ t # <<>> => /\ StartsUpTo(s, k) = Range(st) \cup {k - Len(t) + 1}
                 /\ \A n \in 1..Len(d) : st[n] < k - Len(t) + 1

\* The loop invariant: some starts and lengths witness the state.
ScanInv(s, k, d, t) == \E st, ln : ScanWit(s, k, d, t, st, ln)

\* Before the first character nothing is pushed or collected.
LEMMA ScanBase ==
  ASSUME NEW C, NEW s \in Seq(C)
  PROVE  ScanWit(s, 0, <<>>, <<>>, <<>>, <<>>)
  <1>1. StartsUpTo(s, 0) = {} /\ Range(<<>>) = {}
    BY DEF StartsUpTo, Range
  <1>2. Lowered(s, 1, 0) = <<>>
    BY DEF Lowered
  <1>3. <<>> \in Seq(Seq(LowChars(s))) /\ <<>> \in Seq(LowChars(s)) /\ Len(<<>>) = 0
    OBVIOUS
  <1>4. <<>> \in [1..0 -> 1..0] /\ <<>> \in [1..0 -> Nat \ {0}]
    OBVIOUS
  <1>5. <<>> = Lowered(s, 0 - 0 + 1, 0) /\ NonDelims(s, 0 - 0 + 1, 0)
    BY <1>2 DEF NonDelims
  <1>6. /\ 1..Len(<<>>) = {}
        /\ <<>> \in [1..Len(<<>>) -> 1..0] /\ <<>> \in [1..Len(<<>>) -> Nat \ {0}]
        /\ <<>> = Lowered(s, 0 - Len(<<>>) + 1, Len(<<>>))
        /\ NonDelims(s, 0 - Len(<<>>) + 1, 0)
        /\ Len(<<>>) <= 0
    BY <1>3, <1>4, <1>5
  <1>7. QED
    BY <1>1, <1>3, <1>6, Zenon DEF ScanWit

\* The k-th character adds a token start exactly when it begins a run.
LEMMA StartsGrow ==
  ASSUME NEW C, NEW s \in Seq(C), NEW k \in 1..Len(s)
  PROVE  StartsUpTo(s, k) =
           StartsUpTo(s, k - 1) \cup
           (IF ~IsCodecDelimiter(s[k]) /\ (k = 1 \/ IsCodecDelimiter(s[k - 1]))
            THEN {k} ELSE {})
  BY DEF StartsUpTo
\* The pushed tokens stay valid after one more character.
LEMMA DoneKept ==
  ASSUME NEW C, NEW s \in Seq(C), NEW k \in 1..Len(s),
         NEW d, NEW t, NEW st, NEW ln, ScanWit(s, k - 1, d, t, st, ln)
  PROVE  /\ d \in Seq(Seq(LowChars(s)))
         /\ st \in [1..Len(d) -> 1..k]
         /\ ln \in [1..Len(d) -> Nat \ {0}]
         /\ \A n \in 1..Len(d) :
               /\ d[n] = Lowered(s, st[n], ln[n])
               /\ st[n] + ln[n] <= k
               /\ NonDelims(s, st[n], st[n] + ln[n] - 1)
               /\ IsCodecDelimiter(s[st[n] + ln[n]])
         /\ \A n1, n2 \in 1..Len(d) : n1 < n2 => st[n1] < st[n2]
  <1>1. st \in [1..Len(d) -> 1..(k - 1)] /\ d \in Seq(Seq(LowChars(s)))
    BY DEF ScanWit
  <1>2. st \in [1..Len(d) -> 1..k]
    BY <1>1
  <1>3. ln \in [1..Len(d) -> Nat \ {0}]
    BY DEF ScanWit
  <1>4. \A n \in 1..Len(d) :
           /\ d[n] = Lowered(s, st[n], ln[n])
           /\ st[n] + ln[n] <= k - 1
           /\ NonDelims(s, st[n], st[n] + ln[n] - 1)
           /\ IsCodecDelimiter(s[st[n] + ln[n]])
    BY DEF ScanWit
  <1>5. \A n \in 1..Len(d) : st[n] + ln[n] <= k
    <2> SUFFICES ASSUME NEW n \in 1..Len(d) PROVE st[n] + ln[n] <= k
      OBVIOUS
    <2>0. st \in [1..Len(d) -> 1..(k - 1)]
      BY <1>1
    <2>1. st[n] \in Nat
      BY ONLY <2>0, n \in 1..Len(d), k \in Nat
    <2>2. ln[n] \in Nat
      BY <1>3
    <2>3. st[n] + ln[n] <= k - 1
      BY <1>4
    <2>4. QED
      BY ONLY <2>1, <2>2, <2>3, k \in Nat
  <1>6. \A n1, n2 \in 1..Len(d) : n1 < n2 => st[n1] < st[n2]
    BY DEF ScanWit
  <1>7. QED
    BY <1>1, <1>2, <1>3, <1>4, <1>5, <1>6

(* A character that is not a delimiter is appended, lower-cased, to the   *)
(* token being collected; it starts a token when the one before it was a  *)
(* delimiter or it is the first character.                               *)
LEMMA ScanChar ==
  ASSUME NEW C, NEW s \in Seq(C), NEW k \in 1..Len(s),
         NEW d, NEW t, NEW st, NEW ln, ScanWit(s, k - 1, d, t, st, ln),
         ~IsCodecDelimiter(s[k])
  PROVE  ScanWit(s, k, d, Append(t, ToLowerASCII(s[k])), st, ln)
  <1>1. PICK t2 : t2 = Append(t, ToLowerASCII(s[k]))
    OBVIOUS
  <1> SUFFICES ScanWit(s, k, d, t2, st, ln)
    BY <1>1
  <1>2. /\ t \in Seq(LowChars(s))
        /\ Len(t) <= k - 1
        /\ t = Lowered(s, (k - 1) - Len(t) + 1, Len(t))
        /\ NonDelims(s, (k - 1) - Len(t) + 1, k - 1)
    BY DEF ScanWit
  <1>3. ToLowerASCII(s[k]) \in LowChars(s)
    BY DEF LowChars
  <1>4. t2 \in Seq(LowChars(s)) /\ Len(t2) = Len(t) + 1 /\ Len(t2) <= k /\ t2 # <<>>
    BY <1>1, <1>2, <1>3
  <1>5. t2 = Lowered(s, k - Len(t2) + 1, Len(t2))
    <2>1. k - Len(t2) + 1 = (k - 1) - Len(t) + 1
      BY <1>2, <1>4
    <2>2. \A m \in 1..Len(t) : t[m] = ToLowerASCII(s[((k - 1) - Len(t) + 1) + m - 1])
      BY <1>2 DEF Lowered
    <2>3. \A m \in 1..(Len(t) + 1) :
             t2[m] = ToLowerASCII(s[((k - 1) - Len(t) + 1) + m - 1])
      BY <1>1, <1>2, <1>3, <2>2
    <2>4. DOMAIN t2 = 1..(Len(t) + 1)
      BY <1>4
    <2>5. QED
      BY <1>4, <2>1, <2>3, <2>4 DEF Lowered
  <1>6. NonDelims(s, k - Len(t2) + 1, k)
    BY <1>2, <1>4 DEF NonDelims
  <1>7. CASE t = <<>>
    <2>1. k - 1 = 0 \/ IsCodecDelimiter(s[k - 1])
      BY <1>7 DEF ScanWit
    <2>2. StartsUpTo(s, k) = StartsUpTo(s, k - 1) \cup {k}
      BY <2>1, StartsGrow
    <2>3. StartsUpTo(s, k - 1) = Range(st) /\ k - Len(t2) + 1 = k
      BY <1>4, <1>7 DEF ScanWit
    <2>4. \A n \in 1..Len(d) : st[n] < k
      <3>1. st \in [1..Len(d) -> 1..(k - 1)]
        BY DEF ScanWit
      <3>2. QED
        BY <3>1
    <2>5. QED
      BY <1>4, <1>5, <1>6, <2>2, <2>3, <2>4, DoneKept DEF ScanWit
  <1>8. CASE t # <<>>
    <2>1. k - 1 \in ((k - 1) - Len(t) + 1)..(k - 1) /\ k - 1 >= 1
      BY <1>2, <1>8
    <2>2. ~IsCodecDelimiter(s[k - 1]) /\ k # 1
      BY <1>2, <2>1 DEF NonDelims
    <2>3. StartsUpTo(s, k) = StartsUpTo(s, k - 1)
      <3>1. StartsUpTo(s, k) =
              StartsUpTo(s, k - 1) \cup
              (IF ~IsCodecDelimiter(s[k]) /\ (k = 1 \/ IsCodecDelimiter(s[k - 1]))
               THEN {k} ELSE {})
        BY StartsGrow
      <3>2. QED
        BY <3>1, <2>2
    <2>4. /\ StartsUpTo(s, k - 1) = Range(st) \cup {(k - 1) - Len(t) + 1}
          /\ \A n \in 1..Len(d) : st[n] < (k - 1) - Len(t) + 1
      BY <1>8 DEF ScanWit
    <2>5. k - Len(t2) + 1 = (k - 1) - Len(t) + 1
      BY <1>2, <1>4
    <2>6. QED
      BY <1>4, <1>5, <1>6, <2>3, <2>4, <2>5, DoneKept DEF ScanWit
  <1>9. QED
    BY <1>7, <1>8
\* A sequence is a function on 1..Len.
LEMMA SeqIsFun ==
  ASSUME NEW S, NEW f \in Seq(S)
  PROVE  f \in [1..Len(f) -> S]
  OBVIOUS

\* Appending to a sequence keeps its elements and puts the new one last.
LEMMA AppendAt ==
  ASSUME NEW S, NEW f \in Seq(S), NEW x
  PROVE  \A n \in 1..(Len(f) + 1) : Append(f, x)[n] = IF n = Len(f) + 1 THEN x ELSE f[n]
  OBVIOUS

\* Appending to a sequence adds the element to its range.
LEMMA RangeAppend ==
  ASSUME NEW S, NEW f \in Seq(S), NEW x
  PROVE  Range(Append(f, x)) = Range(f) \cup {x}
  <1>1. DOMAIN Append(f, x) = 1..(Len(f) + 1) /\ DOMAIN f = 1..Len(f)
    OBVIOUS
  <1>2. \A i \in 1..(Len(f) + 1) : Append(f, x)[i] = IF i = Len(f) + 1 THEN x ELSE f[i]
    OBVIOUS
  <1>3. QED
    BY <1>1, <1>2 DEF Range

\* A delimiter after a delimiter (or at the start) pushes nothing.
LEMMA ScanDelimEmpty ==
  ASSUME NEW C, NEW s \in Seq(C), NEW k \in 1..Len(s),
         NEW d, NEW st, NEW ln, ScanWit(s, k - 1, d, <<>>, st, ln),
         IsCodecDelimiter(s[k])
  PROVE  ScanWit(s, k, d, <<>>, st, ln)
  <1>1. StartsUpTo(s, k) =
          StartsUpTo(s, k - 1) \cup
          (IF ~IsCodecDelimiter(s[k]) /\ (k = 1 \/ IsCodecDelimiter(s[k - 1]))
           THEN {k} ELSE {})
    BY StartsGrow
  <1>2. StartsUpTo(s, k) = Range(st)
    <2>1. StartsUpTo(s, k - 1) = Range(st)
      BY DEF ScanWit
    <2>2. QED
      BY <1>1, <2>1
  <1>3. /\ <<>> \in Seq(LowChars(s)) /\ Len(<<>>) <= k
        /\ <<>> = Lowered(s, k - Len(<<>>) + 1, Len(<<>>))
        /\ NonDelims(s, k - Len(<<>>) + 1, k)
    BY DEF Lowered, NonDelims
  <1>4. /\ d \in Seq(Seq(LowChars(s)))
        /\ st \in [1..Len(d) -> 1..k]
        /\ ln \in [1..Len(d) -> Nat \ {0}]
        /\ \A n \in 1..Len(d) :
              /\ d[n] = Lowered(s, st[n], ln[n])
              /\ st[n] + ln[n] <= k
              /\ NonDelims(s, st[n], st[n] + ln[n] - 1)
              /\ IsCodecDelimiter(s[st[n] + ln[n]])
        /\ \A n1, n2 \in 1..Len(d) : n1 < n2 => st[n1] < st[n2]
    BY DoneKept
  <1>5. QED
    BY <1>2, <1>3, <1>4, Zenon DEF ScanWit

(* A delimiter after a token pushes the token: its start and length join  *)
(* the witnesses, and it is closed by the delimiter at k.                 *)
LEMMA ScanDelimToken ==
  ASSUME NEW C, NEW s \in Seq(C), NEW k \in 1..Len(s),
         NEW d, NEW t, NEW st, NEW ln, ScanWit(s, k - 1, d, t, st, ln),
         t # <<>>, IsCodecDelimiter(s[k])
  PROVE  ScanWit(s, k, Append(d, t), <<>>, Append(st, k - Len(t)), Append(ln, Len(t)))
  <1>1. PICK a : a = k - Len(t)
    OBVIOUS
  <1> SUFFICES ScanWit(s, k, Append(d, t), <<>>, Append(st, a), Append(ln, Len(t)))
    BY <1>1
  <1>2. /\ t \in Seq(LowChars(s))
        /\ Len(t) <= k - 1
        /\ t = Lowered(s, (k - 1) - Len(t) + 1, Len(t))
        /\ NonDelims(s, (k - 1) - Len(t) + 1, k - 1)
        /\ StartsUpTo(s, k - 1) = Range(st) \cup {(k - 1) - Len(t) + 1}
        /\ \A n \in 1..Len(d) : st[n] < (k - 1) - Len(t) + 1
    BY DEF ScanWit
  <1>3. Len(t) \in Nat /\ Len(t) >= 1 /\ a \in 1..(k - 1) /\ (k - 1) - Len(t) + 1 = a
        /\ a + Len(t) = k /\ a + Len(t) - 1 = k - 1
    BY <1>1, <1>2
  <1>4. /\ d \in Seq(Seq(LowChars(s)))
        /\ st \in [1..Len(d) -> 1..(k - 1)]
        /\ ln \in [1..Len(d) -> Nat \ {0}]
        /\ \A n \in 1..Len(d) :
              /\ d[n] = Lowered(s, st[n], ln[n])
              /\ st[n] + ln[n] <= k - 1
              /\ NonDelims(s, st[n], st[n] + ln[n] - 1)
              /\ IsCodecDelimiter(s[st[n] + ln[n]])
        /\ \A n1, n2 \in 1..Len(d) : n1 < n2 => st[n1] < st[n2]
    BY DEF ScanWit
  <1>5. PICK N : N = Len(d)
    OBVIOUS
  <1>6. N \in Nat /\ st \in Seq(Nat) /\ ln \in Seq(Nat) /\ Len(st) = N /\ Len(ln) = N
    <2>1. d \in Seq(Seq(LowChars(s))) /\ st \in [1..Len(d) -> 1..(k - 1)]
          /\ ln \in [1..Len(d) -> Nat \ {0}]
      BY <1>4
    <2>2. N \in Nat
      BY ONLY <2>1, <1>5
    <2>3. st \in [1..N -> Nat] /\ ln \in [1..N -> Nat]
      BY ONLY <2>1, <1>5, k \in Nat
    <2>4. QED
      BY ONLY <2>2, <2>3
  <1>7. /\ Append(d, t) \in Seq(Seq(LowChars(s))) /\ Len(Append(d, t)) = N + 1
        /\ Append(st, a) \in [1..(N + 1) -> 1..k]
        /\ Append(ln, Len(t)) \in [1..(N + 1) -> Nat \ {0}]
    <2>1. Append(d, t) \in Seq(Seq(LowChars(s))) /\ Len(Append(d, t)) = N + 1
      BY ONLY <1>2, <1>4, <1>5
    <2>2. st \in [1..N -> 1..(k - 1)] /\ ln \in [1..N -> Nat \ {0}]
      BY ONLY <1>4, <1>5
    <2>3. Append(st, a) \in [1..(N + 1) -> 1..k]
      <3>1. Append(st, a) \in [1..(N + 1) -> Nat]
        <4>1. Append(st, a) \in Seq(Nat) /\ Len(Append(st, a)) = N + 1
          BY ONLY <1>3, <1>6
        <4>2. QED
          BY <4>1, SeqIsFun
      <3>2. \A i \in 1..(N + 1) : Append(st, a)[i] = IF i = N + 1 THEN a ELSE st[i]
        BY ONLY <1>6
      <3>3. \A i \in 1..(N + 1) : Append(st, a)[i] \in 1..k
        BY ONLY <3>2, <2>2, <1>3, <1>6, k \in Nat
      <3>4. QED
        BY ONLY <3>1, <3>3
    <2>4. Append(ln, Len(t)) \in [1..(N + 1) -> Nat \ {0}]
      <3>1. Append(ln, Len(t)) \in [1..(N + 1) -> Nat]
        <4>1. Append(ln, Len(t)) \in Seq(Nat) /\ Len(Append(ln, Len(t))) = N + 1
          BY ONLY <1>3, <1>6
        <4>2. QED
          BY <4>1, SeqIsFun
      <3>2. \A i \in 1..(N + 1) : Append(ln, Len(t))[i] = IF i = N + 1 THEN Len(t) ELSE ln[i]
        BY ONLY <1>6
      <3>3. \A i \in 1..(N + 1) : Append(ln, Len(t))[i] \in Nat \ {0}
        BY ONLY <3>2, <2>2, <1>3, <1>6
      <3>4. QED
        BY ONLY <3>1, <3>3
    <2>5. QED
      BY <2>1, <2>3, <2>4
  <1>8. \A n \in 1..(N + 1) :
          /\ Append(d, t)[n] = IF n = N + 1 THEN t ELSE d[n]
          /\ Append(st, a)[n] = IF n = N + 1 THEN a ELSE st[n]
          /\ Append(ln, Len(t))[n] = IF n = N + 1 THEN Len(t) ELSE ln[n]
    <2>1. d \in Seq(Seq(LowChars(s))) /\ Len(d) = N
      BY ONLY <1>4, <1>5
    <2>2. \A n \in 1..(N + 1) : Append(d, t)[n] = IF n = N + 1 THEN t ELSE d[n]
      BY ONLY <2>1, AppendAt
    <2>3. \A n \in 1..(N + 1) : Append(st, a)[n] = IF n = N + 1 THEN a ELSE st[n]
      BY ONLY <1>6, AppendAt
    <2>4. \A n \in 1..(N + 1) : Append(ln, Len(t))[n] = IF n = N + 1 THEN Len(t) ELSE ln[n]
      BY ONLY <1>6, AppendAt
    <2>5. QED
      BY ONLY <2>2, <2>3, <2>4
  <1>9. \A n \in 1..(N + 1) :
          /\ Append(d, t)[n] = Lowered(s, Append(st, a)[n], Append(ln, Len(t))[n])
          /\ Append(st, a)[n] + Append(ln, Len(t))[n] <= k
          /\ NonDelims(s, Append(st, a)[n], Append(st, a)[n] + Append(ln, Len(t))[n] - 1)
          /\ IsCodecDelimiter(s[Append(st, a)[n] + Append(ln, Len(t))[n]])
    <2> SUFFICES ASSUME NEW n \in 1..(N + 1)
                 PROVE  /\ Append(d, t)[n] = Lowered(s, Append(st, a)[n], Append(ln, Len(t))[n])
                        /\ Append(st, a)[n] + Append(ln, Len(t))[n] <= k
                        /\ NonDelims(s, Append(st, a)[n], Append(st, a)[n] + Append(ln, Len(t))[n] - 1)
                        /\ IsCodecDelimiter(s[Append(st, a)[n] + Append(ln, Len(t))[n]])
      OBVIOUS
    <2>1. CASE n = N + 1
      <3>1. Append(d, t)[n] = t /\ Append(st, a)[n] = a /\ Append(ln, Len(t))[n] = Len(t)
        BY <1>8, <2>1
      <3>2. QED
        BY <3>1, <1>2, <1>3, k \in Nat
    <2>2. CASE n # N + 1
      <3>0. n \in 1..N
        BY ONLY <1>6, <2>2, n \in 1..(N + 1)
      <3>0a. n # N + 1
        BY ONLY <1>6, <3>0
      <3>1. n \in 1..N /\ Append(d, t)[n] = d[n] /\ Append(st, a)[n] = st[n]
            /\ Append(ln, Len(t))[n] = ln[n]
        BY ONLY <1>8, <3>0, <3>0a, n \in 1..(N + 1), Zenon
      <3>2. st[n] \in Nat /\ ln[n] \in Nat
        BY ONLY <1>6, <3>0
      <3>3. st[n] + ln[n] <= k
        BY ONLY <1>4, <1>5, <3>1, <3>2, k \in Nat
      <3>4. QED
        BY <1>4, <1>5, <3>1, <3>3
    <2>3. QED
      BY <2>1, <2>2
  <1>10. \A n1, n2 \in 1..(N + 1) : n1 < n2 => Append(st, a)[n1] < Append(st, a)[n2]
    <2> SUFFICES ASSUME NEW n1 \in 1..(N + 1), NEW n2 \in 1..(N + 1), n1 < n2
                 PROVE  Append(st, a)[n1] < Append(st, a)[n2]
      OBVIOUS
    <2>0. n1 \in 1..N
      BY ONLY <1>6, n1 < n2, n1 \in 1..(N + 1), n2 \in 1..(N + 1)
    <2>1. n1 \in 1..N /\ Append(st, a)[n1] = st[n1]
      BY ONLY <1>6, <1>8, <2>0
    <2>2. CASE n2 = N + 1
      BY <1>2, <1>3, <1>5, <1>8, <2>1, <2>2
    <2>3. CASE n2 # N + 1
      <3>0. n2 \in 1..N
        BY ONLY <1>6, <2>3, n2 \in 1..(N + 1)
      <3>1. n2 \in 1..N /\ Append(st, a)[n2] = st[n2]
        BY ONLY <1>6, <1>8, <3>0
      <3>2. QED
        BY <1>4, <1>5, <2>1, <3>1
    <2>4. QED
      BY <2>2, <2>3
  <1>11. StartsUpTo(s, k) = Range(Append(st, a))
    <2>1. StartsUpTo(s, k) =
            StartsUpTo(s, k - 1) \cup
            (IF ~IsCodecDelimiter(s[k]) /\ (k = 1 \/ IsCodecDelimiter(s[k - 1]))
             THEN {k} ELSE {})
      BY StartsGrow
    <2>2. Range(Append(st, a)) = Range(st) \cup {a}
      BY <1>6, RangeAppend
    <2>3. QED
      BY <1>2, <1>3, <2>1, <2>2
  <1>12. /\ <<>> \in Seq(LowChars(s)) /\ Len(<<>>) <= k
         /\ <<>> = Lowered(s, k - Len(<<>>) + 1, Len(<<>>))
         /\ NonDelims(s, k - Len(<<>>) + 1, k)
    BY DEF Lowered, NonDelims
  <1>13. 1..Len(Append(d, t)) = 1..(N + 1)
    BY <1>7
  <1>14. QED
    BY <1>7, <1>9, <1>10, <1>11, <1>12, <1>13, Zenon DEF ScanWit
\* The loop invariant holds after every prefix of the value.
LEMMA ScanAll ==
  ASSUME NEW C, NEW s \in Seq(C), NEW F, ScanUpTo(s, F, Len(s))
  PROVE  \A k \in 0..Len(s) : ScanInv(s, k, F[k].done, F[k].tok)
  <1> DEFINE Bad == {k \in 0..Len(s) : ~ScanInv(s, k, F[k].done, F[k].tok)}
  <1>1. SUFFICES ASSUME Bad # {} PROVE FALSE
    OBVIOUS
  <1>2. PICK m \in Bad : \A y \in Bad : m <= y
    <2>1. Bad \in SUBSET Nat
      OBVIOUS
    <2>2. QED
      BY <1>1, <2>1, NatMin
  <1>3. m \in 0..Len(s) /\ ~ScanInv(s, m, F[m].done, F[m].tok)
    BY <1>2
  <1>4. \A k \in 0..Len(s) : F[k] = ScanStep(s, F, k)
    BY DEF ScanUpTo
  <1>5. CASE m = 0
    <2>0. F[0] = ScanStep(s, F, 0)
      <3>1. 0 \in 0..Len(s)
        OBVIOUS
      <3>2. QED
        BY ONLY <1>4, <3>1
    <2>1. F[0].done = <<>> /\ F[0].tok = <<>>
      BY <2>0 DEF ScanStep
    <2>2. ScanWit(s, 0, <<>>, <<>>, <<>>, <<>>)
      BY ScanBase
    <2>3. QED
      BY <1>3, <1>5, <2>1, <2>2 DEF ScanInv
  <1>6. CASE m # 0
    <2>1. m - 1 \in 0..Len(s) /\ m \in 1..Len(s)
      BY <1>3, <1>6
    <2>2. m - 1 \notin Bad
      <3>1. SUFFICES ASSUME m - 1 \in Bad PROVE FALSE
        OBVIOUS
      <3>2. m <= m - 1
        BY <3>1, <1>2
      <3>3. QED
        BY <3>2, <1>3
    <2>3. PICK st, ln : ScanWit(s, m - 1, F[m - 1].done, F[m - 1].tok, st, ln)
      BY <2>1, <2>2 DEF ScanInv
    <2>4. PICK d, t : d = F[m - 1].done /\ t = F[m - 1].tok
      OBVIOUS
    <2>5. ScanWit(s, m - 1, d, t, st, ln)
      BY <2>3, <2>4
    <2>6. F[m] = ScanStep(s, F, m)
      BY <1>4, <2>1
    <2>7. CASE IsCodecDelimiter(s[m]) /\ t = <<>>
      <3>1. F[m].done = d /\ F[m].tok = <<>>
        BY <2>4, <2>6, <2>7, <1>6 DEF ScanStep, PushToken
      <3>2. ScanWit(s, m, d, <<>>, st, ln)
        BY <2>1, <2>5, <2>7, ScanDelimEmpty
      <3>3. QED
        BY <1>3, <3>1, <3>2 DEF ScanInv
    <2>8. CASE IsCodecDelimiter(s[m]) /\ t # <<>>
      <3>1. F[m].done = Append(d, t) /\ F[m].tok = <<>>
        BY <2>4, <2>6, <2>8, <1>6 DEF ScanStep, PushToken
      <3>2. ScanWit(s, m, Append(d, t), <<>>, Append(st, m - Len(t)), Append(ln, Len(t)))
        BY <2>1, <2>5, <2>8, ScanDelimToken
      <3>3. QED
        BY <1>3, <3>1, <3>2 DEF ScanInv
    <2>9. CASE ~IsCodecDelimiter(s[m])
      <3>1. F[m].done = d /\ F[m].tok = Append(t, ToLowerASCII(s[m]))
        BY <2>4, <2>6, <2>9, <1>6 DEF ScanStep
      <3>2. ScanWit(s, m, d, Append(t, ToLowerASCII(s[m])), st, ln)
        BY <2>1, <2>5, <2>9, ScanChar
      <3>3. QED
        BY <1>3, <3>1, <3>2 DEF ScanInv
    <2>10. QED
      BY <2>7, <2>8, <2>9
  <1>7. QED
    BY <1>5, <1>6
-----------------------------------------------------------------------------
(* The parse's result R with st[n] and ln[n] the start and length of its   *)
(* n-th token: each token is a maximal run of non-delimiters, lower-cased, *)
(* the tokens are in increasing start order, and their starts are all the  *)
(* token starts of the value.                                              *)
FinalWit(s, R, st, ln) ==
  /\ R \in Seq(Seq(LowChars(s)))
  /\ st \in [1..Len(R) -> 1..Len(s)]
  /\ ln \in [1..Len(R) -> Nat \ {0}]
  /\ \A n \in 1..Len(R) :
        /\ R[n] = Lowered(s, st[n], ln[n])
        /\ st[n] + ln[n] - 1 <= Len(s)
        /\ NonDelims(s, st[n], st[n] + ln[n] - 1)
        /\ (st[n] + ln[n] - 1 = Len(s) \/ IsCodecDelimiter(s[st[n] + ln[n]]))
  /\ \A n1, n2 \in 1..Len(R) : n1 < n2 => st[n1] < st[n2]
  /\ Range(st) = TokenStarts(s)

\* After the last character, the final push leaves every token closed.
LEMMA ScanFinal ==
  ASSUME NEW C, NEW s \in Seq(C), NEW d, NEW t, NEW st, NEW ln,
         ScanWit(s, Len(s), d, t, st, ln)
  PROVE  \E st2, ln2 : FinalWit(s, PushToken(d, t), st2, ln2)
  <1> DEFINE K == Len(s)
  <1>0. K \in Nat /\ TokenStarts(s) = StartsUpTo(s, K)
    BY DEF TokenStarts, StartsUpTo
  <1>1. /\ d \in Seq(Seq(LowChars(s)))
        /\ st \in [1..Len(d) -> 1..K]
        /\ ln \in [1..Len(d) -> Nat \ {0}]
        /\ \A n \in 1..Len(d) :
              /\ d[n] = Lowered(s, st[n], ln[n])
              /\ st[n] + ln[n] <= K
              /\ NonDelims(s, st[n], st[n] + ln[n] - 1)
              /\ IsCodecDelimiter(s[st[n] + ln[n]])
        /\ \A n1, n2 \in 1..Len(d) : n1 < n2 => st[n1] < st[n2]
    BY DEF ScanWit
  <1>2. PICK N : N = Len(d)
    OBVIOUS
  <1>3. N \in Nat /\ st \in Seq(Nat) /\ ln \in Seq(Nat) /\ Len(st) = N /\ Len(ln) = N
    <2>1. N \in Nat
      BY ONLY <1>1, <1>2
    <2>2. st \in [1..N -> Nat] /\ ln \in [1..N -> Nat]
      BY ONLY <1>0, <1>1, <1>2
    <2>3. QED
      BY ONLY <2>1, <2>2
  <1>4. \A n \in 1..N : st[n] \in Nat /\ ln[n] \in Nat /\ st[n] + ln[n] <= K
    BY ONLY <1>0, <1>1, <1>2
  <1>5. CASE t = <<>>
    <2>1. PushToken(d, t) = d /\ StartsUpTo(s, K) = Range(st)
      BY <1>5 DEF PushToken, ScanWit
    <2>2. st \in [1..Len(d) -> 1..Len(s)] /\ \A n \in 1..N : st[n] + ln[n] - 1 <= K
      BY ONLY <1>1, <1>2, <1>4
    <2>3. FinalWit(s, d, st, ln)
      BY <1>0, <1>1, <1>2, <2>1, <2>2 DEF FinalWit
    <2>4. QED
      BY <2>1, <2>3
  <1>6. CASE t # <<>>
    <2>1. /\ t \in Seq(LowChars(s))
          /\ Len(t) <= K
          /\ t = Lowered(s, K - Len(t) + 1, Len(t))
          /\ NonDelims(s, K - Len(t) + 1, K)
          /\ StartsUpTo(s, K) = Range(st) \cup {K - Len(t) + 1}
          /\ \A n \in 1..Len(d) : st[n] < K - Len(t) + 1
      BY <1>6 DEF ScanWit
    <2>2. PICK a : a = K - Len(t) + 1
      OBVIOUS
    <2>3. Len(t) \in Nat /\ Len(t) >= 1 /\ a \in 1..K /\ a + Len(t) - 1 = K
      BY <1>0, <1>6, <2>1, <2>2
    <2>4. PushToken(d, t) = Append(d, t)
      BY <1>6 DEF PushToken
    <2>5. /\ Append(d, t) \in Seq(Seq(LowChars(s))) /\ Len(Append(d, t)) = N + 1
          /\ \A n \in 1..(N + 1) :
                /\ Append(d, t)[n] = IF n = N + 1 THEN t ELSE d[n]
                /\ Append(st, a)[n] = IF n = N + 1 THEN a ELSE st[n]
                /\ Append(ln, Len(t))[n] = IF n = N + 1 THEN Len(t) ELSE ln[n]
      BY ONLY <1>1, <1>2, <1>3, <2>1
    <2>6. Append(st, a) \in [1..(N + 1) -> 1..K] /\ Append(ln, Len(t)) \in [1..(N + 1) -> Nat \ {0}]
      <3>1. Append(st, a) \in Seq(Nat) /\ Len(Append(st, a)) = N + 1
            /\ Append(ln, Len(t)) \in Seq(Nat) /\ Len(Append(ln, Len(t))) = N + 1
        BY ONLY <1>3, <2>3
      <3>2. Append(st, a) \in [1..(N + 1) -> Nat] /\ Append(ln, Len(t)) \in [1..(N + 1) -> Nat]
        BY <3>1, SeqIsFun
      <3>3. \A n \in 1..(N + 1) : Append(st, a)[n] \in 1..K /\ Append(ln, Len(t))[n] \in Nat \ {0}
        <4> SUFFICES ASSUME NEW n \in 1..(N + 1)
                     PROVE  Append(st, a)[n] \in 1..K /\ Append(ln, Len(t))[n] \in Nat \ {0}
          OBVIOUS
        <4>1. CASE n = N + 1
          <5>1. Append(st, a)[n] = a /\ Append(ln, Len(t))[n] = Len(t)
            BY ONLY <2>5, <4>1, n \in 1..(N + 1)
          <5>2. QED
            BY ONLY <5>1, <2>3
        <4>2. CASE n # N + 1
          <5>1. n \in 1..N
            BY ONLY <1>3, <4>2, n \in 1..(N + 1)
          <5>2. Append(st, a)[n] = st[n] /\ Append(ln, Len(t))[n] = ln[n]
            BY ONLY <2>5, <4>2, n \in 1..(N + 1), Zenon
          <5>3. st[n] \in 1..K /\ ln[n] \in Nat \ {0}
            BY ONLY <1>1, <1>2, <5>1
          <5>4. QED
            BY ONLY <5>2, <5>3
        <4>3. QED
          BY <4>1, <4>2
      <3>4. QED
        BY ONLY <3>2, <3>3
    <2>7. \A n \in 1..(N + 1) :
            /\ Append(d, t)[n] = Lowered(s, Append(st, a)[n], Append(ln, Len(t))[n])
            /\ Append(st, a)[n] + Append(ln, Len(t))[n] - 1 <= K
            /\ NonDelims(s, Append(st, a)[n], Append(st, a)[n] + Append(ln, Len(t))[n] - 1)
            /\ (Append(st, a)[n] + Append(ln, Len(t))[n] - 1 = K
                \/ IsCodecDelimiter(s[Append(st, a)[n] + Append(ln, Len(t))[n]]))
      <3> SUFFICES ASSUME NEW n \in 1..(N + 1)
                   PROVE  /\ Append(d, t)[n] = Lowered(s, Append(st, a)[n], Append(ln, Len(t))[n])
                          /\ Append(st, a)[n] + Append(ln, Len(t))[n] - 1 <= K
                          /\ NonDelims(s, Append(st, a)[n], Append(st, a)[n] + Append(ln, Len(t))[n] - 1)
                          /\ (Append(st, a)[n] + Append(ln, Len(t))[n] - 1 = K
                              \/ IsCodecDelimiter(s[Append(st, a)[n] + Append(ln, Len(t))[n]]))
        OBVIOUS
      <3>1. CASE n = N + 1
        <4>1. Append(d, t)[n] = t /\ Append(st, a)[n] = a /\ Append(ln, Len(t))[n] = Len(t)
          BY ONLY <2>5, <3>1, n \in 1..(N + 1)
        <4>2. QED
          BY <4>1, <2>1, <2>2, <2>3
      <3>2. CASE n # N + 1
        <4>0. n \in 1..N
          BY ONLY <1>3, <3>2, n \in 1..(N + 1)
        <4>1. Append(d, t)[n] = d[n] /\ Append(st, a)[n] = st[n] /\ Append(ln, Len(t))[n] = ln[n]
          BY ONLY <2>5, <3>2, n \in 1..(N + 1), Zenon
        <4>2. st[n] + ln[n] - 1 <= K
          BY ONLY <1>4, <4>0, <1>0
        <4>3. QED
          BY <1>1, <1>2, <4>0, <4>1, <4>2
      <3>3. QED
        BY <3>1, <3>2
    <2>8. \A n1, n2 \in 1..(N + 1) : n1 < n2 => Append(st, a)[n1] < Append(st, a)[n2]
      <3> SUFFICES ASSUME NEW n1 \in 1..(N + 1), NEW n2 \in 1..(N + 1), n1 < n2
                   PROVE  Append(st, a)[n1] < Append(st, a)[n2]
        OBVIOUS
      <3>0. n1 \in 1..N /\ n1 # N + 1
        BY ONLY <1>3, n1 < n2, n1 \in 1..(N + 1), n2 \in 1..(N + 1)
      <3>1. Append(st, a)[n1] = st[n1]
        BY ONLY <2>5, <3>0, n1 \in 1..(N + 1), Zenon
      <3>2. CASE n2 = N + 1
        <4>1. Append(st, a)[n2] = a
          BY ONLY <2>5, <3>2, n2 \in 1..(N + 1)
        <4>2. QED
          BY <1>2, <2>1, <2>2, <3>0, <3>1, <4>1
      <3>3. CASE n2 # N + 1
        <4>0. n2 \in 1..N
          BY ONLY <1>3, <3>3, n2 \in 1..(N + 1)
        <4>1. Append(st, a)[n2] = st[n2]
          BY ONLY <2>5, <3>3, n2 \in 1..(N + 1), Zenon
        <4>2. QED
          BY <1>1, <1>2, <3>0, <3>1, <4>0, <4>1
      <3>4. QED
        BY <3>2, <3>3
    <2>9. Range(Append(st, a)) = TokenStarts(s)
      <3>1. Range(Append(st, a)) = Range(st) \cup {a}
        BY <1>3, RangeAppend
      <3>2. QED
        BY <1>0, <2>1, <2>2, <3>1
    <2>10. 1..Len(Append(d, t)) = 1..(N + 1)
      BY <2>5
    <2>11. FinalWit(s, Append(d, t), Append(st, a), Append(ln, Len(t)))
      BY <2>5, <2>6, <2>7, <2>8, <2>9, <2>10, Zenon DEF FinalWit
    <2>12. QED
      BY <2>4, <2>11
  <1>7. QED
    BY <1>5, <1>6
-----------------------------------------------------------------------------
(* The reference tokenizer names the n-th token start by its rank: the     *)
(* start with n - 1 starts before it.                                      *)
NthStart(s, n) ==
  CHOOSE i \in TokenStarts(s) : Cardinality({m \in TokenStarts(s) : m < i}) = n - 1

\* CodecTokensRef with its LET spelled out.
LEMMA RefUnfolds ==
  ASSUME NEW s
  PROVE  CodecTokensRef(s) =
           [n \in 1..Cardinality(TokenStarts(s)) |->
              Lowered(s, NthStart(s, n), TokenEnd(s, NthStart(s, n)) - NthStart(s, n) + 1)]
  BY DEF CodecTokensRef, NthStart, Lowered

\* The first M values of an increasing sequence of integers are M distinct values.
LEMMA PrefixImageCard ==
  ASSUME NEW N \in Nat, NEW st \in [1..N -> Int],
         \A n1, n2 \in 1..N : n1 < n2 => st[n1] < st[n2],
         NEW M \in 0..N
  PROVE  /\ IsFiniteSet({st[q] : q \in 1..M})
         /\ Cardinality({st[q] : q \in 1..M}) = M
  <1>1. PICK f : f = [q \in 1..M |-> st[q]]
    OBVIOUS
  <1>2. f \in [1..M -> {st[q] : q \in 1..M}]
    BY <1>1
  <1>3. IsInjective(f)
    <2> SUFFICES ASSUME NEW q1 \in 1..M, NEW q2 \in 1..M, f[q1] = f[q2], q1 # q2
                 PROVE  FALSE
      BY <1>1 DEF IsInjective
    <2>1. st[q1] = st[q2]
      BY <1>1
    <2>2. q1 < q2 \/ q2 < q1
      OBVIOUS
    <2>3. QED
      BY <2>1, <2>2
  <1>4. \A y \in {st[q] : q \in 1..M} : \E q \in 1..M : f[q] = y
    BY <1>1
  <1>5. ExistsBijection(1..M, {st[q] : q \in 1..M})
    BY <1>2, <1>3, <1>4 DEF ExistsBijection, Bijection, Injection, Surjection
  <1>6. Cardinality({st[q] : q \in 1..M}) = M
    BY <1>5, FS_CountingElements
  <1>7. IsFiniteSet(1..M)
    BY FS_Interval
  <1>8. QED
    BY <1>5, <1>6, <1>7, FS_Bijection

(* A run of non-delimiters from a that ends at the value's end or before  *)
(* a delimiter ends where the reference's TokenEnd says.                  *)
LEMMA TokenEndIs ==
  ASSUME NEW C, NEW s \in Seq(C), NEW a \in 1..Len(s), NEW e \in a..Len(s),
         NonDelims(s, a, e), e = Len(s) \/ IsCodecDelimiter(s[e + 1])
  PROVE  TokenEnd(s, a) = e
  <1> DEFINE P(j) == /\ \A m \in a..j : ~IsCodecDelimiter(s[m])
                     /\ (j = Len(s) \/ IsCodecDelimiter(s[j + 1]))
  <1>1. P(e)
    BY DEF NonDelims
  <1>2. \A j \in a..Len(s) : P(j) => j = e
    <2> SUFFICES ASSUME NEW j \in a..Len(s), P(j), j # e PROVE FALSE
      OBVIOUS
    <2>1. CASE j < e
      <3>1. j + 1 \in a..e /\ j # Len(s)
        BY <2>1
      <3>2. QED
        BY <2>1, <3>1 DEF NonDelims
    <2>2. CASE e < j
      <3>1. e + 1 \in a..j /\ e # Len(s)
        BY <2>2
      <3>2. QED
        BY <2>2, <3>1
    <2>3. QED
      BY <2>1, <2>2
  <1>3. QED
    BY <1>1, <1>2 DEF TokenEnd
\* A result witnessed as above is the reference tokenization.
LEMMA RefMatches ==
  ASSUME NEW C, NEW s \in Seq(C), NEW R, NEW st, NEW ln, FinalWit(s, R, st, ln)
  PROVE  R = CodecTokensRef(s)
  <1>1. PICK N : N = Len(R)
    OBVIOUS
  <1>2. /\ N \in Nat
        /\ R \in Seq(Seq(LowChars(s)))
        /\ st \in [1..N -> 1..Len(s)]
        /\ ln \in [1..N -> Nat \ {0}]
        /\ \A n1, n2 \in 1..N : n1 < n2 => st[n1] < st[n2]
        /\ Range(st) = TokenStarts(s)
    BY <1>1 DEF FinalWit
  <1>3. st \in [1..N -> Int]
    BY <1>2
  <1>4. TokenStarts(s) = {st[q] : q \in 1..N}
    BY <1>2 DEF Range
  <1>5. Cardinality(TokenStarts(s)) = N
    <2>1. N \in 0..N
      BY <1>2
    <2>2. Cardinality({st[q] : q \in 1..N}) = N
      BY ONLY <1>2, <1>3, <2>1, PrefixImageCard
    <2>3. QED
      BY <1>4, <2>2
  <1>6. \A j \in 1..N : Cardinality({m \in TokenStarts(s) : m < st[j]}) = j - 1
    <2> SUFFICES ASSUME NEW j \in 1..N
                 PROVE  Cardinality({m \in TokenStarts(s) : m < st[j]}) = j - 1
      OBVIOUS
    <2>1. {m \in TokenStarts(s) : m < st[j]} = {st[q] : q \in 1..(j - 1)}
      <3>1. \A q \in 1..N : st[q] < st[j] <=> q < j
        BY <1>2
      <3>2. QED
        BY <1>2, <1>4, <3>1
    <2>2. j - 1 \in 0..N
      BY <1>2
    <2>3. Cardinality({st[q] : q \in 1..(j - 1)}) = j - 1
      BY ONLY <1>2, <1>3, <2>2, PrefixImageCard
    <2>4. QED
      BY <2>1, <2>3
  <1>7. \A n \in 1..N : NthStart(s, n) = st[n]
    <2> SUFFICES ASSUME NEW n \in 1..N PROVE NthStart(s, n) = st[n]
      OBVIOUS
    <2>1. st[n] \in TokenStarts(s) /\ Cardinality({m \in TokenStarts(s) : m < st[n]}) = n - 1
      BY <1>4, <1>6
    <2>2. \A i \in TokenStarts(s) :
             Cardinality({m \in TokenStarts(s) : m < i}) = n - 1 => i = st[n]
      <3> SUFFICES ASSUME NEW i \in TokenStarts(s),
                          Cardinality({m \in TokenStarts(s) : m < i}) = n - 1
                   PROVE  i = st[n]
        OBVIOUS
      <3>1. PICK q \in 1..N : i = st[q]
        BY <1>4
      <3>2. q - 1 = n - 1
        BY <1>6, <3>1
      <3>3. QED
        BY <3>1, <3>2
    <2>3. QED
      BY <2>1, <2>2 DEF NthStart
  <1>8. \A n \in 1..N :
          /\ R[n] = Lowered(s, st[n], ln[n])
          /\ TokenEnd(s, st[n]) = st[n] + ln[n] - 1
    <2> SUFFICES ASSUME NEW n \in 1..N
                 PROVE  /\ R[n] = Lowered(s, st[n], ln[n])
                        /\ TokenEnd(s, st[n]) = st[n] + ln[n] - 1
      OBVIOUS
    <2>1. /\ R[n] = Lowered(s, st[n], ln[n])
          /\ st[n] + ln[n] - 1 <= Len(s)
          /\ NonDelims(s, st[n], st[n] + ln[n] - 1)
          /\ (st[n] + ln[n] - 1 = Len(s) \/ IsCodecDelimiter(s[st[n] + ln[n]]))
      BY <1>1 DEF FinalWit
    <2>2. st[n] \in 1..Len(s) /\ st[n] + ln[n] - 1 \in st[n]..Len(s)
          /\ st[n] + ln[n] - 1 + 1 = st[n] + ln[n]
      BY <1>2, <2>1
    <2>3. TokenEnd(s, st[n]) = st[n] + ln[n] - 1
      BY <2>1, <2>2, TokenEndIs
    <2>4. QED
      BY <2>1, <2>3
  <1>9. \A n \in 1..N :
          R[n] = Lowered(s, NthStart(s, n), TokenEnd(s, NthStart(s, n)) - NthStart(s, n) + 1)
    <2> SUFFICES ASSUME NEW n \in 1..N
                 PROVE  R[n] = Lowered(s, NthStart(s, n),
                                       TokenEnd(s, NthStart(s, n)) - NthStart(s, n) + 1)
      OBVIOUS
    <2>1. st[n] \in Nat /\ ln[n] \in Nat
      BY <1>2
    <2>2. TokenEnd(s, NthStart(s, n)) - NthStart(s, n) + 1 = ln[n]
      BY <1>7, <1>8, <2>1
    <2>3. QED
      BY <1>7, <1>8, <2>2
  <1>10. R = [n \in 1..N |-> R[n]]
    BY <1>1, <1>2
  <1>11. QED
    BY <1>5, <1>9, <1>10, RefUnfolds

(* ParseCodecList(), the tokenizer of the "codecs" value of a decoder      *)
(* block, returns for every value exactly the maximal runs of             *)
(* non-delimiters, lower-cased, in the order they occur.                   *)
THEOREM ParseCorrect ==
  ASSUME NEW C, NEW s \in Seq(C)
  PROVE  ParseCodecList(s) = CodecTokensRef(s)
  <1>1. ScanUpTo(s, ScanFold(s), Len(s))
    BY ScanEquation
  <1>2. ScanInv(s, Len(s), ScanFold(s)[Len(s)].done, ScanFold(s)[Len(s)].tok)
    <2>1. Len(s) \in 0..Len(s)
      OBVIOUS
    <2>2. QED
      BY <1>1, <2>1, ScanAll
  <1>3. PICK st, ln : ScanWit(s, Len(s), ScanFold(s)[Len(s)].done, ScanFold(s)[Len(s)].tok, st, ln)
    BY <1>2 DEF ScanInv
  <1>4. PICK st2, ln2 :
          FinalWit(s, PushToken(ScanFold(s)[Len(s)].done, ScanFold(s)[Len(s)].tok), st2, ln2)
    BY <1>3, ScanFinal
  <1>5. PushToken(ScanFold(s)[Len(s)].done, ScanFold(s)[Len(s)].tok) = CodecTokensRef(s)
    BY <1>4, RefMatches
  <1>6. QED
    BY <1>5, ParseIsFold
-----------------------------------------------------------------------------
\* The typed value is always a string over the model's alphabet.
InputTyped == input \in Seq(Alphabet)

(* The invariant the codeclist run checks, for every length bound: every  *)
(* value typed so far parses, through ParseCodecList(), into its maximal  *)
(* runs of non-delimiters, lower-cased, in order.                         *)
THEOREM ParseAlwaysMatches == Spec => []ParseMatchesReference
  <1>1. Init => InputTyped
    BY DEF Init, InputTyped
  <1>2. InputTyped /\ [Next]_input => InputTyped'
    <2> SUFFICES ASSUME InputTyped, [Next]_input PROVE InputTyped'
      OBVIOUS
    <2>1. ASSUME NEW c \in Alphabet, Type(c) PROVE InputTyped'
      BY <2>1 DEF InputTyped, Type
    <2>2. CASE Clear
      BY <2>2 DEF InputTyped, Clear
    <2>3. CASE UNCHANGED input
      BY <2>3 DEF InputTyped
    <2>4. QED
      BY <2>1, <2>2, <2>3 DEF Next
  <1>3. InputTyped => ParseMatchesReference
    BY ParseCorrect DEF InputTyped, ParseMatchesReference
  <1>4. QED
    BY <1>1, <1>2, <1>3, PTL DEF Spec
=============================================================================
