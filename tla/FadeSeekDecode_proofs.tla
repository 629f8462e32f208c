------------------------ MODULE FadeSeekDecode_proofs ------------------------
(***************************************************************************)
(* Proofs about the decode loop of lazyusf and lazygsf: type correctness,  *)
(* and that the body and fade counters describe the emulator's position,  *)
(* for every buffer size, length, fade and seek target.                    *)
(***************************************************************************)
EXTENDS FadeSeekDecode, TLAPS

USE DecodeAssumption

-----------------------------------------------------------------------------
\* Each frame of a faded buffer gets a gain: full, or scaled by a count >= 0.
LEMMA FadeGainType ==
  ASSUME NEW i \in Int, NEW start \in Int, NEW remaining \in Int, NEW total \in Int
  PROVE  FadeGain(i, start, remaining, total) \in Gains
  <1>1. UsfGain(i, start, remaining, total) \in Gains
    BY DEF UsfGain, Full, Scaled, Gains
  <1>2. GsfGain(i, start, remaining, total) \in Gains
    BY DEF GsfGain, MaxI64, Full, Scaled, Gains
  <1>3. QED
    BY <1>1, <1>2 DEF FadeGain

\* The gains of a submitted buffer form a function on its frames.
LEMMA BufferGainType ==
  ASSUME TypeOK
  PROVE  BufferGain \in [Frames -> Gains]
  <1>1. FadeStart \in Int
    BY DEF TypeOK, FadeStart, RemainingBefore, MaxI64
  <1>2. \A i \in Frames : FadeGain(i, FadeStart, fadeRemaining, fadeTotal) \in Gains
    BY <1>1, FadeGainType DEF TypeOK, Frames
  <1>3. Full \in Gains
    BY DEF Full, Gains
  <1>4. QED
    BY <1>2, <1>3 DEF BufferGain

\* The fade counter after a buffer stays a natural number.
LEMMA FadeRemainingAfterType ==
  ASSUME TypeOK
  PROVE  FadeRemainingAfter \in Nat
  BY DEF TypeOK, FadeRemainingAfter, Fading, FadeStart, RemainingBefore, MaxI64

\* Before the first buffer of a call, the gains are the empty function.
LEMMA NoBufferType == NoBuffer \in [{} -> Gains]
  BY Zenon DEF NoBuffer

-----------------------------------------------------------------------------
\* Type correctness: every reachable state of the decode loop satisfies TypeOK.
THEOREM TypeCorrect == Spec => []TypeOK
  <1>1. Init => TypeOK
    <2> SUFFICES ASSUME Init PROVE TypeOK
      OBVIOUS
    <2>1. gain \in [{} -> Gains]
      BY NoBufferType DEF Init
    <2>2. seeks \in 0..MaxSeeks
      BY DEF Init
    <2>3. lengthFrames \in Nat /\ fadeTotal \in Nat /\ pos \in Nat /\ bufStart \in Nat
      BY DEF Init
    <2>4. songRemaining \in Int /\ fadeRemaining \in Nat
      BY DEF Init
    <2>5. pc \in {"idle", "play"} /\ hasLength \in BOOLEAN /\ seekDropped \in BOOLEAN
      BY DEF Init
    <2>6. QED
      BY <2>1, <2>2, <2>3, <2>4, <2>5 DEF TypeOK
  <1>2. TypeOK /\ [Next]_vars => TypeOK'
    <2> SUFFICES ASSUME TypeOK, [Next]_vars PROVE TypeOK'
      OBVIOUS
    <2>1. CASE Open
      <3>1. gain' \in [{} -> Gains]
        BY <2>1, NoBufferType DEF Open
      <3>2. PICK has \in BOOLEAN, len \in Lengths, fade \in Fades :
              /\ hasLength' = has
              /\ lengthFrames' = IF has THEN len ELSE 0
              /\ fadeTotal' = fade
              /\ songRemaining' = IF has THEN len ELSE 0
              /\ fadeRemaining' = fade
        BY <2>1 DEF Open
      <3>3. lengthFrames' \in Nat /\ fadeTotal' \in Nat /\ songRemaining' \in Int
            /\ fadeRemaining' \in Nat /\ hasLength' \in BOOLEAN
        BY <3>2
      <3>4. pc' = "play" /\ pos' = 0 /\ bufStart' = 0 /\ seeks' = 0
            /\ seekDropped' = FALSE
        BY <2>1 DEF Open
      <3>5. (gain \in [{} -> Gains] \cup [Frames -> Gains])'
        BY <3>1
      <3>6. (seeks \in 0..MaxSeeks)'
        BY <3>4
      <3>7. QED
        BY <3>3, <3>4, <3>5, <3>6 DEF TypeOK
    <2>2. CASE RenderFailed
      BY <2>2 DEF RenderFailed, TypeOK
    <2>3. ASSUME NEW cmd \in Commands, PlayToEnd(cmd) PROVE TypeOK'
      <3>1. gain' \in [Frames -> Gains]
        BY <2>3, BufferGainType DEF PlayToEnd, RenderAndSubmit
      <3>2. fadeRemaining' \in Nat
        BY <2>3, FadeRemainingAfterType DEF PlayToEnd
      <3>3. QED
        BY <2>3, <3>1, <3>2 DEF PlayToEnd, RenderAndSubmit, SongRemainingAfter, TypeOK
    <2>4. ASSUME NEW cmd \in {"NONE", "STOP"}, PlayBuffer(cmd) PROVE TypeOK'
      <3>1. gain' \in [Frames -> Gains]
        BY <2>4, BufferGainType DEF PlayBuffer, RenderAndSubmit
      <3>2. fadeRemaining' \in Nat
        BY <2>4, FadeRemainingAfterType DEF PlayBuffer
      <3>3. QED
        BY <2>4, <3>1, <3>2 DEF PlayBuffer, RenderAndSubmit, SongRemainingAfter, TypeOK
    <2>5. CASE PlayBufferAndSeek
      <3>1. gain' \in [Frames -> Gains]
        BY <2>5, BufferGainType DEF PlayBufferAndSeek
      <3>2. PICK target \in SeekTargets, skipOk \in BOOLEAN :
              /\ pos' = target
              /\ songRemaining' = IF hasLength THEN SeekSongRemaining(target)
                                                ELSE lengthFrames
              /\ fadeRemaining' = IF hasLength THEN SeekFadeRemaining(target)
                                                ELSE fadeTotal
              /\ pc' = IF skipOk THEN "play" ELSE "idle"
        BY <2>5 DEF PlayBufferAndSeek
      <3>3. target \in Nat
        BY DecodeAssumption
      <3>4. songRemaining' \in Int /\ fadeRemaining' \in Nat
        BY <3>2, <3>3 DEF SeekSongRemaining, SeekFadeRemaining, MaxI64, MinI64, TypeOK
      <3>5. seeks' \in 0..MaxSeeks /\ bufStart' \in Nat
        BY <2>5 DEF PlayBufferAndSeek, TypeOK
      <3>6. QED
        BY <2>5, <3>1, <3>2, <3>3, <3>4, <3>5 DEF PlayBufferAndSeek, TypeOK
    <2>6. CASE UNCHANGED vars
      BY <2>6 DEF vars, TypeOK
    <2>7. QED
      BY <2>1, <2>2, <2>3, <2>4, <2>5, <2>6 DEF Next
  <1>3. QED
    BY <1>1, <1>2, PTL DEF Spec

-----------------------------------------------------------------------------
(* One buffer of a file with a length moves the body and fade counters     *)
(* along with the emulator position: the body counter drops by the buffer  *)
(* while positive, and the fade counter by the part of the buffer past the *)
(* body (lazyusf_file_decode, the has_length block before SubmitAudio()).  *)
LEMMA BufferStepKeepsCounters ==
  ASSUME TypeOK, hasLength, pc = "play", CountersTrackPosition
  PROVE  LET p == pos + B
             s == SongRemainingAfter
             f == FadeRemainingAfter
         IN  /\ s > 0 => s = lengthFrames - p
             /\ s <= 0 => p >= lengthFrames
             /\ f = MaxI64(fadeTotal - MaxI64(p - lengthFrames, 0), 0)
  <1> USE DEF TypeOK, CountersTrackPosition, SongRemainingAfter,
              FadeRemainingAfter, Fading, FadeStart, RemainingBefore, MaxI64
  <1>1. CASE songRemaining > B
    BY <1>1
  <1>2. CASE songRemaining > 0 /\ songRemaining <= B
    BY <1>2
  <1>3. CASE songRemaining <= 0
    BY <1>3
  <1>4. QED
    BY <1>1, <1>2, <1>3

(* A seek of a file with a length sets the counters from the target alone  *)
(* (the restart and skip of lazyusf_file_decode's SEEK branch).            *)
LEMMA SeekKeepsCounters ==
  ASSUME TypeOK, NEW target \in Nat
  PROVE  LET s == SeekSongRemaining(target)
             f == SeekFadeRemaining(target)
         IN  /\ s > 0 => s = lengthFrames - target
             /\ s <= 0 => target >= lengthFrames
             /\ f = MaxI64(fadeTotal - MaxI64(target - lengthFrames, 0), 0)
  BY DEF TypeOK, SeekSongRemaining, SeekFadeRemaining, MaxI64, MinI64

-----------------------------------------------------------------------------
(* The lazyusf counters describe the emulator's position in every reachable *)
(* state, for every buffer size, length, fade and seek target.  It is      *)
(* inductive together with TypeOK: a buffer moves both counters and the    *)
(* position by the same amount, and a seek recomputes both from the target *)
(* it moves the position to.                                               *)
THEOREM CountersCorrect == Spec => []CountersTrackPosition
  <1> DEFINE IInv == TypeOK /\ CountersTrackPosition
  <1>1. Init => CountersTrackPosition
    BY DEF Init, CountersTrackPosition
  <1>2. IInv /\ [Next]_vars => CountersTrackPosition'
    <2> SUFFICES ASSUME TypeOK, CountersTrackPosition, [Next]_vars
                 PROVE  CountersTrackPosition'
      OBVIOUS
    <2>1. CASE Open
      <3>1. PICK has \in BOOLEAN, len \in Lengths, fade \in Fades :
              /\ hasLength' = has
              /\ lengthFrames' = IF has THEN len ELSE 0
              /\ fadeTotal' = fade
              /\ songRemaining' = IF has THEN len ELSE 0
              /\ fadeRemaining' = fade
        BY <2>1 DEF Open
      <3>2. len \in Nat /\ fade \in Nat /\ pos' = 0
        BY <2>1 DEF Open
      <3>3. QED
        BY <3>1, <3>2 DEF CountersTrackPosition, MaxI64
    <2>2. CASE RenderFailed
      BY <2>2 DEF RenderFailed, CountersTrackPosition
    <2>3. ASSUME NEW cmd \in Commands, PlayToEnd(cmd) PROVE CountersTrackPosition'
      BY <2>3 DEF PlayToEnd, CountersTrackPosition
    <2>4. ASSUME NEW cmd \in {"NONE", "STOP"}, PlayBuffer(cmd)
          PROVE  CountersTrackPosition'
      <3>1. CASE pc' = "play" /\ hasLength'
        <4>1. pc = "play" /\ hasLength
          BY <2>4, <3>1 DEF PlayBuffer
        <4>2. /\ pos' = pos + B
              /\ songRemaining' = SongRemainingAfter
              /\ fadeRemaining' = FadeRemainingAfter
              /\ UNCHANGED <<lengthFrames, fadeTotal>>
          BY <2>4 DEF PlayBuffer, RenderAndSubmit
        <4>3. QED
          BY <4>1, <4>2, BufferStepKeepsCounters DEF CountersTrackPosition
      <3>2. QED
        BY <3>1 DEF CountersTrackPosition
    <2>5. CASE PlayBufferAndSeek
      <3>1. PICK target \in SeekTargets, skipOk \in BOOLEAN :
              /\ pos' = target
              /\ songRemaining' = IF hasLength THEN SeekSongRemaining(target)
                                                ELSE lengthFrames
              /\ fadeRemaining' = IF hasLength THEN SeekFadeRemaining(target)
                                                ELSE fadeTotal
              /\ pc' = IF skipOk THEN "play" ELSE "idle"
        BY <2>5 DEF PlayBufferAndSeek
      <3>2. UNCHANGED <<hasLength, lengthFrames, fadeTotal>>
        BY <2>5 DEF PlayBufferAndSeek
      <3>3. target \in Nat
        OBVIOUS
      <3>4. QED
        BY <3>1, <3>2, <3>3, SeekKeepsCounters DEF CountersTrackPosition
    <2>6. CASE UNCHANGED vars
      BY <2>6 DEF vars, CountersTrackPosition
    <2>7. QED
      BY <2>1, <2>2, <2>3, <2>4, <2>5, <2>6 DEF Next
  <1>3. QED
    BY <1>1, <1>2, TypeCorrect, PTL DEF Spec

-----------------------------------------------------------------------------
(* The end test of lazyusf_file_decode, song_remaining <= 0 and            *)
(* fade_remaining <= 0 after the buffer, is a test on the position: it     *)
(* holds exactly when the buffer reaches length_frames + fade_total.       *)
LEMMA EndTestIsPosition ==
  ASSUME TypeOK, hasLength, pc = "play", CountersTrackPosition
  PROVE  EndOfSong <=> pos + B >= lengthFrames + fadeTotal
  <1> USE DEF TypeOK, CountersTrackPosition, EndOfSong, SongRemainingAfter,
              FadeRemainingAfter, Fading, FadeStart, RemainingBefore, MaxI64
  <1>1. CASE songRemaining > B
    BY <1>1
  <1>2. CASE songRemaining > 0 /\ songRemaining <= B
    BY <1>2
  <1>3. CASE songRemaining <= 0
    BY <1>3
  <1>4. QED
    BY <1>1, <1>2, <1>3

\* Inside a decode call no SEEK has been dropped yet.
PlayAnswers == pc = "play" => ~seekDropped

LEMMA PlayAnswersHold == Spec => []PlayAnswers
  <1>1. Init => PlayAnswers
    BY DEF Init, PlayAnswers
  <1>2. PlayAnswers /\ [Next]_vars => PlayAnswers'
    BY DEF PlayAnswers, Next, vars, Open, RenderFailed, PlayToEnd, PlayBuffer,
           PlayBufferAndSeek
  <1>3. QED
    BY <1>1, <1>2, PTL DEF Spec

(* The lazyusf loop implements the promise of a decode call, for every    *)
(* buffer size, length, fade and seek target: a buffer that does not end  *)
(* the fade stays within length_frames + fade_total, the buffer that ends  *)
(* it reaches that frame, and each SEEK the SEEK branch takes, done or    *)
(* failed, is one answered seek.  It rests on CountersTrackPosition, via *)
(* EndTestIsPosition, and on PlayAnswers for the count of answered seeks.  *)
THEOREM DecodeRefinement == Spec => ImplementsDecodeCall
  <1>1. Init => DC!Init
    BY DEF Init, DC!Init
  <1>2. TypeOK /\ CountersTrackPosition /\ PlayAnswers /\ [Next]_vars
          => [DC!Next]_DC!avars
    <2> SUFFICES ASSUME TypeOK, CountersTrackPosition, PlayAnswers, [Next]_vars
                 PROVE  [DC!Next]_DC!avars
      OBVIOUS
    <2>1. CASE Open
      <3>1. PICK has \in BOOLEAN, len \in Lengths, fade \in Fades :
              /\ hasLength' = has
              /\ lengthFrames' = IF has THEN len ELSE 0
              /\ fadeTotal' = fade
        BY <2>1 DEF Open
      <3>2. len \in Nat /\ fade \in Nat
        OBVIOUS
      <3>3. DC!Begin
        BY <2>1, <3>1, <3>2 DEF Open, DC!Begin
      <3>4. QED
        BY <3>3 DEF DC!Next
    <2>2. CASE RenderFailed
      BY <2>2 DEF RenderFailed, DC!Next, DC!Abort
    <2>3. ASSUME NEW cmd \in Commands, PlayToEnd(cmd) PROVE [DC!Next]_DC!avars
      <3>1. hasLength /\ pc = "play" /\ pos + B >= lengthFrames + fadeTotal
        BY <2>3, EndTestIsPosition DEF PlayToEnd, EndOfSong
      <3>2. ~seekDropped /\ seeks \in Nat
        BY <2>3 DEF PlayToEnd, PlayAnswers, TypeOK
      <3>3. (IF seekDropped' THEN seeks' - 1 ELSE seeks') = seeks
        <4>1. CASE cmd = "SEEK"
          <5>1. seekDropped' /\ seeks' = seeks + 1
            BY <2>3, <4>1 DEF PlayToEnd
          <5>2. QED
            BY <3>2, <5>1
        <4>2. CASE cmd # "SEEK"
          <5>1. ~seekDropped' /\ seeks' = seeks
            BY <2>3, <4>2 DEF PlayToEnd
          <5>2. QED
            BY <5>1
        <4>3. QED
          BY <4>1, <4>2
      <3>4. pos' = pos + B /\ pos \in Nat
        BY <2>3 DEF PlayToEnd, RenderAndSubmit, TypeOK
      <3>5. DC!Finish
        BY <2>3, <3>1, <3>2, <3>3, <3>4 DEF PlayToEnd, DC!Finish, DC!Forward
      <3>6. QED
        BY <3>5 DEF DC!Next
    <2>4. ASSUME NEW cmd \in {"NONE", "STOP"}, PlayBuffer(cmd)
          PROVE  [DC!Next]_DC!avars
      <3>1. hasLength => pos + B < lengthFrames + fadeTotal
        BY <2>4, EndTestIsPosition DEF PlayBuffer, TypeOK
      <3>2. pos' = pos + B /\ pos \in Nat
        BY <2>4 DEF PlayBuffer, RenderAndSubmit, TypeOK
      <3>3. /\ pos' \in pos..(pos + B)
            /\ hasLength => pos' <= lengthFrames + fadeTotal
        BY <3>1, <3>2 DEF TypeOK
      <3>4. CASE cmd = "NONE"
        <4>1. DC!Advance
          BY <2>4, <3>3, <3>4 DEF PlayBuffer, DC!Advance, DC!Forward
        <4>2. QED
          BY <4>1 DEF DC!Next
      <3>5. CASE cmd = "STOP"
        <4>1. DC!Stop
          BY <2>4, <3>3, <3>5 DEF PlayBuffer, DC!Stop, DC!Forward
        <4>2. QED
          BY <4>1 DEF DC!Next
      <3>6. QED
        BY <3>4, <3>5
    <2>5. CASE PlayBufferAndSeek
      <3>1. ~seekDropped /\ seeks \in Nat /\ pos' \in Nat /\ seeks' = seeks + 1
        BY <2>5 DEF PlayBufferAndSeek, PlayAnswers, TypeOK
      <3>2. ~seekDropped' /\ pc' \in {"play", "idle"}
        BY <2>5, <3>1 DEF PlayBufferAndSeek
      <3>3. DC!Seek
        BY <2>5, <3>1, <3>2 DEF PlayBufferAndSeek, DC!Seek
      <3>4. QED
        BY <3>3 DEF DC!Next
    <2>6. CASE UNCHANGED vars
      BY <2>6 DEF vars, DC!avars
    <2>7. QED
      BY <2>1, <2>2, <2>3, <2>4, <2>5, <2>6 DEF Next
  <1>3. QED
    BY <1>1, <1>2, TypeCorrect, CountersCorrect, PlayAnswersHold, PTL
    DEF Spec, ImplementsDecodeCall, DC!Spec


-----------------------------------------------------------------------------
(* lazyusf's ApplyFade gives frame i of the buffer rendered at pos the     *)
(* gain that position calls for.  The fade starts at song_remaining (the   *)
(* end of the body inside the buffer, 0 once past it) and counts down from *)
(* fade_remaining; by CountersTrackPosition those are L - pos and what is  *)
(* left of the fade at pos, so the numerator fade_remaining - (i - start)  *)
(* is L + F - (pos + i).  By cases on the body counter, as in              *)
(* BufferStepKeepsCounters.                                                *)
LEMMA UsfBufferGainFollowsPosition ==
  ASSUME TypeOK, hasLength, pc = "play", CountersTrackPosition,
         Variant = "usf", NEW i \in Frames
  PROVE  BufferGain[i] = ExpectedGain(pos + i)
  <1>1. BufferGain[i] = IF Fading THEN UsfGain(i, FadeStart, fadeRemaining, fadeTotal)
                                  ELSE Full
    BY DEF BufferGain, FadeGain
  <1>2. /\ i \in Nat /\ i < B /\ pos \in Nat /\ songRemaining \in Int
        /\ lengthFrames \in Nat /\ fadeTotal \in Nat
    BY DEF TypeOK, Frames
  \* A frame of the fade: the code's numerator and the expected count agree.
  <1>3. ASSUME NEW r \in Int, pos + i >= lengthFrames,
               r = lengthFrames + fadeTotal - (pos + i)
        PROVE  Scaled(IF fadeTotal <= 0 \/ r <= 0 THEN 0 ELSE r) = ExpectedGain(pos + i)
    <2>1. (IF fadeTotal <= 0 \/ r <= 0 THEN 0 ELSE r) = MaxI64(r, 0)
      BY <1>2, <1>3 DEF MaxI64
    <2>2. ExpectedGain(pos + i) = Scaled(MaxI64(r, 0))
      BY <1>2, <1>3 DEF ExpectedGain
    <2>3. QED
      BY <2>1, <2>2
  <1>4. CASE songRemaining > B
    <2>1. ~Fading /\ pos + i < lengthFrames
      BY <1>2, <1>4 DEF Fading, RemainingBefore, CountersTrackPosition
    <2>2. QED
      BY <1>1, <2>1 DEF ExpectedGain
  <1>5. CASE songRemaining > 0 /\ songRemaining <= B
    <2>1. /\ Fading /\ FadeStart = songRemaining
          /\ songRemaining = lengthFrames - pos /\ fadeRemaining = fadeTotal
      BY <1>2, <1>5 DEF Fading, FadeStart, RemainingBefore, CountersTrackPosition,
                        MaxI64, TypeOK
    <2>2. CASE i < songRemaining
      <3>1. UsfGain(i, FadeStart, fadeRemaining, fadeTotal) = Full
        BY <2>1, <2>2 DEF UsfGain
      <3>2. pos + i < lengthFrames
        BY <1>2, <2>1, <2>2
      <3>3. QED
        BY <1>1, <2>1, <3>1, <3>2 DEF ExpectedGain
    <2>3. CASE i >= songRemaining
      <3> DEFINE num == fadeRemaining - (i - FadeStart)
      <3>1. UsfGain(i, FadeStart, fadeRemaining, fadeTotal)
              = Scaled(IF fadeTotal <= 0 \/ num <= 0 THEN 0 ELSE num)
        BY <1>2, <2>1, <2>3 DEF UsfGain
      <3>2. num \in Int /\ num = lengthFrames + fadeTotal - (pos + i)
            /\ pos + i >= lengthFrames
        BY <1>2, <2>1, <2>3
      <3>3. QED
        BY <1>1, <2>1, <3>1, <3>2, <1>3
    <2>4. QED
      BY <1>2, <2>2, <2>3
  <1>6. CASE songRemaining <= 0
    <2>1. /\ Fading /\ FadeStart = 0 /\ pos >= lengthFrames
          /\ fadeRemaining = MaxI64(fadeTotal - (pos - lengthFrames), 0)
      BY <1>2, <1>6 DEF Fading, FadeStart, RemainingBefore, CountersTrackPosition,
                        MaxI64, TypeOK
    <2> DEFINE num == fadeRemaining - (i - FadeStart)
    <2>2. UsfGain(i, FadeStart, fadeRemaining, fadeTotal)
            = Scaled(IF fadeTotal <= 0 \/ num <= 0 THEN 0 ELSE num)
      BY <1>2, <2>1 DEF UsfGain
    <2>3. CASE fadeTotal - (pos - lengthFrames) > 0
      <3>1. num \in Int /\ num = lengthFrames + fadeTotal - (pos + i)
        BY <1>2, <2>1, <2>3 DEF MaxI64
      <3>2. QED
        BY <1>1, <1>2, <2>1, <2>2, <3>1, <1>3
    <2>4. CASE fadeTotal - (pos - lengthFrames) <= 0
      <3>1. num = 0 - i /\ lengthFrames + fadeTotal - (pos + i) <= 0
        BY <1>2, <2>1, <2>4 DEF MaxI64
      <3>2. (IF fadeTotal <= 0 \/ num <= 0 THEN 0 ELSE num) = 0
        BY <1>2, <3>1
      <3>3. ExpectedGain(pos + i) = Scaled(0)
        BY <1>2, <2>1, <3>1 DEF ExpectedGain, MaxI64
      <3>4. QED
        BY <1>1, <2>1, <2>2, <3>2, <3>3
    <2>5. QED
      BY <1>2, <2>3, <2>4
  <1>7. QED
    BY <1>2, <1>4, <1>5, <1>6


(* Every frame of every buffer lazyusf submits for a file with a length    *)
(* has the gain its position calls for: full in the body, scaled by what   *)
(* is left of the fade during the fade, silent after it, also in the       *)
(* buffer in which the body ends and after any seek.  Only for the usf    *)
(* variant: lazygsf's ApplyFade breaks it (run fadeseek_gsf).  Inductive   *)
(* with TypeOK and CountersTrackPosition: each buffer's gains are computed *)
(* from the counters, which describe the position it was rendered at.     *)
THEOREM UsfFadeCorrect ==
  ASSUME Variant = "usf"
  PROVE  Spec => []FadeFollowsPosition
  <1>1. Init => FadeFollowsPosition
    BY DEF Init, FadeFollowsPosition, NoBuffer
  <1>2. TypeOK /\ CountersTrackPosition /\ FadeFollowsPosition /\ [Next]_vars
          => FadeFollowsPosition'
    <2> SUFFICES ASSUME TypeOK, CountersTrackPosition, FadeFollowsPosition,
                        [Next]_vars
                 PROVE  FadeFollowsPosition'
      OBVIOUS
    \* A step that submits the buffer rendered at pos.
    <2>1. ASSUME pc = "play", gain' = BufferGain, bufStart' = pos,
                 UNCHANGED <<hasLength, lengthFrames, fadeTotal>>
          PROVE  FadeFollowsPosition'
      <3> SUFFICES ASSUME hasLength, NEW i \in DOMAIN gain'
                   PROVE  gain'[i] = IF pos + i < lengthFrames THEN Full
                                     ELSE Scaled(MaxI64(lengthFrames + fadeTotal - (pos + i), 0))
        BY <2>1 DEF FadeFollowsPosition, ExpectedGain
      <3>1. i \in Frames
        BY <2>1 DEF BufferGain
      <3>2. BufferGain[i] = ExpectedGain(pos + i)
        BY <2>1, <3>1, UsfBufferGainFollowsPosition
      <3>3. QED
        BY <2>1, <3>2 DEF ExpectedGain
    <2>2. CASE Open
      BY <2>2 DEF Open, FadeFollowsPosition, NoBuffer
    <2>3. CASE RenderFailed
      BY <2>3 DEF RenderFailed, FadeFollowsPosition, ExpectedGain
    <2>4. ASSUME NEW cmd \in Commands, PlayToEnd(cmd) PROVE FadeFollowsPosition'
      BY <2>4, <2>1 DEF PlayToEnd, RenderAndSubmit
    <2>5. ASSUME NEW cmd \in {"NONE", "STOP"}, PlayBuffer(cmd)
          PROVE  FadeFollowsPosition'
      BY <2>5, <2>1 DEF PlayBuffer, RenderAndSubmit
    <2>6. CASE PlayBufferAndSeek
      BY <2>6, <2>1 DEF PlayBufferAndSeek
    <2>7. CASE UNCHANGED vars
      BY <2>7 DEF vars, FadeFollowsPosition, ExpectedGain
    <2>8. QED
      BY <2>2, <2>3, <2>4, <2>5, <2>6, <2>7 DEF Next
  <1>3. QED
    BY <1>1, <1>2, TypeCorrect, CountersCorrect, PTL DEF Spec
=============================================================================
