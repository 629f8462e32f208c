--------------------------- MODULE FadeSeekDecode ---------------------------
(***************************************************************************)
(* The decode loop shared by the lazyusf and lazygsf plugins               *)
(* (lazyusf_file_decode, gsf_file_decode): render one buffer of B frames,  *)
(* count down the song body (song_remaining) and then the fade             *)
(* (fade_remaining), fade the samples of the buffer that lie past the      *)
(* body, submit the buffer, stop at the end of the fade, and answer a SEEK *)
(* by restarting the emulator and skipping to the target frame.            *)
(*                                                                         *)
(* Data abstraction: a sample is represented by the gain it is given: Full *)
(* for an untouched sample, or Scaled(n) when FadeSample scales it by      *)
(* n / fade_total (Scaled(0) is silence).  Time is counted                 *)
(* in frames; the conversion ms * rate / 1000 is done before the loop and  *)
(* its inputs are the constants Lengths, Fades and SeekTargets.            *)
(***************************************************************************)
EXTENDS Integers

CONSTANTS
  Variant,      \* "usf" (LazyusfDecoderPlugin.cxx) or "gsf" (LazygsfDecoderPlugin.cxx)
  B,            \* LAZYUSF_BUFFER_FRAMES / GSF_BUFFER_FRAMES
  Lengths,      \* possible length_frames of a file with a length tag
  Fades,        \* possible fade_total
  SeekTargets,  \* possible seek_frames answered by GetSeekTime()
  MaxSeeks,     \* bound on the seeks of one decode call
  MaxPos        \* bound on the frames played of a file without length

ASSUME DecodeAssumption ==
  /\ Variant \in {"usf", "gsf"}
  /\ B \in Nat \ {0}
  /\ Lengths \subseteq Nat /\ Fades \subseteq Nat /\ SeekTargets \subseteq Nat
  /\ MaxSeeks \in Nat /\ MaxPos \in Nat

VARIABLES
  pc,              \* "idle" between decode calls, "play" inside the do-loop
  hasLength,       \* has_length
  lengthFrames,    \* length_frames
  fadeTotal,       \* fade_total
  pos,             \* frames rendered by the emulator since its last restart
  songRemaining,   \* song_remaining
  fadeRemaining,   \* fade_remaining
  bufStart,        \* emulator position of frame 0 of the last submitted buffer
  gain,            \* gain of each frame of the last submitted buffer
  seeks,           \* SEEK commands received in this decode call
  seekDropped      \* the last decode call returned with a SEEK unanswered

vars == <<pc, hasLength, lengthFrames, fadeTotal, pos, songRemaining,
          fadeRemaining, bufStart, gain, seeks, seekDropped>>

Frames == 0..(B - 1)
Gains == [faded : BOOLEAN, by : Nat]
Full == [faded |-> FALSE, by |-> 0]
Scaled(n) == [faded |-> TRUE, by |-> n]
\* No buffer submitted yet in this decode call.
NoBuffer == [i \in {} |-> Full]

\* std::max / std::min on int64_t
MaxI64(a, b) == IF a >= b THEN a ELSE b
MinI64(a, b) == IF a <= b THEN a ELSE b

-----------------------------------------------------------------------------
(* ApplyFade of LazyusfDecoderPlugin.cxx: frames before start_frame are    *)
(* left alone; frame i from there on is scaled by                          *)
(* fade_remaining - (i - start_frame), or silenced when that is <= 0 or    *)
(* fade_total <= 0 (FadeUSFSample returns 0 for a numerator <= 0).         *)
UsfGainOffByOne(i, start, remaining, total) ==
  IF i < start THEN Full
  ELSE LET r == remaining - (i - start) + 1
       IN Scaled(IF total <= 0 \/ r <= 0 THEN 0 ELSE r)

UsfGain(i, start, remaining, total) ==
  IF i < start THEN Full
  ELSE LET r == remaining - (i - start)
       IN Scaled(IF total <= 0 \/ r <= 0 THEN 0 ELSE r)

(* ApplyFade of LazygsfDecoderPlugin.cxx: nothing is done when fade_total  *)
(* <= 0; otherwise fade_remaining is clamped at 0 and every frame i of the *)
(* buffer is scaled by fade_remaining - (offset_frames + i), 0 when that   *)
(* is <= 0 (FadeSample).                                                   *)
GsfGain(i, offset, remaining, total) ==
  IF total <= 0 THEN Full
  ELSE Scaled(MaxI64(MaxI64(remaining, 0) - (offset + i), 0))

FadeGain(i, start, remaining, total) ==
  IF Variant = "usf" THEN UsfGain(i, start, remaining, total)
                     ELSE GsfGain(i, start, remaining, total)

-----------------------------------------------------------------------------
(* The part of one loop iteration up to SubmitAudio(): the counters after  *)
(* the buffer was rendered and the gains of its frames.                    *)
RemainingBefore == songRemaining
Fading == hasLength /\ RemainingBefore <= B
FadeStart == MaxI64(RemainingBefore, 0)

SongRemainingAfter ==
  IF hasLength /\ songRemaining > 0 THEN songRemaining - B ELSE songRemaining

FadeRemainingAfter ==
  IF Fading THEN MaxI64(fadeRemaining - (B - FadeStart), 0) ELSE fadeRemaining

BufferGain ==
  [i \in Frames |-> IF Fading
                    THEN FadeGain(i, FadeStart, fadeRemaining, fadeTotal)
                    ELSE Full]

\* The end-of-song test that follows SubmitAudio().
EndOfSongLate ==
  hasLength /\ SongRemainingAfter <= 0 /\ FadeRemainingAfter < 0

EndOfSong ==
  hasLength /\ SongRemainingAfter <= 0 /\ FadeRemainingAfter <= 0

\* Render() and SubmitAudio() of one iteration.
RenderAndSubmit ==
  /\ pos' = pos + B
  /\ bufStart' = pos
  /\ gain' = BufferGain

-----------------------------------------------------------------------------
(* A decode call: LazyUSF_openfile / GsfLoadFile has read the length and   *)
(* fade tags, Ready() was called and the counters are set (has_length is   *)
(* length_ms > 0; length_frames is 0 without it).                          *)
Open ==
  /\ pc = "idle"
  /\ \E has \in BOOLEAN, len \in Lengths, fade \in Fades :
       /\ hasLength' = has
       /\ lengthFrames' = IF has THEN len ELSE 0
       /\ fadeTotal' = fade
       /\ songRemaining' = IF has THEN len ELSE 0
       /\ fadeRemaining' = fade
  /\ pc' = "play"
  /\ pos' = 0
  /\ bufStart' = 0
  /\ gain' = NoBuffer
  /\ seeks' = 0
  /\ seekDropped' = FALSE

\* Render() or gsf_render() fails: the error is logged and decode returns.
RenderFailed ==
  /\ pc = "play"
  /\ pc' = "idle"
  /\ UNCHANGED <<hasLength, lengthFrames, fadeTotal, pos, songRemaining,
                 fadeRemaining, bufStart, gain, seeks, seekDropped>>

(* The buffer ends the fade: the loop breaks before it looks at the        *)
(* command SubmitAudio() returned, so a SEEK returned here is never done   *)
(* nor answered with CommandFinished().                                    *)
PlayToEnd(cmd) ==
  /\ pc = "play"
  /\ EndOfSong
  /\ cmd = "SEEK" => seeks < MaxSeeks
  /\ RenderAndSubmit
  /\ songRemaining' = SongRemainingAfter
  /\ fadeRemaining' = FadeRemainingAfter
  /\ pc' = "idle"
  /\ seeks' = IF cmd = "SEEK" THEN seeks + 1 ELSE seeks
  /\ seekDropped' = (cmd = "SEEK")
  /\ UNCHANGED <<hasLength, lengthFrames, fadeTotal>>

(* SubmitAudio() returns NONE or STOP.  A file without a length plays on   *)
(* until a command; MaxPos bounds it by offering only STOP past it.  It is *)
(* chosen above every end of fade and seek target plus a buffer, so a file *)
(* with a length never meets it.                                           *)
PlayBuffer(cmd) ==
  /\ pc = "play"
  /\ ~EndOfSong
  /\ cmd = "NONE" => pos + B <= MaxPos
  /\ RenderAndSubmit
  /\ songRemaining' = SongRemainingAfter
  /\ fadeRemaining' = FadeRemainingAfter
  /\ pc' = IF cmd = "STOP" THEN "idle" ELSE "play"
  /\ UNCHANGED <<hasLength, lengthFrames, fadeTotal, seeks, seekDropped>>

(* The counters after a seek to frame target, from the restarted state:    *)
(* skip to the target, take what was skipped off the body, and start the  *)
(* fade part-way when the target lies past the body.                       *)
SeekSongRemaining(target) ==
  LET targetRemaining == lengthFrames - target
      toSkip == MaxI64(lengthFrames - targetRemaining, 0)
      body == IF lengthFrames > 0
              THEN lengthFrames - MinI64(toSkip, lengthFrames)
              ELSE lengthFrames
  IN IF targetRemaining < 0 THEN 0 ELSE body

SeekFadeRemainingKeep(target) == fadeTotal

SeekFadeRemainingUnclamped(target) ==
  LET targetRemaining == lengthFrames - target
  IN IF targetRemaining < 0 THEN fadeTotal + targetRemaining ELSE fadeTotal

SeekFadeRemaining(target) ==
  LET targetRemaining == lengthFrames - target
  IN IF targetRemaining < 0 THEN MaxI64(fadeTotal + targetRemaining, 0)
                            ELSE fadeTotal

(* SubmitAudio() returns SEEK: usf_restart / gsf_restart, SkipFrames() to  *)
(* the target and CommandFinished().  Without a length the counters are    *)
(* only reset.  A SkipFrames() failure returns from decode before          *)
(* CommandFinished(): a failed seek, which ends the call (spec section 7), *)
(* not a dropped one.                                                      *)
PlayBufferAndSeek ==
  /\ pc = "play"
  /\ ~EndOfSong
  /\ seeks < MaxSeeks
  /\ bufStart' = pos
  /\ gain' = BufferGain
  /\ seeks' = seeks + 1
  /\ \E target \in SeekTargets, skipOk \in BOOLEAN :
       /\ pos' = target
       /\ songRemaining' = IF hasLength THEN SeekSongRemaining(target)
                                         ELSE lengthFrames
       /\ fadeRemaining' = IF hasLength THEN SeekFadeRemaining(target)
                                         ELSE fadeTotal
       /\ pc' = IF skipOk THEN "play" ELSE "idle"
  /\ UNCHANGED <<hasLength, lengthFrames, fadeTotal, seekDropped>>

Init ==
  /\ pc = "idle"
  /\ hasLength = FALSE
  /\ lengthFrames = 0
  /\ fadeTotal = 0
  /\ pos = 0
  /\ songRemaining = 0
  /\ fadeRemaining = 0
  /\ bufStart = 0
  /\ gain = NoBuffer
  /\ seeks = 0
  /\ seekDropped = FALSE

Commands == {"NONE", "STOP", "SEEK"}

Next ==
  \/ Open
  \/ RenderFailed
  \/ \E cmd \in Commands : PlayToEnd(cmd)
  \/ \E cmd \in {"NONE", "STOP"} : PlayBuffer(cmd)
  \/ PlayBufferAndSeek

(* The decode thread keeps running its loop: a render call returns         *)
(* (a hung third-party call is outside this layer, spec section 5).       *)
Fairness == WF_vars((\E cmd \in Commands : PlayToEnd(cmd)) \/ PlayBuffer("NONE"))

Spec == Init /\ [][Next]_vars /\ Fairness

-----------------------------------------------------------------------------
\* Every variable holds a value of its type.
TypeOK ==
  /\ pc \in {"idle", "play"}
  /\ hasLength \in BOOLEAN
  /\ lengthFrames \in Nat /\ fadeTotal \in Nat
  /\ pos \in Nat /\ bufStart \in Nat
  /\ songRemaining \in Int /\ fadeRemaining \in Nat
  /\ gain \in [{} -> Gains] \cup [Frames -> Gains]
  /\ seeks \in 0..MaxSeeks
  /\ seekDropped \in BOOLEAN

(* The body and fade counters describe the emulator's real position, also  *)
(* after a seek into the body, into the fade or past it: the body counter  *)
(* is the distance to the end of the body while that is positive, and the  *)
(* fade counter is what is left of the fade at the current position.       *)
CountersTrackPosition ==
  (pc = "play" /\ hasLength) =>
    /\ songRemaining > 0 => songRemaining = lengthFrames - pos
    /\ songRemaining <= 0 => pos >= lengthFrames
    /\ fadeRemaining = MaxI64(fadeTotal - MaxI64(pos - lengthFrames, 0), 0)

(* Every frame of every submitted buffer of a file with a length has the   *)
(* gain its position calls for: untouched in the body, scaled by the part  *)
(* of the fade still to play during the fade, silent after it.            *)
ExpectedGain(q) ==
  IF q < lengthFrames THEN Full
  ELSE Scaled(MaxI64(lengthFrames + fadeTotal - q, 0))

FadeFollowsPosition ==
  hasLength => \A i \in DOMAIN gain : gain[i] = ExpectedGain(bufStart + i)

(* Spec section 5: on a seek command the decode loop performs the seek and *)
(* signals completion; only a failure ends the call early.  No decode call *)
(* returns at the end of the song with a SEEK it was handed neither done   *)
(* nor failed: the end-of-song break must not come before the SEEK test.   *)
SeekAnswered == ~seekDropped

(* The loop implements the promise of a decode call (DecodeCall): it     *)
(* never plays a song with a length past the end of its fade while the    *)
(* call goes on, and returns on its own only once that end is reached.     *)
(* The position is the emulator's; the end is length_frames + fade_total; *)
(* the seeks answered are those received (done or failed) but the one a   *)
(* last buffer drops.                                                      *)
DC == INSTANCE DecodeCall
        WITH MaxStep <- B, state <- pc, bounded <- hasLength,
             songEnd <- IF hasLength THEN lengthFrames + fadeTotal ELSE 0,
             at <- pos,
             answered <- IF seekDropped THEN seeks - 1 ELSE seeks

ImplementsDecodeCall == DC!Spec

(* A decode call of a file with a length tag returns: the fade counter     *)
(* reaches zero and the loop breaks (or a command or error ends it).       *)
SongEnds == (pc = "play" /\ hasLength) ~> (pc = "idle")
=============================================================================
