-------------------------- MODULE FrameCountDecode --------------------------
(***************************************************************************)
(* The decode loops of the aopsf and upse plugins (aopsf_file_decode,      *)
(* upse_file_decode).  Neither fades: both count the frames played         *)
(* (frames_played) against the length in frames (length_frames), which    *)
(* already includes the fade, and re-base the count on a seek.             *)
(*                                                                         *)
(* aopsf renders at most AOPSF_BUFFER_FRAMES (B) per iteration, clipped to *)
(* what is left of the song, and tests the end before it renders.  upse    *)
(* takes whatever upse_eventloop_render() returns (a size in Chunks) and   *)
(* tests the end after it submitted it.  Time is counted in frames; a      *)
(* duration of 0 means the file has no usable length.                      *)
(***************************************************************************)
EXTENDS Integers

CONSTANTS
  Variant,      \* "aopsf" (AopsfDecoderPlugin.cxx) or "upse" (UpseDecoderPlugin.cxx)
  B,            \* AOPSF_BUFFER_FRAMES
  Chunks,       \* frame counts upse_eventloop_render() may return
  Lengths,      \* possible durations of a file, in frames (0: none)
  SeekTargets,  \* possible seek positions answered by GetSeekTime()
  MaxSeeks,     \* bound on the seeks of one decode call
  MaxPos        \* bound on the frames played of a file without length

ASSUME FrameCountAssumption ==
  /\ Variant \in {"aopsf", "upse"}
  /\ B \in Nat \ {0}
  /\ Chunks \subseteq Nat \ {0}
  /\ \E c \in Chunks : \A d \in Chunks : d <= c   \* a largest chunk
  /\ Lengths \subseteq Nat /\ SeekTargets \subseteq Nat
  /\ MaxSeeks \in Nat /\ MaxPos \in Nat

VARIABLES
  pc,              \* "idle" between decode calls, "play" inside the do-loop
  hasLength,       \* has_length, which bounds the loop
  lengthFrames,    \* length_frames
  pos,             \* frames rendered by the emulator since its last restart
  framesPlayed,    \* frames_played
  lastStart,       \* emulator position of the first frame last submitted
  lastEnd,         \* emulator position after the last frame submitted
  seeks            \* SEEK commands received in this decode call

vars == <<pc, hasLength, lengthFrames, pos, framesPlayed,
          lastStart, lastEnd, seeks>>

\* std::min on int64_t
MinI64(a, b) == IF a <= b THEN a ELSE b

-----------------------------------------------------------------------------
(* A decode call after the file was loaded and started.  aopsf stops at   *)
(* the length it announced to Ready(); upse bounds the loop only when the  *)
(* metadata is there and the duration is non-zero.                         *)
Open ==
  /\ pc = "idle"
  /\ \E duration \in Lengths, meta \in BOOLEAN :
       /\ Variant = "aopsf" => meta
       /\ hasLength' = (meta /\ duration > 0)
       /\ lengthFrames' = IF meta /\ duration > 0 THEN duration ELSE 0
  /\ pc' = "play"
  /\ pos' = 0
  /\ framesPlayed' = 0
  /\ lastStart' = 0
  /\ lastEnd' = 0
  /\ seeks' = 0

\* Submitting n frames rendered from the current position.
Submit(n) ==
  /\ pos' = pos + n
  /\ lastStart' = pos
  /\ lastEnd' = pos + n

\* A file without a length plays on until a command; MaxPos bounds it.
MayContinue(n) == pos + n <= MaxPos

-----------------------------------------------------------------------------
(* aopsf: the loop ends before rendering when nothing is left of the song. *)
AopsfRemainingLate == lengthFrames - framesPlayed < 0
AopsfRemainingDone == lengthFrames - framesPlayed <= 0

AopsfAtEnd == hasLength /\ AopsfRemainingDone

AopsfEnd ==
  /\ Variant = "aopsf" /\ pc = "play"
  /\ AopsfAtEnd
  /\ pc' = "idle"
  /\ UNCHANGED <<hasLength, lengthFrames, pos, framesPlayed,
                 lastStart, lastEnd, seeks>>

\* aopsf: the number of frames rendered in one iteration.
AopsfFramesUnclipped == B
AopsfFrames == IF hasLength THEN MinI64(lengthFrames - framesPlayed, B) ELSE B

\* aopsf: psf_gen / psf2_gen fails; the loop breaks.
AopsfGenFailed ==
  /\ Variant = "aopsf" /\ pc = "play"
  /\ ~AopsfAtEnd
  /\ pc' = "idle"
  /\ UNCHANGED <<hasLength, lengthFrames, pos, framesPlayed,
                 lastStart, lastEnd, seeks>>

\* aopsf: one buffer submitted; SubmitAudio() returns NONE or STOP.
AopsfPlay(cmd) ==
  /\ Variant = "aopsf" /\ pc = "play"
  /\ ~AopsfAtEnd
  /\ cmd = "NONE" => MayContinue(AopsfFrames)
  /\ Submit(AopsfFrames)
  /\ framesPlayed' = framesPlayed + AopsfFrames
  /\ pc' = IF cmd = "STOP" THEN "idle" ELSE "play"
  /\ UNCHANGED <<hasLength, lengthFrames, seeks>>

(* aopsf: SubmitAudio() returns SEEK.  AopsfSeek() restarts the emulator   *)
(* and renders up to the target; on failure the command becomes STOP.      *)
(* frames_played is re-based on the target (on 0 without a length), and    *)
(* CommandFinished() is called either way.                                 *)
AopsfSeekPlayedReset(target) == 0

AopsfSeekPlayed(target) == IF hasLength THEN target ELSE 0

AopsfPlaySeek ==
  /\ Variant = "aopsf" /\ pc = "play"
  /\ ~AopsfAtEnd
  /\ seeks < MaxSeeks
  /\ lastStart' = pos
  /\ lastEnd' = pos + AopsfFrames
  /\ seeks' = seeks + 1
  /\ \E target \in SeekTargets, ok \in BOOLEAN :
       IF ok THEN /\ pos' = target
                  /\ framesPlayed' = AopsfSeekPlayed(target)
                  /\ pc' = "play"
             ELSE /\ pos' = pos + AopsfFrames
                  /\ framesPlayed' = framesPlayed + AopsfFrames
                  /\ pc' = "idle"
  /\ UNCHANGED <<hasLength, lengthFrames>>

-----------------------------------------------------------------------------
(* upse: upse_eventloop_render() returns no frames; the loop breaks.       *)
UpseRenderEnd ==
  /\ Variant = "upse" /\ pc = "play"
  /\ pc' = "idle"
  /\ UNCHANGED <<hasLength, lengthFrames, pos, framesPlayed,
                 lastStart, lastEnd, seeks>>

UpseReachedBefore(n) == hasLength /\ framesPlayed >= lengthFrames

\* upse: the length test that follows SubmitAudio().
UpseReached(n) == hasLength /\ framesPlayed + n >= lengthFrames

(* upse: n frames submitted reach the length: the loop breaks before it    *)
(* looks at the command.                                                   *)
UpseLengthReached(n) ==
  /\ Variant = "upse" /\ pc = "play"
  /\ UpseReached(n)
  /\ Submit(n)
  /\ framesPlayed' = framesPlayed + n
  /\ pc' = "idle"
  /\ UNCHANGED <<hasLength, lengthFrames, seeks>>

\* upse: n frames submitted; SubmitAudio() returns NONE or STOP.
UpsePlay(n, cmd) ==
  /\ Variant = "upse" /\ pc = "play"
  /\ ~UpseReached(n)
  /\ cmd = "NONE" => MayContinue(n)
  /\ Submit(n)
  /\ framesPlayed' = framesPlayed + n
  /\ pc' = IF cmd = "STOP" THEN "idle" ELSE "play"
  /\ UNCHANGED <<hasLength, lengthFrames, seeks>>

(* upse: SubmitAudio() returns SEEK: upse_eventloop_seek() to the target,  *)
(* frames_played re-based on it when there is a length, CommandFinished(). *)
UpseSeekPlayedKeep(n, target) == framesPlayed + n

UpseSeekPlayed(n, target) == IF hasLength THEN target ELSE framesPlayed + n

UpsePlaySeek(n) ==
  /\ Variant = "upse" /\ pc = "play"
  /\ ~UpseReached(n)
  /\ seeks < MaxSeeks
  /\ lastStart' = pos
  /\ lastEnd' = pos + n
  /\ seeks' = seeks + 1
  /\ \E target \in SeekTargets :
       /\ pos' = target
       /\ framesPlayed' = UpseSeekPlayed(n, target)
  /\ pc' = "play"
  /\ UNCHANGED <<hasLength, lengthFrames>>

-----------------------------------------------------------------------------
Init ==
  /\ pc = "idle"
  /\ hasLength = FALSE
  /\ lengthFrames = 0
  /\ pos = 0
  /\ framesPlayed = 0
  /\ lastStart = 0
  /\ lastEnd = 0
  /\ seeks = 0

Next ==
  \/ Open
  \/ AopsfEnd
  \/ AopsfGenFailed
  \/ \E cmd \in {"NONE", "STOP"} : AopsfPlay(cmd)
  \/ AopsfPlaySeek
  \/ UpseRenderEnd
  \/ \E n \in Chunks :
       \/ UpseLengthReached(n)
       \/ \E cmd \in {"NONE", "STOP"} : UpsePlay(n, cmd)
       \/ UpsePlaySeek(n)

(* The decode thread keeps running its loop (a hung library call is        *)
(* outside this layer, spec section 5).                                    *)
Fairness == WF_vars(AopsfEnd \/ AopsfPlay("NONE"))

Spec == Init /\ [][Next]_vars /\ Fairness

-----------------------------------------------------------------------------
(* While a file with a length plays, frames_played is the emulator's real *)
(* position, across seeks: the end test counts the frames that were really *)
(* rendered since the start or since the seek target.                      *)
PlayedTracksPosition == (pc = "play" /\ hasLength) => framesPlayed = pos

(* aopsf never submits audio past the announced length: the last buffer is *)
(* clipped to what is left of the song, also after a seek.                 *)
AudioWithinLength == (Variant = "aopsf" /\ hasLength) => lastEnd <= lengthFrames

(* Both loops implement the promise of a decode call (DecodeCall): while  *)
(* the call goes on, a file with a length is played at most to its length *)
(* (the fade included), each iteration moves the emulator by at most one  *)
(* buffer or chunk, every SEEK is answered, and the call returns on its   *)
(* own only at the length.  upse may end one chunk past it.                *)
StepBound ==
  IF Variant = "aopsf" THEN B ELSE CHOOSE c \in Chunks : \A d \in Chunks : d <= c

DC == INSTANCE DecodeCall
        WITH MaxStep <- StepBound, state <- pc, bounded <- hasLength,
             songEnd <- lengthFrames, at <- pos, answered <- seeks

ImplementsDecodeCall == DC!Spec

(* An aopsf decode call of a file with a length returns: frames_played     *)
(* reaches length_frames (or a command or error ends it).                  *)
SongEnds == (pc = "play" /\ hasLength) ~> (pc = "idle")
=============================================================================
