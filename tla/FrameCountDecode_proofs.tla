----------------------- MODULE FrameCountDecode_proofs -----------------------
(***************************************************************************)
(* Proofs about the decode loops of aopsf and upse: frames_played is the   *)
(* emulator's position while a file with a length plays, and aopsf never   *)
(* submits a frame past the length, for every buffer size, chunk size,     *)
(* length and seek target.                                                 *)
(***************************************************************************)
EXTENDS FrameCountDecode, TLAPS

USE FrameCountAssumption

\* The counters are integers (the int64_t of the code).
Counters ==
  /\ pc \in {"idle", "play"}
  /\ hasLength \in BOOLEAN
  /\ lengthFrames \in Nat
  /\ pos \in Nat /\ framesPlayed \in Nat
  /\ lastEnd \in Nat
  /\ seeks \in Nat

\* aopsf's buffer is never longer than what is left of the song.
LEMMA AopsfFramesBound ==
  ASSUME Counters, hasLength, ~AopsfAtEnd
  PROVE  /\ AopsfFrames \in Nat
         /\ framesPlayed + AopsfFrames <= lengthFrames
  BY DEF Counters, AopsfFrames, AopsfAtEnd, AopsfRemainingDone, MinI64

LEMMA AopsfFramesType ==
  ASSUME Counters, ~AopsfAtEnd
  PROVE  AopsfFrames \in 0..B
  BY DEF Counters, AopsfFrames, AopsfAtEnd, AopsfRemainingDone, MinI64

\* Every chunk upse renders, and every aopsf buffer, fits in one step.
LEMMA StepBoundFacts ==
  /\ StepBound \in Nat
  /\ Variant = "aopsf" => StepBound = B
  /\ \A n \in Chunks : Variant = "upse" => n <= StepBound
  <1>1. PICK c \in Chunks : \A d \in Chunks : d <= c
    BY FrameCountAssumption
  <1>2. Variant = "upse" => StepBound \in Chunks /\ \A d \in Chunks : d <= StepBound
    BY <1>1 DEF StepBound
  <1>3. QED
    BY <1>2, FrameCountAssumption DEF StepBound

-----------------------------------------------------------------------------
\* The counters keep their types in every reachable state.
THEOREM CountersTyped == Spec => []Counters
  <1>1. Init => Counters
    <2> SUFFICES ASSUME Init PROVE Counters
      OBVIOUS
    <2>1. pc = "idle" /\ hasLength = FALSE
      BY DEF Init
    <2>2. lengthFrames = 0 /\ pos = 0 /\ framesPlayed = 0 /\ lastEnd = 0 /\ seeks = 0
      BY DEF Init
    <2>3. QED
      BY <2>1, <2>2 DEF Counters
  <1>2. Counters /\ [Next]_vars => Counters'
    <2> SUFFICES ASSUME Counters, [Next]_vars PROVE Counters'
      OBVIOUS
    <2>1. CASE Open
      BY <2>1 DEF Open, Counters
    <2>2. CASE AopsfEnd \/ AopsfGenFailed \/ UpseRenderEnd
      BY <2>2 DEF AopsfEnd, AopsfGenFailed, UpseRenderEnd, Counters
    <2>3. ASSUME NEW cmd \in {"NONE", "STOP"}, AopsfPlay(cmd) PROVE Counters'
      BY <2>3, AopsfFramesType DEF AopsfPlay, Submit, Counters
    <2>4. CASE AopsfPlaySeek
      BY <2>4, AopsfFramesType DEF AopsfPlaySeek, AopsfSeekPlayed, Counters
    <2>5. ASSUME NEW n \in Chunks,
                 \/ UpseLengthReached(n)
                 \/ \E cmd \in {"NONE", "STOP"} : UpsePlay(n, cmd)
                 \/ UpsePlaySeek(n)
          PROVE  Counters'
      BY <2>5 DEF UpseLengthReached, UpsePlay, UpsePlaySeek, UpseSeekPlayed,
                  Submit, Counters
    <2>6. CASE UNCHANGED vars
      BY <2>6 DEF vars, Counters
    <2>7. QED
      BY <2>1, <2>2, <2>3, <2>4, <2>5, <2>6 DEF Next
  <1>3. QED
    BY <1>1, <1>2, PTL DEF Spec

-----------------------------------------------------------------------------
(* While a file with a length plays, frames_played equals the emulator's   *)
(* position, for aopsf and upse, across any number of seeks.  Both loops   *)
(* add the submitted frames to frames_played, and both re-base it on the   *)
(* target of a seek when the file has a length.                            *)
THEOREM PlayedCountsPosition == Spec => []PlayedTracksPosition
  <1>1. Init => PlayedTracksPosition
    BY DEF Init, PlayedTracksPosition
  <1>2. Counters /\ PlayedTracksPosition /\ [Next]_vars => PlayedTracksPosition'
    <2> SUFFICES ASSUME Counters, PlayedTracksPosition, [Next]_vars
                 PROVE  PlayedTracksPosition'
      OBVIOUS
    <2>1. CASE Open
      BY <2>1 DEF Open, PlayedTracksPosition
    <2>2. CASE AopsfEnd \/ AopsfGenFailed \/ UpseRenderEnd
      BY <2>2 DEF AopsfEnd, AopsfGenFailed, UpseRenderEnd, PlayedTracksPosition
    <2>3. ASSUME NEW cmd \in {"NONE", "STOP"}, AopsfPlay(cmd)
          PROVE  PlayedTracksPosition'
      BY <2>3, AopsfFramesType DEF AopsfPlay, Submit, PlayedTracksPosition, Counters
    <2>4. CASE AopsfPlaySeek
      BY <2>4 DEF AopsfPlaySeek, AopsfSeekPlayed, PlayedTracksPosition
    <2>5. ASSUME NEW n \in Chunks, UpseLengthReached(n)
          PROVE  PlayedTracksPosition'
      BY <2>5 DEF UpseLengthReached, PlayedTracksPosition
    <2>6. ASSUME NEW n \in Chunks, NEW cmd \in {"NONE", "STOP"}, UpsePlay(n, cmd)
          PROVE  PlayedTracksPosition'
      BY <2>6 DEF UpsePlay, Submit, PlayedTracksPosition, Counters
    <2>7. ASSUME NEW n \in Chunks, UpsePlaySeek(n)
          PROVE  PlayedTracksPosition'
      BY <2>7 DEF UpsePlaySeek, UpseSeekPlayed, PlayedTracksPosition
    <2>8. CASE UNCHANGED vars
      BY <2>8 DEF vars, PlayedTracksPosition
    <2>9. QED
      BY <2>1, <2>2, <2>3, <2>4, <2>5, <2>6, <2>7, <2>8 DEF Next
  <1>3. QED
    BY <1>1, <1>2, CountersTyped, PTL DEF Spec

-----------------------------------------------------------------------------
(* aopsf never submits a frame past the length of a file that has one.    *)
(* It rests on PlayedTracksPosition: the buffer is clipped to              *)
(* length_frames - frames_played, and that is what is left from the       *)
(* emulator's real position, so the last frame submitted ends at most at   *)
(* the length, also in the iteration that answers a seek.                  *)
THEOREM AopsfAudioWithinLength == Spec => []AudioWithinLength
  <1> DEFINE IInv == Counters /\ PlayedTracksPosition /\ AudioWithinLength
  <1>1. Init => AudioWithinLength
    BY DEF Init, AudioWithinLength
  <1>2. IInv /\ [Next]_vars => AudioWithinLength'
    <2> SUFFICES ASSUME Counters, PlayedTracksPosition, AudioWithinLength, [Next]_vars
                 PROVE  AudioWithinLength'
      OBVIOUS
    <2>1. CASE Open
      BY <2>1 DEF Open, AudioWithinLength
    <2>2. CASE AopsfEnd \/ AopsfGenFailed \/ UpseRenderEnd
      BY <2>2 DEF AopsfEnd, AopsfGenFailed, UpseRenderEnd, AudioWithinLength
    <2>3. ASSUME NEW cmd \in {"NONE", "STOP"}, AopsfPlay(cmd)
          PROVE  AudioWithinLength'
      <3>1. CASE hasLength
        <4>1. pos = framesPlayed
          BY <2>3, <3>1 DEF AopsfPlay, PlayedTracksPosition
        <4>2. framesPlayed + AopsfFrames <= lengthFrames
          BY <2>3, <3>1, AopsfFramesBound DEF AopsfPlay
        <4>3. QED
          BY <2>3, <4>1, <4>2 DEF AopsfPlay, Submit, AudioWithinLength
      <3>2. QED
        BY <2>3, <3>1 DEF AopsfPlay, AudioWithinLength
    <2>4. CASE AopsfPlaySeek
      <3>1. CASE hasLength
        <4>1. pos = framesPlayed
          BY <2>4, <3>1 DEF AopsfPlaySeek, PlayedTracksPosition
        <4>2. framesPlayed + AopsfFrames <= lengthFrames
          BY <2>4, <3>1, AopsfFramesBound DEF AopsfPlaySeek
        <4>3. QED
          BY <2>4, <4>1, <4>2 DEF AopsfPlaySeek, AudioWithinLength
      <3>2. QED
        BY <2>4, <3>1 DEF AopsfPlaySeek, AudioWithinLength
    <2>5. ASSUME NEW n \in Chunks,
                 \/ UpseLengthReached(n)
                 \/ \E cmd \in {"NONE", "STOP"} : UpsePlay(n, cmd)
                 \/ UpsePlaySeek(n)
          PROVE  AudioWithinLength'
      BY <2>5 DEF UpseLengthReached, UpsePlay, UpsePlaySeek, AudioWithinLength
    <2>6. CASE UNCHANGED vars
      BY <2>6 DEF vars, AudioWithinLength
    <2>7. QED
      BY <2>1, <2>2, <2>3, <2>4, <2>5, <2>6 DEF Next
  <1>3. QED
    BY <1>1, <1>2, CountersTyped, PlayedCountsPosition, PTL DEF Spec

-----------------------------------------------------------------------------
(* Both loops implement the promise of a decode call: every step of        *)
(* aopsf_file_decode and upse_file_decode is a step of DecodeCall or       *)
(* leaves its state alone.  The argument is PlayedTracksPosition: the end  *)
(* tests of the code compare frames_played with length_frames, and they    *)
(* bound the emulator's position only because frames_played is that       *)
(* position.                                                               *)
THEOREM DecodeRefinement == Spec => ImplementsDecodeCall
  <1>1. Init => DC!Init
    BY DEF Init, DC!Init
  <1>2. Counters /\ PlayedTracksPosition /\ [Next]_vars => [DC!Next]_DC!avars
    <2> SUFFICES ASSUME Counters, PlayedTracksPosition, [Next]_vars
                 PROVE  [DC!Next]_DC!avars
      OBVIOUS
    <2>1. CASE Open
      <3>1. lengthFrames' \in Nat
        BY <2>1, FrameCountAssumption DEF Open
      <3>2. QED
        BY <2>1, <3>1 DEF Open, DC!Next, DC!Begin
    <2>2. CASE AopsfGenFailed \/ UpseRenderEnd
      BY <2>2 DEF AopsfGenFailed, UpseRenderEnd, DC!Next, DC!Abort
    <2>3. CASE AopsfEnd
      <3>1. pos = framesPlayed /\ lengthFrames - framesPlayed <= 0 /\ hasLength
        BY <2>3 DEF AopsfEnd, AopsfAtEnd, AopsfRemainingDone, PlayedTracksPosition
      <3>2. StepBound \in Nat
        BY StepBoundFacts
      <3>3. QED
        BY <2>3, <3>1, <3>2 DEF AopsfEnd, Counters, DC!Next, DC!Finish, DC!Forward
    <2>4. ASSUME NEW cmd \in {"NONE", "STOP"}, AopsfPlay(cmd)
          PROVE  [DC!Next]_DC!avars
      <3>1. AopsfFrames \in 0..B /\ StepBound = B
        BY <2>4, AopsfFramesType, StepBoundFacts DEF AopsfPlay
      <3>2. hasLength => pos + AopsfFrames <= lengthFrames
        BY <2>4, AopsfFramesBound DEF AopsfPlay, PlayedTracksPosition
      <3>3. CASE cmd = "NONE"
        BY <2>4, <3>1, <3>2, <3>3 DEF AopsfPlay, Submit, Counters, DC!Next,
                                      DC!Advance, DC!Forward
      <3>4. CASE cmd = "STOP"
        BY <2>4, <3>1, <3>2, <3>4 DEF AopsfPlay, Submit, Counters, DC!Next,
                                      DC!Stop, DC!Forward
      <3>5. QED
        BY <3>3, <3>4
    <2>5. CASE AopsfPlaySeek
      <3>1. AopsfFrames \in 0..B
        BY <2>5, AopsfFramesType DEF AopsfPlaySeek
      <3>2. pos' \in Nat /\ pc' \in {"play", "idle"}
        BY <2>5, <3>1, FrameCountAssumption DEF AopsfPlaySeek, Counters
      <3>3. QED
        BY <2>5, <3>2 DEF AopsfPlaySeek, DC!Next, DC!Seek
    <2>6. ASSUME NEW n \in Chunks, UpseLengthReached(n)
          PROVE  [DC!Next]_DC!avars
      <3>1. n \in Nat /\ n <= StepBound
        BY <2>6, StepBoundFacts, FrameCountAssumption DEF UpseLengthReached
      <3>2. hasLength /\ pos + n >= lengthFrames
        BY <2>6 DEF UpseLengthReached, UpseReached, PlayedTracksPosition
      <3>3. pos' \in pos..(pos + StepBound) /\ pos' >= lengthFrames
        BY <2>6, <3>1, <3>2, StepBoundFacts DEF UpseLengthReached, Submit, Counters
      <3>4. DC!Finish
        BY <2>6, <3>2, <3>3 DEF UpseLengthReached, DC!Finish, DC!Forward
      <3>5. QED
        BY <3>4 DEF DC!Next
    <2>7. ASSUME NEW n \in Chunks, NEW cmd \in {"NONE", "STOP"}, UpsePlay(n, cmd)
          PROVE  [DC!Next]_DC!avars
      <3>1. n \in Nat /\ n <= StepBound
        BY <2>7, StepBoundFacts, FrameCountAssumption DEF UpsePlay
      <3>2. hasLength => pos + n < lengthFrames
        BY <2>7 DEF UpsePlay, UpseReached, PlayedTracksPosition, Counters
      <3>3. /\ pos' \in pos..(pos + StepBound)
            /\ hasLength => pos' <= lengthFrames
        BY <2>7, <3>1, <3>2, StepBoundFacts DEF UpsePlay, Submit, Counters
      <3>4. CASE cmd = "NONE"
        <4>1. DC!Advance
          BY <2>7, <3>3, <3>4 DEF UpsePlay, DC!Advance, DC!Forward
        <4>2. QED
          BY <4>1 DEF DC!Next
      <3>5. CASE cmd = "STOP"
        <4>1. DC!Stop
          BY <2>7, <3>3, <3>5 DEF UpsePlay, DC!Stop, DC!Forward
        <4>2. QED
          BY <4>1 DEF DC!Next
      <3>6. QED
        BY <3>4, <3>5
    <2>8. ASSUME NEW n \in Chunks, UpsePlaySeek(n)
          PROVE  [DC!Next]_DC!avars
      <3>1. pos' \in Nat
        BY <2>8, FrameCountAssumption DEF UpsePlaySeek
      <3>2. QED
        BY <2>8, <3>1 DEF UpsePlaySeek, DC!Next, DC!Seek
    <2>9. CASE UNCHANGED vars
      BY <2>9 DEF vars, DC!avars
    <2>10. QED
      BY <2>1, <2>2, <2>3, <2>4, <2>5, <2>6, <2>7, <2>8, <2>9 DEF Next
  <1>3. QED
    BY <1>1, <1>2, CountersTyped, PlayedCountsPosition, PTL
    DEF Spec, ImplementsDecodeCall, DC!Spec

=============================================================================
