------------------------------ MODULE DecodeCall ------------------------------
(***************************************************************************)
(* What one call of a decoder plugin's file_decode promises the decoder    *)
(* thread (spec sections 4 and 5), stated on the position of the audio it  *)
(* has rendered and nothing else:                                          *)
(*                                                                         *)
(*   - playing moves the position forward by at most one buffer;           *)
(*   - a song with a length is never played past its end while the call    *)
(*     goes on, and the call ends on its own only once the end is reached; *)
(*   - a seek moves the position anywhere and is answered: it is done and *)
(*     the call goes on, or it fails and ends the call; a stop ends the    *)
(*     call; a render error may end it at any point.                       *)
(*                                                                         *)
(* The end of a song (songEnd) is its length plus its fade.  A seek is    *)
(* told apart from playing by the count of the seeks answered.            *)
(***************************************************************************)
EXTENDS Naturals

CONSTANT MaxStep        \* the most frames one iteration renders

VARIABLES
  state,      \* "idle" between calls, "play" inside one
  bounded,    \* the song has a length
  songEnd,    \* the frame at which it ends
  at,         \* the position of the audio rendered so far
  answered    \* SEEK commands answered in this call

avars == <<state, bounded, songEnd, at, answered>>

\* A position reached by rendering at most one more buffer.
Forward(n) == at' \in at..(at + n)

-----------------------------------------------------------------------------
Begin ==
  /\ state = "idle" /\ state' = "play"
  /\ bounded' \in BOOLEAN /\ songEnd' \in Nat
  /\ at' = 0 /\ answered' = 0

\* Audio is played and the call goes on; a bounded song stays within its end.
Advance ==
  /\ state = "play" /\ state' = "play"
  /\ Forward(MaxStep)
  /\ bounded => at' <= songEnd
  /\ UNCHANGED <<bounded, songEnd, answered>>

\* The song is over: the call returns once its end is reached.
Finish ==
  /\ state = "play" /\ state' = "idle"
  /\ bounded
  /\ Forward(MaxStep)
  /\ at' >= songEnd
  /\ UNCHANGED <<bounded, songEnd, answered>>

\* A STOP command ends the call before the end.
Stop ==
  /\ state = "play" /\ state' = "idle"
  /\ Forward(MaxStep)
  /\ bounded => at' <= songEnd
  /\ UNCHANGED <<bounded, songEnd, answered>>

\* A SEEK moves the position and is answered; a failed one may end the call.
Seek ==
  /\ state = "play" /\ state' \in {"play", "idle"}
  /\ at' \in Nat
  /\ answered' = answered + 1
  /\ UNCHANGED <<bounded, songEnd>>

\* A render error ends the call where it is.
Abort ==
  /\ state = "play" /\ state' = "idle"
  /\ UNCHANGED <<bounded, songEnd, at, answered>>

Init ==
  /\ state = "idle"
  /\ bounded = FALSE
  /\ songEnd = 0
  /\ at = 0
  /\ answered = 0

Next == Begin \/ Advance \/ Finish \/ Stop \/ Seek \/ Abort

Spec == Init /\ [][Next]_avars
=============================================================================
