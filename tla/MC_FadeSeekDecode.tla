------------------------- MODULE MC_FadeSeekDecode --------------------------
(* Small instance of the lazyusf / lazygsf decode loop: buffers of 2       *)
(* frames, bodies of 0 to 3 frames (ending inside a buffer and on its     *)
(* boundary), fades of 0 to 3 frames, seeks into the body, the fade and    *)
(* past the end.                                                           *)
EXTENDS FadeSeekDecode
====
