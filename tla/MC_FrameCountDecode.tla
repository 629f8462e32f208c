------------------------- MODULE MC_FrameCountDecode ------------------------
(* Small instances of the aopsf and upse decode loops: buffers and render  *)
(* chunks of 2 and 3 frames, songs ending inside and on a buffer boundary, *)
(* seeks into the song and past its end.                                   *)
EXTENDS FrameCountDecode
====
