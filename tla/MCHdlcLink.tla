----------------------------- MODULE MCHdlcLink -----------------------------
(* Bytes that look like flags, resets and escapes, and bytes whose ones run *)
(* into the next byte or into the closing flag; the two ways a carrier is   *)
(* detected; a frame that is too short and one that is too long.            *)
EXTENDS HdlcLink

MCFrames ==
  {<<255, 63>>, <<126, 127>>, <<27, 126>>, <<248, 31>>, <<31, 248>>, <<127, 27, 248>>,
   <<3, 240>>, <<130, 96, 63>>, <<0>>, <<252, 255, 3, 240>>}

OneFrame == {<<3, 240, 0>>}
=============================================================================
