------------------------- MODULE MCRawFrameRecorder -------------------------
(* Two buffers, batches of two, segments of two or three records, a
   directory limit of two segments, and a start that finds old segments. *)
EXTENDS RawFrameRecorder

MCExisting == {<<>>, <<3, 4>>}
=============================================================================
