--------------------------- MODULE MCSlidingWindow ---------------------------
(* A window of four readings, three different ones, one of them negative. *)
EXTENDS SlidingWindow

Strengths == {-3, 0, 2}
=============================================================================
