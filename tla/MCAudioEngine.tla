--------------------------- MODULE MCAudioEngine ---------------------------
(* The small instance of AudioEngine. *)
EXTENDS AudioEngine

TwoSamples == {1, 2}
=============================================================================
