--------------------------- MODULE MCFeedbackLoop ---------------------------
(* The worlds of the instance of FeedbackLoop: both formats, oscillators   *)
(* 500 ppm apart either way, two phases of the DMA.                        *)
EXTENDS FeedbackLoop

BothRates  == {441, 480}
ThreeDrifts == {-5, 0, 5}
TwoPhases  == {0, 2}
Pauses     == {961, 2400}
Gaps       == {1700, 2500}
=============================================================================
