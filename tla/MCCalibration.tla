--------------------------- MODULE MCCalibration ---------------------------
(* Two overlapping bands of two inputs, calibrated at gains so close that a  *)
(* level received at one of them could be read with the curve of the other,  *)
(* by a radio whose levels do not differ by just its gains.  At the upper    *)
(* band's gain both inputs are above the squelch, at the other's one is.     *)
EXTENDS Calibration

TwoBands == <<<<-500, -450>>, <<-550, -500>>>>
TwoGains == <<0, 40>>
LowSquelch == -505

At(low, middle, high) ==
  [l \in Levels |-> CASE l = -550 -> low [] l = -500 -> middle [] l = -450 -> high]
Radio == [g \in Gains |-> CASE g = 0 -> At(-550, -500, -400)
                            [] g = 25 -> At(-525, -474, -426)
                            [] g = 40 -> At(-510, -440, -390)]
============================================================================
