--------------------------- MODULE MCDetectorWindow ---------------------------
(***************************************************************************)
(* Instances of DetectorWindow for TLC, on a grid of 50 s and 50 m: the    *)
(* default parameters are whole multiples of it, but for the 60 s of       *)
(* arrival_min_duration_s, which on the grid is "at least two steps".      *)
(***************************************************************************)
EXTENDS DetectorWindow

Move(dt, dx) == [dt |-> dt, dx |-> dx, trig |-> FALSE, poor |-> FALSE]
Arrival(dt, dx) == [dt |-> dt, dx |-> dx, trig |-> TRUE, poor |-> FALSE]
Poor(dt, dx) == [dt |-> dt, dx |-> dx, trig |-> FALSE, poor |-> TRUE]

\* Two drives between stays, with the stops, turns and gaps that make a boundary
\* doubtful: an arrival the phone reports early, a walk, a way back, a recording gap
\* and a poor fix.
TwoDrives == <<
    {Move(6, 0)},
    {Move(2, 8), Move(1, 2)},
    {Move(2, 8), Arrival(2, 0), Poor(1, 0)},
    {Move(6, 0), Arrival(2, 0)},
    {Move(1, 8), Move(1, -4)},
    {Move(1, 8), Arrival(2, 1), Move(9, 0)},
    {Move(6, 0)},
    {} >>

\* A drive with a brisk walk in it, between two parked stays.
BriskWalk == <<
    {Move(6, 0)}, {Move(8, 100)}, {Move(1, 1)}, {Move(1, 3)}, {Move(2, 2)},
    {Move(3, 8)}, {Move(2, 0)}, {Move(6, 8)}, {Move(6, 0)}, {} >>
=============================================================================
