---------------------------- MODULE MCResponseCheck ----------------------------
(* Instances of ResponseCheck: an int64 of 6 bits, and the times explored. *)
EXTENDS ResponseCheck

\* Both sides of the window and its edges, the ends of the range, and the one
\* time whose distance from Now negates to itself, with its neighbours.
NearTimes == {-32, -23, -22, -21, 7, 8, 10, 12, 13, 31}
=============================================================================
