---------------------------- MODULE MCHydroStep ----------------------------
EXTENDS HydroStep

\* Two cells a side is the least the code allows; with five columns, or five rows, a
\* cell, a face and a node are out of reach of both sides.
MCShapes == {<<2, 2>>, <<3, 2>>, <<2, 3>>, <<5, 3>>, <<3, 5>>}
=============================================================================
