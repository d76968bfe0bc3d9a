--------------------------- MODULE MCProjectionY ---------------------------
EXTENDS ProjectionY

\* Two cells a side is the least the code allows; with five rows a cell, a face and
\* a node are out of reach of both ends.
MCShapes == {<<2, 2>>, <<2, 3>>, <<3, 4>>, <<3, 5>>}

SmallShapes == {<<2, 3>>}
=============================================================================
