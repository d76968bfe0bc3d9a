--------------------------- MODULE MCProjectionX ---------------------------
EXTENDS ProjectionX

\* Two cells a side is the least the code allows; with five columns a cell, a face
\* and a node are out of reach of both sides.
MCShapes == {<<2, 2>>, <<3, 2>>, <<4, 3>>, <<5, 3>>}

SmallShapes == {<<3, 2>>}
=============================================================================
