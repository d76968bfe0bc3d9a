------------------------ MODULE MCMultimaterialSweep ------------------------
EXTENDS MultimaterialSweep

MCShapes == {<<2, 2>>, <<4, 3>>, <<3, 4>>}

\* No cell is emptied; one in the middle is, through either face; the first is, over the
\* first seam of each direction, and one beside the last seam of x or of y.
MCDrains == {{}, {<<1, <<1, 1>>, "prev">>}, {<<2, <<1, 1>>, "next">>},
             {<<1, <<0, 0>>, "prev">>}, {<<2, <<2, 2>>, "next">>}}
=============================================================================
