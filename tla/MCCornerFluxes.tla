--------------------------- MODULE MCCornerFluxes ---------------------------
EXTENDS CornerFluxes

MCShapes == {<<2, 2>>, <<3, 3>>, <<4, 3>>, <<3, 4>>}

\* The flow whose nodes have the signs <<u, v>> before, and after the acceleration.
Changed(Before(_), After(_)) ==
  [k \in {0, 1} \X {0, 1} |->
     [predicted_u |-> Before(k)[1], predicted_v |-> Before(k)[2], u_lag |-> After(k)[1], v_lag |-> After(k)[2]]]
Kept(Way(_)) == Changed(Way, Way)

Even(z, a, b) == IF z = 0 THEN a ELSE b

\* Every node moves the same way, in two opposite ways and two that cross them; nodes
\* that move apart from each other; some that are still in one direction; a flow that
\* is turned around as a whole; every other column turned in x, in y every other row;
\* nodes that the acceleration stops; and nodes that it starts.
MCFlows ==
  {Kept(LAMBDA k : <<u, v>>) : u, v \in {-1, 1}} \cup
  {Kept(LAMBDA k : <<Even(k[1], 1, -1), Even(k[2], 1, -1)>>),
   Kept(LAMBDA k : <<k[1], Even(k[2], -1, 1)>>),
   Changed(LAMBDA k : <<1, 1>>, LAMBDA k : <<-1, -1>>),
   Changed(LAMBDA k : <<1, -1>>, LAMBDA k : <<Even(k[1], 1, -1), -1>>),
   Changed(LAMBDA k : <<Even(k[1], 1, -1), 1>>, LAMBDA k : <<Even(k[1], 1, -1), Even(k[2], -1, 1)>>),
   Changed(LAMBDA k : <<1, 1>>, LAMBDA k : <<k[1], k[2]>>),
   Changed(LAMBDA k : <<k[1], k[2]>>, LAMBDA k : <<1, -1>>)}
=============================================================================
