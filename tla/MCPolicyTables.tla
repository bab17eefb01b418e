------------------------------ MODULE MCPolicyTables ------------------------------
(* The tables alone, over the eight policies of the embedded store, a store *)
(* emptied, and one of nine policies, several of them equal, whose          *)
(* confidences sit on the limits of the classes.                            *)
EXTENDS BridgeView

MCContent ==
  << <<9467, 9429, 9450, 9278, 9176, 9063, 8933, 8750>>, <<>>,
     <<8500, 9500, 8499, 9500, 8500, 9700, 8499, 9499, 2000>> >>
=============================================================================
