------------------------------ MODULE MCMission ------------------------------
(* The mission alone, with the ten phases of the code, over the embedded   *)
(* policies, none, and what a Valkey may hold: another tool beyond every   *)
(* limit, a system of the story twice, the others missing.                 *)
EXTENDS MissionBoard

MCShip ==
  << PolicyStore, <<>>,
     << Policy("cargo.sort", 310), Policy("eng.thrust", 160), Policy("eng.thrust", 40),
        Policy("hull.seal", 0) >> >>

MCEmbedded == << PolicyStore >>
=============================================================================
