---------------------------- MODULE MCGameStager ----------------------------
(* GameStager on small instances; the constants are in the .cfg files.       *)
EXTENDS GameStager, TLC

=============================================================================
