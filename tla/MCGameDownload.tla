--------------------------- MODULE MCGameDownload ---------------------------
(* GameDownload on a small instance: a program of two chunks that a new      *)
(* upload cuts to one, and a data file that keeps its size.                  *)
EXTENDS GameDownload, TLC

CONSTANTS program, data, v1, v2

MCLength == (v1 :> (program :> 2 @@ data :> 1)) @@ (v2 :> (program :> 1 @@ data :> 1))
=============================================================================
