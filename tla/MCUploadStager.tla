--------------------------- MODULE MCUploadStager ---------------------------
(* UploadStager on small instances; the constants are in the .cfg files.     *)
EXTENDS UploadStager, TLC

Symmetry == Permutations(Files) \cup Permutations(Contents) \cup Permutations(Clients)

=============================================================================
