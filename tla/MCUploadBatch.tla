---------------------------- MODULE MCUploadBatch ---------------------------
(* UploadBatch on small instances; the constants are in the .cfg files.      *)
EXTENDS UploadBatch, TLC

=============================================================================
