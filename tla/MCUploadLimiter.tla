-------------------------- MODULE MCUploadLimiter --------------------------
(* UploadLimiter on a small instance; the senders are interchangeable.       *)
EXTENDS UploadLimiter, TLC

Symmetry == Permutations(Senders)
=============================================================================
