-------------------------- MODULE MCSegmentScheduler --------------------------
(***************************************************************************)
(* Model-checking instances of SegmentScheduler.  Accounts, segments and   *)
(* parts are ranges of numbers (the code orders them), so the cfg files    *)
(* only give their sizes.                                                  *)
(***************************************************************************)
EXTENDS SegmentScheduler
=============================================================================
