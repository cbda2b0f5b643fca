------------------------------ MODULE SegmentOnce ------------------------------
(***************************************************************************)
(* What the segment scheduler promises to the file that is uploaded, with  *)
(* accounts, attempts, leases and parts left out: every segment gets at    *)
(* most one permit to create its Telegram message, a permit is used at     *)
(* most once, and a segment is only done when its message exists.  A       *)
(* segment may fail at any time, even while its permit is being used.      *)
(***************************************************************************)
EXTENDS Naturals

CONSTANT Segments

VARIABLES
    outcome,   \* "open", "done" or "failed"
    permit,    \* "none", "granted" or "used"
    made       \* how many messages exist

onceVars == <<outcome, permit, made>>

OnceInit ==
    /\ outcome = [s \in Segments |-> "open"]
    /\ permit = [s \in Segments |-> "none"]
    /\ made = [s \in Segments |-> 0]

\* grant_finalize: only one permit, and only while the segment is open.
Grant(s) ==
    /\ outcome[s] = "open"
    /\ permit[s] = "none"
    /\ permit' = [permit EXCEPT ![s] = "granted"]
    /\ UNCHANGED <<outcome, made>>

\* The holder creates the message, possibly after the segment has failed.
Use(s) ==
    /\ permit[s] = "granted"
    /\ permit' = [permit EXCEPT ![s] = "used"]
    /\ made' = [made EXCEPT ![s] = @ + 1]
    /\ UNCHANGED outcome

\* complete_attempt
Complete(s) ==
    /\ outcome[s] = "open"
    /\ permit[s] = "used"
    /\ outcome' = [outcome EXCEPT ![s] = "done"]
    /\ UNCHANGED <<permit, made>>

(***************************************************************************)
(* A set of segments fails at once (one, or all when the scheduler aborts);*)
(* a permit whose holder has given up goes with it.                        *)
(***************************************************************************)
Fail(S) ==
    /\ \A s \in S : outcome[s] = "open"
    /\ outcome' = [s \in Segments |-> IF s \in S THEN "failed" ELSE outcome[s]]
    /\ permit' \in [Segments -> {"none", "granted", "used"}]
    /\ \A s \in Segments :
          \/ permit'[s] = permit[s]
          \/ s \in S /\ permit[s] = "granted" /\ permit'[s] = "none"
    /\ UNCHANGED made

\* The holder gives up after the segment has failed.
Forfeit(s) ==
    /\ outcome[s] = "failed"
    /\ permit[s] = "granted"
    /\ permit' = [permit EXCEPT ![s] = "none"]
    /\ UNCHANGED <<outcome, made>>

OnceNext ==
    \/ \E s \in Segments : Grant(s) \/ Use(s) \/ Complete(s) \/ Forfeit(s)
    \/ \E S \in SUBSET Segments : Fail(S)

OnceSpec == OnceInit /\ [][OnceNext]_onceVars
=============================================================================
