----------------------- MODULE SegmentSchedulerProofs -----------------------
(***************************************************************************)
(* What TLAPS proves of SegmentScheduler, for any number of accounts,      *)
(* slots, segments, parts and faults:                                      *)
(*                                                                         *)
(*   TypeCorrect        every variable keeps its type;                     *)
(*   OutcomeStaysFinal  a finished segment keeps its outcome and result,   *)
(*                      and attempts never go back;                        *)
(*   OneMessage         at most one Telegram message per segment;          *)
(*   SlotsAccountedFor, LeaseOutlivesRpcs, ReplacementRunsAlone,           *)
(*   MessagesAreWhole, EveryReturnReports, ReservationIsExclusive,         *)
(*   ExitIsClean        what it does with leases, slots, reservations and  *)
(*                      messages;                                          *)
(*   ImplementsOnce     it implements SegmentOnce.                         *)
(*                                                                         *)
(* Neither the types nor the attempt numbers are inductive by themselves:  *)
(* a migration adds 1 to an attempt, which stays an attempt only because a *)
(* segment that has not migrated is not at its second one.  TypeInv adds   *)
(* that, and what the loop is submitting.  The first part of the argument  *)
(* is about one segment at a time: LifeStep is all that a step can do to   *)
(* its state, attempt and result, and GrantStep the only way an attempt    *)
(* gets near creating a message.                                           *)
(*                                                                         *)
(* The rest is one inductive invariant, SchedulerInv, kept by every step   *)
(* next to TypeInv and GrantInv.  Its parts are stated per segment or per  *)
(* attempt (RpcOK, ClaimOK, LeaseOK, LoopOK, CurrentOK, ConfirmedOK,       *)
(* SlotsOK).  For each there is one lemma for the part sends, one for the  *)
(* executors, one for the loop and one for Next.                           *)
(***************************************************************************)
EXTENDS SegmentScheduler, FiniteSetTheorems, TLAPS

-----------------------------------------------------------------------------
(* Types *)

\* A pending segment has no attempt, a running one has, and the second attempt
\* is the one a migration started.
AttemptInv ==
    \A t \in Tasks :
        /\ state[t] = "pending" => attempt[t] = NoAttempt
        /\ state[t] \in {"active", "migrating", "finalizing"} =>
              attempt[t] \in Attempts
        /\ migrations[t] = 0 => attempt[t] # 2

\* The loop submits a claim of an attempt.
SubmitInv == lpc = "submit" => action \in Claims

TypeInv == TypeOK /\ AttemptInv /\ SubmitInv

\* What closing leases may assign: _maybe_close_owned_locked, bytes_prepared.
LeasesAssigned ==
    /\ slots' \in [Accounts -> Int]
    /\ jobs' \in [Accounts -> SUBSET (Tasks \cup Others)]
    /\ lease' \in [Tasks -> Accounts \cup {NoAccount}]
    /\ leaseAttempt' \in [Tasks -> Attempts \cup {NoAttempt}]

\* What _terminal_locked may assign.
OutcomesAssigned ==
    /\ state' \in [Tasks -> SegmentState]
    /\ account' \in [Tasks -> Accounts \cup {NoAccount}]
    /\ handle' \in [Tasks -> BOOLEAN]
    /\ revoke' \in [Tasks -> [Attempts -> BOOLEAN]]
    /\ resv' \in [Tasks -> Accounts \cup {NoAccount}]
    /\ reserved' \in [Accounts -> Tasks \cup {NoTask}]
    /\ UNCHANGED <<attempt, migrations, attempted, draining>>

-----------------------------------------------------------------------------
(* Every action keeps the types *)

\* Closing the leases of any set of segments (UploadLease.close) keeps the
\* types: the slots given back are a finite number.
LEMMA ReleaseLeasesType ==
    ASSUME TypeOK, NEW T \in SUBSET Tasks, ReleaseLeases(T)
    PROVE  LeasesAssigned
<1> DEFINE L == {<<lease[t], t>> : t \in T}
<1>1. IsFiniteSet(Tasks)
  BY FS_Interval, PoolAssumption DEF Tasks
<1>2. IsFiniteSet(0 .. NumAccounts)
  BY FS_Interval, PoolAssumption
<1>3. L \subseteq (0 .. NumAccounts) \X Tasks
  BY PoolAssumption DEF TypeOK, TaskType, Accounts, NoAccount
<1>4. IsFiniteSet(L)
  BY <1>1, <1>2, <1>3, FS_Product, FS_Subset
<1>5. ASSUME NEW a \in Accounts
      PROVE  Cardinality({l \in L : l[1] = a}) \in Nat
  <2>1. {l \in L : l[1] = a} \subseteq L
    OBVIOUS
  <2>2. IsFiniteSet({l \in L : l[1] = a})
    BY <1>4, <2>1, FS_Subset
  <2> QED BY <2>2, FS_CardinalityType
<1>6. slots' \in [Accounts -> Int]
  <2>1. slots' = [a \in Accounts |->
                     slots[a] + Cardinality({l \in L : l[1] = a})]
    BY DEF ReleaseLeases, CloseLeases
  <2> HIDE DEF L
  <2> QED BY <1>5, <2>1 DEF TypeOK, PoolType
<1>7. jobs' \in [Accounts -> SUBSET (Tasks \cup Others)]
  BY DEF ReleaseLeases, CloseLeases, TypeOK, PoolType
<1>8. QED
  BY <1>6, <1>7 DEF LeasesAssigned, ReleaseLeases, TypeOK, TaskType

\* _maybe_close_owned_locked keeps the types of what it assigns.
LEMMA MaybeCloseOwnedType ==
    ASSUME TypeInv, NEW C, MaybeCloseOwned(C)
    PROVE  LeasesAssigned
BY ReleaseLeasesType DEF MaybeCloseOwned, TypeInv

\* An executor that moves on is at a place of its program.
LEMMA GotoType ==
    ASSUME TypeInv, NEW t \in Tasks, NEW n \in Attempts,
           NEW where \in WorkerPC, Goto(t, n, where)
    PROVE  pc' \in [Tasks -> [Attempts -> WorkerPC]]
BY DEF TypeInv, TypeOK, WorkerType, Goto

\* _terminal_locked keeps the types of what it assigns.
LEMMA TerminalLockedType ==
    ASSUME TypeInv, NEW T \in SUBSET Tasks, NEW outcome \in Terminal,
           TerminalLocked(T, outcome)
    PROVE  OutcomesAssigned
<1> USE DEF TypeInv, TypeOK, PoolType, TaskType, WorkerType, TerminalLocked
<1>1. state' \in [Tasks -> SegmentState]
  BY DEF SegmentState
<1>2. account' \in [Tasks -> Accounts \cup {NoAccount}]
  OBVIOUS
<1>3. handle' \in [Tasks -> BOOLEAN]
  OBVIOUS
<1>4. revoke' \in [Tasks -> [Attempts -> BOOLEAN]]
  OBVIOUS
<1>5. resv' \in [Tasks -> Accounts \cup {NoAccount}]
  OBVIOUS
<1>6. reserved' \in [Accounts -> Tasks \cup {NoTask}]
  OBVIOUS
<1> QED BY <1>1, <1>2, <1>3, <1>4, <1>5, <1>6 DEF OutcomesAssigned

\* begin_request keeps the types.
LEMMA BeginRequestType ==
    ASSUME TypeInv, NEW t \in Tasks, NEW n \in Attempts, NEW p \in Parts,
           BeginRequest(t, n, p)
    PROVE  TypeOK' /\ SubmitInv'
<1> USE DEF TypeInv, TypeOK, PoolType, TaskType, WorkerType, TelegramType,
        LoopType, poolVars, progressVars, lifeVars, leaseVars, taskVars,
        workerVars, telegramVars, loopVars, ChangeLocked
<1>r. requests' \in [Accounts -> SUBSET (Tasks \X Attempts \X Parts)]
  <2> DEFINE Rpcs == Tasks \X Attempts \X Parts
  <2>1. <<t, n, p>> \in Rpcs /\ requests \in [Accounts -> SUBSET Rpcs]
    OBVIOUS
  <2>2. requests' = [requests EXCEPT ![claimed[t][n]] = @ \cup {<<t, n, p>>}]
    BY DEF BeginRequest
  <2>3. ASSUME NEW e \in Rpcs, NEW x
        PROVE  [requests EXCEPT ![x] = @ \cup {e}] \in [Accounts -> SUBSET Rpcs]
    <3> HIDE DEF Rpcs
    <3> QED BY <2>1
  <2> QED BY <2>1, <2>2, <2>3
<1>1. PoolType' /\ TaskType'
  BY <1>r DEF BeginRequest, SubmitInv, RpcState
<1>2. WorkerType' /\ TelegramType'
  BY <1>r DEF BeginRequest, SubmitInv, RpcState
<1>3. LoopType' /\ SubmitInv'
  BY <1>r DEF BeginRequest, SubmitInv, RpcState
<1> QED BY <1>1, <1>2, <1>3

\* notify_premium_flood keeps the types.
LEMMA PremiumFloodType ==
    ASSUME TypeInv, NEW t \in Tasks, NEW n \in Attempts, NEW p \in Parts,
           PremiumFlood(t, n, p)
    PROVE  TypeOK' /\ SubmitInv'
<1> USE DEF TypeInv, TypeOK, PoolType, TaskType, WorkerType, TelegramType,
        LoopType, poolVars, progressVars, lifeVars, leaseVars, taskVars,
        workerVars, telegramVars, loopVars, ChangeLocked
<1>f. flooded' \in [Tasks -> BOOLEAN] /\ changed' \in BOOLEAN
  <2>1. CASE ValidCurrent(t, n, {"active"})
    BY <2>1 DEF PremiumFlood
  <2>2. CASE ~ValidCurrent(t, n, {"active"})
    BY <2>2 DEF PremiumFlood
  <2> QED BY <2>1, <2>2
<1>1. PoolType' /\ TaskType'
  BY <1>f, SchedulerAssumption DEF PremiumFlood, SubmitInv, RpcState
<1>2. WorkerType' /\ TelegramType'
  BY <1>f, SchedulerAssumption DEF PremiumFlood, SubmitInv, RpcState
<1>3. LoopType' /\ SubmitInv'
  BY <1>f, SchedulerAssumption DEF PremiumFlood, SubmitInv, RpcState
<1> QED BY <1>1, <1>2, <1>3

\* grant_finalize keeps the types, granted or refused.
LEMMA GrantFinalizeType ==
    ASSUME TypeInv, NEW t \in Tasks, NEW n \in Attempts, GrantFinalize(t, n)
    PROVE  TypeOK' /\ SubmitInv'
<1> USE DEF TypeInv, TypeOK, PoolType, TaskType, WorkerType, TelegramType,
        LoopType, poolVars, progressVars, lifeVars, leaseVars, taskVars,
        workerVars, telegramVars, loopVars, ChangeLocked
<1>g. /\ state' \in [Tasks -> SegmentState]
      /\ pc' \in [Tasks -> [Attempts -> WorkerPC]]
      /\ changed' \in BOOLEAN
  <2>1. CASE ValidCurrent(t, n, {"active"})
    <3>1. Goto(t, n, "granted")
      BY <2>1 DEF GrantFinalize
    <3>2. state' = [state EXCEPT ![t] = "finalizing"] /\ changed' = TRUE
      BY <2>1 DEF GrantFinalize
    <3> QED BY <3>1, <3>2, GotoType DEF SegmentState, WorkerPC
  <2>2. CASE ~ValidCurrent(t, n, {"active"})
    <3>1. Goto(t, n, "finally")
      BY <2>2 DEF GrantFinalize
    <3>2. UNCHANGED <<state, changed>>
      BY <2>2 DEF GrantFinalize
    <3> QED BY <3>1, <3>2, GotoType DEF WorkerPC
  <2> QED BY <2>1, <2>2
<1> QED BY <1>g DEF GrantFinalize, SubmitInv

\* bytes_prepared keeps the types, whether or not it closes the lease.
LEMMA BytesPreparedType ==
    ASSUME TypeInv, NEW t \in Tasks, NEW n \in Attempts, BytesPrepared(t, n)
    PROVE  TypeOK' /\ SubmitInv'
<1> USE DEF TypeInv, TypeOK, PoolType, TaskType, WorkerType, TelegramType,
        LoopType, poolVars, progressVars, lifeVars, leaseVars, taskVars,
        workerVars, telegramVars, loopVars, ChangeLocked
<1>g. /\ LeasesAssigned
      /\ pc' \in [Tasks -> [Attempts -> WorkerPC]]
      /\ changed' \in BOOLEAN
  <2> DEFINE prepared == /\ ValidCurrent(t, n, {"active"})
                         /\ AllBytes(t)
                         /\ tokens[t][n] = {}
                         /\ OwnsLease(t, n)
  <2>1. CASE prepared
    <3>1. Goto(t, n, "bytes") /\ changed' = TRUE /\ ReleaseLeases({t})
      BY <2>1 DEF BytesPrepared
    <3> QED BY <3>1, GotoType, ReleaseLeasesType DEF WorkerPC
  <2>2. CASE ~prepared
    <3>1. /\ Goto(t, n, "finally")
          /\ UNCHANGED <<changed, lease, leaseAttempt, jobs, slots>>
      BY <2>2 DEF BytesPrepared
    <3> QED BY <3>1, GotoType DEF WorkerPC, LeasesAssigned
  <2> QED BY <2>1, <2>2
<1>1. PoolType' /\ TaskType'
  BY <1>g DEF BytesPrepared, LeasesAssigned, SubmitInv
<1>2. WorkerType' /\ TelegramType'
  BY <1>g DEF BytesPrepared, LeasesAssigned, SubmitInv
<1>3. LoopType' /\ SubmitInv'
  BY <1>g DEF BytesPrepared, LeasesAssigned, SubmitInv
<1> QED BY <1>1, <1>2, <1>3

\* request_settled keeps the types.
LEMMA RequestSettledType ==
    ASSUME TypeInv, NEW t \in Tasks, NEW n \in Attempts, NEW p \in Parts,
           RequestSettled(t, n, p)
    PROVE  TypeOK' /\ SubmitInv'
<1> USE DEF TypeInv, TypeOK, PoolType, TaskType, WorkerType, TelegramType,
        LoopType, poolVars, progressVars, lifeVars, leaseVars, taskVars,
        workerVars, telegramVars, loopVars, ChangeLocked
<1>l. LeasesAssigned
  <2>1. PICK C : MaybeCloseOwned(C)
    BY DEF RequestSettled
  <2> QED BY <2>1, MaybeCloseOwnedType
<1>t. tokens' \in [Tasks -> [Attempts -> SUBSET Parts]]
  BY DEF RequestSettled
<1>1. PoolType' /\ TaskType'
  BY <1>l, <1>t DEF RequestSettled, LeasesAssigned, SubmitInv, AfterSettle,
     RpcState, WorkerPC
<1>2. WorkerType' /\ TelegramType'
  BY <1>l, <1>t DEF RequestSettled, LeasesAssigned, SubmitInv, AfterSettle,
     RpcState, WorkerPC
<1>3. LoopType' /\ SubmitInv'
  BY <1>l, <1>t DEF RequestSettled, LeasesAssigned, SubmitInv, AfterSettle,
     RpcState, WorkerPC
<1> QED BY <1>1, <1>2, <1>3

\* A refused bind_revoke_handle keeps the types.
LEMMA BindRefusedType ==
    ASSUME TypeInv, NEW t \in Tasks, NEW n \in Attempts, BindRefused(t, n)
    PROVE  TypeOK' /\ SubmitInv'
<1> USE DEF TypeInv, TypeOK, PoolType, TaskType, WorkerType, TelegramType,
        LoopType, poolVars, progressVars, lifeVars, leaseVars, taskVars,
        workerVars, telegramVars, loopVars, ChangeLocked
<1>l. LeasesAssigned
  <2>1. PICK C : MaybeCloseOwned(C)
    BY DEF BindRefused
  <2> QED BY <2>1, MaybeCloseOwnedType
<1>g. /\ pc' \in [Tasks -> [Attempts -> WorkerPC]]
      /\ quiescent' \in [Tasks -> SUBSET Attempts]
  BY GotoType DEF BindRefused, WorkerPC
<1>s. snap' \in [Accounts -> BOOLEAN]
  BY DEF BindRefused
<1>u. /\ UNCHANGED <<requests, reserved, eligible, rr, progressVars, lifeVars,
                     claimed, rpc, revoke, raised, telegramVars, loopVars, faults>>
      /\ changed' \in BOOLEAN
  BY DEF BindRefused
<1>p. PoolType'
  BY <1>l, <1>s, <1>u DEF LeasesAssigned
<1>t. TaskType'
  BY <1>l, <1>g, <1>u, SMTT(30) DEF LeasesAssigned
<1>1. PoolType' /\ TaskType'
  BY <1>p, <1>t
<1>2. WorkerType' /\ TelegramType'
  BY <1>g, <1>u
<1>3. LoopType' /\ SubmitInv'
  BY <1>u DEF SubmitInv
<1> QED BY <1>1, <1>2, <1>3

\* attempt_quiesced keeps the types.
LEMMA AttemptQuiescedType ==
    ASSUME TypeInv, NEW t \in Tasks, NEW n \in Attempts, AttemptQuiesced(t, n)
    PROVE  TypeOK' /\ SubmitInv'
<1> USE DEF TypeInv, TypeOK, PoolType, TaskType, WorkerType, TelegramType,
        LoopType, poolVars, progressVars, lifeVars, leaseVars, taskVars,
        workerVars, telegramVars, loopVars, ChangeLocked
<1>l. LeasesAssigned
  <2>1. PICK C : MaybeCloseOwned(C)
    BY DEF AttemptQuiesced
  <2> QED BY <2>1, MaybeCloseOwnedType
<1>g. /\ pc' \in [Tasks -> [Attempts -> WorkerPC]]
      /\ quiescent' \in [Tasks -> SUBSET Attempts]
  BY GotoType DEF AttemptQuiesced, WorkerPC
<1>s. snap' \in [Accounts -> BOOLEAN]
  BY DEF AttemptQuiesced
<1>u. /\ UNCHANGED <<requests, reserved, eligible, rr, progressVars, lifeVars,
                     claimed, rpc, revoke, raised, telegramVars, loopVars, faults>>
      /\ changed' \in BOOLEAN
  BY DEF AttemptQuiesced
<1>p. PoolType'
  BY <1>l, <1>s, <1>u DEF LeasesAssigned
<1>t. TaskType'
  BY <1>l, <1>g, <1>u, SMTT(30) DEF LeasesAssigned
<1>1. PoolType' /\ TaskType'
  BY <1>p, <1>t
<1>2. WorkerType' /\ TelegramType'
  BY <1>g, <1>u
<1>3. LoopType' /\ SubmitInv'
  BY <1>u DEF SubmitInv
<1> QED BY <1>1, <1>2, <1>3

\* complete_attempt keeps the types, accepted or refused.
LEMMA CompleteAttemptType ==
    ASSUME TypeInv, NEW t \in Tasks, NEW n \in Attempts, CompleteAttempt(t, n)
    PROVE  TypeOK' /\ SubmitInv'
<1> USE DEF TypeInv, TypeOK, PoolType, TaskType, WorkerType, TelegramType,
        LoopType, poolVars, progressVars, lifeVars, leaseVars, taskVars,
        workerVars, telegramVars, loopVars, ChangeLocked
<1>l. LeasesAssigned
  <2>1. PICK C : MaybeCloseOwned(C)
    BY DEF CompleteAttempt
  <2> QED BY <2>1, MaybeCloseOwnedType
<1>g. /\ OutcomesAssigned
      /\ result' \in [Tasks -> Attempts \cup {NoAttempt}]
      /\ pc' \in [Tasks -> [Attempts -> WorkerPC]]
      /\ changed' \in BOOLEAN
  <2>1. CASE ValidCurrent(t, n, {"finalizing"})
    <3>1. /\ Goto(t, n, "finally")
          /\ result' = [result EXCEPT ![t] = n]
          /\ TerminalLocked({t}, "completed")
          /\ changed' = TRUE
      BY <2>1 DEF CompleteAttempt
    <3> QED BY <3>1, GotoType, TerminalLockedType DEF WorkerPC, Terminal
  <2>2. CASE ~ValidCurrent(t, n, {"finalizing"})
    <3>1. /\ Goto(t, n, "failing")
          /\ UNCHANGED <<lifeVars, reserved, revoke, changed>>
      BY <2>2 DEF CompleteAttempt
    <3> QED BY <3>1, GotoType DEF WorkerPC, OutcomesAssigned
  <2> QED BY <2>1, <2>2
<1>1. PoolType' /\ TaskType'
  BY <1>l, <1>g DEF CompleteAttempt, LeasesAssigned, OutcomesAssigned,
     SubmitInv
<1>2. WorkerType' /\ TelegramType'
  BY <1>l, <1>g DEF CompleteAttempt, LeasesAssigned, OutcomesAssigned,
     SubmitInv
<1>3. LoopType' /\ SubmitInv'
  BY <1>l, <1>g DEF CompleteAttempt, LeasesAssigned, OutcomesAssigned,
     SubmitInv
<1> QED BY <1>1, <1>2, <1>3

\* fail_attempt keeps the types, accepted or ignored.
LEMMA FailAttemptType ==
    ASSUME TypeInv, NEW t \in Tasks, NEW n \in Attempts, FailAttempt(t, n)
    PROVE  TypeOK' /\ SubmitInv'
<1> USE DEF TypeInv, TypeOK, PoolType, TaskType, WorkerType, TelegramType,
        LoopType, poolVars, progressVars, lifeVars, leaseVars, taskVars,
        workerVars, telegramVars, loopVars, ChangeLocked
<1>l. LeasesAssigned
  <2>1. PICK C : MaybeCloseOwned(C)
    BY DEF FailAttempt
  <2> QED BY <2>1, MaybeCloseOwnedType
<1>g. /\ OutcomesAssigned
      /\ pc' \in [Tasks -> [Attempts -> WorkerPC]]
      /\ changed' \in BOOLEAN
  <2>1. CASE ValidCurrent(t, n, {"active", "finalizing"})
    BY <2>1, GotoType, TerminalLockedType DEF FailAttempt, WorkerPC, Terminal
  <2>2. CASE ~ValidCurrent(t, n, {"active", "finalizing"})
    BY <2>2, GotoType DEF FailAttempt, WorkerPC, OutcomesAssigned
  <2> QED BY <2>1, <2>2
<1>1. PoolType' /\ TaskType'
  BY <1>l, <1>g DEF FailAttempt, LeasesAssigned, OutcomesAssigned, SubmitInv
<1>2. WorkerType' /\ TelegramType'
  BY <1>l, <1>g DEF FailAttempt, LeasesAssigned, OutcomesAssigned, SubmitInv
<1>3. LoopType' /\ SubmitInv'
  BY <1>l, <1>g DEF FailAttempt, LeasesAssigned, OutcomesAssigned, SubmitInv
<1> QED BY <1>1, <1>2, <1>3

\* executor_finished keeps the types, also when it aborts the file.
LEMMA ExecutorFinishedType ==
    ASSUME TypeInv, NEW t \in Tasks, NEW n \in Attempts, ExecutorFinished(t, n)
    PROVE  TypeOK' /\ SubmitInv'
<1> USE DEF TypeInv, TypeOK, PoolType, TaskType, WorkerType, TelegramType,
        LoopType, poolVars, progressVars, lifeVars, leaseVars, taskVars,
        workerVars, telegramVars, loopVars, ChangeLocked
<1>l. LeasesAssigned
  <2>1. PICK C : MaybeCloseOwned(C)
    BY DEF ExecutorFinished
  <2> QED BY <2>1, MaybeCloseOwnedType
<1>g. OutcomesAssigned
  <2>1. PICK T \in SUBSET Tasks : TerminalLocked(T, "failed")
    BY DEF ExecutorFinished
  <2> QED BY <2>1, TerminalLockedType DEF Terminal
<1>s. /\ snap' \in [Accounts -> BOOLEAN]
      /\ quiescent' \in [Tasks -> SUBSET Attempts]
  BY DEF ExecutorFinished
<1>u. /\ UNCHANGED <<requests, eligible, rr, progressVars, result, claimed, pc,
                     rpc, raised, telegramVars, lpc, action, completions, timed,
                     faults>>
      /\ taken' \in SUBSET Claims /\ submitted' \in SUBSET Claims
      /\ failure' \in BOOLEAN /\ silent' \in BOOLEAN /\ changed' \in BOOLEAN
  BY DEF ExecutorFinished
<1>1. PoolType' /\ TaskType'
  BY <1>l, <1>g, <1>s, <1>u DEF LeasesAssigned, OutcomesAssigned
<1>2. WorkerType' /\ TelegramType'
  BY <1>g, <1>u DEF OutcomesAssigned
<1>3. LoopType' /\ SubmitInv'
  BY <1>u DEF SubmitInv
<1> QED BY <1>1, <1>2, <1>3

\* A replacement whose reservation cannot be activated keeps the types.
LEMMA SelectReplacementFailsType ==
    ASSUME TypeInv, NEW t \in Tasks, SelectReplacementFails(t)
    PROVE  TypeOK' /\ SubmitInv'
<1> USE DEF TypeInv, TypeOK, PoolType, TaskType, WorkerType, TelegramType,
        LoopType, poolVars, progressVars, lifeVars, leaseVars, taskVars,
        workerVars, telegramVars, loopVars, ChangeLocked
<1>l. LeasesAssigned
  <2>1. PICK C : MaybeCloseOwned(C)
    BY DEF SelectReplacementFails
  <2> QED BY <2>1, MaybeCloseOwnedType
<1>g. OutcomesAssigned
  <2>1. PICK T \in SUBSET Tasks : TerminalLocked(T, "failed")
    BY DEF SelectReplacementFails
  <2> QED BY <2>1, TerminalLockedType DEF Terminal
<1>1. PoolType' /\ TaskType'
  BY <1>l, <1>g DEF SelectReplacementFails, LeasesAssigned,
     OutcomesAssigned, SubmitInv
<1>2. WorkerType' /\ TelegramType'
  BY <1>l, <1>g DEF SelectReplacementFails, LeasesAssigned,
     OutcomesAssigned, SubmitInv
<1>3. LoopType' /\ SubmitInv'
  BY <1>l, <1>g DEF SelectReplacementFails, LeasesAssigned,
     OutcomesAssigned, SubmitInv
<1> QED BY <1>1, <1>2, <1>3

\* submission_failed keeps the types.
LEMMA SubmissionFailedType ==
    ASSUME TypeInv, SubmissionFailed
    PROVE  TypeOK' /\ SubmitInv'
<1> USE DEF TypeInv, TypeOK, PoolType, TaskType, WorkerType, TelegramType,
        LoopType, poolVars, progressVars, lifeVars, leaseVars, taskVars,
        workerVars, telegramVars, loopVars, ChangeLocked
<1>l. LeasesAssigned
  <2>1. PICK C : MaybeCloseOwned(C)
    BY DEF SubmissionFailed
  <2> QED BY <2>1, MaybeCloseOwnedType
<1>c. action \in Claims
  BY DEF SubmissionFailed, SubmitInv
<1>g. OutcomesAssigned
  <2>1. PICK T \in SUBSET Tasks : TerminalLocked(T, "failed")
    BY <1>c DEF SubmissionFailed, Claims
  <2> QED BY <2>1, TerminalLockedType DEF Terminal
<1>s. /\ snap' \in [Accounts -> BOOLEAN]
      /\ quiescent' \in [Tasks -> SUBSET Attempts]
  BY <1>c DEF SubmissionFailed, Claims
<1>u. /\ UNCHANGED <<requests, eligible, rr, progressVars, result, claimed, pc,
                     rpc, raised, telegramVars, submitted, completions, taken,
                     failure, silent, timed>>
      /\ action' = NoClaim /\ lpc' = "take" /\ changed' = TRUE
  BY DEF SubmissionFailed
<1>f. faults' \in 0 .. MaxFaults
  BY SchedulerAssumption DEF SubmissionFailed
<1>1. PoolType' /\ TaskType'
  BY <1>l, <1>g, <1>s, <1>u DEF LeasesAssigned, OutcomesAssigned
<1>2. WorkerType' /\ TelegramType'
  BY <1>g, <1>u DEF OutcomesAssigned
<1>3. LoopType' /\ SubmitInv'
  BY <1>u, <1>f DEF SubmitInv
<1> QED BY <1>1, <1>2, <1>3

\* A flood that ages keeps the types.
LEMMA FloodAgesType ==
    ASSUME TypeInv, NEW t \in Tasks, FloodAges(t)
    PROVE  TypeOK' /\ SubmitInv'
<1> USE DEF TypeInv, TypeOK, PoolType, TaskType, WorkerType, TelegramType,
        LoopType, poolVars, progressVars, lifeVars, leaseVars, taskVars,
        workerVars, telegramVars, loopVars, ChangeLocked
<1> QED BY DEF FloodAges, SubmitInv

\* commit_migration keeps the types: the attempt it adds is the second.
LEMMA CommitMigrationType ==
    ASSUME TypeInv, NEW t \in Tasks, NEW a \in Accounts, CommitMigration(a, t)
    PROVE  TypeOK' /\ SubmitInv'
<1> USE DEF TypeInv, TypeOK, PoolType, TaskType, WorkerType, TelegramType,
        LoopType, poolVars, progressVars, lifeVars, leaseVars, taskVars,
        workerVars, telegramVars, loopVars, ChangeLocked
<1>a. attempt[t] + 1 \in Attempts /\ attempt[t] \in Attempts
  BY DEF CommitMigration, Scores, Candidate, AttemptInv, Attempts, NoAttempt
<1> QED BY <1>a DEF CommitMigration, SubmitInv, SegmentState

\* Activating a drained migration keeps the types, although it may close a
\* lease and take one in the same step.
LEMMA SelectReplacementType ==
    ASSUME TypeInv, NEW t \in Tasks, SelectReplacement(t)
    PROVE  TypeOK' /\ SubmitInv'
<1> USE DEF TypeInv, TypeOK, PoolType, TaskType, WorkerType, TelegramType,
        LoopType, poolVars, progressVars, lifeVars, leaseVars, taskVars,
        workerVars, telegramVars, loopVars, ChangeLocked
<1>a. attempt[t] \in Attempts /\ resv[t] \in Accounts
  BY DEF SelectReplacement, FirstReady, ReplacementReady, AttemptInv
<1>s. slots' \in [Accounts -> Int]
  <2> DEFINE drained == {u \in {t} : lease[u] # NoAccount}
             back(b) == {u \in drained : lease[u] = b}
  <2>1. ASSUME NEW b \in Accounts PROVE Cardinality(back(b)) \in Nat
    <3>1. back(b) \subseteq {t} /\ IsFiniteSet({t})
      BY FS_Singleton
    <3>2. IsFiniteSet(back(b))
      BY <3>1, FS_Subset
    <3> QED BY <3>2, FS_CardinalityType
  <2>2. slots' = [b \in Accounts |-> slots[b] + Cardinality(back(b))
                                     - (IF b = resv[t] THEN 1 ELSE 0)]
    BY DEF SelectReplacement
  <2> HIDE DEF back
  <2> QED BY <2>1, <2>2
<1>j. jobs' \in [Accounts -> SUBSET (Tasks \cup Others)]
  BY DEF SelectReplacement
<1>c. action' \in Claims
  BY <1>a DEF SelectReplacement, InstallActive, Claims
<1>1. PoolType' /\ TaskType'
  BY <1>a, <1>s, <1>j, <1>c DEF SelectReplacement, InstallActive, SubmitInv,
     SegmentState
<1>2. WorkerType' /\ TelegramType'
  BY <1>a, <1>s, <1>j, <1>c DEF SelectReplacement, InstallActive, SubmitInv,
     SegmentState
<1>3. LoopType' /\ SubmitInv'
  BY <1>a, <1>s, <1>j, <1>c DEF SelectReplacement, InstallActive, SubmitInv,
     SegmentState
<1> QED BY <1>1, <1>2, <1>3

\* Starting a pending segment keeps the types, and the cursor wraps.
LEMMA SelectPendingType ==
    ASSUME TypeInv, NEW t \in Tasks, NEW a \in Accounts, SelectPending(t, a)
    PROVE  TypeOK' /\ SubmitInv'
<1> USE DEF TypeInv, TypeOK, PoolType, TaskType, WorkerType, TelegramType,
        LoopType, poolVars, progressVars, lifeVars, leaseVars, taskVars,
        workerVars, telegramVars, loopVars, ChangeLocked
<1>r. rr' \in 0 .. (NumAccounts - 1)
  BY PoolAssumption DEF SelectPending, AcquireUploadLease, Accounts
<1>c. action' \in Claims
  BY DEF SelectPending, InstallActive, Claims, Attempts
<1>p. PoolType'
  BY <1>r DEF SelectPending, AcquireUploadLease, InstallActive
<1>t. TaskType'
  BY DEF SelectPending, InstallActive, SegmentState, Attempts
<1>w. WorkerType' /\ TelegramType'
  BY DEF SelectPending, InstallActive, Attempts
<1>o. LoopType' /\ SubmitInv'
  BY <1>c DEF SelectPending, InstallActive, SubmitInv
<1> QED BY <1>p, <1>t, <1>w, <1>o

\* The other uploads of the pool keep the types.
LEMMA PoolStepType ==
    ASSUME TypeInv, NEW a \in Accounts, PoolStep(a)
    PROVE  TypeOK' /\ SubmitInv'
<1> USE DEF TypeInv, TypeOK, PoolType, TaskType, WorkerType, TelegramType,
        LoopType, poolVars, progressVars, lifeVars, leaseVars, taskVars,
        workerVars, telegramVars, loopVars, ChangeLocked
<1>p. PoolType'
  <2>1. CASE ExpireSnapshot(a)
    BY <2>1 DEF ExpireSnapshot
  <2>2. ASSUME NEW w \in Others, OtherAcquire(a, w) PROVE PoolType'
    <3>1. rr' \in 0 .. (NumAccounts - 1)
      BY <2>2, PoolAssumption DEF OtherAcquire, AcquireUploadLease, Accounts
    <3> QED BY <2>2, <3>1 DEF OtherAcquire, AcquireUploadLease
  <2>3. ASSUME NEW w \in Others, OtherAcquireExact(a, w) PROVE PoolType'
    BY <2>3 DEF OtherAcquireExact
  <2>4. ASSUME NEW w \in Others, OtherClose(a, w) PROVE PoolType'
    <3>1. ASSUME NEW b \in Accounts
          PROVE  Cardinality({l \in {<<a, w>>} : l[1] = b}) \in Nat
      <4>1. IsFiniteSet({l \in {<<a, w>>} : l[1] = b})
        BY FS_Singleton, FS_Subset
      <4> QED BY <4>1, FS_CardinalityType
    <3>2. slots' \in [Accounts -> Int]
      <4> DEFINE freed(b) == Cardinality({l \in {<<a, w>>} : l[1] = b})
      <4>1. slots' = [b \in Accounts |-> slots[b] + freed(b)]
        BY <2>4 DEF OtherClose, CloseLeases
      <4>2. ASSUME NEW b \in Accounts PROVE freed(b) \in Nat
        BY <3>1
      <4> HIDE DEF freed
      <4> QED BY <4>1, <4>2
    <3> QED BY <2>4, <3>2 DEF OtherClose, CloseLeases
  <2>5. CASE StopRuntime(a)
    BY <2>5 DEF StopRuntime
  <2> QED BY <2>1, <2>2, <2>3, <2>4, <2>5 DEF PoolStep
<1> QED BY <1>p DEF PoolStep, SubmitInv

\* The part sends that close no lease keep the types.
LEMMA PlainPartStepType ==
    ASSUME TypeInv, NEW t \in Tasks, NEW n \in Attempts, NEW p \in Parts,
           \/ BeginRequestRejected(t, n, p)
           \/ RequestSucceeded(t, n, p)
           \/ RequestFailed(t, n, p)
           \/ LateRequestSucceeded(t, n, p)
    PROVE  TypeOK' /\ SubmitInv'
<1> USE DEF TypeInv, TypeOK, PoolType, TaskType, WorkerType, TelegramType,
        LoopType, poolVars, progressVars, lifeVars, leaseVars, taskVars,
        workerVars, telegramVars, loopVars, ChangeLocked
<1> USE SchedulerAssumption DEF SubmitInv, RpcState, WorkerPC, Goto
<1>1. CASE BeginRequestRejected(t, n, p)
  BY <1>1, SMTT(30) DEF BeginRequestRejected
<1>2. CASE RequestSucceeded(t, n, p)
  <2>1. parts' \in [Tasks -> SUBSET Parts]
    BY <1>2 DEF RequestSucceeded
  <2> QED BY <1>2, <2>1, SMTT(30) DEF RequestSucceeded
<1>3. CASE RequestFailed(t, n, p)
  BY <1>3, SMTT(30) DEF RequestFailed
<1>4. CASE LateRequestSucceeded(t, n, p)
  BY <1>4, SMTT(30) DEF LateRequestSucceeded
<1> QED BY <1>1, <1>2, <1>3, <1>4

\* The executor steps that close no lease and end no segment keep the types.
LEMMA PlainExecutorStepType ==
    ASSUME TypeInv, NEW t \in Tasks, NEW n \in Attempts,
           \/ BorrowRuntime(t, n)
           \/ BindRevokeHandle(t, n)
           \/ SetupRaises(t, n)
           \/ RevokeLands(t, n)
           \/ PrepareSegment(t, n)
           \/ AttemptRevoked(t, n)
           \/ ThumbnailFails(t, n)
           \/ SendUploadedSegment(t, n)
           \/ SendRaises(t, n)
           \/ ActionRaises(t, n)
           \/ EnqueueExecutorCompletion(t, n)
    PROVE  TypeOK' /\ SubmitInv'
<1> USE DEF TypeInv, TypeOK, PoolType, TaskType, WorkerType, TelegramType,
        LoopType, poolVars, progressVars, lifeVars, leaseVars, taskVars,
        workerVars, telegramVars, loopVars, ChangeLocked
<1> USE SchedulerAssumption DEF SubmitInv, RpcState, WorkerPC, Goto
<1>1. CASE BorrowRuntime(t, n)
  BY <1>1, SMTT(30) DEF BorrowRuntime
<1>2. CASE BindRevokeHandle(t, n)
  BY <1>2, SMTT(30) DEF BindRevokeHandle
<1>3. CASE SetupRaises(t, n)
  BY <1>3, SMTT(30) DEF SetupRaises
<1>4. CASE RevokeLands(t, n)
  BY <1>4 DEF RevokeLands
<1>5. CASE PrepareSegment(t, n)
  BY <1>5 DEF PrepareSegment
<1>6. CASE AttemptRevoked(t, n)
  BY <1>6 DEF AttemptRevoked
<1>7. CASE ThumbnailFails(t, n)
  BY <1>7 DEF ThumbnailFails
<1>8. CASE SendUploadedSegment(t, n)
  BY <1>8 DEF SendUploadedSegment
<1>9. CASE SendRaises(t, n)
  <2>1. messages' \in [Tasks -> SUBSET Attempts]
    BY <1>9 DEF SendRaises
  <2> QED BY <1>9, <2>1 DEF SendRaises
<1>10. CASE ActionRaises(t, n)
  BY <1>10 DEF ActionRaises
<1>11. CASE EnqueueExecutorCompletion(t, n)
  <2>1. /\ completions' \in SUBSET Claims
        /\ pc' \in [Tasks -> [Attempts -> WorkerPC]]
    BY <1>11 DEF EnqueueExecutorCompletion, Claims
  <2>2. /\ UNCHANGED <<poolVars, taskVars, claimed, rpc, revoke, raised,
                       telegramVars, lpc, action, submitted, taken, failure,
                       silent, timed, faults>>
        /\ changed' = TRUE
    BY <1>11 DEF EnqueueExecutorCompletion
  <2> QED BY <2>1, <2>2
<1> QED BY <1>1, <1>2, <1>3, <1>4, <1>5, <1>6, <1>7, <1>8, <1>9, <1>10, <1>11

\* The loop steps that touch no segment keep the types.
LEMMA PlainLoopStepType ==
    ASSUME TypeInv,
           \/ TakeExecutorCompletions
           \/ LoopBreak
           \/ SelectNothing
           \/ Submit
           \/ NextDeadline
           \/ WaitForChange
    PROVE  TypeOK' /\ SubmitInv'
<1> USE DEF TypeInv, TypeOK, PoolType, TaskType, WorkerType, TelegramType,
        LoopType, poolVars, progressVars, lifeVars, leaseVars, taskVars,
        workerVars, telegramVars, loopVars, ChangeLocked
<1> USE SchedulerAssumption DEF SubmitInv, RpcState, WorkerPC, Goto
<1>1. CASE TakeExecutorCompletions
  BY <1>1 DEF TakeExecutorCompletions, Claims, NoClaim
<1>2. CASE LoopBreak
  BY <1>2 DEF LoopBreak, Claims, NoClaim
<1>3. CASE SelectNothing
  BY <1>3 DEF SelectNothing, Claims, NoClaim
<1>4. CASE Submit
  BY <1>4 DEF Submit, Claims, NoClaim
<1>5. CASE NextDeadline
  BY <1>5 DEF NextDeadline, Claims, NoClaim
<1>6. CASE WaitForChange
  BY <1>6 DEF WaitForChange, Claims, NoClaim
<1> QED BY <1>1, <1>2, <1>3, <1>4, <1>5, <1>6

\* Every step keeps the types; AttemptInv of the next state is NextAttempt.
LEMMA NextType ==
    ASSUME TypeInv, [Next]_vars
    PROVE  TypeOK' /\ SubmitInv'
<1>1. ASSUME NEW t \in Tasks, NEW n \in Attempts, NEW p \in Parts,
             PartStep(t, n, p) \/ LateRequestSucceeded(t, n, p)
      PROVE  TypeOK' /\ SubmitInv'
  BY <1>1, BeginRequestType, PremiumFloodType, RequestSettledType,
     PlainPartStepType DEF PartStep
<1>2. ASSUME NEW t \in Tasks, NEW n \in Attempts, ExecutorStep(t, n)
      PROVE  TypeOK' /\ SubmitInv'
  BY <1>2, BindRefusedType, BytesPreparedType, GrantFinalizeType,
     CompleteAttemptType, FailAttemptType, AttemptQuiescedType,
     PlainExecutorStepType DEF ExecutorStep
<1>3. CASE LoopStep
  BY <1>3, ExecutorFinishedType, SelectReplacementType,
     SelectReplacementFailsType, CommitMigrationType, SelectPendingType,
     SubmissionFailedType, PlainLoopStepType DEF LoopStep
<1>4. ASSUME NEW t \in Tasks, FloodAges(t)
      PROVE  TypeOK' /\ SubmitInv'
  BY <1>4, FloodAgesType
<1>5. ASSUME NEW a \in Accounts, PoolStep(a)
      PROVE  TypeOK' /\ SubmitInv'
  BY <1>5, PoolStepType
<1>6. CASE UNCHANGED vars
  BY <1>6 DEF vars, poolVars, progressVars, lifeVars, leaseVars, taskVars,
     workerVars, telegramVars, loopVars, TypeInv, TypeOK, PoolType, TaskType,
     WorkerType, TelegramType, LoopType, SubmitInv
<1>7. CASE Finished
  BY <1>6, <1>7 DEF Finished
<1> QED BY <1>1, <1>2, <1>3, <1>4, <1>5, <1>6, <1>7 DEF Next

-----------------------------------------------------------------------------
(* The life of a task *)

\* All a step can do to the state, the attempt, the migration count and the
\* result of one segment: nothing, end it, start it, grant its message or
\* activate its replacement, or migrate it.
LifeStep(t) ==
    \/ UNCHANGED <<state[t], attempt[t], migrations[t], result[t]>>
    \/ /\ state[t] \notin Terminal /\ state'[t] \in Terminal
       /\ UNCHANGED <<attempt[t], migrations[t]>>
    \/ /\ state[t] = "pending" /\ state'[t] = "active"
       /\ attempt'[t] = 1
       /\ UNCHANGED <<migrations[t], result[t]>>
    \/ /\ \/ state[t] = "active" /\ state'[t] = "finalizing"
          \/ state[t] = "migrating" /\ state'[t] = "active"
       /\ UNCHANGED <<attempt[t], migrations[t], result[t]>>
    \/ /\ state[t] = "active" /\ state'[t] = "migrating"
       /\ attempt'[t] = attempt[t] + 1
       /\ migrations[t] = 0 /\ migrations'[t] = 1
       /\ result'[t] = result[t]

\* _terminal_locked ends a segment that has no outcome, or leaves it alone.
LEMMA TerminalLockedLife ==
    ASSUME TypeInv, NEW T \in SUBSET Tasks, NEW outcome \in Terminal,
           TerminalLocked(T, outcome), NEW t \in Tasks
    PROVE  /\ \/ state'[t] = state[t]
              \/ state[t] \notin Terminal /\ state'[t] \in Terminal
           /\ UNCHANGED <<attempt[t], migrations[t]>>
BY DEF TerminalLocked, NotYetTerminal

\* What the executor of any attempt does to a segment (grant_finalize,
\* complete_attempt, fail_attempt and the rest).
LEMMA ExecutorLife ==
    ASSUME TypeInv, NEW u \in Tasks, NEW n \in Attempts, ExecutorStep(u, n),
           NEW t \in Tasks
    PROVE  LifeStep(t)
<1> USE DEF LifeStep, lifeVars, taskVars, TypeInv, TypeOK, TaskType
<1>1. CASE CompleteAttempt(u, n)
  <2>1. CASE ValidCurrent(u, n, {"finalizing"})
    <3>1. TerminalLocked({u}, "completed") /\ result' = [result EXCEPT ![u] = n]
      BY <1>1, <2>1 DEF CompleteAttempt
    <3>2. state[u] \notin Terminal
      BY <2>1 DEF ValidCurrent
    <3>3. state'[u] \in Terminal
      BY <3>1, <3>2 DEF TerminalLocked, NotYetTerminal, Terminal
    <3>4. /\ \/ state'[t] = state[t]
             \/ state[t] \notin Terminal /\ state'[t] \in Terminal
          /\ UNCHANGED <<attempt[t], migrations[t]>>
      BY <3>1, TerminalLockedLife DEF Terminal
    <3>5. t # u => result'[t] = result[t]
      BY <3>1
    <3> QED BY <3>2, <3>3, <3>4, <3>5
  <2>2. CASE ~ValidCurrent(u, n, {"finalizing"})
    BY <1>1, <2>2 DEF CompleteAttempt
  <2> QED BY <2>1, <2>2
<1>2. CASE FailAttempt(u, n)
  <2>1. CASE ValidCurrent(u, n, {"active", "finalizing"})
    <3>1. TerminalLocked({u}, "failed") /\ result' = result
      BY <1>2, <2>1 DEF FailAttempt
    <3> QED BY <3>1, TerminalLockedLife DEF Terminal
  <2>2. CASE ~ValidCurrent(u, n, {"active", "finalizing"})
    BY <1>2, <2>2 DEF FailAttempt
  <2> QED BY <2>1, <2>2
<1>3. CASE GrantFinalize(u, n)
  BY <1>3 DEF GrantFinalize, ValidCurrent
<1>4. CASE \/ BorrowRuntime(u, n) \/ BindRevokeHandle(u, n)
           \/ BindRefused(u, n) \/ SetupRaises(u, n) \/ RevokeLands(u, n)
           \/ PrepareSegment(u, n) \/ AttemptRevoked(u, n)
           \/ ThumbnailFails(u, n)
  BY <1>4 DEF BorrowRuntime, BindRevokeHandle, BindRefused, SetupRaises,
     RevokeLands, PrepareSegment, AttemptRevoked, ThumbnailFails
<1>5. CASE \/ BytesPrepared(u, n) \/ SendUploadedSegment(u, n)
           \/ SendRaises(u, n) \/ ActionRaises(u, n) \/ AttemptQuiesced(u, n)
           \/ EnqueueExecutorCompletion(u, n)
  BY <1>5 DEF BytesPrepared, SendUploadedSegment, SendRaises, ActionRaises,
     AttemptQuiesced, EnqueueExecutorCompletion
<1> QED BY <1>1, <1>2, <1>3, <1>4, <1>5 DEF ExecutorStep

\* What the loop does to a segment (select_next_action, commit_migration,
\* executor_finished, submission_failed).
LEMMA LoopLife ==
    ASSUME TypeInv, LoopStep, NEW t \in Tasks
    PROVE  LifeStep(t)
<1> USE DEF LifeStep, lifeVars, taskVars, TypeInv, TypeOK, TaskType
<1>1. ASSUME NEW u \in Tasks, NEW n \in Attempts, ExecutorFinished(u, n)
      PROVE  LifeStep(t)
  <2>1. PICK T \in SUBSET Tasks : TerminalLocked(T, "failed")
    BY <1>1 DEF ExecutorFinished
  <2>2. result' = result
    BY <1>1 DEF ExecutorFinished
  <2> QED BY <2>1, <2>2, TerminalLockedLife DEF Terminal
<1>2. ASSUME NEW u \in Tasks, SelectReplacement(u)
      PROVE  LifeStep(t)
  BY <1>2 DEF SelectReplacement, FirstReady, ReplacementReady, InstallActive
<1>3. ASSUME NEW u \in Tasks, SelectReplacementFails(u)
      PROVE  LifeStep(t)
  <2>1. TerminalLocked({u}, "failed") /\ result' = result
    BY <1>3 DEF SelectReplacementFails
  <2> QED BY <2>1, TerminalLockedLife DEF Terminal
<1>4. ASSUME NEW u \in Tasks, NEW a \in Accounts, CommitMigration(a, u)
      PROVE  LifeStep(t)
  BY <1>4 DEF CommitMigration, Scores, Candidate
<1>5. ASSUME NEW u \in Tasks, NEW a \in Accounts, SelectPending(u, a)
      PROVE  LifeStep(t)
  BY <1>5 DEF SelectPending, FirstPending, InstallActive
<1>6. CASE SubmissionFailed
  <2>1. action \in Claims
    BY <1>6 DEF SubmissionFailed, SubmitInv
  <2>2. PICK T \in SUBSET Tasks : TerminalLocked(T, "failed")
    BY <1>6, <2>1 DEF SubmissionFailed, Claims
  <2>3. result' = result
    BY <1>6 DEF SubmissionFailed
  <2> QED BY <2>2, <2>3, TerminalLockedLife DEF Terminal
<1>7. CASE \/ TakeExecutorCompletions \/ LoopBreak \/ SelectNothing
           \/ Submit \/ NextDeadline \/ WaitForChange
  BY <1>7 DEF TakeExecutorCompletions, LoopBreak, SelectNothing, Submit,
     NextDeadline, WaitForChange
<1> QED BY <1>1, <1>2, <1>3, <1>4, <1>5, <1>6, <1>7 DEF LoopStep

\* Every step is a LifeStep of every segment.
LEMMA NextLife ==
    ASSUME TypeInv, [Next]_vars, NEW t \in Tasks
    PROVE  LifeStep(t)
<1>1. ASSUME NEW u \in Tasks, NEW n \in Attempts, NEW p \in Parts,
             PartStep(u, n, p) \/ LateRequestSucceeded(u, n, p)
      PROVE  LifeStep(t)
  BY <1>1 DEF PartStep, BeginRequest, BeginRequestRejected, RequestSucceeded,
     PremiumFlood, RequestFailed, RequestSettled, LateRequestSucceeded,
     LifeStep, lifeVars, taskVars
<1>2. ASSUME NEW u \in Tasks, FloodAges(u) PROVE LifeStep(t)
  BY <1>2 DEF FloodAges, LifeStep, lifeVars
<1>3. ASSUME NEW a \in Accounts, PoolStep(a) PROVE LifeStep(t)
  BY <1>3 DEF PoolStep, LifeStep, lifeVars, taskVars
<1>4. CASE UNCHANGED vars
  BY <1>4 DEF vars, LifeStep, lifeVars, taskVars
<1> QED
  BY <1>1, <1>2, <1>3, <1>4, ExecutorLife, LoopLife DEF Next, Finished

\* LifeSteps keep the attempt numbers right: only a segment that has never
\* migrated migrates (_candidate_locked).
LEMMA NextAttempt ==
    ASSUME TypeInv, \A t \in Tasks : LifeStep(t)
    PROVE  AttemptInv'
BY DEF TypeInv, TypeOK, TaskType, AttemptInv, LifeStep, Attempts, NoAttempt,
   Terminal, SegmentState

\* The inductive invariant holds in every reachable state.
LEMMA TypeInvariant == Spec => []TypeInv
<1>1. Init => TypeInv
  <2> SUFFICES ASSUME Init PROVE TypeInv
    OBVIOUS
  <2> USE PoolAssumption, SchedulerAssumption DEF Init, PoolInit, NoAttempt,
          NoAccount, NoTask
  <2>1. PoolType
    BY DEF PoolType
  <2>2. TaskType
    BY DEF TaskType, SegmentState
  <2>3. WorkerType
    BY DEF WorkerType, WorkerPC, RpcState
  <2>4. TelegramType
    BY DEF TelegramType
  <2>5. LoopType
    <3>1. faults \in 0 .. MaxFaults
      OBVIOUS
    <3> QED BY <3>1 DEF LoopType, NoClaim, Claims
  <2>7. SubmitInv
    BY DEF SubmitInv
  <2>6. AttemptInv
    BY DEF AttemptInv
  <2> QED BY <2>1, <2>2, <2>3, <2>4, <2>5, <2>6, <2>7 DEF TypeInv, TypeOK
<1>2. TypeInv /\ [Next]_vars => TypeInv'
  BY NextType, NextLife, NextAttempt DEF TypeInv
<1> QED BY <1>1, <1>2, PTL DEF Spec

\* Every variable of the scheduler, its executors, the loop and the account
\* pool holds a value of its Python field's type: in particular no segment gets
\* a third attempt, and every action of the loop is submitted for a real
\* attempt (segment_scheduler.py, upload_engine.py).
THEOREM TypeCorrect == Spec => []TypeOK
<1>1. TypeInv => TypeOK
  BY DEF TypeInv
<1> QED BY <1>1, TypeInvariant, PTL

\* A completed or failed segment stays that way with the same result, and a
\* superseded attempt never gets the segment back, whatever late answers,
\* floods, aborts and escaped errors do (_terminal_locked, _valid_current).
THEOREM OutcomeStaysFinal == Spec => OutcomeIsFinal
<1> DEFINE Final == \A t \in Tasks :
                       /\ state[t] \in Terminal =>
                             state'[t] = state[t] /\ result'[t] = result[t]
                       /\ attempt'[t] >= attempt[t]
<1>1. TypeInv /\ [Next]_vars => [Final]_vars
  <2> SUFFICES ASSUME TypeInv, [Next]_vars, NEW t \in Tasks
               PROVE  /\ state[t] \in Terminal =>
                            state'[t] = state[t] /\ result'[t] = result[t]
                      /\ attempt'[t] >= attempt[t]
    OBVIOUS
  <2>1. LifeStep(t)
    BY NextLife
  <2>2. attempt[t] \in 0 .. 2
    BY DEF TypeInv, TypeOK, TaskType, Attempts, NoAttempt
  <2> QED
    BY <2>1, <2>2 DEF LifeStep, Terminal, TypeInv, AttemptInv, NoAttempt
<1> QED BY <1>1, TypeInvariant, PTL DEF Spec, OutcomeIsFinal

-----------------------------------------------------------------------------
(* At most one message per segment *)

\* Attempt n was granted the segment's message, or has created it.
Sending(t, n) == pc[t][n] \in {"granted", "sent"} \/ n \in messages[t]

\* Only the current attempt of a segment that can no longer migrate was ever
\* granted the message.
GrantInv ==
    \A t \in Tasks, n \in Attempts :
        Sending(t, n) =>
            state[t] \in {"finalizing"} \cup Terminal /\ attempt[t] = n

\* The one way an attempt comes to send: grant_finalize, which takes the
\* segment out of the reach of commit_migration.
GrantStep(t, n) ==
    Sending(t, n)' =>
        \/ Sending(t, n)
        \/ state[t] = "active" /\ state'[t] = "finalizing" /\ attempt[t] = n

\* A step that creates no message and takes an executor anywhere but to the
\* send grants nothing.
LEMMA GotoGrants ==
    ASSUME TypeInv, NEW u \in Tasks, NEW m \in Attempts,
           NEW where \in WorkerPC \ {"granted", "sent"}, Goto(u, m, where),
           messages' = messages, NEW t \in Tasks, NEW n \in Attempts
    PROVE  GrantStep(t, n)
BY DEF GrantStep, Sending, TypeInv, TypeOK, WorkerType, Goto

\* Among the executor's steps only grant_finalize grants.
LEMMA ExecutorGrants ==
    ASSUME TypeInv, NEW u \in Tasks, NEW m \in Attempts, ExecutorStep(u, m),
           NEW t \in Tasks, NEW n \in Attempts
    PROVE  GrantStep(t, n)
<1> USE DEF telegramVars
<1>1. CASE GrantFinalize(u, m)
  <2>1. messages' = messages
    BY <1>1 DEF GrantFinalize
  <2>2. CASE ValidCurrent(u, m, {"active"})
    <3>1. /\ state' = [state EXCEPT ![u] = "finalizing"]
          /\ state[u] = "active" /\ attempt[u] = m
      BY <1>1, <2>2 DEF GrantFinalize, ValidCurrent
    <3>2. \A k \in Attempts : (t = u /\ k = m) \/ pc'[t][k] = pc[t][k]
      BY <1>1, <2>2 DEF GrantFinalize, Goto, TypeInv, TypeOK, WorkerType
    <3>3. state \in [Tasks -> SegmentState]
      BY DEF TypeInv, TypeOK, TaskType
    <3> QED BY <2>1, <3>1, <3>2, <3>3 DEF GrantStep, Sending
  <2>3. CASE ~ValidCurrent(u, m, {"active"})
    <3>1. Goto(u, m, "finally")
      BY <1>1, <2>3 DEF GrantFinalize
    <3> QED BY <2>1, <3>1, GotoGrants DEF WorkerPC
  <2> QED BY <2>2, <2>3
<1>2. CASE SendUploadedSegment(u, m)
  BY <1>2 DEF SendUploadedSegment, Goto, GrantStep, Sending, TypeInv, TypeOK,
     WorkerType, TelegramType
<1>3. CASE SendRaises(u, m)
  <2>1. /\ pc[u][m] = "granted"
        /\ pc' = [pc EXCEPT ![u][m] = "failing"]
    BY <1>3 DEF SendRaises, Goto
  <2>2. \A k \in Attempts :
           k \in messages'[t] => k \in messages[t] \/ (t = u /\ k = m)
    BY <1>3 DEF SendRaises, TypeInv, TypeOK, TelegramType
  <2> QED BY <2>1, <2>2 DEF GrantStep, Sending, TypeInv, TypeOK, WorkerType
<1>4. CASE \/ BorrowRuntime(u, m) \/ BindRevokeHandle(u, m)
           \/ BindRefused(u, m) \/ SetupRaises(u, m) \/ RevokeLands(u, m)
           \/ PrepareSegment(u, m) \/ AttemptRevoked(u, m)
           \/ ThumbnailFails(u, m)
  <2>1. messages' = messages
    BY <1>4 DEF BorrowRuntime, BindRevokeHandle, BindRefused, SetupRaises,
       RevokeLands, PrepareSegment, AttemptRevoked, ThumbnailFails
  <2>2. PICK where \in WorkerPC \ {"granted", "sent"} : Goto(u, m, where)
    BY <1>4 DEF BorrowRuntime, BindRevokeHandle, BindRefused, SetupRaises,
       RevokeLands, PrepareSegment, AttemptRevoked, ThumbnailFails, Goto,
       WorkerPC
  <2> QED BY <2>1, <2>2, GotoGrants
<1>5. CASE \/ BytesPrepared(u, m) \/ CompleteAttempt(u, m)
           \/ FailAttempt(u, m) \/ ActionRaises(u, m)
           \/ AttemptQuiesced(u, m) \/ EnqueueExecutorCompletion(u, m)
  <2>1. messages' = messages
    BY <1>5 DEF BytesPrepared, CompleteAttempt, FailAttempt, ActionRaises,
       AttemptQuiesced, EnqueueExecutorCompletion
  <2>2. PICK where \in WorkerPC \ {"granted", "sent"} : Goto(u, m, where)
    BY <1>5 DEF BytesPrepared, CompleteAttempt, FailAttempt, ActionRaises,
       AttemptQuiesced, EnqueueExecutorCompletion, WorkerPC
  <2> QED BY <2>1, <2>2, GotoGrants
<1> QED BY <1>1, <1>2, <1>3, <1>4, <1>5 DEF ExecutorStep

\* Every step is a GrantStep of every attempt.
LEMMA NextGrants ==
    ASSUME TypeInv, [Next]_vars, NEW t \in Tasks, NEW n \in Attempts
    PROVE  GrantStep(t, n)
<1> USE DEF GrantStep, Sending, workerVars, telegramVars
<1>1. ASSUME NEW u \in Tasks, NEW m \in Attempts, NEW p \in Parts,
             PartStep(u, m, p) \/ LateRequestSucceeded(u, m, p)
      PROVE  GrantStep(t, n)
  <2>1. messages' = messages
    BY <1>1 DEF PartStep, BeginRequest, BeginRequestRejected, RequestSucceeded,
       PremiumFlood, RequestFailed, RequestSettled, LateRequestSucceeded
  <2>2. pc' = pc \/ Goto(u, m, "failing")
    BY <1>1 DEF PartStep, BeginRequest, BeginRequestRejected, RequestSucceeded,
       PremiumFlood, RequestFailed, RequestSettled, LateRequestSucceeded, Goto
  <2> QED BY <2>1, <2>2, GotoGrants DEF WorkerPC
<1>2. CASE LoopStep
  <2>1. CASE Submit
    <3>1. /\ action[1] \in Tasks /\ action[2] \in Attempts
          /\ Goto(action[1], action[2], "queued")
          /\ messages' = messages
      BY <2>1 DEF Submit, TypeInv, SubmitInv, Claims
    <3> QED BY <3>1, GotoGrants DEF WorkerPC
  <2>2. ASSUME \E u \in Tasks : \/ \E k \in Attempts : ExecutorFinished(u, k)
                                \/ SelectReplacement(u)
                                \/ SelectReplacementFails(u)
                                \/ \E a \in Accounts : CommitMigration(a, u)
                                \/ \E a \in Accounts : SelectPending(u, a)
        PROVE  UNCHANGED <<pc, messages>>
    <3>1. PICK u \in Tasks : \/ \E k \in Attempts : ExecutorFinished(u, k)
                             \/ SelectReplacement(u)
                             \/ SelectReplacementFails(u)
                             \/ \E a \in Accounts : CommitMigration(a, u)
                             \/ \E a \in Accounts : SelectPending(u, a)
      BY <2>2
    <3> QED
      BY <3>1 DEF ExecutorFinished, SelectReplacement, SelectReplacementFails,
       CommitMigration, SelectPending, InstallActive
  <2>3. ASSUME \/ TakeExecutorCompletions \/ LoopBreak \/ SelectNothing
               \/ SubmissionFailed \/ NextDeadline \/ WaitForChange
        PROVE  UNCHANGED <<pc, messages>>
    BY <2>3 DEF TakeExecutorCompletions, LoopBreak, SelectNothing,
       SubmissionFailed, NextDeadline, WaitForChange
  <2> QED BY <1>2, <2>1, <2>2, <2>3 DEF LoopStep
<1>3. ASSUME NEW u \in Tasks, FloodAges(u) PROVE GrantStep(t, n)
  BY <1>3 DEF FloodAges
<1>4. ASSUME NEW a \in Accounts, PoolStep(a) PROVE GrantStep(t, n)
  BY <1>4 DEF PoolStep
<1>5. CASE UNCHANGED vars
  BY <1>5 DEF vars
<1> QED BY <1>1, <1>2, <1>3, <1>4, <1>5, ExecutorGrants DEF Next, Finished

\* Only the current attempt of a segment was ever granted its message.
LEMMA GrantInvariant == Spec => []GrantInv
<1>1. Init => GrantInv
  BY DEF Init, GrantInv, Sending
<1>2. TypeInv /\ GrantInv /\ [Next]_vars => GrantInv'
  <2> SUFFICES ASSUME TypeInv, GrantInv, [Next]_vars,
                      NEW t \in Tasks, NEW n \in Attempts, Sending(t, n)'
               PROVE  /\ state'[t] \in {"finalizing"} \cup Terminal
                      /\ attempt'[t] = n
    BY DEF GrantInv
  <2>1. LifeStep(t) /\ GrantStep(t, n)
    BY NextLife, NextGrants
  <2> QED BY <2>1 DEF LifeStep, GrantStep, GrantInv, Terminal
<1> QED BY <1>1, <1>2, TypeInvariant, PTL DEF Spec

\* At most one Telegram message is ever created for a segment: what
\* grant_finalize gives to one attempt no migration and no abort can give to
\* another (grant_finalize, commit_migration, send_uploaded_segment).
THEOREM OneMessage == Spec => []AtMostOneMessage
<1>1. TypeInv /\ GrantInv => AtMostOneMessage
  <2> SUFFICES ASSUME TypeInv, GrantInv, NEW t \in Tasks
               PROVE  Cardinality(messages[t]) <= 1
    BY DEF AtMostOneMessage
  <2>1. messages[t] \subseteq {attempt[t]}
    BY DEF TypeInv, TypeOK, TelegramType, GrantInv, Sending
  <2>2. IsFiniteSet({attempt[t]}) /\ Cardinality({attempt[t]}) = 1
    BY FS_Singleton
  <2>3. Cardinality(messages[t]) <= Cardinality({attempt[t]})
    BY <2>1, <2>2, FS_Subset
  <2> QED BY <2>2, <2>3
<1> QED BY <1>1, TypeInvariant, GrantInvariant, PTL


-----------------------------------------------------------------------------
(* Leases, slots, reservations and messages: the inductive invariant *)

\* Where a part is whose RPC holds a token: begun and not yet settled.
InFlight == {"sent", "ok", "retry", "dead"}

\* The tokens of an attempt are its RPCs in flight, and where its executor is
\* says how far its parts are.
RpcOK(t, n) ==
    /\ tokens[t][n] = {p \in Parts : rpc[t][n][p] \in InFlight}
    /\ pc[t][n] \in {"none", "queued", "borrowed"} =>
          \A p \in Parts : rpc[t][n][p] = "idle"
    /\ pc[t][n] \in {"prepared", "bytes", "granted", "sent"} =>
          \A p \in Parts : rpc[t][n][p] = "done"
    /\ pc[t][n] \in {"finally", "returning", "done"} => tokens[t][n] = {}

\* Where an executor is that has run its finally clause.
Left == {"returning", "done"}

\* Which attempts of a segment were ever claimed, and what that says of the
\* segment and of the executors: attempt 2 is claimed only once the executor of
\* attempt 1 has left.
ClaimOK(t) ==
    /\ \A n \in Attempts :
          claimed[t][n] = NoAccount => pc[t][n] = "none" /\ n \notin quiescent[t]
    /\ state[t] = "pending" => claimed[t][1] = NoAccount
    /\ attempt[t] # 2 => claimed[t][2] = NoAccount
    /\ state[t] = "migrating" =>
          attempt[t] = 2 /\ draining[t] = 1 /\ claimed[t][2] = NoAccount
    /\ state[t] \in {"pending", "active", "finalizing"} => draining[t] = NoAttempt
    /\ state[t] \in {"active", "finalizing"} =>
          account[t] # NoAccount /\ account[t] = claimed[t][attempt[t]]
    /\ \A n \in quiescent[t] :
          \/ pc[t][n] \in Left
          \/ pc[t][n] = "none" /\ state[t] \in Terminal
    /\ claimed[t][2] # NoAccount => pc[t][1] \in Left

\* Whose lease a segment holds: that of the attempt with tokens, of a current
\* attempt that still uploads, and of an ended one only until it has quiesced.
LeaseOK(t) ==
    /\ lease[t] = NoAccount <=> leaseAttempt[t] = NoAttempt
    /\ lease[t] # NoAccount => lease[t] = claimed[t][leaseAttempt[t]]
    /\ state[t] = "active" =>
          \/ OwnsLease(t, attempt[t])
          \/ pc[t][attempt[t]] \in {"bytes", "finally"} \cup Left
    /\ \A n \in Attempts : tokens[t][n] # {} => OwnsLease(t, n)
    /\ state[t] = "migrating" /\ lease[t] # NoAccount => leaseAttempt[t] = 1
    /\ state[t] \in Terminal /\ lease[t] # NoAccount =>
          tokens[t][leaseAttempt[t]] # {} \/ leaseAttempt[t] \notin quiescent[t]

\* The loop's books on an attempt: a claim is submitted, runs, is reported once
\* and leaves `submitted' only after its executor has returned.
LoopOK(t, n) ==
    /\ <<t, n>> \in completions \cup taken =>
          pc[t][n] = "done" /\ <<t, n>> \in submitted
    /\ pc[t][n] \notin {"none", "done"} => <<t, n>> \in submitted
    /\ <<t, n>> \in submitted => pc[t][n] # "none"
    /\ pc[t][n] = "done" => <<t, n>> \in submitted \/ n \in quiescent[t]
    /\ claimed[t][n] # NoAccount /\ pc[t][n] = "none" =>
          (lpc = "submit" /\ action = <<t, n>>) \/ n \in quiescent[t]
    /\ lpc = "submit" /\ action = <<t, n>> =>
          /\ state[t] = "active" /\ attempt[t] = n
          /\ pc[t][n] = "none"

\* What a current attempt of an active segment can rely on: it was not revoked,
\* its executor has not returned, and every part it sent counts.
CurrentOK(t, n) ==
    LET current == state[t] = "active" /\ attempt[t] = n IN
    /\ revoke[t][n] => ~current
    /\ pc[t][n] = "revoked" => revoke[t][n]
    /\ pc[t][n] \in {"finally"} \cup Left /\ ~raised[t][n] => ~current
    /\ current => \A p \in Parts : rpc[t][n][p] \in {"ok", "done"} => p \in parts[t]
    /\ revoke[t][n] => claimed[t][n] # NoAccount
    /\ handle[t] => state[t] \in {"active", "finalizing"}

\* The invariants, for every segment and attempt.
RpcInv == \A t \in Tasks, n \in Attempts : RpcOK(t, n)
ClaimInv == \A t \in Tasks : ClaimOK(t)
LeaseInv == \A t \in Tasks : LeaseOK(t)
CurrentInv == \A t \in Tasks, n \in Attempts : CurrentOK(t, n)
LoopInv ==
    /\ \A t \in Tasks, n \in Attempts : LoopOK(t, n)
    /\ completions \cap taken = {}
    /\ lpc # "finish" => taken = {}
    /\ lpc = "exit" => AllTerminal /\ submitted = {}

-----------------------------------------------------------------------------
(* The parts of an attempt *)

\* From where to where an executor goes.
ExecutorMove(t, n, where) ==
    \/ pc[t][n] = "queued" /\ where \in {"borrowed", "returning"}
    \/ pc[t][n] = "borrowed" /\ where \in {"upload", "returning"}
    \/ pc[t][n] = "upload" /\ where = "revoked"
    \/ /\ pc[t][n] \in {"upload", "revoked"} /\ where = "prepared"
       /\ \A p \in Parts : rpc[t][n][p] = "done"
    \/ pc[t][n] = "revoked" /\ where = "finally" /\ NoRpcInFlight(t, n)
    \/ pc[t][n] = "prepared" /\ where \in {"failing", "bytes", "finally"}
    \/ pc[t][n] = "bytes" /\ where \in {"granted", "finally"}
    \/ pc[t][n] = "granted" /\ where \in {"sent", "failing", "finally"}
    \/ pc[t][n] = "sent" /\ where \in {"failing", "finally"}
    \/ pc[t][n] = "failing" /\ where = "finally" /\ NoRpcInFlight(t, n)
    \/ pc[t][n] = "finally" /\ where = "returning"
    \/ pc[t][n] = "returning" /\ where = "done"

\* Every step of an executor is one of these moves; it touches no part and no
\* claim, and comes to send only by grant_finalize.
LEMMA ExecutorMoves ==
    ASSUME NEW t \in Tasks, NEW n \in Attempts, ExecutorStep(t, n)
    PROVE  /\ UNCHANGED <<rpc, tokens, requests, claimed>>
           /\ \E where \in WorkerPC :
                 /\ Goto(t, n, where) /\ ExecutorMove(t, n, where)
                 /\ where = "granted" => GrantFinalize(t, n)
<1> USE DEF ExecutorMove, WorkerPC, poolVars, progressVars, taskVars, workerVars
<1>1. CASE BorrowRuntime(t, n)
  BY <1>1 DEF BorrowRuntime
<1>2. CASE BindRevokeHandle(t, n)
  BY <1>2 DEF BindRevokeHandle
<1>3. CASE BindRefused(t, n)
  BY <1>3 DEF BindRefused
<1>4. CASE SetupRaises(t, n)
  BY <1>4 DEF SetupRaises
<1>5. CASE RevokeLands(t, n)
  BY <1>5 DEF RevokeLands, Goto
<1>6. CASE PrepareSegment(t, n)
  BY <1>6 DEF PrepareSegment
<1>7. CASE AttemptRevoked(t, n)
  BY <1>7 DEF AttemptRevoked
<1>8. CASE ThumbnailFails(t, n)
  BY <1>8 DEF ThumbnailFails
<1>9. CASE BytesPrepared(t, n)
  BY <1>9 DEF BytesPrepared
<1>10. CASE GrantFinalize(t, n)
  BY <1>10 DEF GrantFinalize
<1>11. CASE SendUploadedSegment(t, n)
  BY <1>11 DEF SendUploadedSegment
<1>12. CASE SendRaises(t, n)
  BY <1>12 DEF SendRaises
<1>13. CASE CompleteAttempt(t, n)
  BY <1>13 DEF CompleteAttempt
<1>14. CASE FailAttempt(t, n)
  BY <1>14 DEF FailAttempt
<1>15. CASE ActionRaises(t, n)
  BY <1>15 DEF ActionRaises
<1>16. CASE AttemptQuiesced(t, n)
  BY <1>16 DEF AttemptQuiesced
<1>17. CASE EnqueueExecutorCompletion(t, n)
  BY <1>17 DEF EnqueueExecutorCompletion
<1> QED BY <1>1, <1>2, <1>3, <1>4, <1>5, <1>6, <1>7, <1>8, <1>9, <1>10, <1>11,
           <1>12, <1>13, <1>14, <1>15, <1>16, <1>17 DEF ExecutorStep

\* Executors keep RpcInv: they go on only when their parts have settled.
LEMMA ExecutorRpc ==
    ASSUME TypeInv, RpcInv, NEW u \in Tasks, NEW m \in Attempts, ExecutorStep(u, m),
           NEW t \in Tasks, NEW n \in Attempts
    PROVE  RpcOK(t, n)'
<1>1. PICK where \in WorkerPC : Goto(u, m, where) /\ ExecutorMove(u, m, where)
  BY ExecutorMoves
<1>2. rpc' = rpc /\ tokens' = tokens
  BY ExecutorMoves
<1>3. CASE t = u /\ n = m
  <2>1. pc'[t][n] = where
    BY <1>1, <1>3 DEF Goto, TypeInv, TypeOK, WorkerType
  <2> QED BY <1>1, <1>2, <1>3, <2>1 DEF ExecutorMove, RpcInv, RpcOK, InFlight,
       NoRpcInFlight
<1>4. CASE ~(t = u /\ n = m)
  <2>1. pc'[t][n] = pc[t][n]
    BY <1>1, <1>4 DEF Goto, TypeInv, TypeOK, WorkerType
  <2> QED BY <1>2, <2>1 DEF RpcInv, RpcOK
<1> QED BY <1>3, <1>4

\* Part sends keep RpcInv: the token and the RPC go together.
LEMMA PartRpc ==
    ASSUME TypeInv, RpcInv, NEW u \in Tasks, NEW m \in Attempts, NEW q \in Parts,
           PartStep(u, m, q) \/ LateRequestSucceeded(u, m, q),
           NEW t \in Tasks, NEW n \in Attempts
    PROVE  RpcOK(t, n)'
<1> USE DEF TypeInv, TypeOK, WorkerType, TaskType, RpcInv, RpcOK, InFlight,
     taskVars, progressVars, workerVars
<1>1. CASE BeginRequest(u, m, q)
  BY <1>1 DEF BeginRequest
<1>2. CASE BeginRequestRejected(u, m, q)
  BY <1>2 DEF BeginRequestRejected
<1>3. CASE RequestSucceeded(u, m, q)
  BY <1>3 DEF RequestSucceeded, StillSending
<1>4. CASE PremiumFlood(u, m, q)
  BY <1>4 DEF PremiumFlood, StillSending
<1>5. CASE RequestFailed(u, m, q)
  BY <1>5 DEF RequestFailed, StillSending
<1>6. CASE RequestSettled(u, m, q)
  BY <1>6 DEF RequestSettled, AfterSettle
<1>7. CASE LateRequestSucceeded(u, m, q)
  BY <1>7 DEF LateRequestSucceeded
<1> QED BY <1>1, <1>2, <1>3, <1>4, <1>5, <1>6, <1>7 DEF PartStep

\* Among the loop's steps only submit moves an executor.
LEMMA LoopMoves ==
    ASSUME LoopStep
    PROVE  /\ UNCHANGED <<rpc, tokens, requests>>
           /\ pc' = pc \/ Submit
<1> USE DEF progressVars, taskVars, workerVars, poolVars
<1>1. CASE TakeExecutorCompletions \/ LoopBreak \/ SelectNothing \/ Submit
  BY <1>1 DEF TakeExecutorCompletions, LoopBreak, SelectNothing, Submit
<1>2. CASE SubmissionFailed \/ NextDeadline \/ WaitForChange
  BY <1>2 DEF SubmissionFailed, NextDeadline, WaitForChange
<1>3. ASSUME NEW t \in Tasks, NEW n \in Attempts, ExecutorFinished(t, n)
      PROVE  UNCHANGED <<rpc, tokens, requests, pc>>
  BY <1>3 DEF ExecutorFinished
<1>4. ASSUME NEW t \in Tasks, SelectReplacement(t)
      PROVE  UNCHANGED <<rpc, tokens, requests, pc>>
  BY <1>4 DEF SelectReplacement, InstallActive
<1>5. ASSUME NEW t \in Tasks, SelectReplacementFails(t)
      PROVE  UNCHANGED <<rpc, tokens, requests, pc>>
  BY <1>5 DEF SelectReplacementFails
<1>6. ASSUME NEW t \in Tasks, NEW a \in Accounts, CommitMigration(a, t)
      PROVE  UNCHANGED <<rpc, tokens, requests, pc>>
  BY <1>6 DEF CommitMigration
<1>7. ASSUME NEW t \in Tasks, NEW a \in Accounts, SelectPending(t, a)
      PROVE  UNCHANGED <<rpc, tokens, requests, pc>>
  BY <1>7 DEF SelectPending, InstallActive
<1> QED BY <1>1, <1>2, <1>3, <1>4, <1>5, <1>6, <1>7 DEF LoopStep

\* Every step keeps RpcInv.
LEMMA NextRpc ==
    ASSUME TypeInv, RpcInv, LoopInv, [Next]_vars
    PROVE  RpcInv'
<1> SUFFICES ASSUME NEW t \in Tasks, NEW n \in Attempts
             PROVE  RpcOK(t, n)'
  BY DEF RpcInv
<1>1. ASSUME NEW u \in Tasks, NEW m \in Attempts, NEW p \in Parts,
             PartStep(u, m, p) \/ LateRequestSucceeded(u, m, p)
      PROVE  RpcOK(t, n)'
  BY <1>1, PartRpc
<1>2. ASSUME NEW u \in Tasks, NEW m \in Attempts, ExecutorStep(u, m)
      PROVE  RpcOK(t, n)'
  BY <1>2, ExecutorRpc
<1>3. ASSUME UNCHANGED <<rpc, tokens, pc>> PROVE RpcOK(t, n)'
  BY <1>3 DEF RpcInv, RpcOK
<1>4. CASE LoopStep
  <2>1. CASE Submit
    <3>1. /\ action \in Claims
          /\ pc[action[1]][action[2]] = "none"
          /\ Goto(action[1], action[2], "queued")
      BY <2>1 DEF Submit, TypeInv, SubmitInv, LoopInv, LoopOK, Claims
    <3>2. CASE action = <<t, n>>
      <4>1. pc'[t][n] = "queued" /\ pc[t][n] = "none"
        BY <3>1, <3>2 DEF Goto, TypeInv, TypeOK, WorkerType
      <4> QED BY <1>4, <4>1, LoopMoves DEF RpcInv, RpcOK
    <3>3. CASE action # <<t, n>>
      <4>1. pc'[t][n] = pc[t][n]
        BY <3>1, <3>3 DEF Goto, TypeInv, TypeOK, WorkerType, Claims
      <4> QED BY <1>4, <4>1, LoopMoves DEF RpcInv, RpcOK
    <3> QED BY <3>2, <3>3
  <2>2. CASE ~Submit
    BY <1>3, <1>4, <2>2, LoopMoves
  <2> QED BY <2>1, <2>2
<1>5. CASE \/ \E u \in Tasks : FloodAges(u)
           \/ \E a \in Accounts : PoolStep(a)
           \/ UNCHANGED vars
  <2>1. UNCHANGED <<rpc, tokens, pc>>
    BY <1>5 DEF FloodAges, PoolStep, vars, taskVars, progressVars, workerVars
  <2> QED BY <1>3, <2>1
<1> QED BY <1>1, <1>2, <1>4, <1>5 DEF Next, Finished

-----------------------------------------------------------------------------
(* The claims of a segment *)

\* An executor only moves after it was submitted, and never comes back.
Onward(t) ==
    \A n \in Attempts :
        \/ pc'[t][n] = pc[t][n]
        \/ pc[t][n] # "none" /\ (pc[t][n] \in Left => pc'[t][n] \in Left)

\* Executors go onward,
LEMMA ExecutorOnward ==
    ASSUME TypeInv, NEW u \in Tasks, NEW m \in Attempts, ExecutorStep(u, m),
           NEW t \in Tasks
    PROVE  Onward(t)
<1>1. PICK where \in WorkerPC : Goto(u, m, where) /\ ExecutorMove(u, m, where)
  BY ExecutorMoves
<1> QED BY <1>1 DEF Onward, Left, ExecutorMove, Goto, TypeInv, TypeOK,
     WorkerType

\* and a part send only makes its executor unwind.
LEMMA PartOnward ==
    ASSUME TypeInv, NEW u \in Tasks, NEW m \in Attempts, NEW p \in Parts,
           PartStep(u, m, p) \/ LateRequestSucceeded(u, m, p), NEW t \in Tasks
    PROVE  Onward(t)
<1>1. pc' = pc \/ (pc[u][m] = "upload" /\ Goto(u, m, "failing"))
  BY DEF PartStep, BeginRequest, BeginRequestRejected, RequestSucceeded,
     PremiumFlood, RequestFailed, RequestSettled, LateRequestSucceeded,
     workerVars, Goto
<1>2. SUFFICES ASSUME NEW n \in Attempts
               PROVE  \/ pc'[t][n] = pc[t][n]
                      \/ pc[t][n] = "upload"
  BY DEF Onward, Left
<1>3. CASE pc' = pc
  BY <1>3
<1>4. CASE pc[u][m] = "upload" /\ Goto(u, m, "failing")
  BY <1>4 DEF Goto, TypeInv, TypeOK, WorkerType
<1> QED BY <1>1, <1>3, <1>4

\* _terminal_locked ends a segment or leaves its state and account alone.
LEMMA TerminalLockedOutcome ==
    ASSUME TypeInv, NEW T, NEW outcome \in Terminal, TerminalLocked(T, outcome),
           NEW t \in Tasks
    PROVE  \/ UNCHANGED <<state[t], account[t]>>
           \/ state'[t] \in Terminal
BY DEF TerminalLocked

\* A step that leaves the segment and its claims alone keeps ClaimOK.
LEMMA PlainClaim ==
    ASSUME TypeInv, ClaimInv, NEW t \in Tasks, Onward(t),
           UNCHANGED <<state, attempt, account, draining, claimed, quiescent>>
    PROVE  ClaimOK(t)'
<1>1. 1 \in Attempts /\ 2 \in Attempts /\ quiescent[t] \subseteq Attempts
  BY DEF Attempts, TypeInv, TypeOK, TaskType
<1>2. ClaimOK(t)
  BY DEF ClaimInv
<1> QED BY <1>1, <1>2 DEF ClaimOK, Onward, Left

\* Executors keep ClaimOK: what they change of a segment is its own attempt's
\* ending, the grant, and its quiescence.
LEMMA ExecutorClaim ==
    ASSUME TypeInv, ClaimInv, NEW u \in Tasks, NEW m \in Attempts,
           ExecutorStep(u, m), NEW t \in Tasks
    PROVE  ClaimOK(t)'
<1> USE DEF lifeVars, leaseVars, taskVars, workerVars
<1>o. Onward(t)
  BY ExecutorOnward
<1>m. claimed' = claimed
  BY ExecutorMoves
<1>q. /\ 1 \in Attempts /\ 2 \in Attempts /\ quiescent[t] \subseteq Attempts
      /\ ClaimOK(t)
  BY DEF Attempts, ClaimInv, TypeInv, TypeOK, TaskType
<1>1. CASE \/ BorrowRuntime(u, m) \/ BindRevokeHandle(u, m)
           \/ SetupRaises(u, m) \/ RevokeLands(u, m)
           \/ PrepareSegment(u, m) \/ AttemptRevoked(u, m)
           \/ ThumbnailFails(u, m) \/ BytesPrepared(u, m)
           \/ SendUploadedSegment(u, m) \/ SendRaises(u, m)
           \/ ActionRaises(u, m) \/ EnqueueExecutorCompletion(u, m)
  <2>1. UNCHANGED <<state, attempt, account, draining, quiescent>>
    BY <1>1 DEF BorrowRuntime, BindRevokeHandle, SetupRaises, RevokeLands,
       PrepareSegment, AttemptRevoked, ThumbnailFails, BytesPrepared,
       SendUploadedSegment, SendRaises, ActionRaises, EnqueueExecutorCompletion
  <2> QED BY <1>o, <1>m, <2>1, PlainClaim
<1>2. CASE BindRefused(u, m) \/ AttemptQuiesced(u, m)
  <2>1. /\ UNCHANGED <<state, attempt, account, draining>>
        /\ quiescent' = [quiescent EXCEPT ![u] = @ \cup {m}]
        /\ Goto(u, m, "returning")
        /\ pc[u][m] # "none"
    BY <1>2 DEF BindRefused, AttemptQuiesced
  <2> QED BY <1>o, <1>m, <2>1 DEF ClaimInv, ClaimOK, Onward, Left, Goto,
             TypeInv, TypeOK, TaskType, WorkerType
<1>3. CASE GrantFinalize(u, m)
  <2>1. /\ UNCHANGED <<attempt, account, draining, quiescent>>
        /\ \/ state' = state
           \/ state[u] = "active" /\ state' = [state EXCEPT ![u] = "finalizing"]
    BY <1>3 DEF GrantFinalize, ValidCurrent
  <2>2. \/ state'[t] = state[t]
        \/ state[t] = "active" /\ state'[t] = "finalizing"
    BY <2>1 DEF TypeInv, TypeOK, TaskType
  <2> QED BY <1>o, <1>m, <1>q, <2>1, <2>2 DEF ClaimOK, Onward, Left, Terminal
<1>4. CASE CompleteAttempt(u, m) \/ FailAttempt(u, m)
  <2>1. UNCHANGED <<attempt, draining, quiescent>>
    BY <1>4 DEF CompleteAttempt, FailAttempt, TerminalLocked
  <2>2. \/ UNCHANGED <<state[t], account[t]>>
        \/ state'[t] \in Terminal
    <3>1. \/ UNCHANGED <<state, account>>
          \/ TerminalLocked({u}, "completed")
          \/ TerminalLocked({u}, "failed")
      BY <1>4 DEF CompleteAttempt, FailAttempt
    <3> QED BY <3>1, TerminalLockedOutcome DEF Terminal
  <2> QED BY <1>o, <1>m, <1>q, <2>1, <2>2 DEF ClaimOK, Onward, Left, Terminal
<1> QED BY <1>1, <1>2, <1>3, <1>4 DEF ExecutorStep

\* The loop keeps ClaimOK: it claims attempt 2 only once _replacement_ready_locked
\* has found the executor of attempt 1 quiescent.
LEMMA LoopClaim ==
    ASSUME TypeInv, ClaimInv, RpcInv, LoopInv, LoopStep, NEW t \in Tasks
    PROVE  ClaimOK(t)'
<1> USE DEF lifeVars, leaseVars, taskVars, workerVars
<1>1. ASSUME UNCHANGED <<state, attempt, account, draining, claimed, quiescent, pc>>
      PROVE  ClaimOK(t)'
  BY <1>1, PlainClaim DEF Onward
<1>2. CASE \/ TakeExecutorCompletions \/ LoopBreak \/ SelectNothing
           \/ NextDeadline \/ WaitForChange
  BY <1>1, <1>2 DEF TakeExecutorCompletions, LoopBreak, SelectNothing,
     NextDeadline, WaitForChange
<1>3. CASE Submit
  <2>1. /\ action \in Claims
        /\ pc[action[1]][action[2]] = "none"
        /\ state[action[1]] = "active" /\ attempt[action[1]] = action[2]
        /\ Goto(action[1], action[2], "queued")
        /\ UNCHANGED <<state, attempt, account, draining, claimed, quiescent>>
    BY <1>3 DEF Submit, TypeInv, SubmitInv, LoopInv, LoopOK, Claims
  <2>2. CASE action[1] = t
    <3>1. \A n \in Attempts :
             pc'[t][n] = IF n = action[2] THEN "queued" ELSE pc[t][n]
      BY <2>1, <2>2 DEF Goto, Claims, TypeInv, TypeOK, WorkerType
    <3>2. /\ 1 \in Attempts /\ 2 \in Attempts /\ quiescent[t] \subseteq Attempts
          /\ ClaimOK(t)
      BY DEF Attempts, ClaimInv, TypeInv, TypeOK, TaskType
    <3> QED BY <2>1, <2>2, <3>1, <3>2 DEF ClaimOK, Left, Claims, Terminal
  <2>3. CASE action[1] # t
    <3>1. pc'[t] = pc[t]
      BY <2>1, <2>3 DEF Goto, Claims, TypeInv, TypeOK, WorkerType
    <3> QED BY <2>1, <3>1, PlainClaim DEF Onward
  <2> QED BY <2>2, <2>3
<1>4. ASSUME NEW u \in Tasks, NEW m \in Attempts, ExecutorFinished(u, m)
      PROVE  ClaimOK(t)'
  <2>1. /\ UNCHANGED <<attempt, draining, claimed, pc>>
        /\ quiescent' = [quiescent EXCEPT ![u] = @ \cup {m}]
        /\ pc[u][m] = "done"
    BY <1>4 DEF ExecutorFinished, TerminalLocked, LoopInv, LoopOK
  <2>2. PICK T : TerminalLocked(T, "failed")
    BY <1>4 DEF ExecutorFinished
  <2>3. \/ UNCHANGED <<state[t], account[t]>>
        \/ state'[t] \in Terminal
    BY <2>2, TerminalLockedOutcome DEF Terminal
  <2> QED BY <2>1, <2>3 DEF ClaimInv, ClaimOK, Left, Terminal, TypeInv,
       TypeOK, TaskType
<1>5. ASSUME NEW u \in Tasks, SelectReplacement(u)
      PROVE  ClaimOK(t)'
  <2>1. /\ state[u] = "migrating" /\ draining[u] \in quiescent[u]
        /\ resv[u] # NoAccount
        /\ state' = [state EXCEPT ![u] = "active"]
        /\ attempt' = [attempt EXCEPT ![u] = attempt[u]]
        /\ account' = [account EXCEPT ![u] = resv[u]]
        /\ draining' = [draining EXCEPT ![u] = NoAttempt]
        /\ claimed' = [claimed EXCEPT ![u][attempt[u]] = resv[u]]
        /\ UNCHANGED <<pc, quiescent>>
    BY <1>5 DEF SelectReplacement, FirstReady, ReplacementReady, InstallActive
  <2> QED BY <2>1 DEF ClaimInv, ClaimOK, Left, Terminal, Attempts, NoAttempt,
       TypeInv, TypeOK, TaskType, WorkerType
<1>6. ASSUME NEW u \in Tasks, SelectReplacementFails(u)
      PROVE  ClaimOK(t)'
  <2>1. UNCHANGED <<attempt, draining, claimed, pc, quiescent>>
    BY <1>6 DEF SelectReplacementFails, TerminalLocked
  <2>2. \/ UNCHANGED <<state[t], account[t]>>
        \/ state'[t] \in Terminal
    BY <1>6, TerminalLockedOutcome DEF SelectReplacementFails, Terminal
  <2> QED BY <2>1, <2>2 DEF ClaimInv, ClaimOK, Left, Terminal, TypeInv,
       TypeOK, TaskType
<1>7. ASSUME NEW u \in Tasks, NEW a \in Accounts, CommitMigration(a, u)
      PROVE  ClaimOK(t)'
  <2>1. /\ state[u] = "active" /\ migrations[u] = 0
        /\ state' = [state EXCEPT ![u] = "migrating"]
        /\ attempt' = [attempt EXCEPT ![u] = @ + 1]
        /\ account' = [account EXCEPT ![u] = NoAccount]
        /\ draining' = [draining EXCEPT ![u] = attempt[u]]
        /\ UNCHANGED <<pc, claimed, quiescent>>
    BY <1>7 DEF CommitMigration, Scores, Candidate
  <2>2. attempt[u] = 1
    BY <2>1 DEF TypeInv, AttemptInv, Attempts
  <2> QED BY <2>1, <2>2 DEF ClaimInv, ClaimOK, Left, Terminal, TypeInv,
       TypeOK, TaskType
<1>8. ASSUME NEW u \in Tasks, NEW a \in Accounts, SelectPending(u, a)
      PROVE  ClaimOK(t)'
  <2>1. /\ state[u] = "pending"
        /\ state' = [state EXCEPT ![u] = "active"]
        /\ attempt' = [attempt EXCEPT ![u] = 1]
        /\ account' = [account EXCEPT ![u] = a]
        /\ claimed' = [claimed EXCEPT ![u][1] = a]
        /\ UNCHANGED <<pc, quiescent, draining>>
    BY <1>8 DEF SelectPending, FirstPending, InstallActive
  <2>2. a # NoAccount /\ attempt[u] = NoAttempt
    BY <2>1 DEF Accounts, NoAccount, TypeInv, AttemptInv
  <2> QED BY <2>1, <2>2 DEF ClaimInv, ClaimOK, Left, Terminal, Attempts,
       NoAttempt, TypeInv, TypeOK, TaskType, WorkerType
<1>9. CASE SubmissionFailed
  <2>1. /\ action \in Claims
        /\ pc[action[1]][action[2]] = "none"
        /\ state[action[1]] = "active" /\ attempt[action[1]] = action[2]
    BY <1>9 DEF SubmissionFailed, TypeInv, SubmitInv, LoopInv, LoopOK, Claims
  <2>2. /\ TerminalLocked({action[1]}, "failed")
        /\ quiescent' = [u \in Tasks |->
                           IF u \in {action[1]} THEN quiescent[u] \cup {action[2]}
                           ELSE quiescent[u]]
        /\ UNCHANGED <<claimed, pc>>
    BY <1>9, <2>1 DEF SubmissionFailed
  <2>3. UNCHANGED <<attempt, draining>>
    BY <2>2 DEF TerminalLocked
  <2>4. CASE action[1] = t
    <3>1. state'[t] = "failed" /\ quiescent'[t] = quiescent[t] \cup {action[2]}
      BY <2>1, <2>2, <2>4 DEF TerminalLocked, NotYetTerminal, Terminal
    <3> QED BY <2>1, <2>2, <2>3, <2>4, <3>1 DEF ClaimInv, ClaimOK, Left,
         Terminal, TypeInv, TypeOK, TaskType
  <2>5. CASE action[1] # t
    <3>1. UNCHANGED <<state[t], account[t], quiescent[t]>>
      BY <2>2, <2>5 DEF TerminalLocked, NotYetTerminal, TypeInv, TypeOK,
           TaskType
    <3> QED BY <2>2, <2>3, <3>1 DEF ClaimInv, ClaimOK
  <2> QED BY <2>4, <2>5
<1> QED BY <1>2, <1>3, <1>4, <1>5, <1>6, <1>7, <1>8, <1>9 DEF LoopStep

\* Every step keeps ClaimInv.
LEMMA NextClaim ==
    ASSUME TypeInv, ClaimInv, RpcInv, LoopInv, [Next]_vars
    PROVE  ClaimInv'
<1> SUFFICES ASSUME NEW t \in Tasks PROVE ClaimOK(t)'
  BY DEF ClaimInv
<1>1. ASSUME NEW u \in Tasks, NEW m \in Attempts, NEW p \in Parts,
             PartStep(u, m, p) \/ LateRequestSucceeded(u, m, p)
      PROVE  ClaimOK(t)'
  <2>1. UNCHANGED <<state, attempt, account, draining, claimed, quiescent>>
    BY <1>1 DEF PartStep, BeginRequest, BeginRequestRejected, RequestSucceeded,
       PremiumFlood, RequestFailed, RequestSettled, LateRequestSucceeded,
       taskVars, lifeVars, leaseVars, workerVars
  <2> QED BY <1>1, <2>1, PartOnward, PlainClaim
<1>2. CASE \/ \E u \in Tasks : FloodAges(u)
           \/ \E a \in Accounts : PoolStep(a)
           \/ UNCHANGED vars
  <2>1. UNCHANGED <<state, attempt, account, draining, claimed, quiescent, pc>>
    BY <1>2 DEF FloodAges, PoolStep, vars, taskVars, lifeVars, leaseVars,
         workerVars
  <2> QED BY <2>1, PlainClaim DEF Onward
<1> QED BY <1>1, <1>2, ExecutorClaim, LoopClaim DEF Next, Finished

-----------------------------------------------------------------------------
(* The leases *)

\* Where an executor may be that has given the lease back.
Unleased == {"bytes", "finally"} \cup Left

\* What _maybe_close_owned_locked does to the lease of one segment.
LEMMA ClosedOrKept ==
    ASSUME NEW C, MaybeCloseOwned(C), NEW t \in Tasks
    PROVE  \/ /\ <<t, leaseAttempt[t]>> \in C /\ Closable(t)
              /\ lease'[t] = NoAccount /\ leaseAttempt'[t] = NoAttempt
           \/ /\ ~(<<t, leaseAttempt[t]>> \in C /\ Closable(t))
              /\ lease'[t] = lease[t] /\ leaseAttempt'[t] = leaseAttempt[t]
BY DEF MaybeCloseOwned, ReleaseLeases

\* The step leaves a segment ended, and the lease it had without any use.
EndedIdle(t) ==
    /\ state'[t] \in Terminal /\ lease[t] # NoAccount
    /\ tokens'[t][leaseAttempt[t]] = {}
    /\ leaseAttempt[t] \in quiescent'[t]

\* A step that may close leases keeps LeaseOK as long as it closes the lease
\* of every segment that the step leaves ended and idle.
LEMMA ClosingLease ==
    ASSUME TypeInv, LeaseInv, ClaimInv', NEW C, MaybeCloseOwned(C),
           NEW t \in Tasks,
           claimed' = claimed, attempt' = attempt,
           \A n \in Attempts : tokens'[t][n] \subseteq tokens[t][n],
           state'[t] = state[t] \/ state'[t] \in Terminal,
           OwnsLease(t, attempt[t]) \/ pc'[t][attempt[t]] \in Unleased
              \/ state'[t] # "active",
           EndedIdle(t) => <<t, leaseAttempt[t]>> \in C
    PROVE  LeaseOK(t)'
<1>1. LeaseOK(t) /\ ClaimOK(t)'
  BY DEF LeaseInv, ClaimInv
<1>2. leaseAttempt[t] \in Attempts \cup {NoAttempt}
  BY DEF TypeInv, TypeOK, TaskType
<1>3. CASE /\ <<t, leaseAttempt[t]>> \in C /\ Closable(t)
           /\ lease'[t] = NoAccount /\ leaseAttempt'[t] = NoAttempt
  <2>1. /\ leaseAttempt[t] \in Attempts /\ tokens'[t][leaseAttempt[t]] = {}
        /\ state'[t] # "active"
    BY <1>1, <1>2, <1>3 DEF Closable, LeaseOK, ClaimOK, Terminal, Attempts,
         NoAttempt
  <2>2. \A n \in Attempts : tokens'[t][n] = {}
    BY <1>1, <2>1 DEF LeaseOK, OwnsLease
  <2> QED BY <1>3, <2>1, <2>2 DEF LeaseOK, OwnsLease, Unleased
<1>4. CASE /\ ~(<<t, leaseAttempt[t]>> \in C /\ Closable(t))
           /\ lease'[t] = lease[t] /\ leaseAttempt'[t] = leaseAttempt[t]
  <2>1. state'[t] \in Terminal /\ lease[t] # NoAccount =>
           \/ tokens'[t][leaseAttempt[t]] # {}
           \/ leaseAttempt[t] \notin quiescent'[t]
    BY <1>4 DEF Closable, EndedIdle
  <2> QED BY <1>1, <1>4, <2>1 DEF LeaseOK, OwnsLease, Unleased, Terminal
<1> QED BY <1>3, <1>4, ClosedOrKept

\* A step that closes no lease and ends no segment keeps LeaseOK.
LEMMA PlainLease ==
    ASSUME TypeInv, LeaseInv, NEW t \in Tasks,
           UNCHANGED <<lease, leaseAttempt, claimed, attempt[t], tokens, quiescent>>,
           state'[t] = state[t] \/ state'[t] = "finalizing",
           OwnsLease(t, attempt[t]) \/ pc'[t][attempt[t]] \in Unleased
              \/ state'[t] # "active"
    PROVE  LeaseOK(t)'
BY DEF LeaseInv, LeaseOK, OwnsLease, Unleased, Terminal

\* An active segment whose attempt moves on without its message being granted
\* or its bytes being prepared has its lease, or is past it.
LEMMA MovedLease ==
    ASSUME TypeInv, LeaseInv, NEW u \in Tasks, NEW m \in Attempts,
           NEW where \in WorkerPC, Goto(u, m, where),
           pc[u][m] \in Unleased => where \in Unleased, NEW t \in Tasks,
           state[t] = "active"
    PROVE  OwnsLease(t, attempt[t]) \/ pc'[t][attempt[t]] \in Unleased
<1>1. attempt[t] \in Attempts
  BY DEF TypeInv, AttemptInv
<1>2. LeaseOK(t)
  BY DEF LeaseInv
<1>3. pc'[t][attempt[t]] = IF t = u /\ attempt[t] = m THEN where
                           ELSE pc[t][attempt[t]]
  BY <1>1 DEF Goto, TypeInv, TypeOK, WorkerType
<1> QED BY <1>2, <1>3 DEF LeaseOK, Unleased

\* Executors keep LeaseOK, whichever of their endings closes the lease.
LEMMA ExecutorLease ==
    ASSUME TypeInv, LeaseInv, ClaimInv, ClaimInv', RpcInv,
           NEW u \in Tasks, NEW m \in Attempts, ExecutorStep(u, m),
           NEW t \in Tasks
    PROVE  LeaseOK(t)'
<1> USE DEF lifeVars, leaseVars, taskVars, workerVars, progressVars
<1>m. /\ claimed' = claimed /\ tokens' = tokens
      /\ \E where \in WorkerPC : Goto(u, m, where) /\ ExecutorMove(u, m, where)
  BY ExecutorMoves
<1>1. ASSUME
           \/ BorrowRuntime(u, m) \/ BindRevokeHandle(u, m)
           \/ SetupRaises(u, m) \/ RevokeLands(u, m)
           \/ PrepareSegment(u, m) \/ AttemptRevoked(u, m)
           \/ ThumbnailFails(u, m)
           \/ SendUploadedSegment(u, m) \/ SendRaises(u, m)
           \/ ActionRaises(u, m) \/ EnqueueExecutorCompletion(u, m),
           ~GrantFinalize(u, m)
      PROVE  LeaseOK(t)'
  <2>1. UNCHANGED <<state, attempt, lease, leaseAttempt, quiescent>>
    BY <1>1 DEF BorrowRuntime, BindRevokeHandle, SetupRaises, RevokeLands,
       PrepareSegment, AttemptRevoked, ThumbnailFails,
       SendUploadedSegment, SendRaises, ActionRaises, EnqueueExecutorCompletion
  <2>2. PICK where \in WorkerPC :
           Goto(u, m, where) /\ (pc[u][m] \in Unleased => where \in Unleased)
    <3>1. PICK where \in WorkerPC :
             /\ Goto(u, m, where) /\ ExecutorMove(u, m, where)
             /\ where = "granted" => GrantFinalize(u, m)
      BY ExecutorMoves
    <3> QED BY <1>1, <3>1 DEF ExecutorMove, Unleased, Left
  <2> QED BY <1>m, <2>1, <2>2, MovedLease, PlainLease
<1>2. CASE BindRefused(u, m) \/ AttemptQuiesced(u, m)
  <2>1. /\ UNCHANGED <<state, attempt, account>>
        /\ quiescent' = [quiescent EXCEPT ![u] = @ \cup {m}]
        /\ Goto(u, m, "returning")
        /\ MaybeCloseOwned({<<u, m>>})
    BY <1>2 DEF BindRefused, AttemptQuiesced
  <2>2. state'[t] = "active" =>
           OwnsLease(t, attempt[t]) \/ pc'[t][attempt[t]] \in Unleased
    BY <2>1, MovedLease DEF Unleased, Left, WorkerPC
  <2>3. EndedIdle(t) =>
           <<t, leaseAttempt[t]>> \in {<<u, m>>}
    <3>1. quiescent'[t] \subseteq quiescent[t] \cup (IF t = u THEN {m} ELSE {})
      BY <2>1 DEF TypeInv, TypeOK, TaskType
    <3>2. LeaseOK(t)
      BY DEF LeaseInv
    <3> QED BY <1>m, <2>1, <3>1, <3>2 DEF LeaseOK, EndedIdle
  <2> QED BY <1>m, <2>1, <2>2, <2>3, ClosingLease
<1>3. CASE GrantFinalize(u, m)
  <2>1. /\ UNCHANGED <<attempt, lease, leaseAttempt, quiescent>>
    BY <1>3 DEF GrantFinalize
  <2>2. CASE ValidCurrent(u, m, {"active"})
    <3>1. /\ state' = [state EXCEPT ![u] = "finalizing"]
          /\ Goto(u, m, "granted") /\ attempt[u] = m
      BY <1>3, <2>2 DEF GrantFinalize, ValidCurrent
    <3>2. CASE t = u
      <4>1. state'[t] = "finalizing"
        BY <3>1, <3>2 DEF TypeInv, TypeOK, TaskType
      <4> QED BY <1>m, <2>1, <4>1, PlainLease
    <3>3. CASE t # u
      <4>1. state'[t] = state[t] /\ pc'[t] = pc[t]
        BY <3>1, <3>3 DEF Goto, TypeInv, TypeOK, TaskType, WorkerType
      <4> QED BY <1>m, <2>1, <4>1 DEF LeaseInv, LeaseOK, OwnsLease
    <3> QED BY <3>2, <3>3
  <2>3. CASE ~ValidCurrent(u, m, {"active"})
    <3>1. state' = state /\ Goto(u, m, "finally")
      BY <1>3, <2>3 DEF GrantFinalize
    <3> QED BY <1>m, <2>1, <3>1, MovedLease, PlainLease DEF Unleased, Left,
         WorkerPC
  <2> QED BY <2>2, <2>3
<1>4. CASE CompleteAttempt(u, m) \/ FailAttempt(u, m)
  <2>1. PICK where \in WorkerPC : Goto(u, m, where) /\ pc[u][m] \notin Unleased
    BY <1>4 DEF CompleteAttempt, FailAttempt, Unleased, Left, WorkerPC
  <2>2. /\ attempt' = attempt /\ quiescent' = quiescent
        /\ \/ state' = state
           \/ TerminalLocked({u}, "completed")
           \/ TerminalLocked({u}, "failed")
        /\ MaybeCloseOwned(IF state'[u] # state[u] THEN OwnedBy({u}) ELSE {})
    BY <1>4 DEF CompleteAttempt, FailAttempt, TerminalLocked
  <2>3. \/ state'[t] = state[t]
        \/ state'[t] \in Terminal /\ t = u /\ state'[u] # state[u]
    BY <2>2 DEF TerminalLocked, NotYetTerminal, Terminal
  <2>4. state'[t] = "active" =>
           OwnsLease(t, attempt[t]) \/ pc'[t][attempt[t]] \in Unleased
    BY <2>1, <2>3, MovedLease DEF Terminal
  <2>5. EndedIdle(t) =>
           /\ state'[u] # state[u] /\ <<t, leaseAttempt[t]>> \in OwnedBy({u})
    <3>1. LeaseOK(t)
      BY DEF LeaseInv
    <3> QED BY <1>m, <2>2, <2>3, <3>1 DEF LeaseOK, OwnedBy, EndedIdle
  <2> QED BY <1>m, <2>2, <2>3, <2>4, <2>5, ClosingLease
<1>5. CASE BytesPrepared(u, m)
  <2>1. UNCHANGED <<state, attempt, quiescent>>
    BY <1>5 DEF BytesPrepared
  <2>2. CASE lease' = lease /\ leaseAttempt' = leaseAttempt
    <3>1. PICK where \in {"bytes", "finally"} : Goto(u, m, where)
      BY <1>5 DEF BytesPrepared
    <3> QED BY <1>m, <2>1, <2>2, <3>1, MovedLease, PlainLease DEF Unleased,
         WorkerPC
  <2>3. CASE ~(lease' = lease /\ leaseAttempt' = leaseAttempt)
    <3>1. /\ ValidCurrent(u, m, {"active"}) /\ tokens[u][m] = {}
          /\ OwnsLease(u, m) /\ Goto(u, m, "bytes") /\ ReleaseLeases({u})
      BY <1>5, <2>3 DEF BytesPrepared
    <3>2. CASE t = u
      <4>1. /\ lease'[t] = NoAccount /\ leaseAttempt'[t] = NoAttempt
            /\ attempt[t] = m /\ state[t] = "active"
            /\ pc'[t][m] = "bytes"
        BY <3>1, <3>2 DEF ReleaseLeases, ValidCurrent, Goto, TypeInv, TypeOK,
           TaskType, WorkerType
      <4>2. \A n \in Attempts : tokens[t][n] = {}
        BY <3>1, <3>2 DEF LeaseInv, LeaseOK, OwnsLease
      <4> QED BY <1>m, <2>1, <4>1, <4>2 DEF LeaseOK, OwnsLease, Terminal
    <3>3. CASE t # u
      <4>1. /\ lease'[t] = lease[t] /\ leaseAttempt'[t] = leaseAttempt[t]
            /\ pc'[t] = pc[t]
        BY <3>1, <3>3 DEF ReleaseLeases, Goto, TypeInv, TypeOK,
           TaskType, WorkerType
      <4> QED BY <1>m, <2>1, <4>1 DEF LeaseInv, LeaseOK, OwnsLease
    <3> QED BY <3>2, <3>3
  <2> QED BY <2>2, <2>3
<1> QED BY <1>1, <1>2, <1>3, <1>4, <1>5 DEF ExecutorStep

\* Part sends keep LeaseOK: begin_request needs the lease, and the last
\* request_settled of an ended attempt closes it.
LEMMA PartLease ==
    ASSUME TypeInv, LeaseInv, ClaimInv, ClaimInv', RpcInv,
           NEW u \in Tasks, NEW m \in Attempts, NEW p \in Parts,
           PartStep(u, m, p) \/ LateRequestSucceeded(u, m, p), NEW t \in Tasks
    PROVE  LeaseOK(t)'
<1> USE DEF lifeVars, leaseVars, taskVars, workerVars, progressVars
<1>1. UNCHANGED <<state, attempt, claimed, quiescent>>
  BY DEF PartStep, BeginRequest, BeginRequestRejected, RequestSucceeded,
     PremiumFlood, RequestFailed, RequestSettled, LateRequestSucceeded
<1>2. state[t] = "active" =>
         OwnsLease(t, attempt[t]) \/ pc'[t][attempt[t]] \in Unleased
  <2>1. pc' = pc \/ (pc[u][m] = "upload" /\ Goto(u, m, "failing"))
    BY DEF PartStep, BeginRequest, BeginRequestRejected, RequestSucceeded,
       PremiumFlood, RequestFailed, RequestSettled, LateRequestSucceeded, Goto
  <2>2. CASE pc' = pc
    BY <2>2 DEF LeaseInv, LeaseOK, Unleased
  <2>3. CASE pc[u][m] = "upload" /\ Goto(u, m, "failing")
    BY <2>3, MovedLease DEF Unleased, Left, WorkerPC
  <2> QED BY <2>1, <2>2, <2>3
<1>3. CASE BeginRequest(u, m, p)
  <2>1. /\ UNCHANGED <<lease, leaseAttempt, pc>>
        /\ tokens' = [tokens EXCEPT ![u][m] = @ \cup {p}]
        /\ state[u] = "active" /\ attempt[u] = m /\ pc[u][m] = "upload"
    BY <1>3 DEF BeginRequest, ValidCurrent
  <2>2. CASE t = u
    <3>1. OwnsLease(t, m)
      BY <2>1, <2>2 DEF LeaseInv, LeaseOK, Unleased, Left
    <3>2. \A n \in Attempts : n # m => tokens'[t][n] = tokens[t][n]
      BY <2>1, <2>2 DEF TypeInv, TypeOK, TaskType
    <3> QED BY <1>1, <2>1, <2>2, <3>1, <3>2 DEF LeaseInv, LeaseOK, OwnsLease,
         Terminal
  <2>3. CASE t # u
    <3>1. tokens'[t] = tokens[t]
      BY <2>1, <2>3 DEF TypeInv, TypeOK, TaskType
    <3> QED BY <1>1, <2>1, <3>1 DEF LeaseInv, LeaseOK, OwnsLease
  <2> QED BY <2>2, <2>3
<1>4. CASE RequestSettled(u, m, p)
  <2>1. /\ tokens' = [tokens EXCEPT ![u][m] = @ \ {p}]
        /\ MaybeCloseOwned({<<u, m>>})
    BY <1>4 DEF RequestSettled
  <2>2. \A n \in Attempts : tokens'[t][n] \subseteq tokens[t][n]
    BY <2>1 DEF TypeInv, TypeOK, TaskType
  <2>3. EndedIdle(t) =>
           <<t, leaseAttempt[t]>> \in {<<u, m>>}
    <3>1. \A n \in Attempts : tokens'[t][n] = {} =>
             tokens[t][n] = {} \/ (t = u /\ n = m)
      BY <2>1 DEF TypeInv, TypeOK, TaskType
    <3>2. LeaseOK(t) /\ leaseAttempt[t] \in Attempts \cup {NoAttempt}
      BY DEF LeaseInv, TypeInv, TypeOK, TaskType
    <3> QED BY <1>1, <3>1, <3>2 DEF LeaseOK, EndedIdle
  <2> QED BY <1>1, <1>2, <2>1, <2>2, <2>3, ClosingLease
<1>5. CASE ~BeginRequest(u, m, p) /\ ~RequestSettled(u, m, p)
  <2>1. UNCHANGED <<lease, leaseAttempt, tokens>>
    BY <1>5 DEF PartStep, BeginRequestRejected, RequestSucceeded,
       PremiumFlood, RequestFailed, LateRequestSucceeded
  <2> QED BY <1>1, <1>2, <2>1, PlainLease
<1> QED BY <1>3, <1>4, <1>5

\* The loop keeps LeaseOK when it claims, migrates, fails and collects.
LEMMA LoopLease ==
    ASSUME TypeInv, LeaseInv, ClaimInv, ClaimInv', RpcInv, LoopInv,
           LoopStep, NEW t \in Tasks
    PROVE  LeaseOK(t)'
<1> USE DEF lifeVars, leaseVars, taskVars, workerVars, progressVars
<1>q. LeaseOK(t) /\ ClaimOK(t)
  BY DEF LeaseInv, ClaimInv
<1>t. tokens' = tokens
  BY LoopMoves
<1>1. CASE \/ TakeExecutorCompletions \/ LoopBreak \/ SelectNothing
           \/ NextDeadline \/ WaitForChange
  <2>1. UNCHANGED <<state, attempt, lease, leaseAttempt, claimed, quiescent, pc>>
    BY <1>1 DEF TakeExecutorCompletions, LoopBreak, SelectNothing,
       NextDeadline, WaitForChange
  <2> QED BY <1>q, <1>t, <2>1 DEF LeaseOK, OwnsLease
<1>2. CASE Submit
  <2>1. /\ action \in Claims
        /\ pc[action[1]][action[2]] = "none"
        /\ Goto(action[1], action[2], "queued")
        /\ UNCHANGED <<state, attempt, lease, leaseAttempt, claimed, quiescent>>
    BY <1>2 DEF Submit, TypeInv, SubmitInv, LoopInv, LoopOK, Claims
  <2>2. state[t] = "active" =>
           OwnsLease(t, attempt[t]) \/ pc'[t][attempt[t]] \in Unleased
    BY <2>1, MovedLease DEF Unleased, Left, WorkerPC, Claims
  <2> QED BY <1>t, <2>1, <2>2, PlainLease
<1>3. ASSUME NEW u \in Tasks, NEW m \in Attempts, ExecutorFinished(u, m)
      PROVE  LeaseOK(t)'
  <2> DEFINE silently == ~raised[u][m] /\ state[u] = "active" /\ attempt[u] = m
             failing == IF raised[u][m] THEN Tasks
                        ELSE IF silently THEN {u} ELSE {}
  <2>1. /\ UNCHANGED <<claimed, pc>>
        /\ quiescent' = [quiescent EXCEPT ![u] = @ \cup {m}]
        /\ TerminalLocked(failing, "failed")
        /\ MaybeCloseOwned({<<u, m>>} \cup OwnedBy(NotYetTerminal(failing)))
    BY <1>3 DEF ExecutorFinished
  <2> HIDE DEF failing
  <2>2. /\ attempt' = attempt
        /\ \/ state'[t] = state[t]
           \/ state'[t] \in Terminal /\ t \in NotYetTerminal(failing)
    BY <2>1 DEF TerminalLocked, Terminal
  <2>3. state'[t] = "active" =>
           OwnsLease(t, attempt[t]) \/ pc'[t][attempt[t]] \in Unleased
    BY <1>q, <2>1, <2>2 DEF LeaseOK, Unleased, Terminal
  <2>4. EndedIdle(t) =>
           <<t, leaseAttempt[t]>> \in {<<u, m>>} \cup OwnedBy(NotYetTerminal(failing))
    <3>1. quiescent'[t] \subseteq quiescent[t] \cup (IF t = u THEN {m} ELSE {})
      BY <2>1 DEF TypeInv, TypeOK, TaskType
    <3> QED BY <1>q, <1>t, <2>2, <3>1 DEF LeaseOK, OwnedBy, EndedIdle
  <2> QED BY <1>t, <2>1, <2>2, <2>3, <2>4, ClosingLease
<1>4. ASSUME NEW u \in Tasks, SelectReplacement(u)
      PROVE  LeaseOK(t)'
  <2>1. /\ state[u] = "migrating" /\ tokens[u][draining[u]] = {}
        /\ resv[u] # NoAccount
        /\ state' = [state EXCEPT ![u] = "active"]
        /\ attempt' = [attempt EXCEPT ![u] = attempt[u]]
        /\ lease' = [lease EXCEPT ![u] = resv[u]]
        /\ leaseAttempt' = [leaseAttempt EXCEPT ![u] = attempt[u]]
        /\ claimed' = [claimed EXCEPT ![u][attempt[u]] = resv[u]]
        /\ UNCHANGED <<pc, quiescent>>
    BY <1>4 DEF SelectReplacement, FirstReady, ReplacementReady, InstallActive
  <2>2. CASE t = u
    <3>1. attempt[t] = 2 /\ draining[t] = 1 /\ claimed[t][2] = NoAccount
      BY <1>q, <2>1, <2>2 DEF ClaimOK
    <3>2. tokens[t][2] = {}
      BY <1>q, <3>1 DEF ClaimOK, RpcInv, RpcOK, InFlight, Attempts
    <3>3. /\ state'[t] = "active" /\ attempt'[t] = 2
          /\ lease'[t] = resv[t] /\ leaseAttempt'[t] = 2
          /\ claimed'[t][2] = resv[t]
      BY <2>1, <2>2, <3>1 DEF TypeInv, TypeOK, TaskType, WorkerType, Attempts
    <3> QED BY <1>t, <2>1, <2>2, <3>1, <3>2, <3>3 DEF LeaseOK, OwnsLease,
         Attempts, NoAttempt, Terminal
  <2>3. CASE t # u
    <3>1. UNCHANGED <<state[t], attempt[t], lease[t], leaseAttempt[t], claimed[t],
                     pc, quiescent>>
      BY <2>1, <2>3 DEF TypeInv, TypeOK, TaskType, WorkerType
    <3> QED BY <1>q, <1>t, <3>1 DEF LeaseOK, OwnsLease
  <2> QED BY <2>2, <2>3
<1>5. ASSUME NEW u \in Tasks, SelectReplacementFails(u)
      PROVE  LeaseOK(t)'
  <2>1. /\ UNCHANGED <<claimed, pc, quiescent>>
        /\ TerminalLocked({u}, "failed")
        /\ MaybeCloseOwned(OwnedBy({u}))
    BY <1>5 DEF SelectReplacementFails
  <2>2. /\ attempt' = attempt
        /\ \/ state'[t] = state[t]
           \/ state'[t] \in Terminal /\ t = u
    BY <2>1 DEF TerminalLocked, NotYetTerminal, Terminal
  <2>3. state'[t] = "active" =>
           OwnsLease(t, attempt[t]) \/ pc'[t][attempt[t]] \in Unleased
    BY <1>q, <2>1, <2>2 DEF LeaseOK, Unleased, Terminal
  <2>4. EndedIdle(t) => <<t, leaseAttempt[t]>> \in OwnedBy({u})
    BY <1>q, <1>t, <2>1, <2>2 DEF LeaseOK, OwnedBy, EndedIdle
  <2> QED BY <1>t, <2>1, <2>2, <2>3, <2>4, ClosingLease
<1>6. ASSUME NEW u \in Tasks, NEW a \in Accounts, CommitMigration(a, u)
      PROVE  LeaseOK(t)'
  <2>1. /\ state[u] = "active"
        /\ state' = [state EXCEPT ![u] = "migrating"]
        /\ attempt' = [attempt EXCEPT ![u] = @ + 1]
        /\ UNCHANGED <<lease, leaseAttempt, claimed, pc, quiescent>>
    BY <1>6 DEF CommitMigration, Scores, Candidate
  <2>2. CASE t = u
    <3>1. state'[t] = "migrating" /\ claimed'[t][2] = NoAccount
      BY <2>1, <2>2 DEF ClaimInv, ClaimOK, TypeInv, TypeOK, TaskType
    <3>2. leaseAttempt[t] \in Attempts \cup {NoAttempt}
      BY DEF TypeInv, TypeOK, TaskType
    <3> QED BY <1>q, <1>t, <2>1, <3>1, <3>2 DEF LeaseOK, OwnsLease, Attempts,
         NoAttempt, Terminal
  <2>3. CASE t # u
    <3>1. UNCHANGED <<state[t], attempt[t]>>
      BY <2>1, <2>3 DEF TypeInv, TypeOK, TaskType
    <3> QED BY <1>q, <1>t, <2>1, <3>1 DEF LeaseOK, OwnsLease
  <2> QED BY <2>2, <2>3
<1>7. ASSUME NEW u \in Tasks, NEW a \in Accounts, SelectPending(u, a)
      PROVE  LeaseOK(t)'
  <2>1. /\ state[u] = "pending"
        /\ state' = [state EXCEPT ![u] = "active"]
        /\ attempt' = [attempt EXCEPT ![u] = 1]
        /\ lease' = [lease EXCEPT ![u] = a]
        /\ leaseAttempt' = [leaseAttempt EXCEPT ![u] = 1]
        /\ claimed' = [claimed EXCEPT ![u][1] = a]
        /\ UNCHANGED <<pc, quiescent>>
        /\ a # NoAccount
    BY <1>7 DEF SelectPending, FirstPending, InstallActive, Accounts, NoAccount
  <2>2. CASE t = u
    <3>1. \A n \in Attempts : pc[t][n] = "none"
      BY <1>q, <2>1, <2>2 DEF ClaimOK, Attempts, NoAttempt, TypeInv, AttemptInv
    <3>2. \A n \in Attempts : tokens[t][n] = {}
      BY <3>1 DEF RpcInv, RpcOK, InFlight
    <3>3. /\ state'[t] = "active" /\ attempt'[t] = 1
          /\ lease'[t] = a /\ leaseAttempt'[t] = 1 /\ claimed'[t][1] = a
      BY <2>1, <2>2 DEF TypeInv, TypeOK, TaskType, WorkerType, Attempts
    <3> QED BY <1>t, <2>1, <3>2, <3>3 DEF LeaseOK, OwnsLease, Attempts,
         NoAttempt, Terminal
  <2>3. CASE t # u
    <3>1. UNCHANGED <<state[t], attempt[t], lease[t], leaseAttempt[t], claimed[t],
                     pc, quiescent>>
      BY <2>1, <2>3 DEF TypeInv, TypeOK, TaskType, WorkerType
    <3> QED BY <1>q, <1>t, <3>1 DEF LeaseOK, OwnsLease
  <2> QED BY <2>2, <2>3
<1>8. CASE SubmissionFailed
  <2>1. /\ action \in Claims
        /\ state[action[1]] = "active" /\ attempt[action[1]] = action[2]
    BY <1>8 DEF SubmissionFailed, TypeInv, SubmitInv, LoopInv, LoopOK, Claims
  <2>2. /\ TerminalLocked({action[1]}, "failed")
        /\ quiescent' = [u \in Tasks |->
                           IF u \in {action[1]} THEN quiescent[u] \cup {action[2]}
                           ELSE quiescent[u]]
        /\ UNCHANGED <<claimed, pc>>
        /\ MaybeCloseOwned(OwnedBy({action[1]}))
    BY <1>8, <2>1 DEF SubmissionFailed
  <2>3. /\ attempt' = attempt
        /\ \/ state'[t] = state[t] /\ t # action[1]
           \/ state'[t] \in Terminal /\ t = action[1]
    BY <2>1, <2>2 DEF TerminalLocked, NotYetTerminal, Terminal
  <2>4. state'[t] = "active" =>
           OwnsLease(t, attempt[t]) \/ pc'[t][attempt[t]] \in Unleased
    BY <1>q, <2>2, <2>3 DEF LeaseOK, Unleased, Terminal
  <2>5. EndedIdle(t) => <<t, leaseAttempt[t]>> \in OwnedBy({action[1]})
    BY <1>q, <1>t, <2>2, <2>3 DEF LeaseOK, OwnedBy, EndedIdle
  <2> QED BY <1>t, <2>2, <2>3, <2>4, <2>5, ClosingLease
<1> QED BY <1>1, <1>2, <1>3, <1>4, <1>5, <1>6, <1>7, <1>8 DEF LoopStep

\* Every step keeps LeaseInv.
LEMMA NextLease ==
    ASSUME TypeInv, LeaseInv, ClaimInv, ClaimInv', RpcInv, LoopInv, [Next]_vars
    PROVE  LeaseInv'
<1> SUFFICES ASSUME NEW t \in Tasks PROVE LeaseOK(t)'
  BY DEF LeaseInv
<1>1. CASE \/ \E u \in Tasks : FloodAges(u)
           \/ \E a \in Accounts : PoolStep(a)
           \/ UNCHANGED vars
  <2>1. UNCHANGED <<state, attempt, lease, leaseAttempt, claimed, tokens, quiescent, pc>>
    BY <1>1 DEF FloodAges, PoolStep, vars, taskVars, lifeVars, leaseVars,
       workerVars, progressVars
  <2>2. LeaseOK(t)
    BY DEF LeaseInv
  <2> QED BY <2>1, <2>2 DEF LeaseOK, OwnsLease
<1> QED BY <1>1, PartLease, ExecutorLease, LoopLease DEF Next, Finished

-----------------------------------------------------------------------------
(* The books of the loop *)

\* What an executor does to the segments and the loop's books: it ends or
\* grants only its own current attempt, and reports to the loop only at the end.
LEMMA ExecutorBooks ==
    ASSUME TypeInv, NEW u \in Tasks, NEW m \in Attempts, ExecutorStep(u, m)
    PROVE  /\ UNCHANGED <<attempt, claimed, lpc, action, submitted, taken>>
           /\ \A t \in Tasks : state'[t] = state[t] \/ (t = u /\ attempt[u] = m)
           /\ \A t \in Tasks : quiescent[t] \subseteq quiescent'[t]
           /\ \/ completions' = completions /\ pc[u][m] # "returning"
              \/ /\ completions' = completions \cup {<<u, m>>}
                 /\ pc[u][m] = "returning"
<1> USE DEF lifeVars, leaseVars, taskVars, workerVars, loopVars, TypeInv,
     TypeOK, TaskType
<1>1. CASE \/ BorrowRuntime(u, m) \/ BindRevokeHandle(u, m)
           \/ SetupRaises(u, m) \/ RevokeLands(u, m)
  BY <1>1 DEF BorrowRuntime, BindRevokeHandle, SetupRaises, RevokeLands
<1>2. CASE \/ PrepareSegment(u, m) \/ AttemptRevoked(u, m)
           \/ ThumbnailFails(u, m) \/ BytesPrepared(u, m)
  BY <1>2 DEF PrepareSegment, AttemptRevoked, ThumbnailFails, BytesPrepared
<1>3. CASE \/ SendUploadedSegment(u, m) \/ SendRaises(u, m)
           \/ ActionRaises(u, m) \/ EnqueueExecutorCompletion(u, m)
  BY <1>3 DEF SendUploadedSegment, SendRaises, ActionRaises,
     EnqueueExecutorCompletion
<1>4. CASE BindRefused(u, m) \/ AttemptQuiesced(u, m)
  BY <1>4 DEF BindRefused, AttemptQuiesced
<1>5. CASE GrantFinalize(u, m)
  BY <1>5 DEF GrantFinalize, ValidCurrent
<1>6. CASE CompleteAttempt(u, m)
  BY <1>6 DEF CompleteAttempt, ValidCurrent, TerminalLocked, NotYetTerminal
<1>7. CASE FailAttempt(u, m)
  BY <1>7 DEF FailAttempt, ValidCurrent, TerminalLocked, NotYetTerminal
<1> QED BY <1>1, <1>2, <1>3, <1>4, <1>5, <1>6, <1>7 DEF ExecutorStep

\* Executors keep the loop's books: the one that returns reports itself once.
LEMMA ExecutorLoop ==
    ASSUME TypeInv, LoopInv, ClaimInv, NEW u \in Tasks, NEW m \in Attempts,
           ExecutorStep(u, m)
    PROVE  LoopInv'
<1>1. PICK where \in WorkerPC : Goto(u, m, where) /\ ExecutorMove(u, m, where)
  BY ExecutorMoves
<1>2. /\ where = "done" <=> pc[u][m] = "returning"
      /\ where # "none" /\ pc[u][m] \notin {"none", "done"}
  BY <1>1 DEF ExecutorMove
<1>3. /\ \A t \in Tasks, n \in Attempts :
            pc'[t][n] = IF t = u /\ n = m THEN where ELSE pc[t][n]
      /\ <<u, m>> \in submitted
  BY <1>1, <1>2 DEF Goto, TypeInv, TypeOK, WorkerType, LoopInv, LoopOK
<1>4. ASSUME NEW t \in Tasks, NEW n \in Attempts PROVE LoopOK(t, n)'
  <2>1. LoopOK(t, n)
    BY DEF LoopInv
  <2> QED BY <1>2, <1>3, <2>1, ExecutorBooks DEF LoopOK
<1>5. completions' \cap taken' = {}
  <2>1. <<u, m>> \notin taken
    BY <1>2 DEF LoopInv, LoopOK
  <2> QED BY <2>1, ExecutorBooks DEF LoopInv
<1>6. /\ lpc' # "finish" => taken' = {}
      /\ lpc' # "exit"
  BY <1>2, <1>3, ExecutorBooks DEF LoopInv
<1> QED BY <1>4, <1>5, <1>6 DEF LoopInv

\* The loop keeps its books, from the claim to the collected completion.
LEMMA LoopLoop ==
    ASSUME TypeInv, LoopInv, ClaimInv, LoopStep
    PROVE  LoopInv'
<1> USE DEF lifeVars, leaseVars, taskVars, workerVars, loopVars
<1>1. CASE TakeExecutorCompletions
  <2>1. /\ taken = {} /\ taken' = completions /\ completions' = {}
        /\ lpc = "take" /\ lpc' = "finish"
        /\ UNCHANGED <<state, attempt, claimed, pc, quiescent, action, submitted>>
    BY <1>1 DEF TakeExecutorCompletions, LoopInv
  <2> QED BY <2>1 DEF LoopInv, LoopOK
<1>2. CASE LoopBreak
  <2>1. /\ lpc' = "exit" /\ taken = {} /\ AllTerminal /\ submitted = {}
        /\ UNCHANGED <<state, attempt, claimed, pc, quiescent, action,
                       submitted, completions, taken>>
        /\ lpc = "finish"
    BY <1>2 DEF LoopBreak
  <2> QED BY <2>1 DEF LoopInv, LoopOK, AllTerminal
<1>3. CASE SelectNothing \/ NextDeadline \/ WaitForChange
  <2>1. /\ lpc' \in {"deadline", "wait", "take"} /\ taken = {}
        /\ lpc \in {"finish", "deadline", "wait"}
        /\ UNCHANGED <<state, attempt, claimed, pc, quiescent, action,
                       submitted, completions, taken>>
    BY <1>3 DEF SelectNothing, NextDeadline, WaitForChange, LoopInv
  <2> QED BY <2>1 DEF LoopInv, LoopOK
<1>4. CASE Submit
  <2>1. /\ lpc = "submit" /\ lpc' = "take" /\ taken = {}
        /\ submitted' = submitted \cup {action}
        /\ Goto(action[1], action[2], "queued")
        /\ action \in Claims
        /\ UNCHANGED <<state, attempt, claimed, quiescent, completions, taken>>
    BY <1>4 DEF Submit, LoopInv, TypeInv, SubmitInv
  <2>2. ASSUME NEW t \in Tasks, NEW n \in Attempts PROVE LoopOK(t, n)'
    <3>1. LoopOK(t, n)
      BY DEF LoopInv
    <3>2. CASE action = <<t, n>>
      <4>1. pc'[t][n] = "queued"
        BY <2>1, <3>2 DEF Goto, TypeInv, TypeOK, WorkerType
      <4> QED BY <2>1, <3>1, <3>2, <4>1 DEF LoopOK
    <3>3. CASE action # <<t, n>>
      <4>1. pc'[t][n] = pc[t][n]
        BY <2>1, <3>3 DEF Goto, Claims, TypeInv, TypeOK, WorkerType
      <4> QED BY <2>1, <3>1, <3>3, <4>1 DEF LoopOK
    <3> QED BY <3>2, <3>3
  <2> QED BY <2>1, <2>2 DEF LoopInv
<1>5. ASSUME NEW u \in Tasks, NEW m \in Attempts, ExecutorFinished(u, m)
      PROVE  LoopInv'
  <2>1. /\ lpc = "finish" /\ lpc' = lpc
        /\ <<u, m>> \in taken
        /\ taken' = taken \ {<<u, m>>}
        /\ submitted' = submitted \ {<<u, m>>}
        /\ quiescent' = [quiescent EXCEPT ![u] = @ \cup {m}]
        /\ UNCHANGED <<claimed, pc, action, completions>>
    BY <1>5 DEF ExecutorFinished
  <2>2. ASSUME NEW t \in Tasks, NEW n \in Attempts PROVE LoopOK(t, n)'
    <3>1. LoopOK(t, n) /\ LoopOK(u, m)
      BY DEF LoopInv
    <3>2. /\ quiescent[t] \subseteq quiescent'[t]
          /\ m \in quiescent'[u]
      BY <2>1 DEF TypeInv, TypeOK, TaskType
    <3>3. <<u, m>> \notin completions /\ completions \cap taken = {}
      BY <2>1 DEF LoopInv
    <3> QED BY <2>1, <3>1, <3>2, <3>3 DEF LoopOK
  <2> QED BY <2>1, <2>2 DEF LoopInv
<1>6. ASSUME NEW u \in Tasks, SelectReplacement(u)
      PROVE  LoopInv'
  <2>1. /\ state[u] = "migrating"
        /\ state' = [state EXCEPT ![u] = "active"]
        /\ attempt' = [attempt EXCEPT ![u] = attempt[u]]
        /\ claimed' = [claimed EXCEPT ![u][attempt[u]] = resv[u]]
        /\ action' = <<u, attempt[u]>> /\ lpc' = "submit" /\ lpc = "finish"
        /\ taken = {}
        /\ UNCHANGED <<pc, quiescent, submitted, completions, taken>>
    BY <1>6 DEF SelectReplacement, FirstReady, ReplacementReady, InstallActive,
       MaySelect
  <2>2. attempt[u] = 2 /\ claimed[u][2] = NoAccount /\ pc[u][2] = "none"
    BY <2>1 DEF ClaimInv, ClaimOK, Attempts
  <2>3. ASSUME NEW t \in Tasks, NEW n \in Attempts PROVE LoopOK(t, n)'
    <3>1. LoopOK(t, n)
      BY DEF LoopInv
    <3>2. CASE t = u /\ n = 2
      BY <2>1, <2>2, <3>1, <3>2 DEF LoopOK, TypeInv, TypeOK, TaskType
    <3>3. CASE ~(t = u /\ n = 2)
      <4>1. claimed'[t][n] = claimed[t][n]
        BY <2>1, <2>2, <3>3 DEF TypeInv, TypeOK, WorkerType
      <4> QED BY <2>1, <2>2, <3>1, <3>3, <4>1 DEF LoopOK
    <3> QED BY <3>2, <3>3
  <2> QED BY <2>1, <2>3 DEF LoopInv
<1>7. ASSUME NEW u \in Tasks, SelectReplacementFails(u)
      PROVE  LoopInv'
  <2>1. /\ lpc = "finish" /\ lpc' = lpc
        /\ UNCHANGED <<claimed, pc, quiescent, action, submitted, completions,
                       taken>>
    BY <1>7 DEF SelectReplacementFails, MaySelect
  <2> QED BY <2>1 DEF LoopInv, LoopOK
<1>8. ASSUME NEW u \in Tasks, NEW a \in Accounts, CommitMigration(a, u)
      PROVE  LoopInv'
  <2>1. /\ lpc = "finish" /\ lpc' = "deadline" /\ taken = {}
        /\ UNCHANGED <<claimed, pc, quiescent, action, submitted, completions,
                       taken>>
    BY <1>8 DEF CommitMigration, MaySelect
  <2> QED BY <2>1 DEF LoopInv, LoopOK
<1>9. ASSUME NEW u \in Tasks, NEW a \in Accounts, SelectPending(u, a)
      PROVE  LoopInv'
  <2>1. /\ state[u] = "pending"
        /\ state' = [state EXCEPT ![u] = "active"]
        /\ attempt' = [attempt EXCEPT ![u] = 1]
        /\ claimed' = [claimed EXCEPT ![u][1] = a]
        /\ action' = <<u, 1>> /\ lpc' = "submit" /\ lpc = "finish"
        /\ taken = {}
        /\ UNCHANGED <<pc, quiescent, submitted, completions, taken>>
    BY <1>9 DEF SelectPending, FirstPending, InstallActive, MaySelect
  <2>2. claimed[u][1] = NoAccount /\ pc[u][1] = "none"
    BY <2>1 DEF ClaimInv, ClaimOK, Attempts
  <2>3. ASSUME NEW t \in Tasks, NEW n \in Attempts PROVE LoopOK(t, n)'
    <3>1. LoopOK(t, n)
      BY DEF LoopInv
    <3>2. CASE t = u /\ n = 1
      BY <2>1, <2>2, <3>1, <3>2 DEF LoopOK, TypeInv, TypeOK, TaskType
    <3>3. CASE ~(t = u /\ n = 1)
      <4>1. claimed'[t][n] = claimed[t][n]
        BY <2>1, <2>2, <3>3 DEF TypeInv, TypeOK, WorkerType
      <4> QED BY <2>1, <2>2, <3>1, <3>3, <4>1 DEF LoopOK
    <3> QED BY <3>2, <3>3
  <2> QED BY <2>1, <2>3 DEF LoopInv
<1>10. CASE SubmissionFailed
  <2>1. /\ action \in Claims /\ lpc = "submit" /\ lpc' = "take"
        /\ attempt[action[1]] = action[2]
    BY <1>10 DEF SubmissionFailed, TypeInv, SubmitInv, LoopInv, LoopOK, Claims
  <2>2. /\ quiescent' = [u \in Tasks |->
                           IF u \in {action[1]} THEN quiescent[u] \cup {action[2]}
                           ELSE quiescent[u]]
        /\ UNCHANGED <<claimed, pc, submitted, completions, taken>>
    BY <1>10, <2>1 DEF SubmissionFailed
  <2>3. ASSUME NEW t \in Tasks, NEW n \in Attempts PROVE LoopOK(t, n)'
    <3>1. LoopOK(t, n)
      BY DEF LoopInv
    <3>2. /\ quiescent[t] \subseteq quiescent'[t]
          /\ action = <<t, n>> => n \in quiescent'[t]
      BY <2>1, <2>2
    <3> QED BY <2>1, <2>2, <3>1, <3>2 DEF LoopOK
  <2> QED BY <2>1, <2>2, <2>3 DEF LoopInv
<1> QED BY <1>1, <1>2, <1>3, <1>4, <1>5, <1>6, <1>7, <1>8, <1>9,
     <1>10 DEF LoopStep

\* Every step keeps LoopInv.
LEMMA NextLoop ==
    ASSUME TypeInv, LoopInv, ClaimInv, [Next]_vars
    PROVE  LoopInv'
<1>1. ASSUME NEW u \in Tasks, NEW m \in Attempts, NEW p \in Parts,
             PartStep(u, m, p) \/ LateRequestSucceeded(u, m, p)
      PROVE  LoopInv'
  <2>1. UNCHANGED <<state, attempt, claimed, quiescent, loopVars>>
    BY <1>1 DEF PartStep, BeginRequest, BeginRequestRejected, RequestSucceeded,
       PremiumFlood, RequestFailed, RequestSettled, LateRequestSucceeded,
       taskVars, lifeVars, leaseVars, workerVars
  <2>2. pc' = pc \/ (pc[u][m] = "upload" /\ Goto(u, m, "failing"))
    BY <1>1 DEF PartStep, BeginRequest, BeginRequestRejected, RequestSucceeded,
       PremiumFlood, RequestFailed, RequestSettled, LateRequestSucceeded,
       workerVars, Goto
  <2>3. CASE pc' = pc
    BY <2>1, <2>3 DEF LoopInv, LoopOK, loopVars, AllTerminal
  <2>4. CASE pc[u][m] = "upload" /\ Goto(u, m, "failing")
    <3>1. ASSUME NEW t \in Tasks, NEW n \in Attempts PROVE LoopOK(t, n)'
      <4>1. pc'[t][n] = IF t = u /\ n = m THEN "failing" ELSE pc[t][n]
        BY <2>4 DEF Goto, TypeInv, TypeOK, WorkerType
      <4>2. LoopOK(t, n)
        BY DEF LoopInv
      <4> QED BY <2>1, <2>4, <4>1, <4>2 DEF LoopOK, loopVars
    <3> QED BY <2>1, <3>1 DEF LoopInv, loopVars, AllTerminal
  <2> QED BY <2>2, <2>3, <2>4
<1>2. CASE \/ \E u \in Tasks : FloodAges(u)
           \/ \E a \in Accounts : PoolStep(a)
           \/ UNCHANGED vars
  <2>1. UNCHANGED <<state, attempt, claimed, quiescent, pc, loopVars>>
    BY <1>2 DEF FloodAges, PoolStep, vars, taskVars, lifeVars, leaseVars,
       workerVars
  <2> QED BY <2>1 DEF LoopInv, LoopOK, loopVars, AllTerminal
<1> QED BY <1>1, <1>2, ExecutorLoop, LoopLoop DEF Next, Finished

-----------------------------------------------------------------------------
(* What the current attempt can rely on *)

\* What _terminal_locked does to the revoke handle of one segment.
LEMMA TerminalLockedRevokes ==
    ASSUME TypeInv, NEW T, NEW outcome \in Terminal, TerminalLocked(T, outcome),
           NEW t \in Tasks
    PROVE  /\ attempt' = attempt
           /\ \/ UNCHANGED <<state[t], handle[t]>> /\ revoke'[t] = revoke[t]
              \/ /\ state'[t] \in Terminal /\ ~handle'[t]
                 /\ \A n \in Attempts :
                       revoke'[t][n] = (revoke[t][n] \/ (handle[t] /\ n = attempt[t]))
<1> USE DEF TypeInv, TypeOK, TaskType, WorkerType
<1>1. CASE t \in NotYetTerminal(T)
  BY <1>1 DEF TerminalLocked
<1>2. CASE t \notin NotYetTerminal(T)
  <2>1. state'[t] = state[t] /\ handle'[t] = handle[t]
    BY <1>2 DEF TerminalLocked
  <2>2. revoke'[t] = [n \in Attempts |-> revoke[t][n]]
    BY <1>2 DEF TerminalLocked
  <2>3. revoke'[t] = revoke[t]
    BY <2>2
  <2> QED BY <1>2, <2>1, <2>3 DEF TerminalLocked
<1> QED BY <1>1, <1>2

\* What an executor does to what its segment's current attempt relies on: it
\* leaves its action without an outcome only when it was superseded or raises.
ExecutorEnds(u, m) ==
    /\ UNCHANGED <<attempt, parts>>
    /\ \A t \in Tasks, n \in Attempts : raised[t][n] => raised'[t][n]
    /\ \A t \in Tasks :
          \/ /\ state'[t] = state[t] /\ revoke'[t] = revoke[t]
             /\ handle'[t] => handle[t] \/ state[t] = "active"
          \/ /\ state'[t] = "finalizing"
             /\ UNCHANGED <<handle[t], revoke[t]>>
          \/ /\ state'[t] \in Terminal /\ ~handle'[t]
             /\ \A n \in Attempts :
                   revoke'[t][n] = (revoke[t][n] \/ (handle[t] /\ n = attempt[t]))
    /\ pc'[u][m] = "revoked" => revoke[u][m]
    /\ pc'[u][m] \in {"finally"} \cup Left /\ ~raised'[u][m] =>
          ~(state'[u] = "active" /\ attempt[u] = m)

\* Executors end their action that way.
LEMMA ExecutorOutcome ==
    ASSUME TypeInv, RpcInv, ClaimInv, LeaseInv, CurrentInv,
           NEW u \in Tasks, NEW m \in Attempts, ExecutorStep(u, m)
    PROVE  ExecutorEnds(u, m)
<1> USE DEF lifeVars, leaseVars, taskVars, workerVars, progressVars
<1>g. ASSUME NEW where, Goto(u, m, where) PROVE pc'[u][m] = where
  BY <1>g DEF Goto, TypeInv, TypeOK, WorkerType
<1>c. /\ state[u] = "active" /\ attempt[u] = m => ValidCurrent(u, m, {"active"})
      /\ ValidCurrent(u, m, {"active"}) => state[u] = "active"
  BY DEF ClaimInv, ClaimOK, ValidCurrent, Terminal
<1>d. /\ state[u] = "active" /\ attempt[u] = m 
         /\ pc[u][m] \notin {"bytes", "finally"} \cup Left
            => OwnsLease(u, m) /\ lease[u] = claimed[u][m]
      /\ CurrentOK(u, m)
  BY DEF LeaseInv, LeaseOK, OwnsLease, CurrentInv
<1>1. CASE BorrowRuntime(u, m)
  <2>1. pc[u][m] = "queued" /\ UNCHANGED <<state, attempt, parts, handle, revoke, raised>>
    BY <1>1 DEF BorrowRuntime
  <2>2. CASE /\ ValidCurrent(u, m, {"active"}) /\ OwnsLease(u, m)
             /\ lease[u] = claimed[u][m]
    <3>1. pc'[u][m] = "borrowed"
      BY <1>1, <1>g, <2>2 DEF BorrowRuntime
    <3> QED BY <2>1, <3>1 DEF ExecutorEnds, Left
  <2>3. CASE ~(/\ ValidCurrent(u, m, {"active"}) /\ OwnsLease(u, m)
               /\ lease[u] = claimed[u][m])
    <3>1. pc'[u][m] = "returning"
      BY <1>1, <1>g, <2>3 DEF BorrowRuntime
    <3> QED BY <1>c, <1>d, <2>1, <2>3, <3>1 DEF ExecutorEnds, Left
  <2> QED BY <2>2, <2>3
<1>2. CASE BindRevokeHandle(u, m)
  <2>1. /\ UNCHANGED <<state, attempt, parts, revoke, raised>>
        /\ handle' = [handle EXCEPT ![u] = TRUE]
        /\ pc'[u][m] = "upload" /\ state[u] = "active"
    BY <1>2, <1>c, <1>g DEF BindRevokeHandle
  <2> QED BY <2>1 DEF ExecutorEnds, Left, TypeInv, TypeOK, TaskType
<1>3. CASE BindRefused(u, m)
  <2>1. /\ UNCHANGED <<state, attempt, parts, handle, revoke, raised>>
        /\ pc'[u][m] = "returning" /\ ~ValidCurrent(u, m, {"active"})
    BY <1>3, <1>g DEF BindRefused
  <2> QED BY <1>c, <2>1 DEF ExecutorEnds, Left
<1>4. CASE SetupRaises(u, m)
  <2>1. /\ UNCHANGED <<state, attempt, parts, revoke>>
        /\ raised' = [raised EXCEPT ![u][m] = TRUE]
        /\ pc'[u][m] = "returning"
    BY <1>4, <1>g DEF SetupRaises
  <2>2. \A t \in Tasks : handle'[t] => handle[t] \/ state[t] = "active"
    BY <1>4, <1>c DEF SetupRaises, TypeInv, TypeOK, TaskType
  <2> QED BY <2>1, <2>2 DEF ExecutorEnds, Left, TypeInv, TypeOK, WorkerType
<1>5. CASE \/ RevokeLands(u, m) \/ PrepareSegment(u, m)
           \/ ThumbnailFails(u, m) \/ SendUploadedSegment(u, m)
           \/ SendRaises(u, m)
  <2>1. UNCHANGED <<state, attempt, parts, handle, revoke, raised>>
    BY <1>5 DEF RevokeLands, PrepareSegment, ThumbnailFails,
       SendUploadedSegment, SendRaises
  <2>2. /\ pc'[u][m] \notin {"finally"} \cup Left
        /\ pc'[u][m] = "revoked" => revoke[u][m]
    BY <1>5, <1>g DEF RevokeLands, PrepareSegment, ThumbnailFails,
       SendUploadedSegment, SendRaises, Goto, Left
  <2> QED BY <2>1, <2>2 DEF ExecutorEnds
<1>6. CASE AttemptRevoked(u, m)
  <2>1. /\ UNCHANGED <<state, attempt, parts, handle, revoke, raised>>
        /\ pc'[u][m] = "finally" /\ pc[u][m] = "revoked"
    BY <1>6, <1>g DEF AttemptRevoked
  <2> QED BY <1>d, <2>1 DEF ExecutorEnds, CurrentOK
<1>7. CASE BytesPrepared(u, m)
  <2>1. /\ UNCHANGED <<state, attempt, parts, handle, revoke, raised>>
        /\ pc[u][m] = "prepared"
    BY <1>7 DEF BytesPrepared
  <2>2. CASE /\ ValidCurrent(u, m, {"active"}) /\ AllBytes(u)
             /\ tokens[u][m] = {} /\ OwnsLease(u, m)
    <3>1. pc'[u][m] = "bytes"
      BY <1>7, <1>g, <2>2 DEF BytesPrepared
    <3> QED BY <2>1, <3>1 DEF ExecutorEnds, Left
  <2>3. CASE ~(/\ ValidCurrent(u, m, {"active"}) /\ AllBytes(u)
               /\ tokens[u][m] = {} /\ OwnsLease(u, m))
    <3>1. pc'[u][m] = "finally"
      BY <1>7, <1>g, <2>3 DEF BytesPrepared
    <3>2. /\ \A p \in Parts : rpc[u][m][p] = "done"
          /\ tokens[u][m] = {}
      BY <2>1 DEF RpcInv, RpcOK, InFlight
    <3>3. state[u] = "active" /\ attempt[u] = m => AllBytes(u)
      BY <1>d, <3>2 DEF CurrentOK, AllBytes, TypeInv, TypeOK, TaskType
    <3>4. state[u] = "active" /\ attempt[u] = m => OwnsLease(u, m)
      BY <1>d, <2>1 DEF Left
    <3> QED BY <1>c, <2>1, <2>3, <3>1, <3>2, <3>3, <3>4 DEF ExecutorEnds
  <2> QED BY <2>2, <2>3
<1>8. CASE GrantFinalize(u, m)
  <2>1. UNCHANGED <<attempt, parts, handle, revoke, raised>>
    BY <1>8 DEF GrantFinalize
  <2>2. CASE ValidCurrent(u, m, {"active"})
    <3>1. state' = [state EXCEPT ![u] = "finalizing"] /\ pc'[u][m] = "granted"
      BY <1>8, <1>g, <2>2 DEF GrantFinalize
    <3> QED BY <2>1, <3>1 DEF ExecutorEnds, Left, TypeInv, TypeOK, TaskType
  <2>3. CASE ~ValidCurrent(u, m, {"active"})
    <3>1. state' = state /\ pc'[u][m] = "finally"
      BY <1>8, <1>g, <2>3 DEF GrantFinalize
    <3> QED BY <1>c, <2>1, <2>3, <3>1 DEF ExecutorEnds
  <2> QED BY <2>2, <2>3
<1>9. CASE CompleteAttempt(u, m)
  <2>1. UNCHANGED <<parts, raised>>
    BY <1>9 DEF CompleteAttempt
  <2>2. CASE ValidCurrent(u, m, {"finalizing"})
    <3>1. TerminalLocked({u}, "completed") /\ pc'[u][m] = "finally"
      BY <1>9, <1>g, <2>2 DEF CompleteAttempt
    <3>2. state'[u] = "completed"
      BY <2>2, <3>1 DEF TerminalLocked, NotYetTerminal, ValidCurrent
    <3> QED BY <2>1, <3>1, <3>2, TerminalLockedRevokes DEF ExecutorEnds,
         Terminal
  <2>3. CASE ~ValidCurrent(u, m, {"finalizing"})
    <3>1. UNCHANGED <<state, attempt, handle, revoke>> /\ pc'[u][m] = "failing"
      BY <1>9, <1>g, <2>3 DEF CompleteAttempt
    <3> QED BY <2>1, <3>1 DEF ExecutorEnds, Left
  <2> QED BY <2>2, <2>3
<1>10. CASE FailAttempt(u, m)
  <2>1. UNCHANGED <<parts, raised>> /\ pc'[u][m] = "finally"
    BY <1>10, <1>g DEF FailAttempt
  <2>2. CASE ValidCurrent(u, m, {"active", "finalizing"})
    <3>1. TerminalLocked({u}, "failed")
      BY <1>10, <2>2 DEF FailAttempt
    <3>2. state'[u] = "failed"
      BY <2>2, <3>1 DEF TerminalLocked, NotYetTerminal, ValidCurrent
    <3> QED BY <2>1, <3>1, <3>2, TerminalLockedRevokes DEF ExecutorEnds,
         Terminal
  <2>3. CASE ~ValidCurrent(u, m, {"active", "finalizing"})
    <3>1. UNCHANGED <<state, attempt, handle, revoke>>
      BY <1>10, <2>3 DEF FailAttempt
    <3>2. ~ValidCurrent(u, m, {"active"})
      BY <2>3 DEF ValidCurrent
    <3> QED BY <1>c, <2>1, <3>1, <3>2 DEF ExecutorEnds
  <2> QED BY <2>2, <2>3
<1>11. CASE ActionRaises(u, m)
  <2>1. /\ UNCHANGED <<state, attempt, parts, handle, revoke>>
        /\ raised' = [raised EXCEPT ![u][m] = TRUE]
        /\ pc'[u][m] = "finally"
    BY <1>11, <1>g DEF ActionRaises
  <2> QED BY <2>1 DEF ExecutorEnds, TypeInv, TypeOK, WorkerType
<1>12. CASE AttemptQuiesced(u, m) \/ EnqueueExecutorCompletion(u, m)
  <2>1. /\ UNCHANGED <<state, attempt, parts, handle, revoke, raised>>
        /\ pc[u][m] \in {"finally", "returning"}
        /\ pc'[u][m] \in {"returning", "done"}
    BY <1>12, <1>g DEF AttemptQuiesced, EnqueueExecutorCompletion
  <2> QED BY <1>d, <2>1 DEF ExecutorEnds, CurrentOK, Left
<1> QED BY <1>1, <1>2, <1>3, <1>4, <1>5, <1>6, <1>7, <1>8, <1>9, <1>10, <1>11,
           <1>12 DEF ExecutorStep

\* Executors keep CurrentOK.
LEMMA ExecutorCurrent ==
    ASSUME TypeInv, RpcInv, ClaimInv, LeaseInv, CurrentInv,
           NEW u \in Tasks, NEW m \in Attempts, ExecutorStep(u, m),
           NEW t \in Tasks, NEW n \in Attempts
    PROVE  CurrentOK(t, n)'
<1>1. ExecutorEnds(u, m)
  BY ExecutorOutcome
<1>2. PICK where \in WorkerPC : Goto(u, m, where) /\ ExecutorMove(u, m, where)
  BY ExecutorMoves
<1>3. /\ claimed' = claimed /\ rpc' = rpc /\ parts' = parts /\ attempt' = attempt
      /\ raised[t][n] => raised'[t][n]
  BY <1>1, ExecutorMoves DEF ExecutorEnds
<1>4. pc'[t][n] = IF t = u /\ n = m THEN where ELSE pc[t][n]
  BY <1>2 DEF Goto, TypeInv, TypeOK, WorkerType
<1>5. CurrentOK(t, n) /\ ClaimOK(t)
  BY DEF CurrentInv, ClaimInv
<1>6. /\ pc'[t][n] = "revoked" => revoke[t][n]
      /\ pc'[t][n] \in {"finally"} \cup Left /\ ~raised'[t][n] =>
            ~(state'[t] = "active" /\ attempt[t] = n)
  <2>1. CASE t = u /\ n = m
    BY <1>1, <2>1 DEF ExecutorEnds
  <2>2. CASE ~(t = u /\ n = m)
    <3>1. state'[t] = "active" => state[t] = "active"
      BY <1>1 DEF ExecutorEnds, Terminal
    <3> QED BY <1>3, <1>4, <1>5, <2>2, <3>1 DEF CurrentOK
  <2> QED BY <2>1, <2>2
<1>7. CASE /\ state'[t] = state[t] /\ revoke'[t] = revoke[t]
           /\ handle'[t] => handle[t] \/ state[t] = "active"
  BY <1>3, <1>5, <1>6, <1>7 DEF CurrentOK
<1>8. CASE state'[t] = "finalizing" /\ UNCHANGED <<handle[t], revoke[t]>>
  BY <1>3, <1>5, <1>6, <1>8 DEF CurrentOK
<1>9. CASE /\ state'[t] \in Terminal /\ ~handle'[t]
           /\ \A k \in Attempts :
                 revoke'[t][k] = (revoke[t][k] \/ (handle[t] /\ k = attempt[t]))
  BY <1>3, <1>5, <1>6, <1>9 DEF CurrentOK, ClaimOK, Terminal
<1> QED BY <1>1, <1>7, <1>8, <1>9 DEF ExecutorEnds

\* Ending segments (_terminal_locked) leaves nobody waiting for a handle.
LEMMA TerminalCurrent ==
    ASSUME TypeInv, ClaimInv, CurrentInv, NEW T, NEW outcome \in Terminal,
           TerminalLocked(T, outcome), UNCHANGED <<claimed, pc, rpc, raised, parts>>,
           NEW t \in Tasks, NEW n \in Attempts
    PROVE  CurrentOK(t, n)'
<1>1. CurrentOK(t, n) /\ ClaimOK(t)
  BY DEF CurrentInv, ClaimInv
<1>2. attempt' = attempt
  BY TerminalLockedRevokes
<1>3. CASE UNCHANGED <<state[t], handle[t]>> /\ revoke'[t] = revoke[t]
  BY <1>1, <1>2, <1>3 DEF CurrentOK
<1>4. CASE /\ state'[t] \in Terminal /\ ~handle'[t]
           /\ \A k \in Attempts :
                 revoke'[t][k] = (revoke[t][k] \/ (handle[t] /\ k = attempt[t]))
  BY <1>1, <1>2, <1>4 DEF CurrentOK, ClaimOK, Terminal
<1> QED BY <1>3, <1>4, TerminalLockedRevokes

\* Part sends keep CurrentOK: a part that is sent while current counts.
LEMMA PartCurrent ==
    ASSUME TypeInv, ClaimInv, CurrentInv,
           NEW u \in Tasks, NEW m \in Attempts, NEW q \in Parts,
           PartStep(u, m, q) \/ LateRequestSucceeded(u, m, q),
           NEW t \in Tasks, NEW n \in Attempts
    PROVE  CurrentOK(t, n)'
<1> USE DEF lifeVars, taskVars, workerVars, progressVars
<1>1. UNCHANGED <<state, attempt, handle, claimed, revoke, raised>>
  BY DEF PartStep, BeginRequest, BeginRequestRejected, RequestSucceeded,
     PremiumFlood, RequestFailed, RequestSettled, LateRequestSucceeded
<1>2. CurrentOK(t, n) /\ ClaimOK(t)
  BY DEF CurrentInv, ClaimInv
<1>3. pc'[t][n] = pc[t][n] \/ pc'[t][n] = "failing"
  BY DEF PartStep, BeginRequest, BeginRequestRejected, RequestSucceeded,
     PremiumFlood, RequestFailed, RequestSettled, LateRequestSucceeded,
     TypeInv, TypeOK, WorkerType
<1>4. \A p \in Parts : p \in parts[t] => p \in parts'[t]
  <2>1. parts' = parts \/ parts' = [parts EXCEPT ![u] = @ \cup {q}]
    BY DEF PartStep, BeginRequest, BeginRequestRejected, RequestSucceeded,
       PremiumFlood, RequestFailed, RequestSettled, LateRequestSucceeded
  <2> QED BY <2>1 DEF TypeInv, TypeOK, TaskType
<1>5. ASSUME state[t] = "active", attempt[t] = n, NEW p \in Parts,
             rpc'[t][n][p] \in {"ok", "done"}
      PROVE  rpc[t][n][p] \in {"ok", "done"} \/ p \in parts'[t]
  <2>1. CASE RequestSucceeded(u, m, q)
    <3>1. t = u /\ n = m => ValidCurrent(u, m, {"active"})
      BY <1>2, <1>5 DEF ClaimOK, ValidCurrent, Terminal
    <3>2. CASE t = u /\ n = m /\ p = q
      <4>1. parts' = [parts EXCEPT ![u] = @ \cup {q}]
        BY <2>1, <3>1, <3>2 DEF RequestSucceeded
      <4> QED BY <3>2, <4>1 DEF TypeInv, TypeOK, TaskType
    <3>3. CASE ~(t = u /\ n = m /\ p = q)
      BY <1>5, <2>1, <3>3 DEF RequestSucceeded, TypeInv, TypeOK, WorkerType
    <3> QED BY <3>2, <3>3
  <2>2. CASE RequestSettled(u, m, q)
    <3>1. /\ rpc' = [rpc EXCEPT ![u][m][q] = AfterSettle(rpc[u][m][q])]
          /\ AfterSettle(rpc[u][m][q]) \in {"ok", "done"} => rpc[u][m][q] = "ok"
      BY <2>2 DEF RequestSettled, AfterSettle
    <3> QED BY <1>5, <3>1 DEF TypeInv, TypeOK, WorkerType
  <2>3. CASE ~RequestSucceeded(u, m, q) /\ ~RequestSettled(u, m, q)
    <3>1. \/ rpc' = rpc
          \/ \E end \in {"sent", "retry", "dead"} :
                rpc' = [rpc EXCEPT ![u][m][q] = end]
      BY <2>3 DEF PartStep, BeginRequest, BeginRequestRejected,
         PremiumFlood, RequestFailed, LateRequestSucceeded
    <3>2. CASE rpc' = rpc
      BY <1>5, <3>2
    <3>3. ASSUME NEW end \in {"sent", "retry", "dead"},
                 rpc' = [rpc EXCEPT ![u][m][q] = end]
          PROVE  rpc[t][n][p] \in {"ok", "done"}
      <4>1. rpc'[t][n][p] = IF t = u /\ n = m /\ p = q THEN end ELSE rpc[t][n][p]
        BY <3>3 DEF TypeInv, TypeOK, WorkerType
      <4> QED BY <1>5, <3>3, <4>1
    <3> QED BY <3>1, <3>2, <3>3
  <2> QED BY <2>1, <2>2, <2>3
<1> QED BY <1>1, <1>2, <1>3, <1>4, <1>5 DEF CurrentOK, Left

\* The loop keeps CurrentOK: what commit_migration and the endings revoke is no
\* longer current, and what is installed starts with nothing sent.
LEMMA LoopCurrent ==
    ASSUME TypeInv, RpcInv, ClaimInv, CurrentInv, LoopInv, LoopStep,
           NEW t \in Tasks, NEW n \in Attempts
    PROVE  CurrentOK(t, n)'
<1> USE DEF lifeVars, taskVars, workerVars, progressVars
<1>q. CurrentOK(t, n) /\ ClaimOK(t) /\ 1 \in Attempts /\ 2 \in Attempts
  BY DEF CurrentInv, ClaimInv, Attempts
<1>1. CASE \/ TakeExecutorCompletions \/ LoopBreak \/ SelectNothing
           \/ NextDeadline \/ WaitForChange
  <2>1. UNCHANGED <<state, attempt, handle, claimed, revoke, raised, rpc, pc, parts>>
    BY <1>1 DEF TakeExecutorCompletions, LoopBreak, SelectNothing, NextDeadline,
       WaitForChange
  <2> QED BY <1>q, <2>1 DEF CurrentOK
<1>2. CASE Submit
  <2>1. /\ UNCHANGED <<state, attempt, handle, claimed, revoke, raised, rpc, parts>>
        /\ Goto(action[1], action[2], "queued")
        /\ action \in Claims
    BY <1>2 DEF Submit, TypeInv, SubmitInv
  <2>2. pc'[t][n] = pc[t][n] \/ pc'[t][n] = "queued"
    BY <2>1 DEF Goto, Claims, TypeInv, TypeOK, WorkerType
  <2> QED BY <1>q, <2>1, <2>2 DEF CurrentOK, Left
<1>3. ASSUME NEW u \in Tasks, NEW m \in Attempts, ExecutorFinished(u, m)
      PROVE  CurrentOK(t, n)'
  <2>1. PICK T \in SUBSET Tasks : TerminalLocked(T, "failed")
    BY <1>3 DEF ExecutorFinished
  <2>2. UNCHANGED <<claimed, pc, rpc, raised, parts>>
    BY <1>3 DEF ExecutorFinished
  <2> QED BY <2>1, <2>2, TerminalCurrent DEF Terminal
<1>4. ASSUME NEW u \in Tasks, SelectReplacementFails(u)
      PROVE  CurrentOK(t, n)'
  <2>1. TerminalLocked({u}, "failed") /\ UNCHANGED <<claimed, pc, rpc, raised, parts>>
    BY <1>4 DEF SelectReplacementFails
  <2> QED BY <2>1, TerminalCurrent DEF Terminal
<1>5. CASE SubmissionFailed
  <2>1. PICK T : TerminalLocked(T, "failed")
    BY <1>5 DEF SubmissionFailed
  <2>2. UNCHANGED <<claimed, pc, rpc, raised, parts>>
    BY <1>5 DEF SubmissionFailed
  <2> QED BY <2>1, <2>2, TerminalCurrent DEF Terminal
<1>n. ASSUME NEW u \in Tasks, NEW k \in Attempts, NEW a, a # NoAccount,
             claimed[u][k] = NoAccount, state[u] \in {"pending", "migrating"},
             state' = [state EXCEPT ![u] = "active"],
             attempt' = [attempt EXCEPT ![u] = k],
             claimed' = [claimed EXCEPT ![u][k] = a],
             handle' = [handle EXCEPT ![u] = FALSE],
             UNCHANGED <<revoke, raised, rpc, pc, parts>>
      PROVE  CurrentOK(t, n)'
  <2>1. CASE t = u /\ n = k
    <3>1. pc[t][n] = "none" /\ ~revoke[t][n]
      BY <1>q, <1>n, <2>1 DEF ClaimOK, CurrentOK
    <3>2. \A p \in Parts : rpc[t][n][p] = "idle"
      BY <3>1 DEF RpcInv, RpcOK
    <3>3. handle'[t] = FALSE
      BY <1>n, <2>1 DEF TypeInv, TypeOK, TaskType
    <3> QED BY <1>n, <3>1, <3>2, <3>3 DEF CurrentOK, Left
  <2>2. CASE t = u /\ n # k
    <3>1. attempt'[t] = k /\ handle'[t] = FALSE /\ claimed'[t][n] = claimed[t][n]
      BY <1>n, <2>2 DEF TypeInv, TypeOK, TaskType, WorkerType
    <3> QED BY <1>q, <1>n, <2>2, <3>1 DEF CurrentOK
  <2>3. CASE t # u
    <3>1. UNCHANGED <<state[t], attempt[t], handle[t], claimed[t]>>
      BY <1>n, <2>3 DEF TypeInv, TypeOK, TaskType, WorkerType
    <3> QED BY <1>q, <1>n, <3>1 DEF CurrentOK
  <2> QED BY <2>1, <2>2, <2>3
<1>6. ASSUME NEW u \in Tasks, SelectReplacement(u)
      PROVE  CurrentOK(t, n)'
  <2>1. /\ state[u] = "migrating" /\ resv[u] # NoAccount
        /\ state' = [state EXCEPT ![u] = "active"]
        /\ attempt' = [attempt EXCEPT ![u] = attempt[u]]
        /\ claimed' = [claimed EXCEPT ![u][attempt[u]] = resv[u]]
        /\ handle' = [handle EXCEPT ![u] = FALSE]
        /\ UNCHANGED <<revoke, raised, rpc, pc, parts>>
    BY <1>6 DEF SelectReplacement, FirstReady, ReplacementReady, InstallActive
  <2>2. attempt[u] = 2 /\ claimed[u][2] = NoAccount
    BY <2>1 DEF ClaimInv, ClaimOK
  <2> QED BY <1>n, <1>q, <2>1, <2>2
<1>7. ASSUME NEW u \in Tasks, NEW a \in Accounts, SelectPending(u, a)
      PROVE  CurrentOK(t, n)'
  <2>1. /\ state[u] = "pending" /\ a # NoAccount
        /\ state' = [state EXCEPT ![u] = "active"]
        /\ attempt' = [attempt EXCEPT ![u] = 1]
        /\ claimed' = [claimed EXCEPT ![u][1] = a]
        /\ handle' = [handle EXCEPT ![u] = FALSE]
        /\ UNCHANGED <<revoke, raised, rpc, pc, parts>>
    BY <1>7 DEF SelectPending, FirstPending, InstallActive, Accounts, NoAccount
  <2>2. claimed[u][1] = NoAccount
    BY <2>1 DEF ClaimInv, ClaimOK
  <2> QED BY <1>n, <1>q, <2>1, <2>2
<1>8. ASSUME NEW u \in Tasks, NEW a \in Accounts, CommitMigration(a, u)
      PROVE  CurrentOK(t, n)'
  <2>1. /\ state[u] = "active"
        /\ state' = [state EXCEPT ![u] = "migrating"]
        /\ attempt' = [attempt EXCEPT ![u] = @ + 1]
        /\ parts' = [parts EXCEPT ![u] = {}]
        /\ handle' = [handle EXCEPT ![u] = FALSE]
        /\ revoke' = [revoke EXCEPT ![u][attempt[u]] = @ \/ handle[u]]
        /\ UNCHANGED <<claimed, raised, rpc, pc>>
    BY <1>8 DEF CommitMigration, Scores, Candidate
  <2>2. CASE t = u
    <3>1. /\ state'[t] = "migrating" /\ handle'[t] = FALSE
          /\ revoke'[t][n] => revoke[t][n] \/ (attempt[t] = n)
          /\ revoke[t][n] => revoke'[t][n]
      BY <2>1, <2>2 DEF TypeInv, TypeOK, TaskType, WorkerType
    <3> QED BY <1>q, <2>1, <2>2, <3>1 DEF CurrentOK, ClaimOK
  <2>3. CASE t # u
    <3>1. UNCHANGED <<state[t], attempt[t], handle[t], parts[t], revoke[t]>>
      BY <2>1, <2>3 DEF TypeInv, TypeOK, TaskType, WorkerType
    <3> QED BY <1>q, <2>1, <3>1 DEF CurrentOK
  <2> QED BY <2>2, <2>3
<1> QED BY <1>1, <1>2, <1>3, <1>4, <1>5, <1>6, <1>7, <1>8 DEF LoopStep

\* Every step keeps CurrentInv.
LEMMA NextCurrent ==
    ASSUME TypeInv, RpcInv, ClaimInv, LeaseInv, CurrentInv, LoopInv, [Next]_vars
    PROVE  CurrentInv'
<1> SUFFICES ASSUME NEW t \in Tasks, NEW n \in Attempts
             PROVE  CurrentOK(t, n)'
  BY DEF CurrentInv
<1>1. CASE \/ \E u \in Tasks : FloodAges(u)
           \/ \E a \in Accounts : PoolStep(a)
           \/ UNCHANGED vars
  <2>1. UNCHANGED <<state, attempt, handle, claimed, revoke, raised, rpc, pc, parts>>
    BY <1>1 DEF FloodAges, PoolStep, vars, taskVars, lifeVars, workerVars,
       progressVars
  <2>2. CurrentOK(t, n)
    BY DEF CurrentInv
  <2> QED BY <2>1, <2>2 DEF CurrentOK
<1> QED BY <1>1, PartCurrent, ExecutorCurrent, LoopCurrent DEF Next, Finished

\* executor_finished finds no current attempt that returned without an outcome:
\* only a raised exception makes the scheduler fail.
LEMMA NextSilent ==
    ASSUME TypeInv, CurrentInv, LoopInv, [Next]_vars, NoSilentReturn
    PROVE  NoSilentReturn'
<1> USE DEF NoSilentReturn, loopVars
<1>1. ASSUME NEW u \in Tasks, NEW m \in Attempts, ExecutorFinished(u, m)
      PROVE  NoSilentReturn'
  <2>1. pc[u][m] = "done"
    BY <1>1 DEF ExecutorFinished, LoopInv, LoopOK
  <2> QED BY <1>1, <2>1 DEF ExecutorFinished, CurrentInv, CurrentOK, Left
<1>2. CASE LoopStep /\ ~\E u \in Tasks, m \in Attempts : ExecutorFinished(u, m)
  <2>1. CASE \/ TakeExecutorCompletions \/ LoopBreak \/ SelectNothing
             \/ Submit \/ SubmissionFailed \/ NextDeadline \/ WaitForChange
    BY <2>1 DEF TakeExecutorCompletions, LoopBreak, SelectNothing, Submit,
       SubmissionFailed, NextDeadline, WaitForChange
  <2>2. ASSUME NEW u \in Tasks, \/ SelectReplacement(u) \/ SelectReplacementFails(u)
                                \/ \E a \in Accounts : CommitMigration(a, u)
                                \/ \E a \in Accounts : SelectPending(u, a)
        PROVE  silent' = silent
    BY <2>2 DEF SelectReplacement, SelectReplacementFails, CommitMigration,
       SelectPending, InstallActive
  <2> QED BY <1>2, <2>1, <2>2 DEF LoopStep
<1>3. ASSUME NEW u \in Tasks, NEW m \in Attempts, ExecutorStep(u, m)
      PROVE  silent' = silent
  BY <1>3 DEF ExecutorStep, BorrowRuntime, BindRevokeHandle, BindRefused,
     SetupRaises, RevokeLands, PrepareSegment, AttemptRevoked, ThumbnailFails,
     BytesPrepared, GrantFinalize, SendUploadedSegment, SendRaises,
     CompleteAttempt, FailAttempt, ActionRaises, AttemptQuiesced,
     EnqueueExecutorCompletion
<1>4. ASSUME NEW u \in Tasks, NEW m \in Attempts, NEW p \in Parts,
             PartStep(u, m, p) \/ LateRequestSucceeded(u, m, p)
      PROVE  silent' = silent
  BY <1>4 DEF PartStep, BeginRequest, BeginRequestRejected, RequestSucceeded,
     PremiumFlood, RequestFailed, RequestSettled, LateRequestSucceeded
<1>5. CASE \/ \E u \in Tasks : FloodAges(u)
           \/ \E a \in Accounts : PoolStep(a)
           \/ UNCHANGED vars
  BY <1>5 DEF FloodAges, PoolStep, vars
<1> QED BY <1>1, <1>2, <1>3, <1>4, <1>5 DEF Next, Finished

-----------------------------------------------------------------------------
(* What Telegram has confirmed, and the message that is made of it *)

\* A part counts as sent only when Telegram has confirmed it, a message is only
\* created when all parts count, and a granted attempt is the first to create.
ConfirmedOK(t, n) ==
    /\ \A p \in Parts : rpc[t][n][p] \in {"ok", "done"} => p \in confirmed[t][n]
    /\ n \in messages[t] => confirmed[t][n] = Parts
    /\ pc[t][n] = "sent" => n \in messages[t]
    /\ pc[t][n] = "granted" => messages[t] = {}

\* A completed segment's message is the one of its result.
CompletedOK(t) ==
    state[t] = "completed" =>
        result[t] = attempt[t] /\ messages[t] = {attempt[t]}

\* Both, for every segment and attempt.
ConfirmedInv ==
    /\ \A t \in Tasks, n \in Attempts : ConfirmedOK(t, n)
    /\ \A t \in Tasks : CompletedOK(t)

\* What an executor does to the messages.
ExecutorSends(u, m) ==
    /\ confirmed' = confirmed
    /\ pc'[u][m] = "sent" => m \in messages'[u]
    /\ pc'[u][m] = "granted" => state[u] = "active" /\ messages' = messages
    /\ \/ messages' = messages
       \/ /\ pc[u][m] = "granted"
          /\ messages' = [messages EXCEPT ![u] = @ \cup {m}]
    /\ \A t \in Tasks : state'[t] = "completed" =>
          \/ state[t] = "completed"
          \/ /\ t = u /\ pc[u][m] = "sent" /\ attempt[u] = m
             /\ result'[u] = m /\ messages' = messages

\* Executors treat the messages that way.
LEMMA ExecutorMessages ==
    ASSUME TypeInv, NEW u \in Tasks, NEW m \in Attempts, ExecutorStep(u, m)
    PROVE  ExecutorSends(u, m)
<1> USE DEF telegramVars, taskVars, lifeVars
<1>g. ASSUME NEW where, Goto(u, m, where) PROVE pc'[u][m] = where
  BY <1>g DEF Goto, TypeInv, TypeOK, WorkerType
<1>1. CASE \/ BorrowRuntime(u, m) \/ BindRevokeHandle(u, m)
           \/ BindRefused(u, m) \/ SetupRaises(u, m) \/ RevokeLands(u, m)
           \/ PrepareSegment(u, m) \/ AttemptRevoked(u, m)
           \/ ThumbnailFails(u, m)
  <2>1. UNCHANGED <<confirmed, messages, state>>
    BY <1>1 DEF BorrowRuntime, BindRevokeHandle, BindRefused, SetupRaises,
       RevokeLands, PrepareSegment, AttemptRevoked, ThumbnailFails
  <2>2. pc'[u][m] \notin {"sent", "granted"}
    BY <1>1, <1>g DEF BorrowRuntime, BindRevokeHandle, BindRefused, SetupRaises,
       RevokeLands, PrepareSegment, AttemptRevoked, ThumbnailFails, Goto
  <2> QED BY <2>1, <2>2 DEF ExecutorSends
<1>2. CASE \/ BytesPrepared(u, m) \/ ActionRaises(u, m) \/ AttemptQuiesced(u, m)
           \/ EnqueueExecutorCompletion(u, m)
  <2>1. UNCHANGED <<confirmed, messages, state>>
    BY <1>2 DEF BytesPrepared, ActionRaises, AttemptQuiesced,
       EnqueueExecutorCompletion
  <2>2. pc'[u][m] \notin {"sent", "granted"}
    BY <1>2, <1>g DEF BytesPrepared, ActionRaises, AttemptQuiesced,
       EnqueueExecutorCompletion
  <2> QED BY <2>1, <2>2 DEF ExecutorSends
<1>3. CASE GrantFinalize(u, m)
  <2>1. UNCHANGED <<confirmed, messages>>
    BY <1>3 DEF GrantFinalize
  <2>2. CASE ValidCurrent(u, m, {"active"})
    <3>1. /\ state' = [state EXCEPT ![u] = "finalizing"] /\ pc'[u][m] = "granted"
          /\ state[u] = "active"
      BY <1>3, <1>g, <2>2 DEF GrantFinalize, ValidCurrent
    <3> QED BY <2>1, <3>1 DEF ExecutorSends, TypeInv, TypeOK, TaskType
  <2>3. CASE ~ValidCurrent(u, m, {"active"})
    <3>1. state' = state /\ pc'[u][m] = "finally"
      BY <1>3, <1>g, <2>3 DEF GrantFinalize
    <3> QED BY <2>1, <3>1 DEF ExecutorSends
  <2> QED BY <2>2, <2>3
<1>4. CASE SendUploadedSegment(u, m)
  <2>1. /\ UNCHANGED <<confirmed, state>> /\ pc[u][m] = "granted"
        /\ messages' = [messages EXCEPT ![u] = @ \cup {m}]
        /\ pc'[u][m] = "sent"
    BY <1>4, <1>g DEF SendUploadedSegment
  <2> QED BY <2>1 DEF ExecutorSends, TypeInv, TypeOK, TelegramType
<1>5. CASE SendRaises(u, m)
  <2>1. /\ UNCHANGED <<confirmed, state>> /\ pc[u][m] = "granted"
        /\ pc'[u][m] = "failing"
        /\ \/ messages' = messages
           \/ messages' = [messages EXCEPT ![u] = @ \cup {m}]
    BY <1>5, <1>g DEF SendRaises
  <2> QED BY <2>1 DEF ExecutorSends
<1>6. CASE CompleteAttempt(u, m)
  <2>1. UNCHANGED <<confirmed, messages>> /\ pc[u][m] = "sent"
    BY <1>6 DEF CompleteAttempt
  <2>2. CASE ValidCurrent(u, m, {"finalizing"})
    <3>1. /\ result' = [result EXCEPT ![u] = m] /\ TerminalLocked({u}, "completed")
          /\ pc'[u][m] = "finally" /\ attempt[u] = m
      BY <1>6, <1>g, <2>2 DEF CompleteAttempt, ValidCurrent
    <3>2. \A t \in Tasks : t # u => state'[t] = state[t]
      BY <3>1 DEF TerminalLocked, NotYetTerminal
    <3>3. result'[u] = m
      BY <3>1 DEF TypeInv, TypeOK, TaskType
    <3> QED BY <2>1, <3>1, <3>2, <3>3 DEF ExecutorSends
  <2>3. CASE ~ValidCurrent(u, m, {"finalizing"})
    <3>1. state' = state /\ pc'[u][m] = "failing"
      BY <1>6, <1>g, <2>3 DEF CompleteAttempt
    <3> QED BY <2>1, <3>1 DEF ExecutorSends
  <2> QED BY <2>2, <2>3
<1>7. CASE FailAttempt(u, m)
  <2>1. UNCHANGED <<confirmed, messages>> /\ pc'[u][m] = "finally"
    BY <1>7, <1>g DEF FailAttempt
  <2>2. \A t \in Tasks : state'[t] = "completed" => state[t] = "completed"
    BY <1>7 DEF FailAttempt, TerminalLocked
  <2> QED BY <2>1, <2>2 DEF ExecutorSends
<1> QED BY <1>1, <1>2, <1>3, <1>4, <1>5, <1>6, <1>7 DEF ExecutorStep

\* Executors keep ConfirmedInv: the message is created when every part is sent.
LEMMA ExecutorConfirmed ==
    ASSUME TypeInv, RpcInv, GrantInv, ConfirmedInv,
           NEW u \in Tasks, NEW m \in Attempts, ExecutorStep(u, m),
           NEW t \in Tasks
    PROVE  CompletedOK(t)' /\ \A n \in Attempts : ConfirmedOK(t, n)'
<1>1. ExecutorSends(u, m) /\ LifeStep(t)
  BY ExecutorMessages, ExecutorLife
<1>2. PICK where \in WorkerPC : Goto(u, m, where)
  BY ExecutorMoves
<1>3. rpc' = rpc
  BY ExecutorMoves
<1>4. \A n \in Attempts :
         pc'[t][n] = IF t = u /\ n = m THEN where ELSE pc[t][n]
  BY <1>2 DEF Goto, TypeInv, TypeOK, WorkerType
<1>5. /\ CompletedOK(t) /\ messages[t] \subseteq Attempts
      /\ confirmed \in [Tasks -> [Attempts -> SUBSET Parts]]
      /\ messages \in [Tasks -> SUBSET Attempts]
  BY DEF ConfirmedInv, TypeInv, TypeOK, TelegramType
<1>6. /\ messages' # messages => confirmed[u][m] = Parts /\ messages[u] = {}
      /\ messages[t] \subseteq messages'[t]
      /\ \A n \in messages'[t] :
            n \in messages[t] \/ (t = u /\ n = m /\ messages' # messages)
  <2>1. CASE messages' = messages
    BY <2>1
  <2>2. CASE /\ pc[u][m] = "granted"
             /\ messages' = [messages EXCEPT ![u] = @ \cup {m}]
    <3>1. confirmed[u][m] = Parts /\ messages[u] = {}
      <4>1. ConfirmedOK(u, m) /\ RpcOK(u, m)
        BY DEF ConfirmedInv, RpcInv
      <4>2. confirmed[u][m] \subseteq Parts
        BY <1>5
      <4> QED BY <2>2, <4>1, <4>2 DEF RpcOK, ConfirmedOK
    <3>2. messages'[t] = IF t = u THEN messages[u] \cup {m} ELSE messages[t]
      BY <1>5, <2>2
    <3>3. m \notin messages[u] /\ (t = u => messages' # messages)
      BY <3>1, <3>2
    <3> QED BY <3>1, <3>2, <3>3
  <2> QED BY <1>1, <2>1, <2>2 DEF ExecutorSends
<1>7. ASSUME NEW n \in Attempts PROVE ConfirmedOK(t, n)'
  <2>1. ConfirmedOK(t, n)
    BY DEF ConfirmedInv
  <2>2. /\ confirmed' = confirmed
        /\ n \in messages'[t] => confirmed[t][n] = Parts
    BY <1>1, <1>6, <2>1 DEF ExecutorSends, ConfirmedOK
  <2>3. pc'[t][n] = "sent" => n \in messages'[t]
    BY <1>1, <1>4, <1>6, <2>1 DEF ExecutorSends, ConfirmedOK
  <2>4. ASSUME pc'[t][n] = "granted" PROVE messages'[t] = {}
    <3>1. CASE t = u /\ n = m
      <4>1. state[u] = "active" /\ messages' = messages
        BY <1>1, <2>4, <3>1 DEF ExecutorSends
      <4> QED BY <1>5, <3>1, <4>1 DEF GrantInv, Sending, Terminal
    <3>2. CASE ~(t = u /\ n = m)
      <4>1. pc[t][n] = "granted" /\ messages[t] = {}
        BY <1>4, <2>1, <2>4, <3>2 DEF ConfirmedOK
      <4>2. t = u => pc[u][m] # "granted"
        BY <3>2, <4>1 DEF GrantInv, Sending
      <4> QED BY <1>1, <1>5, <4>1, <4>2 DEF ExecutorSends
    <3> QED BY <3>1, <3>2
  <2> QED BY <1>3, <2>1, <2>2, <2>3, <2>4 DEF ConfirmedOK
<1>8. ASSUME state'[t] = "completed"
      PROVE  result'[t] = attempt'[t] /\ messages'[t] = {attempt'[t]}
  <2>1. CASE state[t] = "completed"
    <3>1. UNCHANGED <<result[t], attempt[t]>>
      BY <1>1, <1>8, <2>1 DEF LifeStep, Terminal
    <3> QED BY <1>5, <1>6, <2>1, <3>1 DEF CompletedOK
  <2>2. CASE state[t] # "completed"
    <3>1. /\ t = u /\ pc[u][m] = "sent" /\ attempt[u] = m
          /\ result'[u] = m /\ messages' = messages
      BY <1>1, <1>8, <2>2 DEF ExecutorSends
    <3>2. m \in messages[u] /\ attempt'[t] = m
      BY <1>1, <1>8, <2>2, <3>1 DEF ConfirmedInv, ConfirmedOK, LifeStep
    <3>3. messages[u] = {m}
      BY <1>5, <3>1, <3>2 DEF GrantInv, Sending
    <3> QED BY <3>1, <3>2, <3>3
  <2> QED BY <2>1, <2>2
<1> QED BY <1>7, <1>8 DEF CompletedOK

\* Part sends keep ConfirmedInv: Telegram's answer is what makes a part sent.
LEMMA PartConfirmed ==
    ASSUME TypeInv, ConfirmedInv,
           NEW u \in Tasks, NEW m \in Attempts, NEW q \in Parts,
           PartStep(u, m, q) \/ LateRequestSucceeded(u, m, q),
           NEW t \in Tasks
    PROVE  CompletedOK(t)' /\ \A n \in Attempts : ConfirmedOK(t, n)'
<1> USE DEF lifeVars, taskVars, workerVars, progressVars, telegramVars
<1>1. UNCHANGED <<state, attempt, result, messages>>
  BY DEF PartStep, BeginRequest, BeginRequestRejected, RequestSucceeded,
     PremiumFlood, RequestFailed, RequestSettled, LateRequestSucceeded
<1>2. \/ confirmed' = confirmed
      \/ confirmed' = [confirmed EXCEPT ![u][m] = @ \cup {q}]
  BY DEF PartStep, BeginRequest, BeginRequestRejected, RequestSucceeded,
     PremiumFlood, RequestFailed, RequestSettled, LateRequestSucceeded
<1>3. /\ confirmed[t] \in [Attempts -> SUBSET Parts]
      /\ \A n \in Attempts : confirmed[t][n] \subseteq confirmed'[t][n]
      /\ \A n \in Attempts : confirmed'[t][n] \subseteq Parts
  <2>1. confirmed \in [Tasks -> [Attempts -> SUBSET Parts]]
    BY DEF TypeInv, TypeOK, TelegramType
  <2>2. CASE confirmed' = confirmed
    BY <2>1, <2>2
  <2>3. CASE confirmed' = [confirmed EXCEPT ![u][m] = @ \cup {q}]
    <3>1. \A n \in Attempts :
             confirmed'[t][n] = IF t = u /\ n = m THEN confirmed[u][m] \cup {q}
                                ELSE confirmed[t][n]
      BY <2>1, <2>3
    <3> QED BY <2>1, <3>1
  <2> QED BY <1>2, <2>2, <2>3
<1>4. ASSUME NEW n \in Attempts, NEW p \in Parts, rpc'[t][n][p] \in {"ok", "done"}
      PROVE  rpc[t][n][p] \in {"ok", "done"} \/ p \in confirmed'[t][n]
  <2>1. CASE RequestSucceeded(u, m, q)
    <3>1. /\ rpc' = [rpc EXCEPT ![u][m][q] = "ok"]
          /\ confirmed' = [confirmed EXCEPT ![u][m] = @ \cup {q}]
      BY <2>1 DEF RequestSucceeded
    <3> QED BY <1>4, <3>1 DEF TypeInv, TypeOK, WorkerType, TelegramType
  <2>2. CASE RequestSettled(u, m, q)
    <3>1. /\ rpc' = [rpc EXCEPT ![u][m][q] = AfterSettle(rpc[u][m][q])]
          /\ AfterSettle(rpc[u][m][q]) \in {"ok", "done"} => rpc[u][m][q] = "ok"
      BY <2>2 DEF RequestSettled, AfterSettle
    <3> QED BY <1>4, <3>1 DEF TypeInv, TypeOK, WorkerType
  <2>3. CASE ~RequestSucceeded(u, m, q) /\ ~RequestSettled(u, m, q)
    <3>1. \/ rpc' = rpc
          \/ \E end \in {"sent", "retry", "dead"} :
                rpc' = [rpc EXCEPT ![u][m][q] = end]
      BY <2>3 DEF PartStep, BeginRequest, BeginRequestRejected,
         PremiumFlood, RequestFailed, LateRequestSucceeded
    <3>2. CASE rpc' = rpc
      BY <1>4, <3>2
    <3>3. ASSUME NEW end \in {"sent", "retry", "dead"},
                 rpc' = [rpc EXCEPT ![u][m][q] = end]
          PROVE  rpc[t][n][p] \in {"ok", "done"}
      <4>1. rpc'[t][n][p] = IF t = u /\ n = m /\ p = q THEN end ELSE rpc[t][n][p]
        BY <3>3 DEF TypeInv, TypeOK, WorkerType
      <4> QED BY <1>4, <3>3, <4>1
    <3> QED BY <3>1, <3>2, <3>3
  <2> QED BY <2>1, <2>2, <2>3
<1>5. \A n \in Attempts : pc'[t][n] = pc[t][n] \/ pc'[t][n] = "failing"
  BY DEF PartStep, BeginRequest, BeginRequestRejected, RequestSucceeded,
     PremiumFlood, RequestFailed, RequestSettled, LateRequestSucceeded,
     TypeInv, TypeOK, WorkerType
<1>6. CompletedOK(t)'
  BY <1>1 DEF ConfirmedInv, CompletedOK
<1>7. ASSUME NEW n \in Attempts PROVE ConfirmedOK(t, n)'
  <2>1. ConfirmedOK(t, n)
    BY DEF ConfirmedInv
  <2>2. \A p \in Parts : rpc'[t][n][p] \in {"ok", "done"} => p \in confirmed'[t][n]
    BY <1>3, <1>4, <2>1 DEF ConfirmedOK
  <2>3. n \in messages[t] => confirmed'[t][n] = Parts
    BY <1>3, <2>1 DEF ConfirmedOK
  <2>4. pc'[t][n] \in {"sent", "granted"} => pc'[t][n] = pc[t][n]
    BY <1>5
  <2> QED BY <1>1, <2>1, <2>2, <2>3, <2>4 DEF ConfirmedOK
<1> QED BY <1>6, <1>7

\* The loop creates no message and completes nothing.
LEMMA LoopMessages ==
    ASSUME TypeInv, LoopStep
    PROVE  /\ UNCHANGED <<confirmed, messages>>
           /\ \A t \in Tasks : state'[t] = "completed" => state[t] = "completed"
<1> USE DEF lifeVars, taskVars, telegramVars, TypeInv, TypeOK, TaskType
<1>1. CASE \/ TakeExecutorCompletions \/ LoopBreak \/ SelectNothing
           \/ Submit \/ NextDeadline \/ WaitForChange
  BY <1>1 DEF TakeExecutorCompletions, LoopBreak, SelectNothing, Submit,
     NextDeadline, WaitForChange
<1>2. ASSUME NEW u \in Tasks, NEW m \in Attempts, ExecutorFinished(u, m)
      PROVE  /\ UNCHANGED <<confirmed, messages>>
             /\ \E T : TerminalLocked(T, "failed")
  BY <1>2 DEF ExecutorFinished
<1>3. ASSUME NEW u \in Tasks, SelectReplacementFails(u)
      PROVE  UNCHANGED <<confirmed, messages>> /\ \E T : TerminalLocked(T, "failed")
  BY <1>3 DEF SelectReplacementFails
<1>4. ASSUME SubmissionFailed
      PROVE  UNCHANGED <<confirmed, messages>> /\ \E T : TerminalLocked(T, "failed")
  BY <1>4 DEF SubmissionFailed
<1>5. ASSUME NEW T, TerminalLocked(T, "failed")
      PROVE  \A t \in Tasks : state'[t] = "completed" => state[t] = "completed"
  BY <1>5 DEF TerminalLocked
<1>6. ASSUME NEW u \in Tasks,
             \/ SelectReplacement(u)
             \/ \E a \in Accounts : CommitMigration(a, u) \/ SelectPending(u, a)
      PROVE  /\ UNCHANGED <<confirmed, messages>>
             /\ \E s \in {"active", "migrating"} : state' = [state EXCEPT ![u] = s]
  BY <1>6 DEF SelectReplacement, CommitMigration, SelectPending, InstallActive
<1> QED BY <1>1, <1>2, <1>3, <1>4, <1>5, <1>6 DEF LoopStep

\* Every step keeps ConfirmedInv.
LEMMA NextConfirmed ==
    ASSUME TypeInv, RpcInv, GrantInv, ConfirmedInv, LoopInv, [Next]_vars
    PROVE  ConfirmedInv'
<1> SUFFICES ASSUME NEW t \in Tasks
             PROVE  CompletedOK(t)' /\ \A n \in Attempts : ConfirmedOK(t, n)'
  BY DEF ConfirmedInv
<1>1. CompletedOK(t) /\ \A n \in Attempts : ConfirmedOK(t, n)
  BY DEF ConfirmedInv
<1>2. CASE \/ \E u \in Tasks : FloodAges(u)
           \/ \E a \in Accounts : PoolStep(a)
           \/ UNCHANGED vars
  <2>1. UNCHANGED <<state, attempt, result, confirmed, messages, rpc, pc>>
    BY <1>2 DEF FloodAges, PoolStep, vars, taskVars, lifeVars, workerVars,
       telegramVars
  <2> QED BY <1>1, <2>1 DEF ConfirmedOK, CompletedOK
<1>3. CASE LoopStep
  <2>1. /\ UNCHANGED <<confirmed, messages, rpc>>
        /\ state'[t] = "completed" => state[t] = "completed"
    BY <1>3, LoopMessages, LoopMoves
  <2>2. LifeStep(t)
    BY <1>3, LoopLife
  <2>3. \A n \in Attempts : pc'[t][n] = pc[t][n] \/ pc'[t][n] = "queued"
    <3>1. CASE Submit
      BY <3>1 DEF Submit, Goto, TypeInv, TypeOK, WorkerType
    <3>2. CASE pc' = pc
      BY <3>2
    <3> QED BY <1>3, <3>1, <3>2, LoopMoves
  <2>4. CompletedOK(t)'
    BY <1>1, <2>1, <2>2 DEF CompletedOK, LifeStep, Terminal
  <2> QED BY <1>1, <2>1, <2>3, <2>4 DEF ConfirmedOK
<1> QED BY <1>2, <1>3, PartConfirmed, ExecutorConfirmed DEF Next, Finished

-----------------------------------------------------------------------------
(* The books of the account pool *)

\* The requests of an account are the tokens of the attempts that claimed it.
RequestInv ==
    \A a \in Accounts, t \in Tasks, n \in Attempts, p \in Parts :
        <<t, n, p>> \in requests[a] <=> claimed[t][n] = a /\ p \in tokens[t][n]

\* The migrating segments and the reserved accounts are matched, and a reserved
\* account carries no byte upload.
ReservationInv ==
    /\ \A a \in Accounts : reserved[a] # NoTask => resv[reserved[a]] = a
    /\ \A t \in Tasks : resv[t] # NoAccount => reserved[resv[t]] = t
    /\ \A t \in Tasks : resv[t] # NoAccount <=> state[t] = "migrating"
    /\ \A a \in Accounts : reserved[a] # NoTask => jobs[a] = {}

\* The loop only claims an attempt nobody had claimed.
LEMMA LoopClaimed ==
    ASSUME TypeInv, ClaimInv, LoopStep, NEW t \in Tasks, NEW n \in Attempts
    PROVE  claimed'[t][n] = claimed[t][n] \/ claimed[t][n] = NoAccount
<1> USE DEF workerVars, TypeInv, TypeOK, WorkerType, TaskType
<1>1. CASE \/ TakeExecutorCompletions \/ LoopBreak \/ SelectNothing
           \/ Submit \/ SubmissionFailed \/ NextDeadline \/ WaitForChange
  BY <1>1 DEF TakeExecutorCompletions, LoopBreak, SelectNothing, Submit,
     SubmissionFailed, NextDeadline, WaitForChange
<1>2. ASSUME NEW u \in Tasks, \/ \E m \in Attempts : ExecutorFinished(u, m)
                              \/ SelectReplacementFails(u)
                              \/ \E a \in Accounts : CommitMigration(a, u)
      PROVE  claimed' = claimed
  BY <1>2 DEF ExecutorFinished, SelectReplacementFails, CommitMigration
<1>3. ASSUME NEW u \in Tasks, NEW k \in Attempts, NEW a, claimed[u][k] = NoAccount,
             claimed' = [claimed EXCEPT ![u][k] = a]
      PROVE  claimed'[t][n] = claimed[t][n] \/ claimed[t][n] = NoAccount
  BY <1>3
<1>4. ASSUME NEW u \in Tasks, SelectReplacement(u)
      PROVE  claimed'[t][n] = claimed[t][n] \/ claimed[t][n] = NoAccount
  <2>1. /\ state[u] = "migrating"
        /\ claimed' = [claimed EXCEPT ![u][attempt[u]] = resv[u]]
    BY <1>4 DEF SelectReplacement, FirstReady, ReplacementReady, InstallActive
  <2>2. attempt[u] = 2 /\ claimed[u][2] = NoAccount /\ 2 \in Attempts
    BY <2>1 DEF ClaimInv, ClaimOK, Attempts
  <2> QED BY <1>3, <2>1, <2>2
<1>5. ASSUME NEW u \in Tasks, NEW a \in Accounts, SelectPending(u, a)
      PROVE  claimed'[t][n] = claimed[t][n] \/ claimed[t][n] = NoAccount
  <2>1. /\ state[u] = "pending"
        /\ claimed' = [claimed EXCEPT ![u][1] = a]
    BY <1>5 DEF SelectPending, FirstPending, InstallActive
  <2>2. claimed[u][1] = NoAccount /\ 1 \in Attempts
    BY <2>1 DEF ClaimInv, ClaimOK, Attempts
  <2> QED BY <1>3, <2>1, <2>2
<1> QED BY <1>1, <1>2, <1>4, <1>5 DEF LoopStep

\* Every step keeps RequestInv: the token and the request come and go together.
LEMMA NextRequests ==
    ASSUME TypeInv, RpcInv, ClaimInv, RequestInv, [Next]_vars
    PROVE  RequestInv'
<1> SUFFICES ASSUME NEW a \in Accounts, NEW t \in Tasks, NEW n \in Attempts,
                    NEW p \in Parts
             PROVE  <<t, n, p>> \in requests'[a] <=>
                       claimed'[t][n] = a /\ p \in tokens'[t][n]
  BY DEF RequestInv
<1> USE DEF taskVars, workerVars, progressVars, poolVars
<1>q. <<t, n, p>> \in requests[a] <=> claimed[t][n] = a /\ p \in tokens[t][n]
  BY DEF RequestInv
<1>t. /\ requests \in [Accounts -> SUBSET (Tasks \X Attempts \X Parts)]
      /\ tokens \in [Tasks -> [Attempts -> SUBSET Parts]]
  BY DEF TypeInv, TypeOK, PoolType, TaskType
<1>1. ASSUME NEW u \in Tasks, NEW m \in Attempts, NEW q \in Parts,
             BeginRequest(u, m, q)
      PROVE  <<t, n, p>> \in requests'[a] <=> claimed'[t][n] = a /\ p \in tokens'[t][n]
  <2>1. /\ claimed' = claimed
        /\ tokens' = [tokens EXCEPT ![u][m] = @ \cup {q}]
        /\ requests' = [requests EXCEPT ![claimed[u][m]] = @ \cup {<<u, m, q>>}]
    BY <1>1 DEF BeginRequest
  <2>2. p \in tokens'[t][n] <=> p \in tokens[t][n] \/ (t = u /\ n = m /\ p = q)
    BY <1>t, <2>1
  <2>3. <<t, n, p>> \in requests'[a] <=>
           \/ <<t, n, p>> \in requests[a]
           \/ t = u /\ n = m /\ p = q /\ a = claimed[u][m]
    BY <1>t, <2>1
  <2> QED BY <1>q, <2>1, <2>2, <2>3
<1>2. ASSUME NEW u \in Tasks, NEW m \in Attempts, NEW q \in Parts,
             RequestSettled(u, m, q)
      PROVE  <<t, n, p>> \in requests'[a] <=> claimed'[t][n] = a /\ p \in tokens'[t][n]
  <2>1. /\ claimed' = claimed
        /\ tokens' = [tokens EXCEPT ![u][m] = @ \ {q}]
        /\ requests' = [requests EXCEPT ![claimed[u][m]] = @ \ {<<u, m, q>>}]
    BY <1>2 DEF RequestSettled
  <2>2. p \in tokens'[t][n] <=> p \in tokens[t][n] /\ ~(t = u /\ n = m /\ p = q)
    BY <1>t, <2>1
  <2>3. <<t, n, p>> \in requests'[a] <=>
           /\ <<t, n, p>> \in requests[a]
           /\ ~(t = u /\ n = m /\ p = q /\ a = claimed[u][m])
    BY <1>t, <2>1
  <2> QED BY <1>q, <2>1, <2>2, <2>3
<1>3. ASSUME NEW u \in Tasks, NEW m \in Attempts, NEW q \in Parts,
             PartStep(u, m, q) \/ LateRequestSucceeded(u, m, q),
             ~BeginRequest(u, m, q), ~RequestSettled(u, m, q)
      PROVE  UNCHANGED <<requests, tokens, claimed>>
  BY <1>3 DEF PartStep, BeginRequestRejected, RequestSucceeded, PremiumFlood,
     RequestFailed, LateRequestSucceeded
<1>4. CASE LoopStep
  <2>1. UNCHANGED <<tokens, requests>>
    BY <1>4, LoopMoves
  <2>2. claimed'[t][n] = claimed[t][n] \/ claimed[t][n] = NoAccount
    BY <1>4, LoopClaimed
  <2>3. claimed[t][n] = NoAccount => tokens[t][n] = {} /\ a # NoAccount
    <3>1. RpcOK(t, n) /\ ClaimOK(t)
      BY DEF RpcInv, ClaimInv
    <3> QED BY <3>1 DEF ClaimOK, RpcOK, InFlight, Accounts, NoAccount
  <2> QED BY <1>q, <2>1, <2>2, <2>3
<1>5. CASE \/ \E u \in Tasks : FloodAges(u)
           \/ \E b \in Accounts : PoolStep(b)
           \/ UNCHANGED vars
  <2>1. UNCHANGED <<requests, tokens, claimed>>
    <3>1. ASSUME NEW b \in Accounts, PoolStep(b) PROVE requests' = requests
      BY <3>1 DEF PoolStep, ExpireSnapshot, OtherAcquire, OtherAcquireExact,
         OtherClose, StopRuntime
    <3>2. ASSUME NEW b \in Accounts, PoolStep(b) PROVE UNCHANGED <<tokens, claimed>>
      BY <3>2 DEF PoolStep
    <3>3. ASSUME NEW u \in Tasks, FloodAges(u)
          PROVE UNCHANGED <<requests, tokens, claimed>>
      BY <3>3 DEF FloodAges
    <3>4. CASE UNCHANGED vars
      BY <3>4 DEF vars
    <3> QED BY <1>5, <3>1, <3>2, <3>3, <3>4
  <2> QED BY <1>q, <2>1
<1>6. ASSUME NEW u \in Tasks, NEW m \in Attempts, ExecutorStep(u, m)
      PROVE  UNCHANGED <<requests, tokens, claimed>>
  BY <1>6, ExecutorMoves
<1> QED BY <1>q, <1>1, <1>2, <1>3, <1>4, <1>5, <1>6 DEF Next, Finished

-----------------------------------------------------------------------------
(* All a step can do to the slots, jobs, leases and reservations *)

\* No segment starts or stops migrating, and no reservation is touched.
ReservationsKept ==
    /\ UNCHANGED <<resv, reserved>>
    /\ \A t \in Tasks : state'[t] = "migrating" <=> state[t] = "migrating"

\* A step that makes no reservation and takes no new byte upload.
PoolMove ==
    \/ UNCHANGED <<slots, jobs, lease>> /\ ReservationsKept
    \/ /\ \E T \in SUBSET Tasks : ReleaseLeases(T)
       /\ ReservationsKept \/ \E U : \E o \in Terminal : TerminalLocked(U, o)
    \/ \E t \in Tasks : SelectReplacement(t)
    \/ \E t \in Tasks, a \in Accounts : SelectPending(t, a) \/ CommitMigration(a, t)
    \/ \E a \in Accounts : PoolStep(a)

\* Executors make only such steps: their endings release and close.
LEMMA ExecutorPool ==
    ASSUME TypeInv, NEW u \in Tasks, NEW m \in Attempts, ExecutorStep(u, m)
    PROVE  PoolMove
<1> USE DEF poolVars, lifeVars, leaseVars, taskVars
<1>m. ASSUME NEW C, MaybeCloseOwned(C) PROVE \E T \in SUBSET Tasks : ReleaseLeases(T)
  BY <1>m DEF MaybeCloseOwned
<1>1. CASE \/ BorrowRuntime(u, m) \/ BindRevokeHandle(u, m)
           \/ SetupRaises(u, m) \/ RevokeLands(u, m)
           \/ PrepareSegment(u, m) \/ AttemptRevoked(u, m)
           \/ ThumbnailFails(u, m) \/ SendUploadedSegment(u, m)
           \/ SendRaises(u, m) \/ ActionRaises(u, m)
           \/ EnqueueExecutorCompletion(u, m)
  <2>1. UNCHANGED <<slots, jobs, lease, resv, reserved, state>>
    BY <1>1 DEF BorrowRuntime, BindRevokeHandle, SetupRaises, RevokeLands,
       PrepareSegment, AttemptRevoked, ThumbnailFails, SendUploadedSegment,
       SendRaises, ActionRaises, EnqueueExecutorCompletion
  <2> QED BY <2>1 DEF PoolMove, ReservationsKept
<1>2. CASE BindRefused(u, m) \/ AttemptQuiesced(u, m)
  <2>1. UNCHANGED <<resv, reserved, state>> /\ MaybeCloseOwned({<<u, m>>})
    BY <1>2 DEF BindRefused, AttemptQuiesced
  <2> QED BY <1>m, <2>1 DEF PoolMove, ReservationsKept
<1>3. CASE BytesPrepared(u, m)
  <2>1. UNCHANGED <<resv, reserved, state>>
    BY <1>3 DEF BytesPrepared
  <2>2. ReleaseLeases({u}) \/ UNCHANGED <<slots, jobs, lease>>
    BY <1>3 DEF BytesPrepared
  <2> QED BY <2>1, <2>2 DEF PoolMove, ReservationsKept
<1>4. CASE GrantFinalize(u, m)
  <2>1. /\ UNCHANGED <<slots, jobs, lease, resv, reserved>>
        /\ \/ state' = state
           \/ state[u] = "active" /\ state' = [state EXCEPT ![u] = "finalizing"]
    BY <1>4 DEF GrantFinalize, ValidCurrent
  <2> QED BY <2>1 DEF PoolMove, ReservationsKept, TypeInv, TypeOK, TaskType
<1>5. CASE CompleteAttempt(u, m) \/ FailAttempt(u, m)
  <2>1. MaybeCloseOwned(IF state'[u] # state[u] THEN OwnedBy({u}) ELSE {})
    BY <1>5 DEF CompleteAttempt, FailAttempt
  <2>2. \/ UNCHANGED <<resv, reserved, state>>
        \/ TerminalLocked({u}, "completed") \/ TerminalLocked({u}, "failed")
    BY <1>5 DEF CompleteAttempt, FailAttempt
  <2>3. "completed" \in Terminal /\ "failed" \in Terminal
    BY DEF Terminal
  <2>4. \E T \in SUBSET Tasks : ReleaseLeases(T)
    BY <1>m, <2>1
  <2> QED BY <2>2, <2>3, <2>4 DEF PoolMove, ReservationsKept
<1> QED BY <1>1, <1>2, <1>3, <1>4, <1>5 DEF ExecutorStep

\* So do the loop's steps that claim and migrate nothing.
LEMMA LoopPool ==
    ASSUME TypeInv, LoopStep
    PROVE  PoolMove
<1> USE DEF poolVars, lifeVars, leaseVars, taskVars
<1>m. ASSUME NEW C, MaybeCloseOwned(C) PROVE \E T \in SUBSET Tasks : ReleaseLeases(T)
  BY <1>m DEF MaybeCloseOwned
<1>1. CASE \/ TakeExecutorCompletions \/ LoopBreak \/ SelectNothing
           \/ Submit \/ NextDeadline \/ WaitForChange
  <2>1. UNCHANGED <<slots, jobs, lease, resv, reserved, state>>
    BY <1>1 DEF TakeExecutorCompletions, LoopBreak, SelectNothing, Submit,
       NextDeadline, WaitForChange
  <2> QED BY <2>1 DEF PoolMove, ReservationsKept
<1>2. ASSUME NEW C, NEW U, MaybeCloseOwned(C), TerminalLocked(U, "failed")
      PROVE  PoolMove
  <2>1. \E T \in SUBSET Tasks : ReleaseLeases(T)
    BY <1>m, <1>2
  <2>2. "failed" \in Terminal
    BY DEF Terminal
  <2> QED BY <1>2, <2>1, <2>2 DEF PoolMove
<1>3. ASSUME NEW u \in Tasks, NEW n \in Attempts, ExecutorFinished(u, n)
      PROVE  PoolMove
  BY <1>2, <1>3 DEF ExecutorFinished
<1>4. ASSUME NEW u \in Tasks, SelectReplacementFails(u)
      PROVE  PoolMove
  BY <1>2, <1>4 DEF SelectReplacementFails
<1>5. CASE SubmissionFailed
  BY <1>2, <1>5 DEF SubmissionFailed
<1> QED BY <1>1, <1>3, <1>4, <1>5 DEF LoopStep, PoolMove

\* Every step is a PoolMove.
LEMMA NextPool ==
    ASSUME TypeInv, [Next]_vars
    PROVE  PoolMove
<1> USE DEF poolVars, lifeVars, leaseVars, taskVars
<1>1. ASSUME NEW u \in Tasks, NEW m \in Attempts, NEW p \in Parts,
             PartStep(u, m, p) \/ LateRequestSucceeded(u, m, p),
             ~RequestSettled(u, m, p)
      PROVE  UNCHANGED <<slots, jobs, lease, resv, reserved, state>>
  BY <1>1 DEF PartStep, BeginRequest, BeginRequestRejected, RequestSucceeded,
     PremiumFlood, RequestFailed, LateRequestSucceeded
<1>2. ASSUME NEW u \in Tasks, NEW m \in Attempts, NEW p \in Parts,
             RequestSettled(u, m, p)
      PROVE  /\ UNCHANGED <<resv, reserved, state>>
             /\ \E T \in SUBSET Tasks : ReleaseLeases(T)
  BY <1>2 DEF RequestSettled, MaybeCloseOwned
<1>3. CASE (\E u \in Tasks : FloodAges(u)) \/ UNCHANGED vars
  BY <1>3 DEF FloodAges, vars, PoolMove, ReservationsKept
<1> QED BY <1>1, <1>2, <1>3, ExecutorPool, LoopPool
        DEF Next, Finished, PoolMove, ReservationsKept

-----------------------------------------------------------------------------
(* Reservations *)

\* A step that keeps the reservations, or releases them with their segments.
LEMMA ReservationMove ==
    ASSUME TypeInv, ReservationInv, PoolMove
    PROVE  /\ \A a \in Accounts : reserved'[a] # NoTask => resv'[reserved'[a]] = a
           /\ \A t \in Tasks : resv'[t] # NoAccount => reserved'[resv'[t]] = t
           /\ \A t \in Tasks : resv'[t] # NoAccount <=> state'[t] = "migrating"
<1> DEFINE Matched ==
       /\ \A a \in Accounts : reserved'[a] # NoTask => resv'[reserved'[a]] = a
       /\ \A t \in Tasks : resv'[t] # NoAccount => reserved'[resv'[t]] = t
       /\ \A t \in Tasks : resv'[t] # NoAccount <=> state'[t] = "migrating"
<1>t. /\ resv \in [Tasks -> Accounts \cup {NoAccount}]
      /\ reserved \in [Accounts -> Tasks \cup {NoTask}]
      /\ state \in [Tasks -> SegmentState]
      /\ 0 \notin Accounts /\ 0 \notin Tasks /\ NoTask = 0 /\ NoAccount = 0
  BY DEF TypeInv, TypeOK, TaskType, PoolType, Accounts, Tasks, NoTask, NoAccount
<1>1. CASE ReservationsKept
  BY <1>1 DEF ReservationsKept, ReservationInv
<1>2. ASSUME NEW U, NEW o \in Terminal, TerminalLocked(U, o) PROVE Matched
  <2>1. ASSUME NEW t \in Tasks
        PROVE  resv'[t] = IF t \in NotYetTerminal(U) THEN NoAccount ELSE resv[t]
    BY <1>2 DEF TerminalLocked
  <2>2. ASSUME NEW a \in Accounts
        PROVE  reserved'[a] = IF reserved[a] \in NotYetTerminal(U)
                              THEN NoTask ELSE reserved[a]
    <3>1. CASE reserved[a] = NoTask
      BY <1>2, <3>1 DEF TerminalLocked
    <3>2. CASE reserved[a] # NoTask
      <4>1. resv[reserved[a]] = a
        BY <3>2 DEF ReservationInv
      <4> QED BY <1>2, <4>1 DEF TerminalLocked
    <3> QED BY <3>1, <3>2
  <2>3. ASSUME NEW t \in Tasks
        PROVE  state'[t] = "migrating" <=>
                  state[t] = "migrating" /\ t \notin NotYetTerminal(U)
    BY <1>2 DEF TerminalLocked, Terminal
  <2> QED BY <1>t, <2>1, <2>2, <2>3 DEF ReservationInv
<1>3. ASSUME NEW u \in Tasks, SelectReplacement(u) PROVE Matched
  <2>1. /\ resv[u] # NoAccount
        /\ reserved' = [reserved EXCEPT ![resv[u]] = NoTask]
        /\ resv' = [resv EXCEPT ![u] = NoAccount]
        /\ state' = [state EXCEPT ![u] = "active"]
    BY <1>3 DEF SelectReplacement, FirstReady, ReplacementReady, InstallActive
  <2>2. reserved[resv[u]] = u
    BY <2>1 DEF ReservationInv
  <2> QED BY <1>t, <2>1, <2>2 DEF ReservationInv
<1>4. ASSUME NEW u \in Tasks, NEW b \in Accounts, SelectPending(u, b) PROVE Matched
  <2>1. /\ state[u] = "pending"
        /\ state' = [state EXCEPT ![u] = "active"]
        /\ UNCHANGED <<reserved, resv>>
    BY <1>4 DEF SelectPending, FirstPending, InstallActive
  <2> QED BY <1>t, <2>1 DEF ReservationInv
<1>5. ASSUME NEW u \in Tasks, NEW b \in Accounts, CommitMigration(b, u) PROVE Matched
  <2>1. /\ state[u] = "active" /\ reserved[b] = NoTask
        /\ reserved' = [reserved EXCEPT ![b] = u]
        /\ resv' = [resv EXCEPT ![u] = b]
        /\ state' = [state EXCEPT ![u] = "migrating"]
    BY <1>5 DEF CommitMigration, Scores, Candidate, CanReserve, IsIdle
  <2>2. resv[u] = NoAccount
    BY <2>1 DEF ReservationInv
  <2> QED BY <1>t, <2>1, <2>2 DEF ReservationInv
<1>6. ASSUME NEW b \in Accounts, PoolStep(b) PROVE Matched
  <2>1. reserved' = reserved
    BY <1>6 DEF PoolStep, ExpireSnapshot, OtherAcquire, OtherAcquireExact,
       OtherClose, StopRuntime
  <2>2. UNCHANGED <<resv, state>>
    BY <1>6 DEF PoolStep, taskVars, lifeVars
  <2> QED BY <2>1, <2>2 DEF ReservationInv
<1> QED BY <1>1, <1>2, <1>3, <1>4, <1>5, <1>6 DEF PoolMove

\* No step gives an account a byte upload while it is reserved.
LEMMA IdleMove ==
    ASSUME TypeInv, ReservationInv, PoolMove, NEW a \in Accounts
    PROVE  reserved'[a] # NoTask => jobs'[a] = {}
<1> SUFFICES ASSUME reserved'[a] # NoTask PROVE jobs'[a] = {}
  OBVIOUS
<1>t. reserved \in [Accounts -> Tasks \cup {NoTask}]
  BY DEF TypeInv, TypeOK, PoolType
<1>q. reserved[a] # NoTask => jobs[a] = {}
  BY DEF ReservationInv
<1>1. CASE UNCHANGED <<slots, jobs, lease>> /\ ReservationsKept
  BY <1>1, <1>q DEF ReservationsKept
<1>2. ASSUME NEW T \in SUBSET Tasks, ReleaseLeases(T),
             ReservationsKept \/ \E U : \E o \in Terminal : TerminalLocked(U, o)
      PROVE  jobs'[a] = {}
  <2>1. jobs'[a] \subseteq jobs[a]
    BY <1>2 DEF ReleaseLeases, CloseLeases
  <2>2. reserved'[a] = reserved[a] \/ reserved'[a] = NoTask
    BY <1>2 DEF ReservationsKept, TerminalLocked
  <2> QED BY <1>q, <2>1, <2>2
<1>3. ASSUME NEW u \in Tasks, SelectReplacement(u) PROVE jobs'[a] = {}
  <2>1. /\ resv[u] # NoAccount
        /\ reserved' = [reserved EXCEPT ![resv[u]] = NoTask]
    BY <1>3 DEF SelectReplacement, FirstReady, ReplacementReady
  <2>2. a # resv[u] /\ reserved[a] # NoTask
    BY <1>t, <2>1
  <2>3. jobs'[a] \subseteq jobs[a]
    BY <1>3, <2>2 DEF SelectReplacement
  <2> QED BY <1>q, <2>2, <2>3
<1>4. ASSUME NEW u \in Tasks, NEW b \in Accounts, SelectPending(u, b)
      PROVE  jobs'[a] = {}
  <2>1. /\ reserved' = reserved /\ reserved[b] = NoTask
        /\ jobs' = [jobs EXCEPT ![b] = @ \cup {u}]
    BY <1>4 DEF SelectPending, AcquireUploadLease, Offered, CanAcquire
  <2> QED BY <1>q, <2>1 DEF TypeInv, TypeOK, PoolType
<1>5. ASSUME NEW u \in Tasks, NEW b \in Accounts, CommitMigration(b, u)
      PROVE  jobs'[a] = {}
  <2>1. /\ reserved' = [reserved EXCEPT ![b] = u] /\ jobs[b] = {}
        /\ jobs' = jobs
    BY <1>5 DEF CommitMigration, Scores, CanReserve, IsIdle
  <2> QED BY <1>q, <1>t, <2>1
<1>6. ASSUME NEW b \in Accounts, PoolStep(b) PROVE jobs'[a] = {}
  <2>1. reserved' = reserved
    BY <1>6 DEF PoolStep, ExpireSnapshot, OtherAcquire, OtherAcquireExact,
       OtherClose, StopRuntime
  <2>2. \/ jobs'[a] \subseteq jobs[a]
        \/ \E w : reserved[b] = NoTask /\ jobs' = [jobs EXCEPT ![b] = @ \cup {w}]
    BY <1>6 DEF PoolStep, ExpireSnapshot, OtherAcquire, OtherAcquireExact,
       OtherClose, StopRuntime, AcquireUploadLease, Offered, CanAcquire, CloseLeases
  <2> QED BY <1>q, <2>1, <2>2 DEF TypeInv, TypeOK, PoolType
<1> QED BY <1>1, <1>2, <1>3, <1>4, <1>5, <1>6 DEF PoolMove

\* Every step keeps ReservationInv.
LEMMA NextReservation ==
    ASSUME TypeInv, ReservationInv, [Next]_vars
    PROVE  ReservationInv'
BY NextPool, ReservationMove, IdleMove DEF ReservationInv

-----------------------------------------------------------------------------
(* File slots *)

\* The work ids of an account are finitely many.
LEMMA JobsFinite ==
    ASSUME TypeInv, NEW a \in Accounts
    PROVE  IsFiniteSet(jobs[a]) /\ Cardinality(jobs[a]) \in Nat
<1>1. IsFiniteSet(Tasks)
  BY FS_Interval, PoolAssumption DEF Tasks
<1>2. IsFiniteSet(Tasks \cup Others)
  BY <1>1, FS_Union, PoolAssumption
<1>3. jobs[a] \subseteq Tasks \cup Others
  BY DEF TypeInv, TypeOK, PoolType
<1> QED BY <1>2, <1>3, FS_Subset, FS_CardinalityType

\* UploadLease.close gives back exactly the slots of the jobs it removes.
LEMMA CloseLeasesSlots ==
    ASSUME TypeInv, NEW L, CloseLeases(L), NEW a \in Accounts,
           slots[a] = UploadFiles - Cardinality(jobs[a]), slots[a] >= 0,
           \A l \in L : l[1] = a => l = <<a, l[2]>> /\ l[2] \in jobs[a]
    PROVE  slots'[a] = UploadFiles - Cardinality(jobs'[a]) /\ slots'[a] >= 0
<1> DEFINE R == {w \in jobs[a] : <<a, w>> \in L}
           M == {l \in L : l[1] = a}
<1>1. jobs'[a] = jobs[a] \ R
  BY DEF CloseLeases
<1>2. slots'[a] = slots[a] + Cardinality(M)
  BY DEF CloseLeases
<1>3. IsFiniteSet(jobs[a]) /\ Cardinality(jobs[a]) \in Nat
  BY JobsFinite
<1>4. IsFiniteSet(R) /\ R \subseteq jobs[a]
  BY <1>3, FS_Subset
<1>5. Cardinality(M) = Cardinality(R)
  <2> DEFINE f == [w \in R |-> <<a, w>>]
  <2>1. f \in Bijection(R, M)
    <3>1. \A w \in R : <<a, w>> \in M
      OBVIOUS
    <3>2. f \in [R -> M]
      BY <3>1
    <3>3. \A v, w \in R : f[v] = f[w] => v = w
      OBVIOUS
    <3>4. \A l \in M : \E w \in R : f[w] = l
      <4> TAKE l \in M
      <4>1. l = <<a, l[2]>> /\ l[2] \in jobs[a] /\ l \in L
        OBVIOUS
      <4>2. l[2] \in R
        BY <4>1
      <4> QED BY <4>1, <4>2
    <3> HIDE DEF f, R, M
    <3>5. f \in Surjection(R, M)
      BY <3>2, <3>4 DEF Surjection
    <3>6. f \in Injection(R, M)
      BY <3>2, <3>3 DEF Injection, IsInjective
    <3> QED BY <3>5, <3>6 DEF Bijection
  <2> HIDE DEF f, R, M
  <2>2. ExistsBijection(R, M)
    BY <2>1 DEF ExistsBijection
  <2> QED BY <1>4, <2>2, FS_Bijection
<1>6. Cardinality(jobs'[a]) = Cardinality(jobs[a]) - Cardinality(R)
  <2> HIDE DEF R
  <2>1. jobs[a] \cap R = R
    BY <1>4
  <2> QED BY <1>1, <1>3, <1>4, <2>1, FS_Difference
<1>7. Cardinality(R) \in Nat /\ slots[a] \in Int /\ UploadFiles \in Nat
  BY <1>4, FS_CardinalityType, PoolAssumption DEF TypeInv, TypeOK, PoolType
<1> HIDE DEF R, M
<1> QED BY <1>2, <1>3, <1>5, <1>6, <1>7

\* A new job takes one slot.
LEMMA AcquireSlots ==
    ASSUME TypeInv, NEW a \in Accounts, NEW w, w \notin jobs[a],
           slots[a] = UploadFiles - Cardinality(jobs[a]), slots[a] > 0,
           slots'[a] = slots[a] - 1, jobs'[a] = jobs[a] \cup {w}
    PROVE  slots'[a] = UploadFiles - Cardinality(jobs'[a]) /\ slots'[a] >= 0
<1>1. IsFiniteSet(jobs[a]) /\ Cardinality(jobs[a]) \in Nat
  BY JobsFinite
<1>2. Cardinality(jobs'[a]) = Cardinality(jobs[a]) + 1
  BY <1>1, FS_AddElement
<1>3. slots[a] \in Int /\ UploadFiles \in Nat
  BY PoolAssumption DEF TypeInv, TypeOK, PoolType
<1> QED BY <1>1, <1>2, <1>3

\* SlotAccounting for one account.
SlotsOK(a) ==
    /\ slots[a] = UploadFiles - Cardinality(jobs[a])
    /\ slots[a] >= 0
    /\ jobs[a] \cap Tasks = {t \in Tasks : lease[t] = a}

\* Closing leases gives back one slot per byte upload that ends.
LEMMA ReleaseLeasesSlots ==
    ASSUME TypeInv, NEW T \in SUBSET Tasks, ReleaseLeases(T), NEW a \in Accounts,
           SlotsOK(a)
    PROVE  SlotsOK(a)'
<1> DEFINE L == {<<lease[t], t>> : t \in T}
<1>1. CloseLeases(L)
  BY DEF ReleaseLeases
<1>2. \A l \in L : l[1] = a => l = <<a, l[2]>> /\ l[2] \in jobs[a]
  BY DEF SlotsOK
<1>3. slots'[a] = UploadFiles - Cardinality(jobs'[a]) /\ slots'[a] >= 0
  <2> HIDE DEF L
  <2> QED BY <1>1, <1>2, CloseLeasesSlots DEF SlotsOK
<1>4. jobs'[a] = {w \in jobs[a] : ~(w \in T /\ lease[w] = a)}
  BY <1>1 DEF CloseLeases
<1>5. \A t \in Tasks : lease'[t] = a <=> lease[t] = a /\ t \notin T
  BY DEF ReleaseLeases, Accounts, NoAccount
<1>6. jobs'[a] \cap Tasks = {t \in Tasks : lease'[t] = a}
  BY <1>4, <1>5 DEF SlotsOK
<1> QED BY <1>3, <1>6 DEF SlotsOK

\* So do other uploads of the pool, which take a slot only if one is free.
LEMMA OtherSlots ==
    ASSUME TypeInv, NEW b \in Accounts, PoolStep(b), NEW a \in Accounts, SlotsOK(a)
    PROVE  SlotsOK(a)'
<1>l. lease' = lease
  BY DEF PoolStep, taskVars, leaseVars
<1>1. CASE UNCHANGED <<slots, jobs>>
  BY <1>1, <1>l DEF SlotsOK
<1>2. ASSUME NEW w \in Others, b # a \/ w \notin jobs[b], b # a \/ slots[b] > 0,
             slots' = [slots EXCEPT ![b] = @ - 1],
             jobs' = [jobs EXCEPT ![b] = @ \cup {w}]
      PROVE  SlotsOK(a)'
  <2>1. CASE a = b
    <3>1. slots'[a] = slots[a] - 1 /\ jobs'[a] = jobs[a] \cup {w}
      BY <1>2, <2>1 DEF TypeInv, TypeOK, PoolType
    <3>2. slots'[a] = UploadFiles - Cardinality(jobs'[a]) /\ slots'[a] >= 0
      BY <1>2, <2>1, <3>1, AcquireSlots DEF SlotsOK
    <3>3. w \notin Tasks
      BY PoolAssumption
    <3> QED BY <1>l, <3>1, <3>2, <3>3 DEF SlotsOK
  <2>2. CASE a # b
    <3>1. slots'[a] = slots[a] /\ jobs'[a] = jobs[a]
      BY <1>2, <2>2 DEF TypeInv, TypeOK, PoolType
    <3> QED BY <1>l, <3>1 DEF SlotsOK
  <2> QED BY <2>1, <2>2
<1>3. ASSUME NEW w \in Others, w \in jobs[b], CloseLeases({<<b, w>>})
      PROVE  SlotsOK(a)'
  <2>1. slots'[a] = UploadFiles - Cardinality(jobs'[a]) /\ slots'[a] >= 0
    BY <1>3, CloseLeasesSlots DEF SlotsOK
  <2>2. w \notin Tasks
    BY PoolAssumption
  <2>3. jobs'[a] \cap Tasks = jobs[a] \cap Tasks
    BY <1>3, <2>2 DEF CloseLeases
  <2> QED BY <1>l, <2>1, <2>3 DEF SlotsOK
<1>4. CASE ExpireSnapshot(b) \/ StopRuntime(b)
  BY <1>1, <1>4 DEF ExpireSnapshot, StopRuntime
<1>5. ASSUME NEW w \in Others, OtherAcquire(b, w) \/ OtherAcquireExact(b, w)
      PROVE  SlotsOK(a)'
  BY <1>2, <1>5 DEF OtherAcquire, OtherAcquireExact, AcquireUploadLease,
     Offered, CanAcquire
<1>6. ASSUME NEW w \in Others, OtherClose(b, w)
      PROVE  SlotsOK(a)'
  BY <1>3, <1>6 DEF OtherClose
<1> QED BY <1>4, <1>5, <1>6 DEF PoolStep

\* select_next_action takes one slot for the segment it starts,
LEMMA PendingSlots ==
    ASSUME TypeInv, ClaimInv, LeaseInv, NEW u \in Tasks, NEW b \in Accounts,
           SelectPending(u, b), NEW a \in Accounts, SlotsOK(a)
    PROVE  SlotsOK(a)'
<1>1. /\ state[u] = "pending"
      /\ lease' = [lease EXCEPT ![u] = b]
      /\ slots' = [slots EXCEPT ![b] = @ - 1]
      /\ jobs' = [jobs EXCEPT ![b] = @ \cup {u}]
      /\ slots[b] > 0 /\ u \notin jobs[b]
  BY DEF SelectPending, FirstPending, InstallActive, AcquireUploadLease,
     Offered, CanAcquire
<1>2. lease[u] = NoAccount
  <2>1. LeaseOK(u) /\ ClaimOK(u)
    BY DEF LeaseInv, ClaimInv
  <2>2. leaseAttempt[u] \in Attempts \cup {NoAttempt}
    BY DEF TypeInv, TypeOK, TaskType
  <2>3. attempt[u] # 2
    BY <1>1 DEF TypeInv, AttemptInv, NoAttempt
  <2>4. claimed[u][1] = NoAccount /\ claimed[u][2] = NoAccount
    BY <1>1, <2>1, <2>3 DEF ClaimOK
  <2> QED BY <2>1, <2>2, <2>4 DEF LeaseOK, Attempts, NoAttempt
<1>3. /\ slots'[a] = IF a = b THEN slots[a] - 1 ELSE slots[a]
      /\ jobs'[a] = IF a = b THEN jobs[a] \cup {u} ELSE jobs[a]
      /\ \A t \in Tasks : lease'[t] = IF t = u THEN b ELSE lease[t]
  BY <1>1 DEF TypeInv, TypeOK, PoolType, TaskType
<1>4. slots'[a] = UploadFiles - Cardinality(jobs'[a]) /\ slots'[a] >= 0
  BY <1>1, <1>3, AcquireSlots DEF SlotsOK
<1>5. jobs'[a] \cap Tasks = {t \in Tasks : lease'[t] = a}
  BY <1>2, <1>3 DEF SlotsOK, Accounts, NoAccount
<1> QED BY <1>4, <1>5 DEF SlotsOK

\* and moves the segment's slot, if it still held one, when it activates a
\* reservation.
LEMMA ReplacementSlots ==
    ASSUME TypeInv, ReservationInv, NEW u \in Tasks,
           SelectReplacement(u), NEW a \in Accounts, SlotsOK(a)
    PROVE  SlotsOK(a)'
<1> DEFINE b == resv[u]
           drained == {t \in {u} : lease[t] # NoAccount}
<1>1. /\ b # NoAccount /\ slots[b] > 0
      /\ lease' = [lease EXCEPT ![u] = b]
      /\ jobs'[a] = {w \in jobs[a] : ~(w \in drained /\ a = lease[u])}
                      \cup (IF a = b THEN {u} ELSE {})
      /\ slots'[a] = slots[a] + Cardinality({t \in drained : lease[t] = a})
                              - (IF a = b THEN 1 ELSE 0)
  BY DEF SelectReplacement, FirstReady, ReplacementReady, InstallActive,
     CanActivateReservation
<1>2. b \in Accounts /\ a # NoAccount
  BY <1>1 DEF TypeInv, TypeOK, TaskType, Accounts, NoAccount
<1>3. jobs[b] = {}
  <2>1. reserved[b] = u /\ u # NoTask
    BY <1>1 DEF ReservationInv, Tasks, NoTask
  <2> QED BY <1>2, <2>1 DEF ReservationInv
<1>4. {t \in drained : lease[t] = a} = IF lease[u] = a THEN {u} ELSE {}
  BY <1>2
<1>5. Cardinality({u}) = 1 /\ Cardinality({}) = 0
  BY FS_Singleton, FS_EmptySet
<1>6. slots[a] \in Int /\ UploadFiles \in Nat
  BY PoolAssumption DEF TypeInv, TypeOK, PoolType
<1>s. slots'[a] = slots[a] + (IF lease[u] = a THEN 1 ELSE 0)
                           - (IF a = b THEN 1 ELSE 0)
  <2>1. Cardinality({t \in drained : lease[t] = a}) = IF lease[u] = a THEN 1 ELSE 0
    BY <1>4, <1>5
  <2> HIDE DEF b, drained
  <2> QED BY <1>1, <2>1
<1>j. jobs'[a] = {w \in jobs[a] : ~(w = u /\ lease[u] = a)}
                   \cup (IF a = b THEN {u} ELSE {})
  BY <1>1, <1>2
<1> HIDE DEF b, drained
<1>7. \A t \in Tasks : lease'[t] = IF t = u THEN b ELSE lease[t]
  BY <1>1 DEF TypeInv, TypeOK, TaskType
<1>8. CASE lease[u] = a
  <2>1. u \in jobs[a] /\ a # b
    BY <1>3, <1>8 DEF SlotsOK
  <2>2. jobs'[a] = jobs[a] \ {u} /\ slots'[a] = slots[a] + 1
    BY <1>s, <1>j, <1>6, <1>8, <2>1
  <2>3. Cardinality(jobs'[a]) = Cardinality(jobs[a]) - 1
    BY <2>1, <2>2, JobsFinite, FS_RemoveElement
  <2>4. slots'[a] = UploadFiles - Cardinality(jobs'[a]) /\ slots'[a] >= 0
    BY <1>6, <2>2, <2>3, JobsFinite DEF SlotsOK
  <2>5. jobs'[a] \cap Tasks = {t \in Tasks : lease'[t] = a}
    BY <1>7, <2>1, <2>2 DEF SlotsOK
  <2> QED BY <2>4, <2>5 DEF SlotsOK
<1>9. CASE lease[u] # a /\ a = b
  <2>1. jobs'[a] = jobs[a] \cup {u} /\ slots'[a] = slots[a] - 1
    BY <1>s, <1>j, <1>6, <1>9
  <2>2. u \notin jobs[a]
    BY <1>3, <1>9
  <2>3. slots'[a] = UploadFiles - Cardinality(jobs'[a]) /\ slots'[a] >= 0
    BY <1>1, <1>9, <2>1, <2>2, AcquireSlots DEF SlotsOK
  <2>4. jobs'[a] \cap Tasks = {t \in Tasks : lease'[t] = a}
    BY <1>7, <1>9, <2>1 DEF SlotsOK
  <2> QED BY <2>3, <2>4 DEF SlotsOK
<1>10. CASE lease[u] # a /\ a # b
  <2>1. jobs'[a] = jobs[a] /\ slots'[a] = slots[a]
    BY <1>s, <1>j, <1>6, <1>10
  <2> QED BY <1>7, <1>10, <2>1 DEF SlotsOK
<1> QED BY <1>8, <1>9, <1>10

\* Every step keeps SlotAccounting.
LEMMA NextSlots ==
    ASSUME TypeInv, ClaimInv, LeaseInv, ReservationInv, SlotAccounting, [Next]_vars
    PROVE  SlotAccounting'
<1> SUFFICES ASSUME NEW a \in Accounts PROVE SlotsOK(a)'
  BY DEF SlotAccounting, SlotsOK
<1>1. SlotsOK(a) /\ PoolMove
  BY NextPool DEF SlotAccounting, SlotsOK
<1>2. CASE UNCHANGED <<slots, jobs, lease>>
  BY <1>1, <1>2 DEF SlotsOK
<1>3. ASSUME NEW u \in Tasks, NEW b \in Accounts, CommitMigration(b, u)
      PROVE  UNCHANGED <<slots, jobs, lease>>
  BY <1>3 DEF CommitMigration, leaseVars
<1> QED BY <1>1, <1>2, <1>3, ReleaseLeasesSlots, OtherSlots, PendingSlots,
           ReplacementSlots DEF PoolMove

-----------------------------------------------------------------------------
(* The inductive invariant, and what it says *)

(***************************************************************************)
(* The inductive invariant.  Slots are right because each lease is closed  *)
(* exactly once (LeaseInv); a lease outlives its RPCs because tokens mean  *)
(* RPCs (RpcInv) and the executor's place says how far they are; attempt 2 *)
(* runs alone because it is claimed only after attempt 1 has left          *)
(* (ClaimInv); and the loop's books (LoopInv) say when an attempt that was *)
(* claimed has not yet reached an executor.                                *)
(***************************************************************************)
SchedulerInv ==
    /\ RpcInv
    /\ ClaimInv
    /\ LeaseInv
    /\ LoopInv
    /\ CurrentInv
    /\ ConfirmedInv
    /\ RequestInv
    /\ ReservationInv
    /\ SlotAccounting
    /\ NoSilentReturn

\* The invariant holds in every reachable state.
LEMMA SchedulerInvariant == Spec => []SchedulerInv
<1>1. Init => SchedulerInv
  <2> SUFFICES ASSUME Init PROVE SchedulerInv
    OBVIOUS
  <2> USE DEF Init, PoolInit, NoAttempt, NoAccount, NoTask
  <2>1. RpcInv
    BY DEF RpcInv, RpcOK, InFlight
  <2>2. ClaimInv
    <3> SUFFICES ASSUME NEW t \in Tasks PROVE ClaimOK(t)
      BY DEF ClaimInv
    <3>1. /\ state[t] = "pending" /\ attempt[t] = 0 /\ draining[t] = 0
          /\ quiescent[t] = {} /\ 1 \in Attempts /\ 2 \in Attempts
          /\ \A n \in Attempts : claimed[t][n] = 0 /\ pc[t][n] = "none"
      BY DEF Attempts
    <3> QED BY <3>1 DEF ClaimOK
  <2>3. LeaseInv
    <3> SUFFICES ASSUME NEW t \in Tasks PROVE LeaseOK(t)
      BY DEF LeaseInv
    <3>1. /\ lease[t] = 0 /\ leaseAttempt[t] = 0 /\ state[t] = "pending"
          /\ \A n \in Attempts : tokens[t][n] = {}
      OBVIOUS
    <3> QED BY <3>1 DEF LeaseOK, OwnsLease, Terminal
  <2>4. LoopInv
    BY DEF LoopInv, LoopOK
  <2>5. CurrentInv
    BY DEF CurrentInv, CurrentOK
  <2>6. ConfirmedInv
    BY DEF ConfirmedInv, ConfirmedOK, CompletedOK
  <2>7. RequestInv
    BY DEF RequestInv
  <2>8. ReservationInv
    BY DEF ReservationInv
  <2>9. SlotAccounting
    <3> SUFFICES ASSUME NEW a \in Accounts PROVE SlotsOK(a)
      BY DEF SlotAccounting, SlotsOK
    <3>1. Cardinality({}) = 0 /\ UploadFiles \in Nat /\ 0 \notin Accounts
      BY FS_EmptySet, PoolAssumption DEF Accounts
    <3> QED BY <3>1 DEF SlotsOK
  <2>10. NoSilentReturn
    BY DEF NoSilentReturn
  <2> QED BY <2>1, <2>2, <2>3, <2>4, <2>5, <2>6, <2>7, <2>8, <2>9, <2>10
          DEF SchedulerInv
<1>2. TypeInv /\ GrantInv /\ SchedulerInv /\ [Next]_vars => SchedulerInv'
  <2> SUFFICES ASSUME TypeInv, GrantInv, SchedulerInv, [Next]_vars
               PROVE  SchedulerInv'
    OBVIOUS
  <2>1. /\ RpcInv /\ ClaimInv /\ LeaseInv /\ LoopInv /\ CurrentInv
        /\ ConfirmedInv /\ RequestInv /\ ReservationInv /\ SlotAccounting
        /\ NoSilentReturn
    BY DEF SchedulerInv
  <2>2. RpcInv' /\ ClaimInv' /\ LoopInv' /\ ReservationInv'
    BY <2>1, NextRpc, NextClaim, NextLoop, NextReservation
  <2>3. LeaseInv' /\ SlotAccounting'
    BY <2>1, <2>2, NextLease, NextSlots
  <2>4. CurrentInv' /\ ConfirmedInv'
    BY <2>1, NextCurrent, NextConfirmed
  <2>5. RequestInv' /\ NoSilentReturn'
    BY <2>1, NextRequests, NextSilent
  <2> QED BY <2>2, <2>3, <2>4, <2>5 DEF SchedulerInv
<1> QED BY <1>1, <1>2, TypeInvariant, GrantInvariant, PTL DEF Spec

(***************************************************************************)
(* A file slot of the account pool is taken exactly by the uploads that    *)
(* hold a lease: no ending of a segment releases the semaphore twice and   *)
(* none forgets it (_maybe_close_owned_locked, bytes_prepared,             *)
(* select_next_action), for any number of accounts, segments and parts.    *)
(***************************************************************************)
THEOREM SlotsAccountedFor == Spec => []SlotAccounting
<1>1. SchedulerInv => SlotAccounting
  BY DEF SchedulerInv
<1> QED BY <1>1, SchedulerInvariant, PTL

(***************************************************************************)
(* While an RPC of an attempt is in flight the attempt owns its segment's  *)
(* lease and the account counts the request: request_settled comes before  *)
(* the lease goes, even for an attempt that was superseded or has failed.  *)
(***************************************************************************)
THEOREM LeaseOutlivesRpcs == Spec => []InFlightHoldsLease
<1>1. TypeInv /\ SchedulerInv => InFlightHoldsLease
  <2> SUFFICES ASSUME TypeInv, SchedulerInv, NEW t \in Tasks, NEW n \in Attempts,
                      tokens[t][n] # {}
               PROVE  /\ OwnsLease(t, n)
                      /\ lease[t] = claimed[t][n]
                      /\ \A p \in tokens[t][n] : <<t, n, p>> \in requests[lease[t]]
    BY DEF InFlightHoldsLease
  <2>1. OwnsLease(t, n) /\ lease[t] = claimed[t][n]
    BY DEF SchedulerInv, LeaseInv, LeaseOK, OwnsLease
  <2>2. lease[t] \in Accounts /\ tokens[t][n] \subseteq Parts
    BY <2>1 DEF OwnsLease, TypeInv, TypeOK, TaskType
  <2>3. \A p \in tokens[t][n] : <<t, n, p>> \in requests[lease[t]]
    BY <2>1, <2>2 DEF SchedulerInv, RequestInv
  <2> QED BY <2>1, <2>3
<1> QED BY <1>1, TypeInvariant, SchedulerInvariant, PTL

(***************************************************************************)
(* When the second attempt of a segment is claimed, the first one has left *)
(* its executor action and has no RPC in flight (_replacement_ready_locked *)
(* and attempt_quiesced).                                                  *)
(***************************************************************************)
THEOREM ReplacementRunsAlone == Spec => []OneLiveAttempt
<1>1. TypeInv /\ SchedulerInv => OneLiveAttempt
  <2> SUFFICES ASSUME TypeInv, SchedulerInv, NEW t \in Tasks,
                      claimed[t][2] # NoAccount
               PROVE  /\ tokens[t][1] = {}
                      /\ NoRpcInFlight(t, 1)
                      /\ pc[t][1] \in {"returning", "done"}
    BY DEF OneLiveAttempt
  <2>1. 1 \in Attempts /\ ClaimOK(t) /\ RpcOK(t, 1)
    BY DEF SchedulerInv, ClaimInv, RpcInv, Attempts
  <2>2. pc[t][1] \in Left /\ tokens[t][1] = {}
    BY <2>1 DEF ClaimOK, RpcOK, Left
  <2>3. \A p \in Parts : rpc[t][1][p] \in RpcState
    BY <2>1 DEF TypeInv, TypeOK, WorkerType
  <2>4. \A p \in Parts : rpc[t][1][p] \notin InFlight
    BY <2>1, <2>2 DEF RpcOK
  <2> QED BY <2>2, <2>3, <2>4 DEF NoRpcInFlight, Left, RpcState, InFlight
<1> QED BY <1>1, TypeInvariant, SchedulerInvariant, PTL

(***************************************************************************)
(* A message is only created from an upload whose parts Telegram has all   *)
(* confirmed under that attempt's own file id, and a completed segment's   *)
(* result is the one message of its current attempt (bytes_prepared,       *)
(* send_uploaded_segment, complete_attempt).                               *)
(***************************************************************************)
THEOREM MessagesAreWhole == Spec => []MessageIsWhole
<1>1. TypeInv /\ SchedulerInv => MessageIsWhole
  BY DEF SchedulerInv, ConfirmedInv, ConfirmedOK, CompletedOK, MessageIsWhole,
     TypeInv, TypeOK, TelegramType
<1> QED BY <1>1, TypeInvariant, SchedulerInvariant, PTL

(***************************************************************************)
(* No executor action returns from the current attempt of an active        *)
(* segment without an outcome: the branch of executor_finished that fails  *)
(* the segment for it is never taken.                                      *)
(***************************************************************************)
THEOREM EveryReturnReports == Spec => []NoSilentReturn
<1>1. SchedulerInv => NoSilentReturn
  BY DEF SchedulerInv
<1> QED BY <1>1, SchedulerInvariant, PTL

(***************************************************************************)
(* An account reserved for a migration carries no byte upload and no       *)
(* request, has a free slot, and is reserved for the migrating segment     *)
(* that names it (reserve_upload_target, activate_reservation).            *)
(***************************************************************************)
THEOREM ReservationIsExclusive == Spec => []ReservationExclusive
<1>1. TypeInv /\ SchedulerInv => ReservationExclusive
  <2> SUFFICES ASSUME TypeInv, SchedulerInv, NEW a \in Accounts,
                      reserved[a] # NoTask
               PROVE  /\ jobs[a] = {}
                      /\ requests[a] = {}
                      /\ slots[a] > 0
                      /\ resv[reserved[a]] = a
                      /\ state[reserved[a]] = "migrating"
    BY DEF ReservationExclusive
  <2>1. reserved[a] \in Tasks /\ a # NoAccount
    BY DEF TypeInv, TypeOK, PoolType, Accounts, NoAccount
  <2>2. jobs[a] = {} /\ resv[reserved[a]] = a /\ SlotsOK(a)
    BY DEF SchedulerInv, ReservationInv, SlotAccounting, SlotsOK
  <2>3. state[reserved[a]] = "migrating"
    BY <2>1, <2>2 DEF SchedulerInv, ReservationInv
  <2>4. slots[a] > 0
    <3>1. Cardinality({}) = 0 /\ UploadFiles \in Nat \ {0}
      BY FS_EmptySet, PoolAssumption
    <3> QED BY <2>2, <3>1 DEF SlotsOK
  <2>5. requests[a] = {}
    <3> SUFFICES ASSUME NEW r \in requests[a] PROVE FALSE
      OBVIOUS
    <3>1. PICK t \in Tasks, n \in Attempts, p \in Parts : r = <<t, n, p>>
      BY DEF TypeInv, TypeOK, PoolType
    <3>2. claimed[t][n] = a /\ tokens[t][n] # {}
      BY <3>1 DEF SchedulerInv, RequestInv
    <3>3. lease[t] = a
      BY <3>2 DEF SchedulerInv, LeaseInv, LeaseOK, OwnsLease
    <3> QED BY <2>2, <3>3 DEF SlotsOK
  <2> QED BY <2>2, <2>3, <2>4, <2>5
<1> QED BY <1>1, TypeInvariant, SchedulerInvariant, PTL

(***************************************************************************)
(* When _run_scheduler_loop returns, every segment has its outcome and     *)
(* nothing of the upload is left: no executor, lease, token, request or    *)
(* reservation.                                                            *)
(***************************************************************************)
THEOREM ExitIsClean == Spec => []CleanExit
<1>1. TypeInv /\ SchedulerInv => CleanExit
  <2> SUFFICES ASSUME TypeInv, SchedulerInv, lpc = "exit"
               PROVE  /\ \A t \in Tasks :
                            /\ state[t] \in Terminal
                            /\ lease[t] = NoAccount
                            /\ resv[t] = NoAccount
                            /\ \A n \in Attempts :
                                  tokens[t][n] = {} /\ pc[t][n] \in {"none", "done"}
                      /\ \A a \in Accounts : /\ reserved[a] = NoTask
                                             /\ requests[a] = {}
                                             /\ jobs[a] \subseteq Others
    BY DEF CleanExit
  <2>1. submitted = {} /\ \A t \in Tasks : state[t] \in Terminal
    BY DEF SchedulerInv, LoopInv, AllTerminal
  <2>2. ASSUME NEW t \in Tasks, NEW n \in Attempts
        PROVE  tokens[t][n] = {} /\ pc[t][n] \in {"none", "done"}
    <3>1. LoopOK(t, n) /\ RpcOK(t, n)
      BY DEF SchedulerInv, LoopInv, RpcInv
    <3> QED BY <2>1, <3>1 DEF LoopOK, RpcOK, InFlight
  <2>3. ASSUME NEW t \in Tasks PROVE lease[t] = NoAccount
    <3> SUFFICES ASSUME lease[t] # NoAccount PROVE FALSE
      OBVIOUS
    <3>1. LeaseOK(t)
      BY DEF SchedulerInv, LeaseInv
    <3>2. leaseAttempt[t] \in Attempts /\ claimed[t][leaseAttempt[t]] # NoAccount
      BY <3>1 DEF LeaseOK, TypeInv, TypeOK, TaskType
    <3>3. leaseAttempt[t] \in quiescent[t]
      <4>1. LoopOK(t, leaseAttempt[t])
        BY <3>2 DEF SchedulerInv, LoopInv
      <4> QED BY <2>1, <2>2, <3>2, <4>1 DEF LoopOK
    <3> QED BY <2>1, <2>2, <3>1, <3>2, <3>3 DEF LeaseOK
  <2>4. ASSUME NEW t \in Tasks PROVE resv[t] = NoAccount
    BY <2>1 DEF SchedulerInv, ReservationInv, Terminal
  <2>5. ASSUME NEW a \in Accounts
        PROVE  reserved[a] = NoTask /\ requests[a] = {} /\ jobs[a] \subseteq Others
    <3>1. reserved[a] = NoTask
      BY <2>4 DEF SchedulerInv, ReservationInv, TypeInv, TypeOK, PoolType,
         Accounts, NoAccount
    <3>2. requests[a] = {}
      <4> SUFFICES ASSUME NEW r \in requests[a] PROVE FALSE
        OBVIOUS
      <4>1. PICK t \in Tasks, n \in Attempts, p \in Parts : r = <<t, n, p>>
        BY DEF TypeInv, TypeOK, PoolType
      <4> QED BY <2>2, <4>1 DEF SchedulerInv, RequestInv
    <3>3. jobs[a] \subseteq Others
      <4>1. jobs[a] \cap Tasks = {t \in Tasks : lease[t] = a} /\ a # NoAccount
        BY DEF SchedulerInv, SlotAccounting, Accounts, NoAccount
      <4>2. jobs[a] \subseteq Tasks \cup Others
        BY DEF TypeInv, TypeOK, PoolType
      <4> QED BY <2>3, <4>1, <4>2
    <3> QED BY <3>1, <3>2, <3>3
  <2> QED BY <2>1, <2>2, <2>3, <2>4, <2>5
<1> QED BY <1>1, TypeInvariant, SchedulerInvariant, PTL

-----------------------------------------------------------------------------
(* The scheduler implements SegmentOnce *)

\* The permit of one segment under the mapping.
PermitOf(t) ==
    IF messages[t] # {} THEN "used"
    ELSE IF state[t] = "finalizing" \/ \E n \in Attempts : pc[t][n] = "granted"
    THEN "granted" ELSE "none"

\* The outcome of one segment under the mapping.
OutcomeOf(t) ==
    CASE state[t] = "completed" -> "done"
      [] state[t] = "failed" -> "failed"
      [] OTHER -> "open"

\* The messages of one segment under the mapping.
MadeOf(t) == Cardinality(messages[t])

\* The mapping, one segment at a time.
LEMMA Mapping ==
    /\ Outcome = [t \in Tasks |-> OutcomeOf(t)]
    /\ Permit = [t \in Tasks |-> PermitOf(t)]
    /\ Outcome' = [t \in Tasks |-> OutcomeOf(t)']
    /\ Permit' = [t \in Tasks |-> PermitOf(t)']
BY DEF Outcome, Permit, OutcomeOf, PermitOf

\* A step that leaves a segment's mapped state alone.
SameOnce(t) ==
    OutcomeOf(t)' = OutcomeOf(t) /\ PermitOf(t)' = PermitOf(t) /\ MadeOf(t)' = MadeOf(t)

\* A step that does so for every segment is invisible to SegmentOnce.
LEMMA OnceStutters ==
    ASSUME \A t \in Tasks : SameOnce(t)
    PROVE  UNCHANGED Once!onceVars
BY Mapping DEF SameOnce, Once!onceVars, MadeOf, Outcome, Permit, OutcomeOf,
     PermitOf

\* A granted attempt that moves on has sent, or its segment is over.
LEMMA GrantedOnce ==
    ASSUME TypeInv, GrantInv, SchedulerInv, NEW t \in Tasks, NEW n \in Attempts,
           pc[t][n] = "granted"
    PROVE  /\ PermitOf(t) = "granted" /\ MadeOf(t) = 0 /\ messages[t] = {}
           /\ state[t] = "finalizing" \/ OutcomeOf(t) = "failed"
           /\ \A k \in Attempts : pc[t][k] = "granted" => k = n
<1>1. messages[t] = {}
  BY DEF SchedulerInv, ConfirmedInv, ConfirmedOK
<1>2. state[t] \in {"finalizing"} \cup Terminal /\ attempt[t] = n
  BY DEF GrantInv, Sending
<1>3. state[t] # "completed"
  BY <1>1 DEF SchedulerInv, ConfirmedInv, CompletedOK
<1>4. \A k \in Attempts : pc[t][k] = "granted" => k = n
  BY <1>2 DEF GrantInv, Sending
<1> QED BY <1>1, <1>2, <1>3, <1>4, FS_EmptySet DEF PermitOf, MadeOf,
     OutcomeOf, Terminal

\* Ending segments without a result is Fail, if no attempt comes to send or
\* gives up sending with it.
LEMMA TerminalFails ==
    ASSUME TypeInv, NEW T, TerminalLocked(T, "failed"), messages' = messages,
           \A t \in Tasks, n \in Attempts : pc'[t][n] = "granted" <=> pc[t][n] = "granted"
    PROVE  Once!Fail(NotYetTerminal(T) \cap Tasks)
<1> DEFINE S == NotYetTerminal(T) \cap Tasks
<1>1. \A t \in Tasks : state'[t] = IF t \in S THEN "failed" ELSE state[t]
  BY DEF TerminalLocked
<1>2. \A t \in S : state[t] \notin Terminal
  BY DEF NotYetTerminal
<1> HIDE DEF S
<1>3. \A t \in S : OutcomeOf(t) = "open"
  BY <1>2 DEF OutcomeOf, Terminal
<1>4. \A t \in Tasks : OutcomeOf(t)' = IF t \in S THEN "failed" ELSE OutcomeOf(t)
  BY <1>1 DEF OutcomeOf
<1>5. \A t \in Tasks :
         \/ PermitOf(t)' = PermitOf(t)
         \/ t \in S /\ PermitOf(t) = "granted" /\ PermitOf(t)' = "none"
  BY <1>1 DEF PermitOf
<1>6. \A t \in Tasks : PermitOf(t)' \in {"none", "granted", "used"}
  BY DEF PermitOf
<1>7. S \subseteq Tasks
  BY DEF S
<1>8. \A t \in S : Outcome[t] = "open"
  BY <1>3, <1>7, Mapping
<1>9. Outcome' = [t \in Tasks |-> IF t \in S THEN "failed" ELSE Outcome[t]]
  BY <1>4, Mapping
<1>10. /\ Permit' \in [Tasks -> {"none", "granted", "used"}]
       /\ \A t \in Tasks : \/ Permit'[t] = Permit[t]
                           \/ t \in S /\ Permit[t] = "granted" /\ Permit'[t] = "none"
  BY <1>5, <1>6, Mapping
<1> QED BY <1>8, <1>9, <1>10 DEF Once!Fail, S

\* The ways an executor changes its segment's state or creates its message.
ExecutorChanges(u, m) ==
    /\ \/ state' = state
       \/ GrantFinalize(u, m)
       \/ CompleteAttempt(u, m) /\ ValidCurrent(u, m, {"finalizing"})
       \/ FailAttempt(u, m) /\ ValidCurrent(u, m, {"active", "finalizing"})
    /\ messages' = messages \/ state' = state

\* Executors change them in no other way.
LEMMA ExecutorChange ==
    ASSUME NEW u \in Tasks, NEW m \in Attempts, ExecutorStep(u, m)
    PROVE  ExecutorChanges(u, m)
<1> USE DEF telegramVars, taskVars, lifeVars, ExecutorChanges
<1>1. CASE \/ BorrowRuntime(u, m) \/ BindRevokeHandle(u, m)
           \/ BindRefused(u, m) \/ SetupRaises(u, m) \/ RevokeLands(u, m)
           \/ PrepareSegment(u, m) \/ AttemptRevoked(u, m)
           \/ ThumbnailFails(u, m)
  BY <1>1 DEF BorrowRuntime, BindRevokeHandle, BindRefused, SetupRaises,
     RevokeLands, PrepareSegment, AttemptRevoked, ThumbnailFails
<1>2. CASE \/ BytesPrepared(u, m) \/ ActionRaises(u, m) \/ AttemptQuiesced(u, m)
           \/ EnqueueExecutorCompletion(u, m) \/ SendUploadedSegment(u, m)
           \/ SendRaises(u, m)
  BY <1>2 DEF BytesPrepared, ActionRaises, AttemptQuiesced,
     EnqueueExecutorCompletion, SendUploadedSegment, SendRaises
<1>3. CASE GrantFinalize(u, m)
  BY <1>3 DEF GrantFinalize
<1>4. CASE CompleteAttempt(u, m)
  BY <1>4 DEF CompleteAttempt
<1>5. CASE FailAttempt(u, m)
  BY <1>5 DEF FailAttempt
<1> QED BY <1>1, <1>2, <1>3, <1>4, <1>5 DEF ExecutorStep

\* The steps of an executor, one by one: grant_finalize is Grant, the message is
\* Use, complete_attempt is Complete, fail_attempt is Fail, a granted attempt
\* that gives up after its segment has failed is Forfeit, all else is invisible.
LEMMA ExecutorOnce ==
    ASSUME TypeInv, GrantInv, SchedulerInv, NEW u \in Tasks, NEW m \in Attempts,
           ExecutorStep(u, m)
    PROVE  [Once!OnceNext]_(Once!onceVars)
<1> USE DEF lifeVars, taskVars, telegramVars
<1>1. PICK where \in WorkerPC : /\ Goto(u, m, where) /\ ExecutorMove(u, m, where)
                                /\ where = "granted" => GrantFinalize(u, m)
  BY ExecutorMoves
<1>2. \A t \in Tasks, n \in Attempts :
         pc'[t][n] = IF t = u /\ n = m THEN where ELSE pc[t][n]
  BY <1>1 DEF Goto, TypeInv, TypeOK, WorkerType
<1>o. /\ ExecutorSends(u, m)
      /\ \A t \in Tasks : t # u => state'[t] = state[t]
  BY ExecutorMessages, ExecutorBooks
<1>t. messages \in [Tasks -> SUBSET Attempts] /\ state \in [Tasks -> SegmentState]
  BY DEF TypeInv, TypeOK, TelegramType, TaskType
<1>s. ASSUME NEW t \in Tasks, t # u PROVE SameOnce(t)
  <2>1. UNCHANGED <<state[t], messages[t]>> /\ \A n \in Attempts : pc'[t][n] = pc[t][n]
    BY <1>2, <1>o, <1>s, <1>t DEF ExecutorSends
  <2> QED BY <2>1 DEF SameOnce, OutcomeOf, PermitOf, MadeOf
<1>e. ASSUME NEW o, NEW p, NEW k, OutcomeOf(u)' = o, PermitOf(u)' = p, MadeOf(u)' = k
      PROVE  /\ Outcome' = [Outcome EXCEPT ![u] = o]
             /\ Permit' = [Permit EXCEPT ![u] = p]
             /\ [t \in Tasks |-> Cardinality(messages[t])]'
                   = [[t \in Tasks |-> Cardinality(messages[t])] EXCEPT ![u] = k]
  <2>1. \A t \in Tasks : /\ OutcomeOf(t)' = IF t = u THEN o ELSE OutcomeOf(t)
                         /\ PermitOf(t)' = IF t = u THEN p ELSE PermitOf(t)
                         /\ MadeOf(t)' = IF t = u THEN k ELSE MadeOf(t)
    BY <1>e, <1>s DEF SameOnce
  <2> QED BY <2>1, Mapping DEF MadeOf
<1>n. ASSUME messages' = messages, pc[u][m] # "granted", where # "granted",
             OutcomeOf(u)' = OutcomeOf(u),
             state'[u] = state[u]
      PROVE  UNCHANGED Once!onceVars
  <2>1. PermitOf(u)' = PermitOf(u) /\ MadeOf(u)' = MadeOf(u)
    BY <1>2, <1>n DEF PermitOf, MadeOf
  <2> QED BY <1>n, <1>s, <2>1, OnceStutters DEF SameOnce
<1>3. CASE GrantFinalize(u, m) /\ where = "granted"
  <2>1. /\ state[u] = "active" /\ state' = [state EXCEPT ![u] = "finalizing"]
        /\ messages' = messages
    <3>1. ValidCurrent(u, m, {"active"})
      <4>1. pc'[u][m] = "granted"
        BY <1>2, <1>3
      <4> QED BY <1>3, <4>1 DEF GrantFinalize, Goto, TypeInv, TypeOK, WorkerType
    <3> QED BY <1>3, <3>1 DEF GrantFinalize, ValidCurrent
  <2>2. messages[u] = {} /\ \A n \in Attempts : pc[u][n] # "granted"
    BY <1>t, <2>1 DEF GrantInv, Sending, Terminal
  <2>3. /\ OutcomeOf(u) = "open" /\ OutcomeOf(u)' = "open"
        /\ PermitOf(u) = "none" /\ PermitOf(u)' = "granted"
        /\ MadeOf(u)' = MadeOf(u)
    BY <1>t, <2>1, <2>2 DEF OutcomeOf, PermitOf, MadeOf
  <2>4. Once!Grant(u)
    BY <1>e, <2>3, Mapping DEF Once!Grant, MadeOf
  <2> QED BY <2>4 DEF Once!OnceNext
<1>4. CASE messages' # messages
  <2>1. /\ pc[u][m] = "granted" /\ messages' = [messages EXCEPT ![u] = @ \cup {m}]
        /\ state' = state
    BY <1>4, <1>o, ExecutorChange DEF ExecutorSends, ExecutorChanges
  <2>2. PermitOf(u) = "granted" /\ MadeOf(u) = 0 /\ messages[u] = {}
    BY <2>1, GrantedOnce
  <2>3. messages'[u] = {m}
    BY <1>t, <2>1, <2>2
  <2>4. OutcomeOf(u)' = OutcomeOf(u) /\ PermitOf(u)' = "used"
    BY <2>1, <2>3 DEF OutcomeOf, PermitOf
  <2>5. MadeOf(u)' = 1
    BY <2>3, FS_Singleton DEF MadeOf
  <2>6. /\ Outcome' = [Outcome EXCEPT ![u] = OutcomeOf(u)]
        /\ Permit' = [Permit EXCEPT ![u] = "used"]
        /\ [t \in Tasks |-> Cardinality(messages[t])]'
              = [[t \in Tasks |-> Cardinality(messages[t])] EXCEPT ![u] = 1]
    BY <1>e, <2>4, <2>5
  <2>7. /\ Permit[u] = "granted" /\ Outcome' = Outcome
        /\ [t \in Tasks |-> Cardinality(messages[t])][u] = 0
    BY <2>2, <2>6, Mapping DEF MadeOf
  <2>8. [t \in Tasks |-> Cardinality(messages[t])]'
           = [[t \in Tasks |-> Cardinality(messages[t])] EXCEPT ![u] = @ + 1]
    <3>1. Cardinality(messages[u]) = 0
      BY <2>2 DEF MadeOf
    <3>2. \A t \in Tasks : Cardinality(messages'[t])
             = IF t = u THEN Cardinality(messages[t]) + 1 ELSE Cardinality(messages[t])
      <4>1. ASSUME NEW t \in Tasks, t # u PROVE MadeOf(t)' = MadeOf(t)
        BY <1>s, <4>1 DEF SameOnce
      <4> QED BY <2>5, <3>1, <4>1 DEF MadeOf
    <3> QED BY <3>2
  <2>9. Once!Use(u)
    BY <2>6, <2>7, <2>8 DEF Once!Use
  <2> QED BY <2>9 DEF Once!OnceNext
<1>5. CASE messages' = messages /\ where # "granted"
  <2> USE DEF ExecutorMove
  <2>1. CASE state'[u] = state[u] /\ pc[u][m] # "granted"
    <3>1. OutcomeOf(u)' = OutcomeOf(u)
      BY <2>1 DEF OutcomeOf
    <3> QED BY <1>5, <1>n, <2>1, <3>1
  <2>2. CASE state'[u] = state[u] /\ pc[u][m] = "granted"
    <3>1. /\ PermitOf(u) = "granted" /\ messages[u] = {}
          /\ state[u] = "finalizing" \/ OutcomeOf(u) = "failed"
          /\ \A k \in Attempts : pc[u][k] = "granted" => k = m
      BY <2>2, GrantedOnce
    <3>2. OutcomeOf(u)' = OutcomeOf(u) /\ MadeOf(u)' = MadeOf(u)
      BY <1>5, <2>2 DEF OutcomeOf, MadeOf
    <3>3. CASE state[u] = "finalizing"
      <4>1. PermitOf(u)' = "granted"
        BY <1>5, <2>2, <3>1, <3>3 DEF PermitOf
      <4> QED BY <1>s, <3>1, <3>2, <4>1, OnceStutters DEF SameOnce
    <3>4. CASE state[u] # "finalizing"
      <4>1. \A k \in Attempts : pc'[u][k] # "granted"
        BY <1>2, <1>5, <3>1
      <4>2. PermitOf(u)' = "none" /\ OutcomeOf(u) = "failed"
        BY <1>5, <2>2, <3>1, <3>4, <4>1 DEF PermitOf
      <4>3. Once!Forfeit(u)
        BY <1>e, <3>1, <3>2, <4>2, Mapping DEF Once!Forfeit, MadeOf
      <4> QED BY <4>3 DEF Once!OnceNext
    <3> QED BY <3>3, <3>4
  <2>3. CASE CompleteAttempt(u, m) /\ ValidCurrent(u, m, {"finalizing"})
    <3>1. /\ pc[u][m] = "sent" /\ state[u] = "finalizing"
          /\ TerminalLocked({u}, "completed")
      BY <2>3 DEF CompleteAttempt, ValidCurrent
    <3>2. state'[u] = "completed"
      BY <3>1 DEF TerminalLocked, NotYetTerminal, Terminal
    <3>3. messages[u] # {}
      BY <3>1 DEF SchedulerInv, ConfirmedInv, ConfirmedOK
    <3>4. /\ OutcomeOf(u) = "open" /\ OutcomeOf(u)' = "done"
          /\ PermitOf(u) = "used" /\ PermitOf(u)' = "used"
          /\ MadeOf(u)' = MadeOf(u)
      BY <1>5, <3>1, <3>2, <3>3 DEF OutcomeOf, PermitOf, MadeOf
    <3>5. Once!Complete(u)
      BY <1>e, <3>4, Mapping DEF Once!Complete, MadeOf
    <3> QED BY <3>5 DEF Once!OnceNext
  <2>4. CASE FailAttempt(u, m) /\ ValidCurrent(u, m, {"active", "finalizing"})
    <3>1. TerminalLocked({u}, "failed") /\ pc[u][m] = "failing"
      BY <2>4 DEF FailAttempt
    <3>2. \A t \in Tasks, n \in Attempts :
             pc'[t][n] = "granted" <=> pc[t][n] = "granted"
      BY <1>2, <1>5, <3>1
    <3>3. Once!Fail(NotYetTerminal({u}) \cap Tasks)
      BY <1>5, <3>1, <3>2, TerminalFails
    <3> QED BY <3>3 DEF Once!OnceNext
  <2>5. CASE GrantFinalize(u, m)
    <3>1. state' = state
      <4>1. pc'[u][m] # "granted"
        BY <1>2, <1>5
      <4>2. ~ValidCurrent(u, m, {"active"})
        BY <2>5, <4>1 DEF GrantFinalize, Goto, TypeInv, TypeOK, WorkerType
      <4> QED BY <2>5, <4>2 DEF GrantFinalize
    <3> QED BY <2>1, <2>2, <3>1
  <2> QED BY <2>1, <2>2, <2>3, <2>4, <2>5, ExecutorChange DEF ExecutorChanges
<1> QED BY <1>1, <1>3, <1>4, <1>5, <1>o DEF ExecutorSends

\* A step of a segment that is neither finished nor granted to one of the same
\* kind, its messages alone, is invisible.
LEMMA OpenStutters ==
    ASSUME TypeInv, NEW t \in Tasks, messages' = messages,
           \A n \in Attempts : pc'[t][n] = "granted" <=> pc[t][n] = "granted",
           \/ state'[t] = state[t]
           \/ state[t] \notin {"finalizing"} \cup Terminal
              /\ state'[t] \notin {"finalizing"} \cup Terminal
    PROVE  SameOnce(t)
BY DEF SameOnce, OutcomeOf, PermitOf, MadeOf, Terminal

\* Part sends are invisible.
LEMMA PartOnce ==
    ASSUME TypeInv, NEW u \in Tasks, NEW m \in Attempts, NEW q \in Parts,
           PartStep(u, m, q) \/ LateRequestSucceeded(u, m, q)
    PROVE  UNCHANGED Once!onceVars
<1> USE DEF telegramVars, taskVars, lifeVars, workerVars
<1> DEFINE Kept ==
      /\ UNCHANGED <<state, messages>>
      /\ \/ pc' = pc
         \/ pc[u][m] = "upload" /\ pc' = [pc EXCEPT ![u][m] = "failing"]
<1>1. Kept
  <2>1. CASE BeginRequest(u, m, q) \/ BeginRequestRejected(u, m, q)
    BY <2>1 DEF BeginRequest, BeginRequestRejected
  <2>2. CASE RequestSucceeded(u, m, q) \/ PremiumFlood(u, m, q)
    BY <2>2 DEF RequestSucceeded, PremiumFlood
  <2>3. CASE RequestFailed(u, m, q) \/ LateRequestSucceeded(u, m, q)
    BY <2>3 DEF RequestFailed, LateRequestSucceeded
  <2>4. CASE RequestSettled(u, m, q)
    BY <2>4 DEF RequestSettled
  <2> QED BY <2>1, <2>2, <2>3, <2>4 DEF PartStep
<1>2. \A t \in Tasks, n \in Attempts :
         pc'[t][n] = "granted" <=> pc[t][n] = "granted"
  <2>1. CASE pc' = pc
    BY <2>1
  <2>2. CASE pc[u][m] = "upload" /\ pc' = [pc EXCEPT ![u][m] = "failing"]
    <3>1. \A t \in Tasks, n \in Attempts :
             pc'[t][n] = IF t = u /\ n = m THEN "failing" ELSE pc[t][n]
      BY <2>2 DEF TypeInv, TypeOK, WorkerType
    <3> QED BY <2>2, <3>1
  <2> QED BY <1>1, <2>1, <2>2
<1> QED BY <1>1, <1>2, OpenStutters, OnceStutters

\* The loop's endings are Fail; claims and migrations are invisible.
LEMMA LoopOnce ==
    ASSUME TypeInv, SchedulerInv, LoopStep
    PROVE  [Once!OnceNext]_(Once!onceVars)
<1> USE DEF telegramVars, taskVars, lifeVars, workerVars, loopVars
<1>1. CASE \/ TakeExecutorCompletions \/ LoopBreak \/ SelectNothing
           \/ NextDeadline \/ WaitForChange
  <2>1. UNCHANGED <<state, messages, pc>>
    BY <1>1 DEF TakeExecutorCompletions, LoopBreak, SelectNothing,
       NextDeadline, WaitForChange
  <2> QED BY <2>1, OpenStutters, OnceStutters
<1>2. CASE Submit
  <2>1. /\ UNCHANGED <<state, messages>> /\ lpc = "submit"
        /\ Goto(action[1], action[2], "queued")
    BY <1>2 DEF Submit
  <2>2. action \in Claims
    BY <2>1 DEF TypeInv, SubmitInv
  <2>3. pc[action[1]][action[2]] = "none"
    BY <2>1, <2>2 DEF SchedulerInv, LoopInv, LoopOK, Claims
  <2>4. \A t \in Tasks, n \in Attempts :
           pc'[t][n] = "granted" <=> pc[t][n] = "granted"
    BY <2>1, <2>2, <2>3 DEF Goto, Claims, TypeInv, TypeOK, WorkerType
  <2> QED BY <2>1, <2>4, OpenStutters, OnceStutters
<1>3. ASSUME NEW T, TerminalLocked(T, "failed"), UNCHANGED <<messages, pc>>
      PROVE  Once!OnceNext
  <2>1. Once!Fail(NotYetTerminal(T) \cap Tasks)
    BY <1>3, TerminalFails
  <2> QED BY <2>1 DEF Once!OnceNext
<1>4. ASSUME NEW t \in Tasks, NEW n \in Attempts, ExecutorFinished(t, n)
      PROVE  Once!OnceNext
  BY <1>3, <1>4 DEF ExecutorFinished
<1>5. ASSUME NEW t \in Tasks, SelectReplacementFails(t) PROVE Once!OnceNext
  BY <1>3, <1>5 DEF SelectReplacementFails
<1>6. CASE SubmissionFailed
  BY <1>3, <1>6 DEF SubmissionFailed
<1>7. ASSUME NEW t \in Tasks, NEW now, UNCHANGED <<messages, pc>>,
             state' = [state EXCEPT ![t] = now],
             state[t] \in {"pending", "active", "migrating"},
             now \in {"active", "migrating"}
      PROVE  UNCHANGED Once!onceVars
  <2>1. \A u \in Tasks :
           \/ state'[u] = state[u]
           \/ state[u] \notin {"finalizing"} \cup Terminal
              /\ state'[u] \notin {"finalizing"} \cup Terminal
    BY <1>7 DEF TypeInv, TypeOK, TaskType, Terminal
  <2> QED BY <1>7, <2>1, OpenStutters, OnceStutters
<1>8. ASSUME NEW t \in Tasks, SelectReplacement(t) PROVE UNCHANGED Once!onceVars
  <2>1. /\ UNCHANGED <<messages, pc>> /\ state[t] = "migrating"
        /\ state' = [state EXCEPT ![t] = "active"]
    BY <1>8 DEF SelectReplacement, InstallActive, FirstReady, ReplacementReady
  <2> QED BY <1>7, <2>1
<1>9. ASSUME NEW t \in Tasks, NEW a \in Accounts, SelectPending(t, a)
      PROVE  UNCHANGED Once!onceVars
  <2>1. /\ UNCHANGED <<messages, pc>> /\ state[t] = "pending"
        /\ state' = [state EXCEPT ![t] = "active"]
    BY <1>9 DEF SelectPending, InstallActive, FirstPending
  <2> QED BY <1>7, <2>1
<1>10. ASSUME NEW t \in Tasks, NEW a \in Accounts, CommitMigration(a, t)
       PROVE  UNCHANGED Once!onceVars
  <2>1. /\ UNCHANGED <<messages, pc>> /\ state[t] = "active"
        /\ state' = [state EXCEPT ![t] = "migrating"]
    BY <1>10 DEF CommitMigration, Scores, Candidate
  <2> QED BY <1>7, <2>1
<1> QED BY <1>1, <1>2, <1>4, <1>5, <1>6, <1>8, <1>9, <1>10 DEF LoopStep

\* Every step of the scheduler is a step of SegmentOnce or invisible to it.
LEMMA NextOnce ==
    ASSUME TypeInv, GrantInv, SchedulerInv, [Next]_vars
    PROVE  [Once!OnceNext]_(Once!onceVars)
<1> USE DEF telegramVars, taskVars, lifeVars, workerVars, vars
<1>1. ASSUME UNCHANGED <<state, messages, pc>> PROVE UNCHANGED Once!onceVars
  BY <1>1, OpenStutters, OnceStutters
<1>2. ASSUME NEW t \in Tasks, FloodAges(t) PROVE UNCHANGED Once!onceVars
  BY <1>1, <1>2 DEF FloodAges
<1>3. ASSUME NEW a \in Accounts, PoolStep(a) PROVE UNCHANGED Once!onceVars
  BY <1>1, <1>3 DEF PoolStep
<1>4. CASE Finished \/ UNCHANGED vars
  BY <1>1, <1>4 DEF Finished
<1> QED BY <1>2, <1>3, <1>4, PartOnce, ExecutorOnce, LoopOnce DEF Next

(***************************************************************************)
(* The scheduler implements SegmentOnce: grant_finalize gives at most one  *)
(* permit per segment, a permit makes at most one message, and a segment   *)
(* is completed only with its message, whatever migrations, failures and   *)
(* aborts do in between.                                                   *)
(***************************************************************************)
THEOREM ImplementsOnce == Spec => ImplementsSegmentOnce
<1>1. Init => Once!OnceInit
  <2> SUFFICES ASSUME Init PROVE Once!OnceInit
    OBVIOUS
  <2>1. \A t \in Tasks : Outcome[t] = "open" /\ Permit[t] = "none"
    BY DEF Init, Outcome, Permit
  <2>2. \A t \in Tasks : Cardinality(messages[t]) = 0
    BY FS_EmptySet DEF Init
  <2> QED BY <2>1, <2>2 DEF Once!OnceInit, Outcome, Permit
<1>2. TypeInv /\ GrantInv /\ SchedulerInv /\ [Next]_vars
         => [Once!OnceNext]_(Once!onceVars)
  BY NextOnce
<1> QED BY <1>1, <1>2, TypeInvariant, GrantInvariant, SchedulerInvariant, PTL
        DEF Spec, ImplementsSegmentOnce, Once!OnceSpec
=============================================================================
