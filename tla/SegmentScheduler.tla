--------------------------- MODULE SegmentScheduler ---------------------------
(***************************************************************************)
(* The upload of one large file: the central SegmentScheduler              *)
(* (segment_scheduler.py) with the loop and the executor threads that      *)
(* drive it (upload_engine.py), the part sends of each attempt             *)
(* (tgupload.py) and the shared account pool.                              *)
(*                                                                         *)
(* A segment (task) is uploaded part by part under an account's lease.  A  *)
(* premium flood may make the scheduler migrate it once, to an idle        *)
(* account, where it starts over as attempt 2 after attempt 1 has drained. *)
(* When all bytes of the current attempt are in, the lease is closed and   *)
(* the attempt is granted the right to create the Telegram message.        *)
(*                                                                         *)
(* Actors: the loop, one executor thread per claimed attempt, the worker   *)
(* event loop that sends parts, Telegram, and other uploads of the pool.   *)
(* Each scheduler method is one step (it runs under _condition).  Clocks   *)
(* are abstracted: when a candidate is old enough and scores above the     *)
(* threshold, and when a flood or a snapshot is too old, is left open.     *)
(***************************************************************************)
EXTENDS AccountPool

CONSTANTS
    NumParts,             \* upload parts of a segment
    SegmentConcurrency,   \* UploadEngine._segment_concurrency
    MaxFaults,            \* bound on floods, failures and raised errors
    PoolMayStop           \* the pool may be stopped while the upload runs

ASSUME SchedulerAssumption ==
    /\ NumParts \in Nat \ {0}
    /\ SegmentConcurrency \in Nat \ {0}
    /\ MaxFaults \in Nat
    /\ PoolMayStop \in BOOLEAN

Parts == 1..NumParts
Attempts == 1..2
NoAttempt == 0

\* SegmentState
Terminal == {"completed", "failed"}
SegmentState == {"pending", "active", "migrating", "finalizing"} \cup Terminal

VARIABLES
    (* SegmentTask *)
    state, attempt, account, migrations, attempted, draining,
    parts,         \* completed_part_indices; the logical bytes they stand for
    tokens,        \* attempt_in_flight_rpcs
    flooded,       \* a premium flood within PREMIUM_RECENCY
    resv,          \* reserved_account_id
    lease,         \* account of active_upload_lease
    leaseAttempt,  \* active_upload_attempt_id
    quiescent,     \* executor_quiescent
    handle,        \* a revoke handle is bound
    result,        \* attempt whose message is the task's result
    (* executor thread and event loop, per attempt *)
    claimed,       \* account of the claimed attempt (_claimed_attempts)
    pc, rpc,
    revoke,        \* revoke() was called on the attempt's handle
    raised,        \* the future ends in an exception
    (* Telegram *)
    confirmed,     \* parts of the attempt's upload Telegram has confirmed
    late,          \* timed-out RPCs that may still be confirmed
    messages,      \* attempts that created a message for the segment
    (* scheduler and loop *)
    lpc,
    action,        \* the SchedulerAction being submitted, <<task, attempt>>
    submitted, completions, taken,
    failure,       \* _scheduler_failure is set
    silent,        \* ... because an executor returned without an outcome
    changed,       \* _version differs from the loop's observed_version
    timed,         \* the loop waits with a deadline
    faults

progressVars == <<parts, tokens, flooded>>
lifeVars == <<state, attempt, account, migrations, attempted, draining, resv,
              handle, result>>
leaseVars == <<lease, leaseAttempt, quiescent>>
taskVars == <<progressVars, lifeVars, leaseVars>>
workerVars == <<claimed, pc, rpc, revoke, raised>>
telegramVars == <<confirmed, late, messages>>
loopVars == <<lpc, action, submitted, completions, taken, failure, silent,
              timed>>
vars == <<poolVars, taskVars, workerVars, telegramVars, loopVars, changed,
          faults>>

NoClaim == <<NoTask, NoAttempt>>
Claims == Tasks \X Attempts

-----------------------------------------------------------------------------
(* What the scheduler looks at *)

\* _valid_current: events of a superseded or finished attempt are ignored.
ValidCurrent(t, n, allowed) ==
    /\ state[t] \in allowed \ Terminal
    /\ attempt[t] = n
    /\ account[t] = claimed[t][n]

AllTerminal == \A t \in Tasks : state[t] \in Terminal

\* Mutant of AllBytes: `>' for `>=', the last part never counts.
MutAllBytesStrict(t) == Cardinality(parts[t]) > NumParts

\* logical_uploaded_bytes >= size
AllBytes(t) == parts[t] = Parts

\* borrow_runtime, bytes_prepared: the attempt owns the scheduler's lease.
OwnsLease(t, n) == lease[t] # NoAccount /\ leaseAttempt[t] = n

NoRpcInFlight(t, n) == \A p \in Parts : rpc[t][n][p] \in {"idle", "done", "gone"}

-----------------------------------------------------------------------------
(* The shared endings: closing the owned lease, and going terminal *)

\* Mutant of Closable: the tokens still in flight are not consulted.
MutClosableInFlight(t) ==
    LET n == leaseAttempt[t] IN
    /\ lease[t] # NoAccount
    /\ \/ state'[t] \in {"migrating"} \cup Terminal
       \/ draining'[t] = n

(***************************************************************************)
(* _maybe_close_owned_locked, for the claims it is called on: the lease    *)
(* goes once its attempt has no token, its executor is quiescent and the   *)
(* task no longer uploads under it.  Reads the caller's assignments.       *)
(***************************************************************************)
Closable(t) ==
    LET n == leaseAttempt[t] IN
    /\ lease[t] # NoAccount
    /\ tokens'[t][n] = {}
    /\ n \in quiescent'[t]
    /\ \/ state'[t] \in {"migrating"} \cup Terminal
       \/ draining'[t] = n

\* Mutant of ReleaseLeases: the task keeps the lease it has closed.
MutReleaseKeepsLease(T) ==
    /\ UNCHANGED <<lease, leaseAttempt>>
    /\ CloseLeases({<<lease[t], t>> : t \in T})

ReleaseLeases(T) ==
    /\ lease' = [t \in Tasks |-> IF t \in T THEN NoAccount ELSE lease[t]]
    /\ leaseAttempt' = [t \in Tasks |->
                           IF t \in T THEN NoAttempt ELSE leaseAttempt[t]]
    /\ CloseLeases({<<lease[t], t>> : t \in T})

MaybeCloseOwned(claims) ==
    ReleaseLeases({t \in Tasks : <<t, leaseAttempt[t]>> \in claims /\ Closable(t)})

\* Mutant of NotYetTerminal: a finished task can be failed.
MutTerminalAgain(T) == T

\* _terminal_locked returns early for a task that already has its outcome.
NotYetTerminal(T) == {t \in T : state[t] \notin Terminal}

(***************************************************************************)
(* _terminal_locked for every task of T that is not terminal yet: release  *)
(* its reservation and ask its bound handle to revoke.  The callers        *)
(* conjoin MaybeCloseOwned for the attempts that own the leases.           *)
(***************************************************************************)
TerminalLocked(T, outcome) ==
    LET U == NotYetTerminal(T) IN
    /\ state' = [t \in Tasks |-> IF t \in U THEN outcome ELSE state[t]]
    /\ account' = [t \in Tasks |-> IF t \in U THEN NoAccount ELSE account[t]]
    /\ handle' = [t \in Tasks |-> handle[t] /\ t \notin U]
    /\ revoke' = [t \in Tasks |-> [n \in Attempts |->
                    revoke[t][n] \/ (t \in U /\ handle[t] /\ n = attempt[t])]]
    /\ resv' = [t \in Tasks |-> IF t \in U THEN NoAccount ELSE resv[t]]
    /\ reserved' = [a \in Accounts |->
                      IF reserved[a] \in U /\ resv[reserved[a]] = a
                      THEN NoTask ELSE reserved[a]]
    /\ UNCHANGED <<attempt, migrations, attempted, draining>>

OwnedBy(T) == {<<t, leaseAttempt[t]>> : t \in T}

-----------------------------------------------------------------------------
(* Part sends: send_part and _upload_parts on the worker's event loop *)

StillSending(t, n) == pc[t][n] \in {"upload", "failing", "revoked"}

\* begin_request: the point of no return of one part.
BeginRequest(t, n, p) ==
    /\ pc[t][n] = "upload"
    /\ rpc[t][n][p] = "idle"
    /\ ValidCurrent(t, n, {"active"})
    /\ tokens' = [tokens EXCEPT ![t][n] = @ \cup {p}]
    /\ requests' = [requests EXCEPT ![claimed[t][n]] = @ \cup {<<t, n, p>>}]
    /\ rpc' = [rpc EXCEPT ![t][n][p] = "sent"]
    /\ changed' = TRUE
    /\ UNCHANGED <<slots, jobs, reserved, eligible, rr, parts, flooded,
                   lifeVars, leaseVars, claimed, pc, revoke, raised,
                   telegramVars, loopVars, faults>>
    /\ ChangeLocked({claimed[t][n]})

\* begin_request raises for a superseded attempt; the upload unwinds.
BeginRequestRejected(t, n, p) ==
    /\ pc[t][n] = "upload"
    /\ rpc[t][n][p] = "idle"
    /\ ~ValidCurrent(t, n, {"active"})
    /\ pc' = [pc EXCEPT ![t][n] = "failing"]
    /\ UNCHANGED <<poolVars, taskVars, claimed, rpc, revoke, raised,
                   telegramVars, loopVars, changed, faults>>

\* request_succeeded: physical_success, then part_succeeded if still current.
RequestSucceeded(t, n, p) ==
    /\ StillSending(t, n)
    /\ rpc[t][n][p] = "sent"
    /\ confirmed' = [confirmed EXCEPT ![t][n] = @ \cup {p}]
    /\ parts' = IF ValidCurrent(t, n, {"active"})
                THEN [parts EXCEPT ![t] = @ \cup {p}] ELSE parts
    /\ rpc' = [rpc EXCEPT ![t][n][p] = "ok"]
    /\ changed' = TRUE
    /\ UNCHANGED <<poolVars, tokens, flooded, lifeVars, leaseVars, claimed, pc,
                   revoke, raised, late, messages, loopVars, faults>>

\* FLOOD_PREMIUM_WAIT: notify_premium_flood if current; the part is retried.
PremiumFlood(t, n, p) ==
    /\ faults < MaxFaults
    /\ StillSending(t, n)
    /\ rpc[t][n][p] = "sent"
    /\ IF ValidCurrent(t, n, {"active"})
       THEN flooded' = [flooded EXCEPT ![t] = TRUE] /\ changed' = TRUE
       ELSE UNCHANGED <<flooded, changed>>
    /\ rpc' = [rpc EXCEPT ![t][n][p] = "retry"]
    /\ faults' = faults + 1
    /\ UNCHANGED <<poolVars, parts, tokens, lifeVars, leaseVars, claimed, pc,
                   revoke, raised, telegramVars, loopVars>>

\* Mutant of RequestFailed: a timeout is taken for an answer.
MutTimeoutIsSuccess(t, n, p) ==
    /\ faults < MaxFaults
    /\ StillSending(t, n)
    /\ rpc[t][n][p] = "sent"
    /\ rpc' = [rpc EXCEPT ![t][n][p] = "ok"]
    /\ late' = [late EXCEPT ![t][n] = @ \cup {p}]
    /\ parts' = [parts EXCEPT ![t] = @ \cup {p}]
    /\ faults' = faults + 1
    /\ UNCHANGED <<poolVars, tokens, flooded, lifeVars, leaseVars, claimed, pc,
                   revoke, raised, confirmed, messages, loopVars, changed>>

(***************************************************************************)
(* The RPC fails or times out after 120 s; a timed-out one is observed and *)
(* may still be confirmed.  Which of the PART_RETRIES tries is the last,   *)
(* "dead", is left open.                                                   *)
(***************************************************************************)
RequestFailed(t, n, p) ==
    /\ faults < MaxFaults
    /\ StillSending(t, n)
    /\ rpc[t][n][p] = "sent"
    /\ \E end \in {"retry", "dead"}, timeout \in BOOLEAN :
          /\ rpc' = [rpc EXCEPT ![t][n][p] = end]
          /\ late' = IF timeout THEN [late EXCEPT ![t][n] = @ \cup {p}] ELSE late
    /\ faults' = faults + 1
    /\ UNCHANGED <<poolVars, taskVars, claimed, pc, revoke, raised, confirmed,
                   messages, loopVars, changed>>

\* Mutant of AfterSettle: send_part's loop goes on after a success.
MutSendAgain(end) == IF end = "dead" THEN "gone" ELSE "idle"

\* What becomes of a part: sent, to be retried, or given up.
AfterSettle(end) ==
    IF end = "ok" THEN "done" ELSE IF end = "retry" THEN "idle" ELSE "gone"

(***************************************************************************)
(* request_settled, in the finally of send_part, for every outcome: the    *)
(* token leaves the task and the account, and the lease may follow.  A     *)
(* part whose last try failed makes _upload_parts stop the others.         *)
(***************************************************************************)
RequestSettled(t, n, p) ==
    LET end == rpc[t][n][p] IN
    /\ end \in {"ok", "retry", "dead"}
    /\ rpc' = [rpc EXCEPT ![t][n][p] = AfterSettle(end)]
    /\ pc' = IF end = "dead" /\ pc[t][n] = "upload"
             THEN [pc EXCEPT ![t][n] = "failing"] ELSE pc
    /\ tokens' = [tokens EXCEPT ![t][n] = @ \ {p}]
    /\ requests' = [requests EXCEPT ![claimed[t][n]] = @ \ {<<t, n, p>>}]
    /\ changed' = TRUE
    /\ UNCHANGED <<reserved, eligible, rr, parts, flooded, lifeVars, quiescent,
                   claimed, revoke, raised, telegramVars, loopVars, faults>>
    /\ MaybeCloseOwned({<<t, n>>})
    /\ ChangeLocked({})

\* late_request_succeeded: physical traffic only.
LateRequestSucceeded(t, n, p) ==
    /\ p \in late[t][n]
    /\ late' = [late EXCEPT ![t][n] = @ \ {p}]
    /\ confirmed' = [confirmed EXCEPT ![t][n] = @ \cup {p}]
    /\ changed' = TRUE
    /\ UNCHANGED <<poolVars, taskVars, workerVars, messages, loopVars, faults>>

\* call_soon_threadsafe(event.set) runs: no further part of the attempt starts.
RevokeLands(t, n) ==
    /\ revoke[t][n]
    /\ pc[t][n] = "upload"
    /\ pc' = [pc EXCEPT ![t][n] = "revoked"]
    /\ UNCHANGED <<poolVars, taskVars, claimed, rpc, revoke, raised,
                   telegramVars, loopVars, changed, faults>>

-----------------------------------------------------------------------------
(* The executor thread of a claim: _execute_scheduler_action *)

Goto(t, n, where) == pc' = [pc EXCEPT ![t][n] = where]

\* Threads of the file's ThreadPoolExecutor that are in use.
Running == {c \in Claims : pc[c[1]][c[2]] \notin {"none", "queued", "done"}}

FreeThread ==
    Cardinality(Running) < NumTasks /\ Cardinality(Running) < SegmentConcurrency

\* borrow_runtime: a claim that is no longer current returns at once.
BorrowRuntime(t, n) ==
    /\ pc[t][n] = "queued"
    /\ FreeThread
    /\ Goto(t, n, IF /\ ValidCurrent(t, n, {"active"})
                     /\ OwnsLease(t, n)
                     /\ lease[t] = claimed[t][n]
                  THEN "borrowed" ELSE "returning")
    /\ UNCHANGED <<poolVars, taskVars, claimed, rpc, revoke, raised,
                   telegramVars, loopVars, changed, faults>>

\* bind_revoke_handle succeeds, and the byte upload starts.
BindRevokeHandle(t, n) ==
    /\ pc[t][n] = "borrowed"
    /\ ValidCurrent(t, n, {"active"})
    /\ handle' = [handle EXCEPT ![t] = TRUE]
    /\ Goto(t, n, "upload")
    /\ changed' = TRUE
    /\ UNCHANGED <<poolVars, progressVars, state, attempt, account, migrations,
                   attempted, draining, resv, result, leaseVars, claimed, rpc,
                   revoke, raised, telegramVars, loopVars, faults>>

\* bind_revoke_handle refuses a claim that is no longer current.
BindRefused(t, n) ==
    /\ pc[t][n] = "borrowed"
    /\ ~ValidCurrent(t, n, {"active"})
    /\ quiescent' = [quiescent EXCEPT ![t] = @ \cup {n}]
    /\ Goto(t, n, "returning")
    /\ changed' = TRUE
    /\ UNCHANGED <<requests, reserved, eligible, rr, progressVars, lifeVars,
                   claimed, rpc, revoke, raised, telegramVars, loopVars, faults>>
    /\ MaybeCloseOwned({<<t, n>>})
    /\ ChangeLocked({})

\* create_revoke_handle or opening the segment's reader raises: outside the
\* try statement, so nothing marks the attempt quiescent here.
SetupRaises(t, n) ==
    /\ faults < MaxFaults
    /\ pc[t][n] = "borrowed"
    /\ \E bound \in BOOLEAN :
          handle' = [handle EXCEPT ![t] =
                        @ \/ (bound /\ ValidCurrent(t, n, {"active"}))]
    /\ raised' = [raised EXCEPT ![t][n] = TRUE]
    /\ Goto(t, n, "returning")
    /\ changed' = TRUE
    /\ faults' = faults + 1
    /\ UNCHANGED <<poolVars, progressVars, state, attempt, account, migrations,
                   attempted, draining, resv, result, leaseVars, claimed, rpc,
                   revoke, telegramVars, loopVars>>

\* prepare_segment returns: every part was sent, even if a revoke came late.
PrepareSegment(t, n) ==
    /\ pc[t][n] \in {"upload", "revoked"}
    /\ \A p \in Parts : rpc[t][n][p] = "done"
    /\ Goto(t, n, "prepared")
    /\ UNCHANGED <<poolVars, taskVars, claimed, rpc, revoke, raised,
                   telegramVars, loopVars, changed, faults>>

\* prepare_segment raises AttemptRevoked: return, with no outcome reported.
AttemptRevoked(t, n) ==
    /\ pc[t][n] = "revoked"
    /\ NoRpcInFlight(t, n)
    /\ \E p \in Parts : rpc[t][n][p] # "done"
    /\ Goto(t, n, "finally")
    /\ UNCHANGED <<poolVars, taskVars, claimed, rpc, revoke, raised,
                   telegramVars, loopVars, changed, faults>>

\* prepare_thumbnail fails; only the first segment carries the preview.
ThumbnailFails(t, n) ==
    /\ faults < MaxFaults
    /\ t = 1
    /\ pc[t][n] = "prepared"
    /\ Goto(t, n, "failing")
    /\ faults' = faults + 1
    /\ UNCHANGED <<poolVars, taskVars, claimed, rpc, revoke, raised,
                   telegramVars, loopVars, changed>>

\* bytes_prepared: the lease is given back before the message is created.
BytesPrepared(t, n) ==
    /\ pc[t][n] = "prepared"
    /\ IF /\ ValidCurrent(t, n, {"active"})
          /\ AllBytes(t)
          /\ tokens[t][n] = {}
          /\ OwnsLease(t, n)
       THEN /\ Goto(t, n, "bytes")
            /\ changed' = TRUE
            /\ ReleaseLeases({t})
       ELSE /\ Goto(t, n, "finally")
            /\ UNCHANGED <<changed, lease, leaseAttempt, jobs, slots>>
    /\ UNCHANGED <<requests, reserved, eligible, rr, progressVars, lifeVars,
                   quiescent, claimed, rpc, revoke, raised, telegramVars,
                   loopVars, faults>>
    /\ ChangeLocked({})

\* grant_finalize: the right to create the segment's message.
GrantFinalize(t, n) ==
    /\ pc[t][n] = "bytes"
    /\ IF ValidCurrent(t, n, {"active"})
       THEN /\ state' = [state EXCEPT ![t] = "finalizing"]
            /\ Goto(t, n, "granted")
            /\ changed' = TRUE
       ELSE /\ Goto(t, n, "finally")
            /\ UNCHANGED <<state, changed>>
    /\ UNCHANGED <<poolVars, progressVars, attempt, account, migrations,
                   attempted, draining, resv, handle, result, leaseVars,
                   claimed, rpc, revoke, raised, telegramVars, loopVars, faults>>

\* send_uploaded_segment creates the message.
SendUploadedSegment(t, n) ==
    /\ pc[t][n] = "granted"
    /\ messages' = [messages EXCEPT ![t] = @ \cup {n}]
    /\ Goto(t, n, "sent")
    /\ UNCHANGED <<poolVars, taskVars, claimed, rpc, revoke, raised, confirmed,
                   late, loopVars, changed, faults>>

\* send_uploaded_segment raises, before or after Telegram created the message.
SendRaises(t, n) ==
    /\ faults < MaxFaults
    /\ pc[t][n] = "granted"
    /\ \E created \in BOOLEAN :
          messages' = IF created THEN [messages EXCEPT ![t] = @ \cup {n}]
                      ELSE messages
    /\ Goto(t, n, "failing")
    /\ faults' = faults + 1
    /\ UNCHANGED <<poolVars, taskVars, claimed, rpc, revoke, raised, confirmed,
                   late, loopVars, changed>>

\* complete_attempt; a refusal raises and ends in fail_attempt.
CompleteAttempt(t, n) ==
    /\ pc[t][n] = "sent"
    /\ IF ValidCurrent(t, n, {"finalizing"})
       THEN /\ result' = [result EXCEPT ![t] = n]
            /\ TerminalLocked({t}, "completed")
            /\ Goto(t, n, "finally")
            /\ changed' = TRUE
       ELSE /\ Goto(t, n, "failing")
            /\ UNCHANGED <<lifeVars, reserved, revoke, changed>>
    /\ UNCHANGED <<requests, eligible, rr, progressVars, quiescent, claimed,
                   rpc, raised, telegramVars, loopVars, faults>>
    /\ MaybeCloseOwned(IF state'[t] # state[t] THEN OwnedBy({t}) ELSE {})
    /\ ChangeLocked({})

\* fail_attempt, once every sibling part has settled.
FailAttempt(t, n) ==
    /\ pc[t][n] = "failing"
    /\ NoRpcInFlight(t, n)
    /\ IF ValidCurrent(t, n, {"active", "finalizing"})
       THEN TerminalLocked({t}, "failed") /\ changed' = TRUE
       ELSE UNCHANGED <<state, attempt, account, migrations, attempted,
                        draining, resv, handle, reserved, revoke, changed>>
    /\ Goto(t, n, "finally")
    /\ UNCHANGED <<requests, eligible, rr, progressVars, result, quiescent,
                   claimed, rpc, raised, telegramVars, loopVars, faults>>
    /\ MaybeCloseOwned(IF state'[t] # state[t] THEN OwnedBy({t}) ELSE {})
    /\ ChangeLocked({})

\* AssertionError, TypeError, AttributeError and BaseException escape the try.
ActionRaises(t, n) ==
    /\ faults < MaxFaults
    /\ pc[t][n] \in {"failing", "prepared", "bytes", "granted", "sent"}
    /\ NoRpcInFlight(t, n)
    /\ raised' = [raised EXCEPT ![t][n] = TRUE]
    /\ Goto(t, n, "finally")
    /\ faults' = faults + 1
    /\ UNCHANGED <<poolVars, taskVars, claimed, rpc, revoke, telegramVars,
                   loopVars, changed>>

\* attempt_quiesced, in the finally of the executor action.
AttemptQuiesced(t, n) ==
    /\ pc[t][n] = "finally"
    /\ quiescent' = [quiescent EXCEPT ![t] = @ \cup {n}]
    /\ Goto(t, n, "returning")
    /\ changed' = TRUE
    /\ UNCHANGED <<requests, reserved, eligible, rr, progressVars, lifeVars,
                   claimed, rpc, revoke, raised, telegramVars, loopVars, faults>>
    /\ MaybeCloseOwned({<<t, n>>})
    /\ ChangeLocked({})

\* The future is done: on_done calls enqueue_executor_completion.
EnqueueExecutorCompletion(t, n) ==
    /\ pc[t][n] = "returning"
    /\ completions' = completions \cup {<<t, n>>}
    /\ Goto(t, n, "done")
    /\ changed' = TRUE
    /\ UNCHANGED <<poolVars, taskVars, claimed, rpc, revoke, raised,
                   telegramVars, lpc, action, submitted, taken, failure, silent,
                   timed, faults>>

-----------------------------------------------------------------------------
(* The loop: _run_scheduler_loop *)

TakeExecutorCompletions ==
    /\ lpc = "take"
    /\ taken' = completions
    /\ completions' = {}
    /\ lpc' = "finish"
    /\ UNCHANGED <<poolVars, taskVars, workerVars, telegramVars, action,
                   submitted, failure, silent, timed, changed, faults>>

(***************************************************************************)
(* executor_finished: an escaped exception fails every task of the file; a *)
(* current attempt that is still active has returned without an outcome,   *)
(* which fails its own task.                                               *)
(***************************************************************************)
ExecutorFinished(t, n) ==
    LET returnedSilently ==
            ~raised[t][n] /\ state[t] = "active" /\ attempt[t] = n
        failing == IF raised[t][n] THEN Tasks
                   ELSE IF returnedSilently THEN {t} ELSE {}
    IN
    /\ lpc = "finish"
    /\ <<t, n>> \in taken
    /\ taken' = taken \ {<<t, n>>}
    /\ submitted' = submitted \ {<<t, n>>}
    /\ failure' = (failure \/ raised[t][n] \/ returnedSilently)
    /\ silent' = (silent \/ returnedSilently)
    /\ quiescent' = [quiescent EXCEPT ![t] = @ \cup {n}]
    /\ TerminalLocked(failing, "failed")
    /\ changed' = TRUE
    /\ UNCHANGED <<requests, eligible, rr, progressVars, result, claimed, pc,
                   rpc, raised, telegramVars, lpc, action, completions, timed,
                   faults>>
    /\ MaybeCloseOwned({<<t, n>>} \cup
          OwnedBy(NotYetTerminal(failing)))
    /\ ChangeLocked({})

\* Mutant of LoopBreak: outstanding futures are not waited for.
MutLoopBreakEarly ==
    /\ lpc = "finish"
    /\ taken = {}
    /\ AllTerminal
    /\ lpc' = "exit"
    /\ UNCHANGED <<poolVars, taskVars, workerVars, telegramVars, action,
                   submitted, completions, taken, failure, silent, timed,
                   changed, faults>>

\* All terminal and no future outstanding: the loop returns its results.
LoopBreak ==
    /\ lpc = "finish"
    /\ taken = {}
    /\ AllTerminal
    /\ submitted = {}
    /\ lpc' = "exit"
    /\ UNCHANGED <<poolVars, taskVars, workerVars, telegramVars, action,
                   submitted, completions, taken, failure, silent, timed,
                   changed, faults>>

\* The loop reaches select_next_action.
MaySelect ==
    /\ lpc = "finish"
    /\ taken = {}
    /\ ~(AllTerminal /\ submitted = {})
    /\ Cardinality(submitted) < SegmentConcurrency
    /\ ~failure

\* Mutant of ReplacementReady: the old executor need not have left.
MutReadyWhileRunning(t) ==
    /\ state[t] = "migrating"
    /\ tokens[t][draining[t]] = {}
    /\ resv[t] # NoAccount

(***************************************************************************)
(* _replacement_ready_locked: the old attempt has drained.  (If its lease  *)
(* were still open this call would close it, see SelectReplacement.)       *)
(***************************************************************************)
ReplacementReady(t) ==
    /\ state[t] = "migrating"
    /\ draining[t] # NoAttempt
    /\ tokens[t][draining[t]] = {}
    /\ draining[t] \in quiescent[t]
    /\ lease[t] = NoAccount \/ leaseAttempt[t] = draining[t]
    /\ resv[t] # NoAccount

\* The first ready replacement in index order.
FirstReady(t) ==
    ReplacementReady(t) /\ \A u \in Tasks : ReplacementReady(u) => t <= u

(***************************************************************************)
(* _install_active_locked: the task runs as attempt n on account a under   *)
(* a lease the caller has just taken, and the action is handed to submit.  *)
(***************************************************************************)
InstallActive(t, n, a) ==
    /\ state' = [state EXCEPT ![t] = "active"]
    /\ attempt' = [attempt EXCEPT ![t] = n]
    /\ account' = [account EXCEPT ![t] = a]
    /\ attempted' = [attempted EXCEPT ![t] = @ \cup {a}]
    /\ lease' = [lease EXCEPT ![t] = a]
    /\ leaseAttempt' = [leaseAttempt EXCEPT ![t] = n]
    /\ handle' = [handle EXCEPT ![t] = FALSE]
    /\ flooded' = [flooded EXCEPT ![t] = FALSE]
    /\ claimed' = [claimed EXCEPT ![t][n] = a]
    /\ action' = <<t, n>>
    /\ lpc' = "submit"
    /\ changed' = TRUE
    /\ UNCHANGED <<migrations, result, parts, tokens, quiescent, pc, rpc,
                   revoke, raised, telegramVars, submitted, completions, taken,
                   failure, silent, timed, faults>>

\* select_next_action: a drained migration is activated on its reservation.
SelectReplacement(t) ==
    LET a == resv[t]
        drained == {u \in {t} : lease[u] # NoAccount} IN
    /\ MaySelect
    /\ FirstReady(t)
    /\ CanActivateReservation(a, t)
    /\ jobs' = [b \in Accounts |->
                  {w \in jobs[b] : ~(w \in drained /\ b = lease[t])}
                     \cup (IF b = a THEN {t} ELSE {})]
    /\ slots' = [b \in Accounts |->
                  slots[b] + Cardinality({u \in drained : lease[u] = b})
                           - (IF b = a THEN 1 ELSE 0)]
    /\ reserved' = [reserved EXCEPT ![a] = NoTask]
    /\ resv' = [resv EXCEPT ![t] = NoAccount]
    /\ draining' = [draining EXCEPT ![t] = NoAttempt]
    /\ InstallActive(t, attempt[t], a)
    /\ UNCHANGED <<requests, eligible, rr>>
    /\ ChangeLocked({})

\* activate_reservation raises: the reservation goes and the task fails;
\* select_next_action carries on with the next task.
SelectReplacementFails(t) ==
    /\ MaySelect
    /\ FirstReady(t)
    /\ ~CanActivateReservation(resv[t], t)
    /\ TerminalLocked({t}, "failed")
    /\ changed' = TRUE
    /\ UNCHANGED <<requests, eligible, rr, progressVars, result, quiescent,
                   claimed, pc, rpc, raised, telegramVars, loopVars, faults>>
    /\ MaybeCloseOwned(OwnedBy({t}))
    /\ ChangeLocked({})

\* Mutant of Candidate: a segment whose message is being sent may migrate.
MutCandidateFinalizing(t) ==
    /\ state[t] \in {"active", "finalizing"}
    /\ migrations[t] = 0
    /\ flooded[t]

\* _candidate_locked, the clock conditions left open but for the flood.
Candidate(t) ==
    /\ state[t] = "active"
    /\ migrations[t] = 0
    /\ ~AllBytes(t)
    /\ flooded[t]

\* _score_locked may exceed SCORE_THRESHOLD for this target.
Scores(a, t) == Candidate(t) /\ a \notin attempted[t] /\ CanReserve(a)

\* select_next_action commits the best migration; commit_migration revokes the
\* running attempt and reserves the target.  No action is returned.
CommitMigration(a, t) ==
    /\ MaySelect
    /\ \A u \in Tasks : ~ReplacementReady(u)
    /\ Scores(a, t)
    /\ reserved' = [reserved EXCEPT ![a] = t]
    /\ state' = [state EXCEPT ![t] = "migrating"]
    /\ attempt' = [attempt EXCEPT ![t] = @ + 1]
    /\ draining' = [draining EXCEPT ![t] = attempt[t]]
    /\ account' = [account EXCEPT ![t] = NoAccount]
    /\ parts' = [parts EXCEPT ![t] = {}]
    /\ migrations' = [migrations EXCEPT ![t] = 1]
    /\ attempted' = [attempted EXCEPT ![t] = @ \cup {a}]
    /\ resv' = [resv EXCEPT ![t] = a]
    /\ handle' = [handle EXCEPT ![t] = FALSE]
    /\ revoke' = [revoke EXCEPT ![t][attempt[t]] = @ \/ handle[t]]
    /\ lpc' = "deadline"
    /\ changed' = TRUE
    /\ UNCHANGED <<slots, jobs, requests, eligible, rr, tokens, flooded,
                   leaseVars, result, claimed, pc, rpc, raised, telegramVars,
                   action, submitted, completions, taken, failure, silent,
                   timed, faults>>
    /\ ChangeLocked({a})

FirstPending(t) ==
    state[t] = "pending" /\ \A u \in Tasks : state[u] = "pending" => t <= u

\* select_next_action: the first pending task starts when no migration is due.
SelectPending(t, a) ==
    /\ MaySelect
    /\ \A u \in Tasks : ~ReplacementReady(u)
    /\ FirstPending(t)
    /\ AcquireUploadLease(a, t)
    /\ InstallActive(t, 1, a)
    /\ UNCHANGED <<requests, reserved, eligible, draining, resv>>
    /\ ChangeLocked({a})

(***************************************************************************)
(* No action: the loop is at its concurrency limit or the scheduler has    *)
(* failed; or nothing can start; or the target of the best migration was   *)
(* taken by another upload before commit_migration could reserve it.       *)
(***************************************************************************)
SelectNothing ==
    /\ lpc = "finish"
    /\ taken = {}
    /\ ~(AllTerminal /\ submitted = {})
    /\ \/ ~MaySelect
       \/ /\ \A u \in Tasks : ~ReplacementReady(u)
          /\ \/ \A t \in Tasks : state[t] = "pending" => Offered(t) = {}
             \/ \E a \in Accounts, t \in Tasks : Scores(a, t)
    /\ lpc' = "deadline"
    /\ UNCHANGED <<poolVars, taskVars, workerVars, telegramVars, action,
                   submitted, completions, taken, failure, silent, timed,
                   changed, faults>>

Submit ==
    LET t == action[1]
        n == action[2] IN
    /\ lpc = "submit"
    /\ submitted' = submitted \cup {action}
    /\ Goto(t, n, "queued")
    /\ action' = NoClaim
    /\ lpc' = "take"
    /\ UNCHANGED <<poolVars, taskVars, claimed, rpc, revoke, raised,
                   telegramVars, completions, taken, failure, silent, timed,
                   changed, faults>>

\* submission_failed: executor.submit raised.
SubmissionFailed ==
    LET t == action[1]
        n == action[2]
        failing == IF attempt[t] = n THEN {t} ELSE {} IN
    /\ faults < MaxFaults
    /\ lpc = "submit"
    /\ TerminalLocked(failing, "failed")
    /\ quiescent' = [u \in Tasks |->
                        IF u \in failing THEN quiescent[u] \cup {n}
                        ELSE quiescent[u]]
    /\ action' = NoClaim
    /\ lpc' = "take"
    /\ changed' = TRUE
    /\ faults' = faults + 1
    /\ UNCHANGED <<requests, eligible, rr, progressVars, result, claimed, pc,
                   rpc, raised, telegramVars, submitted, completions, taken,
                   failure, silent, timed>>
    /\ MaybeCloseOwned(OwnedBy(failing))
    /\ ChangeLocked({})

\* next_deadline: a qualifying flood or an idle snapshot bounds the wait.
NextDeadline ==
    /\ lpc = "deadline"
    /\ timed' = (\/ \E t \in Tasks :
                       state[t] = "active" /\ migrations[t] = 0 /\ flooded[t]
                 \/ \E a \in Accounts : eligible[a] /\ snap[a])
    /\ lpc' = "wait"
    /\ UNCHANGED <<poolVars, taskVars, workerVars, telegramVars, action,
                   submitted, completions, taken, failure, silent, changed,
                   faults>>

\* wait_for_change returns: the version moved, or the deadline passed.
WaitForChange ==
    /\ lpc = "wait"
    /\ changed \/ timed
    /\ changed' = FALSE
    /\ timed' = FALSE
    /\ lpc' = "take"
    /\ UNCHANGED <<poolVars, taskVars, workerVars, telegramVars, action,
                   submitted, completions, taken, failure, silent, faults>>

\* PREMIUM_RECENCY passes without another flood.
FloodAges(t) ==
    /\ flooded[t]
    /\ flooded' = [flooded EXCEPT ![t] = FALSE]
    /\ UNCHANGED <<poolVars, parts, tokens, lifeVars, leaseVars, workerVars,
                   telegramVars, loopVars, changed, faults>>

-----------------------------------------------------------------------------
(* The pool's other users and its shutdown, seen from this upload *)

PoolStep(a) ==
    /\ \/ ExpireSnapshot(a)
       \/ \E w \in Others : \/ OtherAcquire(a, w)
                            \/ OtherAcquireExact(a, w)
                            \/ OtherClose(a, w)
       \/ PoolMayStop /\ StopRuntime(a)
    /\ UNCHANGED <<taskVars, workerVars, telegramVars, loopVars, changed, faults>>

Finished ==
    /\ lpc = "exit"
    /\ UNCHANGED vars

Init ==
    /\ PoolInit
    /\ state = [t \in Tasks |-> "pending"]
    /\ attempt = [t \in Tasks |-> NoAttempt]
    /\ account = [t \in Tasks |-> NoAccount]
    /\ migrations = [t \in Tasks |-> 0]
    /\ attempted = [t \in Tasks |-> {}]
    /\ draining = [t \in Tasks |-> NoAttempt]
    /\ parts = [t \in Tasks |-> {}]
    /\ tokens = [t \in Tasks |-> [n \in Attempts |-> {}]]
    /\ flooded = [t \in Tasks |-> FALSE]
    /\ resv = [t \in Tasks |-> NoAccount]
    /\ lease = [t \in Tasks |-> NoAccount]
    /\ leaseAttempt = [t \in Tasks |-> NoAttempt]
    /\ quiescent = [t \in Tasks |-> {}]
    /\ handle = [t \in Tasks |-> FALSE]
    /\ result = [t \in Tasks |-> NoAttempt]
    /\ claimed = [t \in Tasks |-> [n \in Attempts |-> NoAccount]]
    /\ pc = [t \in Tasks |-> [n \in Attempts |-> "none"]]
    /\ rpc = [t \in Tasks |-> [n \in Attempts |-> [p \in Parts |-> "idle"]]]
    /\ revoke = [t \in Tasks |-> [n \in Attempts |-> FALSE]]
    /\ raised = [t \in Tasks |-> [n \in Attempts |-> FALSE]]
    /\ confirmed = [t \in Tasks |-> [n \in Attempts |-> {}]]
    /\ late = [t \in Tasks |-> [n \in Attempts |-> {}]]
    /\ messages = [t \in Tasks |-> {}]
    /\ lpc = "take"
    /\ action = NoClaim
    /\ submitted = {}
    /\ completions = {}
    /\ taken = {}
    /\ failure = FALSE
    /\ silent = FALSE
    /\ changed = FALSE
    /\ timed = FALSE
    /\ faults = 0

PartStep(t, n, p) ==
    \/ BeginRequest(t, n, p)
    \/ BeginRequestRejected(t, n, p)
    \/ RequestSucceeded(t, n, p)
    \/ PremiumFlood(t, n, p)
    \/ RequestFailed(t, n, p)
    \/ RequestSettled(t, n, p)

ExecutorStep(t, n) ==
    \/ BorrowRuntime(t, n)
    \/ BindRevokeHandle(t, n)
    \/ BindRefused(t, n)
    \/ SetupRaises(t, n)
    \/ RevokeLands(t, n)
    \/ PrepareSegment(t, n)
    \/ AttemptRevoked(t, n)
    \/ ThumbnailFails(t, n)
    \/ BytesPrepared(t, n)
    \/ GrantFinalize(t, n)
    \/ SendUploadedSegment(t, n)
    \/ SendRaises(t, n)
    \/ CompleteAttempt(t, n)
    \/ FailAttempt(t, n)
    \/ ActionRaises(t, n)
    \/ AttemptQuiesced(t, n)
    \/ EnqueueExecutorCompletion(t, n)

LoopStep ==
    \/ TakeExecutorCompletions
    \/ \E t \in Tasks, n \in Attempts : ExecutorFinished(t, n)
    \/ LoopBreak
    \/ \E t \in Tasks : SelectReplacement(t) \/ SelectReplacementFails(t)
    \/ \E t \in Tasks, a \in Accounts : CommitMigration(a, t) \/ SelectPending(t, a)
    \/ SelectNothing
    \/ Submit
    \/ SubmissionFailed
    \/ NextDeadline
    \/ WaitForChange

Next ==
    \/ \E t \in Tasks, n \in Attempts, p \in Parts :
          PartStep(t, n, p) \/ LateRequestSucceeded(t, n, p)
    \/ \E t \in Tasks, n \in Attempts : ExecutorStep(t, n)
    \/ LoopStep
    \/ \E t \in Tasks : FloodAges(t)
    \/ \E a \in Accounts : PoolStep(a)
    \/ Finished

Spec == Init /\ [][Next]_vars

(***************************************************************************)
(* Fairness: the loop and every thread keep running, an RPC is answered or *)
(* times out after 120 s and its finally clause runs.  Nothing is assumed  *)
(* of other uploads, of clocks, or of which way a step goes.               *)
(***************************************************************************)
Fairness ==
    /\ WF_vars(LoopStep)
    /\ \A t \in Tasks, n \in Attempts :
          /\ WF_vars(ExecutorStep(t, n))
          /\ \A p \in Parts : WF_vars(PartStep(t, n, p))

FairSpec == Spec /\ Fairness

-----------------------------------------------------------------------------
(* Properties *)

PoolType ==
    /\ slots \in [Accounts -> Int]
    /\ jobs \in [Accounts -> SUBSET (Tasks \cup Others)]
    /\ requests \in [Accounts -> SUBSET (Tasks \X Attempts \X Parts)]
    /\ reserved \in [Accounts -> Tasks \cup {NoTask}]
    /\ snap \in [Accounts -> BOOLEAN]
    /\ eligible \in [Accounts -> BOOLEAN]
    /\ rr \in 0..(NumAccounts - 1)

TaskType ==
    /\ state \in [Tasks -> SegmentState]
    /\ attempt \in [Tasks -> Attempts \cup {NoAttempt}]
    /\ account \in [Tasks -> Accounts \cup {NoAccount}]
    /\ migrations \in [Tasks -> 0..1]
    /\ attempted \in [Tasks -> SUBSET Accounts]
    /\ draining \in [Tasks -> Attempts \cup {NoAttempt}]
    /\ parts \in [Tasks -> SUBSET Parts]
    /\ tokens \in [Tasks -> [Attempts -> SUBSET Parts]]
    /\ flooded \in [Tasks -> BOOLEAN]
    /\ resv \in [Tasks -> Accounts \cup {NoAccount}]
    /\ lease \in [Tasks -> Accounts \cup {NoAccount}]
    /\ leaseAttempt \in [Tasks -> Attempts \cup {NoAttempt}]
    /\ quiescent \in [Tasks -> SUBSET Attempts]
    /\ handle \in [Tasks -> BOOLEAN]
    /\ result \in [Tasks -> Attempts \cup {NoAttempt}]

WorkerPC == {"none", "queued", "borrowed", "upload", "failing", "revoked",
             "prepared", "bytes", "granted", "sent", "finally", "returning",
             "done"}
RpcState == {"idle", "sent", "ok", "retry", "dead", "done", "gone"}

WorkerType ==
    /\ claimed \in [Tasks -> [Attempts -> Accounts \cup {NoAccount}]]
    /\ pc \in [Tasks -> [Attempts -> WorkerPC]]
    /\ rpc \in [Tasks -> [Attempts -> [Parts -> RpcState]]]
    /\ revoke \in [Tasks -> [Attempts -> BOOLEAN]]
    /\ raised \in [Tasks -> [Attempts -> BOOLEAN]]

TelegramType ==
    /\ confirmed \in [Tasks -> [Attempts -> SUBSET Parts]]
    /\ late \in [Tasks -> [Attempts -> SUBSET Parts]]
    /\ messages \in [Tasks -> SUBSET Attempts]

LoopType ==
    /\ lpc \in {"take", "finish", "submit", "deadline", "wait", "exit"}
    /\ action \in Claims \cup {NoClaim}
    /\ submitted \in SUBSET Claims
    /\ completions \in SUBSET Claims
    /\ taken \in SUBSET Claims
    /\ failure \in BOOLEAN
    /\ silent \in BOOLEAN
    /\ changed \in BOOLEAN
    /\ timed \in BOOLEAN
    /\ faults \in 0..MaxFaults

\* Every variable holds values of its Python field's type.
TypeOK == PoolType /\ TaskType /\ WorkerType /\ TelegramType /\ LoopType

(***************************************************************************)
(* A file slot is taken exactly by the byte uploads in flight: the bounded *)
(* semaphore is never released twice nor leaked, whichever of the six      *)
(* places that can close a segment's lease gets there first.               *)
(***************************************************************************)
SlotAccounting ==
    \A a \in Accounts :
        /\ slots[a] = UploadFiles - Cardinality(jobs[a])
        /\ slots[a] >= 0
        /\ jobs[a] \cap Tasks = {t \in Tasks : lease[t] = a}

(***************************************************************************)
(* A lease is never given back while an RPC of its attempt is in flight:   *)
(* the account would look idle, and be chosen as a migration target, while *)
(* a stale attempt still sends on it.                                      *)
(***************************************************************************)
InFlightHoldsLease ==
    \A t \in Tasks, n \in Attempts :
        tokens[t][n] # {} =>
            /\ OwnsLease(t, n)
            /\ lease[t] = claimed[t][n]
            /\ \A p \in tokens[t][n] : <<t, n, p>> \in requests[lease[t]]

(***************************************************************************)
(* A reserved account carries nothing else and its reservation belongs to  *)
(* the migrating task that made it, so activating it can only fail when    *)
(* the account goes offline.                                               *)
(***************************************************************************)
ReservationExclusive ==
    \A a \in Accounts :
        reserved[a] # NoTask =>
            /\ jobs[a] = {}
            /\ requests[a] = {}
            /\ slots[a] > 0
            /\ resv[reserved[a]] = a
            /\ state[reserved[a]] = "migrating"

(***************************************************************************)
(* At most one Telegram message is ever created for a segment, whatever    *)
(* migrations, failures and aborts happen around the grant.                *)
(***************************************************************************)
AtMostOneMessage ==
    \A t \in Tasks : Cardinality(messages[t]) <= 1

(***************************************************************************)
(* A message is only created from an upload whose every part Telegram has  *)
(* confirmed under that attempt's own file id, and a completed task's      *)
(* result is such a message of its current attempt.                        *)
(***************************************************************************)
MessageIsWhole ==
    \A t \in Tasks :
        /\ \A n \in messages[t] : confirmed[t][n] = Parts
        /\ state[t] = "completed" =>
              result[t] = attempt[t] /\ messages[t] = {attempt[t]}

(***************************************************************************)
(* The replacement attempt runs alone: once it has a lease the old one has *)
(* left its executor action and has no RPC in flight.                      *)
(***************************************************************************)
OneLiveAttempt ==
    \A t \in Tasks :
        claimed[t][2] # NoAccount =>
            /\ tokens[t][1] = {}
            /\ NoRpcInFlight(t, 1)
            /\ pc[t][1] \in {"returning", "done"}

(***************************************************************************)
(* No executor returns from a current, active attempt without reporting an *)
(* outcome (executor_finished calls that a scheduler failure).             *)
(***************************************************************************)
NoSilentReturn == ~silent

(***************************************************************************)
(* When the loop returns nothing is left behind: every task has an         *)
(* outcome, no executor runs, no lease, token or reservation is held.      *)
(***************************************************************************)
CleanExit ==
    lpc = "exit" =>
        /\ \A t \in Tasks :
              /\ state[t] \in Terminal
              /\ lease[t] = NoAccount
              /\ resv[t] = NoAccount
              /\ \A n \in Attempts :
                    tokens[t][n] = {} /\ pc[t][n] \in {"none", "done"}
        /\ \A a \in Accounts :
              reserved[a] = NoTask /\ requests[a] = {} /\ jobs[a] \subseteq Others

(***************************************************************************)
(* The refinement mapping to SegmentOnce: the permit is the right that     *)
(* grant_finalize gives, held while an attempt is about to send.           *)
(***************************************************************************)
Outcome ==
    [t \in Tasks |-> CASE state[t] = "completed" -> "done"
                       [] state[t] = "failed" -> "failed"
                       [] OTHER -> "open"]

Permit ==
    [t \in Tasks |->
        IF messages[t] # {} THEN "used"
        ELSE IF state[t] = "finalizing" \/ \E n \in Attempts : pc[t][n] = "granted"
        THEN "granted" ELSE "none"]

Once == INSTANCE SegmentOnce
            WITH Segments <- Tasks, outcome <- Outcome, permit <- Permit,
                 made <- [t \in Tasks |-> Cardinality(messages[t])]

\* The scheduler implements the at-most-once promise of SegmentOnce.
ImplementsSegmentOnce == Once!OnceSpec

(***************************************************************************)
(* A finished task stays finished with the same result, and an attempt     *)
(* that was superseded never gets the task back.                           *)
(***************************************************************************)
OutcomeIsFinal ==
    [][\A t \in Tasks :
          /\ state[t] \in Terminal => state'[t] = state[t] /\ result'[t] = result[t]
          /\ attempt'[t] >= attempt[t]]_vars

(***************************************************************************)
(* The upload of a file terminates: no wakeup is lost between the events   *)
(* and the loop's version-checked wait.                                    *)
(***************************************************************************)
Termination == <>(lpc = "exit")

=============================================================================
