----------------------------- MODULE AccountPool -----------------------------
(***************************************************************************)
(* The state every byte upload of the bridge shares: the per-account file  *)
(* slots of TelegramAccountPool (telegram_accounts.py) and the jobs,       *)
(* requests, reservation and idle speed snapshot that                      *)
(* AccountActivityRegistry (upload_activity.py) keeps for each account.    *)
(*                                                                         *)
(* Every operation of the two classes runs under the pool's lock, so each  *)
(* is one atomic piece of a step.  They are written as constraints on the  *)
(* primed pool variables, to be conjoined by the module that composes them *)
(* with its own state; each step ends in ChangeLocked, which decides what  *)
(* becomes of the idle snapshots.                                          *)
(***************************************************************************)
EXTENDS Integers, FiniteSets

CONSTANTS
    NumAccounts,   \* Telegram accounts of the pool, in configuration order
    UploadFiles,   \* file slots per account (config upload_files)
    NumTasks,      \* segments of the file being uploaded
    Others         \* work ids of uploads outside the modelled file: albums,
                   \* small files, the other stager's files

Accounts == 1..NumAccounts
Tasks == 1..NumTasks

NoAccount == 0
NoTask == 0

ASSUME PoolAssumption ==
    /\ NumAccounts \in Nat \ {0}
    /\ UploadFiles \in Nat \ {0}
    /\ NumTasks \in Nat \ {0}
    /\ IsFiniteSet(Others)
    /\ Others \cap Tasks = {}

VARIABLES
    slots,      \* file_slots: free units of each account's BoundedSemaphore
    jobs,       \* activity: work ids of the byte uploads holding a slot
    requests,   \* activity: upload RPC tokens in flight on the account
    reserved,   \* activity: task the idle account is reserved for, or NoTask
    snap,       \* activity: the account has an unexpired idle speed snapshot
    eligible,   \* runtime.online /\ runtime.linked
    rr          \* round-robin cursor of acquire_upload_lease

poolVars == <<slots, jobs, requests, reserved, snap, eligible, rr>>

-----------------------------------------------------------------------------
(* AccountActivityRegistry *)

\* _is_idle, before and after the step.
IsIdle(a) == jobs[a] = {} /\ requests[a] = {} /\ reserved[a] = NoTask
IsIdleNext(a) == jobs'[a] = {} /\ requests'[a] = {} /\ reserved'[a] = NoTask

(***************************************************************************)
(* _change_locked: an account that becomes idle freezes a new snapshot, or *)
(* none when the tracker saw no effective bytes in its window (the choice  *)
(* is left open); otherwise a change in `invalidating' drops the snapshot. *)
(***************************************************************************)
ChangeLocked(invalidating) ==
    /\ snap' \in [Accounts -> BOOLEAN]
    /\ \A a \in Accounts :
          IsIdle(a) \/ ~IsIdleNext(a) =>
             snap'[a] = (snap[a] /\ a \notin invalidating)

\* The 300 s life of a snapshot ends; snapshot() drops it on the next read.
ExpireSnapshot(a) ==
    /\ snap[a]
    /\ snap' = [snap EXCEPT ![a] = FALSE]
    /\ UNCHANGED <<slots, jobs, requests, reserved, eligible, rr>>

-----------------------------------------------------------------------------
(* TelegramAccountPool *)

\* Mutant of CanAcquire: a reservation does not keep other uploads away.
MutAcquireReserved(a, w) ==
    /\ eligible[a]
    /\ slots[a] > 0
    /\ w \notin jobs[a]

\* _try_acquire_exact_locked succeeds for a work id.
CanAcquire(a, w) ==
    /\ eligible[a]
    /\ reserved[a] = NoTask
    /\ slots[a] > 0
    /\ w \notin jobs[a]

\* acquire_upload_lease tries the accounts in this order of preference.
RoundRobinRank(a) == (a - 1 - rr + NumAccounts) % NumAccounts

\* The account acquire_upload_lease hands out in one pass, for a work id.
Offered(w) ==
    {a \in Accounts :
        /\ CanAcquire(a, w)
        /\ \A b \in Accounts :
              CanAcquire(b, w) => RoundRobinRank(a) <= RoundRobinRank(b)}

\* Mutant of AcquireUploadLease: the round-robin cursor does not wrap.
MutAcquireNoWrap(a, w) ==
    /\ a \in Offered(w)
    /\ slots' = [slots EXCEPT ![a] = @ - 1]
    /\ jobs' = [jobs EXCEPT ![a] = @ \cup {w}]
    /\ rr' = a

\* A successful acquire_upload_lease(w) on account a.
AcquireUploadLease(a, w) ==
    /\ a \in Offered(w)
    /\ slots' = [slots EXCEPT ![a] = @ - 1]
    /\ jobs' = [jobs EXCEPT ![a] = @ \cup {w}]
    /\ rr' = a % NumAccounts

\* UploadLease.close for every <<account, work id>> in a set of leases.
CloseLeases(leases) ==
    /\ jobs' = [a \in Accounts |-> {w \in jobs[a] : <<a, w>> \notin leases}]
    /\ slots' = [a \in Accounts |->
                    slots[a] + Cardinality({l \in leases : l[1] = a})]

\* try_reserve_idle would succeed.
CanReserve(a) == eligible[a] /\ IsIdle(a) /\ snap[a]

\* activate_reservation would succeed.
CanActivateReservation(a, t) == eligible[a] /\ reserved[a] = t /\ slots[a] > 0

\* stop(): accounts go offline one at a time, without the pool lock.
StopRuntime(a) ==
    /\ eligible[a]
    /\ eligible' = [eligible EXCEPT ![a] = FALSE]
    /\ UNCHANGED <<slots, jobs, requests, reserved, snap, rr>>

-----------------------------------------------------------------------------
(***************************************************************************)
(* Uploads outside the modelled file: they poll acquire_upload_lease (or   *)
(* take acquire_exact_upload_lease for an album fallback), hold the slot   *)
(* while their bytes go out and close the lease.                           *)
(***************************************************************************)
OtherAcquire(a, w) ==
    /\ \A b \in Accounts : w \notin jobs[b]
    /\ AcquireUploadLease(a, w)
    /\ UNCHANGED <<requests, reserved, eligible>>
    /\ ChangeLocked({a})

OtherAcquireExact(a, w) ==
    /\ \A b \in Accounts : w \notin jobs[b]
    /\ CanAcquire(a, w)
    /\ slots' = [slots EXCEPT ![a] = @ - 1]
    /\ jobs' = [jobs EXCEPT ![a] = @ \cup {w}]
    /\ UNCHANGED <<requests, reserved, eligible, rr>>
    /\ ChangeLocked({a})

OtherClose(a, w) ==
    /\ w \in jobs[a]
    /\ CloseLeases({<<a, w>>})
    /\ UNCHANGED <<requests, reserved, eligible, rr>>
    /\ ChangeLocked({})

(***************************************************************************)
(* A quiet pool some time after start(): earlier uploads have left idle    *)
(* snapshots; the accounts are numbered from the round-robin cursor.  An   *)
(* account that did not come up online and linked never becomes eligible   *)
(* (only start() sets both flags): it is left out of Accounts.             *)
(***************************************************************************)
PoolInit ==
    /\ slots = [a \in Accounts |-> UploadFiles]
    /\ jobs = [a \in Accounts |-> {}]
    /\ requests = [a \in Accounts |-> {}]
    /\ reserved = [a \in Accounts |-> NoTask]
    /\ snap \in [Accounts -> BOOLEAN]
    /\ eligible = [a \in Accounts |-> TRUE]
    /\ rr = 0
=============================================================================
