------------------------------ MODULE Playtime ------------------------------
(***************************************************************************)
(* How long a game was played, from the launch to the server that counts   *)
(* it: GameLauncher's sessions and their monitor threads (gamelaunch.py),  *)
(* the two durable files (playtime-running.json and playtime-queue.jsonl), *)
(* PlaytimeService, which moves a session from the first to the second,    *)
(* and PlaytimeSender, which posts the queue (playtime.py), wired together *)
(* by main (bridge.py).                                                    *)
(*                                                                         *)
(* One game folder is modelled.  A process is a (pid, create time) pair,   *)
(* so a reused pid is another process.  Time is the number of processes    *)
(* born so far: the code compares times with births and with each other.   *)
(* The reina-server is external; it keeps the first record of each id.     *)
(***************************************************************************)
EXTENDS Integers, Sequences, FiniteSets, FiniteSetsExt

CONSTANTS
  Sessions,      \* the ids uuid4 may draw, integers (they are compared)
  Procs,         \* the processes that may ever run, positive integers
  Inside,        \* those whose executable lies in the game folder
  Rejected,      \* sessions whose record the server refuses for ever
  MaxCrashes,    \* bound: kills and power losses
  MaxIOErrors    \* bound: failed writes of the two files

ASSUME PlaytimeAssumption ==
  /\ Sessions \subseteq Int /\ Rejected \subseteq Sessions
  /\ Procs \subseteq Nat \ {0} /\ Inside \subseteq Procs
  /\ MaxCrashes \in Nat /\ MaxIOErrors \in Nat

VARIABLES
  phase,      \* "down", "recovering" (main before line 1826), "wired"
  store,      \* playtime-running.json: session -> its last snapshot
  books,      \* GameLauncher: sessions, _empty_polls, _last_alive
  mon,        \* one monitor thread per session
  launch,     \* the launch RPC that passed the checks, if any
  todo,       \* recover_sessions: what is left of store.all()
  queue,      \* playtime-queue.jsonl as a reader sees it
  synced,     \* how many of its lines have been fsynced
  torn,       \* the file ends in an unfinished line
  failed,     \* PlaytimeQueue._failed
  aside,      \* the records of files moved aside as corrupt
  sender,     \* PlaytimeSender: step, what is left of the pass, holds
  server,     \* session -> the end the server has counted
  procs,      \* process -> its state, birth and parent
  saved,      \* history: sessions whose first save succeeded
  faults      \* crashes and write errors so far

vars == <<phase, store, books, mon, launch, todo, queue, synced, torn, failed,
          aside, sender, server, procs, saved, faults>>
queueVars == <<queue, synced, torn, failed, aside>>

NoProc == 0
now == Cardinality({p \in Procs : procs[p].state # "unborn"})
Alive == {p \in Procs : procs[p].state = "alive"}
Ids(q) == {q[i].id : i \in 1..Len(q)}
Without(f, x) == [y \in DOMAIN f \ {x} |-> f[y]]
With(f, x, v) == [y \in DOMAIN f \union {x} |-> IF y = x THEN v ELSE f[y]]

NoBooks == [sess  |-> [s \in {} |-> 0],
            empty |-> [s \in Sessions |-> 0],
            alive |-> [s \in Sessions |-> 0]]
IdleMonitor == [pc |-> "none", snap |-> {}, owned |-> {}]
IdleSender == [pc |-> "idle", batch |-> <<>>, held |-> {}]
IdleLaunch == [pc |-> "idle", p |-> NoProc]

Init ==
  /\ phase = "wired" /\ store = [s \in {} |-> 0] /\ books = NoBooks
  /\ mon = [s \in Sessions |-> IdleMonitor] /\ launch = IdleLaunch
  /\ todo = {} /\ queue = <<>> /\ synced = 0 /\ torn = FALSE
  /\ failed = FALSE /\ aside = {} /\ sender = IdleSender
  /\ server = [s \in {} |-> 0]
  /\ procs = [p \in Procs |-> [state |-> "unborn", born |-> 0, parent |-> NoProc]]
  /\ saved = {} /\ faults = [crash |-> 0, io |-> 0]

MayFail == faults.io < MaxIOErrors
IOError == MayFail /\ faults' = [faults EXCEPT !.io = @ + 1]
\* A write of the running store either lands whole or leaves the old file.
Written(ok) == IF ok THEN UNCHANGED faults ELSE IOError

(***************************************************************************)
(* The queue file.                                                         *)
(***************************************************************************)

\* append: the line is written and fsynced; an id already there is skipped.
Appended(s, end) ==
  /\ ~failed
  /\ queue' = IF s \in Ids(queue) THEN queue
              ELSE Append(queue, [id |-> s, end |-> end])
  /\ synced' = IF s \in Ids(queue) THEN synced ELSE Len(queue')
  /\ UNCHANGED <<torn, failed, aside, faults>>

\* What an append that does not return may leave: nothing, half a line, or a
\* whole line that is not yet on the platter.
Landed(s, end) ==
  /\ ~failed /\ s \notin Ids(queue)
  /\ \/ UNCHANGED <<queue, torn>>
     \/ torn' = TRUE /\ UNCHANGED queue
     \/ queue' = Append(queue, [id |-> s, end |-> end]) /\ UNCHANGED torn

\* Mutant: a failed append does not latch the queue.
MutAppendRaises(s, end) == Landed(s, end) /\ IOError /\ UNCHANGED <<synced, failed, aside>>

\* append raised: the queue refuses every later operation.
AppendRaises(s, end) ==
  /\ Landed(s, end) /\ IOError /\ failed' = TRUE
  /\ UNCHANGED <<synced, aside>>

\* open_playtime_state: repair the tail, then the fsync barrier; a file that
\* cannot be opened is moved aside and the queue restarts empty.
Reopened ==
  /\ torn' = FALSE /\ failed' = FALSE
  /\ \/ /\ synced' = Len(queue) /\ UNCHANGED <<queue, aside, faults>>
     \/ /\ IOError /\ queue # <<>>
        /\ aside' = aside \union Ids(queue) /\ queue' = <<>> /\ synced' = 0

(***************************************************************************)
(* GameLauncher: who a process belongs to, and one poll of a monitor.      *)
(* Both work on b, a value of books with the store beside it.              *)
(***************************************************************************)

Pids(b, s) == b.sess[s].pids
Later(b, s, t) ==
  \/ b.sess[s].start > b.sess[t].start
  \/ b.sess[s].start = b.sess[t].start /\ s > t

\* claim_process: among the sessions that hold p or ask for it, the one that
\* started last, though not after p was born, owns it.
Owns(b, s, p) ==
  LET claimants == {t \in DOMAIN b.sess : p \in Pids(b, t)} \union {s}
      eligible  == {t \in claimants : b.sess[t].start <= procs[p].born}
  IN  s \in eligible /\ \A t \in eligible \ {s} : Later(b, s, t)

Others(b, s, p) == {t \in DOMAIN b.sess \ {s} : p \in Pids(b, t)}
\* What s may keep of R; a transfer that cannot be saved is refused.
Granted(b, s, R, ok) == {p \in R : Owns(b, s, p) /\ (ok \/ Others(b, s, p) = {})}
Claimed(b, s, R, ok) ==
  LET got  == Granted(b, s, R, ok)
      left == [t \in DOMAIN b.sess |->
                 IF t = s THEN b.sess[t] ELSE [b.sess[t] EXCEPT !.pids = @ \ got]]
      lost == {t \in DOMAIN b.sess : left[t] # b.sess[t]}
  IN  [b EXCEPT !.sess = left,
                !.store = [t \in DOMAIN @ \union lost |-> IF t \in lost THEN left[t] ELSE @[t]]]

\* What a snapshot says belongs to s: the processes it holds that still run,
\* their descendants, and every process of the folder born since it started.
Retained(b, s, snap) ==
  LET Grow(p, R) == R \union {q \in snap : procs[q].parent \in R}
  IN  FoldSet(Grow, Pids(b, s) \intersect snap, snap)
        \union {p \in snap \intersect Inside : procs[p].born >= b.sess[s].start}

\* The second half of monitor_once, with the refs the claims granted.
Assigned(b, s, current, ok) ==
  LET seen == IF current = {} THEN b ELSE [b EXCEPT !.alive[s] = now]
      Saved(x) == [x EXCEPT !.store = With(@, s, x.sess[s])]
      held == [seen EXCEPT !.sess[s].pids = current,
                           !.empty[s] = IF current = {} THEN 1 ELSE 0]
      beat == [seen EXCEPT !.sess[s].last = now, !.empty[s] = 0]
  IN  IF current # Pids(b, s) THEN IF ok THEN Saved(held) ELSE seen
      ELSE IF current = {}
           THEN [seen EXCEPT !.empty[s] = IF @ < 2 THEN @ + 1 ELSE 2]
      ELSE IF now > b.sess[s].last
           THEN IF ok THEN Saved(beat) ELSE [seen EXCEPT !.empty[s] = 0]
      ELSE [seen EXCEPT !.empty[s] = 0]

Polled(b, s) ==
  LET mine == Retained(b, s, Alive)
  IN  Assigned(Claimed(b, s, mine, TRUE), s, Granted(b, s, mine, TRUE), TRUE)

B == [sess |-> books.sess, empty |-> books.empty, alive |-> books.alive, store |-> store]
SetB(b) ==
  /\ books' = [sess |-> b.sess, empty |-> b.empty, alive |-> b.alive]
  /\ store' = b.store

(***************************************************************************)
(* launch: the checks (with a poll of every session of the folder, under   *)
(* the lock), the spawn, and the save that makes the session durable.      *)
(***************************************************************************)

LaunchCheck ==
  /\ phase = "wired" /\ launch.pc = "idle" /\ \E s \in Sessions : s \notin saved
  /\ LET Poll(s, b) == Polled(b, s)
         b == FoldSet(Poll, B, DOMAIN books.sess)
     IN  /\ SetB(b)
         /\ launch' = IF \E s \in DOMAIN b.sess : Pids(b, s) \intersect Alive # {}
                      THEN launch ELSE [pc |-> "spawn", p |-> NoProc]
  /\ UNCHANGED <<phase, mon, todo, queueVars, sender, server, procs, saved, faults>>

\* Unborn processes are alike: the first of its kind is the next to be born.
Born(p, parent) ==
  /\ procs[p].state = "unborn"
  /\ \A q \in Procs : procs[q].state = "unborn" /\ (q \in Inside <=> p \in Inside) => p <= q
  /\ procs' = [procs EXCEPT ![p] = [state |-> "alive", born |-> now + 1, parent |-> parent]]

\* The spawn may fail, or the new process may be gone before it is identified.
LaunchSpawn ==
  /\ launch.pc = "spawn"
  /\ \/ \E p \in Inside : Born(p, NoProc) /\ launch' = [pc |-> "save", p |-> p]
     \/ launch' = IdleLaunch /\ UNCHANGED procs
  /\ UNCHANGED <<phase, store, books, mon, todo, queueVars, sender, server, saved, faults>>

LaunchSave(ok) ==
  /\ launch.pc = "save" /\ Written(ok) /\ launch' = IdleLaunch
  /\ LET p == launch.p
         new == [start |-> procs[p].born, pids |-> {p}, last |-> now]
     IN  IF ok
         THEN \E s \in Sessions \ saved :
                /\ store' = With(store, s, new)
                /\ books' = [books EXCEPT !.sess = With(@, s, new)]
                /\ mon' = [mon EXCEPT ![s] = [IdleMonitor EXCEPT !.pc = "idle"]]
                /\ saved' = saved \union {s}
         ELSE UNCHANGED <<store, books, mon, saved>>
  /\ UNCHANGED <<phase, todo, queueVars, sender, server, procs>>

(***************************************************************************)
(* _monitor: one thread per session.  The snapshot is taken without the    *)
(* lock, the claims and the assignment are separate critical sections.     *)
(***************************************************************************)

MonSnap(s) ==
  /\ mon[s].pc = "idle"
  /\ mon' = [mon EXCEPT ![s].pc = "claim", ![s].snap = Alive]
  /\ UNCHANGED <<phase, store, books, launch, todo, queueVars, sender, server, procs, saved, faults>>

MonClaim(s, ok) ==
  /\ mon[s].pc = "claim" /\ Written(ok)
  /\ LET mine == Retained(B, s, mon[s].snap)
     IN  /\ ok \/ \E p \in mine : Owns(B, s, p) /\ Others(B, s, p) # {}
         /\ SetB(Claimed(B, s, mine, ok))
         /\ mon' = [mon EXCEPT ![s].pc = "assign", ![s].owned = Granted(B, s, mine, ok),
                               ![s].snap = {}]
  /\ UNCHANGED <<phase, launch, todo, queueVars, sender, server, procs, saved>>

MonAssign(s, ok) ==
  /\ mon[s].pc = "assign" /\ Written(ok)
  /\ ok \/ Assigned(B, s, mon[s].owned, TRUE).store # store
  /\ SetB(Assigned(B, s, mon[s].owned, ok))
  /\ mon' = [mon EXCEPT ![s].pc = IF ok THEN "decide" ELSE "idle", ![s].owned = {}]
  /\ UNCHANGED <<phase, launch, todo, queueVars, sender, server, procs, saved>>

\* Two empty polls end the session, with the last time it was seen alive as
\* its end.  Before main has set on_session_end the thread just leaves.
MonDecide(s) ==
  /\ mon[s].pc = "decide"
  /\ IF books.empty[s] < 2
     THEN mon' = [mon EXCEPT ![s].pc = "idle"] /\ UNCHANGED books
     ELSE /\ mon' = [mon EXCEPT ![s].pc = IF phase = "wired" THEN "finish" ELSE "gone"]
          /\ books' = [books EXCEPT !.sess[s].last = Max({@, books.alive[s]}),
                                    !.alive[s] = 0]
  /\ UNCHANGED <<phase, store, launch, todo, queueVars, sender, server, procs, saved, faults>>

(***************************************************************************)
(* PlaytimeService.finish and _finish_playtime_session: the queue first,   *)
(* then the store, then memory.  An exception sends the monitor round      *)
(* again.                                                                  *)
(***************************************************************************)

\* Mutant: a queue that refuses is taken for one that has the record.
MutFinishAppend(s) ==
  /\ mon[s].pc = "finish"
  /\ \/ Appended(s, books.sess[s].last)
     \/ AppendRaises(s, books.sess[s].last)
     \/ failed /\ UNCHANGED <<queueVars, faults>>
  /\ mon' = [mon EXCEPT ![s].pc = "remove"]
  /\ UNCHANGED <<phase, store, books, launch, todo, sender, server, procs, saved>>

FinishAppend(s) ==
  /\ mon[s].pc = "finish"
  /\ \/ Appended(s, books.sess[s].last) /\ mon' = [mon EXCEPT ![s].pc = "remove"]
     \/ AppendRaises(s, books.sess[s].last) /\ mon' = [mon EXCEPT ![s].pc = "idle"]
     \/ failed /\ mon' = [mon EXCEPT ![s].pc = "idle"] /\ UNCHANGED <<queueVars, faults>>
  /\ UNCHANGED <<phase, store, books, launch, todo, sender, server, procs, saved>>

FinishRemove(s, ok) ==
  /\ mon[s].pc = "remove" /\ Written(ok)
  /\ store' = IF ok THEN Without(store, s) ELSE store
  /\ mon' = [mon EXCEPT ![s].pc = IF ok THEN "pop" ELSE "idle"]
  /\ UNCHANGED <<phase, books, launch, todo, queueVars, sender, server, procs, saved>>

FinishPop(s) ==
  /\ mon[s].pc = "pop"
  /\ books' = [books EXCEPT !.sess = Without(@, s)]
  /\ mon' = [mon EXCEPT ![s].pc = "gone"]
  /\ UNCHANGED <<phase, store, launch, todo, queueVars, sender, server, procs, saved, faults>>

(***************************************************************************)
(* PlaytimeSender.send_once: a snapshot of the queue, worked off in order. *)
(***************************************************************************)

SendBegin ==
  /\ phase = "wired" /\ sender.pc = "idle" /\ ~failed /\ queue # <<>>
  /\ sender' = [sender EXCEPT !.pc = "post", !.batch = [i \in 1..Len(queue) |-> queue[i]]]
  /\ UNCHANGED <<phase, store, books, mon, launch, todo, queueVars, server, procs, saved, faults>>

Posting(r) == sender.pc = "post" /\ sender.batch # <<>> /\ r = Head(sender.batch)
Return == [sender EXCEPT !.pc = "idle", !.batch = <<>>]
NextRecord == IF Len(sender.batch) = 1 THEN Return
              ELSE [sender EXCEPT !.pc = "post", !.batch = Tail(@)]
Counted(r) == IF r.id \in DOMAIN server THEN server ELSE With(server, r.id, r.end)

SendHeld(r) ==
  /\ Posting(r) /\ r.id \in sender.held /\ sender' = NextRecord
  /\ UNCHANGED <<phase, store, books, mon, launch, todo, queueVars, server, procs, saved, faults>>

\* 200: the record is counted; the answer may still be lost on its way.
SendAccepted(r, answered) ==
  /\ Posting(r) /\ r.id \notin sender.held \union Rejected
  /\ server' = Counted(r)
  /\ sender' = IF answered THEN [sender EXCEPT !.pc = "ack"] ELSE Return
  /\ UNCHANGED <<phase, store, books, mon, launch, todo, queueVars, procs, saved, faults>>

\* Mutant: a record the server refuses ends the pass, like a refusal of access.
MutSendRejected(r) ==
  /\ Posting(r) /\ r.id \in Rejected \ sender.held
  /\ sender' = Return
  /\ UNCHANGED <<phase, store, books, mon, launch, todo, queueVars, server, procs, saved, faults>>

\* 404 not_found and 400: only this record is put off.
SendRejected(r) ==
  /\ Posting(r) /\ r.id \in Rejected \ sender.held
  /\ sender' = [NextRecord EXCEPT !.held = @ \union {r.id}]
  /\ UNCHANGED <<phase, store, books, mon, launch, todo, queueVars, server, procs, saved, faults>>

\* No connection, 401 twice, 403, 5xx: the pass ends, and is tried again.
SendPaused(r) ==
  /\ Posting(r) /\ r.id \notin sender.held /\ sender' = Return
  /\ UNCHANGED <<phase, store, books, mon, launch, todo, queueVars, server, procs, saved, faults>>

\* The queue without an id, which is there at most once.
Removed(q, id) ==
  IF id \notin Ids(q) THEN q
  ELSE LET i == CHOOSE i \in 1..Len(q) : q[i].id = id
       IN  SubSeq(q, 1, i - 1) \o SubSeq(q, i + 1, Len(q))

\* ack rewrites the file without the record; when that fails the record stays.
SendAck(ok) ==
  /\ sender.pc = "ack"
  /\ LET id == Head(sender.batch).id
     IN  \/ /\ ok /\ ~failed /\ UNCHANGED faults
            /\ queue' = Removed(queue, id) /\ synced' = Len(queue')
            /\ sender' = [NextRecord EXCEPT !.held = @ \ {id}]
         \/ /\ ~ok /\ IF failed THEN UNCHANGED faults ELSE IOError
            /\ UNCHANGED <<queue, synced>> /\ sender' = Return
  /\ UNCHANGED <<phase, store, books, mon, launch, todo, torn, failed, aside, server, procs, saved>>

HoldExpires(s) ==
  /\ s \in sender.held /\ sender' = [sender EXCEPT !.held = @ \ {s}]
  /\ UNCHANGED <<phase, store, books, mon, launch, todo, queueVars, server, procs, saved, faults>>

(***************************************************************************)
(* The operating system, crashes, and the next start.                      *)
(***************************************************************************)

\* A process of the folder starts, by hand or from another, or one elsewhere
\* that a known process starts: only there the parent makes a difference.
ProcStarts(p, parent) ==
  /\ parent \in Alive \union {NoProc} /\ Born(p, parent)
  /\ parent = NoProc <=> p \in Inside
  /\ UNCHANGED <<phase, store, books, mon, launch, todo, queueVars, sender, server, saved, faults>>

ProcExits(p) ==
  /\ p \in Alive /\ procs' = [procs EXCEPT ![p].state = "dead"]
  /\ UNCHANGED <<phase, store, books, mon, launch, todo, queueVars, sender, server, saved, faults>>

MemoryGone ==
  /\ phase' = "down" /\ books' = NoBooks /\ launch' = IdleLaunch /\ todo' = {}
  /\ mon' = [s \in Sessions |-> IdleMonitor] /\ sender' = IdleSender

\* The process is killed, perhaps in the middle of an append.
Killed ==
  /\ phase # "down" /\ faults.crash < MaxCrashes /\ MemoryGone
  /\ faults' = [faults EXCEPT !.crash = @ + 1]
  /\ \/ UNCHANGED <<queue, torn>>
     \/ \E s \in Sessions : mon[s].pc = "finish" /\ Landed(s, books.sess[s].last)
  /\ UNCHANGED <<store, synced, failed, aside, server, procs, saved>>

\* The power fails: lines that were never fsynced may be gone too.
PowerLost ==
  /\ faults.crash < MaxCrashes /\ MemoryGone
  /\ faults' = [faults EXCEPT !.crash = @ + 1]
  /\ \E k \in synced..Len(queue) : queue' = SubSeq(queue, 1, k)
  /\ procs' = [p \in Procs |-> IF p \in Alive THEN [procs[p] EXCEPT !.state = "dead"]
                               ELSE procs[p]]
  /\ UNCHANGED <<store, synced, torn, failed, aside, server, saved>>

\* save_all, with the threads of the launcher and the sender joined before.
Joined ==
  /\ \A s \in Sessions : mon[s].pc \in {"none", "idle", "gone"}
  /\ sender.pc = "idle" /\ launch.pc = "idle"
SaveAll ==
  [s \in DOMAIN store \union DOMAIN books.sess |->
     IF s \in DOMAIN books.sess
     THEN [books.sess[s] EXCEPT !.last = Max({@, books.alive[s]})] ELSE store[s]]
Shutdown ==
  /\ phase = "wired" /\ Joined /\ store' = SaveAll /\ MemoryGone
  /\ UNCHANGED <<queueVars, server, procs, saved, faults>>

Start ==
  /\ phase = "down" /\ Reopened
  /\ phase' = "recovering" /\ todo' = DOMAIN store
  /\ books' = [NoBooks EXCEPT !.sess = store]
  /\ UNCHANGED <<store, mon, launch, sender, server, procs, saved>>

(***************************************************************************)
(* recover_sessions: settle what is queued, resume what still runs, finish *)
(* the rest.  An exception here ends the start: main saves and leaves.     *)
(***************************************************************************)

Found(s) ==
  LET known == Pids(B, s) \intersect Alive
  IN  IF known # {} THEN known
      ELSE {p \in Alive \intersect Inside : procs[p].born >= books.sess[s].start}

\* Already queued, by the run before or by RecoverFinish just now.
RecoverSettled(s) ==
  /\ phase = "recovering" /\ s \in todo /\ ~failed /\ s \in Ids(queue)
  /\ store' = Without(store, s) /\ todo' = todo \ {s}
  /\ books' = [books EXCEPT !.sess = Without(@, s)]
  /\ UNCHANGED <<phase, mon, launch, queueVars, sender, server, procs, saved, faults>>

RecoverResume(s) ==
  /\ phase = "recovering" /\ s \in todo /\ ~failed /\ s \notin Ids(queue)
  /\ LET b == [B EXCEPT !.sess[s].pids = Found(s)]
         got == Granted(b, s, Found(s), TRUE)
         c == Claimed(b, s, Found(s), TRUE)
         d == [c EXCEPT !.sess[s].pids = got]
     IN  /\ got # {}
         /\ SetB([d EXCEPT !.store = With(@, s, d.sess[s])])
         /\ mon' = [mon EXCEPT ![s] = [IdleMonitor EXCEPT !.pc = "idle"]]
  /\ todo' = todo \ {s}
  /\ UNCHANGED <<phase, launch, queueVars, sender, server, procs, saved, faults>>

Unclaimed(s) == Granted([B EXCEPT !.sess[s].pids = Found(s)], s, Found(s), TRUE) = {}
RecoverFinish(s) ==
  /\ phase = "recovering" /\ s \in todo /\ s \notin Ids(queue) /\ Unclaimed(s)
  /\ Appended(s, books.sess[s].last)
  /\ UNCHANGED <<phase, store, books, mon, launch, todo, sender, server, procs, saved>>

RecoverAborts ==
  /\ phase = "recovering" /\ Joined
  /\ \/ IOError /\ UNCHANGED queueVars
     \/ failed /\ UNCHANGED <<faults, queueVars>>
     \/ \E s \in todo : s \notin Ids(queue) /\ Unclaimed(s) /\ AppendRaises(s, books.sess[s].last)
  /\ store' \in {store, SaveAll} /\ MemoryGone
  /\ UNCHANGED <<server, procs, saved>>

Wire ==
  /\ phase = "recovering" /\ todo = {} /\ phase' = "wired"
  /\ UNCHANGED <<store, books, mon, launch, todo, queueVars, sender, server, procs, saved, faults>>

(***************************************************************************)

Record == {sender.batch[i] : i \in 1..Len(sender.batch)}
Monitor(s) ==
  \/ MonSnap(s) \/ MonDecide(s) \/ FinishAppend(s) \/ FinishPop(s)
  \/ \E ok \in BOOLEAN : MonClaim(s, ok) \/ MonAssign(s, ok) \/ FinishRemove(s, ok)
Send ==
  \/ SendBegin
  \/ \E r \in Record : \/ SendHeld(r) \/ SendRejected(r) \/ SendPaused(r)
                       \/ \E answered \in BOOLEAN : SendAccepted(r, answered)
  \/ \E ok \in BOOLEAN : SendAck(ok)
  \/ \E s \in Sessions : HoldExpires(s)
Recover ==
  \/ \E s \in Sessions : RecoverSettled(s) \/ RecoverResume(s) \/ RecoverFinish(s)
  \/ RecoverAborts \/ Wire
Next ==
  \/ LaunchCheck \/ LaunchSpawn \/ \E ok \in BOOLEAN : LaunchSave(ok)
  \/ \E s \in Sessions : Monitor(s)
  \/ Send \/ Recover \/ Start \/ Shutdown \/ Killed \/ PowerLost
  \/ \E p \in Procs : ProcExits(p) \/ \E q \in Procs \union {NoProc} : ProcStarts(p, q)

\* The threads keep running, and a post that is repeated for ever gets an
\* answer at last (the sender retries as long as the bridge is up).
Fairness ==
  /\ \A s \in Sessions : WF_vars(Monitor(s))
  /\ WF_vars(Send)
  /\ \A s \in Sessions :
       SF_vars(\E r \in Record : r.id = s /\ (SendAccepted(r, TRUE) \/ SendRejected(r)))

Spec == Init /\ [][Next]_vars
FairSpec == Spec /\ Fairness

(***************************************************************************)
(* Properties.                                                             *)
(***************************************************************************)

SessionRec == [start : Nat, pids : SUBSET Procs, last : Nat]

\* The shape of the state: every session the launcher or the store knows was
\* once saved, and a monitor that works has its session in memory.
TypeOK ==
  /\ phase \in {"down", "recovering", "wired"}
  /\ DOMAIN store \subseteq saved /\ DOMAIN books.sess \subseteq saved
  /\ \A s \in DOMAIN store : store[s] \in SessionRec
  /\ \A s \in DOMAIN books.sess : books.sess[s] \in SessionRec
  /\ \A s \in Sessions : mon[s].pc \notin {"none", "gone"} => s \in DOMAIN books.sess
  /\ synced \in 0..Len(queue) /\ Ids(queue) \subseteq saved
  /\ DOMAIN server \subseteq saved /\ todo \subseteq DOMAIN books.sess

\* Whatever crashes or fails to be written, a session that was saved once is
\* on the platter in the running file or the queue, in a file moved aside, or
\* counted by the server: finish appends before it removes, and an append is
\* believed only when its fsync was (playtime.py:240-252, 191-194).
NoSessionLost ==
  \A s \in saved : \/ s \in DOMAIN store \/ s \in Ids(SubSeq(queue, 1, synced))
                   \/ s \in aside \/ s \in DOMAIN server

\* "The index holds durable records only" (playtime.py:108): while the queue
\* answers, every line it counts on has been fsynced, and no line is torn.
IndexIsDurable == phase # "down" /\ ~failed => synced = Len(queue) /\ ~torn

\* A session whose processes are all gone is counted by the server at last,
\* whatever the server says of other records (playtime.py:305-306), unless a
\* process appears, the bridge goes down, or the queue refuses to work.
Quiet(s) == s \in DOMAIN books.sess /\ mon[s].pc \notin {"none", "gone"} /\ Alive = {}
PlaytimeReachesServer ==
  \A s \in Sessions \ Rejected :
    Quiet(s) ~> (s \in DOMAIN server \/ Alive # {} \/ phase # "wired" \/ failed)
=============================================================================
