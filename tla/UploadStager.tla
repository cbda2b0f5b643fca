---------------------------- MODULE UploadStager ----------------------------
(***************************************************************************)
(* Plain writes outside /game (uploadstage.py): a PUT lands in a staging   *)
(* directory, and once the file has been quiet for the debounce window the *)
(* background loop uploads it, registers it with the TeleDrive backend and *)
(* deletes the staged source, which until then is the only copy.           *)
(*                                                                         *)
(* Actors: WebDAV clients (bridge.py maps PUT, COPY, DELETE and GET of a   *)
(* staged file to the stager), the loop with the UploadEngine batch it     *)
(* runs (upload_engine.py), and crashes, which only the staging directory, *)
(* the queue file and the backend survive.  The directory has Windows      *)
(* semantics: a file that is open cannot be unlinked.                      *)
(*                                                                         *)
(* A file's bytes are one of Contents, Empty, Partial (what a write that   *)
(* has not ended, or never did, leaves behind) or Mixed (two PUTs wrote it *)
(* at the same time).  The sampled hash of a content is the content.       *)
(***************************************************************************)
EXTENDS Integers, FiniteSets

CONSTANTS
    Files,               \* destination paths (one parent folder)
    Clients,             \* WebDAV clients
    Contents,            \* complete file contents
    MaxAttempts,         \* MAX_ATTEMPTS
    MaxFaults,           \* bound on failed PUTs, uploads and registrations
    MaxCrashes,          \* bound on crashes of the bridge
    WritesDuringBatch,   \* a write may arrive while a batch handles the file
    ConcurrentPuts,      \* a write may arrive while another one is under way
    LongWrites,          \* a PUT may last longer than WRITER_STALE_SECONDS,
                         \* a COPY longer than the debounce window
    Readers,             \* clients GET and COPY staged files
    ShutdownDuringBatch  \* the interpreter may shut down while a batch runs:
                         \* executors refuse work, this daemon thread goes on

Empty == "empty"
Partial == "partial"
Mixed == "mixed"
Absent == "absent"
NoFile == "none"

ASSUME StagerAssumption ==
    /\ MaxAttempts \in Nat \ {0}
    /\ MaxFaults \in Nat
    /\ MaxCrashes \in Nat
    /\ WritesDuringBatch \in BOOLEAN
    /\ ConcurrentPuts \in BOOLEAN
    /\ LongWrites \in BOOLEAN
    /\ Readers \in BOOLEAN
    /\ ShutdownDuringBatch \in BOOLEAN
    /\ Contents \cap {Empty, Partial, Mixed, Absent} = {}
    /\ NoFile \notin Files

VARIABLES
    disk,        \* the staged file: its bytes, or Absent
    unit,        \* _pending: the PendingUpload of the file
    saved,       \* upload-queue.json: the stage and attempts of every unit
    docs,        \* backend rows of the path: <<hash, content>>
    head,        \* content of the newest row, the one the drive shows
    req,         \* the request each client has under way
    lpc,         \* the loop: waiting for a tick, in a batch, settling it
    bpc,         \* progress of a file through the batch
    fp, up,      \* its fingerprint, and the content that was uploaded
    faults, crashes,
    acked,       \* history: content of the last write reported as successful
    tries        \* history: failed uploads since the file was last touched

vars == <<disk, unit, saved, docs, head, req, lpc, bpc, fp, up, faults,
          crashes, acked, tries>>

-----------------------------------------------------------------------------
(* The pending record *)

Resting == {"staging", "failed", "abandoned"}
QueueStage == Resting \cup {"planning", "uploading", "registering"}

NoUnit == [stage |-> "none", attempts |-> 0, quiet |-> FALSE,
           retry |-> FALSE, writers |-> 0]
Staged == [NoUnit EXCEPT !.stage = "staging"]

Pending(f) == unit[f].stage # "none"

\* touch: a new unit, or the debounce window restarts and a failure is wiped.
Touched(u) ==
    IF u.stage = "none" THEN Staged
    ELSE IF u.stage = "failed"
    THEN [u EXCEPT !.quiet = FALSE, !.stage = "staging", !.attempts = 0]
    ELSE [u EXCEPT !.quiet = FALSE]

\* _save: the stage and the attempts of every pending unit, as of this step.
Save ==
    saved' = [f \in Files |->
                 [stage |-> unit'[f].stage, attempts |-> unit'[f].attempts]]

\* _set_stage
StageSet(f, stage) ==
    IF Pending(f) THEN [unit EXCEPT ![f].stage = stage] ELSE unit

-----------------------------------------------------------------------------
(* WebDAV clients *)

Idle == [pc |-> "idle", file |-> NoFile, from |-> NoFile, content |-> Partial,
         alone |-> TRUE]

At(f, pcs) == {c \in Clients : req[c].file = f /\ req[c].pc \in pcs}
Writing(f) == At(f, {"writing", "copying"})
Putting(f) == At(f, {"begun", "writing", "closed", "broken", "copying"})

\* The file is open, so Windows refuses to unlink it.
Held(f) ==
    \/ At(f, {"writing", "copying", "getting"}) # {}
    \/ \E c \in Clients : req[c].pc = "copying" /\ req[c].from = f
    \/ bpc[f] = "reading"

MayWrite(f) ==
    /\ WritesDuringBatch \/ bpc[f] = "idle"
    /\ ConcurrentPuts \/ Putting(f) = {}

Untried(f) == tries' = [tries EXCEPT ![f] = 0]

WriterAdded(u) == [u EXCEPT !.writers = @ + 1]

\* create_file, then begin_write.
PutBegin(c, f) ==
    /\ req[c].pc = "idle"
    /\ MayWrite(f)
    /\ req' = [req EXCEPT ![c] = [Idle EXCEPT !.pc = "begun", !.file = f]]
    /\ disk' = IF disk[f] = Absent THEN [disk EXCEPT ![f] = Empty] ELSE disk
    /\ unit' = [unit EXCEPT ![f] = WriterAdded(Touched(@))]
    /\ Untried(f)
    /\ Save
    /\ UNCHANGED <<docs, head, lpc, bpc, fp, up, faults, crashes, acked>>

\* local.open("wb") truncates, and the first bytes arrive: the client has given
\* up the old content.
PutOpen(c) ==
    LET f == req[c].file IN
    /\ req[c].pc = "begun"
    /\ req' = [d \in Clients |->
                  IF d = c THEN [req[c] EXCEPT !.pc = "writing",
                                               !.alone = (Writing(f) = {})]
                  ELSE IF d \in Writing(f) THEN [req[d] EXCEPT !.alone = FALSE]
                  ELSE req[d]]
    /\ disk' = [disk EXCEPT ![f] = Partial]
    /\ acked' = [acked EXCEPT ![f] = Absent]
    /\ UNCHANGED <<unit, saved, docs, head, lpc, bpc, fp, up, faults, crashes,
                   tries>>

\* The body has arrived and the handle is closed.  Another PUT that had the
\* file open meanwhile may have written to it or not, and its content no
\* longer counts.
PutClose(c, v) ==
    LET f == req[c].file IN
    /\ req[c].pc = "writing"
    /\ req' = [req EXCEPT ![c].pc = "closed", ![c].content = v]
    /\ \E bytes \in {v} \cup (IF req[c].alone THEN {} ELSE {Mixed}) :
          disk' = [disk EXCEPT ![f] = bytes]
    /\ acked' = [acked EXCEPT ![f] = IF req[c].alone THEN @ ELSE Absent]
    /\ UNCHANGED <<unit, saved, docs, head, lpc, bpc, fp, up, faults, crashes,
                   tries>>

\* The body breaks off: the client went away, or its socket timed out.
PutBreak(c) ==
    /\ faults < MaxFaults
    /\ req[c].pc = "writing"
    /\ req' = [req EXCEPT ![c].pc = "broken"]
    /\ faults' = faults + 1
    /\ UNCHANGED <<disk, unit, saved, docs, head, lpc, bpc, fp, up, crashes,
                   acked, tries>>

\* Mutant of WriterGone: the first PUT to end stands for all of them.
MutNoWriterLeft(u) == [u EXCEPT !.writers = 0]

WriterGone(u) == IF u.writers > 0 THEN [u EXCEPT !.writers = @ - 1] ELSE u

\* end_write(ok=True), and the client hears of success.  Which of two PUTs that
\* overlap counts is anybody's guess: neither is taken to be acknowledged.
PutEnd(c) ==
    LET f == req[c].file IN
    /\ req[c].pc = "closed"
    /\ req' = [req EXCEPT ![c] = Idle]
    /\ unit' = [unit EXCEPT ![f] = Touched(WriterGone(@))]
    /\ acked' = [acked EXCEPT ![f] =
                    IF /\ disk[f] \in {req[c].content, Absent}
                       /\ Putting(f) = {c}
                    THEN req[c].content ELSE @]
    /\ Untried(f)
    /\ Save
    /\ UNCHANGED <<disk, docs, head, lpc, bpc, fp, up, faults, crashes>>

\* Mutant of PutEndFailed: the truncated file is left for the debounce.
MutKeepTruncated(c) ==
    LET f == req[c].file IN
    /\ req[c].pc = "broken"
    /\ req' = [req EXCEPT ![c] = Idle]
    /\ unit' = [unit EXCEPT ![f] = Touched(WriterGone(@))]
    /\ Untried(f)
    /\ Save
    /\ UNCHANGED <<disk, docs, head, lpc, bpc, fp, up, faults, crashes, acked>>

\* end_write(ok=False): discard the file unless another PUT is writing it.
PutEndFailed(c) ==
    LET f == req[c].file
        discard == WriterGone(unit[f]).writers = 0 IN
    /\ req[c].pc = "broken"
    /\ req' = [req EXCEPT ![c] = Idle]
    /\ disk' = IF discard /\ ~Held(f) THEN [disk EXCEPT ![f] = Absent] ELSE disk
    /\ unit' = [unit EXCEPT ![f] =
                   IF discard THEN NoUnit ELSE Touched(WriterGone(@))]
    /\ Untried(f)
    /\ Save
    /\ UNCHANGED <<docs, head, lpc, bpc, fp, up, faults, crashes, acked>>

\* The resource of a path is the staged file as long as it is pending.
Resolves(f) == Pending(f) /\ disk[f] # Absent

\* DELETE of a staged file that nobody is writing: unlink (an error is
\* ignored), then forget.
Delete(f) ==
    /\ MayWrite(f)
    /\ Putting(f) = {}
    /\ Resolves(f)
    /\ disk' = IF Held(f) THEN disk ELSE [disk EXCEPT ![f] = Absent]
    /\ unit' = [unit EXCEPT ![f] = NoUnit]
    /\ acked' = [acked EXCEPT ![f] = Absent]
    /\ Untried(f)
    /\ Save
    /\ UNCHANGED <<docs, head, req, lpc, bpc, fp, up, faults, crashes>>

\* COPY of a staged file g to f: create_file, then a copy under way that no
\* begin_write announces.
CopyBegin(c, g, f) ==
    /\ Readers
    /\ req[c].pc = "idle"
    /\ f # g
    /\ Resolves(g)
    /\ MayWrite(f)
    /\ ConcurrentPuts \/ Putting(g) = {}
    /\ req' = [req EXCEPT ![c] = [Idle EXCEPT !.pc = "copying", !.file = f,
                                              !.from = g, !.content = disk[g],
                                              !.alone = (Writing(f) = {})]]
    /\ disk' = [disk EXCEPT ![f] = Partial]
    /\ unit' = [unit EXCEPT ![f] = Touched(@)]
    /\ acked' = [acked EXCEPT ![f] = Absent]
    /\ Untried(f)
    /\ Save
    /\ UNCHANGED <<docs, head, lpc, bpc, fp, up, faults, crashes>>

\* copy2 returns and the client hears of success; the stager is not told.
CopyEnd(c) ==
    LET f == req[c].file
        whole == req[c].alone /\ disk[req[c].from] = req[c].content
        bytes == IF whole THEN req[c].content ELSE Mixed IN
    /\ req[c].pc = "copying"
    /\ req' = [req EXCEPT ![c] = Idle]
    /\ disk' = [disk EXCEPT ![f] = bytes]
    /\ acked' = [acked EXCEPT ![f] = IF whole THEN bytes ELSE Absent]
    /\ UNCHANGED <<unit, saved, docs, head, lpc, bpc, fp, up, faults, crashes,
                   tries>>

\* GET of a staged file keeps it open until the body is sent.
GetBegin(c, f) ==
    /\ Readers
    /\ req[c].pc = "idle"
    /\ Resolves(f)
    /\ req' = [req EXCEPT ![c] = [Idle EXCEPT !.pc = "getting", !.file = f]]
    /\ UNCHANGED <<disk, unit, saved, docs, head, lpc, bpc, fp, up, faults,
                   crashes, acked, tries>>

GetEnd(c) ==
    /\ req[c].pc = "getting"
    /\ req' = [req EXCEPT ![c] = Idle]
    /\ UNCHANGED <<disk, unit, saved, docs, head, lpc, bpc, fp, up, faults,
                   crashes, acked, tries>>

-----------------------------------------------------------------------------
(* Time *)

\* The debounce window passes without a write.
QuietPasses(f) ==
    /\ Pending(f)
    /\ ~unit[f].quiet
    /\ LongWrites \/ At(f, {"copying"}) = {}
    /\ unit' = [unit EXCEPT ![f].quiet = TRUE]
    /\ UNCHANGED <<disk, saved, docs, head, req, lpc, bpc, fp, up, faults,
                   crashes, acked, tries>>

\* RETRY_SECONDS have passed since the failure.
RetryPasses(f) ==
    /\ unit[f].stage = "failed"
    /\ ~unit[f].retry
    /\ unit' = [unit EXCEPT ![f].retry = TRUE]
    /\ UNCHANGED <<disk, saved, docs, head, req, lpc, bpc, fp, up, faults,
                   crashes, acked, tries>>

-----------------------------------------------------------------------------
(* The loop: _due, then process_due over one batch *)

\* What _due picks up.
Ready(f) ==
    /\ disk[f] # Absent
    /\ unit[f].stage \in {"staging", "failed"}
    /\ unit[f].stage = "failed" => unit[f].retry
    /\ unit[f].writers = 0 \/ LongWrites
    /\ unit[f].quiet

\* A unit whose file is gone is dropped.
Vanished(f) == Pending(f) /\ disk[f] = Absent /\ unit[f].stage # "uploading"

Due ==
    /\ lpc = "tick"
    /\ \E f \in Files : Ready(f) \/ Vanished(f)
    /\ unit' = [f \in Files |-> IF Vanished(f) THEN NoUnit
                                ELSE IF Ready(f)
                                THEN [unit[f] EXCEPT !.stage = "uploading"]
                                ELSE unit[f]]
    /\ bpc' = [f \in Files |-> IF Ready(f) THEN "due" ELSE "idle"]
    /\ lpc' = IF \E f \in Files : Ready(f) THEN "batch" ELSE "tick"
    /\ tries' = [f \in Files |-> IF Vanished(f) THEN 0 ELSE tries[f]]
    /\ UNCHANGED <<disk, saved, docs, head, req, fp, up, faults, crashes, acked>>

\* _request_for: a file that has gone is skipped and not settled later.
RequestFor(f) ==
    /\ bpc[f] = "due"
    /\ IF Pending(f) /\ disk[f] # Absent
       THEN /\ bpc' = [bpc EXCEPT ![f] = "planned"]
            /\ unit' = StageSet(f, "planning")
            /\ Save
       ELSE /\ bpc' = [bpc EXCEPT ![f] = "idle"]
            /\ UNCHANGED <<unit, saved>>
    /\ UNCHANGED <<disk, docs, head, req, lpc, fp, up, faults, crashes, acked,
                   tries>>

(***************************************************************************)
(* _fingerprint and _check_existing: a row of this path with the same hash *)
(* is reused instead of uploading the bytes again.  A file that has gone,  *)
(* or that is empty, is refused.                                           *)
(***************************************************************************)
Inspect(f) ==
    /\ bpc[f] = "planned"
    /\ fp' = [fp EXCEPT ![f] = disk[f]]
    /\ \/ /\ disk[f] # Absent
          /\ \E row \in docs[f] :
                /\ row[1] = disk[f]
                /\ up' = [up EXCEPT ![f] = row[2]]
                /\ bpc' = [bpc EXCEPT ![f] = "sent"]
          /\ unit' = StageSet(f, "registering")
       \/ /\ disk[f] \notin {Absent, Empty}
          /\ \A row \in docs[f] : row[1] # disk[f]
          /\ bpc' = [bpc EXCEPT ![f] = "hashed"]
          /\ unit' = StageSet(f, "uploading")
          /\ UNCHANGED up
       \/ /\ disk[f] \in {Absent, Empty}
          /\ bpc' = [bpc EXCEPT ![f] = "bad"]
          /\ UNCHANGED <<unit, up>>
    /\ Save
    /\ UNCHANGED <<disk, docs, head, req, lpc, faults, crashes, acked, tries>>

\* The source is opened and its bytes go out.
UploadStart(f) ==
    /\ bpc[f] = "hashed"
    /\ up' = [up EXCEPT ![f] = disk[f]]
    /\ bpc' = [bpc EXCEPT ![f] = IF disk[f] = Absent THEN "bad" ELSE "reading"]
    /\ UNCHANGED <<disk, unit, saved, docs, head, req, lpc, fp, faults, crashes,
                   acked, tries>>

\* The messages exist; a source that changed under the reader is noticed by
\* its length or not at all.
UploadEnd(f) ==
    /\ bpc[f] = "reading"
    /\ \/ /\ bpc' = [bpc EXCEPT ![f] = "sent"]
          /\ up' = IF disk[f] = up[f] THEN up ELSE [up EXCEPT ![f] = Partial]
          /\ unit' = StageSet(f, "registering")
          /\ Save
       \/ /\ disk[f] # up[f]
          /\ bpc' = [bpc EXCEPT ![f] = "bad"]
          /\ UNCHANGED <<up, unit, saved>>
    /\ UNCHANGED <<disk, docs, head, req, lpc, fp, faults, crashes, acked, tries>>

Registered(f) ==
    /\ docs' = [docs EXCEPT ![f] = @ \cup {<<fp[f], up[f]>>}]
    /\ head' = [head EXCEPT ![f] = up[f]]

\* register_result: every part row is accepted.
RegisterResult(f) ==
    /\ bpc[f] = "sent"
    /\ Registered(f)
    /\ bpc' = [bpc EXCEPT ![f] = "ok"]
    /\ UNCHANGED <<disk, unit, saved, req, lpc, fp, up, faults, crashes, acked,
                   tries>>

\* The hash check, the upload or the registration fails; the backend may have
\* accepted a registration whose answer was lost.
StepFails(f) ==
    /\ faults < MaxFaults
    /\ bpc[f] \in {"planned", "hashed", "reading", "sent"}
    /\ bpc' = [bpc EXCEPT ![f] = "bad"]
    /\ faults' = faults + 1
    /\ \/ UNCHANGED <<docs, head>>
       \/ bpc[f] = "sent" /\ Registered(f)
    /\ UNCHANGED <<disk, unit, saved, req, lpc, fp, up, crashes, acked, tries>>

(***************************************************************************)
(* hash_pool.submit raises for the file just planned, and transfer_batch   *)
(* ends early.  process_due takes that for a failure it has already heard  *)
(* of: a file the batch had not reached counts as "ok", without a failure. *)
(***************************************************************************)
BatchRaises ==
    /\ ShutdownDuringBatch
    /\ lpc = "batch"
    /\ \E f \in Files : bpc[f] = "planned"
    /\ \A f \in Files : bpc[f] # "reading"
    /\ bpc' = [f \in Files |-> IF bpc[f] \in {"planned", "hashed"} THEN "ok"
                               ELSE IF bpc[f] = "due" THEN "idle" ELSE bpc[f]]
    /\ UNCHANGED <<disk, unit, saved, docs, head, req, lpc, fp, up, faults,
                   crashes, acked, tries>>

\* pool.submit raises in on_result, a done callback whose errors are only
\* logged: the file is never registered, and no failure is recorded.
HandOffRaises(f) ==
    /\ ShutdownDuringBatch
    /\ bpc[f] = "sent"
    /\ bpc' = [bpc EXCEPT ![f] = "ok"]
    /\ UNCHANGED <<disk, unit, saved, docs, head, req, lpc, fp, up, faults,
                   crashes, acked, tries>>

\* The batch and the registration pool have drained.
BatchDone ==
    /\ lpc = "batch"
    /\ \A f \in Files : bpc[f] \in {"idle", "ok", "bad"}
    /\ lpc' = "settle"
    /\ UNCHANGED <<disk, unit, saved, docs, head, req, bpc, fp, up, faults,
                   crashes, acked, tries>>

\* Mutant of Complete: the source goes whether or not registration settled.
MutCompleteAnyway(f) ==
    /\ lpc = "settle"
    /\ bpc[f] \in {"ok", "bad"}
    /\ ~Held(f)
    /\ disk' = [disk EXCEPT ![f] = Absent]
    /\ unit' = [unit EXCEPT ![f] = NoUnit]
    /\ bpc' = [bpc EXCEPT ![f] = "idle"]
    /\ Untried(f)
    /\ Save
    /\ UNCHANGED <<docs, head, req, lpc, fp, up, faults, crashes, acked>>

\* _complete: the source is deleted and the unit dropped.
Complete(f) ==
    /\ lpc = "settle"
    /\ bpc[f] = "ok"
    /\ ~Held(f)
    /\ disk' = [disk EXCEPT ![f] = Absent]
    /\ unit' = [unit EXCEPT ![f] = NoUnit]
    /\ bpc' = [bpc EXCEPT ![f] = "idle"]
    /\ Untried(f)
    /\ Save
    /\ UNCHANGED <<docs, head, req, lpc, fp, up, faults, crashes, acked>>

\* unlink raises on an open file: the loop drops the rest of the batch.
CompleteRaises(f) ==
    /\ lpc = "settle"
    /\ bpc[f] = "ok"
    /\ Held(f)
    /\ bpc' = [g \in Files |-> "idle"]
    /\ lpc' = "tick"
    /\ UNCHANGED <<disk, unit, saved, docs, head, req, fp, up, faults, crashes,
                   acked, tries>>

\* Mutant of RecordFailure: off by one, the last attempt does not abandon.
MutOneMoreAttempt(f) ==
    LET attempts == unit[f].attempts + 1 IN
    /\ lpc = "settle"
    /\ bpc[f] = "bad"
    /\ bpc' = [bpc EXCEPT ![f] = "idle"]
    /\ unit' = [unit EXCEPT ![f] =
                   [@ EXCEPT !.attempts = attempts, !.retry = FALSE,
                      !.stage = IF attempts > MaxAttempts
                                THEN "abandoned" ELSE "failed"]]
    /\ tries' = [tries EXCEPT ![f] = @ + 1]
    /\ Save
    /\ UNCHANGED <<disk, docs, head, req, lpc, fp, up, faults, crashes, acked>>

\* Mutant of RecordFailure: the stage of a file that failed is left alone.
MutFailureKeepsStage(f) ==
    /\ lpc = "settle"
    /\ bpc[f] = "bad"
    /\ bpc' = [bpc EXCEPT ![f] = "idle"]
    /\ UNCHANGED <<disk, unit, saved, docs, head, req, lpc, fp, up, faults,
                   crashes, acked, tries>>

\* _record_failure: retried later, or abandoned for good.
RecordFailure(f) ==
    LET attempts == unit[f].attempts + 1 IN
    /\ lpc = "settle"
    /\ bpc[f] = "bad"
    /\ bpc' = [bpc EXCEPT ![f] = "idle"]
    /\ IF Pending(f)
       THEN /\ unit' = [unit EXCEPT ![f] =
                           [@ EXCEPT !.attempts = attempts, !.retry = FALSE,
                              !.stage = IF attempts >= MaxAttempts
                                        THEN "abandoned" ELSE "failed"]]
            /\ tries' = [tries EXCEPT ![f] = @ + 1]
            /\ Save
       ELSE UNCHANGED <<unit, tries, saved>>
    /\ UNCHANGED <<disk, docs, head, req, lpc, fp, up, faults, crashes, acked>>

SettleDone ==
    /\ lpc = "settle"
    /\ \A f \in Files : bpc[f] = "idle"
    /\ lpc' = "tick"
    /\ UNCHANGED <<disk, unit, saved, docs, head, req, bpc, fp, up, faults,
                   crashes, acked, tries>>

-----------------------------------------------------------------------------
(* Crash and restart *)

\* _adopt_leftovers: a file on disk is pending again, with the attempts that
\* were saved, and starts over unless it was resting.
Adopted(f) ==
    IF disk[f] = Absent THEN NoUnit
    ELSE [Staged EXCEPT !.retry = TRUE, !.attempts = saved[f].attempts,
                        !.stage = IF saved[f].stage \in Resting
                                  THEN saved[f].stage ELSE "staging"]

CrashRestart ==
    /\ crashes < MaxCrashes
    /\ crashes' = crashes + 1
    /\ unit' = [f \in Files |-> Adopted(f)]
    /\ Save
    /\ req' = [c \in Clients |-> Idle]
    /\ bpc' = [f \in Files |-> "idle"]
    /\ lpc' = "tick"
    /\ tries' = [f \in Files |-> IF disk[f] = Absent THEN 0 ELSE tries[f]]
    /\ UNCHANGED <<disk, docs, head, fp, up, faults, acked>>

-----------------------------------------------------------------------------
(* The specification *)

Init ==
    /\ disk = [f \in Files |-> Absent]
    /\ unit = [f \in Files |-> NoUnit]
    /\ saved = [f \in Files |-> [stage |-> "none", attempts |-> 0]]
    /\ docs = [f \in Files |-> {}]
    /\ head = [f \in Files |-> Absent]
    /\ req = [c \in Clients |-> Idle]
    /\ lpc = "tick"
    /\ bpc = [f \in Files |-> "idle"]
    /\ fp = [f \in Files |-> Absent]
    /\ up = [f \in Files |-> Absent]
    /\ faults = 0
    /\ crashes = 0
    /\ acked = [f \in Files |-> Absent]
    /\ tries = [f \in Files |-> 0]

Client(c) ==
    \/ \E f \in Files : PutBegin(c, f) \/ GetBegin(c, f)
    \/ PutOpen(c)
    \/ \E v \in Contents : PutClose(c, v)
    \/ PutBreak(c)
    \/ PutEnd(c)
    \/ PutEndFailed(c)
    \/ \E g, f \in Files : CopyBegin(c, g, f)
    \/ CopyEnd(c)
    \/ GetEnd(c)

Batch(f) ==
    \/ RequestFor(f) \/ Inspect(f) \/ UploadStart(f) \/ UploadEnd(f)
    \/ RegisterResult(f)

Settle(f) == Complete(f) \/ CompleteRaises(f) \/ RecordFailure(f)

Loop == Due \/ BatchDone \/ SettleDone \/ \E f \in Files : Batch(f) \/ Settle(f)

Time == \E f \in Files : QuietPasses(f) \/ RetryPasses(f)

Next ==
    \/ \E c \in Clients : Client(c)
    \/ \E f \in Files : Delete(f) \/ StepFails(f) \/ HandOffRaises(f)
    \/ BatchRaises
    \/ Loop
    \/ Time
    \/ CrashRestart

Spec == Init /\ [][Next]_vars

\* The requests the handler thread finishes by itself once they have begun.
Served(c) ==
    \/ PutOpen(c) \/ PutEnd(c) \/ PutEndFailed(c) \/ CopyEnd(c) \/ GetEnd(c)
    \/ \E v \in Contents : PutClose(c, v)

(***************************************************************************)
(* The loop is a daemon thread that ticks for as long as the bridge runs,  *)
(* time passes, and a request that has been accepted ends.  No client has  *)
(* to send anything, and nothing has to fail.                              *)
(***************************************************************************)
Fairness ==
    /\ WF_vars(Due) /\ WF_vars(BatchDone) /\ WF_vars(SettleDone)
    /\ \A f \in Files :
          /\ WF_vars(Batch(f)) /\ WF_vars(Settle(f))
          /\ WF_vars(QuietPasses(f)) /\ WF_vars(RetryPasses(f))
    /\ \A c \in Clients : WF_vars(Served(c))

FairSpec == Spec /\ Fairness

-----------------------------------------------------------------------------
(* Properties *)

Bytes == Contents \cup {Empty, Partial, Mixed}
OnDisk == Bytes \cup {Absent}

UnitType == [stage : QueueStage \cup {"none"}, attempts : 0 .. MaxAttempts,
             quiet : BOOLEAN, retry : BOOLEAN, writers : Nat]

\* Every variable keeps its type; in particular the attempt counter never
\* passes MAX_ATTEMPTS, whatever order the batch, the clients and the crashes
\* come in (_record_failure, touch and _adopt_leftovers all write it).
TypeOK ==
    /\ disk \in [Files -> OnDisk]
    /\ unit \in [Files -> UnitType]
    /\ saved \in [Files -> [stage : QueueStage \cup {"none"},
                            attempts : 0 .. MaxAttempts]]
    /\ docs \in [Files -> SUBSET (OnDisk \X OnDisk)]
    /\ head \in [Files -> OnDisk]
    /\ req \in [Clients -> [pc : {"idle", "begun", "writing", "closed", "broken",
                                  "copying", "getting"},
                            file : Files \cup {NoFile},
                            from : Files \cup {NoFile}, content : OnDisk,
                            alone : BOOLEAN]]
    /\ lpc \in {"tick", "batch", "settle"}
    /\ bpc \in [Files -> {"idle", "due", "planned", "hashed", "reading", "sent",
                          "ok", "bad"}]
    /\ fp \in [Files -> OnDisk]
    /\ up \in [Files -> OnDisk]
    /\ faults \in 0 .. MaxFaults
    /\ crashes \in 0 .. MaxCrashes
    /\ acked \in [Files -> OnDisk]
    /\ tries \in [Files -> Nat]

\* A write the client was told had succeeded is in the staging directory or is
\* what the drive shows, whatever crashes or fails: the staged source is the
\* only copy until its registration has settled (_complete, end_write).
NoLostWrite ==
    \A f \in Files : acked[f] # Absent => acked[f] \in {disk[f], head[f]}

\* Nothing the drive holds was uploaded from a file that was still being, or
\* never was completely, written (_due's writer count, end_write's discard).
WholeFilesOnly == \A f \in Files : \A row \in docs[f] : row[2] # Partial

\* A row's hash is the hash of the bytes behind it: the source is hashed and
\* read again later, and a row with another file's hash would be reused for
\* that file by _check_existing.
HashMatchesContent == \A f \in Files : \A row \in docs[f] : row[1] = row[2]

\* A file that nobody writes again fails at most MAX_ATTEMPTS uploads, however
\* often the bridge is restarted in between (_adopt_leftovers).
RetriesBounded == \A f \in Files : tries[f] <= MaxAttempts

\* A write that was acknowledged reaches the drive, unless the file is written
\* again, deleted, or abandoned after its attempts (_loop, _due, process_due).
AckedIsUploaded ==
    \A f \in Files : \A v \in Contents :
        acked[f] = v ~> \/ head[f] = v
                        \/ acked[f] # v
                        \/ unit[f].stage = "abandoned"

=============================================================================
