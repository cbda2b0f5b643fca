----------------------------- MODULE UploadBatch ----------------------------
(***************************************************************************)
(* UploadEngine.transfer_batch and register_result (upload_engine.py): the *)
(* stream of inspections, the reuse of registered documents, fingerprint   *)
(* claims, album queues with their fallback, and the rows a registration   *)
(* leaves in the backend.                                                  *)
(*                                                                         *)
(* Every batch runs in a thread of its own (the two stagers share one      *)
(* engine, so claims live as long as the process).  A payload stands for   *)
(* its fingerprint.  The parts of an upload are one or more documents,     *)
(* named <<owner, part>> after the request that uploaded them; how a big   *)
(* file is sent is the business of SegmentScheduler.                       *)
(***************************************************************************)
EXTENDS Integers, Sequences, FiniteSets, SequencesExt

CONSTANTS
    NumRequests,     \* requests 1 .. NumRequests
    BatchSize,       \* a batch is this many consecutive requests
    Names, Payloads, \* destination paths and contents
    Accounts,
    AlbumBatch,      \* album_batch
    Lookahead,       \* inspections that run ahead of the upload stage
    BigParts,        \* parts of a file too big for one document
    MaxFaults,       \* bound on failed steps
    MaxRenames,      \* bound on MOVEs of registered files
    ReuseMovedNames  \* a file may be written again under a name that another
                     \* one was moved away from

NoName == "none"   \* no path is called that here

ASSUME UploadBatchAssumption ==
    /\ NumRequests \in Nat \ {0} /\ BatchSize \in Nat \ {0}
    /\ AlbumBatch \in Nat \ {0} /\ Lookahead \in Nat
    /\ BigParts \in Nat \ {0, 1}
    /\ MaxFaults \in Nat /\ MaxRenames \in Nat
    /\ ReuseMovedNames \in BOOLEAN
    /\ NoName \notin Names

Requests == 1 .. NumRequests
BatchOf(r) == (r - 1) \div BatchSize
Batches == {BatchOf(r) : r \in Requests}
Kinds == {"album", "small", "big"}
NoRequest == 0
NoRow == [name |-> NoName, group |-> NoRequest]
Docs == Requests \X (1 .. BigParts)

VARIABLES
    req,       \* what each request asks for; chosen once
    insp,      \* its inspection: waiting, or what check-hash found
    fut,       \* the owner of the future it waits on
    future,    \* the future of each owner: idle, pending, ok, failed
    doc,       \* whose documents the request got
    claims,    \* _claims: the owner for each payload and name
    batch,     \* the thread of each batch
    queue,     \* the AlbumQueue of each batch and account
    delivered, \* calls of deliver for a request
    reg,       \* register_result of a request
    todo,      \* the parts it has yet to register
    rows,      \* the backend's files table; file_id is its primary key
    faults, renames,
    owners,    \* history: requests that began to upload
    drive      \* history: what the user was told is stored under a name

vars == <<req, insp, fut, future, doc, claims, batch, queue, delivered, reg,
          todo, rows, faults, renames, owners, drive>>
backend == <<reg, todo, rows, renames, drive>>

-----------------------------------------------------------------------------
(* Requests and the rows that answer to them *)

\* The requests of a batch, in order.
Of(b) ==
    LET first == b * BatchSize
        size == IF first + BatchSize <= NumRequests THEN BatchSize ELSE NumRequests - first
    IN  [i \in 1 .. size |-> first + i]

Parts(r) == IF req[r].kind = "big" THEN 1 .. BigParts ELSE {1}

\* Mutant of ClaimKey: claims collapse one payload whatever its name.
MutClaimByPayload(r) == <<req[r].payload, NoName>>

\* _claim_key
ClaimKey(r) == <<req[r].payload, req[r].name>>

Keys == Payloads \X (Names \cup {NoName})

\* _canonical_split_candidate: one registration group holds every part, all
\* under that name.
Answers(d, name) ==
    \E g \in Requests : \A p \in Parts(d) : rows[<<d, p>>] = [name |-> name, group |-> g]

\* _check_existing, canonical_existing_parts: the first complete upload of the
\* payload under exactly this name, if there is one.
CheckExisting(r) ==
    LET found == {d \in Requests : /\ req[d].payload = req[r].payload
                                   /\ req[d].kind = req[r].kind
                                   /\ Answers(d, req[r].name)}
    IN IF found = {} THEN NoRequest ELSE CHOOSE d \in found : \A e \in found : d <= e

-----------------------------------------------------------------------------
(* The batch thread *)

Fails == faults < MaxFaults /\ faults' = faults + 1

Position(b) == batch[b].pos
Current(b) == Of(b)[Position(b)]
Streaming(b) == batch[b].pc = "stream" /\ Position(b) <= Len(Of(b))

Goto(b, pc) == batch' = [batch EXCEPT ![b].pc = pc]
Proceed(b) == batch' = [batch EXCEPT ![b].pc = "stream", ![b].pos = @ + 1]

SameBig(r, s) == req[r].kind = "big" /\ req[s] = req[r]

\* Within the window of _inspection_stream.  A stager has one unit for a path,
\* so an upload of the same big file before this one has been settled.
MayInspect(r) ==
    /\ insp[r] = "waiting"
    /\ \A s \in 1 .. r - 1 : SameBig(r, s) => reg[s] \in {"ok", "lost"}
    /\ batch[BatchOf(r)].pc # "ended"
    /\ \E i \in DOMAIN Of(BatchOf(r)) :
          Of(BatchOf(r))[i] = r /\ i <= Position(BatchOf(r)) + Lookahead

\* The hash pool and the check pool.
Inspect(r) ==
    /\ MayInspect(r)
    /\ \/ /\ insp' = [insp EXCEPT ![r] = "new"]
          /\ CheckExisting(r) = NoRequest
          /\ UNCHANGED <<doc, faults>>
       \/ /\ insp' = [insp EXCEPT ![r] = "reuse"]
          /\ CheckExisting(r) # NoRequest
          /\ doc' = [doc EXCEPT ![r] = CheckExisting(r)]
          /\ UNCHANGED faults
       \/ insp' = [insp EXCEPT ![r] = "failed"] /\ Fails /\ UNCHANGED doc
    /\ UNCHANGED <<req, fut, future, claims, batch, queue, delivered, owners,
                   backend>>

\* deliver, for the requests that got their parts and for those that did not:
\* on_result hands each result to a thread that registers it.
Deliver(done, lost, docs) ==
    /\ delivered' = [r \in Requests |->
                        delivered[r] + IF r \in done \cup lost THEN 1 ELSE 0]
    /\ reg' = [r \in Requests |-> IF r \in done THEN "parts"
                                  ELSE IF r \in lost THEN "lost" ELSE reg[r]]
    /\ todo' = [r \in Requests |-> IF r \in done THEN Parts(docs[r]) ELSE todo[r]]

\* Mutant of Waiting: only the owner hears of the end of its upload.
MutOwnerOnly(o) == {o}

Waiting(o) == {r \in Requests : fut[r] = o /\ delivered[r] = 0}

\* An inspection that failed is reported at once.
InspectionFailed(b) ==
    LET r == Current(b) IN
    /\ Streaming(b) /\ insp[r] = "failed"
    /\ Deliver({}, {r}, doc)
    /\ Proceed(b)
    /\ UNCHANGED <<req, insp, fut, future, doc, claims, queue, rows, faults,
                   renames, owners, drive>>

\* Registered parts were found.
Reuse(b) ==
    LET r == Current(b) IN
    /\ Streaming(b) /\ insp[r] = "reuse"
    /\ Deliver({r}, {}, doc)
    /\ Proceed(b)
    /\ UNCHANGED <<req, insp, fut, future, doc, claims, queue, rows, faults,
                   renames, owners, drive>>

\* Mutant of Claimed: a claim counts once its upload has ended.
MutClaimedLate(r) ==
    IF \E o \in Requests : o = claims[ClaimKey(r)] /\ future[o] = "ok"
    THEN claims[ClaimKey(r)] ELSE NoRequest

\* FingerprintClaims._claim
Claimed(r) == claims[ClaimKey(r)]

\* There is a claim: the request is an alias of its owner.
Alias(b) ==
    LET r == Current(b)
        o == Claimed(r) IN
    /\ Streaming(b) /\ insp[r] = "new" /\ o # NoRequest
    /\ fut' = [fut EXCEPT ![r] = o]
    /\ doc' = [doc EXCEPT ![r] = IF future[o] = "ok" THEN doc[o] ELSE NoRequest]
    /\ Deliver(IF future[o] = "ok" THEN {r} ELSE {}, {}, doc')
    /\ Proceed(b)
    /\ UNCHANGED <<req, insp, future, claims, queue, rows, faults, renames, owners,
                   drive>>

\* The request owns the claim and uploads.
Claim(b) ==
    LET r == Current(b) IN
    /\ Streaming(b) /\ insp[r] = "new" /\ Claimed(r) = NoRequest
    /\ claims' = [claims EXCEPT ![ClaimKey(r)] = r]
    /\ fut' = [fut EXCEPT ![r] = r]
    /\ future' = [future EXCEPT ![r] = "pending"]
    /\ owners' = owners \cup {r}
    /\ Goto(b, "upload")
    /\ UNCHANGED <<req, insp, doc, queue, delivered, faults, backend>>

\* set_result on the future of o; its callbacks deliver to every alias.
SetResult(o) ==
    /\ future' = [future EXCEPT ![o] = "ok"]
    /\ doc' = [r \in Requests |-> IF r \in Waiting(o) THEN o ELSE doc[r]]
    /\ Deliver(Waiting(o), {}, doc')
    /\ UNCHANGED claims

\* _release_failed, the first callback of a claim.
ReleaseFailed(o) ==
    claims' = [claims EXCEPT ![ClaimKey(o)] = IF @ = o THEN NoRequest ELSE @]

SetException(o) ==
    /\ future' = [future EXCEPT ![o] = "failed"]
    /\ ReleaseFailed(o)
    /\ Deliver({}, Waiting(o), doc)
    /\ UNCHANGED doc

\* Mutant of Settles: an item whose fallback is refused is just dropped.
MutDropRefused(o) ==
    \/ SetResult(o) \/ SetException(o)
    \/ UNCHANGED <<future, claims, doc, delivered, reg, todo>>

Settles(o) == SetResult(o) \/ SetException(o)

\* _upload_fresh of a file that goes into no album.
UploadFresh(b) ==
    LET r == Current(b) IN
    /\ batch[b].pc = "upload" /\ req[r].kind # "album"
    /\ \/ SetResult(r) /\ UNCHANGED faults
       \/ SetException(r) /\ Fails
    /\ Proceed(b)
    /\ UNCHANGED <<req, insp, fut, queue, rows, renames, owners, drive>>

\* _prepare_album fails.
PrepareFails(b) ==
    LET r == Current(b) IN
    /\ batch[b].pc = "upload" /\ req[r].kind = "album"
    /\ Fails
    /\ SetException(r)
    /\ Proceed(b)
    /\ UNCHANGED <<req, insp, fut, queue, rows, renames, owners, drive>>

\* _prepare_album uploads the bytes through the account the pool gives, and
\* AlbumQueue.add sends the album once it is full.
PrepareAlbum(b, a) ==
    LET r == Current(b)
        items == Append(queue[b][a], r) IN
    /\ batch[b].pc = "upload" /\ req[r].kind = "album"
    /\ IF Len(items) = AlbumBatch
       THEN /\ batch' = [batch EXCEPT ![b].pc = "album", ![b].items = items]
            /\ queue' = [queue EXCEPT ![b][a] = <<>>]
       ELSE /\ Proceed(b)
            /\ queue' = [queue EXCEPT ![b][a] = items]
    /\ UNCHANGED <<req, insp, fut, future, doc, claims, delivered, faults, owners,
                   backend>>

\* Where _send returns to: the stream, or the flush.
AlbumSent(b) ==
    batch' = [batch EXCEPT ![b] =
                 [pc |-> IF @.closing THEN "flush" ELSE "stream",
                  pos |-> IF @.closing THEN @.pos ELSE @.pos + 1,
                  items |-> <<>>, closing |-> @.closing]]

\* AlbumQueue._send: every item gets its document.
SendAlbum(b) ==
    LET sent == Range(batch[b].items) IN
    /\ batch[b].pc = "album"
    /\ future' = [o \in Requests |-> IF o \in sent THEN "ok" ELSE future[o]]
    /\ doc' = [r \in Requests |->
                  IF fut[r] \in sent /\ delivered[r] = 0 THEN fut[r] ELSE doc[r]]
    /\ Deliver({r \in Requests : fut[r] \in sent /\ delivered[r] = 0}, {}, doc')
    /\ AlbumSent(b)
    /\ UNCHANGED <<req, insp, fut, claims, queue, rows, faults, renames, owners,
                   drive>>

\* An error, a timeout or a malformed answer: every item falls back alone.
SendAlbumFails(b) ==
    /\ batch[b].pc = "album"
    /\ Fails
    /\ Goto(b, "fallback")
    /\ UNCHANGED <<req, insp, fut, future, doc, claims, queue, delivered, owners,
                   backend>>

\* _album_fallback of the next item: refused while its account is reserved or
\* busy, or it fails, or the item is sent alone.
Fallback(b) ==
    LET o == Head(batch[b].items) IN
    /\ batch[b].pc = "fallback" /\ batch[b].items # <<>>
    /\ Settles(o)
    /\ batch' = [batch EXCEPT ![b].items = Tail(@)]
    /\ UNCHANGED <<req, insp, fut, queue, rows, faults, renames, owners, drive>>

FallbackDone(b) ==
    /\ batch[b].pc = "fallback" /\ batch[b].items = <<>>
    /\ AlbumSent(b)
    /\ UNCHANGED <<req, insp, fut, future, doc, claims, queue, delivered, faults,
                   owners, backend>>

StreamEnds(b) ==
    /\ batch[b].pc = "stream" /\ Position(b) > Len(Of(b))
    /\ batch' = [batch EXCEPT ![b].pc = "flush", ![b].closing = TRUE]
    /\ UNCHANGED <<req, insp, fut, future, doc, claims, queue, delivered, faults,
                   owners, backend>>

\* The finally clause flushes the queues one by one.
Flush(b, a) ==
    /\ batch[b].pc = "flush" /\ queue[b][a] # <<>>
    /\ batch' = [batch EXCEPT ![b].pc = "album", ![b].items = queue[b][a]]
    /\ queue' = [queue EXCEPT ![b][a] = <<>>]
    /\ UNCHANGED <<req, insp, fut, future, doc, claims, delivered, faults, owners,
                   backend>>

Flushed(b) == \A a \in Accounts : queue[b][a] = <<>>

\* future.result() of every pending request.
Collect(b) ==
    /\ batch[b].pc = "flush" /\ Flushed(b)
    /\ \A r \in Range(Of(b)) : fut[r] # NoRequest => future[fut[r]] \in {"ok", "failed"}
    /\ Goto(b, "ended")
    /\ UNCHANGED <<req, insp, fut, future, doc, claims, queue, delivered, faults,
                   owners, backend>>

-----------------------------------------------------------------------------
(* register_result *)

\* INSERT OR REPLACE of one part's row.
RegisterPart(r, p) ==
    /\ reg[r] \in {"parts", "partly"} /\ p \in todo[r]
    /\ todo' = [todo EXCEPT ![r] = @ \ {p}]
    /\ rows' = [rows EXCEPT ![<<doc[r], p>>] = [name |-> req[r].name, group |-> r]]
    /\ UNCHANGED <<req, insp, fut, future, doc, claims, batch, queue, delivered,
                   reg, faults, renames, owners, drive>>

\* One part fails; the others are registered all the same.
RegisterPartFails(r, p) ==
    /\ reg[r] \in {"parts", "partly"} /\ p \in todo[r]
    /\ Fails
    /\ todo' = [todo EXCEPT ![r] = @ \ {p}]
    /\ reg' = [reg EXCEPT ![r] = "partly"]
    /\ UNCHANGED <<req, insp, fut, future, doc, claims, batch, queue, delivered,
                   rows, renames, owners, drive>>

AllRegistered(r) == todo[r] = {} /\ reg[r] = "parts"

\* _assert_registered, for a request that uploaded nothing itself.
RowAnswers(r) ==
    fut[r] # r =>
        \E d \in Docs : /\ req[d[1]].payload = req[r].payload
                        /\ rows[d].name = req[r].name

\* The caller hears of success, and deletes its copy of the file.
RegisterDone(r) ==
    /\ reg[r] \in {"parts", "partly"} /\ AllRegistered(r) /\ RowAnswers(r)
    /\ reg' = [reg EXCEPT ![r] = "ok"]
    /\ drive' = [drive EXCEPT ![req[r].name] = req[r].payload]
    /\ UNCHANGED <<req, insp, fut, future, doc, claims, batch, queue, delivered,
                   todo, rows, faults, renames, owners>>

RegisterRaises(r) ==
    /\ reg[r] \in {"parts", "partly"} /\ todo[r] = {}
    /\ ~(AllRegistered(r) /\ RowAnswers(r))
    /\ reg' = [reg EXCEPT ![r] = "lost"]
    /\ UNCHANGED <<req, insp, fut, future, doc, claims, batch, queue, delivered,
                   todo, rows, faults, renames, owners, drive>>

\* A caller that has not heard of success still has the file staged.
Held(n, v) ==
    \E r \in Requests : /\ req[r].name = n /\ req[r].payload = v
                        /\ reg[r] \in {"parts", "partly", "lost"}

Settled(r) == reg[r] \in {"ok", "lost"}

\* A client MOVEs a registered file to a free name, while no upload to either
\* name is in flight: its rows are renamed in place.
Rename(n, m) ==
    /\ renames < MaxRenames
    /\ drive[n] # NoName /\ drive[m] = NoName
    /\ ~Held(n, drive[n])
    /\ \A r \in Requests : req[r].name \in {n, m} => insp[r] = "waiting" \/ Settled(r)
    /\ ReuseMovedNames \/ \A r \in Requests : req[r].name = n => Settled(r)
    /\ rows' = [d \in Docs |-> IF rows[d].name = n THEN [rows[d] EXCEPT !.name = m]
                               ELSE rows[d]]
    /\ drive' = [drive EXCEPT ![m] = drive[n], ![n] = NoName]
    /\ renames' = renames + 1
    /\ UNCHANGED <<req, insp, fut, future, doc, claims, batch, queue, delivered,
                   reg, todo, faults, owners>>

-----------------------------------------------------------------------------
Init ==
    /\ req \in [Requests -> [name : Names, payload : Payloads, kind : Kinds]]
    /\ \A r, s \in Requests :
          /\ req[r].payload = req[s].payload => req[r].kind = req[s].kind
          /\ r # s /\ SameBig(r, s) => BatchOf(r) # BatchOf(s)
    /\ insp = [r \in Requests |-> "waiting"]
    /\ fut = [r \in Requests |-> NoRequest]
    /\ future = [r \in Requests |-> "idle"]
    /\ doc = [r \in Requests |-> NoRequest]
    /\ claims = [k \in Keys |-> NoRequest]
    /\ batch = [b \in Batches |-> [pc |-> "stream", pos |-> 1, items |-> <<>>,
                                   closing |-> FALSE]]
    /\ queue = [b \in Batches |-> [a \in Accounts |-> <<>>]]
    /\ delivered = [r \in Requests |-> 0]
    /\ reg = [r \in Requests |-> "none"]
    /\ todo = [r \in Requests |-> {}]
    /\ rows = [d \in Docs |-> NoRow]
    /\ faults = 0 /\ renames = 0
    /\ owners = {}
    /\ drive = [n \in Names |-> NoName]

Upload(b) == UploadFresh(b) \/ PrepareFails(b) \/ \E a \in Accounts : PrepareAlbum(b, a)

TransferBatch(b) ==
    \/ InspectionFailed(b) \/ Reuse(b) \/ Alias(b) \/ Claim(b)
    \/ Upload(b)
    \/ SendAlbum(b) \/ SendAlbumFails(b) \/ Fallback(b) \/ FallbackDone(b)
    \/ StreamEnds(b) \/ Collect(b)
    \/ \E a \in Accounts : Flush(b, a)

RegisterResult(r) ==
    \/ RegisterDone(r) \/ RegisterRaises(r)
    \/ \E p \in todo[r] : RegisterPart(r, p) \/ RegisterPartFails(r, p)

Next ==
    \/ \E b \in Batches : TransferBatch(b)
    \/ \E r \in Requests : Inspect(r) \/ RegisterResult(r)
    \/ \E n, m \in Names : Rename(n, m)

Spec == Init /\ [][Next]_vars

\* Threads run, and every RPC is answered or times out.
Fairness ==
    /\ \A b \in Batches : WF_vars(TransferBatch(b))
    /\ \A r \in Requests : WF_vars(Inspect(r)) /\ WF_vars(RegisterResult(r))

FairSpec == Spec /\ Fairness

-----------------------------------------------------------------------------
(* Properties *)

\* Every variable keeps its type; in particular deliver is called at most once
\* for a request, whichever of its callers comes first.
TypeOK ==
    /\ req \in [Requests -> [name : Names, payload : Payloads, kind : Kinds]]
    /\ insp \in [Requests -> {"waiting", "new", "reuse", "failed"}]
    /\ fut \in [Requests -> {NoRequest} \cup Requests]
    /\ future \in [Requests -> {"idle", "pending", "ok", "failed"}]
    /\ doc \in [Requests -> {NoRequest} \cup Requests]
    /\ claims \in [Keys -> {NoRequest} \cup Requests]
    /\ \A b \in Batches :
          /\ batch[b].pc \in {"stream", "upload", "album", "fallback", "flush", "ended"}
          /\ batch[b].items \in Seq(Requests)
          /\ \A a \in Accounts : Len(queue[b][a]) < AlbumBatch
    /\ delivered \in [Requests -> 0 .. 1]
    /\ reg \in [Requests -> {"none", "parts", "partly", "ok", "lost"}]
    /\ todo \in [Requests -> SUBSET (1 .. BigParts)]
    /\ rows \in [Docs -> [name : Names \cup {NoName}, group : {NoRequest} \cup Requests]]
    /\ drive \in [Names -> Payloads \cup {NoName}]

\* What a caller was told is stored under a name is there, whole: a complete
\* set of rows of one registration answers to the name.  The caller has deleted
\* its only copy (register_result, _check_existing, _claim_key); only while a
\* later upload of the same file is not settled may its rows be in two groups.
NoFileVanishes ==
    \A n \in Names : drive[n] # NoName =>
        \/ \E d \in Requests : req[d].payload = drive[n] /\ Answers(d, n)
        \/ Held(n, drive[n])

\* The bytes of one file are uploaded again only when the earlier upload has
\* failed: aliases, in whatever batch, wait for the owner of the claim.
OneUpload ==
    \A r, s \in owners :
        r # s /\ ClaimKey(r) = ClaimKey(s) =>
            future[r] = "failed" \/ future[s] = "failed"

\* When a batch has ended, each of its requests has been answered exactly once,
\* and none waits for a future that nobody will settle.
BatchIsComplete ==
    \A b \in Batches : batch[b].pc = "ended" =>
        \A r \in Range(Of(b)) : delivered[r] = 1

\* Every batch ends and every registration settles: an album item is flushed,
\* an alias is answered, and a refused fallback is a failure of its file only
\* (transfer_batch's finally clause, AlbumQueue._send).
BatchEnds ==
    <>(/\ \A b \in Batches : batch[b].pc = "ended"
       /\ \A r \in Requests : reg[r] \in {"ok", "lost"})

=============================================================================
