--------------------------- MODULE UploadBatchProofs ---------------------------
(***************************************************************************)
(* What TLAPS proves of UploadBatch, for any requests, names, contents,    *)
(* accounts and bounds:                                                    *)
(*                                                                         *)
(*   OneUploadPerClaim   one file has one upload that has not failed;      *)
(*   BatchesAreComplete  a batch that has ended has answered each of its   *)
(*                       requests once;                                    *)
(*                                                                         *)
(* and, if no file is written under a name that another was moved away     *)
(* from:                                                                   *)
(*                                                                         *)
(*   NothingVanishes     what is stored under a name stays there, whole.   *)
(*                                                                         *)
(* The first two follow from EngineInv: who waits on whose future, which   *)
(* futures may be pending, and, for each batch, that every owner whose     *)
(* future is pending is where its thread will come to.  The third needs    *)
(* the rows too (FileInv): a registration takes rows over only from one of *)
(* the same name, and the rows that one registration writes are of one     *)
(* group because uploads of the same big file come one after the other.    *)
(***************************************************************************)
EXTENDS UploadBatch, FiniteSetTheorems, WellFoundedInduction, TLAPS

-----------------------------------------------------------------------------
(* Types *)

\* The thread of a batch.
BatchType ==
    [pc : {"stream", "upload", "album", "fallback", "flush", "ended"},
     pos : Nat \ {0}, items : Seq(Requests), closing : BOOLEAN]

\* What the engine keeps for a request.
RequestTypes ==
    /\ req \in [Requests -> [name : Names, payload : Payloads, kind : Kinds]]
    /\ insp \in [Requests -> {"waiting", "new", "reuse", "failed"}]
    /\ fut \in [Requests -> {NoRequest} \cup Requests]
    /\ future \in [Requests -> {"idle", "pending", "ok", "failed"}]
    /\ doc \in [Requests -> {NoRequest} \cup Requests]
    /\ claims \in [Keys -> {NoRequest} \cup Requests]
    /\ delivered \in [Requests -> 0 .. 1]
    /\ owners \subseteq Requests

\* What a batch keeps; a full album is sent, so a queue never holds one.
BatchTypes ==
    /\ batch \in [Batches -> BatchType]
    /\ queue \in [Batches -> [Accounts -> Seq(Requests)]]
    /\ \A b \in Batches, a \in Accounts : Len(queue[b][a]) < AlbumBatch

\* Registration and the backend.
BackendTypes ==
    /\ reg \in [Requests -> {"none", "parts", "partly", "ok", "lost"}]
    /\ todo \in [Requests -> SUBSET (1 .. BigParts)]
    /\ rows \in [Docs -> [name : Names \cup {NoName}, group : {NoRequest} \cup Requests]]
    /\ drive \in [Names -> Payloads \cup {NoName}]

-----------------------------------------------------------------------------
(* The engine's invariant *)

\* A request that nobody has inspected has nothing; only one that is new waits
\* on a future; documents come from a reuse or from a future that is ok.
InspInv(r) ==
    /\ insp[r] = "waiting" => delivered[r] = 0
    /\ fut[r] # NoRequest => insp[r] = "new"
    /\ doc[r] # NoRequest <=>
         insp[r] = "reuse" \/ (fut[r] # NoRequest /\ future[fut[r]] = "ok")

\* A request waits on the future of an owner of its key, and has its answer
\* when the future is settled and not before.
WaitInv(r) ==
    /\ r \in owners <=> fut[r] = r
    /\ fut[r] # NoRequest =>
         /\ ClaimKey(fut[r]) = ClaimKey(r) /\ fut[fut[r]] = fut[r]
         /\ future[fut[r]] # "idle"
         /\ delivered[r] = 0 <=> future[fut[r]] = "pending"
    /\ fut[r] = r /\ future[r] = "ok" => doc[r] = r

\* A claim belongs to an owner of the key that has not failed, and such an
\* owner has the claim.
ClaimInv ==
    /\ \A k \in Keys : claims[k] # NoRequest =>
         /\ ClaimKey(claims[k]) = k /\ fut[claims[k]] = claims[k]
         /\ future[claims[k]] \in {"pending", "ok"}
    /\ \A r \in Requests :
         fut[r] = r /\ future[r] # "failed" => claims[ClaimKey(r)] = r

\* The engine side that no batch has to itself.
RequestInv == RequestTypes /\ (\A r \in Requests : InspInv(r) /\ WaitInv(r)) /\ ClaimInv

\* What the program counter of a batch says of its position.
PhaseInv(b) ==
    /\ batch[b].pc \in {"flush", "ended"} => batch[b].closing
    /\ batch[b].pc \in {"stream", "upload"} => ~batch[b].closing
    /\ batch[b].closing => batch[b].pos > Len(Of(b))
    /\ ~batch[b].closing /\ batch[b].pc # "stream" => batch[b].pos <= Len(Of(b))
    /\ batch[b].pc = "upload" => future[Current(b)] = "pending"

\* The requests ahead of the stream are untouched; those behind it have their
\* answer or wait on a future; at the end all have it.
PosInv(b) ==
    \A i \in DOMAIN Of(b) :
        LET r == Of(b)[i] IN
        /\ i > batch[b].pos \/ (i = batch[b].pos /\ batch[b].pc = "stream")
             => fut[r] = NoRequest /\ delivered[r] = 0
        /\ i < batch[b].pos => fut[r] # NoRequest \/ delivered[r] = 1
        /\ i = batch[b].pos /\ batch[b].pc # "stream" => fut[r] = r
        /\ batch[b].pc = "ended" => delivered[r] = 1

\* Request i of the batch has been through the upload stage.
Past(b, i) ==
    i < batch[b].pos \/ (i = batch[b].pos /\ batch[b].pc \notin {"stream", "upload"})

\* An item of an album: an owner whose future is pending.
InHand(b, o) ==
    /\ fut[o] = o /\ future[o] = "pending"
    /\ \E i \in DOMAIN Of(b) : Of(b)[i] = o /\ Past(b, i)

\* No two elements are equal.
Distinct(s) == \A i, j \in DOMAIN s : s[i] = s[j] => i = j

\* An item is in one place of one batch: its album, or the queue of an account.
HandInv(b) ==
    /\ \A o \in Range(batch[b].items) : InHand(b, o)
    /\ \A a \in Accounts : \A o \in Range(queue[b][a]) : InHand(b, o)
    /\ Distinct(batch[b].items)
    /\ \A a \in Accounts :
         /\ Distinct(queue[b][a])
         /\ Range(queue[b][a]) \cap Range(batch[b].items) = {}
    /\ \A a, c \in Accounts : a # c => Range(queue[b][a]) \cap Range(queue[b][c]) = {}

BatchInv(b) == PhaseInv(b) /\ PosInv(b) /\ HandInv(b)

EngineInv == RequestInv /\ BatchTypes /\ \A b \in Batches : BatchInv(b)

-----------------------------------------------------------------------------
(* Sequences *)

LEMMA EmptyFacts == Range(<<>>) = {} /\ Distinct(<<>>)
BY DEF Range, Distinct

LEMMA AppendFacts ==
    ASSUME NEW s \in Seq(Requests), NEW x \in Requests
    PROVE  /\ Append(s, x) \in Seq(Requests) /\ Len(Append(s, x)) = Len(s) + 1
           /\ Range(Append(s, x)) = Range(s) \cup {x}
           /\ Distinct(s) /\ x \notin Range(s) => Distinct(Append(s, x))
<1>1. /\ Append(s, x) \in Seq(Requests) /\ Len(Append(s, x)) = Len(s) + 1
      /\ DOMAIN Append(s, x) = 1 .. Len(s) + 1 /\ DOMAIN s = 1 .. Len(s) /\ Len(s) \in Nat
      /\ \A i \in 1 .. Len(s) : Append(s, x)[i] = s[i]
      /\ Append(s, x)[Len(s) + 1] = x
  OBVIOUS
<1> DEFINE t == Append(s, x)
<1> HIDE DEF t
<1>2. /\ DOMAIN t = DOMAIN s \cup {Len(s) + 1}
      /\ \A i \in DOMAIN s : t[i] = s[i]
      /\ t[Len(s) + 1] = x
  BY <1>1 DEF t
<1>3. Range(t) = Range(s) \cup {x}
  BY <1>2 DEF Range
<1>4. Distinct(s) /\ x \notin Range(s) => Distinct(t)
  BY <1>2 DEF Range, Distinct
<1> QED BY <1>1, <1>3, <1>4 DEF t

LEMMA TailFacts ==
    ASSUME NEW s \in Seq(Requests), s # <<>>
    PROVE  /\ Tail(s) \in Seq(Requests) /\ Head(s) \in Requests
           /\ Head(s) \in Range(s) /\ Range(Tail(s)) \subseteq Range(s)
           /\ Distinct(s) => Distinct(Tail(s)) /\ Head(s) \notin Range(Tail(s))
<1>1. /\ Tail(s) \in Seq(Requests) /\ Head(s) \in Requests
      /\ Len(s) \in Nat /\ Len(s) >= 1 /\ DOMAIN s = 1 .. Len(s) /\ Head(s) = s[1]
      /\ DOMAIN Tail(s) = 1 .. Len(s) - 1
      /\ \A i \in 1 .. Len(s) - 1 : Tail(s)[i] = s[i + 1]
  OBVIOUS
<1> DEFINE t == Tail(s)
           n == Len(s)
           h == Head(s)
<1> HIDE DEF t, n, h
<1>2. /\ n \in Nat /\ n >= 1 /\ DOMAIN s = 1 .. n /\ h = s[1] /\ DOMAIN t = 1 .. n - 1
      /\ \A i \in 1 .. n - 1 : t[i] = s[i + 1]
  BY <1>1 DEF t, n, h
<1>3. \A i \in DOMAIN t : i + 1 \in DOMAIN s /\ i + 1 # 1 /\ t[i] = s[i + 1]
  BY <1>2
<1>4. h \in Range(s) /\ Range(t) \subseteq Range(s)
  BY <1>2, <1>3 DEF Range
<1>5. Distinct(s) => Distinct(t)
  BY <1>2, <1>3 DEF Distinct
<1>6. Distinct(s) => h \notin Range(t)
  BY <1>2, <1>3 DEF Distinct, Range
<1> QED BY <1>1, <1>4, <1>5, <1>6 DEF t, h

-----------------------------------------------------------------------------
(* The requests of a batch *)

LEMMA Division ==
    ASSUME NEW r \in Requests
    PROVE  BatchOf(r) \in Nat /\ BatchOf(r) * BatchSize <= r - 1
BY UploadBatchAssumption DEF Requests, BatchOf

LEMMA OfFacts ==
    ASSUME NEW b \in Batches
    PROVE  /\ b \in Nat
           /\ Of(b) \in Seq(Requests)
           /\ Len(Of(b)) \in Nat
           /\ DOMAIN Of(b) = 1 .. Len(Of(b))
<1>1. PICK r \in Requests : b = BatchOf(r)
  BY DEF Batches
<1> DEFINE first == b * BatchSize
<1>2. b \in Nat /\ first <= r - 1
  BY <1>1, Division
<1>3. first \in Nat
  BY <1>2, UploadBatchAssumption
<1> HIDE DEF first
<1> DEFINE size == IF first + BatchSize <= NumRequests THEN BatchSize ELSE NumRequests - first
<1>4. size \in Nat /\ first + size <= NumRequests
  BY <1>2, <1>3, UploadBatchAssumption DEF Requests
<1> HIDE DEF size
<1>5. Of(b) = [i \in 1 .. size |-> first + i]
  BY DEF Of, first, size
<1>6. \A i \in 1 .. size : first + i \in Requests
  BY <1>3, <1>4, UploadBatchAssumption DEF Requests
<1> QED BY <1>2, <1>4, <1>5, <1>6

\* No request is in two places.
LEMMA OfInjective ==
    ASSUME NEW b \in Batches, NEW c \in Batches,
           NEW i \in DOMAIN Of(b), NEW j \in DOMAIN Of(c), Of(b)[i] = Of(c)[j]
    PROVE  b = c /\ i = j
<1>1. ASSUME NEW d \in Batches, NEW n \in DOMAIN Of(d)
      PROVE  n \in 1 .. BatchSize /\ Of(d)[n] = d * BatchSize + n
  <2>1. d \in Nat /\ d * BatchSize \in Nat
    BY OfFacts, UploadBatchAssumption
  <2> DEFINE first == d * BatchSize
  <2> HIDE DEF first
  <2> DEFINE size == IF first + BatchSize <= NumRequests THEN BatchSize ELSE NumRequests - first
  <2>2. first \in Nat /\ size \in Int /\ size <= BatchSize
    BY <2>1, UploadBatchAssumption DEF first
  <2> HIDE DEF size
  <2>3. Of(d) = [m \in 1 .. size |-> first + m]
    BY DEF Of, first, size
  <2> QED BY <2>2, <2>3, UploadBatchAssumption DEF first
<1>2. b \in Nat /\ c \in Nat
  BY OfFacts
<1>3. b * BatchSize + i = c * BatchSize + j /\ i \in 1 .. BatchSize /\ j \in 1 .. BatchSize
  BY <1>1
<1>4. ASSUME NEW x \in Nat, NEW y \in Nat, x < y
      PROVE  x * BatchSize + BatchSize <= y * BatchSize
  <2>1. PICK k \in Nat : y = x + 1 + k
    <3>1. y - x - 1 \in Nat /\ y = x + 1 + (y - x - 1)
      BY <1>4
    <3> QED BY <3>1
  <2>2. y * BatchSize = x * BatchSize + BatchSize + k * BatchSize
    BY <2>1, UploadBatchAssumption
  <2>3. k * BatchSize \in Nat /\ x * BatchSize \in Nat
    BY UploadBatchAssumption
  <2> QED BY <2>2, <2>3, UploadBatchAssumption
<1>5. b * BatchSize \in Nat /\ c * BatchSize \in Nat /\ BatchSize \in Nat
  BY <1>2, UploadBatchAssumption
<1>6. b < c => b * BatchSize + BatchSize <= c * BatchSize
  BY <1>2, <1>4
<1>7. c < b => c * BatchSize + BatchSize <= b * BatchSize
  BY <1>2, <1>4
<1> DEFINE x == b * BatchSize
           y == c * BatchSize
<1> HIDE DEF x, y
<1>8. /\ x \in Nat /\ y \in Nat /\ x + i = y + j /\ i \in 1 .. BatchSize /\ j \in 1 .. BatchSize
      /\ b < c => x + BatchSize <= y
      /\ c < b => y + BatchSize <= x
      /\ b = c => x = y
  BY <1>3, <1>5, <1>6, <1>7 DEF x, y
<1> QED BY <1>2, <1>5, <1>8

-----------------------------------------------------------------------------
(* What a step leaves alone *)

\* Only the futures in S are settled, only the requests in R are taken up.
Quiet(S, R) ==
    /\ \A r \in Requests : /\ fut[r] # NoRequest => fut'[r] = fut[r]
                           /\ delivered[r] = 1 => delivered'[r] = 1
    /\ \A r \in Requests \ R : /\ fut'[r] = fut[r]
                               /\ fut[r] = NoRequest => delivered'[r] = delivered[r]
    /\ \A o \in Requests \ S : future[o] = "pending" => future'[o] = "pending"

\* None of them is in the batch.
Outside(c, S) == \A x \in S : \A i \in DOMAIN Of(c) : Of(c)[i] # x

\* What a batch has in hand stays there when its thread only gets further.
LEMMA HandStays ==
    ASSUME EngineInv, NEW b \in Batches, NEW S \in SUBSET Requests, NEW R \in SUBSET Requests,
           Quiet(S, R), \A i \in DOMAIN Of(b) : Past(b, i) => Past(b, i)'
    PROVE  \A o \in Requests : InHand(b, o) /\ o \notin S => InHand(b, o)'
<1> SUFFICES ASSUME NEW o \in Requests, InHand(b, o), o \notin S
             PROVE  InHand(b, o)'
  OBVIOUS
<1>1. fut'[o] = o /\ future'[o] = "pending"
  BY DEF InHand, Quiet, NoRequest, Requests
<1> QED BY <1>1 DEF InHand

\* A batch whose thread does not move, and whose requests a step of another
\* does not touch, keeps its invariant.
LEMMA Elsewhere ==
    ASSUME EngineInv, NEW c \in Batches, NEW S \in SUBSET Requests, NEW R \in SUBSET Requests,
           Quiet(S, R), Outside(c, S), Outside(c, R),
           batch'[c] = batch[c], queue'[c] = queue[c]
    PROVE  BatchInv(c)'
<1>1. BatchInv(c) /\ RequestTypes /\ batch[c] \in BatchType
  BY DEF EngineInv, RequestInv, BatchTypes
<1>2. Of(c) \in Seq(Requests) /\ DOMAIN Of(c) = 1 .. Len(Of(c)) /\ Len(Of(c)) \in Nat
  BY OfFacts
<1>3. \A i \in DOMAIN Of(c) : /\ Of(c)[i] \in Requests \ S /\ Of(c)[i] \in Requests \ R
  BY <1>2 DEF Outside
<1>4. PhaseInv(c)'
  <2>1. batch[c].pc = "upload" => Current(c) \in Requests \ S
    BY <1>1, <1>2, <1>3 DEF BatchInv, PhaseInv, Current, Position, BatchType
  <2>2. batch[c].pc = "upload" => future'[Current(c)] = "pending"
    BY <1>1, <2>1 DEF BatchInv, PhaseInv, Quiet
  <2> QED BY <1>1, <2>2 DEF BatchInv, PhaseInv, Current, Position
<1>5. PosInv(c)'
  <2> SUFFICES ASSUME NEW i \in DOMAIN Of(c)
               PROVE  LET r == Of(c)[i] IN
                      /\ i > batch[c].pos \/ (i = batch[c].pos /\ batch[c].pc = "stream")
                           => fut'[r] = NoRequest /\ delivered'[r] = 0
                      /\ i < batch[c].pos => fut'[r] # NoRequest \/ delivered'[r] = 1
                      /\ i = batch[c].pos /\ batch[c].pc # "stream" => fut'[r] = r
                      /\ batch[c].pc = "ended" => delivered'[r] = 1
    BY DEF PosInv
  <2> DEFINE r == Of(c)[i]
  <2>1. r \in Requests /\ r \notin R
    BY <1>3
  <2>2. /\ i > batch[c].pos \/ (i = batch[c].pos /\ batch[c].pc = "stream")
             => fut[r] = NoRequest /\ delivered[r] = 0
        /\ i < batch[c].pos => fut[r] # NoRequest \/ delivered[r] = 1
        /\ i = batch[c].pos /\ batch[c].pc # "stream" => fut[r] = r
        /\ batch[c].pc = "ended" => delivered[r] = 1
    BY <1>1 DEF BatchInv, PosInv
  <2>3. fut'[r] = fut[r] /\ (fut[r] = NoRequest => delivered'[r] = delivered[r])
        /\ (delivered[r] = 1 => delivered'[r] = 1)
    BY <2>1 DEF Quiet
  <2> HIDE DEF r
  <2> QED BY <2>2, <2>3 DEF r
<1>6. ASSUME NEW o \in Requests, InHand(c, o)
      PROVE  InHand(c, o)'
  <2>1. o \notin S
    BY <1>3, <1>6 DEF InHand
  <2>2. \A i \in DOMAIN Of(c) : Past(c, i) => Past(c, i)'
    BY DEF Past
  <2> QED BY <1>6, <2>1, <2>2, HandStays
<1>7. HandInv(c)'
  <2>1. Range(batch[c].items) \subseteq Requests
    BY <1>1 DEF BatchType, Range
  <2>2. \A a \in Accounts : Range(queue[c][a]) \subseteq Requests
    BY DEF EngineInv, BatchTypes, Range
  <2> QED BY <1>1, <1>6, <2>1, <2>2 DEF BatchInv, HandInv
<1> QED BY <1>4, <1>5, <1>7 DEF BatchInv

\* A step that settles and takes up nothing, and moves no thread.
LEMMA AllBatchesStay ==
    ASSUME EngineInv, Quiet({}, {}), UNCHANGED <<batch, queue>>
    PROVE  \A b \in Batches : BatchInv(b)'
<1> SUFFICES ASSUME NEW b \in Batches PROVE BatchInv(b)'
  OBVIOUS
<1> QED BY Elsewhere DEF Outside

\* A step of the thread of b that touches requests of b only.
LEMMA OthersStay ==
    ASSUME EngineInv, NEW b \in Batches, NEW S \in SUBSET Requests, NEW R \in SUBSET Requests,
           Quiet(S, R),
           \A x \in S \cup R : \E i \in DOMAIN Of(b) : Of(b)[i] = x,
           \A c \in Batches \ {b} : batch'[c] = batch[c] /\ queue'[c] = queue[c]
    PROVE  \A c \in Batches \ {b} : BatchInv(c)'
<1> SUFFICES ASSUME NEW c \in Batches \ {b} PROVE BatchInv(c)'
  OBVIOUS
<1>1. Outside(c, S) /\ Outside(c, R)
  BY OfInjective DEF Outside
<1> QED BY <1>1, Elsewhere

-----------------------------------------------------------------------------
(* Futures are settled *)

\* The futures in S get the verdict, and everybody who waits on them hears it.
Ended(S, verdict) ==
    /\ RequestTypes'
    /\ \A o \in Requests : future'[o] = IF o \in S THEN verdict ELSE future[o]
    /\ \A r \in Requests :
         /\ delivered'[r] = IF fut[r] \in S THEN 1 ELSE delivered[r]
         /\ doc'[r] = IF verdict = "ok" /\ fut[r] \in S THEN fut[r] ELSE doc[r]
    /\ \A k \in Keys :
         claims'[k] = IF verdict = "failed" /\ claims[k] \in S THEN NoRequest ELSE claims[k]
    /\ UNCHANGED <<req, insp, fut, owners>>

\* The futures of these owners are pending.
Open(S) == \A o \in S : fut[o] = o /\ future[o] = "pending"

\* Every request has one of the claim keys.
LEMMA KeyFacts ==
    ASSUME RequestTypes, NEW r \in Requests
    PROVE  ClaimKey(r) \in Keys
BY DEF RequestTypes, ClaimKey, Keys

\* Settling the pending futures of some owners, all the same way, answers every
\* request that waits on them, and keeps what the engine knows of requests.
LEMMA EndedRequests ==
    ASSUME RequestInv, NEW S \in SUBSET Requests, Open(S),
           NEW verdict \in {"ok", "failed"}, Ended(S, verdict)
    PROVE  RequestInv' /\ Quiet(S, {})
<1>1. RequestTypes /\ RequestTypes'
  BY DEF RequestInv, Ended
<1>2. UNCHANGED <<req, insp, fut, owners>>
  BY DEF Ended
<1>3. \A o \in Requests : future'[o] = IF o \in S THEN verdict ELSE future[o]
  BY DEF Ended
<1>4. \A r \in Requests :
         /\ delivered'[r] = IF fut[r] \in S THEN 1 ELSE delivered[r]
         /\ doc'[r] = IF verdict = "ok" /\ fut[r] \in S THEN fut[r] ELSE doc[r]
  BY DEF Ended
<1>5. NoRequest \notin S /\ NoRequest \notin Requests
  BY DEF NoRequest, Requests
<1>6. ASSUME NEW r \in Requests
      PROVE  InspInv(r)' /\ WaitInv(r)'
  <2>1. InspInv(r) /\ WaitInv(r) /\ fut[r] \in {NoRequest} \cup Requests
    BY <1>1 DEF RequestInv, RequestTypes
  <2>2. r \in S => fut[r] = r
    BY DEF Open
  <2>3. fut[r] \in Requests => future'[fut[r]] = IF fut[r] \in S THEN verdict ELSE future[fut[r]]
    BY <1>3
  <2>4. fut[r] \in S => future[fut[r]] = "pending"
    BY DEF Open
  <2>5. InspInv(r)'
    BY <1>1, <1>2, <1>4, <1>5, <2>1, <2>3, <2>4 DEF InspInv, WaitInv, RequestTypes
  <2>6. fut[r] # NoRequest => ClaimKey(fut[r])' = ClaimKey(fut[r]) /\ ClaimKey(r)' = ClaimKey(r)
    BY <1>2 DEF ClaimKey
  <2>7. fut[r] = r /\ future'[r] = "ok" => doc'[r] = r
    BY <1>3, <1>4, <2>1, <2>2 DEF WaitInv
  <2>8. fut[r] # NoRequest => (delivered'[r] = 0 <=> future'[fut[r]] = "pending")
                              /\ future'[fut[r]] # "idle"
    BY <1>4, <2>1, <2>3 DEF WaitInv
  <2> QED BY <1>2, <2>1, <2>5, <2>6, <2>7, <2>8 DEF WaitInv
<1>7. ClaimInv'
  <2>1. ASSUME NEW k \in Keys, claims'[k] # NoRequest
        PROVE  /\ ClaimKey(claims'[k]) = k /\ fut[claims'[k]] = claims'[k]
               /\ future'[claims'[k]] \in {"pending", "ok"}
    <3>1. claims'[k] = claims[k] /\ claims[k] \in Requests
          /\ ~(verdict = "failed" /\ claims[k] \in S)
      BY <1>1, <2>1 DEF Ended, RequestTypes
    <3>2. /\ ClaimKey(claims[k]) = k /\ fut[claims[k]] = claims[k]
          /\ future[claims[k]] \in {"pending", "ok"}
      BY <3>1, <1>5 DEF RequestInv, ClaimInv
    <3> QED BY <1>3, <3>1, <3>2
  <2>2. ASSUME NEW r \in Requests, fut[r] = r, future'[r] # "failed"
        PROVE  claims'[ClaimKey(r)] = r
    <3>1. future[r] # "failed"
      BY <1>3, <2>2 DEF Open
    <3>2. claims[ClaimKey(r)] = r
      BY <2>2, <3>1 DEF RequestInv, ClaimInv
    <3>3. ~(verdict = "failed" /\ r \in S)
      BY <1>3, <2>2
    <3> QED BY <1>1, <3>2, <3>3, KeyFacts DEF Ended
  <2>3. \A r \in Requests : ClaimKey(r)' = ClaimKey(r)
    BY <1>2 DEF ClaimKey
  <2>4. \A k \in Keys : claims'[k] # NoRequest => claims'[k] \in Requests
    BY <1>1 DEF RequestTypes
  <2> QED BY <1>2, <2>1, <2>2, <2>3, <2>4 DEF ClaimInv
<1>8. Quiet(S, {})
  BY <1>1, <1>2, <1>3, <1>4, <1>5 DEF Quiet, RequestTypes
<1> QED BY <1>1, <1>6, <1>7, <1>8 DEF RequestInv

\* deliver, for requests that have not heard yet.
LEMMA DeliverTypes ==
    ASSUME RequestTypes, NEW done \in SUBSET Requests, NEW lost \in SUBSET Requests, NEW docs,
           Deliver(done, lost, docs),
           \A r \in done \cup lost : delivered[r] = 0
    PROVE  /\ delivered' \in [Requests -> 0 .. 1]
           /\ \A r \in Requests : delivered'[r] = IF r \in done \cup lost THEN 1 ELSE delivered[r]
BY DEF Deliver, RequestTypes

\* The answers of one future.
LEMMA SetResultEnds ==
    ASSUME RequestInv, NEW o \in Requests, Open({o}), SetResult(o),
           UNCHANGED <<req, insp, fut, owners>>
    PROVE  Ended({o}, "ok")
<1>1. RequestTypes /\ \A r \in Requests : WaitInv(r)
  BY DEF RequestInv
<1>2. \A r \in Requests : r \in Waiting(o) <=> fut[r] = o
  <2> SUFFICES ASSUME NEW r \in Requests, fut[r] = o PROVE delivered[r] = 0
    BY DEF Waiting
  <2> QED BY <1>1 DEF WaitInv, Open, NoRequest, Requests
<1>3. Waiting(o) \in SUBSET Requests /\ \A r \in Waiting(o) : delivered[r] = 0
  BY DEF Waiting
<1>4. Deliver(Waiting(o), {}, doc')
  BY DEF SetResult
<1>5. /\ delivered' \in [Requests -> 0 .. 1]
      /\ \A r \in Requests : delivered'[r] = IF r \in Waiting(o) THEN 1 ELSE delivered[r]
  BY <1>1, <1>3, <1>4, DeliverTypes
<1>6. future' = [future EXCEPT ![o] = "ok"] /\ UNCHANGED claims
      /\ doc' = [r \in Requests |-> IF r \in Waiting(o) THEN o ELSE doc[r]]
  BY DEF SetResult
<1>7. RequestTypes'
  BY <1>1, <1>5, <1>6 DEF RequestTypes
<1>8. \A r \in Requests : future'[r] = IF r \in {o} THEN "ok" ELSE future[r]
  BY <1>1, <1>6 DEF RequestTypes
<1>9. \A r \in Requests : /\ delivered'[r] = IF fut[r] \in {o} THEN 1 ELSE delivered[r]
                          /\ doc'[r] = IF fut[r] \in {o} THEN fut[r] ELSE doc[r]
  BY <1>2, <1>5, <1>6
<1> QED BY <1>6, <1>7, <1>8, <1>9 DEF Ended

\* _set_exception of a pending future settles it, and takes the claim back.
LEMMA SetExceptionEnds ==
    ASSUME RequestInv, NEW o \in Requests, Open({o}), SetException(o),
           UNCHANGED <<req, insp, fut, owners>>
    PROVE  Ended({o}, "failed")
<1>1. RequestTypes /\ \A r \in Requests : WaitInv(r)
  BY DEF RequestInv
<1>2. \A r \in Requests : r \in Waiting(o) <=> fut[r] = o
  <2> SUFFICES ASSUME NEW r \in Requests, fut[r] = o PROVE delivered[r] = 0
    BY DEF Waiting
  <2> QED BY <1>1 DEF WaitInv, Open, NoRequest, Requests
<1>3. Waiting(o) \in SUBSET Requests /\ \A r \in Waiting(o) : delivered[r] = 0
  BY DEF Waiting
<1>4. Deliver({}, Waiting(o), doc)
  BY DEF SetException
<1>5. /\ delivered' \in [Requests -> 0 .. 1]
      /\ \A r \in Requests : delivered'[r] = IF r \in Waiting(o) THEN 1 ELSE delivered[r]
  BY <1>1, <1>3, <1>4, DeliverTypes
<1>6. /\ future' = [future EXCEPT ![o] = "failed"] /\ UNCHANGED doc
      /\ claims' = [claims EXCEPT ![ClaimKey(o)] = IF @ = o THEN NoRequest ELSE @]
  BY DEF SetException, ReleaseFailed
<1>7. RequestTypes'
  BY <1>1, <1>5, <1>6 DEF RequestTypes
<1>8. \A r \in Requests : future'[r] = IF r \in {o} THEN "failed" ELSE future[r]
  BY <1>1, <1>6 DEF RequestTypes
<1>9. \A r \in Requests : /\ delivered'[r] = IF fut[r] \in {o} THEN 1 ELSE delivered[r]
                          /\ doc'[r] = doc[r]
  BY <1>2, <1>5, <1>6
<1>10. ASSUME NEW k \in Keys
       PROVE  claims'[k] = IF claims[k] \in {o} THEN NoRequest ELSE claims[k]
  <2>1. claims[k] = o => ClaimKey(o) = k
    BY DEF RequestInv, ClaimInv, NoRequest, Requests
  <2> QED BY <1>1, <1>6, <2>1 DEF RequestTypes
<1> QED BY <1>7, <1>8, <1>9, <1>10 DEF Ended

\* Either way of settling one owner keeps what the engine knows of requests.
LEMMA SettlesEnds ==
    ASSUME RequestInv, NEW o \in Requests, Open({o}), Settles(o),
           UNCHANGED <<req, insp, fut, owners>>
    PROVE  RequestInv' /\ Quiet({o}, {})
<1>1. CASE SetResult(o)
  BY <1>1, SetResultEnds, EndedRequests
<1>2. CASE SetException(o)
  BY <1>2, SetExceptionEnds, EndedRequests
<1> QED BY <1>1, <1>2 DEF Settles

-----------------------------------------------------------------------------
(* A request is taken up *)

\* Answered at once: it waits on no future.
LEMMA AnsweredRequests ==
    ASSUME RequestInv, NEW r \in Requests, fut[r] = NoRequest, delivered[r] = 0,
           insp[r] # "waiting", NEW done \in SUBSET {r}, NEW docs, Deliver(done, {r} \ done, docs),
           UNCHANGED <<req, insp, fut, future, doc, claims, owners>>
    PROVE  RequestInv' /\ Quiet({}, {r}) /\ delivered'[r] = 1
<1>1. RequestTypes /\ ClaimInv /\ \A x \in Requests : InspInv(x) /\ WaitInv(x)
  BY DEF RequestInv
<1>2. /\ delivered' \in [Requests -> 0 .. 1]
      /\ \A x \in Requests : delivered'[x] = IF x = r THEN 1 ELSE delivered[x]
  <2>1. done \in SUBSET Requests /\ {r} \ done \in SUBSET Requests
        /\ \A x \in done \cup ({r} \ done) : delivered[x] = 0
    OBVIOUS
  <2>2. \A x : x \in done \cup ({r} \ done) <=> x = r
    OBVIOUS
  <2> QED BY <1>1, <2>1, <2>2, DeliverTypes
<1>3. RequestTypes'
  BY <1>1, <1>2 DEF RequestTypes
<1>4. \A x \in Requests : InspInv(x)'
  BY <1>1, <1>2 DEF InspInv
<1>5. ASSUME NEW x \in Requests PROVE WaitInv(x)'
  BY <1>1, <1>2 DEF WaitInv, ClaimKey, RequestTypes
<1>6. ClaimInv'
  BY <1>1 DEF ClaimInv, ClaimKey
<1> QED BY <1>2, <1>3, <1>4, <1>5, <1>6 DEF RequestInv, Quiet

\* It becomes an alias of the owner of its claim.
LEMMA AliasRequests ==
    ASSUME RequestInv, NEW r \in Requests, fut[r] = NoRequest, delivered[r] = 0,
           insp[r] = "new", NEW o, o = claims[ClaimKey(r)], o # NoRequest,
           fut' = [fut EXCEPT ![r] = o],
           doc' = [doc EXCEPT ![r] = IF future[o] = "ok" THEN doc[o] ELSE NoRequest],
           NEW docs, Deliver(IF future[o] = "ok" THEN {r} ELSE {}, {}, docs),
           UNCHANGED <<req, insp, future, claims, owners>>
    PROVE  RequestInv' /\ Quiet({}, {r})
<1>1. RequestTypes /\ ClaimInv /\ \A x \in Requests : InspInv(x) /\ WaitInv(x)
  BY DEF RequestInv
<1>2. /\ o \in Requests /\ ClaimKey(o) = ClaimKey(r) /\ fut[o] = o /\ o # r
      /\ future[o] \in {"pending", "ok"} /\ (future[o] = "ok" => doc[o] = o)
  <2>1. ClaimKey(r) \in Keys
    BY <1>1, KeyFacts
  <2>2. o \in Requests /\ ClaimKey(o) = ClaimKey(r) /\ fut[o] = o
        /\ future[o] \in {"pending", "ok"}
    BY <1>1, <2>1 DEF ClaimInv, RequestTypes
  <2>3. WaitInv(o)
    BY <1>1, <2>2
  <2> QED BY <2>2, <2>3 DEF WaitInv
<1>3. /\ delivered' \in [Requests -> 0 .. 1]
      /\ \A x \in Requests :
           delivered'[x] = IF x = r /\ future[o] = "ok" THEN 1 ELSE delivered[x]
  <2>1. CASE future[o] = "ok"
    <3>1. Deliver({r}, {}, docs)
      BY <2>1
    <3>2. {r} \in SUBSET Requests /\ {} \in SUBSET Requests
          /\ \A x \in {r} \cup {} : delivered[x] = 0
      OBVIOUS
    <3>3. /\ delivered' \in [Requests -> 0 .. 1]
          /\ \A x \in Requests : delivered'[x] = IF x \in {r} \cup {} THEN 1 ELSE delivered[x]
      BY <1>1, <3>1, <3>2, DeliverTypes
    <3> QED BY <2>1, <3>3
  <2>2. CASE future[o] # "ok"
    <3>1. Deliver({}, {}, docs)
      BY <2>2
    <3>2. {} \in SUBSET Requests /\ \A x \in {} \cup {} : delivered[x] = 0
      OBVIOUS
    <3>3. /\ delivered' \in [Requests -> 0 .. 1]
          /\ \A x \in Requests : delivered'[x] = IF x \in {} \cup {} THEN 1 ELSE delivered[x]
      BY <1>1, <3>1, <3>2, DeliverTypes
    <3> QED BY <2>2, <3>3
  <2> QED BY <2>1, <2>2
<1>4. \A x \in Requests :
        /\ fut'[x] = IF x = r THEN o ELSE fut[x]
        /\ doc'[x] = IF x = r THEN (IF future[o] = "ok" THEN o ELSE NoRequest) ELSE doc[x]
  BY <1>1, <1>2 DEF RequestTypes
<1>5. RequestTypes'
  BY <1>1, <1>2, <1>3 DEF RequestTypes
<1>6. ASSUME NEW x \in Requests PROVE InspInv(x)' /\ WaitInv(x)'
  <2>1. InspInv(x) /\ WaitInv(x) /\ InspInv(o) /\ WaitInv(o) /\ InspInv(r) /\ WaitInv(r)
    BY <1>1, <1>2
  <2>2. NoRequest \notin Requests
    BY DEF NoRequest, Requests
  <2>3. fut[x] # r
    BY <2>1, <2>2 DEF WaitInv
  <2>4. \A y \in Requests : ClaimKey(y)' = ClaimKey(y)
    BY DEF ClaimKey
  <2>5. fut[x] \in {NoRequest} \cup Requests
    BY <1>1 DEF RequestTypes
  <2>6. InspInv(x)'
    BY <1>2, <1>3, <1>4, <2>1, <2>2 DEF InspInv
  <2>7. CASE x = r
    BY <1>2, <1>3, <1>4, <2>1, <2>2, <2>4, <2>6, <2>7 DEF WaitInv
  <2>8. CASE x # r
    <3>1. fut'[x] = fut[x] /\ delivered'[x] = delivered[x] /\ doc'[x] = doc[x]
      BY <1>3, <1>4, <2>8
    <3>2. fut[x] # NoRequest => fut'[fut[x]] = fut[fut[x]]
                                /\ ClaimKey(fut[x])' = ClaimKey(fut[x])
      BY <1>4, <2>3, <2>4, <2>5
    <3> QED BY <2>1, <2>4, <2>6, <3>1, <3>2 DEF WaitInv
  <2> QED BY <2>7, <2>8, <2>6
<1>7. ClaimInv'
  <2>1. \A y \in Requests : ClaimKey(y)' = ClaimKey(y)
    BY DEF ClaimKey
  <2>2. \A y \in Requests : (fut'[y] = y <=> fut[y] = y)
    BY <1>2, <1>4 DEF NoRequest, Requests
  <2>3. \A k \in Keys : claims[k] \in {NoRequest} \cup Requests
    BY <1>1 DEF RequestTypes
  <2>4. \A k \in Keys : claims[k] # NoRequest =>
         /\ ClaimKey(claims[k])' = k /\ fut'[claims[k]] = claims[k]
         /\ future[claims[k]] \in {"pending", "ok"}
    BY <1>1, <2>1, <2>2, <2>3 DEF ClaimInv
  <2>5. \A y \in Requests :
         fut'[y] = y /\ future[y] # "failed" => claims[ClaimKey(y)] = y
    BY <1>1, <2>2 DEF ClaimInv
  <2> QED BY <2>1, <2>4, <2>5 DEF ClaimInv
<1>8. Quiet({}, {r})
  BY <1>1, <1>3, <1>4 DEF Quiet, RequestTypes
<1> QED BY <1>5, <1>6, <1>7, <1>8 DEF RequestInv

\* It owns its claim and uploads.
LEMMA ClaimRequests ==
    ASSUME RequestInv, NEW r \in Requests, fut[r] = NoRequest, delivered[r] = 0,
           insp[r] = "new", claims[ClaimKey(r)] = NoRequest,
           claims' = [claims EXCEPT ![ClaimKey(r)] = r],
           fut' = [fut EXCEPT ![r] = r], future' = [future EXCEPT ![r] = "pending"],
           owners' = owners \cup {r}, UNCHANGED <<req, insp, doc, delivered>>
    PROVE  /\ RequestInv' /\ Quiet({}, {r})
           /\ fut'[r] = r /\ future'[r] = "pending"
<1>1. RequestTypes /\ ClaimInv /\ \A x \in Requests : InspInv(x) /\ WaitInv(x)
  BY DEF RequestInv
<1>2. ClaimKey(r) \in Keys /\ \A y \in Requests : ClaimKey(y)' = ClaimKey(y)
  BY <1>1, KeyFacts DEF ClaimKey
<1>3. NoRequest \notin Requests
  BY DEF NoRequest, Requests
<1>4. /\ \A x \in Requests : /\ fut'[x] = IF x = r THEN r ELSE fut[x]
                             /\ future'[x] = IF x = r THEN "pending" ELSE future[x]
      /\ \A k \in Keys : claims'[k] = IF k = ClaimKey(r) THEN r ELSE claims[k]
  BY <1>1 DEF RequestTypes
<1>5. RequestTypes'
  BY <1>1 DEF RequestTypes
<1>6. \A x \in Requests : fut[x] # r
  BY <1>1, <1>3 DEF WaitInv
<1>7. ASSUME NEW x \in Requests PROVE InspInv(x)' /\ WaitInv(x)'
  <2>1. InspInv(x) /\ WaitInv(x) /\ InspInv(r) /\ WaitInv(r)
        /\ fut[x] \in {NoRequest} \cup Requests
    BY <1>1 DEF RequestTypes
  <2>2. CASE x = r
    BY <1>2, <1>3, <1>4, <2>1, <2>2 DEF InspInv, WaitInv
  <2>3. CASE x # r
    <3>1. fut'[x] = fut[x] /\ future'[x] = future[x] /\ (x \in owners' <=> x \in owners)
      BY <1>4, <2>3
    <3>2. fut[x] # NoRequest =>
            /\ fut'[fut[x]] = fut[fut[x]] /\ future'[fut[x]] = future[fut[x]]
            /\ ClaimKey(fut[x])' = ClaimKey(fut[x])
      BY <1>2, <1>4, <1>6, <2>1
    <3> QED BY <1>2, <2>1, <3>1, <3>2 DEF InspInv, WaitInv
  <2> QED BY <2>2, <2>3
<1>8. ClaimInv'
  <2>1. ASSUME NEW k \in Keys, claims'[k] # NoRequest
        PROVE  /\ ClaimKey(claims'[k]) = k /\ fut'[claims'[k]] = claims'[k]
               /\ future'[claims'[k]] \in {"pending", "ok"}
    <3>1. CASE k = ClaimKey(r)
      BY <1>2, <1>4, <3>1
    <3>2. CASE k # ClaimKey(r)
      <4>1. claims'[k] = claims[k] /\ claims[k] \in Requests
        BY <1>1, <1>4, <2>1, <3>2 DEF RequestTypes
      <4>2. ClaimKey(claims[k]) = k /\ fut[claims[k]] = claims[k]
            /\ future[claims[k]] \in {"pending", "ok"}
        BY <1>1, <1>3, <4>1 DEF ClaimInv
      <4>3. claims[k] # r
        BY <1>6, <4>1, <4>2
      <4>4. fut'[claims[k]] = claims[k] /\ future'[claims[k]] = future[claims[k]]
        BY <1>4, <4>1, <4>2, <4>3
      <4> QED BY <4>1, <4>2, <4>4
    <3> QED BY <3>1, <3>2
  <2>2. ASSUME NEW y \in Requests, fut'[y] = y, future'[y] # "failed"
        PROVE  claims'[ClaimKey(y)] = y
    <3>1. CASE y = r
      BY <1>2, <1>4, <3>1
    <3>2. CASE y # r
      <4>1. claims[ClaimKey(y)] = y /\ ClaimKey(y) \in Keys
        BY <1>1, <1>4, <2>2, <3>2, KeyFacts DEF ClaimInv
      <4>2. ClaimKey(y) # ClaimKey(r)
        BY <1>3, <4>1
      <4> QED BY <1>4, <4>1, <4>2
    <3> QED BY <3>1, <3>2
  <2>3. \A k \in Keys : claims'[k] # NoRequest => claims'[k] \in Requests
    BY <1>5 DEF RequestTypes
  <2> QED BY <1>2, <2>1, <2>2, <2>3 DEF ClaimInv
<1>9. Quiet({}, {r})
  BY <1>1, <1>4, <1>6 DEF Quiet, RequestTypes
<1> QED BY <1>4, <1>5, <1>7, <1>8, <1>9 DEF RequestInv

-----------------------------------------------------------------------------
(* The thread of a batch *)

\* The thread of a batch goes on to the next request.
LEMMA ProceedFacts ==
    ASSUME BatchTypes, NEW b \in Batches, Proceed(b)
    PROVE  /\ batch' \in [Batches -> BatchType]
           /\ batch'[b].pc = "stream" /\ batch'[b].pos = batch[b].pos + 1
           /\ batch'[b].items = batch[b].items /\ batch'[b].closing = batch[b].closing
           /\ \A c \in Batches \ {b} : batch'[c] = batch[c]
<1> DEFINE t == [batch[b] EXCEPT !.pc = "stream", !.pos = @ + 1]
<1>1. batch[b] \in BatchType
  BY DEF BatchTypes
<1> DEFINE u == [batch[b] EXCEPT !.pc = "stream"]
<1>2. /\ u \in BatchType /\ u.pc = "stream" /\ u.pos = batch[b].pos
      /\ u.items = batch[b].items /\ u.closing = batch[b].closing
  BY <1>1 DEF BatchType
<1>3. t = [u EXCEPT !.pos = u.pos + 1] /\ u.pos + 1 \in Nat \ {0}
  BY <1>2 DEF BatchType
<1> HIDE DEF u
<1>4. /\ t \in BatchType /\ t.pc = "stream" /\ t.pos = batch[b].pos + 1
      /\ t.items = batch[b].items /\ t.closing = batch[b].closing
  <2> DEFINE n == u.pos + 1
  <2>1. n \in Nat \ {0} /\ t = [u EXCEPT !.pos = n]
    BY <1>3
  <2>2. n = batch[b].pos + 1
    BY <1>2
  <2> HIDE DEF n, t
  <2>3. t \in BatchType /\ t.pos = n /\ t.pc = u.pc /\ t.items = u.items /\ t.closing = u.closing
    BY <1>2, <2>1 DEF BatchType
  <2> QED BY <1>2, <2>2, <2>3
<1>5. batch' = [batch EXCEPT ![b] = t]
  BY DEF Proceed
<1> HIDE DEF t
<1> QED BY <1>4, <1>5 DEF BatchTypes

\* It turns to another part of the loop.
LEMMA GotoFacts ==
    ASSUME BatchTypes, NEW b \in Batches,
           NEW pc \in {"stream", "upload", "album", "fallback", "flush", "ended"}, Goto(b, pc)
    PROVE  /\ batch' \in [Batches -> BatchType]
           /\ batch'[b].pc = pc /\ batch'[b].pos = batch[b].pos
           /\ batch'[b].items = batch[b].items /\ batch'[b].closing = batch[b].closing
           /\ \A c \in Batches \ {b} : batch'[c] = batch[c]
<1> DEFINE t == [batch[b] EXCEPT !.pc = pc]
<1>1. batch[b] \in BatchType
  BY DEF BatchTypes
<1>2. /\ t \in BatchType /\ t.pc = pc /\ t.pos = batch[b].pos
      /\ t.items = batch[b].items /\ t.closing = batch[b].closing
  BY <1>1 DEF BatchType
<1>3. batch' = [batch EXCEPT ![b] = t]
  BY DEF Goto
<1> HIDE DEF t
<1> QED BY <1>2, <1>3 DEF BatchTypes

\* It is done with an album, and goes on where it came from.
LEMMA AlbumSentFacts ==
    ASSUME BatchTypes, NEW b \in Batches, AlbumSent(b)
    PROVE  /\ batch' \in [Batches -> BatchType]
           /\ batch'[b].pc = IF batch[b].closing THEN "flush" ELSE "stream"
           /\ batch'[b].pos = IF batch[b].closing THEN batch[b].pos ELSE batch[b].pos + 1
           /\ batch'[b].items = <<>> /\ batch'[b].closing = batch[b].closing
           /\ \A c \in Batches \ {b} : batch'[c] = batch[c]
<1> DEFINE t == [pc |-> IF batch[b].closing THEN "flush" ELSE "stream",
                 pos |-> IF batch[b].closing THEN batch[b].pos ELSE batch[b].pos + 1,
                 items |-> <<>>, closing |-> batch[b].closing]
<1>1. batch[b] \in BatchType /\ <<>> \in Seq(Requests)
  BY DEF BatchTypes
<1>2. /\ t \in BatchType
      /\ t.pc = IF batch[b].closing THEN "flush" ELSE "stream"
      /\ t.pos = IF batch[b].closing THEN batch[b].pos ELSE batch[b].pos + 1
      /\ t.items = <<>> /\ t.closing = batch[b].closing
  BY <1>1 DEF BatchType
<1>3. batch' = [batch EXCEPT ![b] = t]
  BY DEF AlbumSent
<1> HIDE DEF t
<1> QED BY <1>2, <1>3 DEF BatchTypes

\* The request at the position of a batch that is not done with its stream.
LEMMA CurrentFacts ==
    ASSUME EngineInv, NEW b \in Batches, batch[b].pos <= Len(Of(b))
    PROVE  /\ batch[b].pos \in DOMAIN Of(b) /\ Current(b) = Of(b)[batch[b].pos]
           /\ Current(b) \in Requests
           /\ batch[b].pc = "stream" => fut[Current(b)] = NoRequest /\ delivered[Current(b)] = 0
           /\ batch[b].pc # "stream" => fut[Current(b)] = Current(b)
           /\ batch[b].pc = "upload" => future[Current(b)] = "pending"
<1>1. batch[b].pos \in Nat \ {0} /\ BatchInv(b)
  BY DEF EngineInv, BatchTypes, BatchType
<1>2. /\ Of(b) \in Seq(Requests) /\ DOMAIN Of(b) = 1 .. Len(Of(b)) /\ Len(Of(b)) \in Nat
  BY OfFacts
<1>3. batch[b].pos \in DOMAIN Of(b) /\ Current(b) = Of(b)[batch[b].pos] /\ Current(b) \in Requests
  BY <1>1, <1>2 DEF Current, Position
<1> QED BY <1>1, <1>3 DEF BatchInv, PosInv, PhaseInv

\* No item in hand is the request that is being uploaded.
LEMMA CurrentNotInHand ==
    ASSUME EngineInv, NEW b \in Batches, batch[b].pc = "upload", batch[b].pos <= Len(Of(b)),
           NEW o \in Requests, InHand(b, o)
    PROVE  o # Current(b)
<1>1. PICK i \in DOMAIN Of(b) : Of(b)[i] = o /\ Past(b, i)
  BY DEF InHand
<1>2. i # batch[b].pos
  BY <1>1, OfFacts DEF Past, EngineInv, BatchTypes, BatchType
<1> QED BY <1>1, <1>2, CurrentFacts, OfInjective

\* The thread goes on to the next request.
LEMMA NextRequest ==
    ASSUME EngineInv, NEW b \in Batches, NEW S \in SUBSET Requests, NEW R \in SUBSET Requests,
           Quiet(S, R), batch[b].pos <= Len(Of(b)), ~batch[b].closing,
           R \subseteq {Current(b)},
           batch'[b].pc = "stream", batch'[b].pos = batch[b].pos + 1, ~batch'[b].closing,
           fut'[Current(b)] # NoRequest \/ delivered'[Current(b)] = 1
    PROVE  PhaseInv(b)' /\ PosInv(b)' /\ \A i \in DOMAIN Of(b) : Past(b, i) => Past(b, i)'
<1>1. /\ DOMAIN Of(b) = 1 .. Len(Of(b)) /\ Len(Of(b)) \in Nat /\ Of(b) \in Seq(Requests)
      /\ batch[b].pos \in Nat
  BY OfFacts DEF EngineInv, BatchTypes, BatchType
<1>2. PhaseInv(b)'
  BY DEF PhaseInv
<1>3. \A i \in DOMAIN Of(b) : Past(b, i) => Past(b, i)'
  BY <1>1 DEF Past
<1>4. PosInv(b)'
  <2> SUFFICES ASSUME NEW i \in DOMAIN Of(b)
               PROVE  /\ i >= batch[b].pos + 1 =>
                           fut'[Of(b)[i]] = NoRequest /\ delivered'[Of(b)[i]] = 0
                      /\ i < batch[b].pos + 1 =>
                           fut'[Of(b)[i]] # NoRequest \/ delivered'[Of(b)[i]] = 1
    BY <1>1 DEF PosInv
  <2>1. Of(b)[i] \in Requests /\ i \in Nat
    BY <1>1
  <2>2. /\ i > batch[b].pos => fut[Of(b)[i]] = NoRequest /\ delivered[Of(b)[i]] = 0
        /\ i < batch[b].pos => fut[Of(b)[i]] # NoRequest \/ delivered[Of(b)[i]] = 1
    BY DEF EngineInv, BatchInv, PosInv
  <2>3. CASE i > batch[b].pos
    <3>1. Of(b)[i] # Current(b)
      BY <1>1, <2>3, CurrentFacts, OfInjective
    <3> QED BY <1>1, <2>1, <2>2, <2>3, <3>1 DEF Quiet
  <2>4. CASE i < batch[b].pos
    BY <1>1, <2>1, <2>2, <2>4 DEF Quiet
  <2>5. CASE i = batch[b].pos
    BY <1>1, <2>5, CurrentFacts
  <2> QED BY <1>1, <2>1, <2>3, <2>4, <2>5
<1> QED BY <1>2, <1>3, <1>4

\* The thread stays at its request.
LEMMA SameRequest ==
    ASSUME EngineInv, NEW b \in Batches, NEW S \in SUBSET Requests,
           Quiet(S, {}), batch[b].pc \notin {"stream", "ended"},
           batch'[b].pc \notin {"stream", "upload", "ended"},
           batch'[b].pos = batch[b].pos
    PROVE  PosInv(b)' /\ \A i \in DOMAIN Of(b) : Past(b, i) => Past(b, i)'
<1>1. /\ DOMAIN Of(b) = 1 .. Len(Of(b)) /\ Len(Of(b)) \in Nat /\ Of(b) \in Seq(Requests)
      /\ batch[b].pos \in Nat
  BY OfFacts DEF EngineInv, BatchTypes, BatchType
<1>2. \A i \in DOMAIN Of(b) : Past(b, i) => Past(b, i)'
  BY <1>1 DEF Past
<1>3. PosInv(b)'
  <2> SUFFICES ASSUME NEW i \in DOMAIN Of(b)
               PROVE  /\ i > batch[b].pos =>
                           fut'[Of(b)[i]] = NoRequest /\ delivered'[Of(b)[i]] = 0
                      /\ i < batch[b].pos =>
                           fut'[Of(b)[i]] # NoRequest \/ delivered'[Of(b)[i]] = 1
                      /\ i = batch[b].pos => fut'[Of(b)[i]] = Of(b)[i]
    BY <1>1 DEF PosInv
  <2>1. Of(b)[i] \in Requests
    BY <1>1
  <2>2. /\ i > batch[b].pos => fut[Of(b)[i]] = NoRequest /\ delivered[Of(b)[i]] = 0
        /\ i < batch[b].pos => fut[Of(b)[i]] # NoRequest \/ delivered[Of(b)[i]] = 1
        /\ i = batch[b].pos => fut[Of(b)[i]] = Of(b)[i]
    BY DEF EngineInv, BatchInv, PosInv
  <2> QED BY <2>1, <2>2 DEF Quiet
<1> QED BY <1>2, <1>3

-----------------------------------------------------------------------------
(* The steps of a batch *)

\* The current request is taken from the stream, and the thread goes on.
LEMMA TakenUp ==
    ASSUME EngineInv, NEW b \in Batches, Streaming(b), Quiet({}, {Current(b)}),
           fut'[Current(b)] # NoRequest \/ delivered'[Current(b)] = 1,
           Proceed(b), UNCHANGED queue
    PROVE  BatchTypes' /\ \A c \in Batches : BatchInv(c)'
<1>1. BatchTypes /\ BatchInv(b)
  BY DEF EngineInv
<1>2. batch[b].pc = "stream" /\ batch[b].pos <= Len(Of(b)) /\ ~batch[b].closing
  BY <1>1 DEF Streaming, Position, BatchInv, PhaseInv
<1>3. BatchTypes'
  BY <1>1, ProceedFacts DEF BatchTypes
<1>4. \A c \in Batches \ {b} : BatchInv(c)'
  BY <1>1, <1>2, ProceedFacts, CurrentFacts, OthersStay
<1>5. PhaseInv(b)' /\ PosInv(b)' /\ \A i \in DOMAIN Of(b) : Past(b, i) => Past(b, i)'
  <2>1. Current(b) \in Requests
    BY <1>2, CurrentFacts
  <2> QED BY <1>1, <1>2, <2>1, ProceedFacts, NextRequest
<1>6. HandInv(b)'
  <2>1. \A o \in Requests : InHand(b, o) => InHand(b, o)'
    <3>1. Current(b) \in Requests
      BY <1>2, CurrentFacts
    <3> QED BY <1>5, <3>1, HandStays
  <2>2. Range(batch[b].items) \subseteq Requests
        /\ \A a \in Accounts : Range(queue[b][a]) \subseteq Requests
    BY <1>1 DEF BatchTypes, BatchType, Range
  <2>3. batch'[b].items = batch[b].items /\ queue' = queue
    BY <1>1, ProceedFacts
  <2> QED BY <1>1, <2>1, <2>2, <2>3 DEF BatchInv, HandInv
<1> QED BY <1>3, <1>4, <1>5, <1>6 DEF BatchInv

\* It owns a claim and is uploaded.
LEMMA ClaimBatches ==
    ASSUME EngineInv, NEW b \in Batches, Streaming(b), Quiet({}, {Current(b)}),
           fut'[Current(b)] = Current(b), future'[Current(b)] = "pending",
           Goto(b, "upload"), UNCHANGED queue
    PROVE  BatchTypes' /\ \A c \in Batches : BatchInv(c)'
<1>1. BatchTypes /\ BatchInv(b) /\ batch[b].pos \in Nat
  BY DEF EngineInv, BatchTypes, BatchType
<1>2. batch[b].pc = "stream" /\ batch[b].pos <= Len(Of(b)) /\ ~batch[b].closing
      /\ Current(b) \in Requests
  BY <1>1, CurrentFacts DEF Streaming, Position, BatchInv, PhaseInv
<1>3. /\ batch' \in [Batches -> BatchType]
      /\ batch'[b].pc = "upload" /\ batch'[b].pos = batch[b].pos
      /\ batch'[b].items = batch[b].items /\ batch'[b].closing = batch[b].closing
      /\ \A c \in Batches \ {b} : batch'[c] = batch[c]
  BY <1>1, GotoFacts
<1>4. BatchTypes'
  BY <1>1, <1>3 DEF BatchTypes
<1>5. \A c \in Batches \ {b} : BatchInv(c)'
  BY <1>2, <1>3, CurrentFacts, OthersStay
<1>6. PhaseInv(b)'
  BY <1>2, <1>3 DEF PhaseInv, Current, Position
<1>7. PosInv(b)'
  <2> SUFFICES ASSUME NEW i \in DOMAIN Of(b)
               PROVE  /\ i > batch[b].pos =>
                           fut'[Of(b)[i]] = NoRequest /\ delivered'[Of(b)[i]] = 0
                      /\ i < batch[b].pos =>
                           fut'[Of(b)[i]] # NoRequest \/ delivered'[Of(b)[i]] = 1
                      /\ i = batch[b].pos => fut'[Of(b)[i]] = Of(b)[i]
    BY <1>1, <1>3 DEF PosInv
  <2>1. Of(b)[i] \in Requests /\ i \in Nat
    BY OfFacts
  <2>2. /\ i > batch[b].pos => fut[Of(b)[i]] = NoRequest /\ delivered[Of(b)[i]] = 0
        /\ i < batch[b].pos => fut[Of(b)[i]] # NoRequest \/ delivered[Of(b)[i]] = 1
    BY <1>1 DEF BatchInv, PosInv
  <2>3. CASE i > batch[b].pos
    <3>1. Of(b)[i] # Current(b)
      BY <1>1, <1>2, <2>1, <2>3, CurrentFacts, OfInjective
    <3> QED BY <1>1, <2>1, <2>2, <2>3, <3>1 DEF Quiet
  <2>4. CASE i < batch[b].pos
    BY <1>1, <2>1, <2>2, <2>4 DEF Quiet
  <2>5. CASE i = batch[b].pos
    BY <1>1, <1>2, <2>5, CurrentFacts
  <2> QED BY <1>1, <2>1, <2>3, <2>4, <2>5
<1>8. HandInv(b)'
  <2>1. \A i \in DOMAIN Of(b) : Past(b, i) => Past(b, i)'
    BY <1>2, <1>3 DEF Past
  <2>2. \A o \in Requests : InHand(b, o) => InHand(b, o)'
    <3>1. {Current(b)} \in SUBSET Requests /\ {} \in SUBSET Requests
      BY <1>2
    <3> QED BY <2>1, <3>1, HandStays
  <2>3. Range(batch[b].items) \subseteq Requests
        /\ \A a \in Accounts : Range(queue[b][a]) \subseteq Requests
    BY <1>1 DEF BatchTypes, BatchType, Range
  <2> QED BY <1>1, <1>3, <2>2, <2>3 DEF BatchInv, HandInv
<1> QED BY <1>4, <1>5, <1>6, <1>7, <1>8 DEF BatchInv

\* A file on its own is sent, or fails, or an album item cannot be prepared.
LEMMA UploadStep ==
    ASSUME EngineInv, NEW b \in Batches,
           batch[b].pc = "upload", Settles(Current(b)), Proceed(b),
           UNCHANGED <<req, insp, fut, owners, queue>>
    PROVE  EngineInv'
<1>1. BatchTypes /\ BatchInv(b) /\ RequestInv
  BY DEF EngineInv
<1>2. batch[b].pos <= Len(Of(b)) /\ ~batch[b].closing
  BY <1>1 DEF BatchInv, PhaseInv
<1>3. Current(b) \in Requests /\ Open({Current(b)}) /\ fut[Current(b)] = Current(b)
  BY <1>2, CurrentFacts DEF Open
<1>4. RequestInv' /\ Quiet({Current(b)}, {})
  BY <1>1, <1>3, SettlesEnds
<1>5. /\ batch' \in [Batches -> BatchType]
      /\ batch'[b].pc = "stream" /\ batch'[b].pos = batch[b].pos + 1
      /\ batch'[b].items = batch[b].items /\ batch'[b].closing = batch[b].closing
      /\ \A c \in Batches \ {b} : batch'[c] = batch[c]
  BY <1>1, ProceedFacts
<1>6. BatchTypes'
  BY <1>1, <1>5 DEF BatchTypes
<1>7. \A c \in Batches \ {b} : BatchInv(c)'
  BY <1>2, <1>3, <1>4, <1>5, CurrentFacts, OthersStay
<1>8. PhaseInv(b)' /\ PosInv(b)' /\ \A i \in DOMAIN Of(b) : Past(b, i) => Past(b, i)'
  <2>1. fut'[Current(b)] # NoRequest /\ {Current(b)} \in SUBSET Requests
        /\ {} \in SUBSET Requests /\ {} \subseteq {Current(b)}
    BY <1>3 DEF NoRequest, Requests
  <2> QED BY <1>2, <1>3, <1>4, <1>5, <2>1, NextRequest
<1>9. HandInv(b)'
  <2>1. \A o \in Requests : InHand(b, o) => InHand(b, o)'
    <3>1. \A o \in Requests : InHand(b, o) /\ o \notin {Current(b)} => InHand(b, o)'
      BY <1>3, <1>4, <1>8, HandStays
    <3> QED BY <1>1, <1>2, <3>1, CurrentNotInHand
  <2>2. Range(batch[b].items) \subseteq Requests
        /\ \A a \in Accounts : Range(queue[b][a]) \subseteq Requests
    BY <1>1 DEF BatchTypes, BatchType, Range
  <2> QED BY <1>1, <1>5, <2>1, <2>2 DEF BatchInv, HandInv
<1> QED BY <1>4, <1>6, <1>7, <1>8, <1>9 DEF EngineInv, BatchInv

\* What only the thread of b and its queues see.
Inside(b) ==
    /\ batch' \in [Batches -> BatchType]
    /\ queue' \in [Batches -> [Accounts -> Seq(Requests)]]
    /\ \A c \in Batches \ {b} : batch'[c] = batch[c] /\ queue'[c] = queue[c]
    /\ UNCHANGED <<req, insp, fut, future, doc, claims, delivered, owners>>

\* A move of the thread inside its batch disturbs no request and no other batch.
LEMMA InsideFacts ==
    ASSUME EngineInv, NEW b \in Batches, Inside(b)
    PROVE  /\ RequestInv' /\ Quiet({}, {})
           /\ \A c \in Batches \ {b} : BatchInv(c)'
<1>1. Quiet({}, {})
  BY DEF Inside, Quiet
<1>2. RequestInv'
  BY DEF EngineInv, Inside, RequestInv, RequestTypes, InspInv, WaitInv, ClaimInv, ClaimKey
<1>3. \A c \in Batches \ {b} : BatchInv(c)'
  BY <1>1, OthersStay DEF Inside
<1> QED BY <1>1, <1>2, <1>3

\* An item joins the queue of an account, and a full queue becomes the album.
LEMMA PrepareAlbumStep ==
    ASSUME EngineInv, NEW b \in Batches, NEW a \in Accounts, PrepareAlbum(b, a)
    PROVE  EngineInv'
<1>0. PICK r : r = Current(b)
  OBVIOUS
<1> DEFINE items == Append(queue[b][a], r)
<1>1. BatchTypes /\ BatchInv(b) /\ RequestInv /\ batch[b] \in BatchType
      /\ queue[b][a] \in Seq(Requests)
  BY DEF EngineInv, BatchTypes
<1>2. batch[b].pc = "upload" /\ batch[b].pos <= Len(Of(b)) /\ ~batch[b].closing
  BY <1>1 DEF BatchInv, PhaseInv, PrepareAlbum
<1>3. r \in Requests /\ fut[r] = r /\ future[r] = "pending" /\ batch[b].pos \in DOMAIN Of(b)
      /\ Of(b)[batch[b].pos] = r
  BY <1>0, <1>2, CurrentFacts
<1>4. /\ items \in Seq(Requests) /\ Len(items) = Len(queue[b][a]) + 1
      /\ Range(items) = Range(queue[b][a]) \cup {r}
      /\ Distinct(queue[b][a]) /\ r \notin Range(queue[b][a]) => Distinct(items)
  BY <1>1, <1>3, AppendFacts
<1>5. /\ \A c \in Accounts : Range(queue[b][c]) \subseteq Requests
      /\ Range(batch[b].items) \subseteq Requests
  BY <1>1 DEF BatchTypes, BatchType, Range
<1>6. /\ r \notin Range(batch[b].items)
      /\ \A c \in Accounts : r \notin Range(queue[b][c])
  BY <1>0, <1>1, <1>2, <1>5, CurrentNotInHand DEF BatchInv, HandInv
<1>7. CASE Len(items) = AlbumBatch
  <2>1. /\ batch' = [batch EXCEPT ![b].pc = "album", ![b].items = items]
        /\ queue' = [queue EXCEPT ![b][a] = <<>>]
    BY <1>0, <1>7 DEF PrepareAlbum
  <2> HIDE DEF items
  <2>2. /\ batch' \in [Batches -> BatchType]
        /\ batch'[b].pc = "album" /\ batch'[b].pos = batch[b].pos
        /\ batch'[b].items = items /\ batch'[b].closing = batch[b].closing
        /\ \A c \in Batches \ {b} : batch'[c] = batch[c]
    BY <1>1, <1>4, <2>1 DEF BatchTypes, BatchType
  <2>3. /\ queue' \in [Batches -> [Accounts -> Seq(Requests)]]
        /\ queue'[b][a] = <<>> /\ \A c \in Accounts \ {a} : queue'[b][c] = queue[b][c]
        /\ \A c \in Batches \ {b} : queue'[c] = queue[c]
    <3>1. <<>> \in Seq(Requests)
      OBVIOUS
    <3> QED BY <1>1, <2>1, <3>1 DEF BatchTypes
  <2>4. Inside(b)
    BY <2>2, <2>3 DEF Inside, PrepareAlbum
  <2>5. BatchTypes'
    <3>1. \A c \in Batches, d \in Accounts :
            queue'[c][d] = queue[c][d] \/ queue'[c][d] = <<>>
      BY <2>3
    <3>2. Len(<<>>) < AlbumBatch
      BY UploadBatchAssumption
    <3> QED BY <1>1, <2>2, <2>3, <3>1, <3>2 DEF BatchTypes
  <2>6. RequestInv' /\ Quiet({}, {}) /\ \A c \in Batches \ {b} : BatchInv(c)'
    BY <2>4, InsideFacts
  <2>7. PosInv(b)' /\ \A i \in DOMAIN Of(b) : Past(b, i) => Past(b, i)'
    BY <1>2, <2>2, <2>6, SameRequest
  <2>8. PhaseInv(b)'
    BY <1>2, <2>2 DEF PhaseInv
  <2>9. HandInv(b)'
    <3>1. \A o \in Requests : InHand(b, o) => InHand(b, o)'
      BY <2>6, <2>7, HandStays
    <3>2. InHand(b, r)'
      <4>1. PICK n : n = batch[b].pos
        OBVIOUS
      <4>2. Past(b, n)'
        BY <1>2, <2>2, <4>1 DEF Past
      <4> QED BY <1>3, <2>4, <4>1, <4>2 DEF InHand, Inside
    <3>3. HandInv(b)
      BY <1>1 DEF BatchInv
    <3>4. \A o \in Range(items) : InHand(b, o)'
      BY <1>4, <1>5, <3>1, <3>2, <3>3 DEF HandInv
    <3>5. \A c \in Accounts : \A o \in Range(queue'[b][c]) : InHand(b, o)'
      BY <1>5, <2>3, <3>1, <3>3, EmptyFacts DEF HandInv
    <3>6. Distinct(items)
      BY <1>4, <1>6, <3>3 DEF HandInv
    <3>7. \A c \in Accounts : /\ Distinct(queue'[b][c])
                              /\ Range(queue'[b][c]) \cap Range(items) = {}
      BY <1>4, <1>6, <2>3, <3>3, EmptyFacts DEF HandInv
    <3>8. \A c, d \in Accounts : c # d => Range(queue'[b][c]) \cap Range(queue'[b][d]) = {}
      BY <2>3, <3>3, EmptyFacts DEF HandInv
    <3> QED BY <2>2, <3>4, <3>5, <3>6, <3>7, <3>8 DEF HandInv
  <2> QED BY <2>5, <2>6, <2>7, <2>8, <2>9 DEF EngineInv, BatchInv
<1>8. CASE Len(items) # AlbumBatch
  <2>1. Proceed(b) /\ queue' = [queue EXCEPT ![b][a] = items]
    BY <1>0, <1>8 DEF PrepareAlbum
  <2>2. Len(items) < AlbumBatch
    BY <1>1, <1>4, <1>8, UploadBatchAssumption DEF BatchTypes
  <2> HIDE DEF items
  <2>3. /\ batch' \in [Batches -> BatchType]
        /\ batch'[b].pc = "stream" /\ batch'[b].pos = batch[b].pos + 1
        /\ batch'[b].items = batch[b].items /\ batch'[b].closing = batch[b].closing
        /\ \A c \in Batches \ {b} : batch'[c] = batch[c]
    BY <1>1, <2>1, ProceedFacts
  <2>4. /\ queue' \in [Batches -> [Accounts -> Seq(Requests)]]
        /\ queue'[b][a] = items /\ \A c \in Accounts \ {a} : queue'[b][c] = queue[b][c]
        /\ \A c \in Batches \ {b} : queue'[c] = queue[c]
    BY <1>1, <1>4, <2>1 DEF BatchTypes
  <2>5. Inside(b)
    BY <2>3, <2>4 DEF Inside, PrepareAlbum
  <2>6. BatchTypes'
    <3>1. \A c \in Batches, d \in Accounts :
            queue'[c][d] = queue[c][d] \/ queue'[c][d] = items
      BY <2>4
    <3> QED BY <1>1, <2>2, <2>3, <2>4, <3>1 DEF BatchTypes
  <2>7. RequestInv' /\ Quiet({}, {}) /\ \A c \in Batches \ {b} : BatchInv(c)'
    BY <2>5, InsideFacts
  <2>8. PhaseInv(b)' /\ PosInv(b)' /\ \A i \in DOMAIN Of(b) : Past(b, i) => Past(b, i)'
    <3>1. fut'[r] # NoRequest /\ {} \subseteq {r}
      BY <1>3, <2>5 DEF Inside, NoRequest, Requests
    <3> QED BY <1>0, <1>2, <2>3, <2>7, <3>1, NextRequest
  <2>9. HandInv(b)'
    <3>1. \A o \in Requests : InHand(b, o) => InHand(b, o)'
      BY <2>7, <2>8, HandStays
    <3>2. InHand(b, r)'
      <4>1. PICK n : n = batch[b].pos
        OBVIOUS
      <4>2. Past(b, n)'
        BY <1>1, <2>3, <4>1 DEF Past, BatchType
      <4> QED BY <1>3, <2>5, <4>1, <4>2 DEF InHand, Inside
    <3>3. HandInv(b)
      BY <1>1 DEF BatchInv
    <3>4. \A o \in Range(batch[b].items) : InHand(b, o)'
      BY <1>5, <3>1, <3>3 DEF HandInv
    <3>5. \A c \in Accounts : \A o \in Range(queue'[b][c]) : InHand(b, o)'
      BY <1>4, <1>5, <2>4, <3>1, <3>2, <3>3 DEF HandInv
    <3>6. \A c \in Accounts : /\ Distinct(queue'[b][c])
                              /\ Range(queue'[b][c]) \cap Range(batch[b].items) = {}
      BY <1>4, <1>6, <2>4, <3>3 DEF HandInv
    <3>7. \A c, d \in Accounts : c # d => Range(queue'[b][c]) \cap Range(queue'[b][d]) = {}
      <4>1. /\ Range(queue'[b][a]) = Range(queue[b][a]) \cup {r}
            /\ \A c \in Accounts \ {a} : Range(queue'[b][c]) = Range(queue[b][c])
        BY <1>4, <2>4
      <4>2. \A c, d \in Accounts : c # d => Range(queue[b][c]) \cap Range(queue[b][d]) = {}
        BY <3>3 DEF HandInv
      <4>3. \A c \in Accounts \ {a} : /\ Range(queue'[b][a]) \cap Range(queue'[b][c]) = {}
                                       /\ Range(queue'[b][c]) \cap Range(queue'[b][a]) = {}
        BY <1>6, <4>1, <4>2
      <4> QED BY <4>1, <4>2, <4>3
    <3> QED BY <2>3, <3>3, <3>4, <3>5, <3>6, <3>7 DEF HandInv
  <2> QED BY <2>6, <2>7, <2>8, <2>9 DEF EngineInv, BatchInv
<1> QED BY <1>7, <1>8

\* The album is sent: every item has its document.
LEMMA SendAlbumEnds ==
    ASSUME EngineInv, NEW b \in Batches, SendAlbum(b)
    PROVE  Range(batch[b].items) \subseteq Requests /\ Open(Range(batch[b].items))
           /\ Ended(Range(batch[b].items), "ok")
<1> DEFINE S == Range(batch[b].items)
<1>1. RequestInv /\ RequestTypes /\ BatchTypes /\ BatchInv(b) /\ \A r \in Requests : WaitInv(r)
  BY DEF EngineInv, RequestInv
<1>2. S \subseteq Requests
  BY <1>1 DEF BatchTypes, BatchType, Range
<1>3. Open(S)
  BY <1>1, <1>2 DEF BatchInv, HandInv, InHand, Open
<1>4. /\ future' = [o \in Requests |-> IF o \in S THEN "ok" ELSE future[o]]
      /\ doc' = [r \in Requests |-> IF fut[r] \in S /\ delivered[r] = 0 THEN fut[r] ELSE doc[r]]
      /\ Deliver({r \in Requests : fut[r] \in S /\ delivered[r] = 0}, {}, doc')
      /\ UNCHANGED <<req, insp, fut, claims, owners>>
  BY DEF SendAlbum
<1> HIDE DEF S
<1>5. \A r \in Requests : fut[r] \in S => delivered[r] = 0
  <2> SUFFICES ASSUME NEW r \in Requests, fut[r] \in S PROVE delivered[r] = 0
    OBVIOUS
  <2>1. fut[r] # NoRequest
    BY <1>2 DEF NoRequest, Requests
  <2>3. future[fut[r]] = "pending"
    BY <1>3 DEF Open
  <2>2. WaitInv(r)
    BY <1>1
  <2> QED BY <2>1, <2>2, <2>3 DEF WaitInv
<1>6. /\ delivered' \in [Requests -> 0 .. 1]
      /\ \A r \in Requests : delivered'[r] = IF fut[r] \in S THEN 1 ELSE delivered[r]
  <2> DEFINE done == {r \in Requests : fut[r] \in S /\ delivered[r] = 0}
  <2>0. Deliver(done, {}, doc')
    BY <1>4
  <2>1. /\ done \in SUBSET Requests /\ {} \in SUBSET Requests
        /\ \A r \in done \cup {} : delivered[r] = 0
    OBVIOUS
  <2>2. \A r \in Requests : r \in done \cup {} <=> fut[r] \in S
    BY <1>5
  <2> HIDE DEF done
  <2> QED BY <1>1, <2>0, <2>1, <2>2, DeliverTypes
<1>7. RequestTypes'
  BY <1>1, <1>2, <1>4, <1>6 DEF RequestTypes
<1>8. Ended(S, "ok")
  BY <1>4, <1>5, <1>6, <1>7 DEF Ended
<1> QED BY <1>2, <1>3, <1>8 DEF S

\* The album is out of the thread's hands.
LEMMA AlbumGone ==
    ASSUME EngineInv, NEW b \in Batches, batch[b].pc \in {"album", "fallback"},
           NEW S \in SUBSET Requests, S \subseteq Range(batch[b].items),
           Quiet(S, {}), AlbumSent(b), UNCHANGED queue
    PROVE  BatchTypes' /\ \A c \in Batches : BatchInv(c)'
<1>1. BatchTypes /\ BatchInv(b)
  BY DEF EngineInv
<1>2. /\ batch' \in [Batches -> BatchType]
      /\ batch'[b].pc = IF batch[b].closing THEN "flush" ELSE "stream"
      /\ batch'[b].pos = IF batch[b].closing THEN batch[b].pos ELSE batch[b].pos + 1
      /\ batch'[b].items = <<>> /\ batch'[b].closing = batch[b].closing
      /\ \A c \in Batches \ {b} : batch'[c] = batch[c]
  BY <1>1, AlbumSentFacts
<1>3. BatchTypes'
  BY <1>1, <1>2 DEF BatchTypes
<1>4. \A x \in S : \E i \in DOMAIN Of(b) : Of(b)[i] = x
  BY <1>1 DEF BatchInv, HandInv, InHand
<1>5. \A c \in Batches \ {b} : BatchInv(c)'
  <2>1. {} \in SUBSET Requests /\ \A x \in S \cup {} : \E i \in DOMAIN Of(b) : Of(b)[i] = x
    BY <1>4
  <2> QED BY <1>2, <2>1, OthersStay
<1>6. PhaseInv(b)' /\ PosInv(b)' /\ \A i \in DOMAIN Of(b) : Past(b, i) => Past(b, i)'
  <2>1. CASE batch[b].closing
    <3>1. PosInv(b)' /\ \A i \in DOMAIN Of(b) : Past(b, i) => Past(b, i)'
      BY <1>2, <2>1, SameRequest
    <3>2. PhaseInv(b)'
      BY <1>1, <1>2, <2>1 DEF PhaseInv, BatchInv
    <3> QED BY <3>1, <3>2
  <2>2. CASE ~batch[b].closing
    <3>1. batch[b].pos <= Len(Of(b))
      BY <1>1, <2>2 DEF BatchInv, PhaseInv
    <3>2. /\ Current(b) \in Requests /\ fut[Current(b)] = Current(b)
          /\ {} \in SUBSET Requests /\ {} \subseteq {Current(b)}
      BY <3>1, CurrentFacts
    <3>3. fut'[Current(b)] # NoRequest
      BY <3>2 DEF Quiet, NoRequest, Requests
    <3> QED BY <1>2, <2>2, <3>1, <3>2, <3>3, NextRequest
  <2> QED BY <2>1, <2>2
<1>7. HandInv(b)'
  <2>1. {} \in SUBSET Requests
    OBVIOUS
  <2>2. \A o \in Requests : InHand(b, o) /\ o \notin S => InHand(b, o)'
    BY <1>6, <2>1, HandStays
  <2>3. HandInv(b) /\ \A a \in Accounts : Range(queue[b][a]) \subseteq Requests
    BY <1>1 DEF BatchInv, BatchTypes, Range
  <2>4. \A a \in Accounts : \A o \in Range(queue[b][a]) : o \notin S /\ InHand(b, o)
    BY <2>3 DEF HandInv
  <2>5. \A a \in Accounts : \A o \in Range(queue[b][a]) : InHand(b, o)'
    BY <2>2, <2>3, <2>4
  <2> QED BY <1>2, <2>3, <2>5, EmptyFacts DEF HandInv
<1> QED BY <1>3, <1>5, <1>6, <1>7 DEF BatchInv

\* The album has been sent: all its owners have their document.
LEMMA SendAlbumStep ==
    ASSUME EngineInv, NEW b \in Batches, SendAlbum(b)
    PROVE  EngineInv'
<1>1. RequestInv
  BY DEF EngineInv
<1>2. PICK S : S = Range(batch[b].items)
  OBVIOUS
<1>3. S \in SUBSET Requests /\ Open(S) /\ Ended(S, "ok")
  BY <1>2, SendAlbumEnds
<1>4. RequestInv' /\ Quiet(S, {})
  BY <1>1, <1>3, EndedRequests
<1>5. batch[b].pc \in {"album", "fallback"} /\ AlbumSent(b) /\ UNCHANGED queue
  BY DEF SendAlbum
<1>6. BatchTypes' /\ \A c \in Batches : BatchInv(c)'
  BY <1>2, <1>3, <1>4, <1>5, AlbumGone
<1> QED BY <1>4, <1>6 DEF EngineInv

\* The last item of a failed album has been sent alone.
LEMMA FallbackDoneStep ==
    ASSUME EngineInv, NEW b \in Batches, FallbackDone(b)
    PROVE  EngineInv'
<1>1. /\ batch[b].pc \in {"album", "fallback"} /\ AlbumSent(b)
      /\ UNCHANGED <<req, insp, fut, future, doc, claims, queue, delivered, owners>>
  BY DEF FallbackDone
<1>2. Inside(b)
  BY <1>1, AlbumSentFacts DEF Inside, EngineInv, BatchTypes
<1>3. RequestInv' /\ Quiet({}, {})
  BY <1>2, InsideFacts
<1>4. {} \in SUBSET Requests /\ {} \subseteq Range(batch[b].items)
  OBVIOUS
<1>5. BatchTypes' /\ \A c \in Batches : BatchInv(c)'
  BY <1>1, <1>3, <1>4, AlbumGone
<1> QED BY <1>3, <1>5 DEF EngineInv

\* The next item of a failed album is tried alone.
LEMMA FallbackStep ==
    ASSUME EngineInv, NEW b \in Batches, Fallback(b)
    PROVE  EngineInv'
<1>1. RequestInv /\ BatchTypes /\ BatchInv(b) /\ batch[b] \in BatchType
  BY DEF EngineInv, BatchTypes
<1>2. PICK o : o = Head(batch[b].items)
  OBVIOUS
<1>3. PICK items : items = batch[b].items
  OBVIOUS
<1>4. /\ batch[b].pc = "fallback" /\ items # <<>> /\ Settles(o)
      /\ batch' = [batch EXCEPT ![b].items = Tail(items)]
      /\ UNCHANGED <<req, insp, fut, owners, queue>>
  BY <1>1, <1>2, <1>3 DEF Fallback, BatchTypes
<1>5. items \in Seq(Requests)
  BY <1>1, <1>3 DEF BatchType
<1>6. /\ Tail(items) \in Seq(Requests) /\ o \in Requests /\ o \in Range(items)
      /\ Range(Tail(items)) \subseteq Range(items)
      /\ Distinct(items) => Distinct(Tail(items)) /\ o \notin Range(Tail(items))
  BY <1>2, <1>3, <1>4, <1>5, TailFacts
<1>7. HandInv(b) /\ InHand(b, o) /\ Open({o})
  BY <1>1, <1>3, <1>6 DEF BatchInv, HandInv, InHand, Open
<1>8. RequestInv' /\ Quiet({o}, {})
  BY <1>1, <1>4, <1>6, <1>7, SettlesEnds
<1> DEFINE rest == Tail(items)
<1>9. rest \in Seq(Requests)
  BY <1>6
<1> HIDE DEF rest
<1>10. /\ batch' \in [Batches -> BatchType]
       /\ batch'[b].pc = "fallback" /\ batch'[b].pos = batch[b].pos
       /\ batch'[b].items = rest /\ batch'[b].closing = batch[b].closing
       /\ \A c \in Batches \ {b} : batch'[c] = batch[c]
  <2> DEFINE t == [batch[b] EXCEPT !.items = rest]
  <2>1. batch' = [batch EXCEPT ![b] = t]
    BY <1>4 DEF rest
  <2>2. /\ t \in BatchType /\ t.pc = batch[b].pc /\ t.pos = batch[b].pos
        /\ t.items = rest /\ t.closing = batch[b].closing
    BY <1>1, <1>9 DEF BatchType
  <2> HIDE DEF t
  <2> QED BY <1>1, <1>4, <2>1, <2>2 DEF BatchTypes
<1>11. BatchTypes'
  BY <1>1, <1>4, <1>10 DEF BatchTypes
<1>12. {} \in SUBSET Requests /\ {o} \in SUBSET Requests
       /\ \A x \in {o} \cup {} : \E i \in DOMAIN Of(b) : Of(b)[i] = x
  BY <1>6, <1>7 DEF InHand
<1>13. \A c \in Batches \ {b} : BatchInv(c)'
  BY <1>4, <1>8, <1>10, <1>12, OthersStay
<1>14. PosInv(b)' /\ \A i \in DOMAIN Of(b) : Past(b, i) => Past(b, i)'
  BY <1>4, <1>8, <1>10, <1>12, SameRequest
<1>15. PhaseInv(b)'
  BY <1>1, <1>4, <1>10 DEF BatchInv, PhaseInv
<1>16. HandInv(b)'
  <2>1. \A x \in Requests : InHand(b, x) /\ x # o => InHand(b, x)'
    BY <1>8, <1>12, <1>14, HandStays
  <2>2. /\ Range(rest) \subseteq Range(items) /\ Distinct(rest) /\ o \notin Range(rest)
        /\ Range(items) \subseteq Requests
    BY <1>3, <1>5, <1>6, <1>7 DEF HandInv, rest, Range
  <2>3. \A a \in Accounts : Range(queue[b][a]) \subseteq Requests /\ o \notin Range(queue[b][a])
    <3>1. \A a \in Accounts : Range(queue[b][a]) \cap Range(items) = {}
      BY <1>3, <1>7 DEF HandInv
    <3>2. \A a \in Accounts : Range(queue[b][a]) \subseteq Requests
      BY <1>1 DEF BatchTypes, Range
    <3> QED BY <1>6, <3>1, <3>2
  <2>4. \A x \in Range(rest) : InHand(b, x)'
    BY <1>3, <1>7, <2>1, <2>2 DEF HandInv
  <2>5. \A a \in Accounts : \A x \in Range(queue[b][a]) : InHand(b, x)'
    BY <1>7, <2>1, <2>3 DEF HandInv
  <2>6. \A a \in Accounts : Range(queue[b][a]) \cap Range(rest) = {}
    BY <1>3, <1>7, <2>2 DEF HandInv
  <2> QED BY <1>4, <1>7, <1>10, <2>2, <2>4, <2>5, <2>6 DEF HandInv
<1> QED BY <1>8, <1>11, <1>13, <1>14, <1>15, <1>16 DEF EngineInv, BatchInv

\* The album fails: each of its items is to be sent alone.
LEMMA SendAlbumFailsStep ==
    ASSUME EngineInv, NEW b \in Batches, SendAlbumFails(b)
    PROVE  EngineInv'
<1>1. BatchTypes /\ BatchInv(b)
  BY DEF EngineInv
<1>2. batch[b].pc = "album" /\ Goto(b, "fallback") /\ UNCHANGED queue
  BY DEF SendAlbumFails
<1>3. /\ batch' \in [Batches -> BatchType]
      /\ batch'[b].pc = "fallback" /\ batch'[b].pos = batch[b].pos
      /\ batch'[b].items = batch[b].items /\ batch'[b].closing = batch[b].closing
      /\ \A c \in Batches \ {b} : batch'[c] = batch[c]
  BY <1>1, <1>2, GotoFacts
<1>4. Inside(b)
  BY <1>1, <1>3 DEF Inside, SendAlbumFails, BatchTypes
<1>5. RequestInv' /\ Quiet({}, {}) /\ \A c \in Batches \ {b} : BatchInv(c)'
  BY <1>4, InsideFacts
<1>6. PosInv(b)' /\ \A i \in DOMAIN Of(b) : Past(b, i) => Past(b, i)'
  BY <1>2, <1>3, <1>5, SameRequest
<1>7. PhaseInv(b)'
  BY <1>1, <1>2, <1>3 DEF BatchInv, PhaseInv
<1>8. HandInv(b)'
  <2>1. \A o \in Requests : InHand(b, o) => InHand(b, o)'
    BY <1>5, <1>6, HandStays
  <2>2. /\ \A a \in Accounts : Range(queue[b][a]) \subseteq Requests
        /\ Range(batch[b].items) \subseteq Requests
    BY <1>1 DEF BatchTypes, BatchType, Range
  <2> QED BY <1>1, <1>2, <1>3, <2>1, <2>2 DEF BatchInv, HandInv
<1>9. BatchTypes'
  BY <1>1, <1>2, <1>3 DEF BatchTypes
<1> QED BY <1>5, <1>6, <1>7, <1>8, <1>9 DEF EngineInv, BatchInv

\* The stream is through: the queues are flushed next.
LEMMA StreamEndsStep ==
    ASSUME EngineInv, NEW b \in Batches, StreamEnds(b)
    PROVE  EngineInv'
<1>1. BatchTypes /\ BatchInv(b) /\ batch[b] \in BatchType
  BY DEF EngineInv, BatchTypes
<1>2. batch[b].pc = "stream" /\ batch[b].pos > Len(Of(b)) /\ UNCHANGED queue
  BY DEF StreamEnds, Position
<1>3. /\ batch' \in [Batches -> BatchType]
      /\ batch'[b].pc = "flush" /\ batch'[b].pos = batch[b].pos
      /\ batch'[b].items = batch[b].items /\ batch'[b].closing = TRUE
      /\ \A c \in Batches \ {b} : batch'[c] = batch[c]
  <2> DEFINE t == [batch[b] EXCEPT !.pc = "flush", !.closing = TRUE]
  <2>1. batch' = [batch EXCEPT ![b] = t]
    BY <1>1 DEF StreamEnds
  <2>2. /\ t \in BatchType /\ t.pc = "flush" /\ t.pos = batch[b].pos
        /\ t.items = batch[b].items /\ t.closing = TRUE
    BY <1>1 DEF BatchType
  <2> HIDE DEF t
  <2> QED BY <1>1, <2>1, <2>2 DEF BatchTypes
<1>4. Inside(b)
  BY <1>1, <1>3 DEF Inside, StreamEnds, BatchTypes
<1>5. RequestInv' /\ Quiet({}, {}) /\ \A c \in Batches \ {b} : BatchInv(c)'
  BY <1>4, InsideFacts
<1>6. /\ DOMAIN Of(b) = 1 .. Len(Of(b)) /\ Len(Of(b)) \in Nat /\ batch[b].pos \in Nat
      /\ Of(b) \in Seq(Requests)
  BY <1>1, OfFacts DEF BatchType
<1>7. PosInv(b)' /\ \A i \in DOMAIN Of(b) : Past(b, i) => Past(b, i)'
  <2>1. ASSUME NEW i \in DOMAIN Of(b)
        PROVE  i < batch[b].pos /\ (fut'[Of(b)[i]] # NoRequest \/ delivered'[Of(b)[i]] = 1)
    <3>1. i < batch[b].pos /\ Of(b)[i] \in Requests
      BY <1>2, <1>6
    <3>2. fut[Of(b)[i]] # NoRequest \/ delivered[Of(b)[i]] = 1
      BY <1>1, <3>1 DEF BatchInv, PosInv
    <3> QED BY <1>5, <3>1, <3>2 DEF Quiet
  <2> QED BY <1>3, <1>6, <2>1 DEF PosInv, Past
<1>8. PhaseInv(b)'
  BY <1>2, <1>3 DEF PhaseInv
<1>9. HandInv(b)'
  <2>1. \A o \in Requests : InHand(b, o) => InHand(b, o)'
    BY <1>5, <1>7, HandStays
  <2>2. /\ \A a \in Accounts : Range(queue[b][a]) \subseteq Requests
        /\ Range(batch[b].items) \subseteq Requests
    BY <1>1 DEF BatchTypes, BatchType, Range
  <2> QED BY <1>1, <1>2, <1>3, <2>1, <2>2 DEF BatchInv, HandInv
<1>10. BatchTypes'
  BY <1>1, <1>2, <1>3 DEF BatchTypes
<1> QED BY <1>5, <1>7, <1>8, <1>9, <1>10 DEF EngineInv, BatchInv

\* The rest of a queue becomes the album.
LEMMA FlushStep ==
    ASSUME EngineInv, NEW b \in Batches, NEW a \in Accounts, Flush(b, a)
    PROVE  EngineInv'
<1>1. BatchTypes /\ BatchInv(b) /\ batch[b] \in BatchType /\ queue[b][a] \in Seq(Requests)
  BY DEF EngineInv, BatchTypes
<1>2. PICK items : items = queue[b][a]
  OBVIOUS
<1>3. /\ batch[b].pc = "flush"
      /\ batch' = [batch EXCEPT ![b].pc = "album", ![b].items = items]
      /\ queue' = [queue EXCEPT ![b][a] = <<>>]
  BY <1>2 DEF Flush
<1>4. /\ batch' \in [Batches -> BatchType]
      /\ batch'[b].pc = "album" /\ batch'[b].pos = batch[b].pos
      /\ batch'[b].items = items /\ batch'[b].closing = batch[b].closing
      /\ \A c \in Batches \ {b} : batch'[c] = batch[c]
  BY <1>1, <1>2, <1>3 DEF BatchTypes, BatchType
<1>5. /\ queue' \in [Batches -> [Accounts -> Seq(Requests)]]
      /\ queue'[b][a] = <<>> /\ \A c \in Accounts \ {a} : queue'[b][c] = queue[b][c]
      /\ \A c \in Batches \ {b} : queue'[c] = queue[c]
  <2>1. <<>> \in Seq(Requests)
    OBVIOUS
  <2> QED BY <1>1, <1>3, <2>1 DEF BatchTypes
<1>6. Inside(b)
  BY <1>4, <1>5 DEF Inside, Flush
<1>7. BatchTypes'
  <2>1. \A c \in Batches, d \in Accounts : queue'[c][d] = queue[c][d] \/ queue'[c][d] = <<>>
    BY <1>5
  <2>2. Len(<<>>) < AlbumBatch
    BY UploadBatchAssumption
  <2> QED BY <1>1, <1>4, <1>5, <2>1, <2>2 DEF BatchTypes
<1>8. RequestInv' /\ Quiet({}, {}) /\ \A c \in Batches \ {b} : BatchInv(c)'
  BY <1>6, InsideFacts
<1>9. PosInv(b)' /\ \A i \in DOMAIN Of(b) : Past(b, i) => Past(b, i)'
  BY <1>3, <1>4, <1>8, SameRequest
<1>10. PhaseInv(b)'
  BY <1>1, <1>3, <1>4 DEF BatchInv, PhaseInv
<1>11. HandInv(b)'
  <2>1. \A o \in Requests : InHand(b, o) => InHand(b, o)'
    BY <1>8, <1>9, HandStays
  <2>2. HandInv(b) /\ \A c \in Accounts : Range(queue[b][c]) \subseteq Requests
    BY <1>1 DEF BatchInv, BatchTypes, Range
  <2>3. \A o \in Range(items) : InHand(b, o)'
    BY <1>2, <2>1, <2>2 DEF HandInv
  <2>4. \A c \in Accounts : \A o \in Range(queue'[b][c]) : InHand(b, o)'
    BY <1>5, <2>1, <2>2, EmptyFacts DEF HandInv
  <2>5. Distinct(items)
    BY <1>2, <2>2 DEF HandInv
  <2>6. \A c \in Accounts : /\ Distinct(queue'[b][c])
                            /\ Range(queue'[b][c]) \cap Range(items) = {}
    BY <1>2, <1>5, <2>2, EmptyFacts DEF HandInv
  <2>7. \A c, d \in Accounts : c # d => Range(queue'[b][c]) \cap Range(queue'[b][d]) = {}
    BY <1>5, <2>2, EmptyFacts DEF HandInv
  <2> QED BY <1>4, <2>3, <2>4, <2>5, <2>6, <2>7 DEF HandInv
<1> QED BY <1>7, <1>8, <1>9, <1>10, <1>11 DEF EngineInv, BatchInv

\* Every future the batch waits on is settled, so every request has its answer.
LEMMA CollectStep ==
    ASSUME EngineInv, NEW b \in Batches, Collect(b)
    PROVE  EngineInv'
<1>1. BatchTypes /\ BatchInv(b) /\ batch[b] \in BatchType /\ RequestInv
  BY DEF EngineInv, BatchTypes
<1>2. batch[b].pc = "flush" /\ Goto(b, "ended") /\ UNCHANGED queue
  BY DEF Collect
<1>3. /\ batch' \in [Batches -> BatchType]
      /\ batch'[b].pc = "ended" /\ batch'[b].pos = batch[b].pos
      /\ batch'[b].items = batch[b].items /\ batch'[b].closing = batch[b].closing
      /\ \A c \in Batches \ {b} : batch'[c] = batch[c]
  BY <1>1, <1>2, GotoFacts
<1>4. Inside(b)
  BY <1>1, <1>3 DEF Inside, Collect, BatchTypes
<1>5. RequestInv' /\ Quiet({}, {}) /\ \A c \in Batches \ {b} : BatchInv(c)'
  BY <1>4, InsideFacts
<1>6. /\ DOMAIN Of(b) = 1 .. Len(Of(b)) /\ Len(Of(b)) \in Nat /\ batch[b].pos \in Nat
      /\ Of(b) \in Seq(Requests) /\ batch[b].pos > Len(Of(b))
  BY <1>1, <1>2, OfFacts DEF BatchInv, PhaseInv, BatchType
<1>7. ASSUME NEW i \in DOMAIN Of(b)
      PROVE  i < batch[b].pos /\ delivered[Of(b)[i]] = 1 /\ Of(b)[i] \in Requests
  <2>1. PICK r : r = Of(b)[i]
    OBVIOUS
  <2>2. i < batch[b].pos /\ r \in Requests /\ r \in Range(Of(b))
    BY <1>6, <2>1 DEF Range
  <2>3. fut[r] # NoRequest \/ delivered[r] = 1
    BY <1>1, <2>1, <2>2 DEF BatchInv, PosInv
  <2>4. fut[r] # NoRequest => future[fut[r]] \in {"ok", "failed"}
    BY <2>2 DEF Collect
  <2>5. fut[r] # NoRequest => delivered[r] # 0
    BY <1>1, <2>2, <2>4 DEF RequestInv, WaitInv
  <2>6. delivered[r] \in 0 .. 1
    BY <1>1, <2>2 DEF RequestInv, RequestTypes
  <2> QED BY <2>1, <2>2, <2>3, <2>5, <2>6
<1>8. PosInv(b)'
  BY <1>3, <1>4, <1>6, <1>7 DEF PosInv, Inside
<1>9. PhaseInv(b)'
  BY <1>1, <1>2, <1>3 DEF BatchInv, PhaseInv
<1>10. HandInv(b)'
  <2>1. \A i \in DOMAIN Of(b) : Past(b, i) => Past(b, i)'
    BY <1>3, <1>6, <1>7 DEF Past
  <2>2. \A o \in Requests : InHand(b, o) => InHand(b, o)'
    BY <1>5, <2>1, HandStays
  <2>3. /\ \A a \in Accounts : Range(queue[b][a]) \subseteq Requests
        /\ Range(batch[b].items) \subseteq Requests
    BY <1>1 DEF BatchTypes, BatchType, Range
  <2> QED BY <1>1, <1>2, <1>3, <2>2, <2>3 DEF BatchInv, HandInv
<1>11. BatchTypes'
  BY <1>1, <1>2, <1>3 DEF BatchTypes
<1> QED BY <1>5, <1>8, <1>9, <1>10, <1>11 DEF EngineInv, BatchInv

-----------------------------------------------------------------------------
(* The engine keeps its invariant *)

\* A set of natural numbers that is not empty has a least element.
LEMMA Least ==
    ASSUME NEW T \in SUBSET Nat, T # {}
    PROVE  \E x \in T : \A y \in T : x <= y
<1> DEFINE intervals == {1 .. n : n \in T}
           R == StrictSubsetOrdering(Nat)
<1>1. intervals \subseteq FiniteSubsetsOf(Nat) /\ intervals # {}
  <2>1. \A n \in T : IsFiniteSet(1 .. n) /\ 1 .. n \in SUBSET Nat
    BY FS_Interval
  <2> QED BY <2>1 DEF FiniteSubsetsOf
<1>2. IsWellFoundedOn(R, FiniteSubsetsOf(Nat))
  BY FS_StrictSubsetOrderingWellFounded
<1> HIDE DEF intervals, R
<1>3. \E X \in intervals : \A Y \in intervals : ~(<<Y, X>> \in R)
  BY <1>1, <1>2, WFMin
<1>4. PICK m \in T : \A y \in T : ~(<<1 .. y, 1 .. m>> \in R)
  BY <1>3 DEF intervals
<1>5. ASSUME NEW y \in T, y < m
      PROVE  <<1 .. y, 1 .. m>> \in R
  <2>1. 1 .. y \in SUBSET Nat /\ 1 .. m \in SUBSET Nat /\ 1 .. y \subseteq 1 .. m
    BY <1>5
  <2>2. m \in 1 .. m /\ m \notin 1 .. y
    BY <1>5
  <2> QED BY <2>1, <2>2 DEF R, StrictSubsetOrdering
<1>6. \A y \in T : ~(y < m)
  BY <1>4, <1>5
<1> QED BY <1>6

\* The upload that _check_existing finds is one of the payload and kind, and
\* answers to the name.
LEMMA FoundFacts ==
    ASSUME RequestTypes, NEW r \in Requests, CheckExisting(r) # NoRequest
    PROVE  LET d == CheckExisting(r) IN
           /\ d \in Requests /\ req[d].payload = req[r].payload /\ req[d].kind = req[r].kind
           /\ Answers(d, req[r].name)
<1> DEFINE found == {d \in Requests : /\ req[d].payload = req[r].payload
                                      /\ req[d].kind = req[r].kind
                                      /\ Answers(d, req[r].name)}
<1>1. found # {} /\ CheckExisting(r) = CHOOSE d \in found : \A e \in found : d <= e
  BY DEF CheckExisting
<1>2. found \subseteq Nat
  BY DEF Requests
<1>3. \E d \in found : \A e \in found : d <= e
  <2> HIDE DEF found
  <2> QED BY <1>1, <1>2, Least
<1>4. CheckExisting(r) \in found
  <2> HIDE DEF found
  <2> QED BY <1>1, <1>3
<1> QED BY <1>4

\* A worker inspects a request; the threads of all batches stay where they are.
LEMMA InspectStep ==
    ASSUME EngineInv, NEW r \in Requests, Inspect(r)
    PROVE  EngineInv'
<1>1. RequestTypes /\ ClaimInv /\ (\A x \in Requests : InspInv(x) /\ WaitInv(x)) /\ BatchTypes
  BY DEF EngineInv, RequestInv
<1>2. UNCHANGED <<req, fut, future, claims, batch, queue, delivered, owners>>
  BY DEF Inspect
<1>3. PICK verdict \in {"new", "reuse", "failed"} :
        /\ insp' = [insp EXCEPT ![r] = verdict]
        /\ verdict = "reuse" => /\ CheckExisting(r) # NoRequest
                                /\ doc' = [doc EXCEPT ![r] = CheckExisting(r)]
        /\ verdict # "reuse" => doc' = doc
  BY DEF Inspect
<1>4. insp[r] = "waiting"
  BY DEF Inspect, MayInspect
<1>5. fut[r] = NoRequest /\ doc[r] = NoRequest
  BY <1>1, <1>4 DEF InspInv
<1>6. /\ \A x \in Requests : x # r => insp'[x] = insp[x] /\ doc'[x] = doc[x]
      /\ insp'[r] = verdict
      /\ verdict = "reuse" => doc'[r] \in Requests
      /\ verdict # "reuse" => doc'[r] = NoRequest
      /\ RequestTypes'
  <2>1. CASE verdict = "reuse"
    <3>1. PICK d : d = CheckExisting(r)
      OBVIOUS
    <3>2. d \in Requests /\ doc' = [doc EXCEPT ![r] = d]
      BY <1>1, <1>3, <2>1, <3>1, FoundFacts
    <3> QED BY <1>1, <1>2, <1>3, <2>1, <3>2 DEF RequestTypes
  <2>2. CASE verdict # "reuse"
    BY <1>1, <1>2, <1>3, <1>5, <2>2 DEF RequestTypes
  <2> QED BY <2>1, <2>2
<1>7. \A x \in Requests : InspInv(x)'
  <2>1. NoRequest \notin Requests
    BY DEF NoRequest, Requests
  <2>2. InspInv(r)'
    BY <1>2, <1>5, <1>6, <2>1 DEF InspInv
  <2>3. \A x \in Requests : x # r => InspInv(x)'
    BY <1>1, <1>2, <1>6 DEF InspInv
  <2> QED BY <2>2, <2>3
<1>8. \A x \in Requests : WaitInv(x)'
  <2> SUFFICES ASSUME NEW x \in Requests PROVE WaitInv(x)'
    OBVIOUS
  <2>1. fut[x] = x => x # r
    BY <1>5 DEF NoRequest, Requests
  <2> QED BY <1>1, <1>2, <1>6, <2>1 DEF WaitInv, ClaimKey
<1>9. ClaimInv'
  BY <1>1, <1>2 DEF ClaimInv, ClaimKey
<1>10. Quiet({}, {})
  BY <1>2 DEF Quiet
<1>11. BatchTypes' /\ \A b \in Batches : BatchInv(b)'
  BY <1>1, <1>2, <1>10, AllBatchesStay DEF BatchTypes
<1> QED BY <1>6, <1>7, <1>8, <1>9, <1>11 DEF EngineInv, RequestInv

\* The three ways a request is taken from the stream without an upload.
LEMMA StreamStep ==
    ASSUME EngineInv, NEW b \in Batches, InspectionFailed(b) \/ Reuse(b) \/ Alias(b)
    PROVE  EngineInv'
<1>1. RequestInv /\ BatchTypes /\ Streaming(b) /\ Proceed(b) /\ UNCHANGED queue
  BY DEF EngineInv, InspectionFailed, Reuse, Alias
<1>2. /\ Current(b) \in Requests /\ fut[Current(b)] = NoRequest /\ delivered[Current(b)] = 0
  BY <1>1, CurrentFacts DEF Streaming, Position
<1>3. PICK r : r = Current(b)
  OBVIOUS
<1>4. CASE InspectionFailed(b) \/ Reuse(b)
  <2>1. RequestInv' /\ Quiet({}, {r}) /\ delivered'[r] = 1
    <3>1. CASE InspectionFailed(b)
      <4>1. /\ insp[r] # "waiting" /\ Deliver({}, {r}, doc)
            /\ UNCHANGED <<req, insp, fut, future, doc, claims, owners>>
        BY <1>3, <3>1 DEF InspectionFailed
      <4>2. {r} = {r} \ {} /\ {} \in SUBSET {r}
        OBVIOUS
      <4>3. Deliver({}, {r} \ {}, doc)
        BY <4>1, <4>2
      <4> QED BY <1>1, <1>2, <1>3, <4>1, <4>2, <4>3, AnsweredRequests
    <3>2. CASE Reuse(b)
      <4>1. /\ insp[r] # "waiting" /\ Deliver({r}, {}, doc)
            /\ UNCHANGED <<req, insp, fut, future, doc, claims, owners>>
        BY <1>3, <3>2 DEF Reuse
      <4>2. {} = {r} \ {r} /\ {r} \in SUBSET {r}
        OBVIOUS
      <4>3. Deliver({r}, {r} \ {r}, doc)
        BY <4>1, <4>2
      <4> QED BY <1>1, <1>2, <1>3, <4>1, <4>2, <4>3, AnsweredRequests
    <3> QED BY <1>4, <3>1, <3>2
  <2>2. BatchTypes' /\ \A c \in Batches : BatchInv(c)'
    BY <1>1, <1>3, <2>1, TakenUp
  <2> QED BY <2>1, <2>2 DEF EngineInv
<1>5. CASE Alias(b)
  <2>1. PICK o : o = Claimed(r)
    OBVIOUS
  <2>2. /\ insp[r] = "new" /\ o = claims[ClaimKey(r)] /\ o # NoRequest
        /\ fut' = [fut EXCEPT ![r] = o]
        /\ doc' = [doc EXCEPT ![r] = IF future[o] = "ok" THEN doc[o] ELSE NoRequest]
        /\ Deliver(IF future[o] = "ok" THEN {r} ELSE {}, {}, doc')
        /\ UNCHANGED <<req, insp, future, claims, owners>>
    BY <1>3, <1>5, <2>1 DEF Alias, Claimed
  <2>3. RequestInv' /\ Quiet({}, {r})
    BY <1>1, <1>2, <1>3, <2>2, AliasRequests
  <2>4. fut'[r] # NoRequest
    BY <1>1, <1>2, <1>3, <2>2 DEF RequestInv, RequestTypes
  <2>5. BatchTypes' /\ \A c \in Batches : BatchInv(c)'
    BY <1>1, <1>3, <2>3, <2>4, TakenUp
  <2> QED BY <2>3, <2>5 DEF EngineInv
<1> QED BY <1>4, <1>5

\* The thread claims a key that is free, so its owner is the only one alive.
LEMMA ClaimStep ==
    ASSUME EngineInv, NEW b \in Batches, Claim(b)
    PROVE  EngineInv'
<1>1. RequestInv /\ BatchTypes /\ Streaming(b) /\ Goto(b, "upload") /\ UNCHANGED queue
  BY DEF EngineInv, Claim
<1>2. /\ Current(b) \in Requests /\ fut[Current(b)] = NoRequest /\ delivered[Current(b)] = 0
  BY <1>1, CurrentFacts DEF Streaming, Position
<1>3. PICK r : r = Current(b)
  OBVIOUS
<1>4. /\ insp[r] = "new" /\ claims[ClaimKey(r)] = NoRequest
      /\ claims' = [claims EXCEPT ![ClaimKey(r)] = r]
      /\ fut' = [fut EXCEPT ![r] = r] /\ future' = [future EXCEPT ![r] = "pending"]
      /\ owners' = owners \cup {r} /\ UNCHANGED <<req, insp, doc, delivered>>
  BY <1>3 DEF Claim, Claimed
<1>5. /\ RequestInv' /\ Quiet({}, {r})
      /\ fut'[r] = r /\ future'[r] = "pending"
  BY <1>1, <1>2, <1>3, <1>4, ClaimRequests
<1>6. BatchTypes' /\ \A c \in Batches : BatchInv(c)'
  BY <1>1, <1>3, <1>5, ClaimBatches
<1> QED BY <1>5, <1>6 DEF EngineInv

\* Registration and MOVEs leave the engine alone.
LEMMA OutsideStep ==
    ASSUME EngineInv,
           UNCHANGED <<req, insp, fut, future, doc, claims, batch, queue, delivered, owners>>
    PROVE  EngineInv'
<1>1. Quiet({}, {})
  BY DEF Quiet
<1>2. RequestInv'
  BY DEF EngineInv, RequestInv, RequestTypes, InspInv, WaitInv, ClaimInv, ClaimKey
<1>3. BatchTypes' /\ \A b \in Batches : BatchInv(b)'
  BY <1>1, AllBatchesStay DEF EngineInv, BatchTypes
<1> QED BY <1>2, <1>3 DEF EngineInv

\* The steps of a batch thread, one by one.
LEMMA TransferBatchStep ==
    ASSUME EngineInv, NEW b \in Batches, TransferBatch(b)
    PROVE  EngineInv'
<1>1. CASE InspectionFailed(b) \/ Reuse(b) \/ Alias(b)
  BY <1>1, StreamStep
<1>2. CASE Claim(b)
  BY <1>2, ClaimStep
<1>3. CASE UploadFresh(b) \/ PrepareFails(b)
  <2>1. /\ batch[b].pc = "upload" /\ Settles(Current(b)) /\ Proceed(b)
        /\ UNCHANGED <<req, insp, fut, owners, queue>>
    BY <1>3 DEF UploadFresh, PrepareFails, Settles
  <2> QED BY <2>1, UploadStep
<1>4. CASE \E a \in Accounts : PrepareAlbum(b, a)
  BY <1>4, PrepareAlbumStep
<1>5. CASE SendAlbum(b)
  BY <1>5, SendAlbumStep
<1>6. CASE SendAlbumFails(b)
  BY <1>6, SendAlbumFailsStep
<1>7. CASE Fallback(b)
  BY <1>7, FallbackStep
<1>8. CASE FallbackDone(b)
  BY <1>8, FallbackDoneStep
<1>9. CASE StreamEnds(b)
  BY <1>9, StreamEndsStep
<1>10. CASE Collect(b)
  BY <1>10, CollectStep
<1>11. CASE \E a \in Accounts : Flush(b, a)
  BY <1>11, FlushStep
<1> QED BY <1>1, <1>2, <1>3, <1>4, <1>5, <1>6, <1>7, <1>8, <1>9, <1>10, <1>11
        DEF TransferBatch, Upload

\* Nothing is inspected, claimed or answered at the start.
LEMMA EngineInit == Init => EngineInv
<1> SUFFICES ASSUME Init PROVE EngineInv
  OBVIOUS
<1>1. RequestInv
  BY DEF Init, RequestInv, RequestTypes, InspInv, WaitInv, ClaimInv, ClaimKey, NoRequest,
         Requests, Keys
<1>2. BatchTypes
  <2>1. <<>> \in Seq(Requests) /\ Len(<<>>) < AlbumBatch
    BY UploadBatchAssumption
  <2> QED BY <2>1 DEF Init, BatchTypes, BatchType
<1>3. ASSUME NEW b \in Batches PROVE BatchInv(b)
  <2>1. /\ batch[b].pc = "stream" /\ batch[b].pos = 1 /\ batch[b].items = <<>>
        /\ ~batch[b].closing /\ \A a \in Accounts : queue[b][a] = <<>>
    BY DEF Init
  <2>2. /\ DOMAIN Of(b) = 1 .. Len(Of(b)) /\ Len(Of(b)) \in Nat /\ Of(b) \in Seq(Requests)
    BY OfFacts
  <2>3. PhaseInv(b)
    BY <2>1 DEF PhaseInv
  <2>4. PosInv(b)
    BY <2>1, <2>2 DEF PosInv, Init
  <2>5. HandInv(b)
    BY <2>1, EmptyFacts DEF HandInv
  <2> QED BY <2>3, <2>4, <2>5 DEF BatchInv
<1> QED BY <1>1, <1>2, <1>3 DEF EngineInv

\* No action breaks the invariant of the engine.
LEMMA EngineStep == EngineInv /\ [Next]_vars => EngineInv'
<1> SUFFICES ASSUME EngineInv, [Next]_vars PROVE EngineInv'
  OBVIOUS
<1>1. CASE \E b \in Batches : TransferBatch(b)
  BY <1>1, TransferBatchStep
<1>2. CASE \E r \in Requests : Inspect(r)
  BY <1>2, InspectStep
<1>3. CASE \E r \in Requests : RegisterResult(r)
  <2>1. UNCHANGED <<req, insp, fut, future, doc, claims, batch, queue, delivered, owners>>
    BY <1>3 DEF RegisterResult, RegisterDone, RegisterRaises, RegisterPart, RegisterPartFails
  <2> QED BY <2>1, OutsideStep
<1>4. CASE \E n, m \in Names : Rename(n, m)
  <2>1. UNCHANGED <<req, insp, fut, future, doc, claims, batch, queue, delivered, owners>>
    BY <1>4 DEF Rename
  <2> QED BY <2>1, OutsideStep
<1>5. CASE UNCHANGED vars
  BY <1>5, OutsideStep DEF vars
<1> QED BY <1>1, <1>2, <1>3, <1>4, <1>5 DEF Next

\* It holds throughout.
LEMMA EngineHolds == Spec => []EngineInv
BY EngineInit, EngineStep, PTL DEF Spec

\* Of the uploads of one file, whatever batches they are in and whatever fails,
\* at most one has not failed: a claim is given to one request at a time, and is
\* given up only when its owner's future is settled with an exception
\* (_claim_key, _set_exception).
THEOREM OneUploadPerClaim == Spec => []OneUpload
<1>1. EngineInv => OneUpload
  <2> SUFFICES ASSUME EngineInv, NEW r \in owners, NEW s \in owners,
                      r # s, ClaimKey(r) = ClaimKey(s),
                      future[r] # "failed", future[s] # "failed"
               PROVE  FALSE
    BY DEF OneUpload
  <2>1. /\ RequestTypes /\ ClaimInv /\ \A x \in Requests : WaitInv(x)
    BY DEF EngineInv, RequestInv
  <2>2. r \in Requests /\ s \in Requests
    BY <2>1 DEF RequestTypes
  <2>3. fut[r] = r /\ fut[s] = s
    BY <2>1, <2>2 DEF WaitInv
  <2> QED BY <2>1, <2>2, <2>3 DEF ClaimInv
<1> QED BY <1>1, EngineHolds, PTL

\* A batch whose thread has ended has answered each of its requests exactly
\* once: no alias waits for a future that nobody will settle, and no item is
\* left in an album's queue (transfer_batch).
THEOREM BatchesAreComplete == Spec => []BatchIsComplete
<1>1. EngineInv => BatchIsComplete
  <2> SUFFICES ASSUME EngineInv, NEW b \in Batches, batch[b].pc = "ended",
                      NEW r \in Range(Of(b))
               PROVE  delivered[r] = 1
    BY DEF BatchIsComplete
  <2>1. PICK i \in DOMAIN Of(b) : r = Of(b)[i]
    BY DEF Range
  <2> QED BY <2>1 DEF EngineInv, BatchInv, PosInv
<1> QED BY <1>1, EngineHolds, PTL

-----------------------------------------------------------------------------
(* The rows that answer to a name *)

\* Every upload to the name is over.
NameSettled(n) == \A r \in Requests : req[r].name = n => Settled(r)

\* The request has its documents and is not settled.
InFlight(r) == doc[r] # NoRequest /\ ~Settled(r)

\* A row that nobody has, or that has this name.
Free(n) == {NoName, n}

\* One payload is always of one kind.
KindInv ==
    \A r, s \in Requests : req[r].payload = req[s].payload => req[r].kind = req[s].kind

\* A request's documents hold its payload, and the rows that it has registered
\* still have its name; those of a big file are all of its own group.
RegInv(r) ==
    /\ reg[r] = "none" <=> delivered[r] = 0
    /\ reg[r] \in {"parts", "partly"} => doc[r] # NoRequest /\ todo[r] \subseteq Parts(doc[r])
    /\ doc[r] # NoRequest => /\ req[doc[r]].payload = req[r].payload
                             /\ req[doc[r]].kind = req[r].kind
    /\ reg[r] = "parts" => \A p \in Parts(doc[r]) \ todo[r] :
          /\ rows[<<doc[r], p>>].name = req[r].name
          /\ rows[<<doc[r], p>>].group \in Requests
          /\ req[r].kind = "big" => rows[<<doc[r], p>>].group = r

\* The rows of the documents a request is about to register have no other name,
\* and nobody registers them under another.
FlightInv(r) ==
    InFlight(r) =>
      /\ \A p \in Parts(doc[r]) : rows[<<doc[r], p>>].name \in Free(req[r].name)
      /\ req[r].name # req[doc[r]].name => NameSettled(req[doc[r]].name)
      /\ \A s \in Requests : InFlight(s) /\ doc[s] = doc[r] => req[s].name = req[r].name

\* Rows have another name than their request asked for only when all uploads
\* to that name are over: a MOVE waits for them.
RowInv(d) ==
    \A p \in Parts(d) : rows[<<d, p>>].name \in Free(req[d].name) \/ NameSettled(req[d].name)

\* Uploads of the same big file come one after the other.
TurnInv(r) ==
    \A s \in Requests : s < r /\ SameBig(r, s) => insp[r] = "waiting" \/ Settled(s)

FileInv ==
    /\ EngineInv /\ BackendTypes /\ KindInv
    /\ \A r \in Requests : RegInv(r) /\ FlightInv(r) /\ RowInv(r) /\ TurnInv(r)
    /\ NoFileVanishes

\* The documents d may be given to request r.
Meant(d, r) ==
    /\ d \in Requests /\ req[d].payload = req[r].payload
    /\ req[d].name = req[r].name \/ Answers(d, req[r].name)

\* How far the engine's steps change what registration sees of a request.
DocStep(r) ==
    \/ doc'[r] = doc[r]
    \/ doc[r] = NoRequest /\ reg[r] = "none" /\ Meant(doc'[r], r)
RegStep(r) ==
    \/ reg'[r] = reg[r] /\ todo'[r] = todo[r]
    \/ /\ reg[r] = "none"
       /\ \/ reg'[r] = "lost"
          \/ reg'[r] = "parts" /\ doc'[r] # NoRequest /\ todo'[r] = Parts(doc'[r])
Progress ==
    /\ UNCHANGED <<req, rows, drive>>
    /\ \A r \in Requests :
         /\ DocStep(r) /\ RegStep(r)
         /\ insp'[r] = insp[r] \/ \A s \in Requests : s < r /\ SameBig(r, s) => Settled(s)

\* What is settled stays settled.
LEMMA SettledStays ==
    ASSUME Progress
    PROVE  /\ \A r \in Requests : Settled(r) => Settled(r)'
           /\ \A n : NameSettled(n) => NameSettled(n)'
<1>1. \A r \in Requests : Settled(r) => Settled(r)'
  BY DEF Progress, RegStep, Settled
<1> QED BY <1>1 DEF NameSettled, Progress

\* Two requests that are given the same documents have the same name.
LEMMA MeantNames ==
    ASSUME FileInv, NEW d \in Requests, NEW r \in Requests, NEW s \in Requests,
           ~Settled(r), Meant(d, r), ~Settled(s), Meant(d, s) \/ (InFlight(s) /\ doc[s] = d)
    PROVE  req[s].name = req[r].name
<1>1. 1 \in Parts(d) /\ <<d, 1>> \in Docs
  BY UploadBatchAssumption DEF Parts, Docs
<1>2. RowInv(d) /\ FlightInv(s) /\ RequestTypes
  BY DEF FileInv, EngineInv, RequestInv
<1>3. req[r].name # NoName /\ req[s].name # NoName
  BY <1>2, UploadBatchAssumption DEF RequestTypes
<1>4. \A x \in Requests : Answers(d, req[x].name) => rows[<<d, 1>>].name = req[x].name
  BY <1>1 DEF Answers
<1>5. rows[<<d, 1>>].name \in Free(req[d].name) \/ NameSettled(req[d].name)
  BY <1>1, <1>2 DEF RowInv
<1>6. InFlight(s) /\ doc[s] = d => /\ rows[<<d, 1>>].name \in Free(req[s].name)
                                   /\ req[s].name # req[d].name => NameSettled(req[d].name)
  BY <1>1, <1>2 DEF FlightInv
<1> QED BY <1>3, <1>4, <1>5, <1>6 DEF Meant, Free, NameSettled

\* A step that leaves the backend and the registrations under way alone, and only
\* gives documents their first users, keeps the invariant of the files.
LEMMA ProgressStep ==
    ASSUME FileInv, Progress, EngineInv', BackendTypes',
           \A r \in Requests : reg'[r] = "none" <=> delivered'[r] = 0
    PROVE  FileInv'
<1>1. /\ KindInv /\ NoFileVanishes /\ RequestTypes
      /\ \A r \in Requests : RegInv(r) /\ FlightInv(r) /\ RowInv(r) /\ TurnInv(r)
  BY DEF FileInv, EngineInv, RequestInv
<1>2. UNCHANGED <<req, rows, drive>> /\ \A r \in Requests : DocStep(r) /\ RegStep(r)
  BY DEF Progress
<1>3. /\ \A r \in Requests : Settled(r) => Settled(r)'
      /\ \A n : NameSettled(n) => NameSettled(n)'
  BY SettledStays
<1>4. NoRequest \notin Requests
  BY DEF NoRequest, Requests
<1>5. KindInv'
  BY <1>1, <1>2 DEF KindInv
<1>6. \A x : Parts(x)' = Parts(x)
  BY <1>2 DEF Parts
<1>7. ASSUME NEW r \in Requests PROVE RegInv(r)'
  <2>1. RegInv(r) /\ DocStep(r) /\ RegStep(r)
    BY <1>1, <1>2
  <2>2. doc'[r] # doc[r] => /\ doc[r] = NoRequest /\ reg[r] = "none" /\ doc'[r] \in Requests
                            /\ req[doc'[r]].payload = req[r].payload
                            /\ req[doc'[r]].kind = req[r].kind
    BY <1>1, <2>1 DEF DocStep, Meant, KindInv
  <2>3. doc'[r] # NoRequest => /\ req'[doc'[r]].payload = req'[r].payload
                               /\ req'[doc'[r]].kind = req'[r].kind
    BY <1>2, <2>1, <2>2 DEF RegInv
  <2>4. reg'[r] \in {"parts", "partly"} => doc'[r] # NoRequest /\ todo'[r] \subseteq Parts(doc'[r])
    BY <2>1, <2>2 DEF RegInv, RegStep
  <2>5. reg'[r] = "parts" => \A p \in Parts(doc'[r]) \ todo'[r] :
          /\ rows[<<doc'[r], p>>].name = req[r].name
          /\ rows[<<doc'[r], p>>].group \in Requests
          /\ req[r].kind = "big" => rows[<<doc'[r], p>>].group = r
    BY <2>1, <2>2 DEF RegInv, RegStep
  <2> QED BY <1>2, <1>6, <2>3, <2>4, <2>5 DEF RegInv
<1>8. ASSUME NEW r \in Requests PROVE RowInv(r)'
  BY <1>1, <1>2, <1>3, <1>6 DEF RowInv, Free
<1>9. ASSUME NEW r \in Requests PROVE TurnInv(r)'
  BY <1>1, <1>2, <1>3 DEF TurnInv, Progress, SameBig
<1>10. ASSUME NEW r \in Requests, InFlight(r)'
       PROVE  /\ ~Settled(r) /\ doc'[r] \in Requests
              /\ Meant(doc'[r], r) \/ (InFlight(r) /\ doc[r] = doc'[r])
  <2>1. ~Settled(r)
    BY <1>3, <1>10 DEF InFlight
  <2>2. doc'[r] \in Requests
    <3>1. RequestTypes'
      BY DEF EngineInv, RequestInv
    <3> QED BY <1>10, <3>1 DEF InFlight, RequestTypes
  <2> QED BY <1>2, <1>10, <2>1, <2>2 DEF InFlight, DocStep
<1>11. ASSUME NEW r \in Requests, InFlight(r)'
       PROVE  /\ \A p \in Parts(doc'[r]) : rows[<<doc'[r], p>>].name \in Free(req[r].name)
              /\ req[r].name # req[doc'[r]].name => NameSettled(req[doc'[r]].name)
  <2>1. PICK d : d = doc'[r]
    OBVIOUS
  <2>2. d \in Requests /\ ~Settled(r) /\ (Meant(d, r) \/ (InFlight(r) /\ doc[r] = d))
    BY <1>10, <1>11, <2>1
  <2>3. CASE InFlight(r) /\ doc[r] = d
    BY <1>1, <2>1, <2>3 DEF FlightInv
  <2>4. CASE Meant(d, r) /\ req[d].name = req[r].name
    BY <1>1, <2>1, <2>2, <2>4 DEF RowInv, NameSettled
  <2>5. CASE Meant(d, r) /\ Answers(d, req[r].name)
    <3>1. \A p \in Parts(d) : rows[<<d, p>>].name = req[r].name
      BY <2>5 DEF Answers
    <3>2. req[r].name # NoName
      BY <1>1, UploadBatchAssumption DEF RequestTypes
    <3>3. 1 \in Parts(d)
      BY UploadBatchAssumption DEF Parts
    <3>4. rows[<<d, 1>>].name \in Free(req[d].name) \/ NameSettled(req[d].name)
      BY <1>1, <2>2, <3>3 DEF RowInv
    <3> QED BY <2>1, <3>1, <3>2, <3>3, <3>4 DEF Free
  <2> QED BY <2>2, <2>3, <2>4, <2>5 DEF Meant
<1>12. ASSUME NEW r \in Requests, NEW s \in Requests, InFlight(r)', InFlight(s)',
              doc'[s] = doc'[r]
       PROVE  req[s].name = req[r].name
  <2>1. PICK d : d = doc'[r]
    OBVIOUS
  <2>2. /\ d \in Requests /\ ~Settled(r) /\ (Meant(d, r) \/ (InFlight(r) /\ doc[r] = d))
        /\ ~Settled(s) /\ (Meant(d, s) \/ (InFlight(s) /\ doc[s] = d))
    BY <1>10, <1>12, <2>1
  <2>3. CASE Meant(d, r)
    BY <2>2, <2>3, MeantNames
  <2>4. CASE Meant(d, s)
    BY <2>2, <2>4, MeantNames
  <2>5. CASE InFlight(r) /\ doc[r] = d /\ InFlight(s) /\ doc[s] = d
    BY <1>1, <2>5 DEF FlightInv
  <2> QED BY <2>2, <2>3, <2>4, <2>5
<1>13. ASSUME NEW r \in Requests PROVE FlightInv(r)'
  BY <1>2, <1>3, <1>6, <1>11, <1>12 DEF FlightInv, Free
<1>14. NoFileVanishes'
  <2>1. \A n, v : Held(n, v) => Held(n, v)'
    BY <1>2 DEF Held, RegStep
  <2>2. \A d, n : Answers(d, n)' <=> Answers(d, n)
    BY <1>2, <1>6 DEF Answers
  <2> QED BY <1>1, <1>2, <2>1, <2>2 DEF NoFileVanishes
<1> QED BY <1>5, <1>7, <1>8, <1>9, <1>13, <1>14 DEF FileInv

\* Registration learns of the answers that are delivered.
LEMMA DeliverRegs ==
    ASSUME FileInv, NEW done \in SUBSET Requests, NEW lost \in SUBSET Requests, NEW docs,
           Deliver(done, lost, docs), UNCHANGED <<req, rows, drive>>,
           \A r \in done \cup lost : delivered[r] = 0,
           \A r \in done : docs[r] = doc'[r] /\ doc'[r] # NoRequest
    PROVE  /\ BackendTypes' /\ \A r \in Requests : RegStep(r)
           /\ \A r \in Requests : reg'[r] = "none" <=> delivered'[r] = 0
<1>1. BackendTypes /\ RequestTypes /\ \A r \in Requests : reg[r] = "none" <=> delivered[r] = 0
  BY DEF FileInv, EngineInv, RequestInv, RegInv
<1>2. \A x : Parts(x) \in SUBSET (1 .. BigParts)
  BY UploadBatchAssumption DEF Parts
<1>3. /\ reg' = [r \in Requests |-> IF r \in done THEN "parts"
                                    ELSE IF r \in lost THEN "lost" ELSE reg[r]]
      /\ todo' = [r \in Requests |-> IF r \in done THEN Parts(docs[r]) ELSE todo[r]]
  BY DEF Deliver
<1>4. BackendTypes'
  BY <1>1, <1>2, <1>3 DEF BackendTypes
<1>5. \A r \in Requests : RegStep(r)
  <2> SUFFICES ASSUME NEW r \in Requests PROVE RegStep(r)
    OBVIOUS
  <2>1. CASE r \in done
    <3>1. reg[r] = "none" /\ reg'[r] = "parts" /\ todo'[r] = Parts(docs[r])
      BY <1>1, <1>3, <2>1
    <3> QED BY <2>1, <3>1 DEF RegStep
  <2>2. CASE r \notin done
    BY <1>1, <1>3, <2>2 DEF RegStep
  <2> QED BY <2>1, <2>2
<1>6. \A r \in Requests : delivered'[r] = IF r \in done \cup lost THEN 1 ELSE delivered[r]
  BY <1>1, DeliverTypes
<1>7. \A r \in Requests : reg'[r] = "none" <=> delivered'[r] = 0
  BY <1>1, <1>3, <1>6
<1> QED BY <1>4, <1>5, <1>7

\* The same when nothing is delivered.
LEMMA NoRegs ==
    ASSUME FileInv, UNCHANGED <<rows, drive, reg, todo, delivered>>
    PROVE  /\ BackendTypes' /\ \A r \in Requests : RegStep(r)
           /\ \A r \in Requests : reg'[r] = "none" <=> delivered'[r] = 0
<1>1. BackendTypes /\ \A r \in Requests : reg[r] = "none" <=> delivered[r] = 0
  BY DEF FileInv, RegInv
<1> QED BY <1>1 DEF BackendTypes, RegStep

\* Those who wait on a future are given the documents of its owner.
LEMMA WaitersMeant ==
    ASSUME FileInv, NEW r \in Requests, NEW o \in Requests, ClaimKey(o) = ClaimKey(r)
    PROVE  Meant(o, r)
BY DEF Meant, ClaimKey

\* Inspection.
LEMMA InspectFiles ==
    ASSUME FileInv, NEW r \in Requests, Inspect(r)
    PROVE  FileInv'
<1>1. EngineInv /\ RequestTypes /\ (\A x \in Requests : RegInv(x)) /\ InspInv(r)
  BY DEF FileInv, EngineInv, RequestInv
<1>2. /\ UNCHANGED <<req, rows, drive, reg, todo, delivered>>
      /\ insp[r] = "waiting" /\ \A s \in 1 .. r - 1 : SameBig(r, s) => reg[s] \in {"ok", "lost"}
  BY DEF Inspect, MayInspect, backend
<1>3. EngineInv'
  BY <1>1, InspectStep
<1>4. PICK verdict : /\ insp' = [insp EXCEPT ![r] = verdict]
                     /\ \/ doc' = doc
                        \/ /\ CheckExisting(r) # NoRequest
                           /\ doc' = [doc EXCEPT ![r] = CheckExisting(r)]
  BY DEF Inspect
<1>5. /\ BackendTypes' /\ \A x \in Requests : RegStep(x)
      /\ \A x \in Requests : reg'[x] = "none" <=> delivered'[x] = 0
  BY <1>2, NoRegs
<1>6. \A x \in Requests : DocStep(x)
  <2>1. doc[r] = NoRequest /\ reg[r] = "none"
    BY <1>1, <1>2 DEF InspInv, RegInv
  <2>2. CASE doc' = doc
    BY <2>2 DEF DocStep
  <2>3. CASE CheckExisting(r) # NoRequest /\ doc' = [doc EXCEPT ![r] = CheckExisting(r)]
    <3>1. PICK d : d = CheckExisting(r)
      OBVIOUS
    <3>2. Meant(d, r)
      BY <1>1, <2>3, <3>1, FoundFacts DEF Meant
    <3>3. \A x \in Requests : doc'[x] = IF x = r THEN d ELSE doc[x]
      BY <1>1, <2>3, <3>1 DEF RequestTypes
    <3> QED BY <2>1, <3>2, <3>3 DEF DocStep
  <2> QED BY <1>4, <2>2, <2>3
<1>7. \A x \in Requests :
        insp'[x] = insp[x] \/ \A s \in Requests : s < x /\ SameBig(x, s) => Settled(s)
  <2>1. \A s \in Requests : s < r /\ SameBig(r, s) => Settled(s)
    BY <1>2 DEF Settled, Requests
  <2> QED BY <1>1, <1>4, <2>1 DEF RequestTypes
<1>8. Progress
  BY <1>2, <1>5, <1>6, <1>7 DEF Progress
<1> QED BY <1>3, <1>5, <1>8, ProgressStep

\* A future is settled.
LEMMA SettlesFiles ==
    ASSUME FileInv, NEW o \in Requests, Open({o}), Settles(o), EngineInv',
           UNCHANGED <<req, insp, fut, rows, drive>>
    PROVE  FileInv'
<1>1. RequestTypes /\ \A r \in Requests : WaitInv(r) /\ InspInv(r) /\ RegInv(r)
  BY DEF FileInv, EngineInv, RequestInv
<1>2. NoRequest \notin Requests /\ o # NoRequest
  BY DEF NoRequest, Requests
<1>3. Waiting(o) \in SUBSET Requests /\ {} \in SUBSET Requests
      /\ \A r \in Waiting(o) : delivered[r] = 0 /\ fut[r] = o
  BY DEF Waiting
<1>4. future[o] = "pending"
  BY DEF Open
<1>5. \A r \in Waiting(o) : /\ doc[r] = NoRequest /\ reg[r] = "none"
                            /\ ClaimKey(o) = ClaimKey(r)
  <2> SUFFICES ASSUME NEW r \in Waiting(o)
               PROVE  doc[r] = NoRequest /\ reg[r] = "none" /\ ClaimKey(o) = ClaimKey(r)
    OBVIOUS
  <2>1. r \in Requests /\ fut[r] = o /\ delivered[r] = 0
    BY <1>3
  <2>2. WaitInv(r) /\ InspInv(r) /\ RegInv(r)
    BY <1>1, <2>1
  <2> QED BY <1>2, <1>4, <2>1, <2>2 DEF WaitInv, InspInv, RegInv
<1>6. CASE SetResult(o)
  <2>1. /\ doc' = [r \in Requests |-> IF r \in Waiting(o) THEN o ELSE doc[r]]
        /\ Deliver(Waiting(o), {}, doc')
    BY <1>6 DEF SetResult
  <2>2. \A r \in Waiting(o) : doc'[r] = o
    BY <1>3, <2>1
  <2>3. \A r \in Waiting(o) \cup {} : delivered[r] = 0
    BY <1>3
  <2>4. /\ BackendTypes' /\ \A r \in Requests : RegStep(r)
        /\ \A r \in Requests : reg'[r] = "none" <=> delivered'[r] = 0
    BY <1>2, <1>3, <2>1, <2>2, <2>3, DeliverRegs
  <2>5. \A r \in Requests : DocStep(r)
    BY <1>3, <1>5, <2>1, WaitersMeant DEF DocStep
  <2>6. Progress
    BY <2>4, <2>5 DEF Progress
  <2> QED BY <2>4, <2>6, ProgressStep
<1>7. CASE SetException(o)
  <2>1. UNCHANGED doc /\ Deliver({}, Waiting(o), doc)
    BY <1>7 DEF SetException
  <2>2. \A r \in {} \cup Waiting(o) : delivered[r] = 0
    BY <1>3
  <2>3. /\ BackendTypes' /\ \A r \in Requests : RegStep(r)
        /\ \A r \in Requests : reg'[r] = "none" <=> delivered'[r] = 0
    BY <1>3, <2>1, <2>2, DeliverRegs
  <2>4. Progress
    BY <2>1, <2>3 DEF Progress, DocStep
  <2> QED BY <2>3, <2>4, ProgressStep
<1> QED BY <1>6, <1>7 DEF Settles

\* A step of the thread that gives no answer.
LEMMA SilentFiles ==
    ASSUME FileInv, EngineInv', UNCHANGED <<req, insp, doc, rows, drive, reg, todo, delivered>>
    PROVE  FileInv'
<1>1. /\ BackendTypes' /\ \A r \in Requests : RegStep(r)
      /\ \A r \in Requests : reg'[r] = "none" <=> delivered'[r] = 0
  BY NoRegs
<1>2. Progress
  BY <1>1 DEF Progress, DocStep
<1> QED BY <1>1, <1>2, ProgressStep

\* The thread answers one request: its inspection failed, its bytes are on
\* Telegram already, or it waits for an owner that has settled.
LEMMA StreamFiles ==
    ASSUME FileInv, NEW b \in Batches, InspectionFailed(b) \/ Reuse(b) \/ Alias(b), EngineInv'
    PROVE  FileInv'
<1>1. EngineInv /\ RequestTypes /\ Streaming(b) /\ UNCHANGED <<req, insp, rows, drive>>
  BY DEF FileInv, EngineInv, RequestInv, InspectionFailed, Reuse, Alias
<1>2. PICK r : r = Current(b)
  OBVIOUS
<1>3. /\ r \in Requests /\ fut[r] = NoRequest /\ delivered[r] = 0
      /\ {r} \in SUBSET Requests /\ {} \in SUBSET Requests
      /\ \A x \in {r} \cup {} : delivered[x] = 0
      /\ \A x \in {} \cup {r} : delivered[x] = 0
  BY <1>1, <1>2, CurrentFacts DEF Streaming, Position
<1>4. InspInv(r) /\ RegInv(r) /\ ClaimInv
  BY <1>3 DEF FileInv, EngineInv, RequestInv
<1>5. CASE InspectionFailed(b)
  <2>1. Deliver({}, {r}, doc) /\ UNCHANGED doc
    BY <1>2, <1>5 DEF InspectionFailed
  <2>2. /\ BackendTypes' /\ \A x \in Requests : RegStep(x)
        /\ \A x \in Requests : reg'[x] = "none" <=> delivered'[x] = 0
    BY <1>1, <1>3, <2>1, DeliverRegs
  <2>3. Progress
    BY <1>1, <2>1, <2>2 DEF Progress, DocStep
  <2> QED BY <2>2, <2>3, ProgressStep
<1>6. CASE Reuse(b)
  <2>1. Deliver({r}, {}, doc) /\ UNCHANGED doc /\ doc[r] # NoRequest
    BY <1>2, <1>4, <1>6 DEF Reuse, InspInv
  <2>2. \A x \in {r} : doc[x] = doc'[x] /\ doc'[x] # NoRequest
    BY <2>1
  <2>3. /\ BackendTypes' /\ \A x \in Requests : RegStep(x)
        /\ \A x \in Requests : reg'[x] = "none" <=> delivered'[x] = 0
    BY <1>1, <1>3, <2>1, <2>2, DeliverRegs
  <2>4. Progress
    BY <1>1, <2>1, <2>3 DEF Progress, DocStep
  <2> QED BY <2>3, <2>4, ProgressStep
<1>7. CASE Alias(b)
  <2>1. PICK o : o = Claimed(r)
    OBVIOUS
  <2>2. /\ insp[r] = "new" /\ o = claims[ClaimKey(r)] /\ o # NoRequest
        /\ doc' = [doc EXCEPT ![r] = IF future[o] = "ok" THEN doc[o] ELSE NoRequest]
        /\ Deliver(IF future[o] = "ok" THEN {r} ELSE {}, {}, doc')
    BY <1>2, <1>7, <2>1 DEF Alias, Claimed
  <2>3. o \in Requests /\ ClaimKey(o) = ClaimKey(r) /\ fut[o] = o
    BY <1>1, <1>3, <1>4, <2>2, KeyFacts DEF ClaimInv, RequestTypes
  <2>4. future[o] = "ok" => doc[o] = o
    <3>1. WaitInv(o)
      BY <2>3 DEF FileInv, EngineInv, RequestInv
    <3> QED BY <2>3, <3>1 DEF WaitInv
  <2>5. doc[r] = NoRequest /\ reg[r] = "none"
    BY <1>3, <1>4, <2>2 DEF InspInv, RegInv
  <2>6. CASE future[o] = "ok"
    <3>1. doc' = [doc EXCEPT ![r] = o] /\ Deliver({r}, {}, doc')
      BY <2>2, <2>4, <2>6
    <3>2. \A x \in Requests : doc'[x] = IF x = r THEN o ELSE doc[x]
      BY <1>1, <3>1 DEF RequestTypes
    <3>3. \A x \in {r} : doc'[x] = doc'[x] /\ doc'[x] # NoRequest
      BY <1>3, <2>2, <3>2
    <3>4. /\ BackendTypes' /\ \A x \in Requests : RegStep(x)
          /\ \A x \in Requests : reg'[x] = "none" <=> delivered'[x] = 0
      BY <1>1, <1>3, <3>1, <3>3, DeliverRegs
    <3>5. \A x \in Requests : DocStep(x)
      BY <1>3, <2>3, <2>5, <3>2, WaitersMeant DEF DocStep
    <3>6. Progress
      BY <1>1, <3>4, <3>5 DEF Progress
    <3> QED BY <3>4, <3>6, ProgressStep
  <2>7. CASE future[o] # "ok"
    <3>1. doc' = [doc EXCEPT ![r] = NoRequest] /\ Deliver({}, {}, doc')
      BY <2>2, <2>7
    <3>2. doc' = doc
      BY <1>1, <2>5, <3>1 DEF RequestTypes
    <3>3. \A x \in {} \cup {} : delivered[x] = 0
      OBVIOUS
    <3>4. /\ BackendTypes' /\ \A x \in Requests : RegStep(x)
          /\ \A x \in Requests : reg'[x] = "none" <=> delivered'[x] = 0
      BY <1>1, <1>3, <3>1, <3>3, DeliverRegs
    <3>5. Progress
      BY <1>1, <3>2, <3>4 DEF Progress, DocStep
    <3> QED BY <3>4, <3>5, ProgressStep
  <2> QED BY <2>6, <2>7
<1> QED BY <1>5, <1>6, <1>7

\* The owners of an album have their documents, which nobody has registered.
LEMMA SendAlbumFiles ==
    ASSUME FileInv, NEW b \in Batches, SendAlbum(b), EngineInv'
    PROVE  FileInv'
<1>1. EngineInv /\ RequestTypes /\ \A r \in Requests : WaitInv(r) /\ InspInv(r) /\ RegInv(r)
  BY DEF FileInv, EngineInv, RequestInv
<1>2. PICK S : S = Range(batch[b].items)
  OBVIOUS
<1>3. S \subseteq Requests /\ Open(S)
  BY <1>1, <1>2, SendAlbumEnds
<1>4. PICK done : done = {r \in Requests : fut[r] \in S /\ delivered[r] = 0}
  OBVIOUS
<1>5. /\ doc' = [r \in Requests |-> IF fut[r] \in S /\ delivered[r] = 0 THEN fut[r] ELSE doc[r]]
      /\ Deliver(done, {}, doc') /\ UNCHANGED <<req, insp, fut, rows, drive>>
  BY <1>2, <1>4 DEF SendAlbum
<1>6. NoRequest \notin Requests
  BY DEF NoRequest, Requests
<1>7. \A r \in Requests : doc'[r] = IF r \in done THEN fut[r] ELSE doc[r]
  BY <1>4, <1>5
<1>8. ASSUME NEW r \in done
      PROVE  /\ r \in Requests /\ fut[r] \in Requests /\ delivered[r] = 0
             /\ doc[r] = NoRequest /\ reg[r] = "none" /\ Meant(fut[r], r)
  <2>1. r \in Requests /\ fut[r] \in Requests /\ fut[r] \in S /\ delivered[r] = 0
    BY <1>3, <1>4
  <2>2. WaitInv(r) /\ InspInv(r) /\ RegInv(r)
    BY <1>1, <2>1
  <2>3. future[fut[r]] = "pending"
    BY <1>3, <2>1 DEF Open
  <2>4. ClaimKey(fut[r]) = ClaimKey(r)
    BY <1>6, <2>1, <2>2 DEF WaitInv
  <2>5. doc[r] = NoRequest /\ reg[r] = "none"
    BY <1>6, <2>1, <2>2, <2>3 DEF InspInv, RegInv
  <2> QED BY <2>1, <2>4, <2>5, WaitersMeant
<1>9. /\ done \in SUBSET Requests /\ {} \in SUBSET Requests
      /\ \A r \in done \cup {} : delivered[r] = 0
      /\ \A r \in done : doc'[r] = doc'[r] /\ doc'[r] # NoRequest
  BY <1>6, <1>7, <1>8
<1>10. /\ BackendTypes' /\ \A r \in Requests : RegStep(r)
       /\ \A r \in Requests : reg'[r] = "none" <=> delivered'[r] = 0
  BY <1>5, <1>9, DeliverRegs
<1>11. \A r \in Requests : DocStep(r)
  BY <1>7, <1>8 DEF DocStep
<1>12. Progress
  BY <1>5, <1>10, <1>11 DEF Progress
<1> QED BY <1>10, <1>12, ProgressStep

\* The steps of a batch thread, one by one.
LEMMA TransferBatchFiles ==
    ASSUME FileInv, NEW b \in Batches, TransferBatch(b)
    PROVE  FileInv'
<1>1. EngineInv /\ EngineInv'
  BY TransferBatchStep DEF FileInv
<1>2. CASE InspectionFailed(b) \/ Reuse(b) \/ Alias(b)
  BY <1>1, <1>2, StreamFiles
<1>3. CASE SendAlbum(b)
  BY <1>1, <1>3, SendAlbumFiles
<1>4. CASE UploadFresh(b) \/ PrepareFails(b)
  <2>1. PICK o : o = Current(b)
    OBVIOUS
  <2>2. /\ batch[b].pc = "upload" /\ Settles(o)
        /\ UNCHANGED <<req, insp, fut, rows, drive>>
    BY <1>4, <2>1 DEF UploadFresh, PrepareFails, Settles
  <2>3. batch[b].pos <= Len(Of(b))
    BY <1>1, <2>2 DEF EngineInv, BatchInv, PhaseInv
  <2>4. o \in Requests /\ Open({o})
    BY <1>1, <2>1, <2>2, <2>3, CurrentFacts DEF Open
  <2> QED BY <1>1, <2>2, <2>4, SettlesFiles
<1>5. CASE Fallback(b)
  <2>1. PICK o : o = Head(batch[b].items)
    OBVIOUS
  <2>2. /\ batch[b].items # <<>> /\ Settles(o) /\ UNCHANGED <<req, insp, fut, rows, drive>>
    BY <1>5, <2>1 DEF Fallback
  <2>3. batch[b].items \in Seq(Requests)
    BY <1>1 DEF EngineInv, BatchTypes, BatchType
  <2>4. o \in Requests /\ o \in Range(batch[b].items)
    BY <2>1, <2>2, <2>3, TailFacts
  <2>5. Open({o})
    BY <1>1, <2>4 DEF EngineInv, BatchInv, HandInv, InHand, Open
  <2> QED BY <1>1, <2>2, <2>4, <2>5, SettlesFiles
<1>6. CASE UNCHANGED <<req, insp, doc, rows, drive, reg, todo, delivered>>
  BY <1>1, <1>6, SilentFiles
<1>7. CASE Claim(b) \/ SendAlbumFails(b) \/ FallbackDone(b) \/ StreamEnds(b) \/ Collect(b)
  BY <1>6, <1>7 DEF Claim, SendAlbumFails, FallbackDone, StreamEnds, Collect, backend
<1>8. CASE \E a \in Accounts : PrepareAlbum(b, a) \/ Flush(b, a)
  BY <1>6, <1>8 DEF PrepareAlbum, Flush, backend
<1> QED BY <1>2, <1>3, <1>4, <1>5, <1>7, <1>8 DEF TransferBatch, Upload

-----------------------------------------------------------------------------
(* Registration and MOVEs *)

\* One row is written, under the name that the request asks for.
LEMMA RegisterPartFiles ==
    ASSUME FileInv, NEW r \in Requests, NEW p \in todo[r], RegisterPart(r, p), EngineInv'
    PROVE  FileInv'
<1>1. /\ EngineInv /\ RequestTypes /\ BackendTypes /\ KindInv /\ NoFileVanishes
      /\ \A x \in Requests : RegInv(x) /\ FlightInv(x) /\ RowInv(x) /\ TurnInv(x) /\ InspInv(x)
  BY DEF FileInv, EngineInv, RequestInv
<1>2. PICK d : d = doc[r]
  OBVIOUS
<1>3. PICK row : row = [name |-> req[r].name, group |-> r]
  OBVIOUS
<1>4. /\ reg[r] \in {"parts", "partly"}
      /\ todo' = [todo EXCEPT ![r] = @ \ {p}]
      /\ rows' = [rows EXCEPT ![<<d, p>>] = row]
      /\ UNCHANGED <<req, insp, doc, delivered, reg, drive>>
  BY <1>2, <1>3 DEF RegisterPart
<1>5. NoRequest \notin Requests
  BY DEF NoRequest, Requests
<1>6. /\ d \in Requests /\ p \in Parts(d) /\ p \in 1 .. BigParts /\ <<d, p>> \in Docs
      /\ req[d].payload = req[r].payload /\ req[d].kind = req[r].kind
  <2>1. RegInv(r) /\ doc[r] \in {NoRequest} \cup Requests /\ todo[r] \in SUBSET (1 .. BigParts)
    BY <1>1 DEF RequestTypes, BackendTypes
  <2> QED BY <1>2, <1>4, <2>1 DEF RegInv, Docs
<1>7. /\ row.name = req[r].name /\ row.group = r /\ row.name \in Names
      /\ row \in [name : Names \cup {NoName}, group : {NoRequest} \cup Requests]
  BY <1>1, <1>3 DEF RequestTypes
<1>8. \A e \in Requests : \A q \in 1 .. BigParts :
        rows'[<<e, q>>] = IF e = d /\ q = p THEN row ELSE rows[<<e, q>>]
  BY <1>1, <1>4 DEF BackendTypes, Docs
<1>9. \A e : Parts(e) \subseteq 1 .. BigParts /\ Parts(e)' = Parts(e)
  BY <1>4, UploadBatchAssumption DEF Parts
<1>10. \A x \in Requests : todo'[x] = IF x = r THEN todo[r] \ {p} ELSE todo[x]
  BY <1>1, <1>4 DEF BackendTypes
<1>11. BackendTypes'
  BY <1>1, <1>4, <1>7 DEF BackendTypes
<1>12. InFlight(r) /\ ~Settled(r)
  BY <1>2, <1>4, <1>5, <1>6 DEF InFlight, Settled
<1>13. \A x \in Requests : InFlight(x) /\ doc[x] = d => req[x].name = req[r].name
  BY <1>1, <1>2, <1>12 DEF FlightInv
<1>14. \A x \in Requests : (Settled(x)' <=> Settled(x)) /\ (InFlight(x)' <=> InFlight(x))
       /\ \A n : NameSettled(n)' <=> NameSettled(n)
  BY <1>4 DEF Settled, InFlight, NameSettled
<1>15. ASSUME NEW x \in Requests PROVE RegInv(x)'
  <2>1. RegInv(x)
    BY <1>1
  <2>2. ASSUME reg[x] = "parts", NEW q \in Parts(doc[x]) \ todo'[x]
        PROVE  /\ rows'[<<doc[x], q>>].name = req[x].name
               /\ rows'[<<doc[x], q>>].group \in Requests
               /\ req[x].kind = "big" => rows'[<<doc[x], q>>].group = x
    <3>1. doc[x] \in Requests /\ q \in 1 .. BigParts
      BY <1>1, <1>9, <2>1, <2>2 DEF RegInv, RequestTypes
    <3>2. CASE doc[x] = d /\ q = p /\ x = r
      BY <1>7, <1>8, <3>1, <3>2
    <3>3. CASE doc[x] = d /\ q = p /\ x # r
      <4>1. InFlight(x)
        BY <2>1, <2>2 DEF InFlight, Settled, RegInv
      <4>2. req[x].name = req[r].name /\ req[x].payload = req[r].payload
            /\ req[x].kind = req[r].kind
        BY <1>6, <1>13, <2>1, <2>2, <3>3, <4>1 DEF RegInv
      <4>3. req[x] = req[r]
        BY <1>1, <4>2 DEF RequestTypes
      <4>4. insp[x] # "waiting" /\ insp[r] # "waiting"
        <5>1. delivered[x] # 0 /\ delivered[r] # 0
          BY <1>1, <1>4, <2>2 DEF RegInv
        <5> QED BY <1>1, <5>1 DEF InspInv
      <4>5. req[x].kind # "big"
        <5>1. SUFFICES ASSUME req[x].kind = "big" PROVE FALSE
          OBVIOUS
        <5>2. SameBig(x, r) /\ SameBig(r, x)
          BY <4>3, <5>1 DEF SameBig
        <5>3. ~Settled(x) /\ ~Settled(r)
          BY <1>12, <4>1 DEF InFlight
        <5>4. x < r \/ r < x
          BY <3>3 DEF Requests
        <5> QED BY <1>1, <4>4, <5>2, <5>3, <5>4 DEF TurnInv
      <4> QED BY <1>7, <1>8, <3>1, <3>3, <4>2, <4>5
    <3>4. CASE ~(doc[x] = d /\ q = p)
      <4>1. q \notin todo[x]
        BY <1>2, <1>10, <2>2, <3>4
      <4>2. rows'[<<doc[x], q>>] = rows[<<doc[x], q>>]
        BY <1>8, <3>1, <3>4
      <4> QED BY <2>1, <2>2, <4>1, <4>2 DEF RegInv
    <3> QED BY <3>2, <3>3, <3>4
  <2>3. reg[x] \in {"parts", "partly"} => todo'[x] \subseteq Parts(doc[x])
    BY <1>10, <2>1 DEF RegInv
  <2> QED BY <1>4, <1>9, <2>1, <2>2, <2>3 DEF RegInv
<1>16. ASSUME NEW x \in Requests PROVE FlightInv(x)'
  <2>1. FlightInv(x)
    BY <1>1
  <2>2. ASSUME InFlight(x), NEW q \in Parts(doc[x])
        PROVE  rows'[<<doc[x], q>>].name \in Free(req[x].name)
    <3>1. doc[x] \in Requests /\ q \in 1 .. BigParts
      BY <1>1, <1>9, <2>2 DEF InFlight, RequestTypes
    <3>2. CASE doc[x] = d /\ q = p
      BY <1>7, <1>8, <1>13, <2>2, <3>1, <3>2 DEF Free
    <3>3. CASE ~(doc[x] = d /\ q = p)
      BY <1>8, <2>1, <2>2, <3>1, <3>3 DEF FlightInv
    <3> QED BY <3>2, <3>3
  <2> QED BY <1>4, <1>9, <1>14, <2>1, <2>2 DEF FlightInv, Free
<1>17. ASSUME NEW e \in Requests PROVE RowInv(e)'
  <2>1. ASSUME NEW q \in Parts(e)
        PROVE  rows'[<<e, q>>].name \in Free(req[e].name) \/ NameSettled(req[e].name)
    <3>1. CASE e = d /\ q = p
      <4>1. req[r].name # req[d].name => NameSettled(req[d].name)
        BY <1>1, <1>2, <1>12 DEF FlightInv
      <4> QED BY <1>7, <1>8, <1>9, <3>1, <4>1 DEF Free
    <3>2. CASE ~(e = d /\ q = p)
      BY <1>1, <1>8, <1>9, <3>2 DEF RowInv
    <3> QED BY <3>1, <3>2
  <2> QED BY <1>4, <1>9, <1>14, <2>1 DEF RowInv, Free
<1>18. ASSUME NEW x \in Requests PROVE TurnInv(x)'
  BY <1>1, <1>4, <1>14 DEF TurnInv, SameBig
<1>19. NoFileVanishes'
  <2> SUFFICES ASSUME NEW n \in Names, drive[n] # NoName
               PROVE  \/ \E e \in Requests : req[e].payload = drive[n] /\ Answers(e, n)'
                      \/ Held(n, drive[n])
    BY <1>4 DEF NoFileVanishes, Held
  <2>1. CASE Held(n, drive[n])
    BY <2>1
  <2>2. ASSUME NEW e \in Requests, req[e].payload = drive[n], Answers(e, n)
        PROVE  Answers(e, n)' \/ Held(n, drive[n])
    <3>1. CASE e # d
      BY <1>8, <1>9, <2>2, <3>1 DEF Answers
    <3>2. CASE e = d
      <4>1. rows[<<d, p>>].name = n
        BY <1>6, <2>2, <3>2 DEF Answers
      <4>2. rows[<<d, p>>].name \in Free(req[r].name)
        BY <1>1, <1>2, <1>6, <1>12 DEF FlightInv
      <4>3. n = req[r].name
        BY <4>1, <4>2, UploadBatchAssumption DEF Free
      <4> QED BY <1>4, <1>6, <2>2, <3>2, <4>3 DEF Held
    <3> QED BY <3>1, <3>2
  <2> QED BY <1>1, <2>1, <2>2 DEF NoFileVanishes
<1>20. KindInv'
  BY <1>1, <1>4 DEF KindInv
<1> QED BY <1>11, <1>15, <1>16, <1>17, <1>18, <1>19, <1>20 DEF FileInv

\* A registration goes wrong, or ends.
Ends(r) ==
    /\ UNCHANGED <<req, insp, doc, delivered, rows>>
    /\ reg[r] \in {"parts", "partly"}
    /\ \A x \in Requests \ {r} : reg'[x] = reg[x] /\ todo'[x] = todo[x]
    /\ todo'[r] \subseteq todo[r] /\ reg'[r] \in {"partly", "ok", "lost"}

\* A registration is over, one way or another, and the names still answer.
LEMMA EndsFiles ==
    ASSUME FileInv, NEW r \in Requests, Ends(r), EngineInv', BackendTypes', NoFileVanishes'
    PROVE  FileInv'
<1>1. /\ KindInv /\ \A x \in Requests : RegInv(x) /\ FlightInv(x) /\ RowInv(x) /\ TurnInv(x)
  BY DEF FileInv
<1>2. UNCHANGED <<req, insp, doc, delivered, rows>>
  BY DEF Ends
<1>3. /\ \A x \in Requests : (Settled(x) => Settled(x)') /\ (InFlight(x)' => InFlight(x))
      /\ \A n : NameSettled(n) => NameSettled(n)'
  BY DEF Ends, Settled, InFlight, NameSettled
<1>4. \A x : Parts(x)' = Parts(x)
  BY <1>2 DEF Parts
<1>5. ASSUME NEW x \in Requests PROVE RegInv(x)'
  <2>1. RegInv(x)
    BY <1>1
  <2>2. CASE x = r
    BY <1>2, <1>4, <2>1, <2>2 DEF RegInv, Ends
  <2>3. CASE x # r
    BY <1>2, <1>4, <2>1, <2>3 DEF RegInv, Ends
  <2> QED BY <2>2, <2>3
<1>6. ASSUME NEW x \in Requests PROVE FlightInv(x)'
  BY <1>1, <1>2, <1>3, <1>4 DEF FlightInv, Free
<1>7. ASSUME NEW x \in Requests PROVE RowInv(x)'
  BY <1>1, <1>2, <1>3, <1>4 DEF RowInv, Free
<1>8. ASSUME NEW x \in Requests PROVE TurnInv(x)'
  BY <1>1, <1>2, <1>3 DEF TurnInv, SameBig
<1>9. KindInv'
  BY <1>1, <1>2 DEF KindInv
<1> QED BY <1>5, <1>6, <1>7, <1>8, <1>9 DEF FileInv

\* The backend refuses a row; its client still holds the file.
LEMMA RegisterPartFailsFiles ==
    ASSUME FileInv, NEW r \in Requests, NEW p \in todo[r],
           RegisterPartFails(r, p), EngineInv'
    PROVE  FileInv'
<1>1. BackendTypes /\ NoFileVanishes
  BY DEF FileInv
<1>2. Ends(r) /\ UNCHANGED drive /\ reg'[r] = "partly" /\ BackendTypes'
  BY <1>1 DEF RegisterPartFails, BackendTypes, Ends
<1>3. NoFileVanishes'
  <2>1. \A n, v : Held(n, v) => Held(n, v)'
    BY <1>2 DEF Held, Ends
  <2>2. \A d, n : Answers(d, n) => Answers(d, n)'
    BY <1>2 DEF Answers, Ends, Parts
  <2> QED BY <1>1, <1>2, <2>1, <2>2 DEF NoFileVanishes, Ends
<1> QED BY <1>2, <1>3, EndsFiles

\* The rows are not all there, or the last does not answer: the upload has failed,
\* and its client still holds the file.
LEMMA RegisterRaisesFiles ==
    ASSUME FileInv, NEW r \in Requests, RegisterRaises(r), EngineInv'
    PROVE  FileInv'
<1>1. BackendTypes /\ NoFileVanishes
  BY DEF FileInv
<1>2. Ends(r) /\ UNCHANGED drive /\ reg'[r] = "lost" /\ BackendTypes'
  BY <1>1 DEF RegisterRaises, BackendTypes, Ends
<1>3. NoFileVanishes'
  <2>1. \A n, v : Held(n, v) => Held(n, v)'
    BY <1>2 DEF Held, Ends
  <2>2. \A d, n : Answers(d, n) => Answers(d, n)'
    BY <1>2 DEF Answers, Ends, Parts
  <2> QED BY <1>1, <1>2, <2>1, <2>2 DEF NoFileVanishes, Ends
<1> QED BY <1>2, <1>3, EndsFiles

\* All parts are registered, so the rows of its documents answer to the name.
LEMMA RegisterDoneFiles ==
    ASSUME FileInv, NEW r \in Requests, RegisterDone(r), EngineInv'
    PROVE  FileInv'
<1>1. /\ BackendTypes /\ NoFileVanishes /\ RequestTypes /\ RegInv(r)
  BY DEF FileInv, EngineInv, RequestInv
<1>2. Ends(r) /\ reg'[r] = "ok" /\ BackendTypes'
  <2>1. req[r].payload \in Payloads
    BY <1>1 DEF RequestTypes
  <2> QED BY <1>1, <2>1 DEF RegisterDone, BackendTypes, Ends
<1>3. /\ reg[r] = "parts" /\ todo[r] = {} /\ req[r].name \in Names
      /\ \A n \in Names : drive'[n] = IF n = req[r].name THEN req[r].payload ELSE drive[n]
  BY <1>1 DEF RegisterDone, AllRegistered, RequestTypes, BackendTypes
<1>4. PICK d : d = doc[r]
  OBVIOUS
<1>5. /\ d \in Requests /\ req[d].payload = req[r].payload /\ req[d].kind = req[r].kind
      /\ \A p \in Parts(d) : /\ rows[<<d, p>>].name = req[r].name
                             /\ rows[<<d, p>>].group \in Requests
                             /\ req[r].kind = "big" => rows[<<d, p>>].group = r
  BY <1>1, <1>3, <1>4 DEF RegInv, RequestTypes
<1>6. \A p \in Parts(d) :
        rows[<<d, p>>] \in [name : Names \cup {NoName}, group : {NoRequest} \cup Requests]
  BY <1>1, <1>5, UploadBatchAssumption DEF BackendTypes, Docs, Parts
<1>7. Answers(d, req[r].name)
  <2>1. CASE req[r].kind = "big"
    <3>1. \A p \in Parts(d) : rows[<<d, p>>] = [name |-> req[r].name, group |-> r]
      BY <1>5, <1>6, <2>1
    <3> QED BY <3>1 DEF Answers
  <2>2. CASE req[r].kind # "big"
    <3>1. Parts(d) = {1}
      BY <1>5, <2>2 DEF Parts
    <3>2. PICK g \in Requests : g = rows[<<d, 1>>].group
      BY <1>5, <3>1
    <3>3. rows[<<d, 1>>] = [name |-> req[r].name, group |-> g]
      BY <1>5, <1>6, <3>1, <3>2
    <3> QED BY <3>1, <3>3 DEF Answers
  <2> QED BY <2>1, <2>2
<1>8. NoFileVanishes'
  <2>1. \A e, n : Answers(e, n) => Answers(e, n)'
    BY <1>2 DEF Answers, Ends, Parts
  <2>2. UNCHANGED req
    BY <1>2 DEF Ends
  <2> SUFFICES ASSUME NEW n \in Names, drive'[n] # NoName
               PROVE  \/ \E e \in Requests : req[e].payload = drive'[n] /\ Answers(e, n)'
                      \/ \E x \in Requests : /\ req[x].name = n /\ req[x].payload = drive'[n]
                                             /\ reg'[x] \in {"parts", "partly", "lost"}
    BY <2>2 DEF NoFileVanishes, Held
  <2>3. CASE n = req[r].name
    BY <1>3, <1>5, <1>7, <2>1, <2>3
  <2>4. CASE n # req[r].name
    <3>1. drive'[n] = drive[n]
      BY <1>3, <2>4
    <3>2. CASE \E e \in Requests : req[e].payload = drive[n] /\ Answers(e, n)
      BY <2>1, <3>1, <3>2
    <3>3. CASE Held(n, drive[n])
      BY <1>2, <2>4, <3>1, <3>3 DEF Held, Ends
    <3> QED BY <1>1, <3>1, <3>2, <3>3 DEF NoFileVanishes
  <2> QED BY <2>3, <2>4
<1> QED BY <1>2, <1>8, EndsFiles

\* A MOVE waits until nothing is under way under either name.
LEMMA RenameFiles ==
    ASSUME ~ReuseMovedNames, FileInv, NEW n \in Names, NEW m \in Names, Rename(n, m), EngineInv'
    PROVE  FileInv'
<1>1. /\ BackendTypes /\ NoFileVanishes /\ KindInv /\ RequestTypes
      /\ \A x \in Requests : RegInv(x) /\ FlightInv(x) /\ RowInv(x) /\ TurnInv(x) /\ InspInv(x)
  BY DEF FileInv, EngineInv, RequestInv
<1>2. /\ UNCHANGED <<req, insp, doc, delivered, reg, todo>>
      /\ rows' = [d \in Docs |-> IF rows[d].name = n THEN [rows[d] EXCEPT !.name = m]
                                 ELSE rows[d]]
      /\ drive' = [drive EXCEPT ![m] = drive[n], ![n] = NoName]
      /\ drive[n] # NoName /\ drive[m] = NoName /\ ~Held(n, drive[n])
      /\ \A r \in Requests : req[r].name \in {n, m} => insp[r] = "waiting" \/ Settled(r)
      /\ \A r \in Requests : req[r].name = n => Settled(r)
  BY DEF Rename
<1>3. n # m /\ n # NoName /\ m # NoName /\ NameSettled(n)
  BY <1>2, UploadBatchAssumption DEF NameSettled
<1>4. \A x : Parts(x)' = Parts(x) /\ Parts(x) \subseteq 1 .. BigParts
  BY <1>2, UploadBatchAssumption DEF Parts
<1>5. ASSUME NEW d \in Requests, NEW p \in Parts(d)
      PROVE  /\ rows[<<d, p>>].name = n => /\ rows'[<<d, p>>].name = m
                                           /\ rows'[<<d, p>>].group = rows[<<d, p>>].group
             /\ rows[<<d, p>>].name # n => rows'[<<d, p>>] = rows[<<d, p>>]
             /\ rows[<<d, p>>] \in [name : Names \cup {NoName}, group : {NoRequest} \cup Requests]
             /\ rows'[<<d, p>>] \in [name : Names \cup {NoName}, group : {NoRequest} \cup Requests]
  <2>1. <<d, p>> \in Docs
    BY <1>4 DEF Docs
  <2>2. PICK row : row = rows[<<d, p>>]
    OBVIOUS
  <2>3. row \in [name : Names \cup {NoName}, group : {NoRequest} \cup Requests]
    BY <1>1, <2>1, <2>2 DEF BackendTypes
  <2>4. rows'[<<d, p>>] = IF row.name = n THEN [row EXCEPT !.name = m] ELSE row
    BY <1>2, <2>1, <2>2
  <2> QED BY <2>2, <2>3, <2>4
<1>6. BackendTypes'
  <2>1. rows' \in [Docs -> [name : Names \cup {NoName}, group : {NoRequest} \cup Requests]]
    BY <1>1, <1>2 DEF BackendTypes
  <2>2. drive' \in [Names -> Payloads \cup {NoName}]
    BY <1>1, <1>2 DEF BackendTypes
  <2> QED BY <1>1, <1>2, <2>1, <2>2 DEF BackendTypes
<1>7. /\ \A x \in Requests : (Settled(x)' <=> Settled(x)) /\ (InFlight(x)' <=> InFlight(x))
      /\ \A k : NameSettled(k)' <=> NameSettled(k)
  BY <1>2 DEF Settled, InFlight, NameSettled
<1>8. \A x \in Requests : InFlight(x) => req[x].name \notin {n, m} /\ doc[x] \in Requests
  <2> SUFFICES ASSUME NEW x \in Requests, InFlight(x)
               PROVE  req[x].name \notin {n, m} /\ doc[x] \in Requests
    OBVIOUS
  <2>1. doc[x] # NoRequest /\ ~Settled(x) /\ InspInv(x)
    BY <1>1 DEF InFlight
  <2>2. insp[x] # "waiting"
    BY <2>1 DEF InspInv
  <2> QED BY <1>1, <1>2, <2>1, <2>2 DEF RequestTypes
<1>9. ASSUME NEW x \in Requests PROVE RegInv(x)'
  <2>1. RegInv(x)
    BY <1>1
  <2>2. ASSUME reg[x] = "parts", NEW p \in Parts(doc[x]) \ todo[x]
        PROVE  rows'[<<doc[x], p>>] = rows[<<doc[x], p>>]
    <3>1. InFlight(x)
      BY <2>1, <2>2 DEF InFlight, Settled, RegInv
    <3>2. rows[<<doc[x], p>>].name # n
      BY <1>8, <2>1, <2>2, <3>1 DEF RegInv
    <3>3. doc[x] \in Requests /\ p \in Parts(doc[x])
      BY <1>8, <2>2, <3>1
    <3> QED BY <1>5, <3>2, <3>3
  <2>3. /\ UNCHANGED <<req, doc, delivered, reg, todo>>
        /\ \A y : Parts(y)' = Parts(y)
    BY <1>2, <1>4
  <2>4. /\ (reg[x] = "none" <=> delivered[x] = 0)'
        /\ (reg[x] \in {"parts", "partly"} => doc[x] # NoRequest /\ todo[x] \subseteq Parts(doc[x]))'
        /\ (doc[x] # NoRequest => /\ req[doc[x]].payload = req[x].payload
                                  /\ req[doc[x]].kind = req[x].kind)'
    BY <2>1, <2>3 DEF RegInv
  <2>5. ASSUME reg[x] = "parts", NEW p \in Parts(doc[x]) \ todo[x]
        PROVE  /\ rows'[<<doc[x], p>>].name = req[x].name
               /\ rows'[<<doc[x], p>>].group \in Requests
               /\ req[x].kind = "big" => rows'[<<doc[x], p>>].group = x
    BY <2>1, <2>2, <2>5 DEF RegInv
  <2> QED BY <2>3, <2>4, <2>5 DEF RegInv
<1>10. ASSUME NEW x \in Requests PROVE FlightInv(x)'
  <2>1. FlightInv(x)
    BY <1>1
  <2>2. ASSUME InFlight(x), NEW p \in Parts(doc[x])
        PROVE  rows'[<<doc[x], p>>] = rows[<<doc[x], p>>]
    <3>1. rows[<<doc[x], p>>].name \in Free(req[x].name)
      BY <2>1, <2>2 DEF FlightInv
    <3>2. rows[<<doc[x], p>>].name # n
      BY <1>3, <1>8, <2>2, <3>1 DEF Free
    <3> QED BY <1>5, <1>8, <2>2, <3>2
  <2> QED BY <1>2, <1>4, <1>7, <2>1, <2>2 DEF FlightInv, Free
<1>11. ASSUME NEW d \in Requests PROVE RowInv(d)'
  <2>1. ASSUME NEW p \in Parts(d)
        PROVE  rows'[<<d, p>>].name \in Free(req[d].name) \/ NameSettled(req[d].name)
    <3>1. rows[<<d, p>>].name \in Free(req[d].name) \/ NameSettled(req[d].name)
      BY <1>1 DEF RowInv
    <3>2. CASE rows[<<d, p>>].name = n
      BY <1>3, <3>1, <3>2 DEF Free
    <3>3. CASE rows[<<d, p>>].name # n
      BY <1>5, <3>1, <3>3
    <3> QED BY <3>2, <3>3
  <2> QED BY <1>2, <1>4, <1>7, <2>1 DEF RowInv, Free
<1>12. ASSUME NEW x \in Requests PROVE TurnInv(x)'
  BY <1>1, <1>2, <1>7 DEF TurnInv, SameBig
<1>13. KindInv'
  BY <1>1, <1>2 DEF KindInv
<1>14. NoFileVanishes'
  <2>1. \A k \in Names : drive'[k] = IF k = n THEN NoName ELSE IF k = m THEN drive[n] ELSE drive[k]
    BY <1>1, <1>2, <1>3 DEF BackendTypes
  <2>2. \A k, v : Held(k, v)' <=> Held(k, v)
    BY <1>2 DEF Held
  <2>3. ASSUME NEW d \in Requests, NEW k \in Names, Answers(d, k)
        PROVE  IF k = n THEN Answers(d, m)' ELSE Answers(d, k)'
    <3>1. PICK g \in Requests : \A p \in Parts(d) : rows[<<d, p>>] = [name |-> k, group |-> g]
      BY <2>3 DEF Answers
    <3>2. CASE k = n
      <4>1. \A p \in Parts(d) : rows'[<<d, p>>] = [name |-> m, group |-> g]
        <5> SUFFICES ASSUME NEW p \in Parts(d)
                     PROVE  rows'[<<d, p>>] = [name |-> m, group |-> g]
          OBVIOUS
        <5>1. rows[<<d, p>>].name = n /\ rows[<<d, p>>].group = g
          BY <3>1, <3>2
        <5>2. /\ rows'[<<d, p>>].name = m /\ rows'[<<d, p>>].group = g
              /\ rows'[<<d, p>>] \in [name : Names \cup {NoName}, group : {NoRequest} \cup Requests]
          BY <1>5, <5>1
        <5> QED BY <5>2
      <4> QED BY <1>4, <3>2, <4>1 DEF Answers
    <3>3. CASE k # n
      <4>1. \A p \in Parts(d) : rows'[<<d, p>>] = [name |-> k, group |-> g]
        BY <1>5, <3>1, <3>3
      <4> QED BY <1>4, <3>3, <4>1 DEF Answers
    <3> QED BY <3>2, <3>3
  <2> SUFFICES ASSUME NEW k \in Names, drive'[k] # NoName
               PROVE  \/ \E d \in Requests : req[d].payload = drive'[k] /\ Answers(d, k)'
                      \/ Held(k, drive'[k])
    BY <1>2, <2>2 DEF NoFileVanishes
  <2>4. k # n
    BY <2>1
  <2>5. CASE k = m
    <3>1. PICK d \in Requests : req[d].payload = drive[n] /\ Answers(d, n)
      BY <1>1, <1>2 DEF NoFileVanishes
    <3>2. Answers(d, m)'
      BY <2>3, <3>1
    <3> QED BY <1>3, <2>1, <2>5, <3>1, <3>2
  <2>6. CASE k # m
    <3>1. drive'[k] = drive[k]
      BY <2>1, <2>4, <2>6
    <3> QED BY <1>1, <2>3, <2>4, <3>1 DEF NoFileVanishes
  <2> QED BY <2>5, <2>6
<1> QED BY <1>6, <1>9, <1>10, <1>11, <1>12, <1>13, <1>14 DEF FileInv

-----------------------------------------------------------------------------
(* The theorem about the backend *)

\* There are no files at the start.
LEMMA FileInit == Init => FileInv
<1> SUFFICES ASSUME Init PROVE FileInv
  OBVIOUS
<1>1. EngineInv
  BY EngineInit
<1>2. BackendTypes
  BY DEF Init, BackendTypes, NoRow
<1>3. KindInv
  BY DEF Init, KindInv
<1>4. \A r \in Requests : RegInv(r) /\ FlightInv(r) /\ TurnInv(r)
  BY DEF Init, RegInv, FlightInv, TurnInv, InFlight, NoRequest
<1>5. \A r \in Requests : RowInv(r)
  <2>1. \A x : Parts(x) \subseteq 1 .. BigParts
    BY UploadBatchAssumption DEF Parts
  <2>2. \A d \in Docs : rows[d].name = NoName
    BY DEF Init, NoRow
  <2> QED BY <2>1, <2>2 DEF RowInv, Free, Docs
<1>6. NoFileVanishes
  BY DEF Init, NoFileVanishes
<1> QED BY <1>1, <1>2, <1>3, <1>4, <1>5, <1>6 DEF FileInv

\* No action breaks the invariant of the files.
LEMMA FileStep == ~ReuseMovedNames /\ FileInv /\ [Next]_vars => FileInv'
<1> SUFFICES ASSUME ~ReuseMovedNames, FileInv, [Next]_vars PROVE FileInv'
  OBVIOUS
<1>1. EngineInv'
  BY EngineStep DEF FileInv
<1>2. CASE \E b \in Batches : TransferBatch(b)
  BY <1>2, TransferBatchFiles
<1>3. CASE \E r \in Requests : Inspect(r)
  BY <1>3, InspectFiles
<1>4. CASE \E r \in Requests : RegisterResult(r)
  <2>1. PICK r \in Requests : RegisterResult(r)
    BY <1>4
  <2>2. CASE \E p \in todo[r] : RegisterPart(r, p)
    BY <1>1, <2>2, RegisterPartFiles
  <2>3. CASE \E p \in todo[r] : RegisterPartFails(r, p)
    BY <1>1, <2>3, RegisterPartFailsFiles
  <2>4. CASE RegisterRaises(r)
    BY <1>1, <2>4, RegisterRaisesFiles
  <2>5. CASE RegisterDone(r)
    BY <1>1, <2>5, RegisterDoneFiles
  <2> QED BY <2>1, <2>2, <2>3, <2>4, <2>5 DEF RegisterResult
<1>5. CASE \E n, m \in Names : Rename(n, m)
  BY <1>1, <1>5, RenameFiles
<1>6. CASE UNCHANGED vars
  BY <1>1, <1>6, SilentFiles DEF vars
<1> QED BY <1>2, <1>3, <1>4, <1>5, <1>6 DEF Next

\* A file that some caller was told is stored is there under its name, whole, or
\* a client still holds its bytes, in whatever order it is uploaded, registered
\* again and moved, and whatever fails, as long as no file is written again under
\* a name that another was moved away from (register_result, _claim_key).
THEOREM NothingVanishes == ~ReuseMovedNames => (Spec => []NoFileVanishes)
<1> SUFFICES ASSUME ~ReuseMovedNames PROVE Spec => []NoFileVanishes
  OBVIOUS
<1>1. Init => FileInv
  BY FileInit
<1>2. FileInv /\ [Next]_vars => FileInv'
  BY FileStep
<1>3. FileInv => NoFileVanishes
  BY DEF FileInv
<1> QED BY <1>1, <1>2, <1>3, PTL DEF Spec

====
