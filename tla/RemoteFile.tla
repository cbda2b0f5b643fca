----------------------------- MODULE RemoteFile -----------------------------
(***************************************************************************)
(* Reading a stored file back (tgio.py): SeekableRemoteFile turns a read   *)
(* at an offset into blocks, blocks into pieces of Telegram messages, and  *)
(* TelegramWorker.read each piece into aligned requests on the pooled      *)
(* connections.  One reader is followed; the others show as what they do to *)
(* the worker's cache of documents, whose file references expire.          *)
(*                                                                         *)
(* A byte is named by the message that holds it and its place there, so a  *)
(* read that is shifted, doubled or taken from another file shows.  Sizes  *)
(* are small integers in the proportions of the code's constants.          *)
(***************************************************************************)
EXTENDS Integers, Sequences, FiniteSets, FiniteSetsExt, Ordered

CONSTANTS
  Recorded,      \* the size each part was registered with, in order
  Actual,        \* the bytes its message really holds
  AlienSize,     \* the size of the media a wrong message would hold
  ALIGN, REQUEST_SIZE, BLOCK_SIZE, BLOCKS_CACHED,
  Heads,         \* lengths of the head a caller may pass
  Offsets, Wants,   \* the seeks and read sizes of the clients
  Window,        \* [start, size] of a stored zip member inside the file
  MaxExpiries    \* bound: how often Telegram renews a file reference

Messages == 1 .. Len(Recorded)

ASSUME RemoteFileAssumption ==
  /\ Recorded \in Seq(Nat) /\ Actual \in [Messages -> Nat]
  /\ \A i \in Messages : Actual[i] <= Recorded[i]
  /\ \A i \in Messages \ {Len(Recorded)} : Actual[i] = Recorded[i]  \* tdapi.py:103
  /\ {ALIGN, REQUEST_SIZE, BLOCK_SIZE, BLOCKS_CACHED} \subseteq Nat \ {0}
  /\ REQUEST_SIZE % ALIGN = 0 /\ {AlienSize, MaxExpiries} \subseteq Nat
  /\ (Heads \cup Offsets \cup Wants \cup {Window.start, Window.size}) \subseteq Nat

(***************************************************************************)
(* The part table.                                                         *)
(***************************************************************************)

Unknown == -1

\* The bytes of the parts before the i-th, and of all of them.
Before(sizes, i) == Cardinality(UNION {{j} \X (1 .. sizes[j]) : j \in 1 .. i - 1})
SizeOf(sizes) == Before(sizes, Len(sizes) + 1)

\* n bytes of s from an offset, as far as it goes; sequences laid end to end.
Slice(s, offset, n) == [i \in 1 .. Min({n, Len(s) - offset}) |-> s[offset + i]]
Joined(seqs) ==
  LET sizes == [i \in DOMAIN seqs |-> Len(seqs[i])]
      Holder(p) == CHOOSE i \in DOMAIN seqs :
                     Before(sizes, i) <= p /\ p < Before(sizes, i) + sizes[i]
  IN  [p \in 1 .. SizeOf(sizes) |->
         seqs[Holder(p - 1)][p - Before(sizes, Holder(p - 1))]]

\* _clip_parts: at most real bytes in all, the tail cut off.
Clip(sizes, real) ==
  IF real = Unknown THEN sizes
  ELSE LET kept == {i \in DOMAIN sizes : Before(sizes, i) < real}
       IN  [i \in 1 .. Cardinality(kept) |-> Min({sizes[i], real - Before(sizes, i)})]

\* build_part_table: the parts that are not empty, with their offsets.
PartTable(sizes) ==
  [i \in {j \in DOMAIN sizes : sizes[j] > 0} |-> [start |-> Before(sizes, i), size |-> sizes[i]]]

\* Mutant: what is taken is measured from the offset, not from the part's start.
MutMapRange(table, total, offset, length) ==
  LET end == Min({offset + length, total})
      Touched(part) == part.start + part.size > offset /\ part.start < end
      hit == InOrder({m \in DOMAIN table : Touched(table[m])})
      Inner(m) == Max({0, offset - table[m].start})
  IN  IF length <= 0 \/ offset >= total THEN <<>>
      ELSE [i \in DOMAIN hit |->
              [message |-> hit[i], inner |-> Inner(hit[i]),
               n |-> Min({table[hit[i]].size, end - offset}) - Inner(hit[i])]]

\* map_range: the pieces of messages that a range of the file lies in.
MapRange(table, total, offset, length) ==
  LET end == Min({offset + length, total})
      Touched(part) == part.start + part.size > offset /\ part.start < end
      hit == InOrder({m \in DOMAIN table : Touched(table[m])})
      Inner(m) == Max({0, offset - table[m].start})
      PieceOf(m) ==
        [message |-> m, inner |-> Inner(m),
         n |-> Min({table[m].start + table[m].size, end}) - (table[m].start + Inner(m))]
  IN  IF length <= 0 \/ offset >= total \/ offset < 0 THEN <<>>
      ELSE [i \in DOMAIN hit |-> PieceOf(hit[i])]

(***************************************************************************)
(* The messages and one read of a document.                                *)
(***************************************************************************)

VARIABLES
  real,      \* the length of the file its hash records, or Unknown
  alien,     \* the messages that hold media of another file
  reference, \* message -> the file reference Telegram accepts now
  docs,      \* message -> the cached document's reference; 0: none
  head,      \* the length of the head the reader was given
  pos,       \* its position
  blocks,    \* its block cache, least recently used first
  op,        \* the read it is in
  answer     \* the last read and what it returned

readerVars == <<real, alien, reference, docs, head, pos, blocks, op, answer>>

MediaSize(m) == IF m \in alien THEN AlienSize ELSE Actual[m]
Media(m) == [i \in 1 .. MediaSize(m) |-> <<IF m \in alien THEN -m ELSE m, i>>]
Sizes == Clip(Recorded, real)
Table == PartTable(Sizes)
Total == SizeOf(Sizes)
File == Joined([m \in Messages |-> [i \in 1 .. Actual[m] |-> <<m, i>>]])
FileSlice(offset, n) == Slice(File, offset, n)

\* _assert_media_id: a row registered under the id of the upload does not
\* match the document, and then its size, padded or not, must.
SizeConfirms(recorded, size) == 0 <= recorded - size /\ recorded - size < REQUEST_SIZE
IsExpected(m) == m \notin alien \/ SizeConfirms(Table[m].size, MediaSize(m))

\* The media of another file is taken for this one.
AlienFits ==
  \E recorded \in {Recorded[Len(Recorded)], Actual[Len(Recorded)]} :
    SizeConfirms(recorded, AlienSize)

\* _read: REQUEST_SIZE requests from an aligned offset, joined and cut.
DocRead(m, offset, length) ==
  LET aligned == offset - (offset % ALIGN)
      skip    == offset - aligned
      count   == (skip + length + REQUEST_SIZE - 1) \div REQUEST_SIZE
      Chunk(i) == Slice(Media(m), aligned + (i - 1) * REQUEST_SIZE, REQUEST_SIZE)
  IN  Slice(Joined([i \in 1 .. count |-> Chunk(i)]), skip, length)

(***************************************************************************)
(* SeekableRemoteFile.                                                     *)
(***************************************************************************)

NoRead == [pc |-> "idle"]
NoAnswer == [offset |-> 0, want |-> 0, data |-> <<>>]
ReaderInit ==
  /\ real \in {SizeOf(Actual), Unknown}
  /\ alien \in {{}, {Len(Recorded)}}
  /\ reference = [m \in Messages |-> 1] /\ docs = [m \in Messages |-> 0]
  /\ head \in Heads /\ pos = 0 /\ blocks = <<>> /\ op = NoRead /\ answer = NoAnswer

Cached == {blocks[i].index : i \in DOMAIN blocks}
BlockOf(index) ==
  LET i == CHOOSE k \in DOMAIN blocks : blocks[k].index = index
  IN  blocks[i].data

\* The runs of consecutive blocks that a read has to fetch (_contiguous), each
\* with the pieces _fetch reads for it.
Runs(missing) ==
  LET starts == InOrder({i \in missing : i - 1 \notin missing})
      EndOf(s) == Min({e \in missing : e >= s /\ e + 1 \notin missing})
      Run(s) == [first |-> s, last |-> EndOf(s), data |-> <<>>,
                 pieces |-> MapRange(Table, Total, s * BLOCK_SIZE,
                              Min({(EndOf(s) + 1) * BLOCK_SIZE, Total}) - s * BLOCK_SIZE)]
  IN  [i \in DOMAIN starts |-> Run(starts[i])]

\* read: what the head covers comes from the head, the rest from the blocks
\* first..last of the cache or of Telegram.
ReadBegin(offset, want) ==
  LET size  == Max({0, Min({want, Total - offset})})
      end   == offset + size
      take  == Max({0, Min({end, head, Total}) - offset})
      from  == offset + take
      first == from \div BLOCK_SIZE
      last  == (end - 1) \div BLOCK_SIZE
      all   == IF from < end THEN first .. last ELSE {}
  IN  /\ op.pc = "idle" /\ size > 0
      /\ pos' = offset
      /\ op' =
           [pc |-> "fetch", want |-> want, from |-> from, end |-> end, doc |-> 0,
            retried |-> FALSE, runs |-> Runs(all \ Cached), done |-> <<>>, all |-> all]
      /\ answer' = NoAnswer
      /\ UNCHANGED <<real, alien, reference, docs, head, blocks>>

Read == \E offset \in Offsets \union {pos}, want \in Wants : ReadBegin(offset, want)

\* SlicedReader.read: a window onto the file, with a position of its own.
ReadWindow ==
  \E offset \in 0 .. Window.size - 1, want \in Wants :
    ReadBegin(Window.start + offset, Min({want, Window.size - offset}))

Fetching == op.pc # "idle" /\ op.runs # <<>>
Piece == Head(Head(op.runs).pieces)
Step(pc) == [op EXCEPT !.pc = pc]

\* _document: the cached document, unless its 45 minutes are over.
DocCached ==
  /\ op.pc = "fetch" /\ Fetching /\ docs[Piece.message] # 0
  /\ op' = [Step("read") EXCEPT !.doc = docs[Piece.message]]
  /\ UNCHANGED <<real, alien, reference, docs, head, pos, blocks, answer>>

\* ... or the message is asked for, its media checked, and cached: another
\* reader may cache another answer between the two.
DocFetch ==
  /\ Fetching /\ IsExpected(Piece.message)
  /\ \/ op.pc = "fetch" /\ docs[Piece.message] = 0
     \/ op.pc = "refresh"
  /\ op' = [Step("store") EXCEPT !.doc = reference[Piece.message]]
  /\ UNCHANGED <<real, alien, reference, docs, head, pos, blocks, answer>>

DocStore ==
  /\ op.pc = "store"
  /\ docs' = [docs EXCEPT ![Piece.message] = op.doc]
  /\ op' = Step("read")
  /\ UNCHANGED <<real, alien, reference, head, pos, blocks, answer>>

\* The requests of one piece were answered: on to the next piece or run.
PieceRead ==
  /\ op.pc = "read" /\ op.doc = reference[Piece.message]
  /\ LET run  == Head(op.runs)
         data == run.data \o DocRead(Piece.message, Piece.inner, Piece.n)
         next == [Step("fetch") EXCEPT !.doc = 0, !.retried = FALSE]
     IN  op' =
           IF Len(run.pieces) > 1
           THEN [next EXCEPT !.runs = <<[run EXCEPT !.pieces = Tail(@), !.data = data]>>
                                      \o Tail(op.runs)]
           ELSE [next EXCEPT !.runs = Tail(@),
                             !.done = Append(@, [run EXCEPT !.pieces = <<>>, !.data = data])]
  /\ UNCHANGED <<real, alien, reference, docs, head, pos, blocks, answer>>

\* The reference had expired: once, the document is fetched again.
ReferenceExpired ==
  /\ op.pc = "read" /\ op.doc # reference[Piece.message] /\ ~op.retried
  /\ op' = [Step("refresh") EXCEPT !.retried = TRUE]
  /\ UNCHANGED <<real, alien, reference, docs, head, pos, blocks, answer>>

\* The read raises: no connection, a wrong document, a flood wait after two
\* retries, a reference that expired twice.  Nothing of the reader changes.
ReadRaises ==
  /\ Fetching /\ op' = NoRead
  /\ UNCHANGED <<real, alien, reference, docs, head, pos, blocks, answer>>

\* The blocks this read has, from the cache and from its runs: a run that came
\* back short has none past its end.
Fetched(index) ==
  LET i == CHOOSE k \in DOMAIN op.done : index \in op.done[k].first .. op.done[k].last
  IN  Slice(op.done[i].data, (index - op.done[i].first) * BLOCK_SIZE, BLOCK_SIZE)
Found == [index \in op.all |-> IF index \in Cached THEN BlockOf(index) ELSE Fetched(index)]

\* _read_at: the blocks laid end to end from an offset; a missing or short
\* block ends the read.
Assembled(found, from, end) ==
  LET Reached == {p \in from .. end - 1 :
        \A q \in from .. p : q % BLOCK_SIZE < Len(found[q \div BLOCK_SIZE])}
      ByteAt(p) == found[p \div BLOCK_SIZE][(p % BLOCK_SIZE) + 1]
  IN  [i \in 1 .. Cardinality(Reached) |-> ByteAt(from + i - 1)]

\* Mutant: the blocks of a read are numbered from its start.
MutRemember(found) ==
  LET used == InOrder({i \in DOMAIN found : found[i] # <<>>})
      kept == InOrder({i \in DOMAIN blocks : blocks[i].index > Len(used)})
      now  == [i \in DOMAIN kept |-> blocks[kept[i]]]
              \o [i \in DOMAIN used |-> [index |-> i - 1, data |-> found[used[i]]]]
  IN  SubSeq(now, Max({1, Len(now) - BLOCKS_CACHED + 1}), Len(now))

\* The cache keeps what was used last.
Remember(found) ==
  LET new  == {i \in DOMAIN found : found[i] # <<>>}
      used == InOrder(new)
      kept == InOrder({i \in DOMAIN blocks : blocks[i].index \notin new})
      now  == [i \in DOMAIN kept |-> blocks[kept[i]]]
              \o [i \in DOMAIN used |-> [index |-> used[i], data |-> found[used[i]]]]
  IN  SubSeq(now, Max({1, Len(now) - BLOCKS_CACHED + 1}), Len(now))

ReadEnds ==
  /\ op.pc = "fetch" /\ op.runs = <<>>
  /\ LET found == Found
         lead  == FileSlice(pos, op.from - pos)
         data  == lead \o Assembled(found, op.from, op.end)
     IN  /\ answer' = [offset |-> pos, want |-> op.want, data |-> data]
         /\ blocks' = Remember(found)
         /\ pos' = pos + Len(data)
  /\ op' = NoRead
  /\ UNCHANGED <<real, alien, reference, docs, head>>

\* Telegram's side, and the cache's clock (or invalidate_document).
Expires(m) ==
  /\ reference[m] <= MaxExpiries /\ reference' = [reference EXCEPT ![m] = @ + 1]
  /\ UNCHANGED <<real, alien, docs, head, pos, blocks, op, answer>>
DocLapses(m) ==
  /\ docs[m] # 0 /\ docs' = [docs EXCEPT ![m] = 0]
  /\ UNCHANGED <<real, alien, reference, head, pos, blocks, op, answer>>

\* Another reader of the account stores the answer it got, perhaps an old one.
OtherStores(m) ==
  /\ m \in DOMAIN Table /\ IsExpected(m)
  /\ \E v \in 1 .. reference[m] : docs' = [docs EXCEPT ![m] = v]
  /\ UNCHANGED <<real, alien, reference, head, pos, blocks, op, answer>>

Work ==
  \/ DocCached \/ DocFetch \/ DocStore \/ PieceRead
  \/ ReferenceExpired \/ ReadRaises \/ ReadEnds
ReaderNext ==
  \/ Read \/ ReadWindow \/ Work
  \/ \E m \in Messages : Expires(m) \/ DocLapses(m) \/ OtherStores(m)

ReaderSpec == ReaderInit /\ [][ReaderNext]_readerVars

(***************************************************************************)
(* Properties.                                                             *)
(***************************************************************************)

\* The cache of a reader is bounded and holds no block twice.
ReaderTypeOK ==
  /\ Len(blocks) <= BLOCKS_CACHED
  /\ Cardinality(Cached) = Len(blocks)
  /\ op.pc \in {"idle", "fetch", "store", "read", "refresh"}

\* Whatever was read before, evicted, renewed or failed, and wherever the
\* parts, requests and blocks end, a read returns exactly the bytes of the
\* file at its offset, all that was asked for as far as the file goes
\* (tgio.py:1527-1532); a message of another file is never passed off as it.
ReadIsExact ==
  answer.data = FileSlice(answer.offset, answer.want)

\* A block that stays in the cache holds the bytes of the file it stands for.
CacheIsExact ==
  \A i \in DOMAIN blocks :
    blocks[i].data = FileSlice(blocks[i].index * BLOCK_SIZE, BLOCK_SIZE)
=============================================================================
