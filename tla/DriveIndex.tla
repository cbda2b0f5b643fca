----------------------------- MODULE DriveIndex -----------------------------
(***************************************************************************)
(* The drive's metadata as the bridge sees it (tdapi.py, and the requests  *)
(* of bridge.py that change it): rows of the backend, listings cached in   *)
(* memory and on disk, the part tables of split files kept for ever, and   *)
(* the worker threads that walk paths and change rows through them.        *)
(*                                                                         *)
(* A row is numbered in the order of its created_at, so the newest row of  *)
(* a name is the one with the largest number.  A listing keeps the names    *)
(* its rows had when they were read; `read' and `suspect' are history: when *)
(* the backend was read, and whether a change of that folder overlapped the *)
(* listing or was never reported to the bridge.                            *)
(***************************************************************************)
EXTENDS Integers, Sequences, FiniteSets, SequencesExt, FiniteSetsExt, Ordered

CONSTANTS
  Workers,      \* request threads of the DAV server, warm-up and uploads
  Asks,         \* the requests they are given
  InitialRows,  \* the rows of the drive when the bridge starts
  TTL,          \* dir_cache_seconds
  PAGE_SIZE,
  MaxAsks, MaxRows, MaxClock, MaxRestarts, MaxLost   \* bounds

Root == 0
Folders == Root .. MaxRows

\* A part is a message of an account; `whole' is history: the messages that the
\* content of a file was sent in.
Part == Nat \X Nat
RowType ==
  [name : STRING, dir : BOOLEAN, parent : Folders, live : BOOLEAN, split : BOOLEAN,
   parts : Seq(Part), whole : Seq(Part)]

ASSUME DriveAssumption ==
  /\ TTL \in Nat \ {0} /\ PAGE_SIZE \in Nat \ {0}
  /\ {MaxAsks, MaxRows, MaxClock, MaxRestarts, MaxLost} \subseteq Nat
  /\ Len(InitialRows) <= MaxRows
  /\ InitialRows \in Seq(RowType)
  /\ \A i \in DOMAIN InitialRows :
       LET row == InitialRows[i] IN
       /\ row.parent \in Root .. Len(InitialRows)
       /\ row.dir => row.parts = <<>> /\ ~row.split
       /\ ~row.dir => row.parts # <<>>
  /\ \A ask \in Asks :
       /\ ask.kind \in {"get", "delete", "move", "copy", "mkcol", "put"}
       /\ ask.path \in Seq(STRING) \ {<<>>} /\ ask.fresh \in BOOLEAN
       /\ ask.kind \in {"move", "copy"} => ask.dest \in Seq(STRING) \ {<<>>}
       /\ ask.kind = "put" => ask.parts \in Seq(Part) \ {<<>>} /\ IsInjective(ask.parts)

VARIABLES
  rows,      \* the rows of the backend, oldest first
  memory,    \* _dir_cache
  disk,      \* meta/dirs
  tables,    \* _split_cache: row -> its part table
  task,      \* what each worker is doing
  clock,
  asked, restarts, lost

vars == <<rows, memory, disk, tables, task, clock, asked, restarts, lost>>
bounds == <<asked, restarts, lost>>

(***************************************************************************)
(* The backend.                                                            *)
(***************************************************************************)

\* The first part of every key.
DedupBy(parts, keys) ==
  LET first == {i \in DOMAIN parts : \A j \in 1 .. i - 1 : keys[j] # keys[i]}
      order == InOrder(first)
  IN  [n \in DOMAIN order |-> parts[order[n]]]
\* Mutant: a message is known by its number, whoever's it is.
MutIdentity(parts) == [i \in DOMAIN parts |-> parts[i][2]]
Identity(parts) == [i \in DOMAIN parts |-> parts[i]]
Number(parts) == [i \in DOMAIN parts |-> parts[i][2]]

\* The files on the drive were registered part by part and in order, perhaps some
\* parts twice, perhaps not all of them.
ASSUME FilesAssumption ==
  \A i \in DOMAIN InitialRows :
    LET row == InitialRows[i]
        kept == DedupBy(row.parts, Identity(row.parts)) IN
    ~row.dir => /\ IsInjective(row.whole)
                /\ ~row.split => row.parts = row.whole /\ Len(row.parts) = 1
                /\ IsPrefix(kept, row.whole)

Children(p) == {i \in DOMAIN rows : rows[i].live /\ rows[i].parent = p}
OfKind(p, kind) == {i \in Children(p) : rows[i].dir = (kind = "folders")}
Name(i) == [row |-> i, name |-> rows[i].name]
Now(p) == {Name(i) : i \in Children(p)}
IsFolder(p) == p = Root \/ (p \in DOMAIN rows /\ rows[p].dir /\ rows[p].live)
\* Rows under a folder, itself included.
Subtree(i) == {i} \cup {j \in DOMAIN rows : rows[j].parent = i}

Kinds == {"folders", "files"}
Page(p, kind, n) ==
  LET all == InOrder(OfKind(p, kind))
  IN  SubSeq(all, (n - 1) * PAGE_SIZE + 1, Min({n * PAGE_SIZE, Len(all)}))

(***************************************************************************)
(* Listings and their caches.                                              *)
(***************************************************************************)

NoListing == [at |-> -1]
Listing(at, names, read, suspect) ==
  [at |-> at, names |-> names, read |-> read, suspect |-> suspect]

\* list_dir asks memory for a listing younger than the TTL, and the disk for
\* one that is not older.
DiskFresh(p) == disk[p] # NoListing /\ clock - disk[p].at <= TTL
\* Mutant: a listing in memory may be as old as one on the disk.
MutMemoryFresh(p) == memory[p] # NoListing /\ clock - memory[p].at <= TTL
MemoryFresh(p) == memory[p] # NoListing /\ clock - memory[p].at < TTL

\* children_by_name: the newest row of a name.
Newest(names, name) ==
  LET ids == {e.row : e \in {x \in names : x.name = name}}
  IN  IF ids = {} THEN Root ELSE Max(ids)

NoTable == [parts |-> <<>>, whole |-> FALSE]

Idle == [pc |-> "idle"]
NoPage == [page |-> [k \in Kinds |-> 1], count |-> [k \in Kinds |-> 0]]
Start(ask) ==
  [pc |-> "walk", ask |-> ask, leg |-> "source", path |-> ask.path, at |-> Root,
   source |-> Root, from |-> Root, into |-> Root, touched |-> {},
   names |-> {}, start |-> 0, read |-> 0, clean |-> TRUE,
   page |-> NoPage.page, count |-> NoPage.count, more |-> {}, left |-> <<>>, whole |-> <<>>, new |-> Root]

\* The folders a worker has changed and whose caches it has not dropped yet.
Changing(p) == \E w \in Workers : task[w].pc \in {"pop", "unlink"} /\ p \in task[w].touched

\* A change of the folders in S spoils the listings of them that are under way.
Spoil(S) ==
  [w \in Workers |->
     IF task[w].pc \in {"disk", "pages", "persist"} /\ task[w].at \in S
     THEN [task[w] EXCEPT !.clean = FALSE] ELSE task[w]]
Doubt(cache, S) ==
  [p \in Folders |-> IF p \in S /\ cache[p] # NoListing
                     THEN [cache[p] EXCEPT !.suspect = TRUE] ELSE cache[p]]

Init ==
  /\ rows = InitialRows
  /\ memory = [p \in Folders |-> NoListing]
  /\ \/ disk = [p \in Folders |-> NoListing]
     \/ disk = [p \in Folders |-> IF IsFolder(p) THEN Listing(0, Now(p), 0, FALSE)
                                  ELSE NoListing]
  /\ tables = [i \in 1 .. MaxRows |-> NoTable]
  /\ task = [w \in Workers |-> Idle]
  /\ clock = 0 /\ asked = 0 /\ restarts = 0 /\ lost = 0

(***************************************************************************)
(* Walking a path.                                                         *)
(***************************************************************************)

FolderAt(path) ==
  IF path = <<>> THEN Root ELSE Newest(Now(Root), path[1])
Shown(path) ==
  LET p == FolderAt(Front(path))
  IN  (Len(path) = 1 \/ p # Root) /\ Newest(Now(p), Last(path)) # Root

\* A request comes in.  A name whose upload is pending is answered from its
\* staged file (Resolver.resolve); a move or a copy goes to a free name of a
\* folder that is there, or the server has refused it.
Begin(w, ask) ==
  /\ task[w] = Idle /\ asked < MaxAsks
  /\ ask.kind = "get" => ~\E v \in Workers : /\ task[v] # Idle /\ task[v].ask.kind = "put"
                                             /\ task[v].ask.path = ask.path
  /\ ask.kind \in {"move", "copy"} =>
       /\ Len(ask.dest) = 1 \/ FolderAt(Front(ask.dest)) # Root
       /\ ~Shown(ask.dest)
  /\ asked' = asked + 1
  /\ task' = [task EXCEPT ![w] =
       IF ask.kind # "put" THEN Start(ask)
       ELSE IF Len(ask.path) = 1 THEN [Start(ask) EXCEPT !.pc = "post", !.left = ask.parts,
                                                         !.whole = ask.parts]
       ELSE [Start(ask) EXCEPT !.leg = "dest", !.path = Front(ask.path),
                               !.left = ask.parts, !.whole = ask.parts]]
  /\ UNCHANGED <<rows, memory, disk, tables, clock, restarts, lost>>

\* The target folder is known: a copy of a split file fetches the group anew
\* (duplicate), any other change is posted.
Ready(t, folder) ==
  LET file == t.ask.kind = "copy" /\ ~rows[t.source].dir
      u == [t EXCEPT !.into = folder, !.pc = "post"]
  IN  IF ~file THEN u
      ELSE IF rows[t.source].split THEN [u EXCEPT !.pc = "group"]
      ELSE [u EXCEPT !.left = << <<0, rows[t.source].parts[1][2]>> >>,
                     !.whole = rows[t.source].parts]

\* What a request does with the row its path leads to; Root: there is none.
\* A target folder that is not found any more is taken to be the root.
Arrive(t, row) ==
  LET kind == t.ask.kind
      t2 == [t EXCEPT !.source = row, !.from = t.at]
      dest == Front(IF kind = "mkcol" THEN t.ask.path ELSE t.ask.dest)
      parent == IF row # Root /\ rows[row].dir THEN row ELSE Root
      refused == IF kind = "mkcol" THEN row # Root ELSE row = Root
  IN  CASE t.leg = "dest" /\ kind \in {"move", "copy"} -> Ready(t, row)
        [] t.leg = "dest" /\ kind \in {"mkcol", "put"} ->
             IF parent = Root THEN Idle ELSE Ready(t, parent)
        [] t.leg = "source" /\ refused -> Idle
        [] t.leg = "source" /\ ~refused /\ kind = "get" ->
             IF rows[row].dir THEN Idle ELSE [t2 EXCEPT !.pc = "parts"]
        [] t.leg = "source" /\ ~refused /\ kind = "delete" -> [t2 EXCEPT !.pc = "post"]
        [] OTHER ->
             IF dest = <<>> THEN Ready(t2, Root)
             ELSE [t2 EXCEPT !.leg = "dest", !.path = dest, !.at = Root, !.pc = "walk"]

\* The listing of the folder at hand gives the next row of the path.
Descend(t, names) ==
  LET row == Newest(names, Head(t.path))
      t2 == [t EXCEPT !.pc = "walk", !.names = {}, !.start = 0, !.read = 0, !.clean = TRUE,
                      !.page = NoPage.page, !.count = NoPage.count]
  IN  CASE Len(t.path) = 1 -> Arrive(t2, row)
        [] Len(t.path) > 1 /\ row # Root /\ rows[row].dir ->
             [t2 EXCEPT !.path = Tail(t.path), !.at = row]
        [] OTHER -> Arrive(t2, Root)

MemoryHit(w) ==
  LET t == task[w] IN
  /\ t.pc = "walk" /\ ~t.ask.fresh /\ MemoryFresh(t.at)
  /\ task' = [task EXCEPT ![w] = Descend(t, memory[t.at].names)]
  /\ UNCHANGED <<rows, memory, disk, tables, clock, bounds>>

\* _dir_from_disk, and then the rows go to memory with the time of now.
DiskHit(w) ==
  LET t == task[w] IN
  /\ t.pc = "walk" /\ ~t.ask.fresh /\ ~MemoryFresh(t.at) /\ DiskFresh(t.at)
  /\ task' = [task EXCEPT ![w] =
       [t EXCEPT !.pc = "disk", !.names = disk[t.at].names, !.read = disk[t.at].read,
                 !.start = clock, !.clean = ~disk[t.at].suspect /\ ~Changing(t.at)]]
  /\ UNCHANGED <<rows, memory, disk, tables, clock, bounds>>

FillMemory(w) ==
  LET t == task[w] IN
  /\ t.pc = "disk"
  /\ memory' = [memory EXCEPT ![t.at] = Listing(t.start, t.names, t.read, ~t.clean)]
  /\ task' = [task EXCEPT ![w] = Descend(t, t.names)]
  /\ UNCHANGED <<rows, disk, tables, clock, bounds>>

\* _list_both: folders and files are fetched side by side, page by page.
Miss(w) ==
  LET t == task[w] IN
  /\ t.pc = "walk" /\ (t.ask.fresh \/ (~MemoryFresh(t.at) /\ ~DiskFresh(t.at)))
  /\ task' = [task EXCEPT ![w] =
       [t EXCEPT !.pc = "pages", !.start = clock, !.read = clock, !.names = {},
                 !.clean = ~Changing(t.at), !.more = Kinds,
                 !.page = NoPage.page, !.count = NoPage.count]]
  /\ UNCHANGED <<rows, memory, disk, tables, clock, bounds>>

ReadPage(w, kind) ==
  LET t == task[w]
      batch == Page(t.at, kind, t.page[kind])
      got == t.count[kind] + Len(batch)
      last == Len(batch) < PAGE_SIZE \/ got >= Cardinality(OfKind(t.at, kind))
  IN
  /\ t.pc = "pages" /\ kind \in t.more
  /\ task' = [task EXCEPT ![w] =
       [t EXCEPT !.names = @ \cup {Name(i) : i \in ToSet(batch)},
                 !.count = [@ EXCEPT ![kind] = got],
                 !.page = [@ EXCEPT ![kind] = t.page[kind] + 1],
                 !.more = IF last THEN @ \ {kind} ELSE @]]
  /\ UNCHANGED <<rows, memory, disk, tables, clock, bounds>>

KeepListing(w) ==
  LET t == task[w] IN
  /\ t.pc = "pages" /\ t.more = {}
  /\ memory' = [memory EXCEPT ![t.at] = Listing(t.start, t.names, t.read, ~t.clean)]
  /\ task' = [task EXCEPT ![w].pc = "persist"]
  /\ UNCHANGED <<rows, disk, tables, clock, bounds>>

Persist(w) ==
  LET t == task[w] IN
  /\ t.pc = "persist"
  /\ disk' = [disk EXCEPT ![t.at] = Listing(t.start, t.names, t.read, ~t.clean)]
  /\ task' = [task EXCEPT ![w] = Descend(t, t.names)]
  /\ UNCHANGED <<rows, memory, tables, clock, bounds>>

(***************************************************************************)
(* The parts of a file (parts_for).                                        *)
(***************************************************************************)

AllThere(row) == ToSet(rows[row].parts) = ToSet(rows[row].whole)

\* A file in one message, or a split file whose table is kept already.
PartsKnown(w) ==
  LET t == task[w]
      row == t.source
  IN
  /\ t.pc = "parts" /\ (rows[row].split => tables[row] # NoTable)
  /\ task' = [task EXCEPT ![w] = Idle]
  /\ UNCHANGED <<rows, memory, disk, tables, clock, bounds>>

FetchParts(w) ==
  LET t == task[w]
      row == t.source
  IN
  /\ t.pc = "parts" /\ rows[row].split /\ tables[row] = NoTable
  /\ task' = [task EXCEPT ![w] =
       [t EXCEPT !.pc = "table", !.clean = AllThere(row),
                 !.left = DedupBy(rows[row].parts, Identity(rows[row].parts))]]
  /\ UNCHANGED <<rows, memory, disk, tables, clock, bounds>>

KeepTable(w) ==
  LET t == task[w] IN
  /\ t.pc = "table"
  /\ tables' = [tables EXCEPT ![t.source] = [parts |-> t.left, whole |-> t.clean]]
  /\ task' = [task EXCEPT ![w] = Idle]
  /\ UNCHANGED <<rows, memory, disk, clock, bounds>>

(***************************************************************************)
(* Changes: the backend first, then memory, then the disk.                 *)
(***************************************************************************)

\* duplicate: the rows of the group, one for each message number; the account
\* of a part is not handed on.
FetchGroup(w) ==
  LET t == task[w]
      group == rows[t.source].parts
      numbers == DedupBy(group, Number(group))
  IN
  /\ t.pc = "group"
  /\ task' = [task EXCEPT ![w] =
       [t EXCEPT !.pc = "post", !.whole = DedupBy(group, Identity(group)),
                 !.left = [i \in DOMAIN numbers |-> <<0, numbers[i][2]>>]]]
  /\ UNCHANGED <<rows, memory, disk, tables, clock, bounds>>

FileRow(t, name) ==
  [name |-> name, dir |-> FALSE, parent |-> t.into, live |-> TRUE,
   split |-> Len(t.left) > 1, parts |-> <<Head(t.left)>>, whole |-> t.whole]
DirRow(t, name) ==
  [name |-> name, dir |-> TRUE, parent |-> t.into, live |-> TRUE,
   split |-> FALSE, parts |-> <<>>, whole |-> <<>>]

NewDir(t) == t.ask.kind = "mkcol" \/ (t.ask.kind = "copy" /\ rows[t.source].dir)
NewName(t) == Last(IF t.ask.kind \in {"move", "copy"} THEN t.ask.dest ELSE t.ask.path)

\* What the call does to the rows, and the folders it changes.
Effect(t) ==
  CASE t.ask.kind = "delete" ->
         [rows |-> [i \in DOMAIN rows |-> IF i \in Subtree(t.source)
                                          THEN [rows[i] EXCEPT !.live = FALSE] ELSE rows[i]],
          touched |-> {rows[t.source].parent}]
    [] t.ask.kind = "move" ->
         [rows |-> [rows EXCEPT ![t.source] = [@ EXCEPT !.parent = t.into, !.name = NewName(t)]],
          touched |-> {rows[t.source].parent, t.into}]
    [] NewDir(t) ->
         [rows |-> Append(rows, DirRow(t, NewName(t))), touched |-> {t.into}]
    [] OTHER ->
         [rows |-> IF t.new = Root THEN Append(rows, FileRow(t, NewName(t)))
                   ELSE [rows EXCEPT ![t.new].parts = Append(@, Head(t.left))],
          touched |-> {t.into}]

\* create_folder, register, trash and move up to the answer of the backend.
Post(w) ==
  LET t == task[w]
      effect == Effect(t)
      registers == t.left # <<>>
      \* trash knows only the folder its listing showed the row in
      missed == IF t.ask.kind = "delete" THEN effect.touched \ {t.from} ELSE {}
  IN
  /\ t.pc = "post" /\ Len(effect.rows) <= MaxRows
  /\ rows' = effect.rows
  /\ memory' = Doubt(memory, missed) /\ disk' = Doubt(disk, missed)
  /\ task' = [Spoil(effect.touched) EXCEPT ![w] =
       [t EXCEPT !.pc = "pop", !.touched = effect.touched,
                 !.left = IF registers THEN Tail(@) ELSE @,
                 !.new = IF registers /\ @ = Root THEN Len(rows') ELSE @]]
  /\ UNCHANGED <<tables, clock, bounds>>

\* The backend refuses the call.
PostFails(w) ==
  /\ task[w].pc = "post"
  /\ task' = [task EXCEPT ![w] = Idle]
  /\ UNCHANGED <<rows, memory, disk, tables, clock, bounds>>

\* The backend makes the change and its answer never comes.
PostLost(w) ==
  LET effect == Effect(task[w]) IN
  /\ task[w].pc = "post" /\ Len(effect.rows) <= MaxRows /\ lost < MaxLost
  /\ rows' = effect.rows /\ lost' = lost + 1
  /\ memory' = Doubt(memory, effect.touched) /\ disk' = Doubt(disk, effect.touched)
  /\ task' = [Spoil(effect.touched) EXCEPT ![w] = Idle]
  /\ UNCHANGED <<tables, clock, asked, restarts>>

WebAsk == [kind |-> "web", path |-> <<>>, fresh |-> FALSE]

\* Somebody changes a row at the web page, and then calls /rpc/forget.
WebChange(w, row) ==
  /\ task[w] = Idle /\ asked < MaxAsks /\ rows[row].live
  /\ rows' = [i \in DOMAIN rows |-> IF i \in Subtree(row)
                                    THEN [rows[i] EXCEPT !.live = FALSE] ELSE rows[i]]
  /\ asked' = asked + 1
  /\ task' = [Spoil({rows[row].parent}) EXCEPT ![w] =
       [Start(WebAsk)
          EXCEPT !.pc = "pop", !.touched = {rows[row].parent}]]
  /\ UNCHANGED <<memory, disk, tables, clock, restarts, lost>>

\* invalidate() after a move or a forget, invalidate(parent) after a new row,
\* _discard_cached_entry after a delete.
All == Folders
\* Mutant: a move drops only the folder it moves to.
MutDropped(t) == IF t.ask.kind = "web" THEN All ELSE {t.into}
Dropped(t) == IF t.ask.kind \in {"move", "web"} THEN All ELSE {t.into}
Without(listing, row) ==
  IF listing = NoListing THEN NoListing
  ELSE [listing EXCEPT !.names = {e \in @ : e.row # row}]

PopMemory(w) ==
  LET t == task[w] IN
  /\ t.pc = "pop"
  /\ memory' = IF t.ask.kind = "delete"
               THEN [memory EXCEPT ![t.from] = Without(@, t.source)]
               ELSE [p \in Folders |-> IF p \in Dropped(t) THEN NoListing ELSE memory[p]]
  /\ task' = [task EXCEPT ![w].pc = "unlink"]
  /\ UNCHANGED <<rows, disk, tables, clock, bounds>>

UnlinkDisk(w) ==
  LET t == task[w]
      gone == IF t.ask.kind = "delete" THEN {t.from} ELSE Dropped(t)
  IN
  /\ t.pc = "unlink"
  /\ disk' = [p \in Folders |-> IF p \in gone THEN NoListing ELSE disk[p]]
  /\ task' = [task EXCEPT ![w] = IF t.left = <<>> THEN Idle ELSE [t EXCEPT !.pc = "post"]]
  /\ UNCHANGED <<rows, memory, tables, clock, bounds>>

(***************************************************************************)
(* The rest of the world.                                                  *)
(***************************************************************************)

Tick ==
  /\ clock < MaxClock /\ clock' = clock + 1
  /\ UNCHANGED <<rows, memory, disk, tables, task, bounds>>

\* The bridge is restarted: the listings on disk and the tables stay.
Restart ==
  /\ restarts < MaxRestarts /\ restarts' = restarts + 1
  /\ memory' = [p \in Folders |-> NoListing]
  /\ disk' = Doubt(disk, {p \in Folders : Changing(p)})
  /\ task' = [w \in Workers |-> Idle]
  /\ UNCHANGED <<rows, tables, clock, asked, lost>>

Next ==
  \/ \E w \in Workers, ask \in Asks : Begin(w, ask)
  \/ \E w \in Workers, row \in DOMAIN rows : WebChange(w, row)
  \/ \E w \in Workers : \/ MemoryHit(w) \/ DiskHit(w) \/ FillMemory(w) \/ Miss(w)
                        \/ KeepListing(w) \/ Persist(w) \/ FetchGroup(w)
                        \/ PartsKnown(w) \/ FetchParts(w) \/ KeepTable(w)
                        \/ Post(w) \/ PostFails(w) \/ PostLost(w)
                        \/ PopMemory(w) \/ UnlinkDisk(w)
  \/ \E w \in Workers, kind \in Kinds : ReadPage(w, kind)
  \/ Tick \/ Restart

Spec == Init /\ [][Next]_vars

(***************************************************************************)
(* Properties.                                                             *)
(***************************************************************************)

TypeOK ==
  /\ Len(rows) <= MaxRows
  /\ \A i \in DOMAIN rows : /\ rows[i].parent \in Root .. Len(rows)
                            /\ ~rows[i].dir => ToSet(rows[i].parts) # {}
  /\ \A p \in Folders :
       \A c \in {memory[p], disk[p]} \ {NoListing} :
         /\ c.at <= clock /\ c.read <= clock /\ c.suspect \in BOOLEAN
         /\ \A e \in c.names : e.row \in DOMAIN rows
  /\ \A w \in Workers :
       task[w].pc \in {"idle", "walk", "disk", "pages", "persist", "parts", "table",
                       "group", "post", "pop", "unlink"}

\* A cached listing, in memory or on disk, is what the folder holds, once no
\* change of the folder is being made, unless a change overlapped the call that
\* read it or was made without the bridge learning of it: list_dir, the
\* invalidations of register, create_folder, move and trash, and /rpc/forget.
CacheAgrees ==
  \A p \in Folders :
    IsFolder(p) /\ ~Changing(p) =>
      \A c \in {memory[p], disk[p]} : c # NoListing /\ ~c.suspect => c.names = Now(p)

\* What a cache may answer with was read from the backend less than two terms
\* ago: the disk copy may be a term old when it is given a new one in memory
\* (list_dir, _dir_from_disk).
AnswerIsRecent ==
  \A p \in Folders : /\ MemoryFresh(p) => clock - memory[p].read < 2 * TTL
                     /\ DiskFresh(p) => clock - disk[p].read <= TTL

\* What parts_for hands out for a file leads to the messages its content was
\* sent in, in order, when all of its rows were there as its table was read: the
\* dedup of rows, the permanent cache, and the rows a copy writes.
PartsAreExact ==
  \A i \in DOMAIN rows :
    /\ ~rows[i].dir /\ ~rows[i].split => rows[i].parts = rows[i].whole
    /\ tables[i].whole => tables[i].parts = rows[i].whole
=============================================================================
