----------------------------- MODULE GameStager -----------------------------
(***************************************************************************)
(* Writes below /game (gamestage.py, and the staging resources of          *)
(* bridge.py).  A first-level item of the staging directory is a unit.     *)
(* When a unit has been quiet for the debounce window the loop packs it    *)
(* into an archive, uploads and registers that, and deletes the unit.      *)
(*                                                                         *)
(* A unit is a folder, which is zipped, a .rar, which is extracted and     *)
(* zipped, or any other file, which is uploaded as it is.  Files and rars  *)
(* have the one member 1.  The directory has Windows semantics: an open    *)
(* file is neither unlinked nor renamed.  Units have distinct pack names   *)
(* (a folder X beside an X.rar would share X.zip).                         *)
(***************************************************************************)
EXTENDS Integers, FiniteSets

CONSTANTS
    Folders, Files, Rars,  \* the units of each kind
    NumMembers,            \* files a folder may hold, in packing order
    Clients, Contents,
    MaxAttempts,           \* MAX_ATTEMPTS
    MaxRequests,           \* bound on the requests of the clients
    MaxFaults, MaxCrashes, \* bounds on failures and on crashes of the bridge
    BusyWrites,            \* clients write to a unit the loop handles or keeps
                           \* a pack of, and copy files that are being written
    LongWrites,            \* a PUT may outlast WRITER_STALE_SECONDS
    CrashDuringPut,        \* the bridge may die in the middle of a PUT
    PackMayFail            \* a member of a folder may be unreadable

Units == Folders \cup Files \cup Rars
Members(u) == IF u \in Folders THEN 1 .. NumMembers ELSE {1}
AllMembers == 1 .. NumMembers

Absent == "absent"
Partial == "partial"     \* what a PUT that has not ended, or never did, leaves
NoUnit == "none"

ASSUME GameStagerAssumption ==
    /\ NumMembers \in Nat \ {0}
    /\ MaxAttempts \in Nat \ {0}
    /\ MaxRequests \in Nat /\ MaxFaults \in Nat /\ MaxCrashes \in Nat
    /\ {BusyWrites, LongWrites, CrashDuringPut, PackMayFail} \subseteq BOOLEAN
    /\ Contents \cap {Absent, Partial} = {}
    /\ NoUnit \notin Units

VARIABLES
    tree,      \* the staged bytes of each member
    there,     \* the first-level item exists in staging_dir
    unit,      \* _units
    pack,      \* the unit's zip in pack_dir: none, torn, or what it holds
    req,       \* the PUT or GET each client has under way
    loop,      \* _process: its place, its unit, the next member, what it packs
    due,       \* units _due has returned that _process has yet to take
    archives,  \* what the drive holds under the unit's upload name
    requests, faults, crashes,
    acked      \* history: content the client was told is stored

vars == <<tree, there, unit, pack, req, loop, due, archives, requests, faults,
          crashes, acked>>
local == <<tree, there, req, requests, crashes, acked>>

-----------------------------------------------------------------------------
(* Unit records *)

NoRecord == [state |-> "none", attempts |-> 0, writers |-> 0]
Fresh == [NoRecord EXCEPT !.state = "staging"]
Empty == [m \in AllMembers |-> Absent]

\* touch
Touched(r) ==
    IF r.state = "none" THEN Fresh
    ELSE IF r.state \in {"done", "failed"}
    THEN [r EXCEPT !.state = "staging", !.attempts = 0]
    ELSE r

\* A zip without its central directory is Torn.
NoPack == [kind |-> "none", zip |-> Empty]
Torn == [kind |-> "torn", zip |-> Empty]
Zip(zip) == [kind |-> "zip", zip |-> zip]

Idle == [pc |-> "idle", unit |-> NoUnit, member |-> 1]
Rest == [pc |-> "idle", unit |-> NoUnit, next |-> 1, zip |-> Empty]

Open(u, m) == {c \in Clients : req[c].unit = u /\ req[c].member = m}

\* A PUT or a GET has the file open, or the upload of a file unit.
Held(u, m) ==
    \/ Open(u, m) # {}
    \/ loop.pc = "sending" /\ loop.unit = u /\ u \in Files

Busy(u) == u \in due \/ loop.unit = u \/ pack[u] # NoPack

\* A client changes unit u.
Request(u) ==
    /\ requests < MaxRequests
    /\ BusyWrites \/ ~Busy(u)
    /\ requests' = requests + 1

-----------------------------------------------------------------------------
(* WebDAV clients *)

\* MKCOL of a first-level folder.
Mkdir(u) ==
    /\ u \in Folders
    /\ Request(u)
    /\ ~there[u]
    /\ there' = [there EXCEPT ![u] = TRUE]
    /\ unit' = [unit EXCEPT ![u] = Touched(@)]
    /\ UNCHANGED <<tree, pack, req, loop, due, archives, faults, crashes, acked>>

WriterAdded(r) == [r EXCEPT !.writers = @ + 1]

\* create_empty_resource and begin_write: the file is created or truncated, and
\* the client has given up what it held.
PutBegin(c, u, m) ==
    /\ Request(u)
    /\ req[c].pc = "idle"
    /\ m \in Members(u)
    /\ \A d \in Open(u, m) : req[d].pc = "reading" /\ BusyWrites
    /\ there' = [there EXCEPT ![u] = TRUE]
    /\ tree' = [tree EXCEPT ![u][m] = Partial]
    /\ unit' = [unit EXCEPT ![u] = WriterAdded(Touched(@))]
    /\ req' = [req EXCEPT ![c] = [pc |-> "writing", unit |-> u, member |-> m]]
    /\ acked' = [acked EXCEPT ![u][m] = Absent]
    /\ UNCHANGED <<pack, loop, due, archives, faults, crashes>>

WriterGone(r) == [r EXCEPT !.writers = IF @ > 0 THEN @ - 1 ELSE 0]

\* The body has arrived: the handle is closed, end_write(ok=True).
PutEnd(c, v) ==
    LET u == req[c].unit
        m == req[c].member IN
    /\ req[c].pc = "writing"
    /\ tree' = [tree EXCEPT ![u][m] = v]
    /\ unit' = [unit EXCEPT ![u] = Touched(WriterGone(@))]
    /\ req' = [req EXCEPT ![c] = Idle]
    /\ acked' = [acked EXCEPT ![u][m] = v]
    /\ UNCHANGED <<there, pack, loop, due, archives, requests, faults, crashes>>

\* Mutant of PutFail: the truncated member stays in the unit.
MutKeepTruncated(c) ==
    LET u == req[c].unit IN
    /\ faults < MaxFaults
    /\ req[c].pc = "writing"
    /\ unit' = [unit EXCEPT ![u] = Touched(WriterGone(@))]
    /\ req' = [req EXCEPT ![c] = Idle]
    /\ faults' = faults + 1
    /\ UNCHANGED <<tree, there, pack, loop, due, archives, requests, crashes, acked>>

\* The body breaks off: end_write(ok=False) drops this one file, and nothing
\* else of the unit.
PutFail(c) ==
    LET u == req[c].unit
        m == req[c].member
        stuck == Open(u, m) # {c} \/ (loop.pc = "sending" /\ loop.unit = u) IN
    /\ faults < MaxFaults
    /\ req[c].pc = "writing"
    /\ tree' = IF stuck THEN tree ELSE [tree EXCEPT ![u][m] = Absent]
    /\ there' = [there EXCEPT ![u] = u \in Folders \/ stuck]
    /\ unit' = [unit EXCEPT ![u] = Touched(WriterGone(@))]
    /\ req' = [req EXCEPT ![c] = Idle]
    /\ faults' = faults + 1
    /\ UNCHANGED <<pack, loop, due, archives, requests, crashes, acked>>

GetBegin(c, u, m) ==
    /\ requests < MaxRequests
    /\ req[c].pc = "idle"
    /\ tree[u][m] # Absent
    /\ BusyWrites \/ tree[u][m] # Partial
    /\ req' = [req EXCEPT ![c] = [pc |-> "reading", unit |-> u, member |-> m]]
    /\ requests' = requests + 1
    /\ UNCHANGED <<tree, there, unit, pack, loop, due, archives, faults, crashes,
                   acked>>

GetEnd(c) ==
    /\ req[c].pc = "reading"
    /\ req' = [req EXCEPT ![c] = Idle]
    /\ UNCHANGED <<tree, there, unit, pack, loop, due, archives, requests, faults,
                   crashes, acked>>

\* DELETE of one file; an open one stays, and the client is not told.
Delete(u, m) ==
    /\ Request(u)
    /\ tree[u][m] # Absent
    /\ tree' = IF Held(u, m) THEN tree ELSE [tree EXCEPT ![u][m] = Absent]
    /\ there' = [there EXCEPT ![u] = u \in Folders \/ Held(u, m)]
    /\ unit' = [unit EXCEPT ![u] = Touched(@)]
    /\ acked' = [acked EXCEPT ![u][m] = Absent]
    /\ UNCHANGED <<pack, req, loop, due, archives, faults, crashes>>

\* What rmtree(ignore_errors) leaves of a unit.
Leftover(u) == [m \in AllMembers |-> IF Held(u, m) THEN tree[u][m] ELSE Absent]

\* DELETE of a first-level folder.
DeleteFolder(u) ==
    /\ u \in Folders
    /\ Request(u)
    /\ there[u]
    /\ tree' = [tree EXCEPT ![u] = Leftover(u)]
    /\ there' = [there EXCEPT ![u] = Leftover(u) # Empty]
    /\ unit' = [unit EXCEPT ![u] = Touched(@)]
    /\ acked' = [acked EXCEPT ![u] = Empty]
    /\ UNCHANGED <<pack, req, loop, due, archives, faults, crashes>>

\* COPY or MOVE of a staged file over another one (copy, move): only the
\* destination is touched.
CopyMove(u, m, w, n, isMove) ==
    /\ Request(w)
    /\ BusyWrites \/ ~Busy(u)
    /\ <<u, m>> # <<w, n>>
    /\ tree[u][m] # Absent
    /\ BusyWrites \/ tree[u][m] # Partial
    /\ n \in Members(w) /\ ~Held(w, n)
    /\ isMove => ~Held(u, m)
    /\ LET copied == [tree EXCEPT ![w][n] = tree[u][m]]
           told == [acked EXCEPT ![w][n] = acked[u][m]] IN
       /\ tree' = IF isMove THEN [copied EXCEPT ![u][m] = Absent] ELSE copied
       /\ acked' = IF isMove THEN [told EXCEPT ![u][m] = Absent] ELSE told
    /\ there' = [there EXCEPT ![w] = TRUE,
                              ![u] = u = w \/ u \in Folders \/ ~isMove]
    /\ unit' = [unit EXCEPT ![w] = Touched(@)]
    /\ UNCHANGED <<pack, req, loop, due, archives, faults, crashes>>

\* MOVE of a first-level folder to a new name.  The record of the old name goes
\* with the next tick; a folder with an open file cannot be renamed.
MoveFolder(u, w) ==
    /\ {u, w} \subseteq Folders
    /\ Request(w)
    /\ BusyWrites \/ ~Busy(u)
    /\ there[u] /\ ~there[w]
    /\ \A m \in AllMembers : Open(u, m) = {}
    /\ tree' = [tree EXCEPT ![w] = tree[u], ![u] = Empty]
    /\ there' = [there EXCEPT ![w] = TRUE, ![u] = FALSE]
    /\ acked' = [acked EXCEPT
          ![w] = [m \in AllMembers |->
                     IF tree[u][m] = Absent THEN acked[w][m] ELSE acked[u][m]],
          ![u] = [m \in AllMembers |->
                     IF tree[u][m] = Absent THEN acked[u][m] ELSE Absent]]
    /\ unit' = [unit EXCEPT ![w] = Touched(@)]
    /\ UNCHANGED <<pack, req, loop, due, archives, faults, crashes>>

-----------------------------------------------------------------------------
(* _due *)

\* What _due asks of a unit, except that it has been quiet for the debounce
\* window, and a failed one past its retry_after.
Eligible(u) ==
    /\ there[u]
    /\ unit[u].state \in {"staging", "failed"}
    /\ unit[u].writers = 0 \/ LongWrites

\* The units whose time has come are listed all at once, and the list is then
\* worked off: nothing is asked again of a unit that waits its turn.
Due(ready) ==
    /\ loop.pc = "idle" /\ due = {}
    /\ \A u \in ready : Eligible(u)
    /\ due' = ready
    /\ unit' = [u \in Units |->
                   IF u \in ready THEN [unit[u] EXCEPT !.state = "packing"]
                   ELSE IF ~there[u] /\ unit[u].state # "uploading" THEN NoRecord
                   ELSE IF there[u] /\ unit[u].state = "none" THEN Fresh
                   ELSE unit[u]]
    /\ unit' # unit
    /\ UNCHANGED <<local, pack, loop, archives, faults>>

DueTakes(u) == \E ready \in SUBSET Units : u \in ready /\ Due(ready)

-----------------------------------------------------------------------------
(* _process *)

At(pc, u, next, zip) == loop' = [pc |-> pc, unit |-> u, next |-> next, zip |-> zip]

SetState(u, state) ==
    unit' = IF unit[u].state = "none" THEN unit
            ELSE [unit EXCEPT ![u].state = state]

\* _upload_and_register takes the archive, or the bytes the file has now.
Send(u, zip) ==
    /\ At("sending", u, 1, zip)
    /\ SetState(u, "uploading")

\* _pack of a file unit.
TakeFile(u) ==
    /\ loop.pc = "idle" /\ u \in due
    /\ u \in Files /\ there[u]
    /\ due' = due \ {u}
    /\ Send(u, tree[u])
    /\ UNCHANGED <<local, pack, archives, faults>>

\* Mutant of Reusable: whatever an earlier attempt left is taken for its pack.
MutReuseTorn(p) == p.kind # "none"

\* _reusable: is_zipfile only looks for a central directory.
Reusable(p) == p.kind = "zip"

\* _pack, _convert: the pack of an earlier attempt is used as it is.
ReusePack(u) ==
    /\ loop.pc = "idle" /\ u \in due
    /\ u \in Files => ~there[u]
    /\ Reusable(pack[u])
    /\ due' = due \ {u}
    /\ Send(u, pack[u].zip)
    /\ UNCHANGED <<local, pack, archives, faults>>

\* A unit that is gone by now is no file: _write_zip finds nothing below it.
PackStart(u) ==
    /\ loop.pc = "idle" /\ u \in due
    /\ u \in Files => ~there[u]
    /\ ~Reusable(pack[u])
    /\ due' = due \ {u}
    /\ pack' = [pack EXCEPT ![u] = Torn]
    /\ At("packing", u, 1, Empty)
    /\ UNCHANGED <<local, unit, archives, faults>>

\* _write_zip adds the files in order.
PackMember ==
    /\ loop.pc = "packing" /\ loop.next <= NumMembers
    /\ loop' = [loop EXCEPT !.next = @ + 1, !.zip[loop.next] = tree[loop.unit][loop.next]]
    /\ UNCHANGED <<local, unit, pack, due, archives, faults>>

\* 7-Zip does not extract a truncated rar.
BadRar == loop.unit \in Rars /\ loop.zip[1] = Partial

PackDone ==
    LET u == loop.unit IN
    /\ loop.pc = "packing" /\ loop.next > NumMembers
    /\ ~BadRar
    /\ pack' = [pack EXCEPT ![u] = Zip(loop.zip)]
    /\ Send(u, loop.zip)
    /\ UNCHANGED <<local, due, archives, faults>>

\* Mutant of RecordFailure: the failure is only logged.
MutFailureKeepsState(u) == unit' = unit

\* The exception handler of _process.
RecordFailure(u) ==
    LET attempts == unit[u].attempts + 1 IN
    unit' = [unit EXCEPT ![u] =
                [@ EXCEPT !.attempts = attempts,
                          !.state = IF attempts >= MaxAttempts THEN "abandoned"
                                    ELSE "failed"]]

Abandoned(u) == unit[u].attempts + 1 >= MaxAttempts

\* A member cannot be read, or 7-Zip fails.  ZipFile writes the central
\* directory when it is left, also by an exception; _convert unlinks the zip
\* then, and _pack does not.
PackFails ==
    LET u == loop.unit IN
    /\ loop.pc = "packing"
    /\ BadRar \/ (faults < MaxFaults /\ (PackMayFail \/ u \in Rars))
    /\ faults' = IF BadRar THEN faults ELSE faults + 1
    /\ pack' = [pack EXCEPT ![u] = IF u \in Rars THEN NoPack ELSE Zip(loop.zip)]
    /\ RecordFailure(u)
    /\ loop' = Rest
    /\ UNCHANGED <<local, due, archives>>

\* The transfer or the registration fails; the pack is kept for the retry and
\* discarded with the last one.
UploadFails ==
    LET u == loop.unit IN
    /\ loop.pc = "sending"
    /\ faults < MaxFaults
    /\ faults' = faults + 1
    /\ pack' = IF Abandoned(u) THEN [pack EXCEPT ![u] = NoPack] ELSE pack
    /\ RecordFailure(u)
    /\ loop' = Rest
    /\ UNCHANGED <<local, due, archives>>

Registered(u, zip) == archives' = [archives EXCEPT ![u] = @ \cup {zip}]

Uploaded ==
    LET u == loop.unit IN
    /\ loop.pc = "sending"
    /\ Registered(u, loop.zip)
    /\ SetState(u, "done")
    /\ loop' = [loop EXCEPT !.pc = "clearing"]
    /\ UNCHANGED <<local, pack, due, faults>>

\* rmtree, or unlink: open files stay.
Clear ==
    LET u == loop.unit IN
    /\ loop.pc = "clearing"
    /\ u \in Folders \/ ~Held(u, 1)
    /\ tree' = [tree EXCEPT ![u] = Leftover(u)]
    /\ there' = [there EXCEPT ![u] = Leftover(u) # Empty]
    /\ loop' = [loop EXCEPT !.pc = "cleared"]
    /\ UNCHANGED <<unit, pack, req, due, archives, requests, faults, crashes, acked>>

\* unlink of an open file unit raises after the upload.
ClearRaises ==
    LET u == loop.unit IN
    /\ loop.pc = "clearing"
    /\ u \notin Folders /\ Held(u, 1)
    /\ pack' = IF Abandoned(u) THEN [pack EXCEPT ![u] = NoPack] ELSE pack
    /\ RecordFailure(u)
    /\ loop' = Rest
    /\ UNCHANGED <<local, due, archives, faults>>

\* The pack is unlinked and the record popped.
Finish ==
    LET u == loop.unit IN
    /\ loop.pc = "cleared"
    /\ pack' = [pack EXCEPT ![u] = NoPack]
    /\ unit' = [unit EXCEPT ![u] = NoRecord]
    /\ loop' = Rest
    /\ UNCHANGED <<local, due, archives, faults>>

\* The process dies and starts again (_adopt_leftovers): what is staged is
\* adopted as new, packs stay where they are.
CrashRestart ==
    /\ crashes < MaxCrashes
    /\ CrashDuringPut \/ \A c \in Clients : req[c].pc # "writing"
    /\ crashes' = crashes + 1
    /\ req' = [c \in Clients |-> Idle]
    /\ loop' = Rest
    /\ due' = {}
    /\ unit' = [u \in Units |-> IF there[u] THEN Fresh ELSE NoRecord]
    /\ UNCHANGED <<tree, there, pack, archives, requests, faults, acked>>

-----------------------------------------------------------------------------
Init ==
    /\ tree = [u \in Units |-> Empty]
    /\ there = [u \in Units |-> FALSE]
    /\ unit = [u \in Units |-> NoRecord]
    /\ pack = [u \in Units |-> NoPack]
    /\ req = [c \in Clients |-> Idle]
    /\ loop = Rest
    /\ due = {}
    /\ archives = [u \in Units |-> {}]
    /\ requests = 0 /\ faults = 0 /\ crashes = 0
    /\ acked = [u \in Units |-> Empty]

Serve(c) ==
    \/ \E u \in Units, m \in AllMembers : PutBegin(c, u, m) \/ GetBegin(c, u, m)
    \/ \E v \in Contents : PutEnd(c, v)
    \/ PutFail(c)
    \/ GetEnd(c)

Manage(u) ==
    \/ Mkdir(u) \/ DeleteFolder(u)
    \/ \E m \in AllMembers : Delete(u, m)
    \/ \E w \in Units : MoveFolder(u, w)
    \/ \E w \in Units, m, n \in AllMembers, isMove \in BOOLEAN :
          CopyMove(u, m, w, n, isMove)

Process ==
    \/ \E u \in Units : TakeFile(u) \/ ReusePack(u) \/ PackStart(u)
    \/ PackMember \/ PackDone \/ Uploaded \/ Clear \/ ClearRaises \/ Finish

Next ==
    \/ \E c \in Clients : Serve(c)
    \/ \E u \in Units : Manage(u)
    \/ \E ready \in SUBSET Units : Due(ready)
    \/ Process \/ PackFails \/ UploadFails
    \/ CrashRestart

Spec == Init /\ [][Next]_vars

\* The loop thread ticks as long as the bridge runs, every debounce and retry
\* delay ends, and a request that has begun ends.
Fairness ==
    /\ WF_vars(Due({})) /\ WF_vars(Process)
    /\ \A u \in Units : WF_vars(DueTakes(u))
    /\ \A c \in Clients : WF_vars(GetEnd(c) \/ \E v \in Contents : PutEnd(c, v))

FairSpec == Spec /\ Fairness

-----------------------------------------------------------------------------
(* Properties *)

Bytes == Contents \cup {Absent, Partial}
Zips == [AllMembers -> Bytes]
States == {"none", "staging", "packing", "uploading", "done", "failed", "abandoned"}

\* Every variable keeps its type; in particular _process never records more
\* failures of a unit than MAX_ATTEMPTS, and a unit that waits for its retry
\* has one left.
TypeOK ==
    /\ tree \in [Units -> Zips]
    /\ there \in [Units -> BOOLEAN]
    /\ unit \in [Units -> [state : States, attempts : 0 .. MaxAttempts,
                           writers : Nat]]
    /\ \A u \in Units : unit[u].state = "failed" => unit[u].attempts < MaxAttempts
    /\ pack \in [Units -> [kind : {"none", "torn", "zip"}, zip : Zips]]
    /\ req \in [Clients -> [pc : {"idle", "writing", "reading"}, unit : Units \cup {NoUnit},
                            member : AllMembers]]
    /\ loop \in [pc : {"idle", "packing", "sending", "clearing", "cleared"},
                 unit : Units \cup {NoUnit}, next : 1 .. NumMembers + 1, zip : Zips]
    /\ due \subseteq Units
    /\ archives \in [Units -> SUBSET Zips]
    /\ requests \in 0 .. MaxRequests
    /\ faults \in 0 .. MaxFaults
    /\ crashes \in 0 .. MaxCrashes
    /\ acked \in [Units -> Zips]

Stored(u, m, v) == \E zip \in archives[u] : zip[m] = v

\* A file the client was told is stored is in the staging directory or in an
\* archive of its unit on the drive, whatever fails or crashes in between:
\* _process deletes the only local copy.
NoLostGame ==
    \A u \in Units : \A m \in Members(u) :
        acked[u][m] \in Contents =>
            tree[u][m] = acked[u][m] \/ Stored(u, m, acked[u][m])

\* No archive holds a file that was still being written, or never was
\* completely (the writer count of begin_write, end_write's discard).
WholeMembersOnly ==
    \A u \in Units : \A zip \in archives[u] : \A m \in AllMembers : zip[m] # Partial

\* Since the clients stop writing one day, every file they were told is stored
\* is on the drive in the end, unless its unit was given up after MAX_ATTEMPTS
\* failures: no unit is forgotten by _due, _process or a restart.
AckedIsUploaded ==
    []<>(\A u \in Units :
            \/ unit[u].state = "abandoned"
            \/ \A m \in Members(u) :
                  acked[u][m] \in Contents => Stored(u, m, acked[u][m]))

=============================================================================
