---------------------------- MODULE GameDownload ----------------------------
(* The local copy of one game of the drive (gamestate.GameState) and the two *)
(* ways its files get there: the download job of the web page and the copy   *)
(* Explorer's verb asks for (fetchlocal.LocalFetcher).                       *)
(*                                                                           *)
(* Both copy file by file into <name>.part and rename it over <name>.  The   *)
(* job unlinks the completion marker first, skips a file that has the right  *)
(* size, honours cancellation and writes the marker at the end; Explorer's   *)
(* copy does none of these, and nothing keeps the two apart.  A file is the  *)
(* sequence of its chunks, each a version of the game or a Hole that a write *)
(* past the end left.  As on Windows, a file somebody has open can be opened *)
(* for writing again, but neither deleted nor renamed.                       *)
EXTENDS Naturals, Sequences

CONSTANTS
    Files,            \* the files of the game's folder
    Versions,         \* what was uploaded as the game, one after the other
    Length,           \* Length[v][f]: chunks of f in version v
    NoVersion,        \* not a version: the folder is not on the drive
    Hole,             \* bytes nobody wrote
    Absent,           \* no such local file
    MaxUploads,       \* changes of the game on the drive
    MaxFetches,       \* download requests of the page
    MaxCopies,        \* requests of Explorer's verb
    MaxFaults         \* failed or short reads, failed saves and restarts

ASSUME LengthAssumption ==
    /\ Length \in [Versions -> [Files -> Nat]]
    /\ {NoVersion, Hole, Absent} \cap Versions = {}

Job == "job"
Explorer == "explorer"
Copiers == {Job, Explorer}

VARIABLES
    remote,    \* the version on the drive
    dest,      \* Files -> the local file under its own name
    part,      \* Files -> the local .part file
    marker,    \* .reina-complete exists in the root
    mapped,    \* reina-games.json knows the root of this path
    job,       \* the newest DownloadJob of the path; alone: history, Explorer's
               \* verb renamed no file since it began
    copy,      \* Copiers -> its run of fetch_segments
    budget,    \* what is left of the bounds
    whole,     \* history: what an undisturbed job promised when it wrote the marker
    suspect    \* history: files whose bytes no size check vouches for

vars == <<remote, dest, part, marker, mapped, job, copy, budget, whole, suspect>>

NoJob == [pc |-> "none", cancel |-> FALSE, alone |-> TRUE]
NoCopy == [pc |-> "idle", version |-> NoVersion, todo |-> {}, file |-> Absent,
           pos |-> 0, clean |-> TRUE]

Chunks(v, f) == [i \in 1..Length[v][f] |-> v]

\* job is None or job.finished.is_set()
Active == job.pc \notin {"none", "finished"}

\* cancel is the job's event; Explorer's copy has none.
Cancelled(w) == w = Job /\ job.cancel

Other(w) == CHOOSE x \in Copiers : x # w

\* Somebody else has the .part file of f open.
HeldByOther(w, f) == copy[Other(w)].pc = "write" /\ copy[Other(w)].file = f

\* Another copy is between opening and renaming the same .part file.
SharedWith(w, f) == copy[Other(w)].pc \in {"write", "closed"} /\ copy[Other(w)].file = f

Init ==
    /\ remote \in Versions
    /\ dest = [f \in Files |-> Absent]
    /\ part = [f \in Files |-> Absent]
    /\ marker = FALSE /\ mapped = FALSE
    /\ job = NoJob
    /\ copy = [w \in Copiers |-> NoCopy]
    /\ budget = [uploads |-> MaxUploads, fetches |-> MaxFetches, copies |-> MaxCopies,
                 faults |-> MaxFaults]
    /\ whole = NoVersion
    /\ suspect = {}

Spend(b) == budget[b] > 0 /\ budget' = [budget EXCEPT ![b] = @ - 1]
-----------------------------------------------------------------------------
(* The page's requests: GameState.fetch, cancel and states. *)

\* A second request while a job runs gets the state of that job.
Fetch ==
    /\ ~Active
    /\ Spend("fetches")
    /\ job' = [NoJob EXCEPT !.pc = "start"]
    /\ UNCHANGED <<remote, dest, part, marker, mapped, copy, whole, suspect>>

\* Refused with 409 unless the job is active; _lock keeps it out of the end of
\* _run_download.
Cancel ==
    /\ Active /\ job.pc # "saved" /\ ~job.cancel
    /\ job' = [job EXCEPT !.cancel = TRUE]
    /\ UNCHANGED <<remote, dest, part, marker, mapped, copy, budget, whole, suspect>>

\* What the page is told: an active job first, then the marker, then whether
\* the root exists.  The root of a path the map does not know is derived from
\* the drive.
Status ==
    CASE Active -> "downloading"
      [] ~Active /\ marker /\ (mapped \/ remote # NoVersion) -> "ready"
      [] OTHER ->
            IF (mapped \/ remote # NoVersion)
               /\ \E f \in Files : dest[f] # Absent \/ part[f] # Absent
            THEN "incomplete" ELSE "absent"
-----------------------------------------------------------------------------
(* GameState._run_download, around the copy. *)

EndJob == job' = [job EXCEPT !.pc = "finished"]

\* Mutant: The marker stays until the new one replaces it.
MutStart ==
    /\ job.pc = "start"
    /\ IF remote = NoVersion
       THEN EndJob /\ UNCHANGED copy
       ELSE /\ job' = [job EXCEPT !.pc = "fetching"]
            /\ copy' = [copy EXCEPT ![Job] = [NoCopy EXCEPT !.pc = "plan"]]
    /\ UNCHANGED <<remote, dest, part, marker, mapped, budget, whole, suspect>>

\* destination_for resolves and plans once; the marker goes before any file
\* may change.  A folder that is not on the drive ends the job.
Start ==
    /\ job.pc = "start"
    /\ IF remote = NoVersion
       THEN EndJob /\ UNCHANGED <<marker, copy>>
       ELSE /\ marker' = FALSE
            /\ job' = [job EXCEPT !.pc = "fetching"]
            /\ copy' = [copy EXCEPT ![Job] = [NoCopy EXCEPT !.pc = "plan"]]
    /\ UNCHANGED <<remote, dest, part, mapped, budget, whole, suspect>>

\* Under _lock: the job that was not cancelled saves the root first ...
SaveRoot ==
    /\ job.pc = "fetching" /\ copy[Job].pc = "ok" /\ ~job.cancel
    /\ mapped' = TRUE
    /\ job' = [job EXCEPT !.pc = "saved"]
    /\ UNCHANGED <<remote, dest, part, marker, copy, budget, whole, suspect>>

\* ... and then writes the marker.
Complete ==
    /\ job.pc = "saved"
    /\ marker' = TRUE
    /\ whole' = IF job.alone THEN copy[Job].version ELSE NoVersion
    /\ copy' = [copy EXCEPT ![Job] = NoCopy]
    /\ EndJob
    /\ UNCHANGED <<remote, dest, part, mapped, budget, suspect>>

\* No OK line, or cancelled: the job ends without the marker.
EndWithout ==
    /\ job.pc = "fetching"
    /\ copy[Job].pc = "ended" \/ (copy[Job].pc = "ok" /\ job.cancel)
    /\ copy' = [copy EXCEPT ![Job] = NoCopy]
    /\ EndJob
    /\ UNCHANGED <<remote, dest, part, marker, mapped, budget, whole, suspect>>

\* The map or the marker cannot be written (_atomic_write raises).
SaveFails ==
    /\ job.pc \in {"fetching", "saved"} /\ copy[Job].pc = "ok" /\ ~job.cancel
    /\ Spend("faults")
    /\ copy' = [copy EXCEPT ![Job] = NoCopy]
    /\ EndJob
    /\ UNCHANGED <<remote, dest, part, marker, mapped, whole, suspect>>
-----------------------------------------------------------------------------
(* LocalFetcher.fetch_segments, run by the job or by Explorer's request. *)

\* The verb's POST to /rpc/fetch-local.
AskExplorer ==
    /\ copy[Explorer].pc = "idle"
    /\ Spend("copies")
    /\ copy' = [copy EXCEPT ![Explorer] = [NoCopy EXCEPT !.pc = "plan"]]
    /\ UNCHANGED <<remote, dest, part, marker, mapped, job, whole, suspect>>

\* The response of Explorer's request is over; the job reads the last line.
Over(w, pc) == IF w = Explorer THEN NoCopy ELSE [copy[w] EXCEPT !.pc = pc]

\* Mutant: A failed copy is tried again from the top, for as long as it takes.
MutGiveUp(w) ==
    copy' = [copy EXCEPT ![w] = IF w = Explorer THEN NoCopy
                                ELSE [NoCopy EXCEPT !.pc = "plan"]]

\* An ERROR or CANCELLED line ends the copy.
GiveUp(w) == copy' = [copy EXCEPT ![w] = Over(w, "ended")]

\* Resolves and lists the folder again: the plan keeps the entries it saw.
Plan(w) ==
    /\ copy[w].pc = "plan"
    /\ IF remote = NoVersion
       THEN GiveUp(w)
       ELSE copy' = [copy EXCEPT ![w].pc = "item", ![w].version = remote, ![w].todo = Files]
    /\ UNCHANGED <<remote, dest, part, marker, mapped, job, budget, whole, suspect>>

NextItem(w) == [copy[w] EXCEPT !.pc = "item", !.todo = @ \ {copy[w].file},
                               !.file = Absent, !.pos = 0, !.clean = TRUE]

\* The items of a plan have the order of the listing.
NextOf(w) == CHOOSE f \in copy[w].todo : TRUE

\* The job removes a .part file that was left, which fails while Explorer's
\* copy writes it, and skips a file of the planned size.
TakeItem(w) ==
    LET f == NextOf(w)
        refused == Cancelled(w) \/ (w = Job /\ HeldByOther(w, f))
        skips == /\ w = Job /\ dest[f] # Absent
                 /\ Len(dest[f]) = Length[copy[w].version][f] IN
    /\ copy[w].pc = "item" /\ copy[w].todo # {}
    /\ \/ refused /\ GiveUp(w) /\ UNCHANGED part
       \/ /\ ~refused
          /\ part' = IF w = Job THEN [part EXCEPT ![f] = Absent] ELSE part
          /\ copy' = [copy EXCEPT ![w] =
                         IF skips THEN [copy[w] EXCEPT !.todo = @ \ {f}]
                         ELSE [copy[w] EXCEPT !.pc = "open", !.file = f]]
    /\ UNCHANGED <<remote, dest, marker, mapped, job, budget, whole, suspect>>

\* open(.., "wb") truncates what is there, whoever wrote it.
Open(w) ==
    LET f == copy[w].file IN
    /\ copy[w].pc = "open"
    /\ part' = [part EXCEPT ![f] = <<>>]
    /\ copy' = [copy EXCEPT ![w].pc = "write", ![w].pos = 0,
                            ![w].clean = ~SharedWith(w, f),
                            ![Other(w)].clean = @ /\ ~SharedWith(w, f)]
    /\ UNCHANGED <<remote, dest, marker, mapped, job, budget, whole, suspect>>

\* A chunk at the writer's own position; what lies between is zeros.
Put(bytes, at, v) ==
    [i \in 1..(IF Len(bytes) > at THEN Len(bytes) ELSE at + 1) |->
        IF i = at + 1 THEN v ELSE IF i <= Len(bytes) THEN bytes[i] ELSE Hole]

\* One chunk, then the cancel check; CANCELLED leaves the .part file.
WriteChunk(w) ==
    LET c == copy[w] IN
    /\ c.pc = "write" /\ c.pos < Length[c.version][c.file]
    /\ part' = [part EXCEPT ![c.file] = Put(@, c.pos, c.version)]
    /\ IF Cancelled(w) THEN GiveUp(w)
       ELSE copy' = [copy EXCEPT ![w].pos = @ + 1]
    /\ UNCHANGED <<remote, dest, marker, mapped, job, budget, whole, suspect>>

\* The source is exhausted and both files are closed.
Close(w) ==
    LET c == copy[w] IN
    /\ c.pc = "write" /\ c.pos = Length[c.version][c.file]
    /\ copy' = [copy EXCEPT ![w].pc = "closed"]
    /\ UNCHANGED <<remote, dest, part, marker, mapped, job, budget, whole, suspect>>

\* The source ends early: a staged file that shrank after it was planned.
ShortRead(w) ==
    LET c == copy[w] IN
    /\ c.pc = "write" /\ c.pos < Length[c.version][c.file]
    /\ Spend("faults")
    /\ copy' = [copy EXCEPT ![w].pc = "closed"]
    /\ UNCHANGED <<remote, dest, part, marker, mapped, job, whole, suspect>>

\* What the error path leaves of the .part file: it is removed unless the copy
\* was cancelled or somebody else has it open.
AfterError(w, f) ==
    IF Cancelled(w) \/ HeldByOther(w, f) THEN part ELSE [part EXCEPT ![f] = Absent]

\* The source cannot be opened or read, or the disk is full.
CopyFails(w) ==
    /\ copy[w].pc \in {"open", "write"}
    /\ Spend("faults")
    /\ part' = AfterError(w, copy[w].file)
    /\ GiveUp(w)
    /\ UNCHANGED <<remote, dest, marker, mapped, job, whole, suspect>>

\* Mutant: A file that was short is renamed all the same.
MutShort(w) == FALSE

\* The size check is the job's alone.
Short(w) == w = Job /\ copy[w].pos # Length[copy[w].version][copy[w].file]

\* os.replace needs a .part file that nobody has open.
Renames(w) == part[copy[w].file] # Absent /\ ~HeldByOther(w, copy[w].file)

\* ERROR for a short file or a rename that fails; CANCELLED keeps the .part.
Refuse(w) ==
    LET f == copy[w].file IN
    /\ copy[w].pc = "closed"
    /\ Short(w) \/ Cancelled(w) \/ ~Renames(w)
    /\ part' = IF Short(w) /\ ~HeldByOther(w, f)
               THEN [part EXCEPT ![f] = Absent] ELSE AfterError(w, f)
    /\ GiveUp(w)
    /\ UNCHANGED <<remote, dest, marker, mapped, job, budget, whole, suspect>>

Install(w) ==
    LET c == copy[w]
        f == c.file IN
    /\ c.pc = "closed"
    /\ ~Short(w) /\ ~Cancelled(w) /\ Renames(w)
    /\ dest' = [dest EXCEPT ![f] = part[f]]
    /\ part' = [part EXCEPT ![f] = Absent]
    /\ copy' = [copy EXCEPT ![w] = NextItem(w)]
    /\ suspect' = IF c.clean /\ (w = Job \/ c.pos = Length[c.version][f])
                  THEN suspect \ {f} ELSE suspect \cup {f}
    /\ IF w = Explorer
       THEN whole' = NoVersion /\ job' = [job EXCEPT !.alone = FALSE]
       ELSE UNCHANGED <<whole, job>>
    /\ UNCHANGED <<remote, marker, mapped, budget>>

\* Every file is done: OK, unless cancelled by now.
AllDone(w) ==
    /\ copy[w].pc = "item" /\ copy[w].todo = {}
    /\ copy' = [copy EXCEPT ![w] = Over(w, IF Cancelled(w) THEN "ended" ELSE "ok")]
    /\ UNCHANGED <<remote, dest, part, marker, mapped, job, budget, whole, suspect>>
-----------------------------------------------------------------------------
(* Surroundings. *)

\* The client of the verb goes away: the response generator is closed at a
\* progress line, and no handler of the copy sees that.
Disconnect ==
    /\ copy[Explorer].pc \in {"item", "write"}
    /\ copy' = [copy EXCEPT ![Explorer] = NoCopy]
    /\ UNCHANGED <<remote, dest, part, marker, mapped, job, budget, whole, suspect>>

\* The game is uploaded again, or removed from the drive.
Reupload ==
    /\ Spend("uploads")
    /\ remote' \in (Versions \cup {NoVersion}) \ {remote}
    /\ UNCHANGED <<dest, part, marker, mapped, job, copy, whole, suspect>>

\* The bridge dies and is started again: jobs and copies are gone.
Crash ==
    /\ Active \/ copy[Explorer].pc # "idle"
    /\ Spend("faults")
    /\ job' = NoJob
    /\ copy' = [w \in Copiers |-> NoCopy]
    /\ UNCHANGED <<remote, dest, part, marker, mapped, whole, suspect>>

CopyStep(w) ==
    \/ Plan(w) \/ TakeItem(w) \/ Open(w) \/ WriteChunk(w)
    \/ Close(w) \/ Refuse(w) \/ Install(w) \/ AllDone(w)

JobStep == Start \/ SaveRoot \/ Complete \/ EndWithout \/ CopyStep(Job)

Next ==
    \/ Fetch \/ Cancel
    \/ JobStep \/ SaveFails
    \/ AskExplorer \/ CopyStep(Explorer) \/ Disconnect
    \/ \E w \in Copiers : ShortRead(w) \/ CopyFails(w)
    \/ Reupload \/ Crash

\* The job's thread runs until _run_download returns; nothing is assumed of the
\* page, of Explorer or of the drive.
Spec == Init /\ [][Next]_vars
FairSpec == Spec /\ WF_vars(JobStep)
-----------------------------------------------------------------------------
(* Properties. *)

Pieces == Versions \cup {Hole}
LocalFile(b) == b = Absent \/ b \in Seq(Pieces)

\* The values the variables take.
TypeOK ==
    /\ remote \in Versions \cup {NoVersion} /\ whole \in Versions \cup {NoVersion}
    /\ \A f \in Files : LocalFile(dest[f]) /\ LocalFile(part[f])
    /\ marker \in BOOLEAN /\ mapped \in BOOLEAN
    /\ job \in [pc : {"none", "start", "fetching", "saved", "finished"}, cancel : BOOLEAN,
               alone : BOOLEAN]
    /\ copy \in [Copiers ->
          [pc : {"idle", "plan", "item", "open", "write", "closed", "ok", "ended"},
           version : Versions \cup {NoVersion}, todo : SUBSET Files,
           file : Files \cup {Absent}, pos : Nat, clean : BOOLEAN]]
    /\ suspect \subseteq Files

IsWhole(f) == dest[f] # Absent /\ \E v \in Versions : dest[f] = Chunks(v, f)

\* A file under its own name is one whole version of it, whatever was cancelled,
\* failed, crashed or copied at the same time: unless two copies had its .part
\* file in hand at once, or Explorer's copy took a short one for complete.
FilesAreWhole == \A f \in Files \ suspect : dest[f] = Absent \/ IsWhole(f)

\* A game with a marker is reported ready and stays so when its folder leaves
\* the drive, and, as long as Explorer's verb has not written into it, each file
\* the download planned is there, whole and of the size that was planned.
ReadyIsWhole ==
    marker /\ ~Active =>
        /\ Status = "ready"
        /\ whole # NoVersion =>
              \A f \in Files \ suspect : IsWhole(f) /\ Len(dest[f]) = Length[whole][f]

\* A download job ends, whatever happens to its folder and its files: until then
\* every further request of the page is answered with the old job.
DownloadEnds == Active ~> ~Active
=============================================================================
