------------------------ MODULE GameDownloadProofs ------------------------
(* Proofs about GameDownload, for any files, versions and bounds: a file     *)
(* under its own name is one whole version of it, and a game with a marker   *)
(* is ready and has every file the download planned.                         *)
(*                                                                           *)
(* Neither property is inductive.  The invariant Inv adds what they rest on: *)
(*   PlaceInv  the records of the two copies: which step knows a version, a  *)
(*             file, a position within that file;                            *)
(*   JobInv    where the job is when its copy works, and that no marker      *)
(*             exists while it works;                                        *)
(*   PartInv   the .part file of a copy nobody disturbed is the prefix it    *)
(*             wrote, and nobody else has that file in hand;                 *)
(*   DoneInv   the files an undisturbed job has done have the planned size;  *)
(*   ReadyInv  what the marker promises, also while the next job runs.       *)
EXTENDS GameDownload, TLAPS

\* A copy that has a .part file in hand, and one that has its plan.
Working == {"write", "closed"}
Planned == {"item", "open", "write", "closed", "ok"}

\* The records of the copies and of the job.
CopyRec ==
    [pc : {"idle", "plan", "item", "open", "write", "closed", "ok", "ended"},
     version : Versions \cup {NoVersion}, todo : SUBSET Files,
     file : Files \cup {Absent}, pos : Nat, clean : BOOLEAN]
JobRec == [pc : {"none", "start", "fetching", "saved", "finished"}, cancel : BOOLEAN,
           alone : BOOLEAN]

\* Each step of fetch_segments has what the steps before it have set.
Placed(c) ==
    /\ c \in CopyRec
    /\ c.pc \in Planned => c.version \in Versions
    /\ c.pc \in Working \cup {"open"} => c.file \in Files
    /\ c.pc \in Working => c.pos <= Length[c.version][c.file]
    /\ c.pc = "ok" => c.todo = {}

\* The state of the copies, and the types of what is not a file.
PlaceInv == /\ copy = [w \in Copiers |-> copy[w]]
            /\ \A w \in Copiers : Placed(copy[w])
            /\ remote \in Versions \cup {NoVersion}
            /\ job \in JobRec /\ marker \in BOOLEAN /\ mapped \in BOOLEAN

\* The job's copy works only inside _run_download, which has taken the marker
\* away, and ends there; the root is saved before the marker is written.
JobInv ==
    /\ job.pc = "saved" => mapped /\ copy[Job].pc = "ok"
    /\ marker => mapped
    /\ job.pc \in {"fetching", "saved"} => ~marker
    /\ copy[Job].pc # "idle" => job.pc \in {"fetching", "saved"}

\* There are two copiers, and each is the other of the other.
LEMMA OtherCopier ==
    /\ Other(Job) = Explorer /\ Other(Explorer) = Job /\ Job # Explorer
    /\ Copiers = {Job, Explorer}
    /\ \A w \in Copiers : Other(w) \in Copiers /\ Other(w) # w
    /\ \A w, x \in Copiers : x # w => x = Other(w)
<1>1. Copiers = {Job, Explorer} /\ Job # Explorer
  BY DEF Copiers, Job, Explorer
<1>2. \A w \in Copiers : \E x \in Copiers : x # w
  BY <1>1
<1>3. \A w \in Copiers : Other(w) \in Copiers /\ Other(w) # w
  BY <1>2 DEF Other
<1> QED BY <1>1, <1>3

\* A step that replaces one copy's record leaves the other's.
LEMMA OneCopy ==
    ASSUME copy = [x \in Copiers |-> copy[x]], NEW w \in Copiers, NEW c,
           copy' = [copy EXCEPT ![w] = c]
    PROVE  /\ copy' = [x \in Copiers |-> copy'[x]]
           /\ copy'[w] = c /\ copy'[Other(w)] = copy[Other(w)]
           /\ \A x \in Copiers : copy'[x] = IF x = w THEN c ELSE copy[x]
BY OtherCopier

\* The records a copy has before and just after its start.
LEMMA PlacedIdle ==
    /\ Placed(NoCopy) /\ Placed([NoCopy EXCEPT !.pc = "plan"])
    /\ NoCopy.pc = "idle"
    /\ [NoCopy EXCEPT !.pc = "plan"].pc = "plan"
BY DEF Placed, CopyRec, NoCopy, Planned, Working

\* The record of a copy that is over: Explorer's is forgotten, the job's kept.
LEMMA PlacedOver ==
    ASSUME NEW w \in Copiers, Placed(copy[w]), NEW pc \in {"ok", "ended"},
           pc = "ok" => copy[w].pc = "item" /\ copy[w].todo = {}
    PROVE  /\ Placed(Over(w, pc))
           /\ Over(w, pc).pc = IF w = Explorer THEN "idle" ELSE pc
           /\ Over(w, pc).version = IF w = Explorer THEN NoVersion ELSE copy[w].version
           /\ w # Explorer => Over(w, pc).todo = copy[w].todo
<1>1. CASE w = Explorer
  BY <1>1, PlacedIdle DEF Over, NoCopy
<1>2. CASE w # Explorer
  BY <1>2 DEF Over, Placed, CopyRec, Planned, Working
<1> QED BY <1>1, <1>2

\* Every step of a copy but Open replaces its own record alone, by one that
\* Placed allows.
LEMMA CopyMoves ==
    ASSUME PlaceInv, NEW w \in Copiers, CopyStep(w) \/ ShortRead(w) \/ CopyFails(w), ~Open(w)
    PROVE  \E c : copy' = [copy EXCEPT ![w] = c] /\ Placed(c)
<1> USE DEF PlaceInv
<1>c. Placed(copy[w])
  OBVIOUS
<1>o. Placed(Over(w, "ended"))
  BY <1>c, PlacedOver
<1>1. CASE Plan(w)
  <2>1. CASE remote = NoVersion
    BY <1>1, <1>o, <2>1 DEF Plan, GiveUp
  <2>2. CASE remote # NoVersion
    <3>1. Placed([copy[w] EXCEPT !.pc = "item", !.version = remote, !.todo = Files])
      BY <1>c, <2>2 DEF Placed, CopyRec, Planned, Working
    <3> QED BY <1>1, <2>2, <3>1 DEF Plan
  <2> QED BY <2>1, <2>2
<1>2. CASE TakeItem(w)
  <2> DEFINE f == NextOf(w)
  <2>1. copy[w].pc = "item" /\ f \in copy[w].todo /\ f \in Files
    BY <1>2, <1>c DEF TakeItem, NextOf, Placed, CopyRec
  <2> HIDE DEF f
  <2>2. /\ Placed([copy[w] EXCEPT !.todo = @ \ {f}])
        /\ Placed([copy[w] EXCEPT !.pc = "open", !.file = f])
    BY <1>c, <2>1 DEF Placed, CopyRec, Planned, Working
  <2> DEFINE c1 == [copy[w] EXCEPT !.todo = @ \ {f}]
             c2 == [copy[w] EXCEPT !.pc = "open", !.file = f]
  <2>3. CASE GiveUp(w)
    BY <1>o, <2>3 DEF GiveUp
  <2>4. CASE ~GiveUp(w)
    <3>1. \E skips \in BOOLEAN : copy' = [copy EXCEPT ![w] = IF skips THEN c1 ELSE c2]
      BY <1>2, <2>4 DEF TakeItem, f
    <3> HIDE DEF c1, c2
    <3>2. copy' = [copy EXCEPT ![w] = c1] \/ copy' = [copy EXCEPT ![w] = c2]
      BY <3>1
    <3>3. Placed(c1) /\ Placed(c2)
      BY <2>2 DEF c1, c2
    <3> QED BY <3>2, <3>3
  <2> QED BY <2>3, <2>4
<1>3. CASE WriteChunk(w)
  <2>1. CASE Cancelled(w)
    BY <1>3, <1>o, <2>1 DEF WriteChunk, GiveUp
  <2>2. CASE ~Cancelled(w)
    <3>1. copy[w].pc = "write" /\ copy[w].pos < Length[copy[w].version][copy[w].file]
      BY <1>3 DEF WriteChunk
    <3>2. Length[copy[w].version][copy[w].file] \in Nat
      BY <1>c, <3>1, LengthAssumption DEF Placed, Planned, Working
    <3>3. Placed([copy[w] EXCEPT !.pos = @ + 1])
      BY <1>c, <3>1, <3>2 DEF Placed, CopyRec, Planned, Working
    <3> QED BY <1>3, <2>2, <3>3 DEF WriteChunk
  <2> QED BY <2>1, <2>2
<1>4. CASE Close(w) \/ ShortRead(w)
  <2>1. Placed([copy[w] EXCEPT !.pc = "closed"])
    BY <1>4, <1>c DEF Placed, CopyRec, Planned, Working, Close, ShortRead
  <2> QED BY <1>4, <2>1 DEF Close, ShortRead
<1>5. CASE CopyFails(w) \/ Refuse(w)
  BY <1>5, <1>o DEF CopyFails, Refuse, GiveUp
<1>6. CASE Install(w)
  <2>1. Placed(NextItem(w))
    BY <1>6, <1>c DEF Install, NextItem, Placed, CopyRec, Planned, Working
  <2> QED BY <1>6, <2>1 DEF Install
<1>7. CASE AllDone(w)
  BY <1>7, <1>c, PlacedOver DEF AllDone
<1> QED BY <1>1, <1>2, <1>3, <1>4, <1>5, <1>6, <1>7 DEF CopyStep

\* Open starts its copy at position 0; if the other copy has the same .part
\* file in hand, neither is clean any more.
LEMMA OpenMoves ==
    ASSUME PlaceInv, NEW w \in Copiers, Open(w)
    PROVE  LET f == copy[w].file
               x == Other(w)
               shared == SharedWith(w, f) IN
           /\ f \in Files
           /\ copy[w].pc = "open"
           /\ copy' = [y \in Copiers |-> copy'[y]]
           /\ copy'[w] = [copy[w] EXCEPT !.pc = "write", !.pos = 0, !.clean = ~shared]
           /\ copy'[x] = [copy[x] EXCEPT !.clean = @ /\ ~shared]
           /\ Placed(copy'[w]) /\ Placed(copy'[x])
           /\ copy'[w].pc = "write" /\ copy'[w].pos = 0 /\ copy'[w].file = f
           /\ copy'[w].clean = ~shared
           /\ copy'[x].pc = copy[x].pc /\ copy'[x].file = copy[x].file
           /\ copy'[x].pos = copy[x].pos /\ copy'[x].version = copy[x].version
           /\ copy'[x].todo = copy[x].todo
           /\ copy'[x].clean = (copy[x].clean /\ ~shared)
<1> USE DEF PlaceInv
<1>c. Placed(copy[w]) /\ Placed(copy[Other(w)]) /\ copy[w].pc = "open"
  BY OtherCopier DEF Open
<1>s. SharedWith(w, copy[w].file) \in BOOLEAN
  BY DEF SharedWith
<1>1. copy[w].file \in Files /\ copy[w].version \in Versions
  BY <1>c DEF Placed, Planned, Working
<1>2. /\ copy' = [y \in Copiers |-> copy'[y]]
      /\ copy'[w] = [copy[w] EXCEPT !.pc = "write", !.pos = 0,
                                    !.clean = ~SharedWith(w, copy[w].file)]
      /\ copy'[Other(w)] = [copy[Other(w)] EXCEPT
                               !.clean = @ /\ ~SharedWith(w, copy[w].file)]
  BY OtherCopier DEF Open
<1>3. Placed([copy[w] EXCEPT !.pc = "write", !.pos = 0,
                             !.clean = ~SharedWith(w, copy[w].file)])
  <2>1. ASSUME NEW c, NEW b \in BOOLEAN, Placed(c), c.pc = "open"
        PROVE  Placed([c EXCEPT !.pc = "write", !.pos = 0, !.clean = b])
    <3>1. Length[c.version][c.file] \in Nat /\ c \in CopyRec
          /\ c.version \in Versions /\ c.file \in Files
      BY <2>1, LengthAssumption DEF Placed, Planned, Working
    <3> DEFINE d == [c EXCEPT !.pc = "write", !.pos = 0, !.clean = b]
    <3>2. /\ d \in CopyRec /\ d.pc = "write" /\ d.pos = 0
          /\ d.version = c.version /\ d.file = c.file
      BY <3>1 DEF CopyRec
    <3> HIDE DEF d
    <3>3. Placed(d)
      BY <3>1, <3>2 DEF Placed, Planned, Working
    <3> QED BY <3>3 DEF d
  <2> QED BY <2>1, <1>c, <1>s
<1>4. Placed([copy[Other(w)] EXCEPT !.clean = @ /\ ~SharedWith(w, copy[w].file)])
  <2>1. ASSUME NEW c, NEW b \in BOOLEAN, Placed(c) PROVE Placed([c EXCEPT !.clean = @ /\ b])
    BY <2>1 DEF Placed, CopyRec, Planned, Working
  <2> QED BY <2>1, <1>c, <1>s
<1>5. \A b \in BOOLEAN :
        LET c == copy[Other(w)]
            d == [c EXCEPT !.clean = @ /\ b] IN
        /\ d.pc = c.pc /\ d.file = c.file /\ d.pos = c.pos
        /\ d.version = c.version /\ d.todo = c.todo /\ d.clean = (c.clean /\ b)
  BY <1>c DEF Placed, CopyRec
<1>6. \A b \in BOOLEAN :
        LET c == copy[w]
            d == [c EXCEPT !.pc = "write", !.pos = 0, !.clean = b] IN
        d.pc = "write" /\ d.pos = 0 /\ d.file = c.file /\ d.clean = b
  BY <1>c DEF Placed, CopyRec
<1> QED BY <1>c, <1>1, <1>2, <1>3, <1>4, <1>5, <1>6, <1>s

\* The steps that are not steps of a copy.
JobActs == Fetch \/ Cancel \/ Start \/ SaveRoot \/ Complete \/ EndWithout \/ SaveFails
           \/ AskExplorer \/ Disconnect \/ Reupload \/ Crash

\* They touch no file, and start or drop a copy if they touch one at all.
LEMMA JobMoves ==
    ASSUME PlaceInv, JobActs
    PROVE  /\ copy' = [y \in Copiers |-> copy'[y]]
           /\ \A w \in Copiers : \/ copy'[w] = copy[w]
                                  \/ copy'[w] = NoCopy
                                  \/ copy'[w] = [NoCopy EXCEPT !.pc = "plan"]
           /\ UNCHANGED <<dest, part, suspect>>
<1> USE OtherCopier DEF PlaceInv
<1>1. CASE Fetch \/ Cancel \/ SaveRoot \/ Reupload
  BY <1>1 DEF Fetch, Cancel, SaveRoot, Reupload
<1>2. CASE Start
  BY <1>2 DEF Start
<1>3. CASE Complete \/ EndWithout \/ SaveFails
  BY <1>3 DEF Complete, EndWithout, SaveFails
<1>4. CASE AskExplorer \/ Disconnect
  BY <1>4 DEF AskExplorer, Disconnect
<1>5. CASE Crash
  BY <1>5 DEF Crash
<1> QED BY <1>1, <1>2, <1>3, <1>4, <1>5 DEF JobActs

\* Every step keeps the records in place.
LEMMA PlaceStep == PlaceInv /\ [Next]_vars => PlaceInv'
<1> SUFFICES ASSUME PlaceInv, [Next]_vars PROVE PlaceInv'
  OBVIOUS
<1>1. CASE JobActs
  <2>1. /\ copy' = [y \in Copiers |-> copy'[y]] /\ \A w \in Copiers : Placed(copy'[w])
    BY <1>1, JobMoves, PlacedIdle DEF PlaceInv
  <2>2. /\ remote' \in Versions \cup {NoVersion}
        /\ marker' \in BOOLEAN /\ mapped' \in BOOLEAN
    BY <1>1 DEF PlaceInv, JobActs, Fetch, Cancel, Start, SaveRoot, Complete, EndWithout,
                SaveFails, AskExplorer, Disconnect, Reupload, Crash
  <2>3. job' \in JobRec
    <3>1. job' = job \/ job' = NoJob
          \/ job' = [NoJob EXCEPT !.pc = "start"] \/ job' = [job EXCEPT !.cancel = TRUE]
          \/ \E pc \in {"fetching", "saved", "finished"} : job' = [job EXCEPT !.pc = pc]
      BY <1>1 DEF JobActs, Fetch, Cancel, Start, SaveRoot, Complete, EndWithout,
                  SaveFails, AskExplorer, Disconnect, Reupload, Crash, EndJob
    <3>2. job \in JobRec
      BY DEF PlaceInv
    <3>3. \A pc \in {"fetching", "saved", "finished"} : [job EXCEPT !.pc = pc] \in JobRec
      BY <3>2 DEF JobRec
    <3>4. NoJob \in JobRec /\ [NoJob EXCEPT !.pc = "start"] \in JobRec
      BY DEF NoJob, JobRec
    <3>5. [job EXCEPT !.cancel = TRUE] \in JobRec
      BY <3>2 DEF JobRec
    <3> QED BY <3>1, <3>2, <3>3, <3>4, <3>5
  <2> QED BY <2>1, <2>2, <2>3 DEF PlaceInv
<1>2. ASSUME NEW w \in Copiers, CopyStep(w) \/ ShortRead(w) \/ CopyFails(w) PROVE PlaceInv'
  <2>1. /\ copy' = [y \in Copiers |-> copy'[y]] /\ \A y \in Copiers : Placed(copy'[y])
    <3>1. CASE Open(w)
      BY <3>1, OpenMoves, OtherCopier
    <3>2. CASE ~Open(w)
      BY <1>2, <3>2, CopyMoves, OneCopy DEF PlaceInv
    <3> QED BY <3>1, <3>2
  <2>2. UNCHANGED <<remote, marker, mapped>> /\ job' \in JobRec
    BY <1>2 DEF PlaceInv, JobRec, CopyStep, Plan, TakeItem, Open, WriteChunk, Close, Refuse,
                Install, AllDone, ShortRead, CopyFails
  <2> QED BY <2>1, <2>2 DEF PlaceInv
<1>3. CASE UNCHANGED vars
  BY <1>3 DEF vars, PlaceInv
<1> QED BY <1>1, <1>2, <1>3, OtherCopier DEF Next, JobStep, JobActs

\* What a step of a copy leaves of the job and of the other copy.
LEMMA JobUntouched ==
    ASSUME PlaceInv, NEW w \in Copiers, CopyStep(w) \/ ShortRead(w) \/ CopyFails(w)
    PROVE  /\ copy[w].pc \in {"plan", "item", "open", "write", "closed"}
           /\ copy'[Other(w)].pc = copy[Other(w)].pc
           /\ job'.pc = job.pc /\ UNCHANGED <<marker, mapped>>
<1>1. copy[w].pc \in {"plan", "item", "open", "write", "closed"}
  BY DEF CopyStep, Plan, TakeItem, Open, WriteChunk, Close, Refuse, Install, AllDone,
         ShortRead, CopyFails
<1>2. copy'[Other(w)].pc = copy[Other(w)].pc
  <2>1. CASE Open(w)
    BY <2>1, OpenMoves
  <2>2. CASE ~Open(w)
    BY <2>2, CopyMoves, OneCopy DEF PlaceInv
  <2> QED BY <2>1, <2>2
<1>3. job'.pc = job.pc /\ UNCHANGED <<marker, mapped>>
  BY DEF PlaceInv, JobRec, CopyStep, Plan, TakeItem, Open, WriteChunk, Close, Refuse,
         Install, AllDone, ShortRead, CopyFails
<1> QED BY <1>1, <1>2, <1>3

\* Every step keeps the job and its copy together.
LEMMA JobStepInv == PlaceInv /\ JobInv /\ [Next]_vars => JobInv'
<1> SUFFICES ASSUME PlaceInv, JobInv, [Next]_vars PROVE JobInv'
  OBVIOUS
<1> USE OtherCopier
<1>0. job \in JobRec /\ copy = [y \in Copiers |-> copy[y]] /\ marker \in BOOLEAN
  BY DEF PlaceInv
<1>1. CASE Fetch \/ Cancel \/ Reupload
  BY <1>0, <1>1 DEF Fetch, Cancel, Reupload, JobInv, Active, NoJob, JobRec
<1>2. CASE Start
  BY <1>0, <1>2, PlacedIdle DEF Start, JobInv, EndJob, JobRec
<1>3. CASE SaveRoot
  BY <1>0, <1>3 DEF SaveRoot, JobInv, JobRec
<1>4. CASE Complete
  <2>1. job'.pc = "finished" /\ copy'[Job].pc = "idle"
    BY <1>0, <1>4, PlacedIdle DEF Complete, EndJob, JobRec
  <2>2. mapped' = mapped /\ mapped
    BY <1>4 DEF Complete, JobInv
  <2> QED BY <2>1, <2>2 DEF JobInv
<1>5. CASE EndWithout \/ SaveFails
  <2>1. job'.pc = "finished" /\ copy'[Job].pc = "idle"
    BY <1>0, <1>5, PlacedIdle DEF EndWithout, SaveFails, EndJob, JobRec
  <2>2. UNCHANGED <<marker, mapped>>
    BY <1>5 DEF EndWithout, SaveFails
  <2> QED BY <2>1, <2>2 DEF JobInv
<1>6. CASE AskExplorer \/ Disconnect
  <2>1. copy'[Job] = copy[Job] /\ UNCHANGED <<job, marker, mapped>>
    BY <1>0, <1>6 DEF AskExplorer, Disconnect
  <2> QED BY <2>1 DEF JobInv
<1>7. CASE Crash
  <2>1. job'.pc = "none" /\ copy'[Job].pc = "idle" /\ UNCHANGED <<marker, mapped>>
    BY <1>7, PlacedIdle DEF Crash, NoJob
  <2> QED BY <2>1 DEF JobInv
<1>8. ASSUME NEW w \in Copiers, CopyStep(w) \/ ShortRead(w) \/ CopyFails(w) PROVE JobInv'
  <2>1. CASE w = Job
    <3>1. copy[Job].pc \notin {"idle", "ok"}
      BY <1>8, <2>1, JobUntouched
    <3>2. job.pc = "fetching"
      BY <3>1 DEF JobInv
    <3> QED BY <1>8, <3>2, JobUntouched DEF JobInv
  <2>2. CASE w # Job
    BY <1>8, <2>2, JobUntouched DEF JobInv
  <2> QED BY <2>1, <2>2
<1>9. CASE UNCHANGED vars
  BY <1>9 DEF vars, JobInv
<1> QED BY <1>1, <1>2, <1>3, <1>4, <1>5, <1>6, <1>7, <1>8, <1>9 DEF Next, JobStep

-----------------------------------------------------------------------------
\* What an undisturbed copy has written so far.
Prefix(c) == [i \in 1..c.pos |-> c.version]

\* A clean copy has its .part file to itself, holding what it has written; once
\* closed, the job may have removed the file before it was renamed.
PartOK(w) ==
    copy[w].pc \in Working /\ copy[w].clean =>
       /\ ~SharedWith(w, copy[w].file)
       /\ \/ part[copy[w].file] = Prefix(copy[w])
          \/ copy[w].pc = "closed" /\ part[copy[w].file] = Absent

\* ... for both copies.
PartInv == part = [f \in Files |-> part[f]] /\ \A w \in Copiers : PartOK(w)

\* The steps after which their copy has no .part file in hand.
LetsGo(w) == Plan(w) \/ TakeItem(w) \/ CopyFails(w) \/ Refuse(w) \/ Install(w) \/ AllDone(w)

\* They change no .part file that the other copy is writing.
LEMMA LetsGoMoves ==
    ASSUME PlaceInv, part = [f \in Files |-> part[f]], NEW w \in Copiers, LetsGo(w)
    PROVE  /\ copy'[w].pc \notin Working /\ copy'[Other(w)] = copy[Other(w)]
           /\ part' = [f \in Files |-> part'[f]]
           /\ \A f \in Files : part'[f] = part[f] \/ (part'[f] = Absent /\ ~HeldByOther(w, f))
<1>0. copy = [y \in Copiers |-> copy[y]] /\ Placed(copy[w])
  BY DEF PlaceInv
<1>1. copy'[w].pc \notin Working
  <2>1. Over(w, "ended").pc \notin Working
    BY <1>0, PlacedOver DEF Working
  <2>2. CASE GiveUp(w)
    BY <2>1, <2>2, <1>0, OneCopy DEF GiveUp
  <2>3. CASE ~GiveUp(w)
    <3>1. CASE Plan(w)
      BY <1>0, <2>3, <3>1 DEF Plan, Working, Placed, CopyRec
    <3>2. CASE TakeItem(w)
      <4>1. PICK skips \in BOOLEAN, f \in copy[w].todo :
                copy' = [copy EXCEPT ![w] = IF skips THEN [copy[w] EXCEPT !.todo = @ \ {f}]
                                            ELSE [copy[w] EXCEPT !.pc = "open", !.file = f]]
        BY <2>3, <3>2 DEF TakeItem, NextOf
      <4>2. CASE skips
        BY <1>0, <3>2, <4>1, <4>2 DEF Working, TakeItem, Placed, CopyRec
      <4>3. CASE ~skips
        BY <1>0, <4>1, <4>3 DEF Working, Placed, CopyRec
      <4> QED BY <4>2, <4>3
    <3>3. CASE Install(w)
      BY <1>0, <3>3 DEF Install, NextItem, Working, Placed, CopyRec
    <3>4. CASE AllDone(w)
      <4>1. \A pc \in {"ok", "ended"} : Over(w, pc).pc \notin Working
        BY <1>0, <3>4, PlacedOver DEF AllDone, Working
      <4> QED BY <1>0, <3>4, <4>1, OneCopy DEF AllDone
    <3> QED BY <2>3, <3>1, <3>2, <3>3, <3>4 DEF LetsGo, CopyFails, Refuse
  <2> QED BY <2>2, <2>3
<1>2. copy'[Other(w)] = copy[Other(w)]
  <2>1. \E c : copy' = [copy EXCEPT ![w] = c]
    <3>1. ~Open(w)
      BY <1>1, OpenMoves DEF Working
    <3> QED BY <3>1, CopyMoves DEF LetsGo, CopyStep
  <2> QED BY <1>0, <2>1, OneCopy
<1>3. /\ part' = [f \in Files |-> part'[f]]
      /\ \A f \in Files : part'[f] = part[f] \/ (part'[f] = Absent /\ ~HeldByOther(w, f))
  <2>1. CASE Plan(w) \/ AllDone(w)
    BY <2>1 DEF Plan, AllDone
  <2>2. CASE TakeItem(w)
    <3>1. CASE part' = part
      BY <3>1
    <3>2. CASE part' # part
      <4>1. /\ part' = [part EXCEPT ![NextOf(w)] = Absent] /\ w = Job
            /\ ~(w = Job /\ HeldByOther(w, NextOf(w)))
        BY <2>2, <3>2 DEF TakeItem
      <4> QED BY <4>1
    <3> QED BY <3>1, <3>2
  <2>3. CASE CopyFails(w)
    BY <2>3 DEF CopyFails, AfterError
  <2>4. CASE Refuse(w)
    BY <2>4 DEF Refuse, AfterError
  <2>5. CASE Install(w)
    BY <2>5 DEF Install, Renames
  <2> QED BY <2>1, <2>2, <2>3, <2>4, <2>5 DEF LetsGo
<1> QED BY <1>1, <1>2, <1>3

\* Every step keeps the .part files of clean copies: Open spoils the other copy's
\* claim before it truncates, and a removal cannot hit a file that is written.
LEMMA PartStep == PlaceInv /\ PartInv /\ [Next]_vars => PartInv'
<1> SUFFICES ASSUME PlaceInv, PartInv, [Next]_vars PROVE PartInv'
  OBVIOUS
<1> USE OtherCopier
<1>0. /\ copy = [y \in Copiers |-> copy[y]] /\ part = [f \in Files |-> part[f]]
      /\ \A y \in Copiers : Placed(copy[y]) /\ PartOK(y)
  BY DEF PlaceInv, PartInv
<1>1. CASE JobActs
  <2>1. /\ UNCHANGED part
        /\ \A y \in Copiers : copy'[y] = copy[y] \/ copy'[y].pc \notin Working
    BY <1>1, JobMoves, PlacedIdle DEF Working
  <2>2. ASSUME NEW y \in Copiers PROVE PartOK(y)'
    <3>1. CASE copy'[y] = copy[y]
      <4>1. SharedWith(y, copy[y].file)' => SharedWith(y, copy[y].file)
        BY <2>1, <3>1 DEF SharedWith, Working
      <4>2. PartOK(y) /\ part' = part
        BY <1>0, <2>1
      <4> QED BY <3>1, <4>1, <4>2 DEF PartOK
    <3>2. CASE copy'[y].pc \notin Working
      BY <3>2 DEF PartOK
    <3> QED BY <2>1, <3>1, <3>2
  <2> QED BY <1>0, <2>1, <2>2 DEF PartInv
<1>2. ASSUME NEW w \in Copiers, LetsGo(w) PROVE PartInv'
  <2>1. /\ copy'[w].pc \notin Working /\ copy'[Other(w)] = copy[Other(w)]
        /\ part' = [f \in Files |-> part'[f]]
        /\ \A f \in Files : part'[f] = part[f] \/ (part'[f] = Absent /\ ~HeldByOther(w, f))
    BY <1>0, <1>2, LetsGoMoves
  <2>2. PartOK(w)'
    BY <2>1 DEF PartOK
  <2>3. PartOK(Other(w))'
    <3> DEFINE y == Other(w)
    <3>1. y \in Copiers /\ Other(y) = w /\ PartOK(y) /\ copy'[y] = copy[y]
      BY <1>0, <2>1
    <3> HIDE DEF y
    <3>2. ~SharedWith(y, copy[y].file)'
      BY <2>1, <3>1 DEF SharedWith, Working
    <3>3. copy[y].pc \in Working => copy[y].file \in Files
      BY <1>0, <3>1 DEF Placed
    <3>4. HeldByOther(w, copy[y].file) = (copy[y].pc = "write")
      BY DEF HeldByOther, y
    <3>5. PartOK(y)'
      <4> SUFFICES ASSUME copy[y].pc \in Working, copy[y].clean PROVE PartOK(y)'
        BY <3>1 DEF PartOK
      <4>1. \/ part[copy[y].file] = Prefix(copy[y])
            \/ copy[y].pc = "closed" /\ part[copy[y].file] = Absent
        BY <3>1 DEF PartOK
      <4>2. \/ part'[copy[y].file] = part[copy[y].file]
            \/ part'[copy[y].file] = Absent /\ copy[y].pc = "closed"
        BY <2>1, <3>3, <3>4 DEF Working
      <4>3. \/ part'[copy[y].file] = Prefix(copy[y])
            \/ copy[y].pc = "closed" /\ part'[copy[y].file] = Absent
        BY <4>1, <4>2
      <4> QED BY <3>1, <3>2, <4>3 DEF PartOK
    <3> QED BY <3>5 DEF y
  <2> QED BY <2>1, <2>2, <2>3 DEF PartInv
<1>3. ASSUME NEW w \in Copiers, WriteChunk(w) PROVE PartInv'
  <2> DEFINE y == Other(w)
             f == copy[w].file
  <2>1. /\ y \in Copiers /\ Other(y) = w /\ f \in Files /\ copy[w].pc = "write"
        /\ copy[w].pos \in Nat
    BY <1>0, <1>3 DEF WriteChunk, Placed, CopyRec, Working
  <2>2. /\ part' = [part EXCEPT ![f] = Put(@, copy[w].pos, copy[w].version)]
        /\ part' = [g \in Files |-> part'[g]]
    BY <1>0, <1>3 DEF WriteChunk
  <2>3. copy'[y] = copy[y]
    BY <1>0, <1>3, OneCopy DEF WriteChunk, GiveUp
  <2>4. PartOK(y)'
    <3> SUFFICES ASSUME PartOK(y), copy[y].pc \in Working, copy[y].clean PROVE PartOK(y)'
      BY <1>0, <2>1, <2>3 DEF PartOK
    <3>1. copy[y].file # f
      BY <2>1 DEF PartOK, SharedWith
    <3>2. copy[y].file \in Files
      BY <1>0, <2>1 DEF Placed
    <3>3. part'[copy[y].file] = part[copy[y].file]
      BY <1>0, <2>2, <3>1, <3>2
    <3>4. copy'[w].pc \notin Working \/ copy'[w].file = f
      <4>1. CASE Cancelled(w)
        <5>1. copy'[w].pc \in {"idle", "ended"}
          BY <1>0, <1>3, <4>1, PlacedOver, OneCopy DEF WriteChunk, GiveUp
        <5> QED BY <5>1 DEF Working
      <4>2. CASE ~Cancelled(w)
        BY <1>0, <1>3, <4>2 DEF WriteChunk, Placed, CopyRec
      <4> QED BY <4>1, <4>2
    <3>5. ~SharedWith(y, copy[y].file)'
      BY <2>1, <2>3, <3>1, <3>4 DEF SharedWith, Working
    <3> HIDE DEF y, f
    <3> QED BY <2>3, <3>3, <3>5 DEF PartOK, Prefix
  <2>5. PartOK(w)'
    <3>1. CASE Cancelled(w)
      <4>1. copy'[w].pc \in {"idle", "ended"}
        BY <1>0, <1>3, <3>1, PlacedOver, OneCopy DEF WriteChunk, GiveUp
      <4> QED BY <4>1 DEF PartOK, Working
    <3>2. CASE ~Cancelled(w)
      <4>1. /\ copy'[w].pc = "write" /\ copy'[w].pos = copy[w].pos + 1
            /\ copy'[w].version = copy[w].version /\ copy'[w].file = f
            /\ copy'[w].clean = copy[w].clean
        BY <1>0, <1>3, <3>2 DEF WriteChunk, Placed, CopyRec
      <4> SUFFICES ASSUME copy[w].clean PROVE PartOK(w)'
        BY <4>1 DEF PartOK
      <4>2. ~SharedWith(w, f) /\ part[f] = Prefix(copy[w])
        BY <1>0, <2>1 DEF PartOK, Working
      <4>3. ~SharedWith(w, copy[w].file)'
        BY <2>3, <4>1, <4>2 DEF SharedWith
      <4>4. part'[f] = Put(Prefix(copy[w]), copy[w].pos, copy[w].version)
        BY <1>0, <2>1, <2>2, <4>2
      <4> DEFINE n == copy[w].pos
                 v == copy[w].version
      <4>5. /\ Len(Prefix(copy[w])) = n /\ \A i \in 1..n : Prefix(copy[w])[i] = v
        BY <2>1 DEF Prefix
      <4>6. Put(Prefix(copy[w]), n, v) = [i \in 1..n + 1 |-> v]
        <5> HIDE DEF n, v
        <5>1. n \in Nat
          BY <2>1 DEF n
        <5> QED BY <4>5, <5>1 DEF Put
      <4>7. part'[f] = Prefix(copy'[w])
        BY <4>1, <4>4, <4>6 DEF Prefix
      <4> QED BY <4>1, <4>3, <4>7 DEF PartOK, Working
    <3> QED BY <3>1, <3>2
  <2> QED BY <2>2, <2>4, <2>5 DEF PartInv
<1>4. ASSUME NEW w \in Copiers, Close(w) \/ ShortRead(w) PROVE PartInv'
  <2> DEFINE y == Other(w)
  <2>1. /\ copy[w].pc = "write" /\ copy' = [copy EXCEPT ![w].pc = "closed"]
        /\ UNCHANGED part
    BY <1>4 DEF Close, ShortRead
  <2>2. /\ copy'[y] = copy[y] /\ copy'[w].pc = "closed" /\ copy'[w].file = copy[w].file
        /\ copy'[w].pos = copy[w].pos /\ copy'[w].version = copy[w].version
        /\ copy'[w].clean = copy[w].clean /\ y \in Copiers /\ Other(y) = w
    BY <1>0, <2>1 DEF Placed, CopyRec
  <2> HIDE DEF y
  <2>3. y = Other(w)
    BY DEF y
  <2>4. PartOK(w)'
    <3>1. SharedWith(w, copy[w].file)' = SharedWith(w, copy[w].file)
      BY <2>2, <2>3 DEF SharedWith
    <3>2. Prefix(copy'[w]) = Prefix(copy[w])
      BY <2>2 DEF Prefix
    <3>3. PartOK(w) /\ copy[w].pc \in Working
      BY <1>0, <2>1 DEF Working
    <3> QED BY <2>1, <2>2, <3>1, <3>2, <3>3 DEF PartOK
  <2>5. PartOK(y)'
    <3>1. SharedWith(y, copy[y].file)' = SharedWith(y, copy[y].file)
      BY <2>1, <2>2, <2>3 DEF SharedWith
    <3>2. PartOK(y)
      BY <1>0, <2>2
    <3> QED BY <2>1, <2>2, <3>1, <3>2 DEF PartOK
  <2> QED BY <1>0, <2>1, <2>3, <2>4, <2>5 DEF PartInv
<1>5. ASSUME NEW w \in Copiers, Open(w) PROVE PartInv'
  <2> DEFINE y == Other(w)
             f == copy[w].file
  <2>0. y \in Copiers /\ Other(y) = w /\ SharedWith(w, f) \in BOOLEAN
    BY DEF SharedWith
  <2>1. /\ f \in Files /\ copy[w].pc = "open"
        /\ copy'[w].pc = "write" /\ copy'[w].pos = 0 /\ copy'[w].file = f
        /\ copy'[w].clean = ~SharedWith(w, f)
        /\ copy'[y].pc = copy[y].pc /\ copy'[y].file = copy[y].file
        /\ copy'[y].pos = copy[y].pos /\ copy'[y].version = copy[y].version
        /\ copy'[y].clean = (copy[y].clean /\ ~SharedWith(w, f))
    BY <1>5, OpenMoves
  <2>2. part' = [part EXCEPT ![f] = <<>>] /\ part' = [g \in Files |-> part'[g]]
    BY <1>0, <1>5 DEF Open
  <2>3. PartOK(w)'
    <3>1. SharedWith(w, copy[w].file)' = SharedWith(w, f)
      BY <2>1 DEF SharedWith
    <3>2. part'[f] = Prefix(copy'[w])
      BY <1>0, <2>1, <2>2 DEF Prefix
    <3> QED BY <2>1, <3>1, <3>2 DEF PartOK
  <2>4. PartOK(y)'
    <3> SUFFICES ASSUME copy[y].pc \in Working, copy[y].clean, ~SharedWith(w, f)
                 PROVE  PartOK(y)'
      BY <2>0, <2>1 DEF PartOK
    <3>1. copy[y].file # f
      BY DEF SharedWith, Working
    <3>2. copy[y].file \in Files
      BY <1>0, <2>0 DEF Placed
    <3>3. part'[copy[y].file] = part[copy[y].file]
      BY <1>0, <2>2, <3>1, <3>2
    <3>4. ~SharedWith(y, copy[y].file)'
      BY <2>0, <2>1, <3>1 DEF SharedWith
    <3>5. PartOK(y)
      BY <1>0, <2>0
    <3> HIDE DEF y, f
    <3> QED BY <2>1, <3>3, <3>4, <3>5 DEF PartOK, Prefix
  <2> QED BY <2>2, <2>3, <2>4 DEF PartInv
<1>6. CASE UNCHANGED vars
  BY <1>0, <1>6 DEF vars, PartInv, PartOK, SharedWith, Prefix
<1> QED BY <1>1, <1>2, <1>3, <1>4, <1>5, <1>6 DEF Next, JobStep, JobActs, CopyStep, LetsGo

-----------------------------------------------------------------------------
\* A whole file of the size that version v has.
Sized(f, v) == IsWhole(f) /\ Len(dest[f]) = Length[v][f]

\* Unless Explorer's verb interfered, a file the job has renamed or skipped is
\* whole and of the planned size.
DoneInv ==
    job.alone /\ copy[Job].pc \in Planned =>
      \A f \in Files \ (copy[Job].todo \cup suspect) : Sized(f, copy[Job].version)

\* What the marker promises holds as long as the marker exists, so also while a
\* further job has not begun to copy.
ReadyInv == marker /\ whole # NoVersion => \A f \in Files \ suspect : Sized(f, whole)

\* The inductive invariant.
Inv == /\ dest = [f \in Files |-> dest[f]] /\ PlaceInv /\ PartInv /\ JobInv
       /\ FilesAreWhole /\ DoneInv /\ ReadyInv

\* The rename: the file gets its new bytes, and unless it becomes suspect they are
\* the whole file of the version the copy planned.
LEMMA InstallMoves ==
    ASSUME Inv, NEW w \in Copiers, Install(w)
    PROVE  LET f == copy[w].file IN
           /\ f \in Files /\ dest' = [dest EXCEPT ![f] = part[f]]
           /\ dest' = [g \in Files |-> dest'[g]]
           /\ suspect \ {f} \subseteq suspect' /\ suspect' \subseteq suspect \cup {f}
           /\ f \notin suspect' => /\ dest'[f] # Absent /\ copy[w].version \in Versions
                                   /\ dest'[f] = Chunks(copy[w].version, f)
                                   /\ Len(dest'[f]) = Length[copy[w].version][f]
<1> DEFINE f == copy[w].file
           v == copy[w].version
<1>0. /\ copy = [y \in Copiers |-> copy[y]] /\ part = [g \in Files |-> part[g]]
      /\ dest = [g \in Files |-> dest[g]] /\ Placed(copy[w]) /\ PartOK(w)
      /\ copy[w].pc = "closed" /\ part[f] # Absent /\ ~Short(w)
  BY DEF Inv, PlaceInv, PartInv, Install, Renames
<1>1. f \in Files /\ v \in Versions /\ copy[w].pos \in Nat /\ Length[v][f] \in Nat
  BY <1>0, LengthAssumption DEF Placed, CopyRec, Working, Planned
<1>2. dest' = [dest EXCEPT ![f] = part[f]] /\ dest' = [g \in Files |-> dest'[g]]
  BY <1>0 DEF Install
<1>3. suspect \ {f} \subseteq suspect' /\ suspect' \subseteq suspect \cup {f}
  BY DEF Install
<1>4. ASSUME f \notin suspect'
      PROVE  /\ dest'[f] # Absent /\ dest'[f] = Chunks(v, f)
             /\ Len(dest'[f]) = Length[v][f]
  <2>1. copy[w].clean /\ (w = Job \/ copy[w].pos = Length[v][f])
    BY <1>4 DEF Install
  <2>2. copy[w].pos = Length[v][f]
    BY <1>0, <2>1 DEF Short
  <2>3. part[f] = Prefix(copy[w])
    BY <1>0, <2>1 DEF PartOK, Working
  <2>4. Prefix(copy[w]) = Chunks(v, f)
    BY <2>2 DEF Prefix, Chunks
  <2>5. Len(Chunks(v, f)) = Length[v][f]
    BY <1>1 DEF Chunks
  <2>6. dest'[f] = Chunks(v, f) /\ dest'[f] # Absent
    BY <1>0, <1>1, <1>2, <2>3, <2>4
  <2> QED BY <2>5, <2>6
<1> QED BY <1>1, <1>2, <1>3, <1>4

\* Nothing else touches a file under its own name.
LEMMA DestUntouched ==
    ASSUME [Next]_vars, \A w \in Copiers : ~Install(w)
    PROVE  UNCHANGED <<dest, suspect>>
<1>1. CASE Fetch \/ Cancel \/ Start \/ SaveRoot \/ Complete \/ EndWithout \/ SaveFails
  BY <1>1 DEF Fetch, Cancel, Start, SaveRoot, Complete, EndWithout, SaveFails
<1>2. CASE AskExplorer \/ Disconnect \/ Reupload \/ Crash \/ UNCHANGED vars
  BY <1>2 DEF AskExplorer, Disconnect, Reupload, Crash, vars
<1>3. ASSUME NEW w \in Copiers, CopyStep(w) \/ ShortRead(w) \/ CopyFails(w)
      PROVE  UNCHANGED <<dest, suspect>>
  BY <1>3 DEF CopyStep, Plan, TakeItem, Open, WriteChunk, Close, Refuse, AllDone,
              ShortRead, CopyFails
<1> QED BY <1>1, <1>2, <1>3, OtherCopier DEF Next, JobStep

\* Every step keeps the files whole.
LEMMA WholeStep == Inv /\ [Next]_vars => FilesAreWhole' /\ dest' = [f \in Files |-> dest'[f]]
<1> SUFFICES ASSUME Inv, [Next]_vars
             PROVE  FilesAreWhole' /\ dest' = [f \in Files |-> dest'[f]]
  OBVIOUS
<1>1. CASE \A w \in Copiers : ~Install(w)
  BY <1>1, DestUntouched DEF Inv, FilesAreWhole, IsWhole
<1>2. ASSUME NEW w \in Copiers, Install(w)
      PROVE  FilesAreWhole' /\ dest' = [f \in Files |-> dest'[f]]
  <2> DEFINE f == copy[w].file
  <2>1. /\ f \in Files /\ dest' = [dest EXCEPT ![f] = part[f]]
        /\ dest' = [g \in Files |-> dest'[g]]
        /\ suspect \ {f} \subseteq suspect'
        /\ f \notin suspect' => /\ dest'[f] # Absent
                                /\ \E v \in Versions : dest'[f] = Chunks(v, f)
    BY <1>2, InstallMoves
  <2>2. ASSUME NEW g \in Files \ suspect' PROVE dest'[g] = Absent \/ IsWhole(g)'
    <3>1. CASE g = f
      BY <2>1, <2>2, <3>1 DEF IsWhole
    <3>2. CASE g # f
      <4>1. dest'[g] = dest[g] /\ g \notin suspect
        BY <2>1, <2>2, <3>2 DEF Inv
      <4> QED BY <2>2, <4>1 DEF Inv, FilesAreWhole, IsWhole
    <3> QED BY <3>1, <3>2
  <2> QED BY <2>1, <2>2 DEF FilesAreWhole
<1> QED BY <1>1, <1>2

\* Every step keeps what the job has done: a rename counts the size of its own
\* version, a skip counts the size it compared, and Explorer's rename ends it.
LEMMA DoneStep == Inv /\ [Next]_vars => DoneInv'
<1> SUFFICES ASSUME Inv, [Next]_vars, job'.alone, copy'[Job].pc \in Planned,
                    NEW g \in Files \ (copy'[Job].todo \cup suspect')
             PROVE  IsWhole(g)' /\ Len(dest'[g]) = Length[copy'[Job].version][g]
  BY DEF DoneInv, Sized
<1> USE OtherCopier
<1>0. /\ copy = [y \in Copiers |-> copy[y]] /\ Placed(copy[Job]) /\ job \in JobRec
      /\ PlaceInv /\ DoneInv /\ JobInv /\ FilesAreWhole
  BY DEF Inv, PlaceInv
\* A file that was done stays done.
<1>d. ASSUME g \notin copy[Job].todo, copy[Job].pc \in Planned, job.alone,
             copy'[Job].version = copy[Job].version, UNCHANGED <<dest, suspect>>
      PROVE  IsWhole(g)' /\ Len(dest'[g]) = Length[copy'[Job].version][g]
  BY <1>0, <1>d DEF DoneInv, Sized, IsWhole
<1>1. CASE JobActs
  <2>1. copy'[Job] = copy[Job] /\ UNCHANGED <<dest, part, suspect>>
    BY <1>1, JobMoves, PlacedIdle, <1>0 DEF Planned
  <2>2. ~Fetch /\ ~Crash
    <3>1. ~Fetch
      BY <1>0, <2>1 DEF Fetch, Active, JobInv, Planned, JobRec
    <3>2. ~Crash
      BY <2>1, PlacedIdle DEF Crash, Planned
    <3> QED BY <3>1, <3>2
  <2>3. job.alone
    BY <1>0, <1>1, <2>2 DEF JobActs, JobRec, Cancel, Start, SaveRoot, Complete, EndWithout,
                            SaveFails, AskExplorer, Disconnect, Reupload, EndJob
  <2> QED BY <1>d, <2>1, <2>3
<1>2. CASE Install(Job)
  <2> DEFINE f == copy[Job].file
  <2>1. /\ f \in Files /\ dest' = [dest EXCEPT ![f] = part[f]]
        /\ suspect \ {f} \subseteq suspect'
        /\ f \notin suspect' => /\ dest'[f] # Absent /\ copy[Job].version \in Versions
                                /\ dest'[f] = Chunks(copy[Job].version, f)
                                /\ Len(dest'[f]) = Length[copy[Job].version][f]
    BY <1>2, InstallMoves
  <2>2. /\ copy'[Job].version = copy[Job].version /\ copy'[Job].todo = copy[Job].todo \ {f}
        /\ copy[Job].pc = "closed" /\ job.alone
    BY <1>0, <1>2 DEF Install, NextItem, Placed, CopyRec
  <2>3. CASE g = f
    BY <2>1, <2>2, <2>3 DEF IsWhole
  <2>4. CASE g # f
    <3>1. g \notin copy[Job].todo \cup suspect /\ dest'[g] = dest[g]
      BY <2>1, <2>2, <2>4 DEF Inv
    <3>2. Sized(g, copy[Job].version)
      BY <1>0, <2>2, <3>1 DEF DoneInv, Planned
    <3> QED BY <2>2, <3>1, <3>2 DEF Sized, IsWhole
  <2> QED BY <2>3, <2>4
<1>3. CASE Install(Explorer)
  <2>1. job' = [job EXCEPT !.alone = FALSE]
    BY <1>3, OtherCopier DEF Install
  <2> QED BY <1>0, <2>1 DEF JobRec
<1>4. ASSUME CopyStep(Explorer) \/ ShortRead(Explorer) \/ CopyFails(Explorer),
             ~Install(Explorer), ~Install(Job)
      PROVE  IsWhole(g)' /\ Len(dest'[g]) = Length[copy'[Job].version][g]
  <2>1. /\ copy'[Job].pc = copy[Job].pc /\ copy'[Job].version = copy[Job].version
        /\ copy'[Job].todo = copy[Job].todo
    <3>1. CASE Open(Explorer)
      BY <3>1, <1>0, OpenMoves
    <3>2. CASE ~Open(Explorer)
      BY <1>4, <3>2, <1>0, CopyMoves, OneCopy
    <3> QED BY <3>1, <3>2
  <2>2. UNCHANGED <<dest, suspect>>
    BY <1>4, DestUntouched
  <2>3. job' = job
    BY <1>4 DEF CopyStep, Plan, TakeItem, Open, WriteChunk, Close, Refuse, AllDone,
                ShortRead, CopyFails
  <2> QED BY <1>d, <2>1, <2>2, <2>3
<1>5. ASSUME CopyStep(Job) \/ ShortRead(Job) \/ CopyFails(Job),
             ~Install(Job), ~Install(Explorer)
      PROVE  IsWhole(g)' /\ Len(dest'[g]) = Length[copy'[Job].version][g]
  <2>1. job' = job /\ UNCHANGED <<dest, suspect>>
    <3>1. job' = job
      BY <1>5 DEF CopyStep, Plan, TakeItem, Open, WriteChunk, Close, Refuse, AllDone,
                  ShortRead, CopyFails
    <3> QED BY <1>5, <3>1, DestUntouched
  <2>g. ~GiveUp(Job)
    <3>1. Over(Job, "ended").pc = "ended"
      BY <1>0, PlacedOver
    <3> QED BY <1>0, <3>1, OneCopy DEF GiveUp, Planned
  <2>2. CASE Plan(Job)
    <3>1. copy' = [copy EXCEPT ![Job].pc = "item", ![Job].version = remote,
                               ![Job].todo = Files]
      BY <2>2, <2>g DEF Plan
    <3>2. copy'[Job].todo = Files
      BY <1>0, <3>1 DEF Placed, CopyRec
    <3> QED BY <3>2
  <2>3. CASE TakeItem(Job)
    <3> DEFINE f == NextOf(Job)
    <3>1. f \in Files /\ copy[Job].pc = "item"
      BY <1>0, <2>3 DEF TakeItem, NextOf, Placed, CopyRec
    <3>2. CASE dest[f] # Absent /\ Len(dest[f]) = Length[copy[Job].version][f]
      <4>1. copy' = [copy EXCEPT ![Job] = [copy[Job] EXCEPT !.todo = @ \ {f}]]
        BY <2>3, <2>g, <3>2 DEF TakeItem
      <4> HIDE DEF f
      <4>2. copy'[Job].version = copy[Job].version /\ copy'[Job].todo = copy[Job].todo \ {f}
        BY <1>0, <4>1 DEF Placed, CopyRec
      <4>3. CASE g = f
        BY <1>0, <2>1, <3>2, <4>2, <4>3 DEF FilesAreWhole, IsWhole
      <4>4. CASE g # f
        BY <1>d, <2>1, <3>1, <4>2, <4>4 DEF Planned
      <4> QED BY <4>3, <4>4
    <3>3. CASE ~(dest[f] # Absent /\ Len(dest[f]) = Length[copy[Job].version][f])
      <4>1. copy' = [copy EXCEPT ![Job] = [copy[Job] EXCEPT !.pc = "open", !.file = f]]
        BY <2>3, <2>g, <3>3 DEF TakeItem
      <4>2. copy'[Job].version = copy[Job].version /\ copy'[Job].todo = copy[Job].todo
        BY <1>0, <4>1 DEF Placed, CopyRec
      <4> QED BY <1>d, <2>1, <3>1, <4>2 DEF Planned
    <3> QED BY <3>2, <3>3
  <2>4. CASE Open(Job)
    <3>1. copy'[Job].version = copy[Job].version /\ copy'[Job].todo = copy[Job].todo
          /\ copy[Job].pc = "open"
      BY <1>0, <2>4 DEF Open, Placed, CopyRec
    <3> QED BY <1>d, <2>1, <3>1 DEF Planned
  <2>5. CASE WriteChunk(Job) \/ Close(Job) \/ ShortRead(Job)
    <3>1. /\ copy[Job].pc = "write"
          /\ \/ copy' = [copy EXCEPT ![Job].pos = @ + 1]
             \/ copy' = [copy EXCEPT ![Job].pc = "closed"]
      BY <2>5, <2>g DEF WriteChunk, Close, ShortRead
    <3>2. copy'[Job].version = copy[Job].version /\ copy'[Job].todo = copy[Job].todo
      BY <1>0, <3>1 DEF Placed, CopyRec
    <3> QED BY <1>d, <2>1, <3>1, <3>2 DEF Planned
  <2>6. CASE CopyFails(Job) \/ Refuse(Job)
    BY <2>6, <2>g DEF CopyFails, Refuse
  <2>7. CASE AllDone(Job)
    <3>1. \A pc \in {"ok", "ended"} : /\ Over(Job, pc).version = copy[Job].version
                                     /\ Over(Job, pc).todo = copy[Job].todo
      BY <1>0, <2>7, PlacedOver DEF AllDone
    <3>2. \E pc \in {"ok", "ended"} : copy' = [copy EXCEPT ![Job] = Over(Job, pc)]
      BY <2>7 DEF AllDone
    <3>3. copy'[Job].version = copy[Job].version /\ copy'[Job].todo = copy[Job].todo
      BY <1>0, <3>1, <3>2, OneCopy
    <3>4. copy[Job].pc = "item"
      BY <2>7 DEF AllDone
    <3> QED BY <1>d, <2>1, <3>3, <3>4 DEF Planned
  <2> QED BY <1>5, <2>2, <2>3, <2>4, <2>5, <2>6, <2>7 DEF CopyStep
<1>6. CASE UNCHANGED vars
  BY <1>6, <1>d DEF vars
<1> QED BY <1>1, <1>2, <1>3, <1>4, <1>5, <1>6 DEF Next, JobStep, JobActs

\* Every step keeps the marker's promise: Complete takes it over from DoneInv, and
\* no file is renamed by the job while a marker exists.
LEMMA ReadyStep == Inv /\ [Next]_vars => ReadyInv'
<1> SUFFICES ASSUME Inv, [Next]_vars, marker', whole' # NoVersion, NEW g \in Files \ suspect'
             PROVE  IsWhole(g)' /\ Len(dest'[g]) = Length[whole'][g]
  BY DEF ReadyInv, Sized
<1>0. PlaceInv /\ JobInv /\ DoneInv /\ ReadyInv
  BY DEF Inv
<1>1. CASE Complete
  <2>1. job.alone /\ whole' = copy[Job].version /\ UNCHANGED <<dest, suspect>>
    BY <1>1 DEF Complete
  <2>2. copy[Job].pc = "ok" /\ copy[Job].todo = {}
    BY <1>0, <1>1, OtherCopier DEF Complete, JobInv, PlaceInv, Placed
  <2>3. Sized(g, whole')
    BY <1>0, <2>1, <2>2 DEF DoneInv, Planned
  <2> QED BY <2>1, <2>3 DEF Sized, IsWhole
<1>2. CASE UNCHANGED <<marker, whole, dest, suspect>>
  BY <1>0, <1>2 DEF ReadyInv, Sized, IsWhole
<1>3. CASE \E w \in Copiers : Install(w)
  <2>1. Install(Job)
    BY <1>3, OtherCopier DEF Install
  <2>2. copy[Job].pc = "closed" /\ marker' = marker
    BY <2>1 DEF Install
  <2> QED BY <1>0, <2>2 DEF JobInv
<1>4. CASE Start
  BY <1>2, <1>4, DestUntouched DEF Start
<1>5. CASE ~Complete /\ ~Start /\ ~\E w \in Copiers : Install(w)
  <2>1. UNCHANGED <<dest, suspect>>
    BY <1>5, DestUntouched
  <2>2. UNCHANGED <<marker, whole>>
    <3>1. CASE JobActs
      BY <1>5, <3>1 DEF JobActs, Fetch, Cancel, SaveRoot, EndWithout, SaveFails, AskExplorer,
                        Disconnect, Reupload, Crash
    <3>2. ASSUME NEW w \in Copiers, CopyStep(w) \/ ShortRead(w) \/ CopyFails(w)
          PROVE  UNCHANGED <<marker, whole>>
      BY <1>5, <3>2 DEF CopyStep, Plan, TakeItem, Open, WriteChunk, Close, Refuse, AllDone,
                        ShortRead, CopyFails
    <3>3. CASE UNCHANGED vars
      BY <3>3 DEF vars
    <3> QED BY <3>1, <3>2, <3>3, OtherCopier DEF Next, JobStep, JobActs
  <2> QED BY <1>2, <2>1, <2>2
<1> QED BY <1>1, <1>3, <1>4, <1>5

\* The invariant holds initially ...
LEMMA InvInit == Init => Inv
<1> SUFFICES ASSUME Init PROVE Inv
  OBVIOUS
<1>1. PlaceInv
  BY PlacedIdle, OtherCopier DEF Init, PlaceInv, NoJob, JobRec
<1>2. JobInv /\ PartInv /\ DoneInv
  BY PlacedIdle, OtherCopier DEF Init, NoJob, JobInv, PartInv, PartOK, DoneInv, Working, Planned
<1>3. FilesAreWhole /\ ReadyInv /\ dest = [f \in Files |-> dest[f]]
  BY DEF Init, FilesAreWhole, ReadyInv
<1> QED BY <1>1, <1>2, <1>3 DEF Inv

\* ... and is kept by every step.
LEMMA InvStep == Inv /\ [Next]_vars => Inv'
BY PlaceStep, JobStepInv, PartStep, WholeStep, DoneStep, ReadyStep DEF Inv

\* A file under its own name is one whole version of it, whatever was cancelled,
\* failed, crashed or copied at the same time, for every number of files,
\* versions, requests and faults; suspect files are those two copies had in hand
\* at once, or that Explorer's copy took short (fetchlocal.py).
THEOREM FilesWhole == Spec => []FilesAreWhole
<1>1. Inv => FilesAreWhole
  BY DEF Inv
<1> QED BY <1>1, InvInit, InvStep, PTL DEF Spec

\* A game with a marker is reported ready and has each planned file, whole and of
\* the planned size, unless Explorer's verb has written into it (gamestate.py).
THEOREM ReadyWhole == Spec => []ReadyIsWhole
<1>1. Inv => ReadyIsWhole
  <2> SUFFICES ASSUME Inv, marker, ~Active PROVE ReadyIsWhole
    BY DEF ReadyIsWhole
  <2>1. mapped
    BY DEF Inv, JobInv
  <2>2. Status = "ready"
    BY <2>1 DEF Status
  <2> QED BY <2>2 DEF ReadyIsWhole, Inv, ReadyInv, Sized
<1> QED BY <1>1, InvInit, InvStep, PTL DEF Spec
=============================================================================
