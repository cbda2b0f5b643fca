-------------------------- MODULE UploadStagerProofs --------------------------
(***************************************************************************)
(* What TLAPS proves of UploadStager, for any files, clients, contents and *)
(* bounds, with every overlap the constants can allow:                     *)
(*                                                                         *)
(*   StagerTypes     every variable keeps its type, so no unit has more    *)
(*                   than MAX_ATTEMPTS attempts;                           *)
(*   BoundedRetries  what was last written fails at most MAX_ATTEMPTS      *)
(*                   uploads, over restarts;                               *)
(*                                                                         *)
(* and with the overlaps excluded that each of them names:                 *)
(*                                                                         *)
(*   RowsHashTheirBytes      a row's hash is the hash of its bytes;        *)
(*   AcknowledgedWritesLast  no acknowledged write is lost;                *)
(*   RegisteredFilesAreWhole nothing on the drive is a truncated file.     *)
(*                                                                         *)
(* None is inductive.  A unit that has used up its attempts must not get   *)
(* into another batch, which holds because it is then abandoned (in memory *)
(* and in the queue file, from which a restart reads both), and a batch    *)
(* never handles an abandoned file.  The others rest on the writer count:  *)
(* it counts the PUTs under way, so that a file in a batch is not being    *)
(* written, and its bytes are what was hashed and uploaded.                *)
(***************************************************************************)
EXTENDS UploadStager, FiniteSetTheorems, TLAPS

-----------------------------------------------------------------------------
(* The inductive invariant *)

\* Attempts are used up only by giving up, and nothing given up is in a batch.
GivenUp ==
    \A f \in Files :
        /\ unit[f].attempts = MaxAttempts => unit[f].stage = "abandoned"
        /\ saved[f].attempts = MaxAttempts => saved[f].stage = "abandoned"
        /\ unit[f].stage = "abandoned" => bpc[f] = "idle"

\* Every failure since the last write has been counted, and written down.
Counted ==
    \A f \in Files :
        tries[f] <= unit[f].attempts /\ tries[f] <= saved[f].attempts

AttemptInv == TypeOK /\ GivenUp /\ Counted

\* The two halves of the invariant: the queue with its attempts, and the rest.
SavedType == [stage : QueueStage \cup {"none"}, attempts : 0 .. MaxAttempts]
BatchPC == {"idle", "due", "planned", "hashed", "reading", "sent", "ok", "bad"}
ReqType == [pc : {"idle", "begun", "writing", "closed", "broken", "copying",
                  "getting"},
            file : Files \cup {NoFile}, from : Files \cup {NoFile},
            content : OnDisk, alone : BOOLEAN]

QueueInv ==
    /\ unit \in [Files -> UnitType]
    /\ saved \in [Files -> SavedType]
    /\ bpc \in [Files -> BatchPC]
    /\ tries \in [Files -> Nat]
    /\ GivenUp
    /\ Counted

FlowType ==
    /\ disk \in [Files -> OnDisk]
    /\ docs \in [Files -> SUBSET (OnDisk \X OnDisk)]
    /\ head \in [Files -> OnDisk]
    /\ req \in [Clients -> ReqType]
    /\ lpc \in {"tick", "batch", "settle"}
    /\ fp \in [Files -> OnDisk]
    /\ up \in [Files -> OnDisk]
    /\ faults \in 0 .. MaxFaults
    /\ crashes \in 0 .. MaxCrashes
    /\ acked \in [Files -> OnDisk]

queueVars == <<unit, saved, bpc, tries>>

\* A record that a file may have while the batch is at b and n failures of its
\* content are on the books.
Sound(u, b, n) ==
    /\ u \in UnitType
    /\ b \in BatchPC
    /\ n \in Nat
    /\ u.attempts = MaxAttempts => u.stage = "abandoned"
    /\ u.stage = "abandoned" => b = "idle"
    /\ n <= u.attempts

\* The invariant of the attempts, in two halves: the queue, and who may do what.
LEMMA Halves == AttemptInv <=> QueueInv /\ FlowType
BY DEF AttemptInv, QueueInv, FlowType, TypeOK, SavedType, BatchPC, ReqType

-----------------------------------------------------------------------------
(* The queue *)

\* The queue stays sound when what every file is left with is sound, and is
\* written down in the same step.
LEMMA AllSaved ==
    ASSUME unit' \in [Files -> UnitType],
           bpc' \in [Files -> BatchPC],
           tries' \in [Files -> Nat],
           \A f \in Files : Sound(unit'[f], bpc'[f], tries'[f]),
           Save
    PROVE  QueueInv'
<1>1. ASSUME NEW f \in Files
      PROVE  /\ saved'[f] \in SavedType
             /\ saved'[f].attempts = unit'[f].attempts
             /\ saved'[f].stage = unit'[f].stage
  BY <1>1 DEF Save, SavedType, UnitType
<1>2. saved' \in [Files -> SavedType]
  BY <1>1 DEF Save
<1> QED BY <1>1, <1>2 DEF QueueInv, GivenUp, Counted, Sound

\* A step that gives one file another record, and saves, keeps it sound.
LEMMA OneSaved ==
    ASSUME QueueInv, NEW f \in Files, NEW u, NEW b, NEW n, Sound(u, b, n),
           unit' = [unit EXCEPT ![f] = u],
           bpc' = [bpc EXCEPT ![f] = b],
           tries' = [tries EXCEPT ![f] = n],
           Save
    PROVE  QueueInv'
<1>1. /\ unit' \in [Files -> UnitType]
      /\ bpc' \in [Files -> BatchPC]
      /\ tries' \in [Files -> Nat]
  BY DEF QueueInv, Sound
<1>2. ASSUME NEW g \in Files PROVE Sound(unit'[g], bpc'[g], tries'[g])
  <2>1. CASE g = f
    BY <2>1 DEF QueueInv
  <2>2. CASE g # f
    BY <2>2 DEF QueueInv, Sound, GivenUp, Counted
  <2> QED BY <2>1, <2>2
<1> QED BY <1>1, <1>2, AllSaved

\* touch and the writer count leave the attempts alone, or wipe a failure.
LEMMA TouchedSound ==
    ASSUME NEW u, NEW b, NEW n, Sound(u, b, n)
    PROVE  Sound(Touched(u), b, 0)
<1>0. MaxAttempts \in Nat \ {0}
  BY StagerAssumption
<1>1. CASE u.stage = "none"
  <2>1. Touched(u) = [stage |-> "staging", attempts |-> 0, quiet |-> FALSE,
                      retry |-> FALSE, writers |-> 0]
    BY <1>1 DEF Touched, Staged, NoUnit
  <2> QED BY <1>0, <2>1 DEF Sound, UnitType, QueueStage, Resting
<1>2. CASE u.stage = "failed"
  <2>1. Touched(u) = [u EXCEPT !.quiet = FALSE, !.stage = "staging",
                               !.attempts = 0]
    BY <1>2 DEF Touched
  <2>2. u.retry \in BOOLEAN /\ u.writers \in Nat
    BY DEF Sound, UnitType
  <2>3. Touched(u) = [stage |-> "staging", attempts |-> 0, quiet |-> FALSE,
                      retry |-> u.retry, writers |-> u.writers]
    BY <2>1 DEF Sound, UnitType
  <2> QED BY <1>0, <2>2, <2>3 DEF Sound, UnitType, QueueStage, Resting
<1>3. CASE u.stage # "none" /\ u.stage # "failed"
  <2>1. Touched(u) = [u EXCEPT !.quiet = FALSE]
    BY <1>3 DEF Touched
  <2>2. Touched(u) \in UnitType
    BY <2>1 DEF Sound, UnitType
  <2>3. Touched(u).attempts = u.attempts /\ Touched(u).stage = u.stage
    BY <2>1 DEF Sound, UnitType
  <2>4. u.attempts \in Nat
    BY <1>0 DEF Sound, UnitType
  <2> QED BY <2>2, <2>3, <2>4 DEF Sound
<1> QED BY <1>1, <1>2, <1>3

\* A writer goes, or is timed out.
LEMMA WriterGoneSound ==
    ASSUME NEW u, NEW b, NEW n, Sound(u, b, n)
    PROVE  Sound(WriterGone(u), b, n)
BY DEF Sound, WriterGone, UnitType

\* A unit is removed.
LEMMA NoUnitSound ==
    ASSUME NEW b \in BatchPC
    PROVE  Sound(NoUnit, b, 0)
BY StagerAssumption DEF Sound, NoUnit, UnitType

\* A file in a batch has an attempt left, so its stage may change.
LEMMA StageSetSound ==
    ASSUME QueueInv, NEW f \in Files, bpc[f] # "idle",
           NEW stage \in {"planning", "uploading", "registering"},
           NEW b \in BatchPC
    PROVE  \E u : /\ Sound(u, b, tries[f])
                  /\ StageSet(f, stage) = [unit EXCEPT ![f] = u]
<1>1. /\ unit[f] \in UnitType
      /\ unit[f].attempts # MaxAttempts
      /\ unit[f].stage # "abandoned"
      /\ tries[f] \in Nat
      /\ tries[f] <= unit[f].attempts
  BY DEF QueueInv, GivenUp, Counted
<1>2. CASE Pending(f)
  <2> DEFINE u == [unit[f] EXCEPT !.stage = stage]
  <2>1. Sound(u, b, tries[f])
    BY <1>1 DEF Sound, UnitType, QueueStage
  <2>2. StageSet(f, stage) = [unit EXCEPT ![f] = u]
    BY <1>2 DEF StageSet
  <2> QED BY <2>1, <2>2
<1>3. CASE ~Pending(f)
  <2>1. Sound(unit[f], b, tries[f])
    BY <1>1 DEF Sound
  <2>2. StageSet(f, stage) = [unit EXCEPT ![f] = unit[f]]
    BY <1>3 DEF StageSet, QueueInv
  <2> QED BY <2>1, <2>2
<1> QED BY <1>2, <1>3

\* What holds of every file is that its record is sound.
LEMMA AllSound ==
    ASSUME QueueInv, NEW f \in Files
    PROVE  Sound(unit[f], bpc[f], tries[f])
BY DEF QueueInv, Sound, GivenUp, Counted

\* The writes of the clients keep the queue sound: they wipe failures, count
\* writers, or drop the unit.
LEMMA WriteQueue ==
    ASSUME QueueInv, NEW f \in Files,
           NEW u \in {WriterAdded(Touched(unit[f])),
                      Touched(unit[f]), Touched(WriterGone(unit[f])), NoUnit},
           unit' = [unit EXCEPT ![f] = u],
           Untried(f), Save, bpc' = bpc
    PROVE  QueueInv'
<1>1. Sound(Touched(unit[f]), bpc[f], 0)
  BY AllSound, TouchedSound
<1>2. Sound(u, bpc[f], 0)
  <2>1. CASE u = WriterAdded(Touched(unit[f]))
    BY <1>1, <2>1 DEF Sound, UnitType, WriterAdded
  <2>2. CASE u = Touched(unit[f])
    BY <1>1, <2>2
  <2>3. CASE u = Touched(WriterGone(unit[f]))
    BY <2>3, AllSound, WriterGoneSound, TouchedSound
  <2>4. CASE u = NoUnit
    BY <2>4, NoUnitSound DEF QueueInv
  <2> QED BY <2>1, <2>2, <2>3, <2>4
<1>3. /\ bpc' = [bpc EXCEPT ![f] = bpc[f]]
      /\ tries' = [tries EXCEPT ![f] = 0]
  BY DEF QueueInv, Untried
<1> QED BY <1>2, <1>3, OneSaved

\* A step that only writes the queue down keeps it sound.
LEMMA PlainSave ==
    ASSUME QueueInv, UNCHANGED <<unit, bpc, tries>>, Save
    PROVE  QueueInv'
BY AllSound, AllSaved DEF QueueInv

\* A step that moves only files of the batch along, and brings no other file
\* into it, keeps the queue sound.
LEMMA ProgressQueue ==
    ASSUME QueueInv, UNCHANGED <<unit, saved, tries>>,
           bpc' \in [Files -> BatchPC],
           \A f \in Files : bpc[f] = "idle" => bpc'[f] = "idle"
    PROVE  QueueInv'
BY DEF QueueInv, GivenUp, Counted

\* A step of the batch on one file keeps the queue sound.
LEMMA StageQueue ==
    ASSUME QueueInv, NEW f \in Files, bpc[f] # "idle",
           NEW stage \in {"planning", "uploading", "registering"},
           NEW b \in BatchPC,
           unit' = StageSet(f, stage), bpc' = [bpc EXCEPT ![f] = b],
           tries' = tries, Save
    PROVE  QueueInv'
<1>1. PICK u : /\ Sound(u, b, tries[f])
               /\ StageSet(f, stage) = [unit EXCEPT ![f] = u]
  BY StageSetSound
<1>2. tries' = [tries EXCEPT ![f] = tries[f]]
  BY DEF QueueInv
<1> QED BY <1>1, <1>2, OneSaved

\* The clients keep the queue sound.
LEMMA ClientQueue ==
    ASSUME QueueInv, NEW c \in Clients, Client(c)
    PROVE  QueueInv'
<1>1. ASSUME NEW g \in Files, PutBegin(c, g) PROVE QueueInv'
  BY <1>1, WriteQueue DEF PutBegin
<1>2. CASE PutEnd(c)
  <2>1. CASE req[c].file \in Files
    BY <1>2, <2>1, WriteQueue DEF PutEnd
  <2>2. CASE req[c].file \notin Files
    BY <1>2, <2>2, PlainSave DEF PutEnd, Untried, QueueInv
  <2> QED BY <2>1, <2>2
<1>3. CASE PutEndFailed(c)
  <2>1. CASE req[c].file \in Files
    BY <1>3, <2>1, WriteQueue DEF PutEndFailed
  <2>2. CASE req[c].file \notin Files
    BY <1>3, <2>2, PlainSave DEF PutEndFailed, Untried, QueueInv
  <2> QED BY <2>1, <2>2
<1>4. ASSUME NEW g \in Files, NEW h \in Files, CopyBegin(c, g, h)
      PROVE  QueueInv'
  BY <1>4, WriteQueue DEF CopyBegin
<1>5. CASE UNCHANGED queueVars
  BY <1>5 DEF queueVars, QueueInv, GivenUp, Counted
<1> QED BY <1>1, <1>2, <1>3, <1>4, <1>5
    DEF Client, queueVars, GetBegin, PutOpen, PutClose, PutBreak, CopyEnd,
        GetEnd

\* The batch keeps the queue sound: it moves one file, and stages it.
LEMMA BatchQueue ==
    ASSUME QueueInv, NEW f \in Files, Batch(f)
    PROVE  QueueInv'
<1>1. CASE RequestFor(f)
  <2>1. CASE Pending(f) /\ disk[f] # Absent
    BY <1>1, <2>1, StageQueue DEF RequestFor, BatchPC
  <2>2. CASE ~(Pending(f) /\ disk[f] # Absent)
    BY <1>1, <2>2, ProgressQueue DEF RequestFor, BatchPC, QueueInv
  <2> QED BY <2>1, <2>2
<1>2. CASE Inspect(f)
  <2>1. CASE /\ unit' = StageSet(f, "registering")
             /\ bpc' = [bpc EXCEPT ![f] = "sent"]
    BY <1>2, <2>1, StageQueue DEF Inspect, BatchPC
  <2>2. CASE /\ unit' = StageSet(f, "uploading")
             /\ bpc' = [bpc EXCEPT ![f] = "hashed"]
    BY <1>2, <2>2, StageQueue DEF Inspect, BatchPC
  <2>3. CASE unit' = unit /\ bpc' = [bpc EXCEPT ![f] = "bad"]
    <3>1. Sound(unit[f], "bad", tries[f])
      BY <1>2, AllSound DEF Sound, Inspect, BatchPC
    <3>2. unit' = [unit EXCEPT ![f] = unit[f]]
      BY <2>3 DEF QueueInv
    <3>3. tries' = [tries EXCEPT ![f] = tries[f]]
      BY <1>2 DEF QueueInv, Inspect
    <3>4. Save
      BY <1>2 DEF Inspect
    <3> QED BY <2>3, <3>1, <3>2, <3>3, <3>4, OneSaved
  <2> QED BY <1>2, <2>1, <2>2, <2>3 DEF Inspect
<1>3. CASE UploadStart(f)
  BY <1>3, ProgressQueue DEF UploadStart, BatchPC, QueueInv
<1>4. CASE UploadEnd(f)
  <2>1. CASE unit' = StageSet(f, "registering") /\ Save
                /\ bpc' = [bpc EXCEPT ![f] = "sent"]
    BY <1>4, <2>1, StageQueue DEF UploadEnd, BatchPC
  <2>2. CASE bpc' = [bpc EXCEPT ![f] = "bad"] /\ UNCHANGED <<unit, saved>>
    BY <1>4, <2>2, ProgressQueue DEF UploadEnd, BatchPC, QueueInv
  <2> QED BY <1>4, <2>1, <2>2 DEF UploadEnd
<1>5. CASE RegisterResult(f)
  BY <1>5, ProgressQueue DEF RegisterResult, BatchPC, QueueInv
<1> QED BY <1>1, <1>2, <1>3, <1>4, <1>5 DEF Batch

\* A failure is counted, and the last one gives the file up: a file in the
\* batch is not abandoned, so it has an attempt left to use.
LEMMA RecordFailureQueue ==
    ASSUME QueueInv, NEW f \in Files, RecordFailure(f)
    PROVE  QueueInv'
<1>1. CASE Pending(f)
  <2> DEFINE n == unit[f].attempts + 1
             stage == IF n >= MaxAttempts THEN "abandoned" ELSE "failed"
             u == [unit[f] EXCEPT !.attempts = n, !.retry = FALSE,
                                  !.stage = stage]
  <2>1. /\ unit[f] \in UnitType
        /\ unit[f].attempts \in 0 .. MaxAttempts
        /\ unit[f].attempts # MaxAttempts
        /\ tries[f] \in Nat
        /\ tries[f] <= unit[f].attempts
    BY DEF RecordFailure, QueueInv, GivenUp, Counted, UnitType
  <2>2. n \in 0 .. MaxAttempts /\ stage \in QueueStage
    BY <2>1, StagerAssumption DEF QueueStage, Resting
  <2>3. u \in UnitType /\ u.attempts = n /\ u.stage = stage
    <3> HIDE DEF n, stage
    <3>1. u \in UnitType
      BY <2>1, <2>2 DEF UnitType
    <3>2. u.attempts = n
      BY <2>1 DEF UnitType
    <3>3. u.stage = stage
      BY <2>1 DEF UnitType
    <3> QED BY <3>1, <3>2, <3>3
  <2>4. tries[f] + 1 \in Nat /\ tries[f] + 1 <= n
    BY <2>1
  <2>5. n = MaxAttempts => stage = "abandoned"
    BY <2>2, StagerAssumption
  <2>6. unit' = [unit EXCEPT ![f] = u]
    BY <1>1 DEF RecordFailure
  <2>7. Sound(u, "idle", tries[f] + 1)
    <3> HIDE DEF n, stage, u
    <3> QED BY <2>3, <2>4, <2>5 DEF Sound, BatchPC
  <2>8. /\ bpc' = [bpc EXCEPT ![f] = "idle"]
        /\ tries' = [tries EXCEPT ![f] = tries[f] + 1]
        /\ Save
    BY <1>1 DEF RecordFailure
  <2> HIDE DEF u
  <2> QED BY <2>6, <2>7, <2>8, OneSaved
<1>2. CASE ~Pending(f)
  BY <1>2, ProgressQueue DEF RecordFailure, BatchPC, QueueInv
<1> QED BY <1>1, <1>2

\* Settling keeps the queue sound.
LEMMA SettleQueue ==
    ASSUME QueueInv, NEW f \in Files, Settle(f)
    PROVE  QueueInv'
<1>1. CASE Complete(f)
  <2>1. Sound(NoUnit, "idle", 0)
    BY NoUnitSound DEF BatchPC
  <2> QED BY <1>1, <2>1, OneSaved DEF Complete, Untried
<1>2. CASE CompleteRaises(f)
  BY <1>2, ProgressQueue DEF CompleteRaises, BatchPC, QueueInv
<1>3. CASE RecordFailure(f)
  BY <1>3, RecordFailureQueue
<1> QED BY <1>1, <1>2, <1>3 DEF Settle

\* _due drops what has vanished and takes what is ready; an abandoned file is
\* neither put in the batch nor given new attempts.
LEMMA DueQueue ==
    ASSUME QueueInv, Due
    PROVE  QueueInv'
<1>1. ASSUME NEW f \in Files
      PROVE  /\ unit'[f] \in UnitType
             /\ unit'[f].attempts \in {0, unit[f].attempts}
             /\ unit'[f].stage = "abandoned" => ~Ready(f)
             /\ unit'[f].attempts = MaxAttempts => unit'[f].stage = "abandoned"
             /\ tries'[f] \in Nat
             /\ tries'[f] <= unit'[f].attempts
             /\ tries'[f] <= saved[f].attempts
  <2>1. /\ unit[f] \in UnitType
        /\ unit[f].attempts = MaxAttempts => unit[f].stage = "abandoned"
        /\ tries[f] \in Nat
        /\ tries[f] <= unit[f].attempts
        /\ tries[f] <= saved[f].attempts
        /\ saved[f].attempts \in Nat
    BY DEF QueueInv, GivenUp, Counted, SavedType
  <2>2. CASE Vanished(f)
    <3>1. unit'[f] = NoUnit /\ tries'[f] = 0
      BY <2>2 DEF Due
    <3>2. ~Ready(f)
      BY <2>2 DEF Ready, Vanished
    <3> QED BY <2>1, <3>1, <3>2, StagerAssumption DEF NoUnit, UnitType
  <2>3. CASE ~Vanished(f) /\ Ready(f)
    <3>1. unit'[f] = [unit[f] EXCEPT !.stage = "uploading"]
          /\ tries'[f] = tries[f]
      BY <2>3 DEF Due
    <3>2. unit[f].stage # "abandoned"
      BY <2>3 DEF Ready
    <3> QED BY <2>1, <3>1, <3>2 DEF UnitType, QueueStage
  <2>4. CASE ~Vanished(f) /\ ~Ready(f)
    <3>1. unit'[f] = unit[f] /\ tries'[f] = tries[f]
      BY <2>4 DEF Due
    <3> QED BY <2>1, <2>4, <3>1
  <2> QED BY <2>2, <2>3, <2>4
<1>2. ASSUME NEW f \in Files
      PROVE  bpc'[f] = (IF Ready(f) THEN "due" ELSE "idle")
  BY DEF Due
<1>3. /\ unit' \in [Files -> UnitType]
      /\ bpc' \in [Files -> BatchPC]
      /\ tries' \in [Files -> Nat]
  <2>1. DOMAIN unit' = Files /\ unit' = [f \in Files |-> unit'[f]]
    BY DEF Due
  <2>2. tries' = [f \in Files |-> tries'[f]]
    BY DEF Due
  <2>3. bpc' \in [Files -> BatchPC]
    BY DEF Due, BatchPC
  <2> QED BY <1>1, <2>1, <2>2, <2>3
<1>4. saved' = saved
  BY DEF Due
<1>5. GivenUp'
  BY <1>1, <1>2, <1>4 DEF GivenUp, QueueInv
<1>6. Counted'
  BY <1>1, <1>4 DEF Counted
<1> QED BY <1>3, <1>4, <1>5, <1>6 DEF QueueInv

\* The debounce window and the retry delay pass without touching attempts.
LEMMA TimeQueue ==
    ASSUME QueueInv, NEW f \in Files, QuietPasses(f) \/ RetryPasses(f)
    PROVE  QueueInv'
<1>1. /\ unit' \in [Files -> UnitType]
      /\ \A g \in Files : /\ unit'[g].attempts = unit[g].attempts
                          /\ unit'[g].stage = unit[g].stage
  <2>1. CASE QuietPasses(f)
    BY <2>1 DEF QuietPasses, QueueInv, UnitType
  <2>2. CASE RetryPasses(f)
    BY <2>2 DEF RetryPasses, QueueInv, UnitType
  <2> QED BY <2>1, <2>2
<1>2. UNCHANGED <<saved, bpc, tries>>
  BY DEF QuietPasses, RetryPasses
<1> QED BY <1>1, <1>2 DEF QueueInv, GivenUp, Counted

\* A restart reads the attempts back, and what was given up stays given up.
LEMMA CrashQueue ==
    ASSUME QueueInv, CrashRestart
    PROVE  QueueInv'
<1>1. ASSUME NEW f \in Files
      PROVE  /\ Sound(Adopted(f), "idle", 0)
             /\ disk[f] # Absent => Sound(Adopted(f), "idle", tries[f])
  <2>1. /\ saved[f].attempts \in 0 .. MaxAttempts
        /\ saved[f].stage \in QueueStage \cup {"none"}
        /\ saved[f].attempts = MaxAttempts => saved[f].stage = "abandoned"
        /\ tries[f] \in Nat
        /\ tries[f] <= saved[f].attempts
    BY DEF QueueInv, SavedType, GivenUp, Counted
  <2>2. CASE disk[f] = Absent
    BY <2>2, NoUnitSound DEF Adopted, BatchPC
  <2>3. CASE disk[f] # Absent
    <3> DEFINE stage == IF saved[f].stage \in Resting
                        THEN saved[f].stage ELSE "staging"
    <3>1. Adopted(f) = [stage |-> stage, attempts |-> saved[f].attempts,
                        quiet |-> FALSE, retry |-> TRUE, writers |-> 0]
      BY <2>3 DEF Adopted, Staged, NoUnit
    <3>2. stage \in QueueStage
      BY DEF QueueStage, Resting
    <3>3. saved[f].attempts = MaxAttempts => stage = "abandoned"
      BY <2>1 DEF Resting
    <3> HIDE DEF stage
    <3>4. Adopted(f) \in UnitType
      BY <2>1, <3>1, <3>2 DEF UnitType
    <3> QED BY <2>1, <3>1, <3>3, <3>4 DEF Sound, BatchPC
  <2> QED BY <2>2, <2>3
<1>2. ASSUME NEW f \in Files
      PROVE  /\ unit'[f] = Adopted(f)
             /\ bpc'[f] = "idle"
             /\ tries'[f] = IF disk[f] = Absent THEN 0 ELSE tries[f]
  BY DEF CrashRestart
<1>3. ASSUME NEW f \in Files
      PROVE  Sound(unit'[f], bpc'[f], tries'[f])
  BY <1>1, <1>2
<1>4. /\ unit' \in [Files -> UnitType]
      /\ bpc' \in [Files -> BatchPC]
      /\ tries' \in [Files -> Nat]
      /\ Save
  <2>1. unit' \in [Files -> UnitType]
    BY <1>1 DEF CrashRestart, Sound
  <2>2. bpc' \in [Files -> BatchPC]
    BY DEF CrashRestart, BatchPC
  <2>3. tries' \in [Files -> Nat]
    BY DEF CrashRestart, QueueInv
  <2> QED BY <2>1, <2>2, <2>3 DEF CrashRestart
<1> QED BY <1>3, <1>4, AllSaved

-----------------------------------------------------------------------------
(* Every action keeps the other types *)

\* The clients keep the types of the staging directory and of their requests.
LEMMA ClientFlow ==
    ASSUME AttemptInv, NEW c \in Clients, Client(c)
    PROVE  FlowType'
<1> USE Halves DEF FlowType, OnDisk, Bytes
<1>i. Idle \in ReqType
  BY DEF Idle, ReqType, OnDisk, Bytes
<1>1. ASSUME NEW f \in Files, PutBegin(c, f) PROVE FlowType'
  <2>1. req' \in [Clients -> ReqType]
    BY <1>1, <1>i DEF PutBegin, ReqType
  <2> QED BY <1>1, <2>1 DEF PutBegin
<1>2. ASSUME NEW f \in Files, GetBegin(c, f) PROVE FlowType'
  <2>1. req' \in [Clients -> ReqType]
    BY <1>2, <1>i DEF GetBegin, ReqType
  <2> QED BY <1>2, <2>1 DEF GetBegin
<1>3. CASE PutOpen(c)
  <2>1. req' \in [Clients -> ReqType]
    <3> DEFINE f == req[c].file
    <3>1. [req[c] EXCEPT !.pc = "writing", !.alone = (Writing(f) = {})]
             \in ReqType
      BY DEF ReqType
    <3>2. ASSUME NEW d \in Clients
          PROVE  /\ req[d] \in ReqType
                 /\ [req[d] EXCEPT !.alone = FALSE] \in ReqType
      BY DEF ReqType
    <3> QED BY <1>3, <3>1, <3>2 DEF PutOpen
  <2> QED BY <1>3, <2>1 DEF PutOpen
<1>4. ASSUME NEW v \in Contents, PutClose(c, v) PROVE FlowType'
  <2>1. req' \in [Clients -> ReqType]
    <3>1. [req[c] EXCEPT !.pc = "closed", !.content = v] \in ReqType
      BY DEF ReqType
    <3>2. req' = [req EXCEPT ![c] = [req[c] EXCEPT !.pc = "closed",
                                                   !.content = v]]
      BY <1>4 DEF PutClose
    <3> QED BY <3>1, <3>2
  <2>2. disk' \in [Files -> OnDisk]
    <3>1. PICK bytes \in {v, Mixed} :
             disk' = [disk EXCEPT ![req[c].file] = bytes]
      BY <1>4 DEF PutClose
    <3> QED BY <3>1
  <2>3. acked' \in [Files -> OnDisk]
    BY <1>4 DEF PutClose
  <2> QED BY <1>4, <2>1, <2>2, <2>3 DEF PutClose
<1>5. CASE PutBreak(c)
  <2>1. req' \in [Clients -> ReqType]
    BY <1>5 DEF PutBreak, ReqType
  <2>2. faults' \in 0 .. MaxFaults
    BY <1>5, StagerAssumption DEF PutBreak
  <2> QED BY <1>5, <2>1, <2>2 DEF PutBreak
<1>6. CASE PutEnd(c)
  <2>1. req' \in [Clients -> ReqType]
    BY <1>6, <1>i DEF PutEnd
  <2>2. acked' \in [Files -> OnDisk]
    BY <1>6 DEF PutEnd, ReqType
  <2> QED BY <1>6, <2>1, <2>2 DEF PutEnd
<1>7. CASE PutEndFailed(c)
  <2>1. req' \in [Clients -> ReqType]
    BY <1>7, <1>i DEF PutEndFailed
  <2> QED BY <1>7, <2>1 DEF PutEndFailed
<1>8. ASSUME NEW g \in Files, NEW f \in Files, CopyBegin(c, g, f)
      PROVE  FlowType'
  <2>1. req' \in [Clients -> ReqType]
    BY <1>8, <1>i DEF CopyBegin, ReqType
  <2> QED BY <1>8, <2>1 DEF CopyBegin
<1>9. CASE CopyEnd(c)
  <2>1. req' \in [Clients -> ReqType]
    BY <1>9, <1>i DEF CopyEnd
  <2>2. disk' \in [Files -> OnDisk]
    BY <1>9 DEF CopyEnd, ReqType
  <2>3. acked' \in [Files -> OnDisk]
    BY <1>9 DEF CopyEnd, ReqType
  <2> QED BY <1>9, <2>1, <2>2, <2>3 DEF CopyEnd
<1>10. CASE GetEnd(c)
  BY <1>10, <1>i DEF GetEnd
<1> QED BY <1>1, <1>2, <1>3, <1>4, <1>5, <1>6, <1>7, <1>8, <1>9, <1>10
    DEF Client

\* The batch keeps the types of the drive and of what it works on.
LEMMA BatchFlow ==
    ASSUME AttemptInv, NEW f \in Files, Batch(f) \/ StepFails(f)
    PROVE  FlowType'
<1> USE Halves DEF FlowType, OnDisk, Bytes
<1>r. Registered(f) => /\ docs' \in [Files -> SUBSET (OnDisk \X OnDisk)]
                       /\ head' \in [Files -> OnDisk]
  BY DEF Registered
<1>1. CASE RequestFor(f)
  BY <1>1 DEF RequestFor
<1>2. CASE Inspect(f)
  <2>1. fp' \in [Files -> OnDisk]
    BY <1>2 DEF Inspect
  <2>2. up' \in [Files -> OnDisk]
    <3>1. ASSUME NEW row \in docs[f] PROVE row[2] \in OnDisk
      BY DEF OnDisk
    <3> QED BY <1>2, <3>1 DEF Inspect
  <2> QED BY <1>2, <2>1, <2>2 DEF Inspect
<1>3. CASE UploadStart(f)
  BY <1>3 DEF UploadStart
<1>4. CASE UploadEnd(f)
  BY <1>4 DEF UploadEnd
<1>5. CASE RegisterResult(f)
  BY <1>5, <1>r DEF RegisterResult
<1>6. CASE StepFails(f)
  <2>1. faults' \in 0 .. MaxFaults
    BY <1>6, StagerAssumption DEF StepFails
  <2>2. UNCHANGED <<docs, head>> \/ Registered(f)
    BY <1>6 DEF StepFails
  <2> QED BY <1>6, <1>r, <2>1, <2>2 DEF StepFails
<1> QED BY <1>1, <1>2, <1>3, <1>4, <1>5, <1>6 DEF Batch

\* So do a DELETE, the settling of a file, and time.
LEMMA SettleFlow ==
    ASSUME AttemptInv, NEW f \in Files,
           \/ Delete(f) \/ HandOffRaises(f) \/ Settle(f)
           \/ QuietPasses(f) \/ RetryPasses(f)
    PROVE  FlowType'
<1> USE Halves DEF FlowType, OnDisk, Bytes
<1>1. CASE Delete(f)
  BY <1>1 DEF Delete
<1>2. CASE HandOffRaises(f) \/ QuietPasses(f) \/ RetryPasses(f)
  BY <1>2 DEF HandOffRaises, QuietPasses, RetryPasses
<1>3. CASE Settle(f)
  BY <1>3 DEF Settle, Complete, CompleteRaises, RecordFailure
<1> QED BY <1>1, <1>2, <1>3

\* And so do the steps of the whole loop, and a restart.
LEMMA LoopFlow ==
    ASSUME AttemptInv,
           BatchRaises \/ Due \/ BatchDone \/ SettleDone \/ CrashRestart
    PROVE  FlowType'
<1> USE Halves DEF FlowType, OnDisk, Bytes
<1>1. CASE BatchRaises
  BY <1>1 DEF BatchRaises
<1>2. CASE Due \/ BatchDone \/ SettleDone
  BY <1>2 DEF Due, BatchDone, SettleDone
<1>3. CASE CrashRestart
  <2>1. req' \in [Clients -> ReqType]
    BY <1>3 DEF CrashRestart, Idle, ReqType
  <2>2. crashes' \in 0 .. MaxCrashes
    BY <1>3, StagerAssumption DEF CrashRestart
  <2> QED BY <1>3, <2>1, <2>2 DEF CrashRestart
<1> QED BY <1>1, <1>2, <1>3

-----------------------------------------------------------------------------
(* The theorems *)

\* Nothing is queued at the start.
LEMMA InitSound == Init => AttemptInv
<1> SUFFICES ASSUME Init PROVE QueueInv /\ FlowType
  BY Halves
<1>1. QueueInv
  <2>1. NoUnit \in UnitType
    BY NoUnitSound DEF Sound, BatchPC
  <2>2. unit \in [Files -> UnitType]
    BY <2>1 DEF Init
  <2>3. saved \in [Files -> SavedType]
    BY StagerAssumption DEF Init, SavedType
  <2>4. bpc \in [Files -> BatchPC] /\ tries \in [Files -> Nat]
    BY DEF Init, BatchPC
  <2>5. GivenUp /\ Counted
    BY StagerAssumption DEF Init, GivenUp, Counted, NoUnit
  <2> QED BY <2>2, <2>3, <2>4, <2>5 DEF QueueInv
<1>2. FlowType
  <2>1. req \in [Clients -> ReqType]
    BY DEF Init, Idle, ReqType, OnDisk, Bytes
  <2>2. faults \in 0 .. MaxFaults /\ crashes \in 0 .. MaxCrashes
    BY StagerAssumption DEF Init
  <2> QED BY <2>1, <2>2 DEF Init, FlowType, OnDisk
<1> QED BY <1>1, <1>2

\* Every step keeps the invariant.
LEMMA NextSound == AttemptInv /\ [Next]_vars => AttemptInv'
<1> SUFFICES ASSUME AttemptInv, [Next]_vars PROVE AttemptInv'
  OBVIOUS
<1>h. QueueInv /\ FlowType
  BY Halves
<1>p. QueueInv' /\ FlowType' => AttemptInv'
  BY DEF AttemptInv, QueueInv, FlowType, TypeOK, SavedType, BatchPC, ReqType
<1>1. ASSUME NEW c \in Clients, Client(c) PROVE AttemptInv'
  BY <1>1, <1>h, <1>p, ClientFlow, ClientQueue
<1>2. ASSUME NEW f \in Files, Delete(f) PROVE AttemptInv'
  BY <1>2, <1>h, <1>p, SettleFlow, WriteQueue DEF Delete
<1>3. ASSUME NEW f \in Files, StepFails(f) PROVE AttemptInv'
  <2>1. QueueInv'
    BY <1>3, <1>h, ProgressQueue DEF StepFails, QueueInv, BatchPC
  <2> QED BY <1>3, <1>p, <2>1, BatchFlow
<1>4. ASSUME NEW f \in Files, HandOffRaises(f) PROVE AttemptInv'
  <2>1. QueueInv'
    BY <1>4, <1>h, ProgressQueue DEF HandOffRaises, QueueInv, BatchPC
  <2> QED BY <1>4, <1>p, <2>1, SettleFlow
<1>5. CASE BatchRaises
  <2>1. QueueInv'
    BY <1>5, <1>h, ProgressQueue DEF BatchRaises, QueueInv, BatchPC
  <2> QED BY <1>5, <1>p, <2>1, LoopFlow
<1>6. CASE Due
  BY <1>6, <1>h, <1>p, DueQueue, LoopFlow
<1>7. CASE BatchDone \/ SettleDone
  <2>1. QueueInv'
    BY <1>7, <1>h, ProgressQueue DEF BatchDone, SettleDone, QueueInv
  <2> QED BY <1>7, <1>p, <2>1, LoopFlow
<1>8. ASSUME NEW f \in Files, Batch(f) PROVE AttemptInv'
  BY <1>8, <1>h, <1>p, BatchFlow, BatchQueue
<1>9. ASSUME NEW f \in Files, Settle(f) PROVE AttemptInv'
  BY <1>9, <1>h, <1>p, SettleFlow, SettleQueue
<1>10. ASSUME NEW f \in Files, QuietPasses(f) \/ RetryPasses(f)
       PROVE  AttemptInv'
  BY <1>10, <1>h, <1>p, SettleFlow, TimeQueue
<1>11. CASE CrashRestart
  BY <1>11, <1>h, <1>p, LoopFlow, CrashQueue
<1>12. CASE UNCHANGED vars
  BY <1>12, <1>h, <1>p DEF vars, QueueInv, FlowType, GivenUp, Counted
<1> QED BY <1>1, <1>2, <1>3, <1>4, <1>5, <1>6, <1>7, <1>8, <1>9, <1>10,
           <1>11, <1>12
    DEF Next, Loop, Time

\* The invariant holds throughout.
LEMMA AttemptInvariant == Spec => []AttemptInv
BY InitSound, NextSound, PTL DEF Spec

\* Every variable keeps its type for any files, clients and bounds; a unit
\* never has more than MAX_ATTEMPTS attempts (_record_failure, touch,
\* _adopt_leftovers).
THEOREM StagerTypes == Spec => []TypeOK
<1>1. AttemptInv => TypeOK
  BY DEF AttemptInv
<1> QED BY <1>1, AttemptInvariant, PTL

\* Whatever the clients, the batch and any number of restarts do, a file that
\* nobody writes again fails at most MAX_ATTEMPTS uploads (_record_failure,
\* _adopt_leftovers).
THEOREM BoundedRetries == Spec => []RetriesBounded
<1>1. AttemptInv => RetriesBounded
  <2> SUFFICES ASSUME AttemptInv, NEW f \in Files
               PROVE  tries[f] <= MaxAttempts
    BY DEF RetriesBounded
  <2>1. unit[f].attempts \in 0 .. MaxAttempts /\ tries[f] \in Nat
    BY DEF AttemptInv, TypeOK, UnitType
  <2>2. tries[f] <= unit[f].attempts
    BY DEF AttemptInv, Counted
  <2> QED BY <2>1, <2>2, StagerAssumption
<1> QED BY <1>1, AttemptInvariant, PTL

-----------------------------------------------------------------------------
(* Writers and the batch *)

\* The PUTs under way that the stager was told of.
Announced(f) == At(f, {"begun", "writing", "closed", "broken"})

\* No write meets a batch: none starts on a file that is in one, and none lasts
\* so long that the debounce takes its file for quiet.
Apart == ~WritesDuringBatch /\ ~LongWrites

\* The writer count is the number of PUTs under way, a copy under way keeps the
\* file from being quiet, and so no file of a batch is being written.
WriterOK(f) ==
    /\ IsFiniteSet(Announced(f))
    /\ unit[f].writers = Cardinality(Announced(f))
    /\ unit[f].stage = "none" => unit[f].writers = 0
    /\ Announced(f) # {} => disk[f] # Absent
    /\ At(f, {"copying"}) # {} => ~unit[f].quiet
    /\ \A c \in At(f, {"copying"}) : req[c].content # Absent
    /\ bpc[f] # "idle" => Putting(f) = {}

\* And so for every file.
WriterInv == \A f \in Files : WriterOK(f)

\* How a set of requests changes when one client's request does.
LEMMA AtStep ==
    ASSUME NEW c \in Clients, NEW f, NEW pcs,
           \A d \in Clients : d # c => /\ req'[d].pc = req[d].pc
                                       /\ req'[d].file = req[d].file
    PROVE  At(f, pcs)' = IF req'[c].file = f /\ req'[c].pc \in pcs
                         THEN At(f, pcs) \cup {c} ELSE At(f, pcs) \ {c}
BY DEF At

\* A write under way was announced by begin_write, or is a copy.
LEMMA PuttingParts ==
    ASSUME NEW f
    PROVE  /\ Putting(f) = Announced(f) \cup At(f, {"copying"})
           /\ Putting(f)' = Announced(f)' \cup At(f, {"copying"})'
BY DEF Putting, Announced, At

\* Only these facts about a file matter to WriterOK.
LEMMA WriterKept ==
    ASSUME NEW f \in Files, WriterOK(f),
           Announced(f)' = Announced(f),
           At(f, {"copying"})' \subseteq At(f, {"copying"}),
           \A c \in At(f, {"copying"})' : req'[c].content = req[c].content,
           unit'[f].writers = unit[f].writers,
           unit'[f].stage = "none" <=> unit[f].stage = "none",
           unit'[f].quiet = unit[f].quiet \/ unit'[f].quiet = FALSE,
           Announced(f) # {} /\ disk[f] # Absent => disk'[f] # Absent,
           bpc'[f] # "idle" => bpc[f] # "idle"
    PROVE  WriterOK(f)'
BY PuttingParts DEF WriterOK

\* touch restarts the debounce window and leaves the writer count alone,
LEMMA TouchedWriters ==
    ASSUME NEW u \in UnitType, u.stage = "none" => u.writers = 0
    PROVE  /\ Touched(u).writers = u.writers
           /\ Touched(u).stage # "none"
           /\ Touched(u).quiet = FALSE
           /\ Touched(u) \in UnitType
<1>1. 0 \in 0 .. MaxAttempts
  BY StagerAssumption
<1>2. CASE u.stage = "none"
  <2>1. Touched(u) = [stage |-> "staging", attempts |-> 0, quiet |-> FALSE,
                      retry |-> FALSE, writers |-> 0]
    BY <1>2 DEF Touched, Staged, NoUnit
  <2> QED BY <1>1, <1>2, <2>1 DEF UnitType, QueueStage, Resting
<1>3. CASE u.stage = "failed"
  <2>1. Touched(u) = [u EXCEPT !.quiet = FALSE, !.stage = "staging",
                               !.attempts = 0]
    BY <1>3 DEF Touched
  <2>2. Touched(u) = [stage |-> "staging", attempts |-> 0, quiet |-> FALSE,
                      retry |-> u.retry, writers |-> u.writers]
    BY <2>1 DEF UnitType
  <2> QED BY <1>1, <2>2 DEF UnitType, QueueStage, Resting
<1>4. CASE u.stage \notin {"none", "failed"}
  BY <1>4 DEF Touched, UnitType
<1> QED BY <1>2, <1>3, <1>4

\* begin_write adds a writer,
LEMMA WriterAddedWriters ==
    ASSUME NEW u \in UnitType
    PROVE  /\ WriterAdded(u).writers = u.writers + 1
           /\ WriterAdded(u).stage = u.stage
           /\ WriterAdded(u).quiet = u.quiet
BY DEF WriterAdded, UnitType

\* and end_write takes one away.
LEMMA WriterGoneWriters ==
    ASSUME NEW u \in UnitType
    PROVE  /\ WriterGone(u).writers = IF u.writers > 0 THEN u.writers - 1 ELSE 0
           /\ WriterGone(u).stage = u.stage
           /\ WriterGone(u) \in UnitType
BY DEF WriterGone, UnitType

\* The clients keep the writer count: each begin_write is matched by one
\* end_write, and a failed PUT drops the unit only when it was the last.
LEMMA ClientWriter ==
    ASSUME AttemptInv, Apart, WriterInv, NEW c \in Clients, Client(c),
           NEW f \in Files
    PROVE  WriterOK(f)'
<1>t. /\ \A g \in Files : unit[g] \in UnitType
      /\ req \in [Clients -> ReqType]
      /\ disk \in [Files -> OnDisk]
      /\ unit \in [Files -> UnitType]
  BY DEF AttemptInv, TypeOK, ReqType
<1>w. WriterOK(f)
  BY DEF WriterInv
<1>i. /\ Idle \in ReqType /\ Idle.pc = "idle" /\ Idle.file = NoFile
      /\ NoFile # f
  BY StagerAssumption DEF Idle, ReqType, OnDisk, Bytes
<1>1. ASSUME NEW h \in Files, PutBegin(c, h) PROVE WriterOK(f)'
  <2>1. /\ req[c].pc = "idle" /\ bpc' = bpc
        /\ req' = [req EXCEPT ![c] = [Idle EXCEPT !.pc = "begun", !.file = h]]
        /\ disk' = IF disk[h] = Absent THEN [disk EXCEPT ![h] = Empty] ELSE disk
        /\ unit' = [unit EXCEPT ![h] = WriterAdded(Touched(@))]
    BY <1>1 DEF PutBegin
  <2>2. /\ req'[c].pc = "begun" /\ req'[c].file = h
        /\ \A d \in Clients : d # c => req'[d] = req[d]
    BY <1>t, <1>i, <2>1 DEF ReqType
  <2>3. c \notin Announced(f) /\ c \notin At(f, {"copying"})
    BY <2>1 DEF Announced, At
  <2>4. /\ Announced(f)' = IF f = h THEN Announced(f) \cup {c} ELSE Announced(f)
        /\ At(f, {"copying"})' = At(f, {"copying"})
    BY <2>2, <2>3 DEF Announced, At
  <2>5. CASE f = h
    <3>1. bpc'[f] = "idle"
      BY <1>1, <2>1, <2>5 DEF PutBegin, MayWrite, Apart
    <3>2. disk'[f] # Absent
      <4>1. CASE disk[f] = Absent
        BY <1>t, <2>1, <2>5, <4>1 DEF Absent, Empty
      <4>2. CASE disk[f] # Absent
        BY <2>1, <2>5, <4>2
      <4> QED BY <4>1, <4>2
    <3>3. /\ unit'[f].writers = unit[f].writers + 1
          /\ unit'[f].stage # "none" /\ ~unit'[f].quiet
      <4>1. unit'[f] = WriterAdded(Touched(unit[f]))
        BY <1>t, <2>1, <2>5
      <4>2. /\ unit[f] \in UnitType
            /\ unit[f].stage = "none" => unit[f].writers = 0
        BY <1>t, <1>w DEF WriterOK
      <4>3. /\ Touched(unit[f]).writers = unit[f].writers
            /\ Touched(unit[f]).stage # "none"
            /\ Touched(unit[f]).quiet = FALSE
            /\ Touched(unit[f]) \in UnitType
        BY <4>2, TouchedWriters
      <4> QED BY <4>1, <4>3, WriterAddedWriters
    <3>4. /\ IsFiniteSet(Announced(f)')
          /\ Cardinality(Announced(f)') = Cardinality(Announced(f)) + 1
      <4>1. Announced(f)' = Announced(f) \cup {c} /\ IsFiniteSet(Announced(f))
        BY <1>w, <2>4, <2>5 DEF WriterOK
      <4> QED BY <2>3, <4>1, FS_AddElement
    <3>5. \A d \in At(f, {"copying"})' : req'[d].content # Absent
      BY <1>w, <2>2, <2>3, <2>4 DEF WriterOK, At
    <3> QED BY <1>w, <3>1, <3>2, <3>3, <3>4, <3>5 DEF WriterOK
  <2>6. CASE f # h
    <3>1. unit'[f] = unit[f] /\ disk'[f] = disk[f]
      BY <1>t, <2>1, <2>6
    <3>2. \A d \in At(f, {"copying"})' : req'[d].content = req[d].content
      BY <2>2, <2>3, <2>4 DEF At
    <3> QED BY <1>w, <2>1, <2>4, <2>6, <3>1, <3>2, WriterKept
  <2> QED BY <2>5, <2>6
<1>2. ASSUME NEW pcs \in {<<"begun", "writing">>, <<"writing", "closed">>,
                          <<"writing", "broken">>},
             req[c].pc = pcs[1], req'[c].pc = pcs[2], req'[c].file = req[c].file,
             \A d \in Clients : d # c => /\ req'[d].pc = req[d].pc
                                         /\ req'[d].file = req[d].file
                                         /\ req'[d].content = req[d].content,
             UNCHANGED <<unit, bpc>>, disk[f] # Absent => disk'[f] # Absent
      PROVE  WriterOK(f)'
  <2>1. /\ Announced(f)' = Announced(f)
        /\ At(f, {"copying"})' = At(f, {"copying"}) /\ c \notin At(f, {"copying"})
    BY <1>2, AtStep DEF Announced, At
  <2>2. \A d \in At(f, {"copying"})' : req'[d].content = req[d].content
    BY <1>2, <2>1 DEF At
  <2> QED BY <1>2, <1>w, <2>1, <2>2, WriterKept
<1>3. CASE PutOpen(c)
  <2>1. /\ req[c].pc = "begun" /\ UNCHANGED <<unit, bpc>>
        /\ disk' = [disk EXCEPT ![req[c].file] = Partial]
        /\ req' = [d \in Clients |->
                  IF d = c THEN [req[c] EXCEPT !.pc = "writing",
                                     !.alone = (Writing(req[c].file) = {})]
                  ELSE IF d \in Writing(req[c].file)
                  THEN [req[d] EXCEPT !.alone = FALSE] ELSE req[d]]
    BY <1>3 DEF PutOpen
  <2>2. req'[c].pc = "writing" /\ req'[c].file = req[c].file
    BY <1>t, <2>1 DEF ReqType
  <2>3. ASSUME NEW d \in Clients, d # c
        PROVE  /\ req'[d].pc = req[d].pc
               /\ req'[d].file = req[d].file
               /\ req'[d].content = req[d].content
    BY <1>t, <2>1, <2>3 DEF ReqType
  <2>4. disk[f] # Absent => disk'[f] # Absent
    BY <1>t, <2>1 DEF Partial, Absent
  <2> QED BY <1>2, <2>1, <2>2, <2>3, <2>4
<1>4. ASSUME NEW v \in Contents, PutClose(c, v) PROVE WriterOK(f)'
  <2>1. /\ req[c].pc = "writing" /\ UNCHANGED <<unit, bpc>>
        /\ req' = [req EXCEPT ![c].pc = "closed", ![c].content = v]
        /\ \E bytes \in {v, Mixed} : disk' = [disk EXCEPT ![req[c].file] = bytes]
    BY <1>4 DEF PutClose
  <2>2. req'[c].pc = "closed" /\ req'[c].file = req[c].file
    BY <1>t, <2>1 DEF ReqType
  <2>3. \A d \in Clients : d # c => req'[d] = req[d]
    BY <1>t, <2>1
  <2>4. disk[f] # Absent => disk'[f] # Absent
    BY <1>t, <2>1, StagerAssumption DEF Mixed, Absent
  <2> QED BY <1>2, <2>1, <2>2, <2>3, <2>4
<1>5. CASE PutBreak(c)
  <2>1. /\ req[c].pc = "writing" /\ UNCHANGED <<unit, bpc, disk>>
        /\ req' = [req EXCEPT ![c].pc = "broken"]
    BY <1>5 DEF PutBreak
  <2>2. /\ req'[c].pc = "broken" /\ req'[c].file = req[c].file
        /\ \A d \in Clients : d # c => req'[d] = req[d]
    BY <1>t, <2>1 DEF ReqType
  <2> QED BY <1>2, <2>1, <2>2
<1>6. CASE PutEnd(c) \/ PutEndFailed(c)
  <2> DEFINE h == req[c].file
             discard == WriterGone(unit[h]).writers = 0 /\ req[c].pc = "broken"
  <2>1. /\ req[c].pc \in {"closed", "broken"} /\ bpc' = bpc
        /\ req' = [req EXCEPT ![c] = Idle]
        /\ disk' = disk \/ (discard /\ disk' = [disk EXCEPT ![h] = Absent])
        /\ unit' = [unit EXCEPT ![h] = IF discard THEN NoUnit
                                       ELSE Touched(WriterGone(@))]
    BY <1>6 DEF PutEnd, PutEndFailed
  <2>2. /\ req'[c].pc = "idle" /\ req'[c].file # f
        /\ \A d \in Clients : d # c => req'[d] = req[d]
    BY <1>t, <1>i, <2>1
  <2>3. /\ Announced(f)' = Announced(f) \ {c}
        /\ At(f, {"copying"})' = At(f, {"copying"})
        /\ c \notin At(f, {"copying"})
        /\ c \in Announced(f) <=> h = f
    BY <2>1, <2>2, AtStep DEF Announced, At
  <2>4. \A d \in At(f, {"copying"})' : req'[d].content = req[d].content
    BY <2>2, <2>3 DEF At
  <2> HIDE DEF discard
  <2>5. CASE f = h
    <3>1. bpc'[f] = "idle"
      BY <1>w, <2>1, <2>3, <2>5, PuttingParts DEF WriterOK
    <3>2. /\ unit[f].writers = Cardinality(Announced(f))
          /\ Cardinality(Announced(f)) \in Nat
          /\ Cardinality(Announced(f)) > 0
          /\ IsFiniteSet(Announced(f)')
          /\ Cardinality(Announced(f)') = Cardinality(Announced(f)) - 1
      BY <1>w, <2>3, <2>5, FS_RemoveElement, FS_CardinalityType, FS_EmptySet
         DEF WriterOK
    <3>3. /\ WriterGone(unit[f]) \in UnitType
          /\ WriterGone(unit[f]).writers = unit[f].writers - 1
          /\ WriterGone(unit[f]).stage = unit[f].stage
      BY <1>t, <3>2, WriterGoneWriters
    <3>4. unit[f].stage # "none"
      BY <1>w, <3>2 DEF WriterOK
    <3>5. CASE discard
      <4>1. Cardinality(Announced(f)') = 0
        BY <2>5, <3>2, <3>3, <3>5 DEF discard
      <4>2. Announced(f)' = {}
        BY <3>2, <4>1, FS_EmptySet
      <4>3. unit'[f] = NoUnit
        BY <1>t, <2>1, <2>5, <3>5
      <4> QED BY <1>w, <2>3, <2>4, <3>1, <3>2, <4>1, <4>2, <4>3, PuttingParts
              DEF WriterOK, NoUnit
    <3>6. CASE ~discard
      <4>1. unit'[f] = Touched(WriterGone(unit[f])) /\ disk' = disk
        BY <1>t, <2>1, <2>5, <3>6
      <4>2. /\ unit'[f].writers = unit[f].writers - 1
            /\ unit'[f].stage # "none" /\ ~unit'[f].quiet
        BY <3>3, <3>4, <4>1, TouchedWriters
      <4> QED BY <1>w, <2>3, <2>4, <3>1, <3>2, <4>1, <4>2 DEF WriterOK
    <3> QED BY <3>5, <3>6
  <2>6. CASE f # h
    <3>1. unit'[f] = unit[f] /\ disk'[f] = disk[f]
      BY <1>t, <2>1, <2>6
    <3> QED BY <1>w, <2>1, <2>3, <2>4, <2>6, <3>1, WriterKept
  <2> QED BY <2>5, <2>6
<1>7. ASSUME NEW g \in Files, NEW h \in Files, CopyBegin(c, g, h)
      PROVE  WriterOK(f)'
  <2>1. /\ req[c].pc = "idle" /\ bpc' = bpc /\ disk[g] # Absent
        /\ req' = [req EXCEPT ![c] = [Idle EXCEPT !.pc = "copying", !.file = h,
                                              !.from = g, !.content = disk[g],
                                              !.alone = (Writing(h) = {})]]
        /\ disk' = [disk EXCEPT ![h] = Partial]
        /\ unit' = [unit EXCEPT ![h] = Touched(@)]
    BY <1>7 DEF CopyBegin, Resolves
  <2>2. /\ req'[c].pc = "copying" /\ req'[c].file = h /\ req'[c].content = disk[g]
        /\ \A d \in Clients : d # c => req'[d] = req[d]
    BY <1>t, <1>i, <2>1 DEF ReqType
  <2>3. c \notin Announced(f) /\ c \notin At(f, {"copying"})
    BY <2>1 DEF Announced, At
  <2>4. /\ Announced(f)' = Announced(f)
        /\ At(f, {"copying"})' = IF h = f THEN At(f, {"copying"}) \cup {c}
                                 ELSE At(f, {"copying"})
    BY <2>2, <2>3 DEF Announced, At
  <2>5. CASE f = h
    <3>1. bpc'[f] = "idle"
      BY <1>7, <2>1, <2>5 DEF CopyBegin, MayWrite, Apart
    <3>2. disk'[f] # Absent
      BY <1>t, <2>1, <2>5 DEF Absent, Partial
    <3>3. /\ unit'[f].writers = unit[f].writers
          /\ unit'[f].stage # "none" /\ ~unit'[f].quiet
      BY <1>t, <1>w, <2>1, <2>5, TouchedWriters DEF WriterOK
    <3>4. \A d \in At(f, {"copying"})' : req'[d].content # Absent
      BY <1>w, <2>1, <2>2, <2>4, <2>5 DEF WriterOK, At
    <3> QED BY <1>w, <2>4, <3>1, <3>2, <3>3, <3>4 DEF WriterOK
  <2>6. CASE f # h
    <3>1. unit'[f] = unit[f] /\ disk'[f] = disk[f]
      BY <1>t, <2>1, <2>6
    <3>2. \A d \in At(f, {"copying"})' : req'[d].content = req[d].content
      BY <2>2, <2>3, <2>4, <2>6 DEF At
    <3> QED BY <1>w, <2>1, <2>4, <2>6, <3>1, <3>2, WriterKept
  <2> QED BY <2>5, <2>6
<1>8. CASE CopyEnd(c)
  <2> DEFINE h == req[c].file
             bytes == IF req[c].alone /\ disk[req[c].from] = req[c].content
                      THEN req[c].content ELSE Mixed
  <2>1. /\ req[c].pc = "copying" /\ UNCHANGED <<unit, bpc>>
        /\ req' = [req EXCEPT ![c] = Idle]
        /\ disk' = [disk EXCEPT ![h] = bytes]
    BY <1>8 DEF CopyEnd
  <2>2. /\ req'[c].pc = "idle" /\ req'[c].file # f
        /\ \A d \in Clients : d # c => req'[d] = req[d]
    BY <1>t, <1>i, <2>1
  <2>3. /\ Announced(f)' = Announced(f)
        /\ At(f, {"copying"})' \subseteq At(f, {"copying"}) \ {c}
    BY <2>1, <2>2, AtStep DEF Announced, At
  <2>4. \A d \in At(f, {"copying"})' : req'[d].content = req[d].content
    BY <2>2, <2>3 DEF At
  <2>5. disk'[f] # Absent \/ disk'[f] = disk[f]
    <3>1. CASE h = f
      <4>1. c \in At(f, {"copying"})
        BY <2>1, <3>1 DEF At
      <4>2. bytes # Absent
        BY <1>w, <4>1 DEF WriterOK, Mixed, Absent
      <4> QED BY <1>t, <2>1, <3>1, <4>2
    <3>2. CASE h # f
      BY <1>t, <2>1, <3>2
    <3> QED BY <3>1, <3>2
  <2> QED BY <1>w, <2>1, <2>3, <2>4, <2>5, WriterKept
<1>9. CASE GetEnd(c) \/ \E h \in Files : GetBegin(c, h)
  <2> DEFINE Got(h) == [Idle EXCEPT !.pc = "getting", !.file = h]
  <2>1. /\ req[c].pc \in {"idle", "getting"} /\ UNCHANGED <<unit, bpc, disk>>
        /\ \/ req' = [req EXCEPT ![c] = Idle]
           \/ \E h \in Files : req' = [req EXCEPT ![c] = Got(h)]
    BY <1>9 DEF GetEnd, GetBegin
  <2>g. \A h \in Files : Got(h).pc = "getting"
    BY <1>i DEF ReqType
  <2> HIDE DEF Got
  <2>2. /\ req'[c].pc \in {"idle", "getting"}
        /\ \A d \in Clients : d # c => req'[d] = req[d]
    BY <1>t, <1>i, <2>1, <2>g
  <2>3. /\ Announced(f)' = Announced(f)
        /\ At(f, {"copying"})' = At(f, {"copying"})
        /\ c \notin At(f, {"copying"})
    BY <2>1, <2>2, AtStep DEF Announced, At
  <2>4. \A d \in At(f, {"copying"})' : req'[d].content = req[d].content
    BY <2>2, <2>3 DEF At
  <2> QED BY <1>w, <2>1, <2>3, <2>4, WriterKept
<1> QED BY <1>1, <1>3, <1>4, <1>5, <1>6, <1>7, <1>8, <1>9 DEF Client

\* A step that is not a client's leaves the writes under way alone.
LEMMA SameRequests ==
    ASSUME req' = req, NEW f
    PROVE  /\ Announced(f)' = Announced(f)
           /\ Putting(f)' = Putting(f)
           /\ \A pcs : At(f, pcs)' = At(f, pcs)
           /\ \A c \in Clients : req'[c].content = req[c].content
BY DEF Announced, Putting, At

\* A file of the batch moves on, its unit with it.
LEMMA StageSetWriters ==
    ASSUME AttemptInv, NEW g \in Files, NEW stage \in QueueStage,
           unit' = StageSet(g, stage), NEW f \in Files
    PROVE  /\ unit'[f].writers = unit[f].writers
           /\ unit'[f].quiet = unit[f].quiet
           /\ unit'[f].stage = "none" <=> unit[f].stage = "none"
           /\ unit'[f].stage = IF f = g /\ Pending(f) THEN stage
                               ELSE unit[f].stage
<1>1. unit \in [Files -> UnitType] /\ "none" \notin QueueStage
  BY DEF AttemptInv, TypeOK, QueueStage, Resting
<1> QED BY <1>1 DEF StageSet, Pending, UnitType

\* The batch keeps it: it lets no file in, and no unit go.
LEMMA BatchWriter ==
    ASSUME AttemptInv, WriterInv, NEW g \in Files,
           Batch(g) \/ StepFails(g) \/ HandOffRaises(g), NEW f \in Files
    PROVE  WriterOK(f)'
<1>w. WriterOK(f)
  BY DEF WriterInv
<1>1. req' = req /\ disk' = disk
  BY DEF Batch, RequestFor, Inspect, UploadStart, UploadEnd, RegisterResult,
     StepFails, HandOffRaises
<1>2. bpc'[f] # "idle" => bpc[f] # "idle"
  <2>1. bpc[g] # "idle" /\ \E b : bpc' = [bpc EXCEPT ![g] = b]
    BY DEF Batch, RequestFor, Inspect, UploadStart, UploadEnd, RegisterResult,
       StepFails, HandOffRaises
  <2>2. bpc \in [Files -> BatchPC]
    BY DEF AttemptInv, TypeOK, BatchPC
  <2> QED BY <2>1, <2>2
<1>3. \/ unit' = unit
      \/ \E stage \in QueueStage : unit' = StageSet(g, stage)
  BY DEF Batch, RequestFor, Inspect, UploadStart, UploadEnd, RegisterResult,
     StepFails, HandOffRaises, QueueStage
<1>4. /\ unit'[f].writers = unit[f].writers
      /\ unit'[f].quiet = unit[f].quiet
      /\ unit'[f].stage = "none" <=> unit[f].stage = "none"
  BY <1>3, StageSetWriters
<1>5. /\ Announced(f)' = Announced(f)
      /\ At(f, {"copying"})' = At(f, {"copying"})
      /\ \A c \in At(f, {"copying"}) : req'[c].content = req[c].content
  BY <1>1, SameRequests
<1> QED BY <1>w, <1>1, <1>2, <1>4, <1>5, WriterKept

\* The loop keeps it: _due takes a file into a batch only when it is quiet and
\* no write of it is under way, and drops a unit only when its file is gone.
LEMMA LoopWriter ==
    ASSUME AttemptInv, Apart, WriterInv,
           \/ BatchRaises \/ BatchDone \/ SettleDone \/ Due
           \/ \E g \in Files : \/ Delete(g) \/ Settle(g) \/ QuietPasses(g)
                               \/ RetryPasses(g),
           NEW f \in Files
    PROVE  WriterOK(f)'
<1>w. WriterOK(f)
  BY DEF WriterInv
<1>t. /\ unit \in [Files -> UnitType]
      /\ bpc \in [Files -> BatchPC]
      /\ disk \in [Files -> OnDisk]
  BY DEF AttemptInv, TypeOK, BatchPC
<1>1. req' = req
  BY DEF BatchRaises, BatchDone, SettleDone, Due, Delete, Settle, Complete,
     CompleteRaises, RecordFailure, QuietPasses, RetryPasses
<1>2. /\ Announced(f)' = Announced(f)
      /\ Putting(f)' = Putting(f)
      /\ At(f, {"copying"})' = At(f, {"copying"})
      /\ \A c \in At(f, {"copying"}) : req'[c].content = req[c].content
  BY <1>1, SameRequests
<1>3. ASSUME unit'[f].writers = unit[f].writers,
             unit'[f].quiet = unit[f].quiet,
             unit'[f].stage = "none" <=> unit[f].stage = "none",
             disk'[f] = disk[f],
             bpc'[f] # "idle" => bpc[f] # "idle"
      PROVE  WriterOK(f)'
  BY <1>w, <1>2, <1>3, WriterKept
<1>4. ASSUME Putting(f) = {}, unit'[f] = NoUnit \/ unit'[f] = unit[f]
      PROVE  WriterOK(f)'
  <2>1. Announced(f) = {} /\ At(f, {"copying"}) = {}
    BY <1>4, PuttingParts
  <2>2. Cardinality({}) = 0 /\ IsFiniteSet({})
    BY FS_EmptySet
  <2> QED BY <1>w, <1>2, <1>4, <2>1, <2>2 DEF WriterOK, NoUnit
<1>5. CASE BatchRaises \/ BatchDone \/ SettleDone
  <2>1. UNCHANGED <<unit, disk>> /\ (bpc'[f] # "idle" => bpc[f] # "idle")
    BY <1>5, <1>t DEF BatchRaises, BatchDone, SettleDone
  <2> QED BY <1>3, <2>1
<1>6. CASE Due
  <2>1. /\ unit'[f] = IF Vanished(f) THEN NoUnit
                      ELSE IF Ready(f) THEN [unit[f] EXCEPT !.stage = "uploading"]
                      ELSE unit[f]
        /\ bpc'[f] = IF Ready(f) THEN "due" ELSE "idle"
        /\ disk' = disk
    BY <1>6 DEF Due
  <2>2. CASE Vanished(f)
    <3>1. Announced(f) = {} /\ disk[f] = Absent /\ ~Ready(f)
      BY <1>w, <2>2 DEF Vanished, Ready, WriterOK
    <3>2. Cardinality({}) = 0 /\ IsFiniteSet({})
      BY FS_EmptySet
    <3> QED BY <1>w, <1>2, <2>1, <2>2, <3>1, <3>2 DEF WriterOK, NoUnit
  <2>3. CASE Ready(f) /\ ~Vanished(f)
    <3>1. /\ unit[f].writers = 0 /\ unit[f].quiet /\ unit[f].stage # "none"
      BY <2>3 DEF Ready, Apart
    <3>2. Announced(f) = {} /\ At(f, {"copying"}) = {}
      BY <1>w, <3>1, FS_EmptySet DEF WriterOK
    <3>3. Putting(f) = {}
      BY <3>2, PuttingParts
    <3>4. /\ unit'[f].writers = unit[f].writers
          /\ unit'[f].stage = "uploading"
      BY <1>t, <2>1, <2>3 DEF UnitType
    <3> QED BY <1>w, <1>2, <2>1, <3>1, <3>2, <3>3, <3>4 DEF WriterOK
  <2>4. CASE ~Ready(f) /\ ~Vanished(f)
    <3>1. unit'[f] = unit[f] /\ bpc'[f] = "idle"
      BY <2>1, <2>4
    <3> QED BY <1>3, <2>1, <3>1
  <2> QED BY <2>2, <2>3, <2>4
<1>7. ASSUME NEW g \in Files, Delete(g) \/ Settle(g) PROVE WriterOK(f)'
  <2>1. CASE f = g /\ (Delete(g) \/ Complete(g))
    <3>1. Putting(f) = {}
      BY <1>w, <2>1 DEF Delete, Complete, WriterOK
    <3>2. unit'[f] = NoUnit
      BY <1>t, <2>1 DEF Delete, Complete
    <3> QED BY <1>4, <3>1, <3>2
  <2>2. CASE f # g \/ CompleteRaises(g) \/ RecordFailure(g)
    <3>1. disk'[f] = disk[f]
      BY <1>7, <1>t, <2>2 DEF Delete, Settle, Complete, CompleteRaises,
           RecordFailure
    <3>2. bpc'[f] # "idle" => bpc[f] # "idle"
      BY <1>7, <1>t, <2>2 DEF Delete, Settle, Complete, CompleteRaises,
           RecordFailure
    <3>3. CASE unit'[f] = unit[f]
      BY <1>3, <3>1, <3>2, <3>3
    <3>4. CASE unit'[f] # unit[f]
      <4>1. f = g /\ RecordFailure(g) /\ Pending(f)
        BY <1>7, <1>t, <2>2, <3>4 DEF Delete, Settle, Complete, CompleteRaises,
           RecordFailure
      <4> DEFINE n == unit[f].attempts + 1
                 stage == IF n >= MaxAttempts THEN "abandoned" ELSE "failed"
      <4>2. unit' = [unit EXCEPT ![f] = [@ EXCEPT !.attempts = n, !.retry = FALSE,
                                                  !.stage = stage]]
        BY <4>1 DEF RecordFailure
      <4>3. stage # "none"
        OBVIOUS
      <4> HIDE DEF n, stage
      <4>4. /\ unit'[f].writers = unit[f].writers
            /\ unit'[f].quiet = unit[f].quiet
            /\ unit'[f].stage = stage
        BY <1>t, <4>2 DEF UnitType
      <4> QED BY <1>3, <3>1, <3>2, <4>1, <4>3, <4>4 DEF Pending
    <3> QED BY <3>3, <3>4
  <2> QED BY <1>7, <2>1, <2>2 DEF Settle
<1>8. ASSUME NEW g \in Files, QuietPasses(g) \/ RetryPasses(g) PROVE WriterOK(f)'
  <2>1. /\ UNCHANGED <<disk, bpc>>
        /\ \/ unit' = [unit EXCEPT ![g].quiet = TRUE] /\ At(g, {"copying"}) = {}
           \/ unit' = [unit EXCEPT ![g].retry = TRUE]
    BY <1>8 DEF QuietPasses, RetryPasses, Apart
  <2>2. /\ unit'[f].writers = unit[f].writers
        /\ unit'[f].stage = unit[f].stage
        /\ unit'[f].quiet # unit[f].quiet => At(f, {"copying"}) = {}
    BY <1>t, <2>1 DEF UnitType
  <2> QED BY <1>w, <1>2, <2>1, <2>2 DEF WriterOK
<1> QED BY <1>5, <1>6, <1>7, <1>8

\* A restart leaves no request, and no writer.
LEMMA CrashWriter ==
    ASSUME AttemptInv, CrashRestart, NEW f \in Files
    PROVE  WriterOK(f)'
<1>1. /\ \A c \in Clients : req'[c].pc = "idle"
      /\ unit'[f] = Adopted(f) /\ bpc'[f] = "idle"
  BY DEF CrashRestart, Idle
<1>2. Announced(f)' = {} /\ At(f, {"copying"})' = {}
  BY <1>1 DEF Announced, At
<1>3. unit'[f].writers = 0
  BY <1>1 DEF Adopted, Staged, NoUnit
<1>4. Cardinality({}) = 0 /\ IsFiniteSet({})
  BY FS_EmptySet
<1> QED BY <1>1, <1>2, <1>3, <1>4 DEF WriterOK

\* Every step keeps WriterInv.
LEMMA NextWriter ==
    ASSUME AttemptInv, Apart, WriterInv, [Next]_vars
    PROVE  WriterInv'
<1> SUFFICES ASSUME NEW f \in Files PROVE WriterOK(f)'
  BY DEF WriterInv
<1>1. CASE UNCHANGED vars
  BY <1>1 DEF vars, WriterInv, WriterOK, Announced, Putting, At
<1> QED BY <1>1, ClientWriter, BatchWriter, LoopWriter, CrashWriter
        DEF Next, Loop, Time

\* It holds when nothing is staged.
LEMMA InitWriter == Init => WriterInv
<1> SUFFICES ASSUME Init, NEW f \in Files PROVE WriterOK(f)
  BY DEF WriterInv
<1>1. \A c \in Clients : req[c].pc = "idle"
  BY DEF Init, Idle
<1>2. Announced(f) = {} /\ At(f, {"copying"}) = {}
  BY <1>1 DEF Announced, At
<1> QED BY <1>2, FS_EmptySet DEF Init, WriterOK, NoUnit

-----------------------------------------------------------------------------
(* What the batch reads is what it registers *)

\* A client leaves the files of a batch alone: their bytes, and what was
\* acknowledged of them, stay.
LEMMA BatchFreezes ==
    ASSUME AttemptInv, Apart, WriterInv, NEW f \in Files, bpc[f] # "idle",
           \/ \E c \in Clients : Client(c)
           \/ \E g \in Files : Delete(g)
    PROVE  disk'[f] = disk[f] /\ acked'[f] = acked[f]
<1>t. disk \in [Files -> OnDisk] /\ acked \in [Files -> OnDisk]
  BY DEF AttemptInv, TypeOK
<1>w. Putting(f) = {}
  BY DEF WriterInv, WriterOK
<1>1. ASSUME NEW g \in Files, Delete(g)
      PROVE  disk'[f] = disk[f] /\ acked'[f] = acked[f]
  <2>1. g # f
    BY <1>1 DEF Delete, MayWrite, Apart
  <2> QED BY <1>1, <1>t, <2>1 DEF Delete
<1>2. ASSUME NEW c \in Clients, Client(c)
      PROVE  disk'[f] = disk[f] /\ acked'[f] = acked[f]
  <2>1. ASSUME NEW h \in Files, PutBegin(c, h)
        PROVE  disk'[f] = disk[f] /\ acked'[f] = acked[f]
    <3>1. h # f
      BY <2>1 DEF PutBegin, MayWrite, Apart
    <3> QED BY <2>1, <1>t, <3>1 DEF PutBegin
  <2>2. ASSUME NEW g \in Files, NEW h \in Files, CopyBegin(c, g, h)
        PROVE  disk'[f] = disk[f] /\ acked'[f] = acked[f]
    <3>1. h # f
      BY <2>2 DEF CopyBegin, MayWrite, Apart
    <3> QED BY <2>2, <1>t, <3>1 DEF CopyBegin
  <2>3. CASE req[c].pc \in {"begun", "writing", "closed", "broken", "copying"}
    <3>1. req[c].file # f
      BY <1>w, <2>3 DEF Putting, At
    <3>2. CASE PutOpen(c)
      BY <1>t, <3>1, <3>2 DEF PutOpen
    <3>3. ASSUME NEW v \in Contents, PutClose(c, v)
          PROVE  disk'[f] = disk[f] /\ acked'[f] = acked[f]
      BY <1>t, <3>1, <3>3 DEF PutClose
    <3>4. CASE PutBreak(c) \/ GetEnd(c) \/ \E h \in Files : GetBegin(c, h)
      BY <3>4 DEF PutBreak, GetEnd, GetBegin
    <3>5. CASE PutEnd(c)
      BY <1>t, <3>1, <3>5 DEF PutEnd
    <3>6. CASE PutEndFailed(c)
      BY <1>t, <3>1, <3>6 DEF PutEndFailed
    <3>7. CASE CopyEnd(c)
      BY <1>t, <3>1, <3>7 DEF CopyEnd
    <3> QED BY <1>2, <2>1, <2>2, <3>2, <3>3, <3>4, <3>5, <3>6, <3>7 DEF Client
  <2>4. CASE req[c].pc \in {"idle", "getting"}
    <3>1. CASE GetEnd(c) \/ \E h \in Files : GetBegin(c, h)
      BY <3>1 DEF GetEnd, GetBegin
    <3> QED BY <1>2, <2>1, <2>2, <2>4, <3>1
            DEF Client, PutOpen, PutClose, PutBreak, PutEnd, PutEndFailed, CopyEnd
  <2>5. req[c].pc \in {"idle", "begun", "writing", "closed", "broken",
                       "copying", "getting"}
    BY DEF AttemptInv, TypeOK
  <2> QED BY <2>3, <2>4, <2>5
<1> QED BY <1>1, <1>2

\* The clients leave the drive, and the progress of the batch, alone.
LEMMA ClientBatch ==
    ASSUME \/ \E c \in Clients : Client(c)
           \/ \E g \in Files : Delete(g)
    PROVE  UNCHANGED <<docs, head, bpc, fp, up>>
BY DEF Client, PutBegin, GetBegin, PutOpen, PutClose, PutBreak, PutEnd,
   PutEndFailed, CopyBegin, CopyEnd, GetEnd, Delete

\* From its hash on a file is what was hashed, from its upload on what was
\* uploaded; the rows of the drive have the hash of their bytes.
ContentOK(f) ==
    /\ \A row \in docs[f] : row[1] = row[2] /\ row[1] \notin {Absent, Empty}
    /\ bpc[f] \in {"hashed", "reading", "sent"} =>
          fp[f] = disk[f] /\ disk[f] \notin {Absent, Empty}
    /\ bpc[f] \in {"reading", "sent"} => up[f] = disk[f]

\* And so for every file.
ContentInv == \A f \in Files : ContentOK(f)

\* A step that leaves the drive alone and lets a file out of the batch, or
\* not into it any further, keeps this.
LEMMA ContentKept ==
    ASSUME NEW f \in Files, ContentOK(f),
           docs'[f] = docs[f],
           \/ bpc'[f] \notin {"hashed", "reading", "sent"}
           \/ UNCHANGED <<bpc, fp, up>> /\ (bpc[f] # "idle" => disk'[f] = disk[f])
    PROVE  ContentOK(f)'
BY DEF ContentOK

\* A step of the batch on another file keeps it too.
LEMMA BatchContent ==
    ASSUME AttemptInv, ContentInv, NEW g \in Files,
           Batch(g) \/ StepFails(g) \/ HandOffRaises(g), NEW f \in Files
    PROVE  ContentOK(f)'
<1>c. ContentOK(f)
  BY DEF ContentInv
<1>t. /\ docs \in [Files -> SUBSET (OnDisk \X OnDisk)]
      /\ bpc \in [Files -> BatchPC]
      /\ fp \in [Files -> OnDisk]
      /\ up \in [Files -> OnDisk]
  BY DEF AttemptInv, TypeOK, BatchPC
<1>d. disk' = disk
  BY DEF Batch, RequestFor, Inspect, UploadStart, UploadEnd, RegisterResult,
     StepFails, HandOffRaises
<1>r. Registered(g) => docs'[f] = IF f = g THEN docs[f] \cup {<<fp[f], up[f]>>}
                                  ELSE docs[f]
  BY <1>t DEF Registered
<1>1. CASE RequestFor(g)
  <2>1. docs' = docs /\ (\/ bpc' = [bpc EXCEPT ![g] = "planned"]
                         \/ bpc' = [bpc EXCEPT ![g] = "idle"])
        /\ UNCHANGED <<fp, up>>
    BY <1>1 DEF RequestFor
  <2> QED BY <1>c, <1>d, <1>t, <2>1 DEF ContentOK
<1>2. CASE Inspect(g)
  <2>1. CASE f = g
    <3>1. fp'[f] = disk[f] /\ docs' = docs
      BY <1>2, <1>t, <2>1 DEF Inspect
    <3>2. \/ /\ \E row \in docs[f] : row[1] = disk[f] /\ up'[f] = row[2]
             /\ bpc'[f] = "sent"
          \/ disk[f] \notin {Absent, Empty} /\ bpc'[f] = "hashed"
          \/ bpc'[f] = "bad"
      BY <1>2, <1>t, <2>1 DEF Inspect
    <3> QED BY <1>c, <1>d, <3>1, <3>2 DEF ContentOK
  <2>2. CASE f # g
    BY <1>2, <1>c, <1>d, <1>t, <2>2 DEF Inspect, ContentOK
  <2> QED BY <2>1, <2>2
<1>3. CASE UploadStart(g)
  BY <1>3, <1>c, <1>d, <1>t DEF UploadStart, ContentOK
<1>4. CASE UploadEnd(g)
  BY <1>4, <1>c, <1>d, <1>t DEF UploadEnd, ContentOK
<1>5. CASE RegisterResult(g)
  <2>1. UNCHANGED <<fp, up>> /\ bpc[g] = "sent" /\ bpc' = [bpc EXCEPT ![g] = "ok"]
    BY <1>5 DEF RegisterResult
  <2>2. Registered(g)
    BY <1>5 DEF RegisterResult
  <2> QED BY <1>c, <1>d, <1>r, <1>t, <2>1, <2>2 DEF ContentOK
<1>6. CASE StepFails(g)
  <2>1. UNCHANGED <<fp, up>> /\ bpc' = [bpc EXCEPT ![g] = "bad"]
        /\ (docs' = docs \/ (bpc[g] = "sent" /\ Registered(g)))
    BY <1>6 DEF StepFails
  <2> QED BY <1>c, <1>d, <1>r, <1>t, <2>1 DEF ContentOK
<1>7. CASE HandOffRaises(g)
  BY <1>7, <1>c, <1>d, <1>t DEF HandOffRaises, ContentOK
<1> QED BY <1>1, <1>2, <1>3, <1>4, <1>5, <1>6, <1>7 DEF Batch

\* The other steps of the loop let a file out of the batch, or start one.
LEMMA LoopProgress ==
    ASSUME AttemptInv, NEW f \in Files,
           \/ BatchRaises \/ Due \/ BatchDone \/ SettleDone \/ CrashRestart
           \/ \E g \in Files : Settle(g) \/ QuietPasses(g) \/ RetryPasses(g)
    PROVE  /\ UNCHANGED <<docs, head, fp, up, acked>>
           /\ \/ bpc'[f] \notin {"hashed", "reading", "sent"}
              \/ bpc'[f] = bpc[f] /\ disk'[f] = disk[f]
<1>1. bpc \in [Files -> BatchPC] /\ disk \in [Files -> OnDisk]
  BY DEF AttemptInv, TypeOK, BatchPC
<1>2. UNCHANGED <<docs, head, fp, up, acked>>
  BY DEF BatchRaises, Due, BatchDone, SettleDone, CrashRestart, Settle, Complete,
     CompleteRaises, RecordFailure, QuietPasses, RetryPasses
<1>3. CASE BatchRaises \/ Due \/ BatchDone \/ SettleDone \/ CrashRestart
  BY <1>1, <1>3 DEF BatchRaises, Due, BatchDone, SettleDone, CrashRestart
<1>4. ASSUME NEW g \in Files, Settle(g) \/ QuietPasses(g) \/ RetryPasses(g)
      PROVE  \/ bpc'[f] \notin {"hashed", "reading", "sent"}
             \/ bpc'[f] = bpc[f] /\ disk'[f] = disk[f]
  BY <1>1, <1>4 DEF Settle, Complete, CompleteRaises, RecordFailure, QuietPasses,
     RetryPasses
<1> QED BY <1>2, <1>3, <1>4

\* Every step keeps ContentInv.
LEMMA NextContent ==
    ASSUME AttemptInv, Apart, WriterInv, ContentInv, [Next]_vars
    PROVE  ContentInv'
<1> SUFFICES ASSUME NEW f \in Files PROVE ContentOK(f)'
  BY DEF ContentInv
<1>c. ContentOK(f)
  BY DEF ContentInv
<1>1. CASE UNCHANGED vars
  BY <1>1, <1>c DEF vars, ContentOK
<1>2. CASE (\E c \in Clients : Client(c)) \/ \E g \in Files : Delete(g)
  <2>1. UNCHANGED <<docs, bpc, fp, up>>
    BY <1>2, ClientBatch
  <2>2. bpc[f] # "idle" => disk'[f] = disk[f]
    BY <1>2, BatchFreezes
  <2> QED BY <1>c, <2>1, <2>2, ContentKept
<1>3. CASE \/ BatchRaises \/ Due \/ BatchDone \/ SettleDone \/ CrashRestart
           \/ \E g \in Files : Settle(g) \/ QuietPasses(g) \/ RetryPasses(g)
  <2>1. /\ UNCHANGED <<docs, fp, up>>
        /\ \/ bpc'[f] \notin {"hashed", "reading", "sent"}
           \/ bpc'[f] = bpc[f] /\ disk'[f] = disk[f]
    BY <1>3, LoopProgress
  <2> QED BY <1>c, <2>1 DEF ContentOK
<1> QED BY <1>1, <1>2, <1>3, BatchContent DEF Next, Loop, Time

\* It holds of an empty drive.
LEMMA InitContent == Init => ContentInv
BY DEF Init, ContentInv, ContentOK

\* What an Apart stager keeps besides its attempts.
ApartInv == AttemptInv /\ WriterInv /\ ContentInv

\* When no write meets a batch, all of this is invariant.
LEMMA ApartInvariant ==
    ASSUME Apart
    PROVE  Spec => []ApartInv
<1>1. Init => ApartInv
  BY InitSound, InitWriter, InitContent DEF ApartInv
<1>2. ApartInv /\ [Next]_vars => ApartInv'
  BY NextSound, NextWriter, NextContent DEF ApartInv
<1> QED BY <1>1, <1>2, PTL DEF Spec

\* As long as no write meets a batch, every row's hash is the hash of the bytes
\* behind it, although the source is hashed and opened again later (_fingerprint,
\* _check_existing, register_result), whatever fails, shuts down or crashes.
THEOREM RowsHashTheirBytes == Apart => (Spec => []HashMatchesContent)
<1> SUFFICES ASSUME Apart PROVE Spec => []HashMatchesContent
  OBVIOUS
<1>1. ApartInv => HashMatchesContent
  BY DEF ApartInv, ContentInv, ContentOK, HashMatchesContent
<1> QED BY <1>1, ApartInvariant, PTL

-----------------------------------------------------------------------------
(* Acknowledged writes *)

\* No executor refuses work, and a COPY never meets another write of its file.
Orderly == Apart /\ ~ShutdownDuringBatch /\ ~(Readers /\ ConcurrentPuts)

\* What was acknowledged is staged, or on the drive while at most an empty file
\* is staged; it is on the drive when the batch says so, and is given up as
\* soon as another write of the file has begun to destroy it.
AckOK(f) ==
    /\ acked[f] # Absent =>
          \/ acked[f] = disk[f]
          \/ acked[f] = head[f] /\ disk[f] \in {Absent, Empty}
    /\ bpc[f] = "ok" => head[f] = disk[f]
    /\ At(f, {"writing", "closed", "broken"}) # {} => acked[f] = Absent
    /\ Readers => \A c, d \in Putting(f) : c = d
    /\ ~Readers => At(f, {"copying"}) = {}

\* And so for every file.
AckInv == \A f \in Files : AckOK(f)

\* A step that leaves the file, its requests and the drive alone keeps this.
LEMMA AckKept ==
    ASSUME NEW f \in Files, AckOK(f),
           disk'[f] = disk[f], head'[f] = head[f], acked'[f] = acked[f],
           bpc'[f] = "ok" => bpc[f] = "ok",
           At(f, {"writing", "closed", "broken"})'
              \subseteq At(f, {"writing", "closed", "broken"}),
           Putting(f)' \subseteq Putting(f),
           At(f, {"copying"})' \subseteq At(f, {"copying"})
    PROVE  AckOK(f)'
BY DEF AckOK

\* A request that does not concern the file leaves its sets of requests alone.
LEMMA OtherRequest ==
    ASSUME NEW c \in Clients, NEW f,
           req[c].file # f \/ req[c].pc \in {"idle", "getting"},
           req'[c].file # f \/ req'[c].pc \in {"idle", "getting"},
           \A d \in Clients : d # c => /\ req'[d].pc = req[d].pc
                                       /\ req'[d].file = req[d].file
    PROVE  /\ At(f, {"writing", "closed", "broken"})'
                 = At(f, {"writing", "closed", "broken"})
           /\ Putting(f)' = Putting(f)
           /\ At(f, {"copying"})' = At(f, {"copying"})
BY DEF At, Putting

\* What a client's step does to the files it is not about, and to the requests
\* of the other clients.
LEMMA ClientOthers ==
    ASSUME AttemptInv, NEW c \in Clients, Client(c)
    PROVE  /\ \A d \in Clients : d # c => /\ req'[d].pc = req[d].pc
                                          /\ req'[d].file = req[d].file
                                          /\ req'[d].content = req[d].content
           /\ \A f \in Files :
                 \/ /\ UNCHANGED <<disk[f], acked[f], unit[f]>>
                    /\ req[c].file # f \/ req[c].pc \in {"idle", "getting"}
                    /\ req'[c].file # f \/ req'[c].pc \in {"idle", "getting"}
                 \/ PutBegin(c, f)
                 \/ \E g \in Files : CopyBegin(c, g, f)
                 \/ /\ req[c].file = f
                    /\ \/ PutOpen(c) \/ PutBreak(c) \/ PutEnd(c)
                       \/ PutEndFailed(c) \/ CopyEnd(c)
                       \/ \E v \in Contents : PutClose(c, v)
<1>t. /\ req \in [Clients -> ReqType]
      /\ disk \in [Files -> OnDisk]
      /\ acked \in [Files -> OnDisk]
      /\ unit \in [Files -> UnitType]
  BY DEF AttemptInv, TypeOK, ReqType
<1>i. Idle \in ReqType /\ Idle.pc = "idle"
  BY DEF Idle, ReqType, OnDisk, Bytes
<1> DEFINE Others == \A d \in Clients : d # c => /\ req'[d].pc = req[d].pc
                                                 /\ req'[d].file = req[d].file
                                                 /\ req'[d].content = req[d].content
           Away(f) == /\ UNCHANGED <<disk[f], acked[f], unit[f]>>
                      /\ req[c].file # f \/ req[c].pc \in {"idle", "getting"}
                      /\ req'[c].file # f \/ req'[c].pc \in {"idle", "getting"}
<1>1. ASSUME NEW h \in Files, PutBegin(c, h)
      PROVE  Others /\ \A f \in Files \ {h} : Away(f)
  <2>1. /\ req[c].pc = "idle"
        /\ req' = [req EXCEPT ![c] = [Idle EXCEPT !.pc = "begun", !.file = h]]
        /\ disk' = IF disk[h] = Absent THEN [disk EXCEPT ![h] = Empty] ELSE disk
        /\ unit' = [unit EXCEPT ![h] = WriterAdded(Touched(@))]
        /\ acked' = acked
    BY <1>1 DEF PutBegin
  <2>2. req'[c].file = h /\ \A d \in Clients : d # c => req'[d] = req[d]
    BY <1>t, <1>i, <2>1 DEF ReqType
  <2> QED BY <1>t, <2>1, <2>2
<1>2. ASSUME NEW g \in Files, NEW h \in Files, CopyBegin(c, g, h)
      PROVE  Others /\ \A f \in Files \ {h} : Away(f)
  <2>1. /\ req[c].pc = "idle"
        /\ req' = [req EXCEPT ![c] = [Idle EXCEPT !.pc = "copying", !.file = h,
                                              !.from = g, !.content = disk[g],
                                              !.alone = (Writing(h) = {})]]
        /\ disk' = [disk EXCEPT ![h] = Partial]
        /\ unit' = [unit EXCEPT ![h] = Touched(@)]
        /\ acked' = [acked EXCEPT ![h] = Absent]
    BY <1>2 DEF CopyBegin
  <2>2. req'[c].file = h /\ \A d \in Clients : d # c => req'[d] = req[d]
    BY <1>t, <1>i, <2>1 DEF ReqType
  <2> QED BY <1>t, <2>1, <2>2
<1>3. ASSUME PutOpen(c)
      PROVE  Others /\ \A f \in Files : f # req[c].file => Away(f)
  <2>1. /\ disk' = [disk EXCEPT ![req[c].file] = Partial]
        /\ acked' = [acked EXCEPT ![req[c].file] = Absent]
        /\ unit' = unit
        /\ req' = [d \in Clients |->
                  IF d = c THEN [req[c] EXCEPT !.pc = "writing",
                                     !.alone = (Writing(req[c].file) = {})]
                  ELSE IF d \in Writing(req[c].file)
                  THEN [req[d] EXCEPT !.alone = FALSE] ELSE req[d]]
    BY <1>3 DEF PutOpen
  <2>2. req'[c].file = req[c].file
    BY <1>t, <2>1 DEF ReqType
  <2>3. Others
    BY <1>t, <2>1 DEF ReqType
  <2>4. \A f \in Files : f # req[c].file => Away(f)
    BY <1>t, <2>1, <2>2
  <2> QED BY <2>3, <2>4
<1>4. ASSUME NEW v \in Contents, PutClose(c, v)
      PROVE  Others /\ \A f \in Files : f # req[c].file => Away(f)
  <2>1. /\ req' = [req EXCEPT ![c].pc = "closed", ![c].content = v]
        /\ \E bytes : disk' = [disk EXCEPT ![req[c].file] = bytes]
        /\ \E a : acked' = [acked EXCEPT ![req[c].file] = a]
        /\ unit' = unit
    BY <1>4 DEF PutClose
  <2>2. req'[c].file = req[c].file /\ \A d \in Clients : d # c => req'[d] = req[d]
    BY <1>t, <2>1 DEF ReqType
  <2> QED BY <1>t, <2>1, <2>2
<1>5. ASSUME PutBreak(c)
      PROVE  Others /\ \A f \in Files : f # req[c].file => Away(f)
  <2>1. req' = [req EXCEPT ![c].pc = "broken"] /\ UNCHANGED <<disk, acked, unit>>
    BY <1>5 DEF PutBreak
  <2>2. req'[c].file = req[c].file /\ \A d \in Clients : d # c => req'[d] = req[d]
    BY <1>t, <2>1 DEF ReqType
  <2> QED BY <1>t, <2>1, <2>2
<1>6. ASSUME PutEnd(c) \/ PutEndFailed(c) \/ CopyEnd(c)
      PROVE  Others /\ \A f \in Files : f # req[c].file => Away(f)
  <2>1. /\ req' = [req EXCEPT ![c] = Idle]
        /\ disk' = disk \/ \E bytes : disk' = [disk EXCEPT ![req[c].file] = bytes]
        /\ acked' = acked \/ \E a : acked' = [acked EXCEPT ![req[c].file] = a]
        /\ unit' = unit \/ \E u : unit' = [unit EXCEPT ![req[c].file] = u]
    BY <1>6 DEF PutEnd, PutEndFailed, CopyEnd
  <2>2. req'[c].pc = "idle" /\ \A d \in Clients : d # c => req'[d] = req[d]
    BY <1>t, <1>i, <2>1
  <2> QED BY <1>t, <2>1, <2>2
<1>7. ASSUME GetEnd(c) \/ \E h \in Files : GetBegin(c, h)
      PROVE  Others /\ \A f \in Files : Away(f)
  <2> DEFINE Got(h) == [Idle EXCEPT !.pc = "getting", !.file = h]
  <2>1. /\ req[c].pc \in {"idle", "getting"} /\ UNCHANGED <<unit, acked, disk>>
        /\ \/ req' = [req EXCEPT ![c] = Idle]
           \/ \E h \in Files : req' = [req EXCEPT ![c] = Got(h)]
    BY <1>7 DEF GetEnd, GetBegin
  <2>g. \A h \in Files : Got(h).pc = "getting"
    BY <1>i DEF ReqType
  <2> HIDE DEF Got
  <2>2. /\ req'[c].pc \in {"idle", "getting"}
        /\ \A d \in Clients : d # c => req'[d] = req[d]
    BY <1>t, <1>i, <2>1, <2>g
  <2> QED BY <1>t, <2>1, <2>2
<1> HIDE DEF Others, Away
<1>11. ASSUME \/ PutOpen(c) \/ PutBreak(c) \/ PutEnd(c)
              \/ PutEndFailed(c) \/ CopyEnd(c)
       PROVE  Others /\ \A f \in Files : f # req[c].file => Away(f)
  BY <1>3, <1>5, <1>6, <1>11
<1>12. \/ GetEnd(c) \/ \E h \in Files : GetBegin(c, h)
       \/ \E h \in Files : PutBegin(c, h)
       \/ \E g, h \in Files : CopyBegin(c, g, h)
       \/ \E v \in Contents : PutClose(c, v)
       \/ PutOpen(c) \/ PutBreak(c) \/ PutEnd(c) \/ PutEndFailed(c) \/ CopyEnd(c)
  BY DEF Client
<1> DEFINE Goal == /\ Others
                   /\ \A f \in Files :
                        \/ Away(f)
                        \/ PutBegin(c, f)
                        \/ \E g \in Files : CopyBegin(c, g, f)
                        \/ /\ req[c].file = f
                           /\ \/ PutOpen(c) \/ PutBreak(c) \/ PutEnd(c)
                              \/ PutEndFailed(c) \/ CopyEnd(c)
                              \/ \E v \in Contents : PutClose(c, v)
<1>13. Goal
  <2>1. CASE GetEnd(c) \/ \E h \in Files : GetBegin(c, h)
    BY <1>7, <2>1
  <2>2. ASSUME NEW h \in Files, PutBegin(c, h) PROVE Goal
    BY <1>1, <2>2
  <2>3. ASSUME NEW g \in Files, NEW h \in Files, CopyBegin(c, g, h) PROVE Goal
    BY <1>2, <2>3
  <2>4. ASSUME NEW v \in Contents, PutClose(c, v) PROVE Goal
    BY <1>4, <2>4
  <2>5. CASE \/ PutOpen(c) \/ PutBreak(c) \/ PutEnd(c)
             \/ PutEndFailed(c) \/ CopyEnd(c)
    BY <2>5, <1>11
  <2> QED BY <1>12, <2>1, <2>2, <2>3, <2>4, <2>5
<1> QED BY <1>13 DEF Others, Away

\* The clients keep it: a write that has begun to destroy the old content is
\* the only one whose success is still to be acknowledged.
LEMMA ClientAck ==
    ASSUME AttemptInv, Orderly, WriterInv, AckInv, NEW c \in Clients, Client(c),
           NEW f \in Files
    PROVE  AckOK(f)'
<1> USE DEF Orderly
<1>t. /\ req \in [Clients -> ReqType]
      /\ disk \in [Files -> OnDisk]
      /\ acked \in [Files -> OnDisk]
  BY DEF AttemptInv, TypeOK, ReqType
<1>i. /\ Idle \in ReqType /\ Idle.pc = "idle" /\ Idle.file = NoFile
      /\ NoFile # f
  BY StagerAssumption DEF Idle, ReqType, OnDisk, Bytes
<1>a. AckOK(f)
  BY DEF AckInv
<1>w. WriterOK(f)
  BY DEF WriterInv
<1>o. /\ \A d \in Clients : d # c => /\ req'[d].pc = req[d].pc
                                     /\ req'[d].file = req[d].file
      /\ \/ /\ UNCHANGED <<disk[f], acked[f]>>
            /\ req[c].file # f \/ req[c].pc \in {"idle", "getting"}
            /\ req'[c].file # f \/ req'[c].pc \in {"idle", "getting"}
         \/ PutBegin(c, f)
         \/ \E g \in Files : CopyBegin(c, g, f)
         \/ /\ req[c].file = f
            /\ \/ PutOpen(c) \/ PutBreak(c) \/ PutEnd(c)
               \/ PutEndFailed(c) \/ CopyEnd(c)
               \/ \E v \in Contents : PutClose(c, v)
  BY ClientOthers
<1>u. UNCHANGED <<head, bpc>>
  BY ClientBatch
<1>p. \A pcs : c \notin At(f, pcs) =>
         At(f, pcs)' \in {At(f, pcs), At(f, pcs) \cup {c}}
  BY <1>o DEF At
<1>1. CASE /\ UNCHANGED <<disk[f], acked[f]>>
           /\ req[c].file # f \/ req[c].pc \in {"idle", "getting"}
           /\ req'[c].file # f \/ req'[c].pc \in {"idle", "getting"}
  <2>1. /\ At(f, {"writing", "closed", "broken"})'
              = At(f, {"writing", "closed", "broken"})
        /\ Putting(f)' = Putting(f)
        /\ At(f, {"copying"})' = At(f, {"copying"})
    BY <1>1, <1>o, OtherRequest
  <2> QED BY <1>1, <1>a, <1>u, <2>1, AckKept
<1>2. CASE PutBegin(c, f)
  <2>1. /\ req[c].pc = "idle" /\ acked' = acked
        /\ req' = [req EXCEPT ![c] = [Idle EXCEPT !.pc = "begun", !.file = f]]
        /\ disk' = IF disk[f] = Absent THEN [disk EXCEPT ![f] = Empty] ELSE disk
        /\ Readers => Putting(f) = {}
    BY <1>2 DEF PutBegin, MayWrite
  <2>2. req'[c].pc = "begun"
    BY <1>t, <1>i, <2>1 DEF ReqType
  <2>3. /\ At(f, {"writing", "closed", "broken"})'
              = At(f, {"writing", "closed", "broken"})
        /\ At(f, {"copying"})' = At(f, {"copying"})
        /\ Putting(f)' \subseteq Putting(f) \cup {c}
    BY <1>o, <2>1, <2>2 DEF At, Putting
  <2>4. bpc[f] = "idle"
    BY <1>2 DEF PutBegin, MayWrite, Apart
  <2>5. disk'[f] = disk[f] \/ (disk[f] = Absent /\ disk'[f] = Empty)
    BY <1>t, <2>1
  <2>6. Readers => \A d, e \in Putting(f)' : d = e
    BY <2>1, <2>3
  <2> QED BY <1>a, <1>u, <2>1, <2>3, <2>4, <2>5, <2>6 DEF AckOK
<1>3. CASE \E g \in Files : CopyBegin(c, g, f)
  <2>1. /\ req[c].pc = "idle" /\ Readers /\ Putting(f) = {} /\ bpc[f] = "idle"
        /\ acked' = [acked EXCEPT ![f] = Absent]
    BY <1>3 DEF CopyBegin, MayWrite, Apart
  <2>2. Putting(f)' \subseteq {c}
    BY <1>o, <2>1 DEF At, Putting
  <2> QED BY <1>t, <1>u, <2>1, <2>2 DEF AckOK
<1>4. CASE req[c].file = f /\ PutOpen(c)
  <2>1. /\ req[c].pc = "begun"
        /\ acked' = [acked EXCEPT ![f] = Absent]
    BY <1>4 DEF PutOpen
  <2>2. c \in Putting(f) /\ c \notin At(f, {"copying"})
    BY <1>4, <2>1 DEF Putting, At
  <2>3. req'[c].pc = "writing"
    BY <1>4, <1>t DEF PutOpen, ReqType
  <2>4. /\ Putting(f)' \subseteq Putting(f)
        /\ At(f, {"copying"})' = At(f, {"copying"})
    BY <1>o, <1>4, <2>1, <2>3 DEF Putting, At
  <2>5. bpc[f] = "idle" /\ acked'[f] = Absent
    BY <1>t, <1>w, <2>1, <2>2 DEF WriterOK
  <2> QED BY <1>a, <1>u, <2>4, <2>5 DEF AckOK
<1>5. CASE req[c].file = f /\ \E v \in Contents : PutClose(c, v)
  <2>1. /\ req[c].pc = "writing"
        /\ acked' = acked \/ acked' = [acked EXCEPT ![f] = Absent]
             \/ acked' = [acked EXCEPT ![f] = acked[f]]
    BY <1>5 DEF PutClose
  <2>2. c \in Putting(f) /\ c \notin At(f, {"copying"})
        /\ c \in At(f, {"writing", "closed", "broken"})
    BY <1>5, <2>1 DEF Putting, At
  <2>3. req'[c].pc = "closed"
    BY <1>5, <1>t DEF PutClose, ReqType
  <2>4. /\ Putting(f)' \subseteq Putting(f)
        /\ At(f, {"copying"})' = At(f, {"copying"})
    BY <1>o, <1>5, <2>1, <2>3 DEF Putting, At
  <2>5. bpc[f] = "idle" /\ acked'[f] = Absent
    BY <1>a, <1>t, <1>w, <2>1, <2>2 DEF WriterOK, AckOK
  <2> QED BY <1>a, <1>u, <2>4, <2>5 DEF AckOK
<1>6. CASE req[c].file = f /\ PutBreak(c)
  <2>1. req[c].pc = "writing" /\ acked' = acked /\ disk' = disk
    BY <1>6 DEF PutBreak
  <2>2. c \in Putting(f) /\ c \notin At(f, {"copying"})
        /\ c \in At(f, {"writing", "closed", "broken"})
    BY <1>6, <2>1 DEF Putting, At
  <2>3. req'[c].pc = "broken"
    BY <1>6, <1>t DEF PutBreak, ReqType
  <2>4. /\ Putting(f)' \subseteq Putting(f)
        /\ At(f, {"copying"})' = At(f, {"copying"})
    BY <1>o, <1>6, <2>1, <2>3 DEF Putting, At
  <2>5. bpc[f] = "idle" /\ acked'[f] = Absent
    BY <1>a, <1>t, <1>w, <2>1, <2>2 DEF WriterOK, AckOK
  <2> QED BY <1>a, <1>u, <2>4, <2>5 DEF AckOK
<1>7. CASE req[c].file = f /\ (PutEnd(c) \/ PutEndFailed(c))
  <2>1. req[c].pc \in {"closed", "broken"} /\ req' = [req EXCEPT ![c] = Idle]
    BY <1>7 DEF PutEnd, PutEndFailed
  <2>2. c \in Putting(f) /\ c \notin At(f, {"copying"})
        /\ c \in At(f, {"writing", "closed", "broken"})
        /\ c \in Announced(f)
    BY <1>7, <2>1 DEF Putting, At, Announced
  <2>3. req'[c].pc = "idle"
    BY <2>1, <1>i, <1>t
  <2>4. /\ Putting(f)' = Putting(f) \ {c}
        /\ At(f, {"copying"})' = At(f, {"copying"})
        /\ At(f, {"writing", "closed", "broken"})' \subseteq Putting(f)'
    BY <1>o, <1>7, <2>1, <2>3 DEF Putting, At
  <2>5. bpc[f] = "idle" /\ acked[f] = Absent /\ disk[f] # Absent
    BY <1>a, <1>t, <1>w, <2>1, <2>2 DEF WriterOK, AckOK
  <2>6. CASE acked'[f] = Absent
    BY <1>a, <1>u, <2>4, <2>5, <2>6 DEF AckOK
  <2>7. CASE acked'[f] # Absent
    <3>1. PutEnd(c)
      BY <1>7, <2>5, <2>7 DEF PutEndFailed
    <3>2. /\ disk[f] \in {req[c].content, Absent} /\ Putting(f) = {c}
          /\ acked'[f] = req[c].content /\ disk' = disk
      BY <1>7, <1>t, <2>5, <2>7, <3>1 DEF PutEnd
    <3> QED BY <1>a, <1>u, <2>4, <2>5, <3>2 DEF AckOK
  <2> QED BY <2>6, <2>7
<1>8. CASE req[c].file = f /\ CopyEnd(c)
  <2>1. req[c].pc = "copying" /\ req' = [req EXCEPT ![c] = Idle]
    BY <1>8 DEF CopyEnd
  <2>2. c \in Putting(f) /\ c \in At(f, {"copying"})
    BY <1>8, <2>1 DEF Putting, At
  <2>3. req'[c].pc = "idle"
    BY <2>1, <1>i, <1>t
  <2>4. /\ Putting(f)' = Putting(f) \ {c}
        /\ At(f, {"copying"})' \subseteq Putting(f)'
        /\ At(f, {"writing", "closed", "broken"})' \subseteq Putting(f)'
    BY <1>o, <1>8, <2>1, <2>3 DEF Putting, At
  <2>5. bpc[f] = "idle" /\ Readers
    BY <1>a, <1>w, <2>2 DEF WriterOK, AckOK
  <2>6. Putting(f)' = {}
    BY <1>a, <2>2, <2>4, <2>5 DEF AckOK
  <2>7. acked'[f] \in {Absent, disk'[f]}
    BY <1>8, <1>t DEF CopyEnd
  <2> QED BY <1>u, <2>4, <2>5, <2>6, <2>7 DEF AckOK
<1> QED BY <1>o, <1>1, <1>2, <1>3, <1>4, <1>5, <1>6, <1>7, <1>8

\* A registration makes what is staged, and acknowledged, what the drive shows.
LEMMA BatchAck ==
    ASSUME AttemptInv, Orderly, ContentInv, AckInv, NEW g \in Files,
           Batch(g) \/ StepFails(g), NEW f \in Files
    PROVE  AckOK(f)'
<1>t. bpc \in [Files -> BatchPC] /\ head \in [Files -> OnDisk]
  BY DEF AttemptInv, TypeOK, BatchPC
<1>a. AckOK(f)
  BY DEF AckInv
<1>c. ContentOK(f)
  BY DEF ContentInv
<1>1. UNCHANGED <<disk, acked, req>>
  BY DEF Batch, RequestFor, Inspect, UploadStart, UploadEnd, RegisterResult,
     StepFails
<1>2. /\ At(f, {"writing", "closed", "broken"})'
            = At(f, {"writing", "closed", "broken"})
      /\ Putting(f)' = Putting(f)
      /\ At(f, {"copying"})' = At(f, {"copying"})
  BY <1>1, SameRequests
<1>3. CASE /\ f = g /\ bpc[f] = "sent" /\ Registered(f)
           /\ bpc'[f] \in {"ok", "bad"}
  <2>1. head'[f] = disk[f] /\ disk[f] \notin {Absent, Empty}
    BY <1>3, <1>c, <1>t DEF ContentOK, Registered
  <2> QED BY <1>1, <1>2, <1>3, <1>a, <2>1 DEF AckOK
<1>4. CASE head'[f] = head[f] /\ (bpc'[f] = "ok" => bpc[f] = "ok")
  BY <1>1, <1>2, <1>4, <1>a, AckKept
<1>5. CASE f # g
  <2>1. bpc'[f] = bpc[f] /\ head'[f] = head[f]
    BY <1>5, <1>t DEF Batch, RequestFor, Inspect, UploadStart, UploadEnd,
       RegisterResult, StepFails, Registered
  <2> QED BY <1>4, <2>1
<1>6. CASE f = g /\ RegisterResult(g)
  BY <1>3, <1>6, <1>t DEF RegisterResult
<1>7. CASE f = g /\ StepFails(g)
  <2>1. bpc'[f] = "bad" /\ (head' = head \/ (bpc[f] = "sent" /\ Registered(f)))
    BY <1>7, <1>t DEF StepFails
  <2> QED BY <1>3, <1>4, <1>7, <2>1
<1>8. CASE /\ f = g
           /\ RequestFor(g) \/ Inspect(g) \/ UploadStart(g) \/ UploadEnd(g)
  <2>1. head' = head
    BY <1>8 DEF RequestFor, Inspect, UploadStart, UploadEnd
  <2>2. bpc'[f] # "ok"
    BY <1>8, <1>t DEF RequestFor, Inspect, UploadStart, UploadEnd
  <2> QED BY <1>4, <2>1, <2>2
<1> QED BY <1>5, <1>6, <1>7, <1>8 DEF Batch

\* The loop and time: the source is deleted only when the drive shows it.
LEMMA LoopAck ==
    ASSUME AttemptInv, Apart, AckInv,
           \/ Due \/ BatchDone \/ SettleDone \/ CrashRestart
           \/ \E g \in Files : \/ Delete(g) \/ Settle(g) \/ QuietPasses(g)
                               \/ RetryPasses(g),
           NEW f \in Files
    PROVE  AckOK(f)'
<1>t. /\ bpc \in [Files -> BatchPC] /\ disk \in [Files -> OnDisk]
      /\ acked \in [Files -> OnDisk]
  BY DEF AttemptInv, TypeOK, BatchPC
<1>a. AckOK(f)
  BY DEF AckInv
<1>1. CASE CrashRestart
  <2>1. /\ UNCHANGED <<disk, head, acked>> /\ bpc'[f] = "idle"
        /\ \A c \in Clients : req'[c].pc = "idle"
    BY <1>1 DEF CrashRestart, Idle
  <2>2. /\ At(f, {"writing", "closed", "broken"})' = {}
        /\ Putting(f)' = {}
        /\ At(f, {"copying"})' = {}
    BY <2>1 DEF At, Putting
  <2> QED BY <1>a, <2>1, <2>2, AckKept
<1>2. CASE \/ Due \/ BatchDone \/ SettleDone
           \/ \E g \in Files : \/ Delete(g) \/ Settle(g) \/ QuietPasses(g)
                               \/ RetryPasses(g)
  <2>1. UNCHANGED <<req, head>>
    BY <1>2 DEF Due, BatchDone, SettleDone, Delete, Settle, Complete,
       CompleteRaises, RecordFailure, QuietPasses, RetryPasses
  <2>2. /\ At(f, {"writing", "closed", "broken"})'
              = At(f, {"writing", "closed", "broken"})
        /\ Putting(f)' = Putting(f)
        /\ At(f, {"copying"})' = At(f, {"copying"})
    BY <2>1, SameRequests
  <2>3. CASE /\ disk'[f] = disk[f] /\ acked'[f] = acked[f]
             /\ bpc'[f] = "ok" => bpc[f] = "ok"
    BY <1>a, <2>1, <2>2, <2>3, AckKept
  <2>4. CASE Complete(f)
    <3>1. /\ bpc[f] = "ok" /\ bpc'[f] = "idle"
          /\ disk'[f] = Absent /\ acked' = acked
      BY <1>t, <2>4 DEF Complete
    <3> QED BY <1>a, <2>1, <2>2, <3>1 DEF AckOK
  <2>5. CASE Delete(f)
    <3>1. acked'[f] = Absent /\ bpc' = bpc /\ bpc[f] = "idle"
      BY <1>t, <2>5 DEF Delete, MayWrite, Apart
    <3> QED BY <1>a, <2>1, <2>2, <3>1 DEF AckOK
  <2>6. CASE \/ Due \/ BatchDone \/ SettleDone
             \/ \E g \in Files : \/ CompleteRaises(g) \/ RecordFailure(g)
                                 \/ QuietPasses(g) \/ RetryPasses(g)
    <3>1. UNCHANGED <<disk, acked>> /\ (bpc'[f] = "ok" => bpc[f] = "ok")
      BY <2>6, <1>t DEF Due, BatchDone, SettleDone, CompleteRaises, RecordFailure,
         QuietPasses, RetryPasses
    <3> QED BY <2>3, <3>1
  <2>7. ASSUME NEW g \in Files, g # f, Delete(g) \/ Complete(g) PROVE AckOK(f)'
    <3>1. disk'[f] = disk[f] /\ acked'[f] = acked[f] /\ bpc'[f] = bpc[f]
      BY <1>t, <2>7 DEF Delete, Complete
    <3> QED BY <2>3, <3>1
  <2> QED BY <1>2, <2>4, <2>5, <2>6, <2>7 DEF Settle
<1> QED BY <1>1, <1>2

\* Every step keeps AckInv.
LEMMA NextAck ==
    ASSUME ApartInv, Orderly, AckInv, [Next]_vars
    PROVE  AckInv'
<1> SUFFICES ASSUME NEW f \in Files PROVE AckOK(f)'
  BY DEF AckInv
<1>i. AttemptInv /\ WriterInv /\ ContentInv /\ Apart
  BY DEF ApartInv, Orderly
<1>1. CASE UNCHANGED vars
  <2>1. AckOK(f) /\ UNCHANGED <<disk, head, acked, bpc, req>>
    BY <1>1 DEF AckInv, vars
  <2> QED BY <2>1 DEF AckOK, At, Putting
<1>2. ~BatchRaises /\ \A g \in Files : ~HandOffRaises(g)
  BY DEF Orderly, BatchRaises, HandOffRaises
<1> QED BY <1>i, <1>1, <1>2, ClientAck, BatchAck, LoopAck DEF Next, Loop, Time

\* It holds when nothing was acknowledged.
LEMMA InitAck == Init => AckInv
<1> SUFFICES ASSUME Init, NEW f \in Files PROVE AckOK(f)
  BY DEF AckInv
<1>1. Putting(f) = {} /\ At(f, {"copying"}) = {}
      /\ At(f, {"writing", "closed", "broken"}) = {}
  BY DEF Init, Idle, Putting, At
<1> QED BY <1>1 DEF Init, AckOK

\* The staged source of an acknowledged write stays until the drive shows it
\* (_complete, end_write), over any failures, retries and restarts, as long as
\* no write meets a batch, no executor refuses work and no COPY meets another
\* write of its file.
THEOREM AcknowledgedWritesLast == Orderly => (Spec => []NoLostWrite)
<1> SUFFICES ASSUME Orderly PROVE Spec => []NoLostWrite
  OBVIOUS
<1>1. Spec => []ApartInv
  BY ApartInvariant DEF Orderly
<1>2. Init => AckInv
  BY InitAck
<1>3. ApartInv /\ AckInv /\ [Next]_vars => AckInv'
  BY NextAck
<1>4. AckInv => NoLostWrite
  BY DEF AckInv, AckOK, NoLostWrite
<1> QED BY <1>1, <1>2, <1>3, <1>4, PTL DEF Spec

-----------------------------------------------------------------------------
(* Whole files *)

\* One PUT or COPY of a file at a time, and no crash cuts one short.
OneByOne == Apart /\ ~ConcurrentPuts /\ MaxCrashes = 0

\* A file that is pending is partial only while its one writer is under way,
\* and what is copied or registered is not.
WholeOK(f) ==
    /\ \A row \in docs[f] : row[2] # Partial
    /\ Pending(f) /\ disk[f] = Partial => Putting(f) # {}
    /\ \A c, d \in Putting(f) : c = d
    /\ \A c \in At(f, {"copying"}) : req[c].content # Partial
    /\ At(f, {"closed"}) # {} => disk[f] # Partial
    /\ bpc[f] # "idle" => Pending(f)

\* And so for every file.
WholeInv == \A f \in Files : WholeOK(f)

\* A step that leaves a file, its requests and its rows alone keeps this.
LEMMA WholeKept ==
    ASSUME NEW f \in Files, WholeOK(f),
           docs'[f] = docs[f], disk'[f] = disk[f],
           Pending(f)' => Pending(f),
           bpc'[f] # "idle" => bpc[f] # "idle" /\ Pending(f)',
           Putting(f)' = Putting(f),
           At(f, {"closed"})' = At(f, {"closed"}),
           At(f, {"copying"})' = At(f, {"copying"}),
           \A c \in At(f, {"copying"}) : req'[c].content = req[c].content
    PROVE  WholeOK(f)'
BY DEF WholeOK

\* The clients keep it: a PUT that breaks off takes its truncated file with it,
\* and a COPY reads no file that is being written.
LEMMA ClientWhole ==
    ASSUME AttemptInv, OneByOne, WriterInv, WholeInv,
           NEW c \in Clients, Client(c), NEW f \in Files
    PROVE  WholeOK(f)'
<1> USE DEF OneByOne
<1>t. /\ req \in [Clients -> ReqType]
      /\ disk \in [Files -> OnDisk]
      /\ unit \in [Files -> UnitType]
  BY DEF AttemptInv, TypeOK, ReqType
<1>i. /\ Idle \in ReqType /\ Idle.pc = "idle" /\ Idle.file = NoFile
      /\ NoFile # f
  BY StagerAssumption DEF Idle, ReqType, OnDisk, Bytes
<1>a. WholeOK(f)
  BY DEF WholeInv
<1>w. WriterOK(f)
  BY DEF WriterInv
<1>o. /\ \A d \in Clients : d # c => /\ req'[d].pc = req[d].pc
                                     /\ req'[d].file = req[d].file
                                     /\ req'[d].content = req[d].content
      /\ \/ /\ UNCHANGED <<disk[f], acked[f], unit[f]>>
            /\ req[c].file # f \/ req[c].pc \in {"idle", "getting"}
            /\ req'[c].file # f \/ req'[c].pc \in {"idle", "getting"}
         \/ PutBegin(c, f)
         \/ \E g \in Files : CopyBegin(c, g, f)
         \/ /\ req[c].file = f
            /\ \/ PutOpen(c) \/ PutBreak(c) \/ PutEnd(c)
               \/ PutEndFailed(c) \/ CopyEnd(c)
               \/ \E v \in Contents : PutClose(c, v)
  BY ClientOthers
<1>u. UNCHANGED <<docs, bpc>>
  BY ClientBatch
<1>f. bpc[f] # "idle" => /\ disk'[f] = disk[f]
                         /\ Putting(f) = {}
  BY <1>w, BatchFreezes DEF WriterOK
<1>1. CASE /\ UNCHANGED <<disk[f], acked[f], unit[f]>>
           /\ req[c].file # f \/ req[c].pc \in {"idle", "getting"}
           /\ req'[c].file # f \/ req'[c].pc \in {"idle", "getting"}
  <2>1. /\ Putting(f)' = Putting(f)
        /\ At(f, {"closed"})' = At(f, {"closed"})
        /\ At(f, {"copying"})' = At(f, {"copying"})
        /\ \A d \in At(f, {"copying"}) : req'[d].content = req[d].content
    BY <1>1, <1>o DEF At, Putting
  <2>2. Pending(f)' = Pending(f)
    BY <1>1 DEF Pending
  <2> QED BY <1>1, <1>a, <1>u, <2>1, <2>2 DEF WholeOK
<1>2. CASE PutBegin(c, f)
  <2>1. /\ req[c].pc = "idle" /\ Putting(f) = {} /\ bpc[f] = "idle"
        /\ req' = [req EXCEPT ![c] = [Idle EXCEPT !.pc = "begun", !.file = f]]
    BY <1>2 DEF PutBegin, MayWrite, Apart
  <2>2. req'[c].pc = "begun" /\ req'[c].file = f
    BY <1>t, <1>i, <2>1 DEF ReqType
  <2>3. Putting(f)' = {c} /\ At(f, {"copying"})' = {} /\ At(f, {"closed"})' = {}
    BY <1>o, <2>1, <2>2 DEF At, Putting
  <2> QED BY <1>a, <1>u, <2>1, <2>3 DEF WholeOK
<1>3. ASSUME NEW g \in Files, CopyBegin(c, g, f) PROVE WholeOK(f)'
  <2>1. /\ req[c].pc = "idle" /\ Putting(f) = {} /\ bpc[f] = "idle"
        /\ Resolves(g) /\ Putting(g) = {}
        /\ req' = [req EXCEPT ![c] = [Idle EXCEPT !.pc = "copying", !.file = f,
                                              !.from = g, !.content = disk[g],
                                              !.alone = (Writing(f) = {})]]
    BY <1>3 DEF CopyBegin, MayWrite, Apart
  <2>2. req'[c].pc = "copying" /\ req'[c].file = f /\ req'[c].content = disk[g]
    BY <1>t, <1>i, <2>1 DEF ReqType
  <2>3. Putting(f)' = {c} /\ At(f, {"copying"})' = {c} /\ At(f, {"closed"})' = {}
    BY <1>o, <2>1, <2>2 DEF At, Putting
  <2>4. disk[g] # Partial
    BY <2>1 DEF WholeInv, WholeOK, Resolves
  <2> QED BY <1>a, <1>u, <2>1, <2>2, <2>3, <2>4 DEF WholeOK
<1>4. CASE req[c].file = f /\ (PutOpen(c) \/ PutBreak(c))
  <2>1. req[c].pc \in {"begun", "writing"} /\ c \in Putting(f) /\ unit' = unit
    BY <1>4 DEF PutOpen, PutBreak, Putting, At
  <2>2. req'[c].pc \in {"writing", "broken"} /\ req'[c].file = f
    <3>1. CASE PutOpen(c)
      BY <1>4, <1>t, <3>1 DEF PutOpen, ReqType
    <3>2. CASE PutBreak(c)
      BY <1>4, <1>t, <3>2 DEF PutBreak, ReqType
    <3> QED BY <1>4, <3>1, <3>2
  <2>3. Putting(f) = {c} /\ bpc[f] = "idle"
    BY <1>a, <1>f, <2>1 DEF WholeOK
  <2>4. Putting(f)' = {c} /\ At(f, {"copying"})' = {} /\ At(f, {"closed"})' = {}
    BY <1>o, <2>2, <2>3 DEF Putting, At
  <2> QED BY <1>a, <1>u, <2>3, <2>4 DEF WholeOK
<1>5. CASE req[c].file = f /\ \E v \in Contents : PutClose(c, v)
  <2>1. req[c].pc = "writing" /\ c \in Putting(f)
    BY <1>5 DEF PutClose, Putting, At
  <2>2. req'[c].pc = "closed" /\ req'[c].file = f
    BY <1>5, <1>t DEF PutClose, ReqType
  <2>3. Putting(f) = {c} /\ bpc[f] = "idle"
    BY <1>a, <1>f, <2>1 DEF WholeOK
  <2>4. Putting(f)' = {c} /\ At(f, {"copying"})' = {} /\ At(f, {"closed"})' = {c}
    BY <1>o, <2>2, <2>3 DEF Putting, At
  <2>5. disk'[f] # Partial
    BY <1>5, <1>t, StagerAssumption DEF PutClose, Mixed, Partial
  <2> QED BY <1>a, <1>u, <2>3, <2>4, <2>5 DEF WholeOK
<1>6. CASE req[c].file = f /\ (PutEnd(c) \/ PutEndFailed(c) \/ CopyEnd(c))
  <2>1. req[c].pc \in {"closed", "broken", "copying"} /\ c \in Putting(f)
        /\ req' = [req EXCEPT ![c] = Idle]
    BY <1>6 DEF PutEnd, PutEndFailed, CopyEnd, Putting, At
  <2>2. req'[c].pc = "idle"
    BY <1>i, <1>t, <2>1
  <2>3. Putting(f) = {c} /\ bpc[f] = "idle"
    BY <1>a, <1>f, <2>1 DEF WholeOK
  <2>4. Putting(f)' = {} /\ At(f, {"copying"})' = {} /\ At(f, {"closed"})' = {}
    BY <1>o, <2>2, <2>3 DEF Putting, At
  <2>5. Pending(f)' => disk'[f] # Partial
    <3>1. CASE PutEnd(c)
      <4>1. disk' = disk /\ req[c].pc = "closed"
        BY <3>1 DEF PutEnd
      <4>2. c \in At(f, {"closed"})
        BY <1>6, <4>1 DEF At
      <4> QED BY <1>a, <4>1, <4>2 DEF WholeOK
    <3>2. CASE PutEndFailed(c)
      <4>1. req[c].pc = "broken"
        BY <3>2 DEF PutEndFailed
      <4>2. Announced(f) = {c}
        BY <1>6, <2>3, <4>1 DEF Announced, Putting, At
      <4>3. Cardinality({c}) = 1
        BY FS_Singleton
      <4>4. unit[f].writers = 1
        BY <1>w, <4>2, <4>3 DEF WriterOK
      <4>5. WriterGone(unit[f]).writers = 0
        BY <1>t, <4>4, WriterGoneWriters
      <4>6. unit'[f] = NoUnit
        BY <1>6, <1>t, <3>2, <4>5 DEF PutEndFailed
      <4> QED BY <4>6 DEF Pending, NoUnit
    <3>3. CASE CopyEnd(c)
      <4>1. c \in At(f, {"copying"})
        BY <1>6, <3>3 DEF CopyEnd, At
      <4>2. req[c].content # Partial
        BY <1>a, <4>1 DEF WholeOK
      <4> QED BY <1>6, <1>t, <3>3, <4>2 DEF CopyEnd, Mixed, Partial
    <3> QED BY <1>6, <3>1, <3>2, <3>3
  <2> QED BY <1>a, <1>u, <2>3, <2>4, <2>5 DEF WholeOK
<1> QED BY <1>o, <1>1, <1>2, <1>3, <1>4, <1>5, <1>6

\* The batch registers what is pending and quiet, which is whole.
LEMMA BatchWhole ==
    ASSUME AttemptInv, WriterInv, ContentInv, WholeInv, NEW g \in Files,
           Batch(g) \/ StepFails(g) \/ HandOffRaises(g), NEW f \in Files
    PROVE  WholeOK(f)'
<1>t. bpc \in [Files -> BatchPC] /\ docs \in [Files -> SUBSET (OnDisk \X OnDisk)]
  BY DEF AttemptInv, TypeOK, BatchPC
<1>a. WholeOK(f)
  BY DEF WholeInv
<1>c. ContentOK(f)
  BY DEF ContentInv
<1>w. WriterOK(f)
  BY DEF WriterInv
<1>1. req' = req /\ disk' = disk
  BY DEF Batch, RequestFor, Inspect, UploadStart, UploadEnd, RegisterResult,
     StepFails, HandOffRaises
<1>2. /\ \A pcs : At(f, pcs)' = At(f, pcs)
      /\ Putting(f)' = Putting(f)
      /\ \A c \in At(f, {"copying"}) : req'[c].content = req[c].content
  BY <1>1, SameRequests DEF At
<1>3. Pending(f)' = Pending(f)
  <2>1. \/ unit' = unit
        \/ \E stage \in QueueStage : unit' = StageSet(g, stage)
    BY DEF Batch, RequestFor, Inspect, UploadStart, UploadEnd, RegisterResult,
       StepFails, HandOffRaises, QueueStage
  <2>2. unit'[f].stage = "none" <=> unit[f].stage = "none"
    BY <2>1, StageSetWriters
  <2> QED BY <2>2 DEF Pending
<1>4. bpc'[f] # "idle" => bpc[f] # "idle"
  <2>1. bpc[g] # "idle" /\ \E b : bpc' = [bpc EXCEPT ![g] = b]
    BY DEF Batch, RequestFor, Inspect, UploadStart, UploadEnd, RegisterResult,
       StepFails, HandOffRaises
  <2> QED BY <1>t, <2>1
<1>5. \/ docs'[f] = docs[f]
      \/ bpc[f] = "sent" /\ docs'[f] = docs[f] \cup {<<fp[f], up[f]>>}
  <2>1. docs' = docs \/ (bpc[g] = "sent" /\ Registered(g))
    BY DEF Batch, RequestFor, Inspect, UploadStart, UploadEnd, RegisterResult,
       StepFails, HandOffRaises
  <2> QED BY <1>t, <2>1 DEF Registered
<1>6. bpc[f] = "sent" => up[f] # Partial
  BY <1>a, <1>c, <1>w DEF WholeOK, ContentOK, WriterOK
<1>7. \A row \in docs'[f] : row[2] # Partial
  BY <1>a, <1>5, <1>6 DEF WholeOK
<1> QED BY <1>a, <1>1, <1>2, <1>3, <1>4, <1>7 DEF WholeOK

\* The loop takes in a batch what is pending, and drops it only afterwards.
LEMMA LoopWhole ==
    ASSUME AttemptInv, Apart, WholeInv,
           \/ BatchRaises \/ Due \/ BatchDone \/ SettleDone
           \/ \E g \in Files : \/ Delete(g) \/ Settle(g) \/ QuietPasses(g)
                               \/ RetryPasses(g),
           NEW f \in Files
    PROVE  WholeOK(f)'
<1>t. /\ bpc \in [Files -> BatchPC] /\ disk \in [Files -> OnDisk]
      /\ unit \in [Files -> UnitType]
  BY DEF AttemptInv, TypeOK, BatchPC
<1>a. WholeOK(f)
  BY DEF WholeInv
<1>1. UNCHANGED <<req, docs>>
  BY DEF BatchRaises, Due, BatchDone, SettleDone, Delete, Settle, Complete,
     CompleteRaises, RecordFailure, QuietPasses, RetryPasses
<1>2. /\ Putting(f)' = Putting(f)
      /\ At(f, {"closed"})' = At(f, {"closed"})
      /\ At(f, {"copying"})' = At(f, {"copying"})
      /\ \A c \in At(f, {"copying"}) : req'[c].content = req[c].content
  BY <1>1, SameRequests DEF At
<1>3. ASSUME disk'[f] = disk[f] \/ disk'[f] = Absent, Pending(f)' => Pending(f),
             bpc'[f] # "idle" => Pending(f)'
      PROVE  WholeOK(f)'
  BY <1>a, <1>1, <1>2, <1>3 DEF WholeOK, Absent, Partial
<1>4. CASE BatchRaises \/ BatchDone \/ SettleDone
  <2>1. UNCHANGED <<unit, disk>> /\ (bpc'[f] # "idle" => bpc[f] # "idle")
    BY <1>4, <1>t DEF BatchRaises, BatchDone, SettleDone
  <2> QED BY <1>a, <1>3, <2>1 DEF WholeOK, Pending
<1>5. CASE Due
  <2>1. /\ unit'[f] = IF Vanished(f) THEN NoUnit
                      ELSE IF Ready(f) THEN [unit[f] EXCEPT !.stage = "uploading"]
                      ELSE unit[f]
        /\ bpc'[f] = IF Ready(f) THEN "due" ELSE "idle"
        /\ disk' = disk
    BY <1>5 DEF Due
  <2>2. CASE Vanished(f)
    BY <1>3, <2>1, <2>2 DEF Vanished, Ready, Pending, NoUnit
  <2>3. CASE Ready(f) /\ ~Vanished(f)
    <3>1. unit'[f].stage = "uploading"
      BY <1>t, <2>1, <2>3 DEF UnitType
    <3>2. Pending(f) /\ Pending(f)'
      BY <2>3, <3>1 DEF Ready, Pending
    <3> QED BY <1>3, <2>1, <3>2
  <2>4. CASE ~Ready(f) /\ ~Vanished(f)
    BY <1>3, <2>1, <2>4 DEF Pending
  <2> QED BY <2>2, <2>3, <2>4
<1>6. ASSUME NEW g \in Files, Delete(g) \/ Settle(g) PROVE WholeOK(f)'
  <2>1. CASE f = g /\ (Delete(g) \/ Complete(g))
    <3>1. /\ unit'[f] = NoUnit /\ bpc'[f] = "idle"
          /\ disk'[f] \in {disk[f], Absent}
      BY <1>t, <2>1 DEF Delete, Complete, MayWrite, Apart
    <3> QED BY <1>3, <3>1 DEF Pending, NoUnit
  <2>2. CASE f # g \/ CompleteRaises(g) \/ RecordFailure(g)
    <3>1. disk'[f] = disk[f] /\ (bpc'[f] # "idle" => bpc[f] # "idle")
      BY <1>6, <1>t, <2>2 DEF Delete, Settle, Complete, CompleteRaises,
           RecordFailure
    <3>2. CASE unit'[f] = unit[f]
      BY <1>3, <1>a, <3>1, <3>2 DEF WholeOK, Pending
    <3>3. CASE unit'[f] # unit[f]
      <4>1. f = g /\ RecordFailure(g) /\ Pending(f)
        BY <1>6, <1>t, <2>2, <3>3 DEF Delete, Settle, Complete, CompleteRaises,
           RecordFailure
      <4>2. bpc'[f] = "idle"
        BY <1>t, <4>1 DEF RecordFailure
      <4> QED BY <1>3, <3>1, <4>1, <4>2
    <3> QED BY <3>2, <3>3
  <2> QED BY <1>6, <2>1, <2>2 DEF Settle
<1>7. ASSUME NEW g \in Files, QuietPasses(g) \/ RetryPasses(g) PROVE WholeOK(f)'
  <2>1. UNCHANGED <<disk, bpc>> /\ unit'[f].stage = unit[f].stage
    BY <1>7, <1>t DEF QuietPasses, RetryPasses, UnitType
  <2> QED BY <1>a, <1>3, <2>1 DEF Pending, WholeOK
<1> QED BY <1>4, <1>5, <1>6, <1>7

\* Every step keeps WholeInv.
LEMMA NextWhole ==
    ASSUME ApartInv, OneByOne, WholeInv, [Next]_vars
    PROVE  WholeInv'
<1> SUFFICES ASSUME NEW f \in Files PROVE WholeOK(f)'
  BY DEF WholeInv
<1>i. AttemptInv /\ WriterInv /\ ContentInv /\ Apart
  BY DEF ApartInv, OneByOne
<1>1. CASE UNCHANGED vars
  BY <1>1 DEF vars, WholeInv, WholeOK, At, Putting, Pending
<1>2. ~CrashRestart
  BY DEF OneByOne, CrashRestart, AttemptInv, TypeOK, ApartInv
<1> QED BY <1>i, <1>1, <1>2, ClientWhole, BatchWhole, LoopWhole
        DEF Next, Loop, Time

\* It holds when nothing is staged.
LEMMA InitWhole == Init => WholeInv
<1> SUFFICES ASSUME Init, NEW f \in Files PROVE WholeOK(f)
  BY DEF WholeInv
<1>1. Putting(f) = {} /\ At(f, {"copying"}) = {} /\ At(f, {"closed"}) = {}
  BY DEF Init, Idle, Putting, At
<1> QED BY <1>1 DEF Init, WholeOK, Pending, NoUnit, Absent, Partial

\* Nothing on the drive was uploaded from a file that was still being written, or
\* whose write broke off (_due's writer count, end_write's discard), as long as
\* there is one write of a file at a time, none meets a batch, and no crash
\* leaves a truncated file for _adopt_leftovers.
THEOREM RegisteredFilesAreWhole == OneByOne => (Spec => []WholeFilesOnly)
<1> SUFFICES ASSUME OneByOne PROVE Spec => []WholeFilesOnly
  OBVIOUS
<1>1. Spec => []ApartInv
  BY ApartInvariant DEF OneByOne
<1>2. Init => WholeInv
  BY InitWhole
<1>3. ApartInv /\ WholeInv /\ [Next]_vars => WholeInv'
  BY NextWhole
<1>4. WholeInv => WholeFilesOnly
  BY DEF WholeInv, WholeOK, WholeFilesOnly
<1> QED BY <1>1, <1>2, <1>3, <1>4, PTL DEF Spec

=============================================================================
