--------------------------- MODULE GameStagerProofs ---------------------------
(***************************************************************************)
(* What TLAPS proves of GameStager, for any units, members, clients,       *)
(* contents and bounds:                                                    *)
(*                                                                         *)
(*   GameTypes         every variable keeps its type, so no unit fails     *)
(*                     more often than MAX_ATTEMPTS, whatever overlaps;    *)
(*                                                                         *)
(* and with the overlaps excluded that each of them names:                 *)
(*                                                                         *)
(*   ArchivesAreWhole  no archive on the drive holds a truncated member;   *)
(*   NoGameIsLost      what the client was told is stored is staged or in  *)
(*                     an archive of its unit.                             *)
(*                                                                         *)
(* Neither is inductive.  Both rest on CalmInv: a unit counts the PUTs     *)
(* under way in it, so one that _due returns has none, and no client       *)
(* changes it from then on until its pack is gone.  Then what is packed    *)
(* is what is staged (WholeInv), and what is packed, reused, sent and at   *)
(* last deleted is what the client was told, unless the drive holds that   *)
(* already (LostInv).                                                      *)
(***************************************************************************)
EXTENDS GameStager, FiniteSetTheorems, TLAPS

-----------------------------------------------------------------------------
(* Types *)

\* The record of a unit.
UnitType == [state : States, attempts : 0 .. MaxAttempts, writers : Nat]

\* A record that a unit may have; one that the loop has in hand, or is about
\* to take, has an attempt left.
Sound(r, handled) ==
    /\ r \in UnitType
    /\ r.state # "abandoned" => r.attempts < MaxAttempts
    /\ handled => r.attempts < MaxAttempts

\* The loop has the unit in hand, or is about to take it.
Handled(u) == u \in due \/ loop.unit = u

\* Every record of _units is sound.
RecordInv ==
    /\ unit \in [Units -> UnitType]
    /\ \A u \in Units : Sound(unit[u], Handled(u))

\* A request.
ReqType == [pc : {"idle", "writing", "reading"}, unit : Units \cup {NoUnit},
            member : AllMembers]

\* What _process does.
LoopType == [pc : {"idle", "packing", "sending", "clearing", "cleared"},
             unit : Units \cup {NoUnit}, next : 1 .. NumMembers + 1, zip : Zips]

\* A pack.
PackType == [kind : {"none", "torn", "zip"}, zip : Zips]

\* What the clients see; a request that is idle has no unit.
StoreType ==
    /\ tree \in [Units -> Zips]
    /\ there \in [Units -> BOOLEAN]
    /\ acked \in [Units -> Zips]
    /\ req \in [Clients -> ReqType]
    /\ \A c \in Clients :
          IF req[c].pc = "idle" THEN req[c].unit = NoUnit ELSE req[c].unit \in Units

\* What the loop sees; it is not about to take what it has in hand.
WorkType ==
    /\ pack \in [Units -> PackType]
    /\ loop \in LoopType
    /\ IF loop.pc = "idle" THEN loop.unit = NoUnit ELSE loop.unit \in Units
    /\ due \subseteq Units /\ loop.unit \notin due
    /\ archives \in [Units -> SUBSET Zips]

\* The bounds of the model.
CountType ==
    /\ requests \in 0 .. MaxRequests
    /\ faults \in 0 .. MaxFaults
    /\ crashes \in 0 .. MaxCrashes

\* Type correctness, as the steps keep it.
TypeInv == RecordInv /\ StoreType /\ WorkType /\ CountType

\* It says at least what TypeOK says.
LEMMA TypeInvType == TypeInv => TypeOK
<1> SUFFICES ASSUME TypeInv PROVE TypeOK
  OBVIOUS
<1>1. \A u \in Units : unit[u].state = "failed" => unit[u].attempts < MaxAttempts
  BY DEF TypeInv, RecordInv, Sound
<1> QED BY <1>1 DEF TypeInv, RecordInv, StoreType, WorkType, CountType, TypeOK,
                    UnitType, ReqType, LoopType, PackType

\* What the assumptions on the constants give.
LEMMA Basics ==
    /\ MaxAttempts \in Nat \ {0}
    /\ NumMembers \in Nat \ {0}
    /\ 1 \in AllMembers
    /\ Empty \in Zips
    /\ Absent \notin Contents /\ Partial \notin Contents /\ Absent # Partial
    /\ NoUnit \notin Units
    /\ \A u \in Units : Members(u) \subseteq AllMembers
BY GameStagerAssumption DEF AllMembers, Empty, Zips, Bytes, Absent, Partial, Members

\* An assignment to one place keeps the type of a directory.
LEMMA PutZip ==
    ASSUME NEW f \in [Units -> Zips], NEW u \in Units, NEW m \in AllMembers,
           NEW v \in Bytes
    PROVE  [f EXCEPT ![u][m] = v] \in [Units -> Zips]
BY DEF Zips

\* A record that is made anew is sound, handled or not.
LEMMA NewSound ==
    ASSUME NEW h \in BOOLEAN
    PROVE  Sound(NoRecord, h) /\ Sound(Fresh, h)
BY Basics DEF NoRecord, Fresh, Sound, UnitType, States

\* touch keeps a record sound, and the unit known; it leaves the writers alone.
LEMMA TouchedSound ==
    ASSUME NEW r, NEW h \in BOOLEAN, Sound(r, h)
    PROVE  /\ Sound(Touched(r), h)
           /\ Touched(r).state # "none"
           /\ r.state # "none" => Touched(r).writers = r.writers
           /\ r.state = "none" => Touched(r).writers = 0
<1>1. CASE r.state = "none"
  BY <1>1, NewSound DEF Touched, Fresh, NoRecord
<1>2. CASE r.state \in {"done", "failed"}
  <2>1. Touched(r) = [state |-> "staging", attempts |-> 0, writers |-> r.writers]
    BY <1>2 DEF Touched, Sound, UnitType
  <2> QED BY <1>2, <2>1, Basics DEF Sound, UnitType, States
<1>3. CASE r.state \notin {"none", "done", "failed"}
  BY <1>3 DEF Touched
<1> QED BY <1>1, <1>2, <1>3

\* begin_write and end_write count, and change nothing else.
LEMMA WritersSound ==
    ASSUME NEW r, NEW h \in BOOLEAN, Sound(r, h)
    PROVE  /\ Sound(WriterAdded(r), h)
           /\ WriterAdded(r).writers = r.writers + 1
           /\ WriterAdded(r).state = r.state
           /\ Sound(WriterGone(r), h)
           /\ WriterGone(r).writers = IF r.writers > 0 THEN r.writers - 1 ELSE 0
           /\ WriterGone(r).state = r.state
BY DEF WriterAdded, WriterGone, Sound, UnitType

\* A step that gives one unit another sound record, and takes no other in hand.
LEMMA OneRecord ==
    ASSUME RecordInv, NEW u \in Units, NEW r,
           unit' = [unit EXCEPT ![u] = r],
           Sound(r, Handled(u)'),
           \A v \in Units : v # u => (Handled(v)' => Handled(v))
    PROVE  RecordInv'
<1>1. \A v \in Units : unit'[v] = IF v = u THEN r ELSE unit[v]
  BY DEF RecordInv
<1>2. unit' \in [Units -> UnitType]
  BY DEF RecordInv, Sound
<1>3. ASSUME NEW v \in Units PROVE Sound(unit'[v], Handled(v)')
  BY <1>1 DEF RecordInv, Sound
<1> QED BY <1>2, <1>3 DEF RecordInv

\* A step that takes no unit in hand.
LEMMA SameRecords ==
    ASSUME RecordInv, unit' = unit, \A v \in Units : Handled(v)' => Handled(v)
    PROVE  RecordInv'
BY DEF RecordInv, Sound

\* The record that a failure leaves is sound once the unit is let go.
LEMMA FailureRecord ==
    ASSUME NEW r \in UnitType, NEW n \in 0 .. MaxAttempts, NEW s,
           s = IF n >= MaxAttempts THEN "abandoned" ELSE "failed"
    PROVE  Sound([r EXCEPT !.attempts = n, !.state = s], FALSE)
<1>1. /\ s \in States
      /\ s # "abandoned" => n < MaxAttempts
  BY Basics DEF States
<1>2. /\ [r EXCEPT !.attempts = n, !.state = s] \in UnitType
      /\ [r EXCEPT !.attempts = n, !.state = s].state = s
      /\ [r EXCEPT !.attempts = n, !.state = s].attempts = n
  BY <1>1 DEF UnitType
<1> QED BY <1>1, <1>2 DEF Sound

\* The exception handler keeps the records sound: the unit had an attempt left.
LEMMA FailureSound ==
    ASSUME RecordInv, NEW u \in Units, Handled(u), RecordFailure(u), loop' = Rest,
           due' = due, u \notin due
    PROVE  RecordInv'
<1> DEFINE n == unit[u].attempts + 1
           s == IF n >= MaxAttempts THEN "abandoned" ELSE "failed"
           r == [unit[u] EXCEPT !.attempts = n, !.state = s]
<1>1. unit[u] \in UnitType /\ unit[u].attempts < MaxAttempts
  BY DEF RecordInv, Sound
<1>2. n \in 0 .. MaxAttempts
  BY <1>1, Basics DEF UnitType
<1>3. unit' = [unit EXCEPT ![u] = r]
  BY DEF RecordFailure
<1>4. Handled(u)' = FALSE
  BY Basics DEF Handled, Rest
<1>5. Sound(r, Handled(u)')
  BY <1>1, <1>2, <1>4, FailureRecord
<1>6. \A v \in Units : v # u => (Handled(v)' => Handled(v))
  BY Basics DEF Handled, Rest
<1> QED BY <1>3, <1>5, <1>6, OneRecord

-----------------------------------------------------------------------------
(* Every step keeps the types *)

\* The initial states have their types.
LEMMA TypeInit == Init => TypeInv
<1> SUFFICES ASSUME Init PROVE TypeInv
  OBVIOUS
<1>1. RecordInv
  BY NewSound DEF Init, RecordInv, Sound, Handled
<1>2. StoreType
  BY Basics DEF Init, StoreType, ReqType, Idle
<1>3. WorkType
  BY Basics DEF Init, WorkType, PackType, LoopType, NoPack, Rest
<1>4. CountType
  BY GameStagerAssumption DEF Init, CountType
<1> QED BY <1>1, <1>2, <1>3, <1>4 DEF TypeInv

\* The touch of a unit by a client, with or without a change of the writers.
LEMMA TouchRecord ==
    ASSUME RecordInv, NEW u \in Units, UNCHANGED <<loop, due>>,
           \/ unit' = [unit EXCEPT ![u] = Touched(@)]
           \/ unit' = [unit EXCEPT ![u] = WriterAdded(Touched(@))]
           \/ unit' = [unit EXCEPT ![u] = Touched(WriterGone(@))]
    PROVE  RecordInv'
<1>1. /\ Handled(u) \in BOOLEAN /\ Handled(u)' = Handled(u)
      /\ \A v \in Units : Handled(v)' = Handled(v)
  BY DEF Handled
<1>2. Sound(unit[u], Handled(u))
  BY DEF RecordInv
<1>3. /\ Sound(Touched(unit[u]), Handled(u))
      /\ Sound(WriterAdded(Touched(unit[u])), Handled(u))
      /\ Sound(Touched(WriterGone(unit[u])), Handled(u))
  BY <1>1, <1>2, TouchedSound, WritersSound
<1>4. CASE unit' = [unit EXCEPT ![u] = Touched(@)]
  BY <1>1, <1>3, <1>4, OneRecord
<1>5. CASE unit' = [unit EXCEPT ![u] = WriterAdded(Touched(@))]
  BY <1>1, <1>3, <1>5, OneRecord
<1>6. CASE unit' = [unit EXCEPT ![u] = Touched(WriterGone(@))]
  BY <1>1, <1>3, <1>6, OneRecord
<1> QED BY <1>4, <1>5, <1>6

\* A request that begins keeps the types.
LEMMA PutType ==
    ASSUME TypeInv, NEW c \in Clients, NEW u \in Units, NEW m \in AllMembers,
           PutBegin(c, u, m) \/ GetBegin(c, u, m)
    PROVE  TypeInv'
<1> USE DEF TypeInv
<1>1. CASE PutBegin(c, u, m)
  <2>1. RecordInv'
    BY <1>1, TouchRecord DEF PutBegin
  <2>2. StoreType'
    BY <1>1, Basics DEF PutBegin, StoreType, ReqType, Zips, Bytes
  <2>3. WorkType' /\ CountType'
    BY <1>1, GameStagerAssumption DEF PutBegin, Request, WorkType, CountType
  <2> QED BY <2>1, <2>2, <2>3
<1>2. CASE GetBegin(c, u, m)
  <2>1. RecordInv'
    BY <1>2, SameRecords DEF GetBegin, Handled
  <2>2. StoreType'
    BY <1>2, Basics DEF GetBegin, StoreType, ReqType
  <2>3. WorkType' /\ CountType'
    BY <1>2, GameStagerAssumption DEF GetBegin, WorkType, CountType
  <2> QED BY <2>1, <2>2, <2>3
<1> QED BY <1>1, <1>2

\* A request that ends keeps the types.
LEMMA EndType ==
    ASSUME TypeInv, NEW c \in Clients,
           \/ \E v \in Contents : PutEnd(c, v)
           \/ PutFail(c)
           \/ GetEnd(c)
    PROVE  TypeInv'
<1> USE DEF TypeInv
<1>0. Idle \in ReqType /\ Idle.pc = "idle" /\ Idle.unit = NoUnit
  BY Basics DEF Idle, ReqType
<1>1. ASSUME NEW v \in Contents, PutEnd(c, v) PROVE TypeInv'
  <2>0. req[c].unit \in Units /\ req[c].member \in AllMembers
    BY <1>1 DEF PutEnd, StoreType, ReqType
  <2>1. RecordInv'
    BY <1>1, <2>0, TouchRecord DEF PutEnd
  <2>2. StoreType'
    BY <1>0, <1>1, <2>0 DEF PutEnd, StoreType, Zips, Bytes
  <2>3. WorkType' /\ CountType'
    BY <1>1 DEF PutEnd, WorkType, CountType
  <2> QED BY <2>1, <2>2, <2>3
<1>2. CASE PutFail(c)
  <2>0. req[c].unit \in Units /\ req[c].member \in AllMembers
    BY <1>2 DEF PutFail, StoreType, ReqType
  <2>1. RecordInv'
    BY <1>2, <2>0, TouchRecord DEF PutFail
  <2>2. StoreType'
    BY <1>0, <1>2, <2>0 DEF PutFail, StoreType, Zips, Bytes
  <2>3. WorkType' /\ CountType'
    BY <1>2, GameStagerAssumption DEF PutFail, WorkType, CountType
  <2> QED BY <2>1, <2>2, <2>3
<1>3. CASE GetEnd(c)
  <2>1. RecordInv'
    BY <1>3, SameRecords DEF GetEnd, Handled
  <2>2. StoreType'
    BY <1>0, <1>3 DEF GetEnd, StoreType
  <2>3. WorkType' /\ CountType'
    BY <1>3 DEF GetEnd, WorkType, CountType
  <2> QED BY <2>1, <2>2, <2>3
<1> QED BY <1>1, <1>2, <1>3

\* What an unlink leaves is a directory.
LEMMA LeftoverType ==
    ASSUME StoreType, NEW u \in Units PROVE Leftover(u) \in Zips
BY DEF Leftover, StoreType, Zips, Bytes

\* MKCOL and DELETE keep the types.
LEMMA MkdirType ==
    ASSUME TypeInv, NEW u \in Units,
           Mkdir(u) \/ DeleteFolder(u) \/ \E m \in AllMembers : Delete(u, m)
    PROVE  TypeInv'
<1> USE DEF TypeInv
<1>1. CASE Mkdir(u)
  <2>1. RecordInv'
    BY <1>1, TouchRecord DEF Mkdir
  <2>2. StoreType'
    BY <1>1 DEF Mkdir, StoreType
  <2>3. WorkType' /\ CountType'
    BY <1>1, GameStagerAssumption DEF Mkdir, Request, WorkType, CountType
  <2> QED BY <2>1, <2>2, <2>3
<1>2. CASE DeleteFolder(u)
  <2>1. RecordInv'
    BY <1>2, TouchRecord DEF DeleteFolder
  <2>2. StoreType'
    BY <1>2, Basics, LeftoverType DEF DeleteFolder, StoreType
  <2>3. WorkType' /\ CountType'
    BY <1>2, GameStagerAssumption DEF DeleteFolder, Request, WorkType, CountType
  <2> QED BY <2>1, <2>2, <2>3
<1>3. ASSUME NEW m \in AllMembers, Delete(u, m) PROVE TypeInv'
  <2>1. RecordInv'
    BY <1>3, TouchRecord DEF Delete
  <2>2. StoreType'
    <3>1. (u \in Folders \/ Held(u, m)) \in BOOLEAN
      OBVIOUS
    <3> QED BY <1>3, <3>1 DEF Delete, StoreType, Zips, Bytes
  <2>3. WorkType' /\ CountType'
    BY <1>3, GameStagerAssumption DEF Delete, Request, WorkType, CountType
  <2> QED BY <2>1, <2>2, <2>3
<1> QED BY <1>1, <1>2, <1>3

\* COPY and MOVE keep the types.
LEMMA MoveType ==
    ASSUME TypeInv, NEW u \in Units, NEW w \in Units,
           \/ MoveFolder(u, w)
           \/ \E m, n \in AllMembers, isMove \in BOOLEAN : CopyMove(u, m, w, n, isMove)
    PROVE  TypeInv'
<1> USE DEF TypeInv
<1>1. CASE MoveFolder(u, w)
  <2>1. RecordInv'
    BY <1>1, TouchRecord DEF MoveFolder
  <2>2. StoreType'
    <3>1. /\ tree' \in [Units -> Zips] /\ there' \in [Units -> BOOLEAN]
      BY <1>1, Basics DEF MoveFolder, StoreType
    <3>2. /\ [m \in AllMembers |->
                IF tree[u][m] = Absent THEN acked[w][m] ELSE acked[u][m]] \in Zips
          /\ [m \in AllMembers |->
                IF tree[u][m] = Absent THEN acked[u][m] ELSE Absent] \in Zips
      BY DEF StoreType, Zips, Bytes
    <3>3. acked' \in [Units -> Zips]
      BY <1>1, <3>2 DEF MoveFolder, StoreType
    <3> QED BY <1>1, <3>1, <3>3 DEF MoveFolder, StoreType
  <2>3. WorkType' /\ CountType'
    BY <1>1, GameStagerAssumption DEF MoveFolder, Request, WorkType, CountType
  <2> QED BY <2>1, <2>2, <2>3
<1>2. ASSUME NEW m \in AllMembers, NEW n \in AllMembers, NEW isMove \in BOOLEAN,
             CopyMove(u, m, w, n, isMove)
      PROVE  TypeInv'
  <2>1. RecordInv'
    BY <1>2, TouchRecord DEF CopyMove
  <2>2. StoreType'
    <3>1. /\ tree[u][m] \in Bytes /\ acked[u][m] \in Bytes /\ Absent \in Bytes
      BY DEF StoreType, Zips, Bytes
    <3>2. /\ [tree EXCEPT ![w][n] = tree[u][m]] \in [Units -> Zips]
          /\ [acked EXCEPT ![w][n] = acked[u][m]] \in [Units -> Zips]
      BY <3>1, PutZip DEF StoreType
    <3>3. tree' \in [Units -> Zips] /\ acked' \in [Units -> Zips]
      BY <1>2, <3>1, <3>2, PutZip DEF CopyMove
    <3>4. (u = w \/ u \in Folders \/ ~isMove) \in BOOLEAN
      OBVIOUS
    <3>5. there' \in [Units -> BOOLEAN]
      BY <1>2, <3>4 DEF CopyMove, StoreType
    <3> QED BY <1>2, <3>3, <3>5 DEF CopyMove, StoreType
  <2>3. WorkType' /\ CountType'
    BY <1>2, GameStagerAssumption DEF CopyMove, Request, WorkType, CountType
  <2> QED BY <2>1, <2>2, <2>3
<1> QED BY <1>1, <1>2

\* _process moves the unit it has in hand to another state.
LEMMA StateSound ==
    ASSUME RecordInv, NEW u \in Units, NEW s \in States \ {"abandoned"}, Handled(u),
           SetState(u, s), \A v \in Units : Handled(v)' => Handled(v)
    PROVE  RecordInv'
<1>1. Sound(unit[u], TRUE)
  BY DEF RecordInv, Sound
<1>2. CASE unit' = unit
  BY <1>2, SameRecords
<1>3. CASE unit' = [unit EXCEPT ![u] = [unit[u] EXCEPT !.state = s]]
  <2>1. Sound([unit[u] EXCEPT !.state = s], Handled(u)')
    BY <1>1 DEF Sound, UnitType
  <2> QED BY <1>3, <2>1, OneRecord
<1> QED BY <1>2, <1>3 DEF SetState

\* _process takes a unit.
LEMMA TakeType ==
    ASSUME TypeInv, NEW u \in Units, TakeFile(u) \/ ReusePack(u) \/ PackStart(u)
    PROVE  TypeInv'
<1> USE DEF TypeInv
<1>0. /\ Handled(u) /\ due' = due \ {u} /\ loop'.unit = u
      /\ \A v \in Units : Handled(v)' => Handled(v)
  BY DEF TakeFile, ReusePack, PackStart, Send, At, Handled
<1>1. RecordInv'
  <2>1. CASE TakeFile(u) \/ ReusePack(u)
    BY <1>0, <2>1, StateSound DEF TakeFile, ReusePack, Send, States
  <2>2. CASE PackStart(u)
    BY <1>0, <2>2, SameRecords DEF PackStart
  <2> QED BY <2>1, <2>2
<1>2. StoreType' /\ CountType'
  BY DEF TakeFile, ReusePack, PackStart, local, StoreType, CountType
<1>3. WorkType'
  <2>1. /\ pack' \in [Units -> PackType] /\ archives' \in [Units -> SUBSET Zips]
    BY Basics DEF TakeFile, ReusePack, PackStart, WorkType, PackType, Torn
  <2>2. loop' \in LoopType /\ loop'.pc # "idle"
    <3>1. tree[u] \in Zips /\ pack[u].zip \in Zips
      BY DEF StoreType, WorkType, PackType
    <3> QED BY <3>1, Basics DEF TakeFile, ReusePack, PackStart, Send, At, LoopType
  <2> QED BY <1>0, <2>1, <2>2 DEF WorkType
<1> QED BY <1>1, <1>2, <1>3

\* What PackMember does to the loop's record.
LEMMA MemberPacked ==
    ASSUME loop \in LoopType, NEW v \in Bytes, loop.next <= NumMembers,
           loop' = [loop EXCEPT !.next = @ + 1, !.zip[loop.next] = v]
    PROVE  /\ loop' \in LoopType
           /\ loop'.pc = loop.pc /\ loop'.unit = loop.unit
           /\ loop'.next = loop.next + 1
           /\ loop'.zip = [loop.zip EXCEPT ![loop.next] = v]
<1>1. /\ loop.next + 1 \in 1 .. NumMembers + 1
      /\ loop.next \in AllMembers
  BY Basics DEF LoopType, AllMembers
<1>2. [loop.zip EXCEPT ![loop.next] = v] \in Zips
  BY <1>1 DEF LoopType, Zips
<1>3. loop' = [loop EXCEPT !.next = loop.next + 1,
                           !.zip = [loop.zip EXCEPT ![loop.next] = v]]
  BY DEF LoopType
<1> QED BY <1>1, <1>2, <1>3 DEF LoopType

\* Packing and the upload keep the types.
LEMMA PackedType ==
    ASSUME TypeInv, PackMember \/ PackDone \/ Uploaded
    PROVE  TypeInv'
<1> USE DEF TypeInv
<1> DEFINE u == loop.unit
<1>0. u \in Units /\ Handled(u)
  BY DEF PackMember, PackDone, Uploaded, WorkType, Handled
<1>1. CASE PackMember
  <2>1. tree[u][loop.next] \in Bytes
    BY <1>0, <1>1, Basics DEF PackMember, StoreType, WorkType, LoopType, Zips, AllMembers
  <2>2. loop' \in LoopType /\ loop'.pc = loop.pc /\ loop'.unit = loop.unit
    BY <1>1, <2>1, MemberPacked DEF PackMember, WorkType
  <2>3. RecordInv'
    BY <1>1, <2>2, SameRecords DEF PackMember, Handled
  <2>4. StoreType' /\ CountType'
    BY <1>1 DEF PackMember, local, StoreType, CountType
  <2>5. WorkType'
    BY <1>1, <2>2 DEF PackMember, WorkType
  <2> QED BY <2>3, <2>4, <2>5
<1>2. CASE PackDone
  <2>1. \A v \in Units : Handled(v)' => Handled(v)
    BY <1>2 DEF PackDone, Send, At, Handled
  <2>2. RecordInv'
    BY <1>0, <1>2, <2>1, StateSound DEF PackDone, Send, States
  <2>3. StoreType' /\ CountType'
    BY <1>2 DEF PackDone, local, StoreType, CountType
  <2>4. loop.zip \in Zips
    BY DEF WorkType, LoopType
  <2>5. pack' \in [Units -> PackType]
    BY <1>2, <2>4 DEF PackDone, WorkType, PackType, Zip
  <2>6. loop' \in LoopType /\ loop'.unit = u /\ loop'.pc = "sending"
    BY <1>0, <1>2, <2>4, Basics DEF PackDone, Send, At, LoopType
  <2>7. WorkType'
    BY <1>0, <1>2, <2>5, <2>6 DEF PackDone, WorkType
  <2> QED BY <2>2, <2>3, <2>7
<1>3. CASE Uploaded
  <2>0. loop' \in LoopType /\ loop'.unit = u
    BY <1>3 DEF Uploaded, WorkType, LoopType
  <2>1. \A v \in Units : Handled(v)' => Handled(v)
    BY <1>3, <2>0 DEF Uploaded, Handled
  <2>2. RecordInv'
    BY <1>0, <1>3, <2>1, StateSound DEF Uploaded, States
  <2>3. StoreType' /\ CountType'
    BY <1>3 DEF Uploaded, local, StoreType, CountType
  <2>4. loop.zip \in Zips
    BY DEF WorkType, LoopType
  <2>5. archives' \in [Units -> SUBSET Zips]
    BY <1>0, <1>3, <2>4 DEF Uploaded, Registered, WorkType
  <2>7. WorkType'
    BY <1>0, <1>3, <2>0, <2>5 DEF Uploaded, WorkType
  <2> QED BY <2>2, <2>3, <2>7
<1> QED BY <1>1, <1>2, <1>3

\* Failures keep the types.
LEMMA FailType ==
    ASSUME TypeInv, PackFails \/ UploadFails \/ ClearRaises
    PROVE  TypeInv'
<1> USE DEF TypeInv
<1> DEFINE u == loop.unit
<1>0. u \in Units /\ Handled(u) /\ u \notin due
  BY DEF PackFails, UploadFails, ClearRaises, WorkType, Handled
<1>1. RecordFailure(u) /\ loop' = Rest /\ due' = due
  BY DEF PackFails, UploadFails, ClearRaises
<1>2. RecordInv'
  BY <1>0, <1>1, FailureSound
<1>3. StoreType'
  BY DEF PackFails, UploadFails, ClearRaises, local, StoreType
<1>4. CountType'
  BY GameStagerAssumption DEF PackFails, UploadFails, ClearRaises, local, CountType
<1>5. pack' \in [Units -> PackType]
  <2>1. NoPack \in PackType
    BY Basics DEF NoPack, PackType
  <2>2. Zip(loop.zip) \in PackType
    BY DEF WorkType, LoopType, Zip, PackType
  <2> QED BY <2>1, <2>2 DEF PackFails, UploadFails, ClearRaises, WorkType
<1>6. WorkType'
  <2>1. archives' = archives
    BY DEF PackFails, UploadFails, ClearRaises
  <2> QED BY <1>1, <1>5, <2>1, Basics DEF WorkType, Rest, LoopType
<1> QED BY <1>2, <1>3, <1>4, <1>6

\* Clearing up keeps the types.
LEMMA ClearType == ASSUME TypeInv, Clear \/ Finish PROVE TypeInv'
<1> USE DEF TypeInv
<1>0. PICK u \in Units : u = loop.unit
  BY DEF Clear, Finish, WorkType
<1>1. CASE Clear
  <2>0. loop' \in LoopType /\ loop'.unit = loop.unit
    BY <1>1 DEF Clear, WorkType, LoopType
  <2>1. RecordInv'
    BY <1>1, <2>0, SameRecords DEF Clear, Handled
  <2>2. StoreType'
    BY <1>0, <1>1, Basics, LeftoverType DEF Clear, StoreType
  <2>3. CountType'
    BY <1>1 DEF Clear, CountType
  <2>4. WorkType'
    BY <1>0, <1>1, <2>0 DEF Clear, WorkType
  <2> QED BY <2>1, <2>2, <2>3, <2>4
<1>2. CASE Finish
  <2>1. Sound(NoRecord, Handled(u)') /\ \A v \in Units : Handled(v)' => Handled(v)
    <3>1. Handled(u)' \in BOOLEAN
      BY DEF Handled
    <3> QED BY <1>2, <3>1, NewSound, Basics DEF Finish, Handled, Rest
  <2>2. RecordInv'
    BY <1>0, <1>2, <2>1, OneRecord DEF Finish
  <2>3. StoreType' /\ CountType'
    BY <1>2 DEF Finish, local, StoreType, CountType
  <2>4. pack' \in [Units -> PackType]
    BY <1>2, Basics DEF Finish, WorkType, NoPack, PackType
  <2>5. WorkType'
    BY <1>2, <2>4, Basics DEF Finish, WorkType, Rest, LoopType
  <2> QED BY <2>2, <2>3, <2>5
<1> QED BY <1>1, <1>2

\* _due keeps the types: what it returns has an attempt left.
LEMMA DueType == ASSUME TypeInv, NEW ready \in SUBSET Units, Due(ready) PROVE TypeInv'
<1> USE DEF TypeInv
<1>1. ASSUME NEW v \in Units PROVE Sound(unit'[v], Handled(v)')
  <2>0. Handled(v)' \in BOOLEAN /\ (v \notin ready => (Handled(v)' => Handled(v)))
    BY DEF Due, Handled
  <2>1. CASE v \in ready
    <3>1. Sound(unit[v], TRUE)
      BY <2>1 DEF Due, Eligible, RecordInv, Sound
    <3>2. unit'[v] = [unit[v] EXCEPT !.state = "packing"]
      BY <2>1 DEF Due
    <3> QED BY <3>1, <3>2 DEF Sound, UnitType, States
  <2>2. CASE v \notin ready
    <3>1. unit'[v] \in {NoRecord, Fresh, unit[v]}
      BY <2>2 DEF Due
    <3>2. Sound(unit[v], Handled(v)')
      BY <2>0, <2>2 DEF RecordInv, Sound
    <3> QED BY <2>0, <3>1, <3>2, NewSound
  <2> QED BY <2>1, <2>2
<1>2. unit' \in [Units -> UnitType]
  BY <1>1 DEF Due, Sound
<1>3. StoreType' /\ CountType'
  BY DEF Due, local, StoreType, CountType
<1>4. WorkType'
  BY Basics DEF Due, WorkType
<1> QED BY <1>1, <1>2, <1>3, <1>4 DEF RecordInv

\* A restart keeps the types: every record is new.
LEMMA CrashType == ASSUME TypeInv, CrashRestart PROVE TypeInv'
<1> USE DEF TypeInv
<1>1. ASSUME NEW v \in Units PROVE Sound(unit'[v], Handled(v)')
  <2>1. unit'[v] \in {NoRecord, Fresh}
    BY DEF CrashRestart
  <2>2. Handled(v)' \in BOOLEAN
    BY DEF Handled
  <2> QED BY <2>1, <2>2, NewSound
<1>2. unit' \in [Units -> UnitType]
  BY <1>1 DEF CrashRestart, Sound
<1>3. StoreType'
  BY Basics DEF CrashRestart, StoreType, ReqType, Idle
<1>4. CountType'
  BY GameStagerAssumption DEF CrashRestart, CountType
<1>5. WorkType'
  BY Basics DEF CrashRestart, WorkType, Rest, LoopType
<1> QED BY <1>1, <1>2, <1>3, <1>4, <1>5 DEF RecordInv

\* Every step keeps the types.
LEMMA TypeStep == TypeInv /\ [Next]_vars => TypeInv'
<1> SUFFICES ASSUME TypeInv, [Next]_vars PROVE TypeInv'
  OBVIOUS
<1>1. ASSUME NEW c \in Clients, Serve(c) PROVE TypeInv'
  BY <1>1, PutType, EndType DEF Serve
<1>2. ASSUME NEW u \in Units, Manage(u) PROVE TypeInv'
  <2>1. CASE \E w \in Units : MoveFolder(u, w)
    BY <2>1, MoveType
  <2>2. CASE \E w \in Units, m, n \in AllMembers, isMove \in BOOLEAN :
                CopyMove(u, m, w, n, isMove)
    BY <2>2, MoveType
  <2> QED BY <1>2, <2>1, <2>2, MkdirType DEF Manage
<1>3. CASE Process
  BY <1>3, TakeType, PackedType, ClearType, FailType DEF Process
<1>4. CASE UNCHANGED vars
  <2>1. RecordInv'
    BY <1>4, SameRecords DEF vars, Handled, TypeInv
  <2> QED BY <1>4, <2>1 DEF vars, TypeInv, StoreType, WorkType, CountType
<1> QED BY <1>1, <1>2, <1>3, <1>4, FailType, DueType, CrashType DEF Next

\* The types hold throughout.
LEMMA SpecTypeInv == Spec => []TypeInv
BY TypeInit, TypeStep, PTL DEF Spec

\* Every variable keeps its type, whatever overlaps the constants allow: _process
\* never records more failures of a unit than MAX_ATTEMPTS, and a unit that
\* waits for its retry has one left.
THEOREM GameTypes == Spec => []TypeOK
BY SpecTypeInv, TypeInvType, PTL

-----------------------------------------------------------------------------
(* Writers *)

\* No client changes a unit that the loop handles or keeps a pack of, or copies
\* a file that is being written, and a PUT ends within WRITER_STALE_SECONDS.
Calm == ~BusyWrites /\ ~LongWrites

\* The PUTs under way in unit u.
WritersOf(u) == {c \in Clients : req[c].pc = "writing" /\ req[c].unit = u}

\* A record counts the writers W of its unit; there are none while the unit is
\* unknown, or busy.
Counted(r, W, busy) ==
    /\ IsFiniteSet(W)
    /\ r.writers = Cardinality(W)
    /\ r.state = "none" => W = {}
    /\ busy => W = {}

\* Every unit counts its writers.
CountInv == \A u \in Units : Counted(unit[u], WritersOf(u), Busy(u))

\* A file lies in a unit that exists, at a place of its own.
PlaceInv ==
    \A u \in Units, m \in AllMembers :
        tree[u][m] # Absent => there[u] /\ m \in Members(u)

\* What a client with an open file finds there.
Opened(r, t, a) ==
    /\ r.pc = "writing" => /\ r.member \in Members(r.unit)
                           /\ t[r.unit][r.member] = Partial
                           /\ a[r.unit][r.member] = Absent
    /\ r.pc = "reading" => t[r.unit][r.member] \notin {Absent, Partial}

\* Every client finds its file as it should be, and no two write the same one.
OpenInv ==
    /\ \A c \in Clients : Opened(req[c], tree, acked)
    /\ \A c, d \in Clients :
          /\ req[c].pc = "writing" /\ req[d].pc = "writing"
          /\ req[c].unit = req[d].unit /\ req[c].member = req[d].member
          => c = d

\* What holds of the calm system.
CalmInv == TypeInv /\ PlaceInv /\ CountInv /\ OpenInv

\* The count is zero exactly when nobody writes.
LEMMA NobodyWrites ==
    /\ IsFiniteSet({}) /\ Cardinality({}) = 0
    /\ \A W : IsFiniteSet(W) /\ Cardinality(W) = 0 => W = {}
BY FS_EmptySet

\* touch keeps the count, for a unit it adopts too: that one had no writers.
LEMMA TouchCounted ==
    ASSUME NEW r, NEW W, NEW b \in BOOLEAN, Sound(r, FALSE), Counted(r, W, b)
    PROVE  Counted(Touched(r), W, b)
<1>1. CASE r.state = "none"
  BY <1>1, TouchedSound, NobodyWrites DEF Counted
<1>2. CASE r.state # "none"
  BY <1>2, TouchedSound DEF Counted
<1> QED BY <1>1, <1>2

\* begin_write counts one more writer.
LEMMA AddCounted ==
    ASSUME NEW r, NEW W, Sound(r, FALSE), Counted(r, W, FALSE), r.state # "none",
           NEW c, c \notin W
    PROVE  Counted(WriterAdded(r), W \cup {c}, FALSE)
<1>1. /\ WriterAdded(r).writers = r.writers + 1
      /\ WriterAdded(r).state = r.state
  BY WritersSound
<1>2. IsFiniteSet(W \cup {c}) /\ Cardinality(W \cup {c}) = Cardinality(W) + 1
  BY FS_AddElement DEF Counted
<1> QED BY <1>1, <1>2 DEF Counted

\* end_write counts one less.
LEMMA GoneCounted ==
    ASSUME NEW r, NEW W, NEW b \in BOOLEAN, Sound(r, FALSE), Counted(r, W, b),
           NEW c, c \in W
    PROVE  Counted(WriterGone(r), W \ {c}, b)
<1>1. IsFiniteSet(W \ {c}) /\ Cardinality(W \ {c}) = Cardinality(W) - 1
  BY FS_RemoveElement DEF Counted
<1>2. Cardinality(W) \in Nat /\ Cardinality(W) # 0
  BY NobodyWrites, FS_CardinalityType DEF Counted
<1>3. /\ WriterGone(r).writers = IF r.writers > 0 THEN r.writers - 1 ELSE 0
      /\ WriterGone(r).state = r.state
  BY WritersSound
<1>4. /\ r.writers = Cardinality(W)
      /\ r.state # "none" /\ ~b
  BY DEF Counted
<1> QED BY <1>1, <1>2, <1>3, <1>4 DEF Counted

\* A step that changes the record of one unit at most.
LEMMA CountOne ==
    ASSUME RecordInv, CountInv, NEW u \in Units, NEW r,
           unit' = [unit EXCEPT ![u] = r],
           Counted(r, WritersOf(u)', Busy(u)'),
           \A v \in Units : v # u => WritersOf(v)' = WritersOf(v) /\ Busy(v)' = Busy(v)
    PROVE  CountInv'
BY DEF RecordInv, CountInv

\* A step that touches one unit, and starts or ends no PUT.
LEMMA CountTouch ==
    ASSUME RecordInv, CountInv, NEW u \in Units,
           unit' = [unit EXCEPT ![u] = Touched(@)],
           \A v \in Units : WritersOf(v)' = WritersOf(v) /\ Busy(v)' = Busy(v)
    PROVE  CountInv'
<1>1. /\ Sound(unit[u], FALSE) /\ Counted(unit[u], WritersOf(u), Busy(u))
      /\ Busy(u) \in BOOLEAN
  BY DEF RecordInv, CountInv, Sound, Busy
<1>2. Counted(Touched(unit[u]), WritersOf(u), Busy(u))
  BY <1>1, TouchCounted
<1> QED BY <1>2, CountOne

\* A step of the loop, which leaves the count alone or forgets a unit that is
\* not being written.
LEMMA CountLoop ==
    ASSUME RecordInv, CountInv, req' = req,
           \A v \in Units :
              /\ Busy(v)' => Busy(v) \/ WritersOf(v) = {}
              /\ \/ /\ unit'[v].writers = unit[v].writers
                    /\ unit'[v].state = "none" => unit[v].state = "none"
                 \/ WritersOf(v) = {} /\ unit'[v].writers = 0
    PROVE  CountInv'
<1> SUFFICES ASSUME NEW v \in Units PROVE Counted(unit'[v], WritersOf(v)', Busy(v)')
  BY DEF CountInv
<1>1. WritersOf(v)' = WritersOf(v) /\ Counted(unit[v], WritersOf(v), Busy(v))
  BY DEF WritersOf, CountInv
<1> QED BY <1>1, NobodyWrites DEF Counted

\* A step that leaves the files of every client it does not end alone.
Kept(d) ==
    LET u == req[d].unit
        m == req[d].member IN
    /\ req'[d] = req[d]
    /\ tree'[u][m] = tree[u][m]
    /\ acked'[u][m] \in {acked[u][m], Absent}

\* Then the open files stay as they were.
LEMMA OpenKept ==
    ASSUME StoreType, OpenInv, \A d \in Clients : req'[d].pc # "idle" => Kept(d)
    PROVE  OpenInv'
<1>1. ASSUME NEW c \in Clients PROVE Opened(req[c], tree, acked)'
  <2>1. CASE req'[c].pc = "idle"
    BY <2>1 DEF Opened
  <2>2. CASE req'[c].pc # "idle"
    BY <2>2 DEF Opened, OpenInv, Kept
  <2> QED BY <2>1, <2>2
<1>2. ASSUME NEW c \in Clients, NEW d \in Clients,
             req'[c].pc = "writing" /\ req'[d].pc = "writing",
             req'[c].unit = req'[d].unit /\ req'[c].member = req'[d].member
      PROVE  c = d
  BY <1>2 DEF OpenInv, Kept
<1> QED BY <1>1, <1>2 DEF OpenInv

\* The same for a step that starts and ends no request.
LEMMA OpenAll ==
    ASSUME StoreType, OpenInv, req' = req,
           \A d \in Clients : req[d].pc # "idle" => Kept(d)
    PROVE  OpenInv'
BY OpenKept

\* A file nobody has open is no client's file.
LEMMA NotOpen ==
    ASSUME StoreType, NEW u \in Units, NEW m, Open(u, m) = {},
           NEW d \in Clients
    PROVE  req[d].unit # u \/ req[d].member # m
BY DEF Open

\* Only the loop makes a unit busy.
LEMMA BusySame ==
    ASSUME UNCHANGED <<pack, loop, due>>, NEW v \in Units
    PROVE  Busy(v)' = Busy(v)
BY DEF Busy

\* PutBegin finds a free place in a unit that is not busy.
LEMMA CalmPut ==
    ASSUME Calm, CalmInv, NEW c \in Clients, NEW u \in Units, NEW m \in AllMembers,
           PutBegin(c, u, m)
    PROVE  PlaceInv' /\ CountInv' /\ OpenInv'
<1> USE DEF CalmInv, TypeInv
<1>1. /\ Open(u, m) = {} /\ ~Busy(u) /\ m \in Members(u)
      /\ req[c].pc = "idle"
      /\ req' = [req EXCEPT ![c] = [pc |-> "writing", unit |-> u, member |-> m]]
  BY DEF Calm, PutBegin, Request
<1>2. ASSUME NEW w \in Units, NEW k \in AllMembers
      PROVE  /\ tree'[w][k] = IF w = u /\ k = m THEN Partial ELSE tree[w][k]
             /\ acked'[w][k] = IF w = u /\ k = m THEN Absent ELSE acked[w][k]
             /\ there'[w] = IF w = u THEN TRUE ELSE there[w]
  <2>1. /\ tree' = [tree EXCEPT ![u][m] = Partial]
        /\ acked' = [acked EXCEPT ![u][m] = Absent]
        /\ there' = [there EXCEPT ![u] = TRUE]
        /\ tree \in [Units -> Zips] /\ acked \in [Units -> Zips]
        /\ there \in [Units -> BOOLEAN]
    BY DEF PutBegin, StoreType
  <2>2. tree'[w][k] = IF w = u /\ k = m THEN Partial ELSE tree[w][k]
    BY <2>1 DEF Zips
  <2>3. acked'[w][k] = IF w = u /\ k = m THEN Absent ELSE acked[w][k]
    BY <2>1 DEF Zips
  <2> QED BY <2>1, <2>2, <2>3
<1>3. PlaceInv'
  BY <1>1, <1>2 DEF PlaceInv
<1>4. CountInv'
  <2>1. \A v \in Units : Busy(v)' = Busy(v)
    BY BusySame DEF PutBegin
  <2>2. \A v \in Units : v # u => WritersOf(v)' = WritersOf(v)
    BY <1>1 DEF WritersOf, StoreType
  <2>3. WritersOf(u)' = WritersOf(u) \cup {c} /\ c \notin WritersOf(u)
    BY <1>1 DEF WritersOf, StoreType
  <2>4. Sound(unit[u], FALSE) /\ Counted(unit[u], WritersOf(u), FALSE)
    BY DEF RecordInv, CountInv, Sound, Counted
  <2>5. /\ Counted(Touched(unit[u]), WritersOf(u), FALSE)
        /\ Sound(Touched(unit[u]), FALSE)
        /\ Touched(unit[u]).state # "none"
    BY <2>4, TouchCounted, TouchedSound
  <2>6. Counted(WriterAdded(Touched(unit[u])), WritersOf(u)', FALSE)
    BY <2>3, <2>5, AddCounted
  <2>7. unit' = [unit EXCEPT ![u] = WriterAdded(Touched(unit[u]))]
    BY DEF PutBegin
  <2>8. Busy(u)' = FALSE
    BY <1>1, <2>1
  <2> QED BY <2>1, <2>2, <2>6, <2>7, <2>8, CountOne
<1>5. OpenInv'
  <2>1. ASSUME NEW d \in Clients, d # c
        PROVE  /\ req'[d] = req[d]
               /\ Opened(req[d], tree', acked')
               /\ req[d].unit # u \/ req[d].member # m
    <3>1. req'[d] = req[d] /\ (req[d].unit # u \/ req[d].member # m)
      BY <1>1, <2>1, NotOpen DEF StoreType
    <3>2. CASE req[d].pc = "idle"
      BY <3>1, <3>2 DEF Opened
    <3>3. CASE req[d].pc # "idle"
      <4>1. req[d].unit \in Units /\ req[d].member \in AllMembers
        BY <3>3 DEF StoreType, ReqType
      <4>2. Opened(req[d], tree, acked)
        BY DEF OpenInv
      <4> QED BY <1>2, <3>1, <4>1, <4>2 DEF Opened
    <3> QED BY <3>1, <3>2, <3>3
  <2>2. /\ req'[c].pc = "writing" /\ req'[c].unit = u /\ req'[c].member = m
    BY <1>1 DEF StoreType
  <2>3. Opened(req'[c], tree', acked')
    BY <1>1, <1>2, <2>2 DEF Opened
  <2> QED BY <2>1, <2>2, <2>3 DEF OpenInv
<1> QED BY <1>3, <1>4, <1>5

\* GetBegin opens a file that is not being written.
LEMMA CalmGet ==
    ASSUME Calm, CalmInv, NEW c \in Clients, NEW u \in Units, NEW m \in AllMembers,
           GetBegin(c, u, m)
    PROVE  PlaceInv' /\ CountInv' /\ OpenInv'
<1> USE DEF CalmInv, TypeInv
<1>1. /\ tree[u][m] \notin {Absent, Partial}
      /\ req[c].pc = "idle"
      /\ req' = [req EXCEPT ![c] = [pc |-> "reading", unit |-> u, member |-> m]]
      /\ UNCHANGED <<tree, there, acked, unit, pack, loop, due>>
  BY DEF Calm, GetBegin
<1>2. PlaceInv'
  BY <1>1 DEF PlaceInv
<1>3. CountInv'
  <2>1. \A v \in Units : Busy(v)' = Busy(v)
    BY <1>1, BusySame
  <2>2. \A v \in Units : WritersOf(v)' = WritersOf(v)
    BY <1>1 DEF WritersOf, StoreType
  <2> QED BY <1>1, <2>1, <2>2 DEF CountInv
<1>4. OpenInv'
  BY <1>1 DEF OpenInv, Opened, StoreType
<1> QED BY <1>2, <1>3, <1>4

\* GetEnd closes it.
LEMMA CalmGetEnd ==
    ASSUME CalmInv, NEW c \in Clients, GetEnd(c)
    PROVE  PlaceInv' /\ CountInv' /\ OpenInv'
<1> USE DEF CalmInv, TypeInv
<1>1. /\ req[c].pc = "reading"
      /\ req' = [req EXCEPT ![c] = Idle]
      /\ UNCHANGED <<tree, there, acked, unit, pack, loop, due>>
  BY DEF GetEnd
<1>2. PlaceInv'
  BY <1>1 DEF PlaceInv
<1>3. CountInv'
  <2>1. \A v \in Units : Busy(v)' = Busy(v)
    BY <1>1, BusySame
  <2>2. \A v \in Units : WritersOf(v)' = WritersOf(v)
    BY <1>1 DEF WritersOf, StoreType, Idle
  <2> QED BY <1>1, <2>1, <2>2 DEF CountInv
<1>4. OpenInv'
  <2>1. \A d \in Clients : req'[d].pc # "idle" => Kept(d)
    BY <1>1 DEF Kept, StoreType, Idle
  <2> QED BY <2>1, OpenKept
<1> QED BY <1>2, <1>3, <1>4

\* The end of a PUT, which leaves v, and tells the client of it or drops it.
LEMMA CalmEnd ==
    ASSUME Calm, CalmInv, NEW c \in Clients, PutFail(c) \/ \E v \in Contents : PutEnd(c, v)
    PROVE  PlaceInv' /\ CountInv' /\ OpenInv'
<1> USE DEF CalmInv, TypeInv
<1>0. PICK u \in Units, m \in AllMembers :
        u = req[c].unit /\ m = req[c].member
  BY DEF PutFail, PutEnd, StoreType, ReqType
<1>1. /\ req[c].pc = "writing" /\ req' = [req EXCEPT ![c] = Idle]
      /\ unit' = [unit EXCEPT ![u] = Touched(WriterGone(unit[u]))]
      /\ UNCHANGED <<pack, loop, due>>
  BY <1>0 DEF PutFail, PutEnd
<1>2. /\ m \in Members(u) /\ tree[u][m] = Partial /\ acked[u][m] = Absent
      /\ there[u]
  BY <1>0, <1>1, Basics DEF OpenInv, Opened, PlaceInv
<1>3. ASSUME NEW d \in Clients, d # c, req[d].pc # "idle"
      PROVE  req[d].unit # u \/ req[d].member # m
  <2>1. CASE req[d].pc = "writing"
    BY <1>0, <1>1, <1>3, <2>1 DEF OpenInv
  <2>2. CASE req[d].pc = "reading"
    BY <1>2, <2>2 DEF OpenInv, Opened
  <2> QED BY <1>3, <2>1, <2>2 DEF StoreType, ReqType
<1>4. PICK x, y :
        /\ tree' = [tree EXCEPT ![u][m] = x]
        /\ acked' = [acked EXCEPT ![u][m] = y]
        /\ there'[u] \/ (x = Absent /\ u \notin Folders)
        /\ there' \in [Units -> BOOLEAN] /\ \A w \in Units : w # u => there'[w] = there[w]
  <2>1. CASE PutFail(c)
    <3>1. Open(u, m) = {c}
      <4>1. \A d \in Clients : req[d].pc = "idle" => req[d].unit # u
        BY Basics DEF StoreType
      <4> QED BY <1>0, <1>3, <4>1 DEF Open
    <3>2. ~(loop.pc = "sending" /\ loop.unit = u)
      <4>1. c \in WritersOf(u)
        BY <1>0, <1>1 DEF WritersOf
      <4> QED BY <4>1 DEF CountInv, Counted, Busy
    <3>3. /\ tree' = [tree EXCEPT ![u][m] = Absent]
          /\ there' = [there EXCEPT ![u] = u \in Folders \/ FALSE]
          /\ acked' = [acked EXCEPT ![u][m] = Absent]
      <4>1. acked = [acked EXCEPT ![u][m] = Absent]
        BY <1>2 DEF StoreType, Zips
      <4> QED BY <1>0, <2>1, <3>1, <3>2, <4>1 DEF PutFail
    <3> QED BY <3>3 DEF StoreType
  <2>2. ASSUME NEW v \in Contents, PutEnd(c, v)
        PROVE  /\ tree' = [tree EXCEPT ![u][m] = v]
               /\ acked' = [acked EXCEPT ![u][m] = v]
               /\ there' = there
    BY <1>0, <2>2 DEF PutEnd
  <2> QED BY <1>2, <2>1, <2>2 DEF StoreType
<1>5. ASSUME NEW w \in Units, NEW k \in AllMembers
      PROVE  /\ tree'[w][k] = IF w = u /\ k = m THEN x ELSE tree[w][k]
             /\ acked'[w][k] = IF w = u /\ k = m THEN y ELSE acked[w][k]
  <2>1. tree \in [Units -> Zips] /\ acked \in [Units -> Zips]
    BY DEF StoreType
  <2>2. tree'[w][k] = IF w = u /\ k = m THEN x ELSE tree[w][k]
    BY <1>4, <2>1 DEF Zips
  <2>3. acked'[w][k] = IF w = u /\ k = m THEN y ELSE acked[w][k]
    BY <1>4, <2>1 DEF Zips
  <2> QED BY <2>2, <2>3
<1>6. PlaceInv'
  <2> SUFFICES ASSUME NEW w \in Units, NEW k \in AllMembers, tree'[w][k] # Absent
               PROVE  there'[w] /\ k \in Members(w)
    BY DEF PlaceInv
  <2>1. CASE w # u
    BY <1>4, <1>5, <2>1 DEF PlaceInv
  <2>2. CASE w = u /\ k = m
    BY <1>2, <1>4, <1>5, <2>2 DEF PlaceInv
  <2>3. CASE w = u /\ k # m
    <3>1. tree[u][k] # Absent /\ k \in Members(u)
      BY <1>5, <2>3 DEF PlaceInv
    <3>2. u \in Folders
      BY <1>2, <2>3, <3>1 DEF Members
    <3> QED BY <1>4, <2>3, <3>1, <3>2
  <2> QED BY <2>1, <2>2, <2>3
<1>7. CountInv'
  <2>1. \A v \in Units : Busy(v)' = Busy(v)
    BY <1>1, BusySame
  <2>2. \A v \in Units : v # u => WritersOf(v)' = WritersOf(v)
    BY <1>0, <1>1 DEF WritersOf, StoreType, Idle
  <2>3. WritersOf(u)' = WritersOf(u) \ {c} /\ c \in WritersOf(u)
    BY <1>0, <1>1 DEF WritersOf, StoreType, Idle
  <2>4. /\ Sound(unit[u], FALSE) /\ Counted(unit[u], WritersOf(u), Busy(u))
        /\ Busy(u) \in BOOLEAN
    BY DEF RecordInv, CountInv, Sound, Busy
  <2>5. /\ Counted(WriterGone(unit[u]), WritersOf(u)', Busy(u))
        /\ Sound(WriterGone(unit[u]), FALSE)
    <3>1. Counted(WriterGone(unit[u]), WritersOf(u) \ {c}, Busy(u))
      BY <2>3, <2>4, GoneCounted
    <3>2. Sound(WriterGone(unit[u]), FALSE)
      BY <2>4, WritersSound
    <3> QED BY <2>3, <3>1, <3>2
  <2>6. Counted(Touched(WriterGone(unit[u])), WritersOf(u)', Busy(u)')
    BY <2>1, <2>4, <2>5, TouchCounted
  <2> QED BY <1>1, <2>1, <2>2, <2>6, CountOne
<1>8. OpenInv'
  <2>1. ASSUME NEW d \in Clients, req'[d].pc # "idle" PROVE Kept(d)
    <3>1. d # c /\ req'[d] = req[d]
      BY <1>1, <2>1 DEF StoreType, Idle
    <3>2. req[d].unit \in Units /\ req[d].member \in AllMembers
      BY <2>1, <3>1 DEF StoreType, ReqType
    <3> QED BY <1>3, <1>5, <2>1, <3>1, <3>2 DEF Kept
  <2> QED BY <2>1, OpenKept
<1> QED BY <1>6, <1>7, <1>8

\* A client step that touches unit w and keeps every open file.
LEMMA CalmTouch ==
    ASSUME CalmInv, NEW w \in Units, UNCHANGED <<req, pack, loop, due>>,
           unit' = [unit EXCEPT ![w] = Touched(@)],
           \A d \in Clients : req[d].pc # "idle" => Kept(d)
    PROVE  CountInv' /\ OpenInv'
<1> USE DEF CalmInv, TypeInv
<1>1. \A v \in Units : WritersOf(v)' = WritersOf(v) /\ Busy(v)' = Busy(v)
  BY BusySame DEF WritersOf
<1>2. CountInv'
  BY <1>1, CountTouch
<1>3. OpenInv'
  BY OpenAll
<1> QED BY <1>2, <1>3

\* The place of a client that is not idle.
LEMMA OpenPlace ==
    ASSUME CalmInv, NEW d \in Clients, req[d].pc # "idle"
    PROVE  /\ req[d].unit \in Units /\ req[d].member \in AllMembers
           /\ tree[req[d].unit][req[d].member] # Absent
           /\ there[req[d].unit]
<1>1. /\ req[d].unit \in Units /\ req[d].member \in AllMembers
      /\ req[d].pc \in {"writing", "reading"}
  BY DEF CalmInv, TypeInv, StoreType, ReqType
<1>2. tree[req[d].unit][req[d].member] # Absent
  BY <1>1, Basics DEF CalmInv, OpenInv, Opened
<1> QED BY <1>1, <1>2 DEF CalmInv, PlaceInv

\* MKCOL.
LEMMA CalmMkdir ==
    ASSUME CalmInv, NEW u \in Units, Mkdir(u)
    PROVE  PlaceInv' /\ CountInv' /\ OpenInv'
<1> USE DEF CalmInv, TypeInv
<1>1. PlaceInv'
  BY DEF Mkdir, PlaceInv, StoreType
<1>2. \A d \in Clients : req[d].pc # "idle" => Kept(d)
  BY DEF Mkdir, Kept
<1>3. /\ unit' = [unit EXCEPT ![u] = Touched(@)]
      /\ UNCHANGED <<req, pack, loop, due>>
  BY DEF Mkdir
<1> QED BY <1>1, <1>2, <1>3, CalmTouch

\* DELETE of a file that nobody has open.
LEMMA CalmDelete ==
    ASSUME CalmInv, NEW u \in Units, NEW m \in AllMembers, Delete(u, m)
    PROVE  PlaceInv' /\ CountInv' /\ OpenInv'
<1> USE DEF CalmInv, TypeInv
<1>1. /\ unit' = [unit EXCEPT ![u] = Touched(@)]
      /\ UNCHANGED <<req, pack, loop, due>>
  BY DEF Delete
<1>2. \A w \in Units, k \in AllMembers :
        /\ tree'[w][k] = IF w = u /\ k = m /\ ~Held(u, m) THEN Absent ELSE tree[w][k]
        /\ acked'[w][k] = IF w = u /\ k = m THEN Absent ELSE acked[w][k]
        /\ there'[w] = IF w = u THEN u \in Folders \/ Held(u, m) ELSE there[w]
  <2>1. /\ tree \in [Units -> Zips] /\ acked \in [Units -> Zips]
        /\ there \in [Units -> BOOLEAN]
    BY DEF StoreType
  <2> QED BY <2>1 DEF Delete, Zips
<1>3. PlaceInv'
  <2> SUFFICES ASSUME NEW w \in Units, NEW k \in AllMembers, tree'[w][k] # Absent
               PROVE  there'[w] /\ k \in Members(w)
    BY DEF PlaceInv
  <2>1. tree[w][k] # Absent /\ there[w] /\ k \in Members(w)
    BY <1>2 DEF PlaceInv
  <2>2. CASE w # u \/ u \in Folders
    BY <1>2, <2>1, <2>2
  <2>3. CASE w = u /\ u \notin Folders
    <3>1. k = m
      <4>1. m \in Members(u)
        BY DEF Delete, PlaceInv
      <4> QED BY <2>1, <2>3, <4>1 DEF Members
    <3> QED BY <1>2, <2>1, <2>3, <3>1
  <2> QED BY <2>2, <2>3
<1>4. ASSUME NEW d \in Clients, req[d].pc # "idle" PROVE Kept(d)
  <2>1. CASE Held(u, m)
    BY <1>1, <1>2, <1>4, <2>1, OpenPlace DEF Kept
  <2>2. CASE ~Held(u, m)
    <3>1. req[d].unit # u \/ req[d].member # m
      BY <2>2, NotOpen DEF Held
    <3> QED BY <1>1, <1>2, <1>4, <3>1, OpenPlace DEF Kept
  <2> QED BY <2>1, <2>2
<1> QED BY <1>1, <1>3, <1>4, CalmTouch

\* What an unlink of all that is not open leaves.
LEMMA LeftoverAt ==
    ASSUME NEW u \in Units, NEW k \in AllMembers
    PROVE  /\ Leftover(u)[k] = IF Held(u, k) THEN tree[u][k] ELSE Absent
           /\ Leftover(u)[k] # Absent => Leftover(u) # Empty
BY DEF Leftover, Empty

\* DELETE of a folder keeps what is open.
LEMMA CalmDeleteFolder ==
    ASSUME CalmInv, NEW u \in Units, DeleteFolder(u)
    PROVE  PlaceInv' /\ CountInv' /\ OpenInv'
<1> USE DEF CalmInv, TypeInv
<1>1. /\ unit' = [unit EXCEPT ![u] = Touched(@)]
      /\ UNCHANGED <<req, pack, loop, due>>
  BY DEF DeleteFolder
<1>2. \A w \in Units, k \in AllMembers :
        /\ tree'[w][k] = IF w = u THEN Leftover(u)[k] ELSE tree[w][k]
        /\ acked'[w][k] = IF w = u THEN Absent ELSE acked[w][k]
        /\ there'[w] = IF w = u THEN Leftover(u) # Empty ELSE there[w]
  BY DEF DeleteFolder, StoreType, Empty
<1>3. PlaceInv'
  <2> SUFFICES ASSUME NEW w \in Units, NEW k \in AllMembers, tree'[w][k] # Absent
               PROVE  there'[w] /\ k \in Members(w)
    BY DEF PlaceInv
  <2>1. CASE w = u
    <3>1. Leftover(u)[k] # Absent /\ Leftover(u)[k] = tree[u][k]
      BY <1>2, <2>1, LeftoverAt
    <3> QED BY <1>2, <2>1, <3>1, LeftoverAt DEF PlaceInv
  <2>2. CASE w # u
    BY <1>2, <2>2 DEF PlaceInv
  <2> QED BY <2>1, <2>2
<1>4. ASSUME NEW d \in Clients, req[d].pc # "idle" PROVE Kept(d)
  <2>1. Held(req[d].unit, req[d].member)
    BY DEF Held, Open
  <2> QED BY <1>1, <1>2, <1>4, <2>1, OpenPlace, LeftoverAt DEF Kept
<1> QED BY <1>1, <1>3, <1>4, CalmTouch

\* What a COPY or MOVE of a file leaves at every place.
Copied(u, m, w, n, isMove) ==
    \A x \in Units, k \in AllMembers :
        /\ tree'[x][k] = IF isMove /\ x = u /\ k = m THEN Absent
                         ELSE IF x = w /\ k = n THEN tree[u][m] ELSE tree[x][k]
        /\ acked'[x][k] = IF isMove /\ x = u /\ k = m THEN Absent
                          ELSE IF x = w /\ k = n THEN acked[u][m] ELSE acked[x][k]
        /\ there'[x] = IF x = u THEN u = w \/ u \in Folders \/ ~isMove
                       ELSE IF x = w THEN TRUE ELSE there[x]

\* CopyMove does that.
LEMMA CopyAt ==
    ASSUME StoreType, NEW u \in Units, NEW w \in Units, NEW m \in AllMembers,
           NEW n \in AllMembers, NEW isMove \in BOOLEAN, CopyMove(u, m, w, n, isMove)
    PROVE  Copied(u, m, w, n, isMove)
<1> DEFINE copied == [tree EXCEPT ![w][n] = tree[u][m]]
           told == [acked EXCEPT ![w][n] = acked[u][m]]
<1>1. /\ tree \in [Units -> Zips] /\ acked \in [Units -> Zips]
      /\ there \in [Units -> BOOLEAN]
      /\ tree[u][m] \in Bytes /\ acked[u][m] \in Bytes
  BY DEF StoreType, Zips
<1>2. copied \in [Units -> Zips] /\ told \in [Units -> Zips]
  BY <1>1, PutZip
<1>3. \A x \in Units, k \in AllMembers :
         copied[x][k] = IF x = w /\ k = n THEN tree[u][m] ELSE tree[x][k]
  BY <1>1 DEF Zips
<1>4. \A x \in Units, k \in AllMembers :
         told[x][k] = IF x = w /\ k = n THEN acked[u][m] ELSE acked[x][k]
  BY <1>1 DEF Zips
<1>5. /\ tree' = IF isMove THEN [copied EXCEPT ![u][m] = Absent] ELSE copied
      /\ acked' = IF isMove THEN [told EXCEPT ![u][m] = Absent] ELSE told
  BY DEF CopyMove
<1>6. \A x \in Units :
         there'[x] = IF x = u THEN u = w \/ u \in Folders \/ ~isMove
                     ELSE IF x = w THEN TRUE ELSE there[x]
  BY <1>1 DEF CopyMove
<1> HIDE DEF copied, told
<1>7. ASSUME NEW x \in Units, NEW k \in AllMembers
      PROVE  /\ tree'[x][k] = IF isMove /\ x = u /\ k = m THEN Absent ELSE copied[x][k]
             /\ acked'[x][k] = IF isMove /\ x = u /\ k = m THEN Absent ELSE told[x][k]
  <2>1. CASE isMove
    BY <1>2, <1>5, <2>1 DEF Zips
  <2>2. CASE ~isMove
    BY <1>5, <2>2
  <2> QED BY <2>1, <2>2
<1>8. ASSUME NEW x \in Units, NEW k \in AllMembers
      PROVE  /\ tree'[x][k] = IF isMove /\ x = u /\ k = m THEN Absent
                              ELSE IF x = w /\ k = n THEN tree[u][m] ELSE tree[x][k]
             /\ acked'[x][k] = IF isMove /\ x = u /\ k = m THEN Absent
                               ELSE IF x = w /\ k = n THEN acked[u][m] ELSE acked[x][k]
  BY <1>3, <1>4, <1>7
<1> QED BY <1>6, <1>8 DEF Copied

\* COPY and MOVE: neither end of the copy is open.
LEMMA CalmCopy ==
    ASSUME CalmInv, NEW u \in Units, NEW w \in Units, NEW m \in AllMembers,
           NEW n \in AllMembers, NEW isMove \in BOOLEAN, CopyMove(u, m, w, n, isMove)
    PROVE  PlaceInv' /\ CountInv' /\ OpenInv'
<1> USE DEF CalmInv, TypeInv
<1>0. Copied(u, m, w, n, isMove)
  BY CopyAt
<1>1. /\ unit' = [unit EXCEPT ![w] = Touched(@)]
      /\ UNCHANGED <<req, pack, loop, due>>
      /\ <<u, m>> # <<w, n>> /\ tree[u][m] # Absent
      /\ n \in Members(w) /\ ~Held(w, n) /\ (isMove => ~Held(u, m))
  BY DEF CopyMove
<1>2. m \in Members(u)
  BY <1>1 DEF PlaceInv
<1>3. PlaceInv'
  <2> SUFFICES ASSUME NEW x \in Units, NEW k \in AllMembers, tree'[x][k] # Absent
               PROVE  there'[x] /\ k \in Members(x)
    BY DEF PlaceInv
  <2>1. CASE x = w /\ k = n
    BY <1>1, <2>1, <1>0 DEF Copied
  <2>2. CASE ~(x = w /\ k = n)
    <3>0. tree'[x][k] = IF isMove /\ x = u /\ k = m THEN Absent ELSE tree[x][k]
      BY <2>2, <1>0 DEF Copied
    <3>1. tree[x][k] # Absent /\ there[x] /\ k \in Members(x)
          /\ ~(isMove /\ x = u /\ k = m)
      BY <3>0 DEF PlaceInv
    <3>2. CASE x # u
      BY <3>1, <3>2, <1>0 DEF Copied
    <3>3. CASE x = u /\ k # m
      <4>1. u \in Folders
        BY <1>2, <3>1, <3>3 DEF Members
      <4> QED BY <3>1, <3>3, <4>1, <1>0 DEF Copied
    <3>4. CASE x = u /\ k = m
      BY <3>1, <3>4, <1>0 DEF Copied
    <3> QED BY <3>2, <3>3, <3>4
  <2> QED BY <2>1, <2>2
<1>4. ASSUME NEW d \in Clients, req[d].pc # "idle" PROVE Kept(d)
  <2>1. /\ req[d].unit # w \/ req[d].member # n
        /\ isMove => req[d].unit # u \/ req[d].member # m
    BY <1>1, NotOpen DEF Held
  <2>2. req[d].unit \in Units /\ req[d].member \in AllMembers
    BY <1>4, OpenPlace
  <2> DEFINE x == req[d].unit
             k == req[d].member
  <2>3. ~(x = w /\ k = n) /\ ~(isMove /\ x = u /\ k = m)
    BY <2>1
  <2> HIDE DEF x, k
  <2>4. tree'[x][k] = tree[x][k] /\ acked'[x][k] = acked[x][k]
    <3>1. x \in Units /\ k \in AllMembers
      BY <2>2 DEF x, k
    <3> QED BY <1>0, <2>3, <3>1 DEF Copied
  <2> QED BY <1>1, <2>4 DEF Kept, x, k
<1> QED BY <1>1, <1>3, <1>4, CalmTouch

\* What a MOVE of a folder leaves at every place.
Moved(u, w) ==
    /\ u # w
    /\ \A x \in Units, k \in AllMembers :
        /\ tree'[x][k] = IF x = u THEN Absent
                         ELSE IF x = w THEN tree[u][k] ELSE tree[x][k]
        /\ acked'[x][k] = IF x = u
                          THEN IF tree[u][k] = Absent THEN acked[u][k] ELSE Absent
                          ELSE IF x = w
                          THEN IF tree[u][k] = Absent THEN acked[w][k] ELSE acked[u][k]
                          ELSE acked[x][k]
        /\ there'[x] = IF x = u THEN FALSE ELSE IF x = w THEN TRUE ELSE there[x]

\* MoveFolder does that.
LEMMA MoveAt ==
    ASSUME StoreType, NEW u \in Units, NEW w \in Units, MoveFolder(u, w)
    PROVE  Moved(u, w)
<1>1. u # w
  BY DEF MoveFolder
<1>2. /\ tree \in [Units -> Zips] /\ acked \in [Units -> Zips]
      /\ there \in [Units -> BOOLEAN]
  BY DEF StoreType
<1>3. ASSUME NEW x \in Units
      PROVE  /\ tree'[x] = IF x = u THEN Empty ELSE IF x = w THEN tree[u] ELSE tree[x]
             /\ there'[x] = IF x = u THEN FALSE ELSE IF x = w THEN TRUE ELSE there[x]
  BY <1>1, <1>2 DEF MoveFolder
<1>4. ASSUME NEW x \in Units, NEW k \in AllMembers
      PROVE  acked'[x][k] = IF x = u
                            THEN IF tree[u][k] = Absent THEN acked[u][k] ELSE Absent
                            ELSE IF x = w
                            THEN IF tree[u][k] = Absent THEN acked[w][k] ELSE acked[u][k]
                            ELSE acked[x][k]
  BY <1>1, <1>2 DEF MoveFolder
<1> QED BY <1>1, <1>3, <1>4 DEF Moved, Empty

\* MOVE of a folder: nobody has a file of it open, and none of the new name.
LEMMA CalmMove ==
    ASSUME CalmInv, NEW u \in Units, NEW w \in Units, MoveFolder(u, w)
    PROVE  PlaceInv' /\ CountInv' /\ OpenInv'
<1> USE DEF CalmInv, TypeInv
<1>0. Moved(u, w)
  BY MoveAt
<1>1. /\ unit' = [unit EXCEPT ![w] = Touched(@)]
      /\ UNCHANGED <<req, pack, loop, due>>
      /\ u \in Folders /\ w \in Folders /\ ~there[w]
      /\ \A m \in AllMembers : Open(u, m) = {}
  BY DEF MoveFolder
<1>2. PlaceInv'
  <2> SUFFICES ASSUME NEW x \in Units, NEW k \in AllMembers, tree'[x][k] # Absent
               PROVE  there'[x] /\ k \in Members(x)
    BY DEF PlaceInv
  <2>1. x # u
    BY <1>0 DEF Moved
  <2>2. CASE x = w
    BY <1>0, <1>1, <2>2 DEF Moved, Members, AllMembers
  <2>3. CASE x # w
    BY <1>0, <2>1, <2>3 DEF Moved, PlaceInv
  <2> QED BY <2>2, <2>3
<1>3. ASSUME NEW d \in Clients, req[d].pc # "idle" PROVE Kept(d)
  <2>1. req[d].unit # w /\ req[d].unit # u
    BY <1>1, <1>3, OpenPlace, NotOpen
  <2>2. req[d].unit \in Units /\ req[d].member \in AllMembers
    BY <1>3, OpenPlace
  <2> QED BY <1>0, <1>1, <2>1, <2>2 DEF Kept, Moved
<1> QED BY <1>1, <1>2, <1>3, CalmTouch

\* The loop leaves the count of a unit alone.
Counting ==
    \A v \in Units :
        /\ unit'[v].writers = unit[v].writers
        /\ unit'[v].state = "none" => unit[v].state = "none"

\* A change of state, and a failure, leave the count alone.
LEMMA StateCounting ==
    ASSUME RecordInv, NEW u \in Units,
           \/ \E s \in States \ {"none"} : SetState(u, s)
           \/ RecordFailure(u)
    PROVE  Counting
<1>1. ASSUME NEW s \in States \ {"none"}, SetState(u, s) PROVE Counting
  <2>1. CASE unit' = unit
    BY <2>1 DEF Counting
  <2>2. CASE unit' = [unit EXCEPT ![u] = [unit[u] EXCEPT !.state = s]]
    BY <2>2 DEF Counting, RecordInv, UnitType
  <2> QED BY <1>1, <2>1, <2>2 DEF SetState
<1>2. CASE RecordFailure(u)
  <2> DEFINE n == unit[u].attempts + 1
             t == IF n >= MaxAttempts THEN "abandoned" ELSE "failed"
             r == [unit[u] EXCEPT !.attempts = n, !.state = t]
  <2>1. unit' = [unit EXCEPT ![u] = r]
    BY <1>2 DEF RecordFailure
  <2>2. t # "none"
    OBVIOUS
  <2> HIDE DEF n, t
  <2>3. r.writers = unit[u].writers /\ r.state = t
    BY DEF RecordInv, UnitType
  <2> HIDE DEF r
  <2> QED BY <2>1, <2>2, <2>3 DEF Counting, RecordInv
<1> QED BY <1>1, <1>2

\* A step of the loop that leaves the directory alone.
LEMMA CalmLoop ==
    ASSUME CalmInv, UNCHANGED <<tree, there, req, acked>>,
           \A v \in Units :
              /\ Busy(v)' => Busy(v) \/ WritersOf(v) = {}
              /\ \/ /\ unit'[v].writers = unit[v].writers
                    /\ unit'[v].state = "none" => unit[v].state = "none"
                 \/ WritersOf(v) = {} /\ unit'[v].writers = 0
    PROVE  PlaceInv' /\ CountInv' /\ OpenInv'
<1> USE DEF CalmInv, TypeInv
<1>1. CountInv'
  BY CountLoop
<1>2. PlaceInv' /\ OpenInv'
  BY DEF PlaceInv, OpenInv
<1> QED BY <1>1, <1>2

\* The steps of the loop that leave the directory and the clients alone.
LEMMA CalmWork ==
    ASSUME CalmInv,
           \/ \E u \in Units : TakeFile(u) \/ ReusePack(u) \/ PackStart(u)
           \/ PackMember \/ PackDone \/ Uploaded
           \/ PackFails \/ UploadFails \/ ClearRaises
    PROVE  PlaceInv' /\ CountInv' /\ OpenInv'
<1> USE DEF CalmInv, TypeInv
<1>1. ASSUME NEW u \in Units, TakeFile(u) \/ ReusePack(u) \/ PackStart(u)
      PROVE  /\ UNCHANGED <<tree, there, req, acked>> /\ Counting
             /\ \A v \in Units : Busy(v)' => Busy(v)
  <2>1. \A v \in Units : Busy(v)' => Busy(v)
    <3>1. /\ u \in due /\ due' = due \ {u} /\ loop'.unit = u
          /\ \A v \in Units : v # u => pack'[v] = pack[v]
      BY <1>1 DEF TakeFile, ReusePack, PackStart, Send, At, WorkType
    <3> QED BY <3>1 DEF Busy
  <2>2. CASE TakeFile(u) \/ ReusePack(u)
    BY <2>1, <2>2, StateCounting DEF TakeFile, ReusePack, Send, local, States
  <2>3. CASE PackStart(u)
    BY <2>1, <2>3 DEF PackStart, local, Counting
  <2> QED BY <1>1, <2>2, <2>3
<1>2. ASSUME PackMember \/ PackDone \/ Uploaded
      PROVE  /\ UNCHANGED <<tree, there, req, acked>> /\ Counting
             /\ \A v \in Units : Busy(v)' => Busy(v)
  <2>0. PICK u \in Units : u = loop.unit
    BY <1>2 DEF PackMember, PackDone, Uploaded, WorkType
  <2>1. \A v \in Units : Busy(v)' => Busy(v)
    <3>1. due' = due /\ loop'.unit = u /\ \A v \in Units : v # u => pack'[v] = pack[v]
      <4>1. CASE PackMember
        BY <2>0, <4>1 DEF PackMember, WorkType, LoopType
      <4>2. CASE PackDone \/ Uploaded
        BY <2>0, <4>2 DEF PackDone, Uploaded, Send, At, WorkType, LoopType
      <4> QED BY <1>2, <4>1, <4>2
    <3> QED BY <2>0, <3>1 DEF Busy
  <2>2. CASE PackMember
    BY <2>1, <2>2 DEF PackMember, local, Counting
  <2>3. CASE PackDone
    BY <2>0, <2>1, <2>3, StateCounting DEF PackDone, Send, local, States
  <2>4. CASE Uploaded
    BY <2>0, <2>1, <2>4, StateCounting DEF Uploaded, local, States
  <2> QED BY <1>2, <2>2, <2>3, <2>4
<1>3. ASSUME PackFails \/ UploadFails \/ ClearRaises
      PROVE  /\ UNCHANGED <<tree, there, req, acked>> /\ Counting
             /\ \A v \in Units : Busy(v)' => Busy(v)
  <2>0. PICK u \in Units : u = loop.unit
    BY <1>3 DEF PackFails, UploadFails, ClearRaises, WorkType
  <2>1. \A v \in Units : Busy(v)' => Busy(v)
    <3>1. /\ due' = due /\ loop' = Rest /\ \A v \in Units : v # u => pack'[v] = pack[v]
      BY <1>3, <2>0 DEF PackFails, UploadFails, ClearRaises, WorkType
    <3> QED BY <2>0, <3>1, Basics DEF Busy, Rest
  <2>2. UNCHANGED <<tree, there, req, acked>> /\ RecordFailure(u)
    BY <1>3, <2>0 DEF PackFails, UploadFails, ClearRaises, local
  <2> QED BY <2>1, <2>2, StateCounting
<1>4. /\ UNCHANGED <<tree, there, req, acked>> /\ Counting
      /\ \A v \in Units : Busy(v)' => Busy(v)
  BY <1>1, <1>2, <1>3
<1> QED BY <1>4, CalmLoop DEF Counting

\* The loop deletes what is not open.
LEMMA CalmClear == ASSUME CalmInv, Clear PROVE PlaceInv' /\ CountInv' /\ OpenInv'
<1> USE DEF CalmInv, TypeInv
<1>0. PICK u \in Units : u = loop.unit
  BY DEF Clear, WorkType
<1>1. /\ UNCHANGED <<unit, pack, req, due, acked>>
      /\ loop'.unit = loop.unit
      /\ \A w \in Units, k \in AllMembers :
            /\ tree'[w][k] = IF w = u THEN Leftover(u)[k] ELSE tree[w][k]
            /\ there'[w] = IF w = u THEN Leftover(u) # Empty ELSE there[w]
  BY <1>0 DEF Clear, StoreType, WorkType, LoopType
<1>2. PlaceInv'
  <2> SUFFICES ASSUME NEW w \in Units, NEW k \in AllMembers, tree'[w][k] # Absent
               PROVE  there'[w] /\ k \in Members(w)
    BY DEF PlaceInv
  <2>1. CASE w = u
    <3>1. Leftover(u)[k] # Absent /\ Leftover(u)[k] = tree[u][k]
      BY <1>1, <2>1, LeftoverAt
    <3> QED BY <1>1, <2>1, <3>1, LeftoverAt DEF PlaceInv
  <2>2. CASE w # u
    BY <1>1, <2>2 DEF PlaceInv
  <2> QED BY <2>1, <2>2
<1>3. CountInv'
  BY <1>1, CountLoop DEF Busy
<1>4. ASSUME NEW d \in Clients, req[d].pc # "idle" PROVE Kept(d)
  <2>1. Held(req[d].unit, req[d].member)
    BY DEF Held, Open
  <2> QED BY <1>1, <1>4, <2>1, OpenPlace, LeftoverAt DEF Kept
<1>5. OpenInv'
  BY <1>1, <1>4, OpenAll
<1> QED BY <1>2, <1>3, <1>5

\* The record is popped; the unit has no writers, since it is busy.
LEMMA CalmFinish == ASSUME CalmInv, Finish PROVE PlaceInv' /\ CountInv' /\ OpenInv'
<1> USE DEF CalmInv, TypeInv
<1>0. PICK u \in Units : u = loop.unit
  BY DEF Finish, WorkType
<1>1. /\ UNCHANGED <<tree, there, req, acked>>
      /\ due' = due /\ loop'.unit = NoUnit
      /\ \A v \in Units :
            /\ v # u => pack'[v] = pack[v] /\ unit'[v] = unit[v]
            /\ v = u => unit'[v].writers = 0
  BY <1>0 DEF Finish, local, Rest, NoRecord, RecordInv, WorkType
<1>2. \A v \in Units : Busy(v)' => Busy(v)
  BY <1>0, <1>1, Basics DEF Busy
<1>3. WritersOf(u) = {}
  BY <1>0 DEF CountInv, Counted, Busy
<1> QED BY <1>1, <1>2, <1>3, CalmLoop

\* What _due returns has no writers; what it forgets is gone, so has none
\* either.
LEMMA CalmDue ==
    ASSUME Calm, CalmInv, NEW ready \in SUBSET Units, Due(ready)
    PROVE  PlaceInv' /\ CountInv' /\ OpenInv'
<1> USE DEF CalmInv, TypeInv
<1>1. /\ UNCHANGED <<tree, there, req, acked>>
      /\ UNCHANGED <<pack, loop>> /\ due' = ready
  BY DEF Due, local
<1>2. ASSUME NEW v \in ready PROVE WritersOf(v) = {}
  <2>1. unit[v].writers = 0
    BY DEF Calm, Due, Eligible
  <2> QED BY <2>1, NobodyWrites DEF CountInv, Counted
<1>3. ASSUME NEW v \in Units PROVE Busy(v)' => Busy(v) \/ WritersOf(v) = {}
  BY <1>1, <1>2 DEF Busy
<1>4. ASSUME NEW v \in Units
      PROVE  \/ /\ unit'[v].writers = unit[v].writers
                /\ unit'[v].state = "none" => unit[v].state = "none"
             \/ WritersOf(v) = {} /\ unit'[v].writers = 0
  <2>1. CASE v \in ready
    BY <2>1 DEF Due, RecordInv, UnitType
  <2>2. CASE v \notin ready /\ ~there[v] /\ unit[v].state # "uploading"
    <3>1. WritersOf(v) = {}
      BY <2>2, OpenPlace DEF WritersOf
    <3>2. unit'[v] = NoRecord
      BY <2>2 DEF Due
    <3> QED BY <3>1, <3>2 DEF NoRecord
  <2>3. CASE v \notin ready /\ there[v] /\ unit[v].state = "none"
    <3>1. WritersOf(v) = {}
      BY <2>3 DEF CountInv, Counted
    <3>2. unit'[v] = Fresh
      BY <2>3 DEF Due
    <3> QED BY <3>1, <3>2 DEF Fresh, NoRecord
  <2>4. CASE v \notin ready /\ unit'[v] = unit[v]
    BY <2>4
  <2> QED BY <2>1, <2>2, <2>3, <2>4 DEF Due
<1> QED BY <1>1, <1>3, <1>4, CalmLoop

\* A restart ends every request.
LEMMA CalmCrash == ASSUME CalmInv, CrashRestart PROVE PlaceInv' /\ CountInv' /\ OpenInv'
<1> USE DEF CalmInv, TypeInv
<1>1. PlaceInv'
  BY DEF CrashRestart, PlaceInv
<1>2. \A c \in Clients : req'[c].pc = "idle"
  BY DEF CrashRestart, Idle
<1>3. OpenInv'
  BY <1>2, OpenKept
<1>4. CountInv'
  <2> SUFFICES ASSUME NEW v \in Units PROVE Counted(unit'[v], WritersOf(v)', Busy(v)')
    BY DEF CountInv
  <2>1. WritersOf(v)' = {}
    BY <1>2 DEF WritersOf
  <2>2. unit'[v].writers = 0
    BY DEF CrashRestart, Fresh, NoRecord
  <2> QED BY <2>1, <2>2, NobodyWrites DEF Counted
<1> QED BY <1>1, <1>3, <1>4

\* Nobody writes at first.
LEMMA CalmInit == Init => CalmInv
<1> SUFFICES ASSUME Init PROVE CalmInv
  OBVIOUS
<1>1. PlaceInv
  BY DEF Init, PlaceInv, Empty
<1>2. OpenInv
  BY DEF Init, OpenInv, Opened, Idle
<1>3. CountInv
  <2> SUFFICES ASSUME NEW v \in Units PROVE Counted(unit[v], WritersOf(v), Busy(v))
    BY DEF CountInv
  <2>1. WritersOf(v) = {} /\ unit[v].writers = 0
    BY DEF Init, WritersOf, Idle, NoRecord
  <2> QED BY <2>1, NobodyWrites DEF Counted
<1> QED BY <1>1, <1>2, <1>3, TypeInit DEF CalmInv

\* Every step keeps the calm system calm.
LEMMA CalmStep == Calm /\ CalmInv /\ [Next]_vars => CalmInv'
<1> SUFFICES ASSUME Calm, CalmInv, [Next]_vars
             PROVE  PlaceInv' /\ CountInv' /\ OpenInv'
  BY TypeStep DEF CalmInv
<1>1. ASSUME NEW c \in Clients, Serve(c) PROVE PlaceInv' /\ CountInv' /\ OpenInv'
  BY <1>1, CalmPut, CalmGet, CalmGetEnd, CalmEnd DEF Serve
<1>2. ASSUME NEW u \in Units, Manage(u) PROVE PlaceInv' /\ CountInv' /\ OpenInv'
  <2>1. CASE \E w \in Units : MoveFolder(u, w)
    BY <2>1, CalmMove
  <2>2. CASE \E w \in Units, m, n \in AllMembers, isMove \in BOOLEAN :
                CopyMove(u, m, w, n, isMove)
    BY <2>2, CalmCopy
  <2> QED BY <1>2, <2>1, <2>2, CalmMkdir, CalmDelete, CalmDeleteFolder DEF Manage
<1>3. CASE Process
  BY <1>3, CalmWork, CalmClear, CalmFinish DEF Process
<1>4. CASE UNCHANGED vars
  <2>1. /\ UNCHANGED <<tree, there, req, acked, unit>>
        /\ \A v \in Units : Busy(v)' = Busy(v)
    BY <1>4 DEF vars, Busy
  <2> QED BY <2>1, CalmLoop
<1> QED BY <1>1, <1>2, <1>3, <1>4, CalmWork, CalmDue, CalmCrash DEF Next

-----------------------------------------------------------------------------
(* Truncated members *)

\* Only a PUT that is under way leaves a truncated file.
WrittenInv ==
    \A u \in Units, m \in AllMembers :
        tree[u][m] = Partial =>
            \E c \in Clients : /\ req[c].pc = "writing"
                               /\ req[c].unit = u /\ req[c].member = m

\* None of the members is truncated.
Whole(zip) == \A m \in AllMembers : zip[m] # Partial

\* No pack holds one, nor what the loop packs or sends.
ZipInv ==
    /\ \A u \in Units : Whole(pack[u].zip)
    /\ Whole(loop.zip)
    /\ \A u \in Units : \A zip \in archives[u] : Whole(zip)

\* What holds of the truncated files.
WholeInv == CalmInv /\ WrittenInv /\ ZipInv

\* What the loop has in hand is not being written.
LEMMA BusyWhole ==
    ASSUME WholeInv, NEW u \in Units, Busy(u)
    PROVE  Whole(tree[u])
<1>1. WritersOf(u) = {}
  BY DEF WholeInv, CalmInv, CountInv, Counted
<1> QED BY <1>1 DEF WritersOf, Whole, WholeInv, WrittenInv

\* A step that truncates nothing, and ends no PUT of a truncated file.
LEMMA WrittenKept ==
    ASSUME WrittenInv,
           \A u \in Units, m \in AllMembers :
              tree'[u][m] = Partial =>
                 /\ tree[u][m] = Partial
                 /\ \A c \in Clients :
                       /\ req[c].pc = "writing"
                       /\ req[c].unit = u /\ req[c].member = m
                       => req'[c] = req[c]
    PROVE  WrittenInv'
BY DEF WrittenInv

\* The end of a PUT leaves a whole file, or none.
LEMMA WrittenServe ==
    ASSUME Calm, WholeInv, NEW c \in Clients, Serve(c)
    PROVE  WrittenInv'
<1> USE DEF WholeInv, CalmInv, TypeInv
<1>1. ASSUME NEW u \in Units, NEW m \in AllMembers, PutBegin(c, u, m)
      PROVE  WrittenInv'
  <2>1. \A w \in Units, k \in AllMembers :
          tree'[w][k] = IF w = u /\ k = m THEN Partial ELSE tree[w][k]
    BY <1>1 DEF PutBegin, StoreType, Zips
  <2>2. /\ req[c].pc = "idle"
        /\ req' = [req EXCEPT ![c] = [pc |-> "writing", unit |-> u, member |-> m]]
    BY <1>1 DEF PutBegin
  <2> QED BY <2>1, <2>2 DEF WrittenInv, StoreType
<1>2. ASSUME NEW u \in Units, NEW m \in AllMembers, GetBegin(c, u, m)
      PROVE  WrittenInv'
  BY <1>2, WrittenKept DEF GetBegin, StoreType
<1>3. CASE GetEnd(c)
  BY <1>3, WrittenKept DEF GetEnd, StoreType
<1>4. CASE PutFail(c) \/ \E v \in Contents : PutEnd(c, v)
  <2>0. PICK u \in Units, m \in AllMembers :
          u = req[c].unit /\ m = req[c].member
    BY <1>4 DEF PutFail, PutEnd, StoreType, ReqType
  <2>1. req[c].pc = "writing" /\ \A d \in Clients : d # c => req'[d] = req[d]
    BY <1>4 DEF PutFail, PutEnd, StoreType
  <2>2. CASE PutFail(c)
    <3>1. tree[u][m] = Partial /\ \A d \in Open(u, m) : d = c
      <4>1. tree[u][m] = Partial
        BY <2>0, <2>1 DEF OpenInv, Opened
      <4>2. ASSUME NEW d \in Open(u, m) PROVE d = c
        <5>1. /\ d \in Clients /\ req[d].unit = u /\ req[d].member = m
              /\ req[d].pc \in {"writing", "reading"}
          BY <4>2, Basics DEF Open, StoreType, ReqType
        <5>2. req[d].pc # "reading"
          BY <4>1, <5>1 DEF OpenInv, Opened
        <5> QED BY <2>0, <2>1, <5>1, <5>2 DEF OpenInv
      <4> QED BY <4>1, <4>2
    <3>2. Open(u, m) = {c}
      BY <2>0, <3>1 DEF Open
    <3>3. ~(loop.pc = "sending" /\ loop.unit = u)
      <4>1. c \in WritersOf(u)
        BY <2>0, <2>1 DEF WritersOf
      <4> QED BY <4>1 DEF CountInv, Counted, Busy
    <3>4. tree' = [tree EXCEPT ![u][m] = Absent]
      BY <2>0, <2>2, <3>2, <3>3 DEF PutFail
    <3>5. \A w \in Units, k \in AllMembers :
            tree'[w][k] = IF w = u /\ k = m THEN Absent ELSE tree[w][k]
      BY <3>4 DEF StoreType, Zips
    <3> QED BY <2>0, <2>1, <3>5, Basics, WrittenKept
  <2>3. ASSUME NEW v \in Contents, PutEnd(c, v) PROVE WrittenInv'
    <3>1. tree' = [tree EXCEPT ![u][m] = v] /\ v # Partial
      BY <2>0, <2>3, Basics DEF PutEnd
    <3>2. \A w \in Units, k \in AllMembers :
            tree'[w][k] = IF w = u /\ k = m THEN v ELSE tree[w][k]
      BY <3>1 DEF StoreType, Zips
    <3> QED BY <2>0, <2>1, <3>1, <3>2, WrittenKept
  <2> QED BY <1>4, <2>2, <2>3
<1> QED BY <1>1, <1>2, <1>3, <1>4 DEF Serve

\* What is copied or moved is whole.
LEMMA WrittenManage ==
    ASSUME Calm, WholeInv, NEW u \in Units, Manage(u)
    PROVE  WrittenInv'
<1> USE DEF WholeInv, CalmInv, TypeInv
<1>1. CASE Mkdir(u)
  BY <1>1, WrittenKept DEF Mkdir
<1>2. CASE DeleteFolder(u)
  <2>1. /\ req' = req
        /\ \A w \in Units, k \in AllMembers :
              tree'[w][k] = IF w = u THEN Leftover(u)[k] ELSE tree[w][k]
    BY <1>2 DEF DeleteFolder, StoreType
  <2> QED BY <2>1, LeftoverAt, Basics, WrittenKept
<1>3. ASSUME NEW m \in AllMembers, Delete(u, m) PROVE WrittenInv'
  <2>1. /\ req' = req
        /\ \A w \in Units, k \in AllMembers : tree'[w][k] \in {tree[w][k], Absent}
    BY <1>3 DEF Delete, StoreType, Zips
  <2> QED BY <2>1, Basics, WrittenKept
<1>4. ASSUME NEW w \in Units, MoveFolder(u, w) PROVE WrittenInv'
  <2>1. Moved(u, w)
    BY <1>4, MoveAt
  <2>2. req' = req /\ Whole(tree[u])
    <3>1. \A m \in AllMembers : Open(u, m) = {}
      BY <1>4 DEF MoveFolder
    <3> QED BY <1>4, <3>1, NotOpen DEF MoveFolder, Whole, WrittenInv
  <2> QED BY <2>1, <2>2, Basics, WrittenKept DEF Moved, Whole
<1>5. ASSUME NEW w \in Units, NEW m \in AllMembers, NEW n \in AllMembers,
             NEW isMove \in BOOLEAN, CopyMove(u, m, w, n, isMove)
      PROVE  WrittenInv'
  <2>1. Copied(u, m, w, n, isMove)
    BY <1>5, CopyAt
  <2>2. req' = req /\ tree[u][m] # Partial
    BY <1>5 DEF CopyMove, Calm
  <2>3. \A x \in Units, k \in AllMembers : tree'[x][k] \in {tree[x][k], Absent, tree[u][m]}
    BY <2>1 DEF Copied
  <2> QED BY <2>2, <2>3, Basics, WrittenKept
<1> QED BY <1>1, <1>2, <1>3, <1>4, <1>5 DEF Manage

\* The clients leave the packs, the loop and the drive alone.
LEMMA ManageUnits ==
    ASSUME NEW u \in Units, Manage(u) PROVE UNCHANGED <<pack, loop, archives>>
<1>1. CASE Mkdir(u) \/ DeleteFolder(u)
  BY <1>1 DEF Mkdir, DeleteFolder
<1>2. ASSUME NEW m \in AllMembers, Delete(u, m)
      PROVE  UNCHANGED <<pack, loop, archives>>
  BY <1>2 DEF Delete
<1>3. ASSUME NEW w \in Units, MoveFolder(u, w)
      PROVE  UNCHANGED <<pack, loop, archives>>
  BY <1>3 DEF MoveFolder
<1>4. ASSUME NEW w \in Units, NEW m \in AllMembers, NEW n \in AllMembers,
             NEW isMove \in BOOLEAN, CopyMove(u, m, w, n, isMove)
      PROVE  UNCHANGED <<pack, loop, archives>>
  BY <1>4 DEF CopyMove
<1> QED BY <1>1, <1>2, <1>3, <1>4 DEF Manage

\* So they put nothing truncated there; nor does a restart.
LEMMA WholeClients ==
    ASSUME ZipInv, UNCHANGED <<pack, archives>>, loop' = loop \/ loop' = Rest
    PROVE  ZipInv'
<1>1. Whole(Rest.zip)
  BY Basics DEF Whole, Rest, Empty
<1> QED BY <1>1 DEF ZipInv

\* What the loop packs is not being written.
LEMMA WholeWork ==
    ASSUME WholeInv,
           \/ \E u \in Units : TakeFile(u) \/ ReusePack(u) \/ PackStart(u)
           \/ PackMember \/ PackDone \/ Uploaded \/ Clear \/ Finish
           \/ PackFails \/ UploadFails \/ ClearRaises
    PROVE  ZipInv'
<1> USE DEF WholeInv, CalmInv, TypeInv
<1>0. Whole(Empty) /\ Whole(Rest.zip) /\ Whole(NoPack.zip) /\ Whole(Torn.zip)
  BY Basics DEF Whole, Rest, Empty, NoPack, Torn
<1>1. ASSUME NEW u \in Units, TakeFile(u) \/ ReusePack(u) \/ PackStart(u)
      PROVE  ZipInv'
  <2>1. Whole(tree[u])
    BY <1>1, BusyWhole DEF TakeFile, ReusePack, PackStart, Busy
  <2> QED BY <1>0, <1>1, <2>1
          DEF TakeFile, ReusePack, PackStart, Send, At, ZipInv, WorkType
<1>2. CASE PackMember
  <2>0. PICK u \in Units : u = loop.unit
    BY <1>2 DEF PackMember, WorkType
  <2>1. Whole(tree[u])
    BY <2>0, BusyWhole DEF Busy
  <2>2. loop.next \in AllMembers /\ tree[u][loop.next] \in Bytes
    BY <1>2, Basics DEF PackMember, StoreType, WorkType, LoopType, Zips, AllMembers
  <2>3. loop'.zip = [loop.zip EXCEPT ![loop.next] = tree[u][loop.next]]
    BY <1>2, <2>0, <2>2, MemberPacked DEF PackMember, WorkType
  <2>4. Whole(loop'.zip)
    BY <2>1, <2>2, <2>3 DEF Whole, ZipInv, WorkType, LoopType, Zips
  <2> QED BY <1>2, <2>4 DEF PackMember, ZipInv
<1>3. CASE PackDone
  BY <1>3 DEF PackDone, Send, At, ZipInv, Zip, WorkType
<1>4. CASE Uploaded
  BY <1>4 DEF Uploaded, Registered, ZipInv, WorkType, LoopType
<1>5. CASE Clear
  BY <1>5 DEF Clear, ZipInv, WorkType, LoopType
<1>6. CASE Finish \/ UploadFails \/ ClearRaises
  BY <1>0, <1>6 DEF Finish, UploadFails, ClearRaises, ZipInv, WorkType
<1>7. CASE PackFails
  BY <1>0, <1>7 DEF PackFails, ZipInv, WorkType, Zip
<1> QED BY <1>1, <1>2, <1>3, <1>4, <1>5, <1>6, <1>7

\* The loop truncates nothing.
LEMMA WrittenWork ==
    ASSUME WholeInv,
           \/ \E u \in Units : TakeFile(u) \/ ReusePack(u) \/ PackStart(u)
           \/ PackMember \/ PackDone \/ Uploaded \/ Clear \/ Finish
           \/ PackFails \/ UploadFails \/ ClearRaises
    PROVE  WrittenInv'
<1> USE DEF WholeInv, CalmInv, TypeInv
<1>1. CASE Clear
  <2>0. PICK u \in Units : u = loop.unit
    BY <1>1 DEF Clear, WorkType
  <2>1. /\ req' = req
        /\ \A w \in Units, k \in AllMembers :
              tree'[w][k] = IF w = u THEN Leftover(u)[k] ELSE tree[w][k]
    BY <1>1, <2>0 DEF Clear, StoreType
  <2> QED BY <2>1, LeftoverAt, Basics, WrittenKept
<1>2. CASE ~Clear
  <2>1. tree' = tree /\ req' = req
    BY <1>2 DEF TakeFile, ReusePack, PackStart, PackMember, PackDone, Uploaded, Finish,
                PackFails, UploadFails, ClearRaises, local
  <2> QED BY <2>1, WrittenKept
<1> QED BY <1>1, <1>2

\* Every step keeps truncated files out of the packs.
LEMMA WholeStep ==
    Calm /\ ~CrashDuringPut /\ WholeInv /\ [Next]_vars => WholeInv'
<1> SUFFICES ASSUME Calm, ~CrashDuringPut, WholeInv, [Next]_vars
             PROVE  WrittenInv' /\ ZipInv'
  BY CalmStep DEF WholeInv
<1> USE DEF WholeInv
<1>1. ASSUME NEW c \in Clients, Serve(c) PROVE WrittenInv' /\ ZipInv'
  <2>1. UNCHANGED <<pack, loop, archives>>
    BY <1>1 DEF Serve, PutBegin, PutEnd, PutFail, GetBegin, GetEnd
  <2> QED BY <1>1, <2>1, WrittenServe, WholeClients
<1>2. ASSUME NEW u \in Units, Manage(u) PROVE WrittenInv' /\ ZipInv'
  BY <1>2, ManageUnits, WrittenManage, WholeClients
<1>3. CASE Process \/ PackFails \/ UploadFails
  BY <1>3, WholeWork, WrittenWork DEF Process
<1>4. ASSUME NEW ready \in SUBSET Units, Due(ready) PROVE WrittenInv' /\ ZipInv'
  <2>1. UNCHANGED <<pack, loop, archives, tree, req>>
    BY <1>4 DEF Due, local
  <2> QED BY <2>1, WrittenKept, WholeClients
<1>5. CASE CrashRestart
  <2>1. /\ UNCHANGED <<pack, archives, tree>> /\ loop' = Rest
        /\ \A c \in Clients : req[c].pc # "writing"
    BY <1>5 DEF CrashRestart
  <2> QED BY <2>1, WrittenKept, WholeClients
<1>6. CASE UNCHANGED vars
  <2>1. UNCHANGED <<pack, loop, archives, tree, req>>
    BY <1>6 DEF vars
  <2> QED BY <2>1, WrittenKept, WholeClients
<1> QED BY <1>1, <1>2, <1>3, <1>4, <1>5, <1>6 DEF Next

\* There are no files at first.
LEMMA WholeInit == Init => WholeInv
<1> SUFFICES ASSUME Init PROVE WholeInv
  OBVIOUS
<1>1. WrittenInv
  BY Basics DEF Init, WrittenInv, Empty
<1>2. ZipInv
  BY Basics DEF Init, ZipInv, Whole, Empty, NoPack, Rest
<1> QED BY <1>1, <1>2, CalmInit DEF WholeInv

\* No archive holds a truncated member, when no client changes what the loop has
\* in hand, no PUT outlasts the writer timeout, and the bridge does not die in a
\* PUT.
THEOREM ArchivesAreWhole == Calm /\ ~CrashDuringPut => (Spec => []WholeMembersOnly)
<1> SUFFICES ASSUME Calm, ~CrashDuringPut PROVE Spec => []WholeMembersOnly
  OBVIOUS
<1>1. WholeInv /\ [Next]_vars => WholeInv'
  BY WholeStep
<1>2. WholeInv => WholeMembersOnly
  BY DEF WholeInv, ZipInv, Whole, WholeMembersOnly
<1> QED BY WholeInit, <1>1, <1>2, PTL DEF Spec

-----------------------------------------------------------------------------
(* No file is lost *)

\* v will do for member m of unit u: it is what the client was told is stored,
\* if it was, or the drive holds that.
Backs(u, m, v) ==
    acked[u][m] \in Contents => v = acked[u][m] \/ Stored(u, m, acked[u][m])

\* The same for all of a unit.
BacksAll(u, zip) == \A m \in AllMembers : Backs(u, m, zip[m])

\* What is staged is what the client was told, or it is gone to the drive.
StagedInv ==
    \A u \in Units, m \in AllMembers :
        /\ Backs(u, m, tree[u][m])
        /\ acked[u][m] \in Contents => tree[u][m] \in {acked[u][m], Absent}

\* A pack that may be reused will do for its unit.
PackInv == \A u \in Units : pack[u].kind = "zip" => BacksAll(u, pack[u].zip)

\* So does what the loop has packed so far, and what it sends; when it deletes
\* the unit the drive has all of it.
LoopInv ==
    \A u \in Units : loop.unit = u =>
        /\ loop.pc = "packing" =>
              \A m \in AllMembers : m < loop.next => Backs(u, m, loop.zip[m])
        /\ loop.pc = "sending" => BacksAll(u, loop.zip)
        /\ loop.pc = "clearing" => BacksAll(u, Empty)

\* What holds of the files the clients were told are stored.
LostInv == CalmInv /\ StagedInv /\ PackInv /\ LoopInv

\* A client changes nothing of a unit that is busy, and is told of nothing but
\* what is staged then.
ClientKeeps ==
    \A u \in Units, m \in AllMembers :
        \/ acked'[u][m] = acked[u][m] /\ tree'[u][m] = tree[u][m]
        \/ ~Busy(u) /\ (acked'[u][m] \in Contents => tree'[u][m] = acked'[u][m])

\* Then no file is lost: packs and the loop only hold units that are busy.
LEMMA LostClient ==
    ASSUME LostInv, ClientKeeps, UNCHANGED <<pack, archives>>,
           loop' = loop \/ loop' = Rest
    PROVE  StagedInv' /\ PackInv' /\ LoopInv'
<1> USE DEF LostInv, CalmInv, TypeInv
<1>1. ASSUME NEW u \in Units, NEW m \in AllMembers, NEW v
      PROVE  Stored(u, m, v)' = Stored(u, m, v)
  BY DEF Stored
<1>2. StagedInv'
  BY <1>1 DEF StagedInv, ClientKeeps, Backs
<1>3. ASSUME NEW u \in Units, Busy(u), NEW m \in AllMembers, NEW v, Backs(u, m, v)
      PROVE  Backs(u, m, v)'
  BY <1>1, <1>3 DEF ClientKeeps, Backs
<1>4. PackInv'
  <2> SUFFICES ASSUME NEW u \in Units, pack[u].kind = "zip", NEW m \in AllMembers
               PROVE  Backs(u, m, pack[u].zip[m])'
    BY DEF PackInv, BacksAll
  <2>1. Busy(u)
    BY DEF Busy, NoPack
  <2>2. acked'[u][m] = acked[u][m] /\ Backs(u, m, pack[u].zip[m])
    BY <2>1 DEF ClientKeeps, PackInv, BacksAll
  <2> QED BY <1>1, <2>2 DEF Backs
<1>5. LoopInv'
  <2>1. CASE loop' = Rest
    BY <2>1, Basics DEF LoopInv, Rest
  <2>2. CASE loop' = loop
    <3> SUFFICES ASSUME NEW u \in Units, loop.unit = u
                 PROVE  /\ loop.pc = "packing" =>
                             \A m \in AllMembers :
                                m < loop.next => Backs(u, m, loop.zip[m])'
                        /\ loop.pc = "sending" =>
                             \A m \in AllMembers : Backs(u, m, loop.zip[m])'
                        /\ loop.pc = "clearing" =>
                             \A m \in AllMembers : Backs(u, m, Empty[m])'
      BY <2>2 DEF LoopInv, BacksAll
    <3>1. \A m \in AllMembers : acked'[u][m] = acked[u][m]
      BY DEF ClientKeeps, Busy
    <3>2. \A m \in AllMembers :
            /\ Backs(u, m, loop.zip[m]) => Backs(u, m, loop.zip[m])'
            /\ Backs(u, m, Empty[m]) => Backs(u, m, Empty[m])'
      BY <1>1, <2>2, <3>1 DEF Backs
    <3> QED BY <3>2 DEF LoopInv, BacksAll
  <2> QED BY <2>1, <2>2
<1> QED BY <1>2, <1>4, <1>5

\* PUT and GET do so.
LEMMA ServeKeeps ==
    ASSUME Calm, LostInv, NEW c \in Clients, Serve(c)
    PROVE  ClientKeeps
<1> USE DEF LostInv, CalmInv, TypeInv
<1>1. ASSUME NEW u \in Units, NEW m \in AllMembers, PutBegin(c, u, m)
      PROVE  ClientKeeps
  <2>1. ~Busy(u) /\ \A w \in Units, k \in AllMembers :
          /\ tree'[w][k] = IF w = u /\ k = m THEN Partial ELSE tree[w][k]
          /\ acked'[w][k] = IF w = u /\ k = m THEN Absent ELSE acked[w][k]
    BY <1>1 DEF Calm, Request, PutBegin, StoreType, Zips
  <2> QED BY <2>1, Basics DEF ClientKeeps
<1>2. CASE GetEnd(c) \/ \E u \in Units, m \in AllMembers : GetBegin(c, u, m)
  BY <1>2 DEF GetEnd, GetBegin, ClientKeeps
<1>3. CASE PutFail(c) \/ \E v \in Contents : PutEnd(c, v)
  <2>0. PICK u \in Units, m \in AllMembers :
          u = req[c].unit /\ m = req[c].member
    BY <1>3 DEF PutFail, PutEnd, StoreType, ReqType
  <2>1. /\ req[c].pc = "writing" /\ c \in WritersOf(u)
        /\ acked[u][m] = Absent
    BY <1>3, <2>0 DEF PutFail, PutEnd, WritersOf, OpenInv, Opened
  <2>2. ~Busy(u)
    BY <2>1 DEF CountInv, Counted
  <2>3. PICK x :
          \/ /\ tree' = [tree EXCEPT ![u][m] = x]
             /\ acked' = [acked EXCEPT ![u][m] = x]
          \/ tree' = [tree EXCEPT ![u][m] = x] /\ acked' = acked
          \/ tree' = tree /\ acked' = acked
    BY <1>3, <2>0 DEF PutFail, PutEnd
  <2>4. \A w \in Units, k \in AllMembers :
          IF w = u /\ k = m
          THEN acked'[w][k] = tree'[w][k] \/ acked'[w][k] = Absent
          ELSE tree'[w][k] = tree[w][k] /\ acked'[w][k] = acked[w][k]
    BY <2>1, <2>3 DEF StoreType, Zips
  <2> QED BY <2>2, <2>4, Basics DEF ClientKeeps
<1> QED BY <1>1, <1>2, <1>3 DEF Serve

\* The other requests do so: what is copied has its acknowledgement with it.
LEMMA ManageKeeps ==
    ASSUME Calm, LostInv, NEW u \in Units, Manage(u)
    PROVE  ClientKeeps
<1> USE DEF LostInv, CalmInv, TypeInv
<1>1. CASE Mkdir(u)
  BY <1>1 DEF Mkdir, ClientKeeps
<1>2. CASE DeleteFolder(u)
  <2>1. ~Busy(u) /\ \A w \in Units, k \in AllMembers :
          /\ w # u => tree'[w][k] = tree[w][k]
          /\ acked'[w][k] = IF w = u THEN Absent ELSE acked[w][k]
    BY <1>2 DEF Calm, Request, DeleteFolder, StoreType, Empty
  <2> QED BY <2>1, Basics DEF ClientKeeps
<1>3. ASSUME NEW m \in AllMembers, Delete(u, m) PROVE ClientKeeps
  <2>1. ~Busy(u) /\ \A w \in Units, k \in AllMembers :
          /\ ~(w = u /\ k = m) => tree'[w][k] = tree[w][k]
          /\ acked'[w][k] = IF w = u /\ k = m THEN Absent ELSE acked[w][k]
    BY <1>3 DEF Calm, Request, Delete, StoreType, Zips
  <2> QED BY <2>1, Basics DEF ClientKeeps
<1>4. ASSUME NEW w \in Units, MoveFolder(u, w) PROVE ClientKeeps
  <2>1. Moved(u, w) /\ ~Busy(u) /\ ~Busy(w) /\ ~there[w]
    BY <1>4, MoveAt DEF MoveFolder, Calm, Request
  <2> SUFFICES ASSUME NEW x \in Units, NEW k \in AllMembers
               PROVE  \/ acked'[x][k] = acked[x][k] /\ tree'[x][k] = tree[x][k]
                      \/ /\ ~Busy(x)
                         /\ acked'[x][k] \in Contents => tree'[x][k] = acked'[x][k]
    BY DEF ClientKeeps
  <2>2. CASE x = u
    BY <2>1, <2>2, Basics DEF Moved
  <2>3. CASE x = w /\ x # u
    <3>1. tree[w][k] = Absent
      BY <2>1 DEF PlaceInv
    <3>2. tree[u][k] # Absent => (acked[u][k] \in Contents => tree[u][k] = acked[u][k])
      BY DEF StagedInv
    <3>3. /\ tree'[w][k] = tree[u][k]
          /\ acked'[w][k] = IF tree[u][k] = Absent THEN acked[w][k] ELSE acked[u][k]
      BY <2>1, <2>3 DEF Moved
    <3> QED BY <2>1, <2>3, <3>1, <3>2, <3>3
  <2>4. CASE x # w /\ x # u
    BY <2>1, <2>4 DEF Moved
  <2> QED BY <2>2, <2>3, <2>4
<1>5. ASSUME NEW w \in Units, NEW m \in AllMembers, NEW n \in AllMembers,
             NEW isMove \in BOOLEAN, CopyMove(u, m, w, n, isMove)
      PROVE  ClientKeeps
  <2>1. /\ Copied(u, m, w, n, isMove) /\ ~Busy(u) /\ ~Busy(w)
        /\ tree[u][m] # Absent
    BY <1>5, CopyAt DEF CopyMove, Calm, Request
  <2>2. acked[u][m] \in Contents => tree[u][m] = acked[u][m]
    BY <2>1 DEF StagedInv
  <2> SUFFICES ASSUME NEW x \in Units, NEW k \in AllMembers
               PROVE  \/ acked'[x][k] = acked[x][k] /\ tree'[x][k] = tree[x][k]
                      \/ /\ ~Busy(x)
                         /\ acked'[x][k] \in Contents => tree'[x][k] = acked'[x][k]
    BY DEF ClientKeeps
  <2>3. CASE isMove /\ x = u /\ k = m
    BY <2>1, <2>3, Basics DEF Copied
  <2>4. CASE ~(isMove /\ x = u /\ k = m) /\ x = w /\ k = n
    BY <2>1, <2>2, <2>4 DEF Copied
  <2>5. CASE ~(isMove /\ x = u /\ k = m) /\ ~(x = w /\ k = n)
    BY <2>1, <2>5 DEF Copied
  <2> QED BY <2>3, <2>4, <2>5
<1> QED BY <1>1, <1>2, <1>3, <1>4, <1>5 DEF Manage

\* The loop tells the clients nothing, and takes nothing off the drive.
LoopKeeps ==
    /\ acked' = acked
    /\ \A u \in Units : archives[u] \subseteq archives'[u]

\* What would do for a member still does.
LEMMA BacksKept ==
    ASSUME LoopKeeps, NEW u \in Units, NEW m \in AllMembers, NEW v, Backs(u, m, v)
    PROVE  acked'[u][m] \in Contents
              => v = acked'[u][m] \/ \E zip \in archives'[u] : zip[m] = acked'[u][m]
BY DEF LoopKeeps, Backs, Stored

\* The same for a unit.
LEMMA BacksAllKept ==
    ASSUME LoopKeeps, NEW u \in Units, NEW z, BacksAll(u, z)
    PROVE  \A m \in AllMembers : acked'[u][m] \in Contents
              => z[m] = acked'[u][m] \/ \E a \in archives'[u] : a[m] = acked'[u][m]
BY BacksKept DEF BacksAll

\* A step of the loop that leaves the directory alone keeps what is staged.
LEMMA StagedKept ==
    ASSUME LoopKeeps, StagedInv, tree' = tree
    PROVE  StagedInv'
<1>1. \A u \in Units, m \in AllMembers : Backs(u, m, tree[u][m])
  BY DEF StagedInv
<1>2. \A u \in Units, m \in AllMembers :
        acked'[u][m] \in Contents
           => tree'[u][m] = acked'[u][m] \/ \E zip \in archives'[u] : zip[m] = acked'[u][m]
  BY <1>1, BacksKept
<1> QED BY <1>2 DEF StagedInv, Backs, Stored, LoopKeeps

\* Packs that are kept as they are, thrown away, or sound ones.
LEMMA PackKept ==
    ASSUME LoopKeeps, PackInv,
           \A u \in Units :
              pack'[u].kind = "zip" =>
                 \/ pack'[u] = pack[u]
                 \/ BacksAll(u, pack'[u].zip)
    PROVE  PackInv'
<1> SUFFICES ASSUME NEW u \in Units, pack'[u].kind = "zip", NEW m \in AllMembers
             PROVE  acked'[u][m] \in Contents
                      => \/ pack'[u].zip[m] = acked'[u][m]
                         \/ \E zip \in archives'[u] : zip[m] = acked'[u][m]
  BY DEF PackInv, BacksAll, Backs, Stored
<1>1. BacksAll(u, pack'[u].zip)
  BY DEF PackInv
<1> QED BY <1>1, BacksKept DEF BacksAll

\* The loop comes to rest, or sends and packs what will do.
LEMMA LoopKept ==
    ASSUME LoopKeeps, LostInv,
           \A u \in Units : loop'.unit = u =>
              /\ loop'.pc = "packing" =>
                    \A m \in AllMembers : m < loop'.next => Backs(u, m, loop'.zip[m])
              /\ loop'.pc = "sending" => BacksAll(u, loop'.zip),
           loop'.pc # "clearing"
    PROVE  LoopInv'
<1> SUFFICES ASSUME NEW u \in Units, loop'.unit = u, NEW m \in AllMembers
             PROVE  \/ loop'.pc = "packing" /\ m < loop'.next
                    \/ loop'.pc = "sending"
                    => (acked'[u][m] \in Contents
                          => \/ loop'.zip[m] = acked'[u][m]
                             \/ \E zip \in archives'[u] : zip[m] = acked'[u][m])
  BY DEF LoopInv, BacksAll, Backs, Stored
<1>1. \/ loop'.pc = "packing" /\ m < loop'.next
      \/ loop'.pc = "sending"
      => Backs(u, m, loop'.zip[m])
  BY DEF BacksAll
<1> QED BY <1>1, BacksKept

\* What the loop takes, or reuses, will do.
LEMMA LostTake ==
    ASSUME LostInv, NEW u \in Units, TakeFile(u) \/ ReusePack(u) \/ PackStart(u)
    PROVE  StagedInv' /\ PackInv' /\ LoopInv'
<1> USE DEF LostInv, CalmInv, TypeInv
<1>1. LoopKeeps /\ tree' = tree
  BY DEF TakeFile, ReusePack, PackStart, LoopKeeps, local
<1>2. PackInv'
  BY <1>1, PackKept DEF TakeFile, ReusePack, PackStart, WorkType, Torn
<1>3. LoopInv'
  <2>1. BacksAll(u, tree[u])
    BY DEF StagedInv, BacksAll
  <2>2. pack[u].kind = "zip" => BacksAll(u, pack[u].zip)
    BY DEF PackInv
  <2>3. CASE TakeFile(u)
    <3>1. loop' = [pc |-> "sending", unit |-> u, next |-> 1, zip |-> tree[u]]
      BY <2>3 DEF TakeFile, Send, At
    <3> QED BY <1>1, <2>1, <3>1, LoopKept
  <2>4. CASE ReusePack(u)
    <3>1. /\ loop' = [pc |-> "sending", unit |-> u, next |-> 1, zip |-> pack[u].zip]
          /\ pack[u].kind = "zip"
      BY <2>4 DEF ReusePack, Send, At, Reusable
    <3> QED BY <1>1, <2>2, <3>1, LoopKept
  <2>5. CASE PackStart(u)
    <3>1. loop' = [pc |-> "packing", unit |-> u, next |-> 1, zip |-> Empty]
      BY <2>5 DEF PackStart, At
    <3>2. \A m \in AllMembers : ~(m < 1)
      BY Basics DEF AllMembers
    <3> QED BY <1>1, <3>1, <3>2, LoopKept
  <2> QED BY <2>3, <2>4, <2>5
<1> QED BY <1>1, <1>2, <1>3, StagedKept

\* So does what it packs, member by member.
LEMMA LostPack ==
    ASSUME LostInv, PackMember \/ PackDone
    PROVE  StagedInv' /\ PackInv' /\ LoopInv'
<1> USE DEF LostInv, CalmInv, TypeInv
<1>0. PICK u \in Units : u = loop.unit
  BY DEF PackMember, PackDone, WorkType
<1>1. LoopKeeps /\ tree' = tree
  BY DEF PackMember, PackDone, LoopKeeps, local
<1>2. loop.pc = "packing" /\ \A m \in AllMembers : m < loop.next => Backs(u, m, loop.zip[m])
  BY <1>0 DEF PackMember, PackDone, LoopInv
<1>3. CASE PackMember
  <2>1. loop.next \in AllMembers /\ tree[u][loop.next] \in Bytes
    BY <1>3, Basics DEF PackMember, StoreType, WorkType, LoopType, Zips, AllMembers
  <2>2. /\ loop'.pc = "packing" /\ loop'.unit = u /\ loop'.next = loop.next + 1
        /\ loop'.zip = [loop.zip EXCEPT ![loop.next] = tree[u][loop.next]]
    BY <1>0, <1>2, <1>3, <2>1, MemberPacked DEF PackMember, WorkType
  <2>3. ASSUME NEW m \in AllMembers, m < loop'.next PROVE Backs(u, m, loop'.zip[m])
    <3>0. loop.zip \in Zips /\ loop.next \in Nat /\ m \in Nat
      BY <2>1, Basics DEF WorkType, LoopType, AllMembers
    <3>1. CASE m = loop.next
      <4>1. loop'.zip[m] = tree[u][m]
        BY <2>2, <3>0, <3>1 DEF Zips
      <4> QED BY <4>1 DEF StagedInv
    <3>2. CASE m # loop.next
      <4>1. loop'.zip[m] = loop.zip[m]
        BY <2>2, <3>0, <3>2 DEF Zips
      <4>2. m < loop.next
        BY <2>2, <2>3, <3>0, <3>2
      <4> QED BY <1>2, <4>1, <4>2
    <3> QED BY <3>1, <3>2
  <2>4. PackInv'
    BY <1>1, <1>3, PackKept DEF PackMember
  <2>5. LoopInv'
    BY <1>1, <2>2, <2>3, LoopKept
  <2> QED BY <1>1, <2>4, <2>5, StagedKept
<1>4. CASE PackDone
  <2>1. BacksAll(u, loop.zip)
    <3> SUFFICES ASSUME NEW m \in AllMembers PROVE m < loop.next
      BY <1>2 DEF BacksAll
    <3> QED BY <1>4, Basics DEF PackDone, AllMembers, WorkType, LoopType
  <2>2. /\ loop' = [pc |-> "sending", unit |-> u, next |-> 1, zip |-> loop.zip]
        /\ pack' = [pack EXCEPT ![u] = Zip(loop.zip)]
    BY <1>0, <1>4 DEF PackDone, Send, At
  <2>3. PackInv'
    BY <1>1, <2>1, <2>2, PackKept DEF WorkType, Zip
  <2>4. LoopInv'
    BY <1>1, <2>1, <2>2, LoopKept
  <2> QED BY <1>1, <2>3, <2>4, StagedKept
<1> QED BY <1>3, <1>4

\* After the upload the drive has all of the unit.
LEMMA LostUploaded ==
    ASSUME LostInv, Uploaded
    PROVE  StagedInv' /\ PackInv' /\ LoopInv'
<1> USE DEF LostInv, CalmInv, TypeInv
<1>0. PICK u \in Units : u = loop.unit
  BY DEF Uploaded, WorkType
<1>1. LoopKeeps /\ tree' = tree /\ loop.zip \in archives'[u]
  BY <1>0 DEF Uploaded, Registered, LoopKeeps, local, WorkType
<1>2. PackInv'
  BY <1>1, PackKept DEF Uploaded
<1>3. loop'.pc = "clearing" /\ loop'.unit = u
  BY <1>0 DEF Uploaded, WorkType, LoopType
<1>4. BacksAll(u, loop.zip)
  BY <1>0 DEF Uploaded, LoopInv
<1>5. \A m \in AllMembers : acked'[u][m] \in Contents
         => \E zip \in archives'[u] : zip[m] = acked'[u][m]
  BY <1>1, <1>4, BacksAllKept
<1>6. LoopInv'
  BY <1>3, <1>5 DEF LoopInv, BacksAll, Backs, Stored
<1> QED BY <1>1, <1>2, <1>6, StagedKept

\* So the unit may be deleted.
LEMMA LostClear ==
    ASSUME LostInv, Clear
    PROVE  StagedInv' /\ PackInv' /\ LoopInv'
<1> USE DEF LostInv, CalmInv, TypeInv
<1>0. PICK u \in Units : u = loop.unit
  BY DEF Clear, WorkType
<1>1. /\ LoopKeeps /\ archives' = archives /\ pack' = pack
      /\ loop'.pc = "cleared"
      /\ \A w \in Units, k \in AllMembers :
            tree'[w][k] = IF w = u THEN Leftover(u)[k] ELSE tree[w][k]
  BY <1>0 DEF Clear, LoopKeeps, StoreType, WorkType, LoopType
<1>2. \A m \in AllMembers : Backs(u, m, Absent)
  BY <1>0 DEF Clear, LoopInv, BacksAll, Empty
<1>3. \A w \in Units, k \in AllMembers :
         \/ tree'[w][k] = tree[w][k]
         \/ tree'[w][k] = Absent /\ Backs(w, k, Absent)
  BY <1>1, <1>2, LeftoverAt
<1>4. StagedInv'
  BY <1>1, <1>3 DEF StagedInv, Backs, Stored, LoopKeeps
<1>5. PackInv' /\ LoopInv'
  BY <1>1, PackKept, LoopKept
<1> QED BY <1>4, <1>5

\* A failure keeps a pack that will do, or none.
LEMMA LostRest ==
    ASSUME ~PackMayFail, LostInv, PackFails \/ UploadFails \/ ClearRaises \/ Finish
    PROVE  StagedInv' /\ PackInv' /\ LoopInv'
<1> USE DEF LostInv, CalmInv, TypeInv
<1>0. PICK u \in Units : u = loop.unit
  BY DEF PackFails, UploadFails, ClearRaises, Finish, WorkType
<1>1. LoopKeeps /\ tree' = tree /\ loop' = Rest
  BY DEF PackFails, UploadFails, ClearRaises, Finish, LoopKeeps, local
<1>2. pack' = pack \/ pack' = [pack EXCEPT ![u] = NoPack]
  <2>1. CASE PackFails
    BY <1>0, <2>1 DEF PackFails, BadRar
  <2>2. CASE UploadFails \/ ClearRaises
    BY <1>0, <2>2 DEF UploadFails, ClearRaises
  <2>3. CASE Finish
    BY <1>0, <2>3 DEF Finish
  <2> QED BY <2>1, <2>2, <2>3
<1>3. PackInv'
  BY <1>1, <1>2, PackKept DEF WorkType, NoPack
<1>4. LoopInv'
  BY <1>1, Basics DEF LoopInv, Rest
<1> QED BY <1>1, <1>3, <1>4, StagedKept

\* Every step keeps every file.
LEMMA LostStep ==
    Calm /\ ~PackMayFail /\ LostInv /\ [Next]_vars => LostInv'
<1> SUFFICES ASSUME Calm, ~PackMayFail, LostInv, [Next]_vars
             PROVE  StagedInv' /\ PackInv' /\ LoopInv'
  BY CalmStep DEF LostInv
<1>1. ASSUME NEW c \in Clients, Serve(c) PROVE StagedInv' /\ PackInv' /\ LoopInv'
  <2>1. UNCHANGED <<pack, loop, archives>>
    BY <1>1 DEF Serve, PutBegin, PutEnd, PutFail, GetBegin, GetEnd
  <2> QED BY <1>1, <2>1, ServeKeeps, LostClient
<1>2. ASSUME NEW u \in Units, Manage(u) PROVE StagedInv' /\ PackInv' /\ LoopInv'
  BY <1>2, ManageUnits, ManageKeeps, LostClient
<1>3. CASE Process \/ PackFails \/ UploadFails
  BY <1>3, LostTake, LostPack, LostUploaded, LostClear, LostRest DEF Process
<1>4. ASSUME NEW ready \in SUBSET Units, Due(ready)
      PROVE  StagedInv' /\ PackInv' /\ LoopInv'
  <2>1. UNCHANGED <<pack, loop, archives, tree, acked>>
    BY <1>4 DEF Due, local
  <2> QED BY <2>1, LostClient DEF ClientKeeps
<1>5. CASE CrashRestart
  <2>1. UNCHANGED <<pack, archives, tree, acked>> /\ loop' = Rest
    BY <1>5 DEF CrashRestart
  <2> QED BY <2>1, LostClient DEF ClientKeeps
<1>6. CASE UNCHANGED vars
  <2>1. UNCHANGED <<pack, loop, archives, tree, acked>>
    BY <1>6 DEF vars
  <2> QED BY <2>1, LostClient DEF ClientKeeps
<1> QED BY <1>1, <1>2, <1>3, <1>4, <1>5, <1>6 DEF Next

\* No client was told anything at first.
LEMMA LostInit == Init => LostInv
<1> SUFFICES ASSUME Init PROVE LostInv
  OBVIOUS
<1>1. StagedInv
  BY Basics DEF Init, StagedInv, Backs, Empty
<1>2. PackInv /\ LoopInv
  BY Basics DEF Init, PackInv, LoopInv, NoPack, Rest
<1> QED BY <1>1, <1>2, CalmInit DEF LostInv

\* A file the client was told is stored is staged or on the drive, whatever
\* fails or crashes in between, when no client changes what the loop has in
\* hand, no PUT outlasts the writer timeout, and every member can be read.
THEOREM NoGameIsLost == Calm /\ ~PackMayFail => (Spec => []NoLostGame)
<1> SUFFICES ASSUME Calm, ~PackMayFail PROVE Spec => []NoLostGame
  OBVIOUS
<1>1. LostInv /\ [Next]_vars => LostInv'
  BY LostStep
<1>2. LostInv => NoLostGame
  BY Basics DEF LostInv, StagedInv, Backs, NoLostGame
<1> QED BY LostInit, <1>1, <1>2, PTL DEF Spec

=============================================================================
